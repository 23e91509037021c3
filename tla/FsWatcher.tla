----------------------------- MODULE FsWatcher ------------------------------
(***************************************************************************)
(* dm-watcher's FsWatcher: the notify callback of each watcher pushes into *)
(* an unbounded queue, a thread of its own (debounce_loop) collects what   *)
(* it converts into `pending` and sends it as one batch when the queue has *)
(* been silent for the debounce duration, and all the threads send into    *)
(* one tokio broadcast channel.  The process task subscribes to that       *)
(* channel some time after the first watchers run; what is sent before it  *)
(* does has no receiver and is dropped by the channel.                     *)
(*                                                                         *)
(* Time is left out: recv_timeout may time out whenever the queue is empty *)
(* and the callback still exists; how long the silence has to last is not  *)
(* visible to the properties below.                                        *)
(***************************************************************************)
EXTENDS Integers, Sequences, SequencesExt

CONSTANTS Watcher,    \* one element per FsWatcher ever created
          Key,        \* (path, event type) of the events convert_event keeps
          Noise,      \* notify events convert_event maps to None
          Fault,      \* notify errors
          MaxRaised   \* bound on the items notify reports

ASSUME MaxRaisedAssumption == MaxRaised \in Nat
ASSUME ItemAssumption ==
    Noise \cap Key = {} /\ Fault \cap Key = {} /\ Noise \cap Fault = {}

VARIABLES status,     \* status[w]: see Status
          raw,        \* raw[w]: the std mpsc queue between callback and thread
          pending,    \* pending[w]: debounce_loop's Vec of converted events
          sent,       \* messages the broadcast channel accepted, oldest first
          listening,  \* the process task has subscribed
          reported,   \* history: every item notify reported, in order
          lost        \* history: [id, why] of every event that is gone

watcherVars == <<status, raw, pending, sent, listening, reported, lost>>

\* absent: not created; running: watching; closing: the FsWatcher has been
\* dropped and with it the callback's sender; gone: the thread has returned.
Status == {"absent", "running", "closing", "gone"}

Event == [id : 1..MaxRaised, key : Key, from : Watcher]
Item == [id : 1..MaxRaised, key : Key \cup Noise \cup Fault, from : Watcher]

Message == [kind : {"batch"}, events : Seq(Event) \ {<<>>}] \cup
           [kind : {"error"}, events : {<<>>}]

Batch(events) == [kind |-> "batch", events |-> events]
ErrorMessage == [kind |-> "error", events |-> <<>>]
Loss(e, why) == [id |-> e.id, why |-> why]
Losses(events, why) == {Loss(e, why) : e \in ToSet(events)}

WatcherInit ==
    /\ status = [w \in Watcher |-> "absent"]
    /\ raw = [w \in Watcher |-> <<>>]
    /\ pending = [w \in Watcher |-> <<>>]
    /\ sent = <<>>
    /\ listening = FALSE
    /\ reported = <<>>
    /\ lost = {}

\* broadcast::Sender::send: an error, ignored by the caller, if nobody listens
Send(m) ==
    IF listening
    THEN sent' = Append(sent, m) /\ UNCHANGED lost
    ELSE lost' = lost \cup Losses(m.events, "unheard") /\ UNCHANGED sent

\* FsWatcher::new and add_watch, from add_watcher or reload
StartWatcher(w) ==
    /\ status[w] = "absent"
    /\ status' = [status EXCEPT ![w] = "running"]
    /\ UNCHANGED <<raw, pending, sent, listening, reported, lost>>

\* a reload drops the FsWatcher
DropWatcher(w) ==
    /\ status[w] = "running"
    /\ status' = [status EXCEPT ![w] = "closing"]
    /\ UNCHANGED <<raw, pending, sent, listening, reported, lost>>

\* the notify callback reports an event or an error
Notify(w, k) ==
    /\ status[w] = "running"
    /\ Len(reported) < MaxRaised
    /\ LET item == [id |-> Len(reported) + 1, key |-> k, from |-> w] IN
         /\ reported' = Append(reported, item)
         /\ raw' = [raw EXCEPT ![w] = Append(@, item)]
    /\ UNCHANGED <<status, pending, sent, listening, lost>>

\* mutant: an error throws away what is pending
MutErrorClearsPending(w) ==
    /\ status[w] \in {"running", "closing"}
    /\ raw[w] # <<>>
    /\ raw' = [raw EXCEPT ![w] = Tail(@)]
    /\ LET item == Head(raw[w]) IN
         IF item.key \in Fault
         THEN Send(ErrorMessage) /\ pending' = [pending EXCEPT ![w] = <<>>]
         ELSE /\ pending' = [pending EXCEPT ![w] =
                     IF item.key \in Noise THEN @ ELSE Append(@, item)]
              /\ UNCHANGED <<sent, lost>>
    /\ UNCHANGED <<status, listening, reported>>

\* debounce_loop receives an item: errors are forwarded at once, ahead of the
\* events still pending; converted events wait
DebounceRecv(w) ==
    /\ status[w] \in {"running", "closing"}
    /\ raw[w] # <<>>
    /\ raw' = [raw EXCEPT ![w] = Tail(@)]
    /\ LET item == Head(raw[w]) IN
         \/ /\ item.key \in Fault
            /\ Send(ErrorMessage)
            /\ UNCHANGED pending
         \/ /\ item.key \in Noise
            /\ UNCHANGED <<pending, sent, lost>>
         \/ /\ item.key \in Key
            /\ pending' = [pending EXCEPT ![w] = Append(@, item)]
            /\ UNCHANGED <<sent, lost>>
    /\ UNCHANGED <<status, listening, reported>>

\* mutant: a batch is sent newest event first
MutFlushReversed(w) ==
    /\ status[w] = "running" /\ raw[w] = <<>> /\ pending[w] # <<>>
    /\ Send(Batch(Reverse(pending[w])))
    /\ pending' = [pending EXCEPT ![w] = <<>>]
    /\ UNCHANGED <<status, raw, listening, reported>>

\* mutant: a batch waits for a second event
MutFlushNeedsTwo(w) ==
    /\ status[w] = "running" /\ raw[w] = <<>> /\ Len(pending[w]) > 1
    /\ Send(Batch(pending[w]))
    /\ pending' = [pending EXCEPT ![w] = <<>>]
    /\ UNCHANGED <<status, raw, listening, reported>>

\* recv_timeout times out: everything pending goes out as one batch
DebounceFlush(w) ==
    /\ status[w] = "running"
    /\ raw[w] = <<>>
    /\ pending[w] # <<>>
    /\ Send(Batch(pending[w]))
    /\ pending' = [pending EXCEPT ![w] = <<>>]
    /\ UNCHANGED <<status, raw, listening, reported>>

\* recv_timeout finds the queue empty and its sender gone: the loop breaks
\* and pending goes out of scope with it
DebounceEnd(w) ==
    /\ status[w] = "closing"
    /\ raw[w] = <<>>
    /\ status' = [status EXCEPT ![w] = "gone"]
    /\ lost' = lost \cup Losses(pending[w], "closed")
    /\ pending' = [pending EXCEPT ![w] = <<>>]
    /\ UNCHANGED <<raw, sent, listening, reported>>

\* the process task calls subscribe()
Subscribe ==
    /\ ~listening
    /\ listening' = TRUE
    /\ UNCHANGED <<status, raw, pending, sent, reported, lost>>

DebounceStep(w) == DebounceRecv(w) \/ DebounceFlush(w) \/ DebounceEnd(w)

WatcherNext ==
    \/ Subscribe
    \/ \E w \in Watcher :
         \/ StartWatcher(w)
         \/ DropWatcher(w)
         \/ \E k \in Key \cup Noise \cup Fault : Notify(w, k)
         \/ DebounceStep(w)

WatcherSpec == WatcherInit /\ [][WatcherNext]_watcherVars

\* Each debounce thread is an OS thread and keeps being scheduled.
WatcherFairSpec ==
    WatcherSpec /\ \A w \in Watcher : WF_watcherVars(DebounceStep(w))

(***************************************************************************)
(* Properties.                                                             *)
(***************************************************************************)

\* Type invariant of the watchers and their channel.
WatcherTypeOK ==
    /\ status \in [Watcher -> Status]
    /\ raw \in [Watcher -> Seq(Item)]
    /\ pending \in [Watcher -> Seq(Event)]
    /\ sent \in Seq(Message)
    /\ listening \in BOOLEAN
    /\ reported \in Seq(Item)
    /\ Len(reported) <= MaxRaised
    /\ lost \subseteq [id : 1..MaxRaised, why : {"unheard", "closed", "lagged"}]

Sorted(s) == \A i, j \in DOMAIN s : i < j => s[i].id < s[j].id

AllBefore(s, t) ==
    \A i \in DOMAIN s, j \in DOMAIN t : s[i].from = t[j].from => s[i].id < t[j].id

\* The events of one watcher reach the channel in the order in which notify
\* reported them, each at most once, through two queues and across batches
\* (debounce_loop).
InOrder ==
    /\ \A w \in Watcher :
         Sorted(raw[w]) /\ Sorted(pending[w]) /\ AllBefore(pending[w], raw[w])
    /\ \A m \in DOMAIN sent :
         /\ Sorted(sent[m].events)
         /\ \A n \in DOMAIN sent : m < n => AllBefore(sent[m].events, sent[n].events)
         /\ \A w \in Watcher : /\ AllBefore(sent[m].events, pending[w])
                               /\ AllBefore(sent[m].events, raw[w])

IsSent(e) == \E m \in DOMAIN sent : e \in ToSet(sent[m].events)
IsWaiting(e) == e \in ToSet(raw[e.from]) \cup ToSet(pending[e.from])
IsLost(e) == \E l \in lost : l.id = e.id

\* No event vanishes and none is in two places: what notify reported is still
\* waiting, was sent, or was lost for one of the two reasons of the code, a
\* channel without a receiver and a thread that ends with events pending.
Conserved ==
    \A i \in DOMAIN reported :
        LET e == reported[i] IN
        e.key \in Key =>
            \/ IsWaiting(e) /\ ~IsSent(e) /\ ~IsLost(e)
            \/ IsSent(e) /\ ~IsWaiting(e) /\ ~IsLost(e)
            \/ IsLost(e) /\ ~IsWaiting(e) /\ ~IsSent(e)

\* Whatever a watcher has collected leaves the thread once notify is silent:
\* also when the last batch holds one event, or only noise follows it.
EverythingLeaves ==
    \A w \in Watcher :
        (raw[w] # <<>> \/ pending[w] # <<>>) ~> (raw[w] = <<>> /\ pending[w] = <<>>)

\* "All events are preserved" (watcher.rs:114): no event that notify reported
\* is discarded by the debounce loop.
AllEventsPreserved == \A l \in lost : l.why # "closed"
=============================================================================
