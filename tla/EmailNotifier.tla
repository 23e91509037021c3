--------------------------- MODULE EmailNotifier ---------------------------
(***************************************************************************)
(* dm-notify's EmailNotifier.  The process task spawns one task per event  *)
(* that has recipients; the tasks meet at the vector of pending events     *)
(* (batch mode) and at the rate limiter, each behind a lock that is not    *)
(* held across the sending: a task pushes, drains, checks the limit, sends *)
(* to one recipient after the other and counts, in separate steps.         *)
(*                                                                         *)
(* A relay or a from address that is invalid fails every email alike and   *)
(* is left out; so is the text of an email.                                *)
(***************************************************************************)
EXTENDS Integers, Sequences, FiniteSets, SequencesExt

CONSTANTS Event,        \* the events notified, each with a task of its own
          Recipients,   \* Recipients[e]: the addresses of e's watches, in order
          BadAddress,   \* the addresses that do not parse
          BatchSizes,   \* the values of batch_size considered
          MaxPerMinute, \* max_per_minute
          Minute,       \* 60 seconds, in ticks
          MaxTime       \* bound on the clock

ASSUME RecipientsAssumption == \A e \in Event : Recipients[e] \in Seq(ToSet(Recipients[e]))
ASSUME EmailAssumption ==
    /\ BatchSizes \subseteq Nat /\ MaxPerMinute \in Nat
    /\ Minute \in Nat \ {0} /\ MaxTime \in Nat

Address == UNION {ToSet(Recipients[e]) : e \in Event}

VARIABLES batchSize, \* config.batch_size, which no step changes
          task,    \* task[e]: see TaskState
          hand,    \* hand[e]: the events task e has taken to send
          next,    \* next[e]: the recipient task e sends to next
          pending, \* the events waiting for a batch
          sentThisMinute, lastSend, \* the rate limiter
          now,     \* Instant::now()
          mails,   \* history: the emails the relay accepted
          overlapped \* history: two tasks have been between check and count

limiter == <<sentThisMinute, lastSend>>
vars == <<batchSize, task, hand, next, pending, limiter, now, mails, overlapped>>

\* new: not yet run; flushing: it found the batch full; checking: before the
\* rate limit; sending; the rest: it has returned.
TaskState == {"new", "flushing", "checking", "sending",
              "queued", "nothing", "sent", "limited", "failed"}
Ended == {"queued", "nothing", "sent", "limited", "failed"}

Init ==
    /\ batchSize \in BatchSizes
    /\ task = [e \in Event |-> "new"]
    /\ hand = [e \in Event |-> <<>>]
    /\ next = [e \in Event |-> 1]
    /\ pending = <<>>
    /\ sentThisMinute = 0 /\ lastSend = 0
    /\ now = 0
    /\ mails = <<>>
    /\ overlapped = FALSE

\* notify without batches: the task goes on to send its own event
NotifySingle(e) ==
    /\ task[e] = "new" /\ batchSize = 0
    /\ hand' = [hand EXCEPT ![e] = <<e>>]
    /\ task' = [task EXCEPT ![e] = "checking"]
    /\ UNCHANGED <<batchSize, next, pending, limiter, now, mails, overlapped>>

\* mutant: a batch goes out when it has more than batch_size events
MutNotifyBatch(e) ==
    /\ task[e] = "new" /\ batchSize > 0
    /\ pending' = Append(pending, e)
    /\ task' = [task EXCEPT ![e] = IF Len(pending') > batchSize THEN "flushing" ELSE "queued"]
    /\ UNCHANGED <<batchSize, hand, next, limiter, now, mails, overlapped>>

\* notify with batches: the event is pushed under the lock
NotifyBatch(e) ==
    /\ task[e] = "new" /\ batchSize > 0
    /\ pending' = Append(pending, e)
    /\ task' = [task EXCEPT ![e] = IF Len(pending') >= batchSize THEN "flushing" ELSE "queued"]
    /\ UNCHANGED <<batchSize, hand, next, limiter, now, mails, overlapped>>

\* mutant: the events are copied and stay pending until they are sent
MutFlush(e) ==
    /\ task[e] = "flushing"
    /\ hand' = [hand EXCEPT ![e] = pending]
    /\ task' = [task EXCEPT ![e] = IF pending = <<>> THEN "nothing" ELSE "checking"]
    /\ UNCHANGED <<batchSize, next, pending, limiter, now, mails, overlapped>>

\* mutant: an empty batch is sent
MutFlushEmpty(e) ==
    /\ task[e] = "flushing"
    /\ hand' = [hand EXCEPT ![e] = pending]
    /\ pending' = <<>>
    /\ task' = [task EXCEPT ![e] = "checking"]
    /\ UNCHANGED <<batchSize, next, limiter, now, mails, overlapped>>

\* mutant: a task that finds nothing to drain waits for the next event
MutFlushWaits(e) ==
    /\ task[e] = "flushing" /\ pending # <<>>
    /\ hand' = [hand EXCEPT ![e] = pending]
    /\ pending' = <<>>
    /\ task' = [task EXCEPT ![e] = "checking"]
    /\ UNCHANGED <<batchSize, next, limiter, now, mails, overlapped>>

\* flush: the lock is taken again and what is pending by now is drained
Flush(e) ==
    /\ task[e] = "flushing"
    /\ hand' = [hand EXCEPT ![e] = pending]
    /\ pending' = <<>>
    /\ task' = [task EXCEPT ![e] = IF pending = <<>> THEN "nothing" ELSE "checking"]
    /\ UNCHANGED <<batchSize, next, limiter, now, mails, overlapped>>

Sending == {t \in Event : task[t] = "sending"}

\* mutant: the limit is passed by one
MutCheckRateLimit(e) ==
    /\ task[e] = "checking"
    /\ LET over == now - lastSend >= Minute IN
         /\ sentThisMinute' = IF over THEN 0 ELSE sentThisMinute
         /\ lastSend' = IF over THEN now ELSE lastSend
    /\ task' = [task EXCEPT ![e] = IF sentThisMinute' > MaxPerMinute THEN "limited" ELSE "sending"]
    /\ overlapped' = (overlapped \/ (task'[e] = "sending" /\ Sending # {}))
    /\ UNCHANGED <<batchSize, hand, next, pending, now, mails>>

\* check_rate_limit: a minute after the last reset the count starts again; at
\* the limit the task ends with an error and what it holds is gone
CheckRateLimit(e) ==
    /\ task[e] = "checking"
    /\ LET over == now - lastSend >= Minute IN
         /\ sentThisMinute' = IF over THEN 0 ELSE sentThisMinute
         /\ lastSend' = IF over THEN now ELSE lastSend
    /\ task' = [task EXCEPT ![e] = IF sentThisMinute' >= MaxPerMinute THEN "limited" ELSE "sending"]
    /\ overlapped' = (overlapped \/ (task'[e] = "sending" /\ Sending # {}))
    /\ UNCHANGED <<batchSize, hand, next, pending, now, mails>>

MailRecord == [to : Address, events : Seq(Event), at : 0..MaxTime, window : 0..MaxTime]

Mail(e) == [to |-> Recipients[e][next[e]], events |-> hand[e], at |-> now,
            window |-> lastSend]

ToSend(e) == task[e] = "sending" /\ next[e] \in DOMAIN Recipients[e]

\* send_email, one turn of its loop: the relay accepts the email for the next
\* recipient or it does not, which is logged
SendTo(e) ==
    /\ ToSend(e) /\ Recipients[e][next[e]] \notin BadAddress
    /\ next' = [next EXCEPT ![e] = @ + 1]
    /\ \/ mails' = Append(mails, Mail(e))
       \/ UNCHANGED mails
    /\ UNCHANGED <<batchSize, task, hand, pending, limiter, now, overlapped>>

\* an address that does not parse: `?` leaves send_email before the recipients
\* after it and without counting the emails before it
SendFails(e) ==
    /\ ToSend(e) /\ Recipients[e][next[e]] \in BadAddress
    /\ task' = [task EXCEPT ![e] = "failed"]
    /\ UNCHANGED <<batchSize, hand, next, pending, limiter, now, mails, overlapped>>

\* after the last recipient: one more is counted, however many were sent
CountSent(e) ==
    /\ task[e] = "sending" /\ next[e] > Len(Recipients[e])
    /\ sentThisMinute' = sentThisMinute + 1
    /\ task' = [task EXCEPT ![e] = "sent"]
    /\ UNCHANGED <<batchSize, hand, next, pending, lastSend, now, mails, overlapped>>

Tick ==
    /\ now < MaxTime
    /\ now' = now + 1
    /\ UNCHANGED <<batchSize, task, hand, next, pending, limiter, mails, overlapped>>

TaskStep(e) ==
    \/ NotifySingle(e) \/ NotifyBatch(e) \/ Flush(e)
    \/ CheckRateLimit(e) \/ SendTo(e) \/ SendFails(e) \/ CountSent(e)

Next == Tick \/ \E e \in Event : TaskStep(e)

Spec == Init /\ [][Next]_vars

\* A spawned task is polled until it ends; locks are released and the relay
\* answers or times out.
FairSpec == Spec /\ \A e \in Event : WF_vars(TaskStep(e))

(***************************************************************************)
(* Properties.                                                             *)
(***************************************************************************)

\* Type invariant: also, the limiter's window began before now, and so did that
\* of each email.
TypeOK ==
    /\ batchSize \in BatchSizes
    /\ task \in [Event -> TaskState]
    /\ hand \in [Event -> Seq(Event)]
    /\ next \in [Event -> Nat \ {0}]
    /\ pending \in Seq(Event)
    /\ sentThisMinute \in Nat /\ lastSend \in 0..now /\ now \in 0..MaxTime
    /\ mails \in Seq(MailRecord)
    /\ \A i \in DOMAIN mails :
         /\ mails[i].window <= mails[i].at /\ mails[i].at <= now
         /\ mails[i].window <= lastSend
    /\ overlapped \in BOOLEAN

\* No event is dropped or taken twice between the push of its own task and the
\* drains of others: it waits, or exactly one task has it.
HeldOnce ==
    /\ IsInjective(pending)
    /\ \A e \in Event :
        LET holders == {t \in Event : e \in ToSet(hand[t])} IN
        IF task[e] = "new" THEN holders = {} /\ e \notin ToSet(pending)
        ELSE IF e \in ToSet(pending) THEN holders = {}
        ELSE Cardinality(holders) = 1

\* No email without events goes out, also when two tasks find the batch full
\* and one drains it for both.
NoEmptyMail == \A i \in DOMAIN mails : mails[i].events # <<>>

\* A full batch always has a task on its way to drain it: with no task between
\* its push and its drain, less than a batch is pending.
FullBatchesLeave ==
    (\A e \in Event : task[e] # "flushing") => Len(pending) < batchSize \/ pending = <<>>

InWindow == {i \in DOMAIN mails : mails[i].window = lastSend}

\* two watches that cover a path may both name the recipient
Once(r) == \A e \in Event : \A i, j \in DOMAIN Recipients[e] :
             Recipients[e][i] = r /\ Recipients[e][j] = r => i = j

MailsTo(r) == {i \in InWindow : mails[i].to = r}

\* As long as the tasks send one after another and no address is invalid, no
\* recipient gets more emails than the limit in one window of the limiter, but
\* those whom several watches name for one event (check_rate_limit, email.rs:163).
LoneSendersThrottled ==
    ~overlapped /\ (\A e \in Event : task[e] # "failed") =>
        \A r \in Address :
            Once(r) => Cardinality(MailsTo(r)) <= MaxPerMinute

\* Every task comes to its end, whatever the relay answers.
TasksEnd == \A e \in Event : task[e] = "new" ~> task[e] \in Ended

\* "Max emails per minute (throttle)" (config.rs:110).
ThrottleHolds ==
    \A t \in 0..MaxTime :
        Cardinality({i \in DOMAIN mails : mails[i].at \in t..(t + Minute - 1)}) <= MaxPerMinute
=============================================================================
