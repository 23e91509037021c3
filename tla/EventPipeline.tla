--------------------------- MODULE EventPipeline ----------------------------
(***************************************************************************)
(* run_serve's event path, end to end: the watchers' threads (FsWatcher)   *)
(* publish batches on the broadcast channel of capacity Capacity; the one  *)
(* process task receives a message, takes the read lock of the filters and *)
(* keeps it for the whole message, and for each event asks the             *)
(* deduplicator, then the filter, counts, awaits the insert into the event *)
(* store, publishes to the web clients and spawns the script task.  A      *)
(* reload (HTTP or SIGHUP) replaces the filters under the write lock, and  *)
(* starts and drops watchers.                                              *)
(*                                                                         *)
(* Not here: what happens behind the store, the notifiers and the web      *)
(* channel, and shutdown, which simply stops every task.                   *)
(***************************************************************************)
EXTENDS FsWatcher, DedupTable, EventFilter, FiniteSets

CONSTANTS Capacity,     \* of broadcast::channel::<WatchEvent>
          Configs,      \* the sequences of watches a configuration may have
          StartConfig,  \* the one of them at the start
          MaxTime       \* bound on the clock

ASSUME CapacityAssumption == Capacity \in Nat \ {0}
ASSUME ConfigAssumption == StartConfig \in Configs
ASSUME PipelineTimeAssumption == MaxTime \in Nat

VARIABLES cursor,     \* messages of `sent` the process task is done with
          task,       \* where the process task is: see TaskState
          batch,      \* the events of the current message not yet decided
          filters,    \* shared_filters: sequence of [root, filter]
          seen,       \* the deduplicator's table
          now,        \* Instant::now()
          metrics,    \* MetricsRegistry: the counters of this path
          stored,     \* event ids in the events table, oldest row first
          failed,     \* ids of the events whose insert answered with an error
          published,  \* event ids sent to the web channel, oldest first
          scripts,    \* ids of the events whose script task has not ended
          journal     \* history: what was decided of each event, and when

FilterLists == {FiltersOf(watches) : watches \in Configs}

taskVars == <<cursor, task, batch, filters, seen, now, metrics, stored,
              failed, published, scripts, journal>>
vars == <<watcherVars, taskVars>>

\* idle: in recv; locking: awaiting filters.read(); deciding: before the next
\* event; storing: awaiting the insert of an event; publishing: after it.
TaskState == {"idle", "locking", "deciding", "storing", "publishing"}
HoldsFilters == task \in {"deciding", "storing", "publishing"}

Outcome == {"deduped", "dropped", "recorded"}

Init ==
    /\ WatcherInit
    /\ cursor = 0
    /\ task = "idle"
    /\ batch = <<>>
    /\ filters = FiltersOf(StartConfig)
    /\ seen = EmptyTable
    /\ now = 0
    /\ metrics = [batches |-> 0, deduped |-> 0, dropped |-> 0, total |-> 0]
    /\ stored = <<>>
    /\ failed = {}
    /\ published = <<>>
    /\ scripts = {}
    /\ journal = <<>>

-----------------------------------------------------------------------------
(* The broadcast channel, seen by its one receiver.                        *)

\* mutant: lag ends the loop (while let Ok(event) = rx.recv().await)
MutLagEndsLoop ==
    /\ task = "idle" /\ listening
    /\ Len(sent) - cursor > Capacity
    /\ task' = "ended"
    /\ UNCHANGED <<watcherVars, cursor, batch, filters, seen, now, metrics, stored, failed,
                   published, scripts, journal>>

\* recv finds that the slot of its next message has been reused: it reports
\* how many messages it missed and moves to the oldest one retained
RecvLagged ==
    /\ task = "idle" /\ listening
    /\ Len(sent) - cursor > Capacity
    /\ cursor' = Len(sent) - Capacity
    /\ lost' = lost \cup
         UNION {Losses(sent[m].events, "lagged") : m \in cursor + 1 .. cursor'}
    /\ UNCHANGED <<status, raw, pending, sent, listening, reported, task, batch,
                   filters, seen, now, metrics, stored, failed, published, scripts, journal>>

\* recv returns the next message; one that tells of an error has no events
Recv ==
    /\ task = "idle" /\ listening
    /\ Len(sent) - cursor \in 1..Capacity
    /\ cursor' = cursor + 1
    /\ task' = "locking"
    /\ batch' = sent[cursor'].events
    /\ UNCHANGED <<watcherVars, filters, seen, now, metrics, stored, failed,
                   published, scripts, journal>>

\* filters.read() is granted; a batch is counted, an error only logged
TakeFilters ==
    /\ task = "locking"
    /\ \/ batch = <<>> /\ task' = "idle" /\ UNCHANGED metrics
       \/ batch # <<>> /\ task' = "deciding"
            /\ metrics' = [metrics EXCEPT !.batches = @ + 1]
    /\ UNCHANGED <<watcherVars, cursor, batch, filters, seen, now, stored, failed,
                   published, scripts, journal>>

-----------------------------------------------------------------------------
(* The decision on one event.                                              *)

Decided(e, outcome) ==
    [event |-> e, at |-> now, outcome |-> outcome, allowed |-> Allows(filters, e.key)]

\* after an event, on to the next one, or release the filters and recv
NextEvent ==
    /\ batch' = Tail(batch)
    /\ task' = IF Tail(batch) = <<>> THEN "idle" ELSE "deciding"

\* mutant: a duplicate ends the batch (return in place of continue)
MutDedupReturns ==
    /\ task = "deciding"
    /\ IsDuplicate(seen, Head(batch).key, now)
    /\ seen' = ProcessedTable(seen, Head(batch).key, now)
    /\ metrics' = [metrics EXCEPT !.deduped = @ + 1]
    /\ journal' = Append(journal, Decided(Head(batch), "deduped"))
    /\ batch' = <<>> /\ task' = "idle"
    /\ UNCHANGED <<watcherVars, cursor, filters, now, stored, failed, published, scripts>>

\* the deduplicator answers None
DedupEvent ==
    /\ task = "deciding"
    /\ IsDuplicate(seen, Head(batch).key, now)
    /\ seen' = ProcessedTable(seen, Head(batch).key, now)
    /\ metrics' = [metrics EXCEPT !.deduped = @ + 1]
    /\ journal' = Append(journal, Decided(Head(batch), "deduped"))
    /\ NextEvent
    /\ UNCHANGED <<watcherVars, cursor, filters, now, stored, failed, published, scripts>>

\* mutant: a rejected event is not counted
MutDropUncounted ==
    /\ task = "deciding"
    /\ ~IsDuplicate(seen, Head(batch).key, now)
    /\ seen' = ProcessedTable(seen, Head(batch).key, now)
    /\ ~Allows(filters, Head(batch).key)
    /\ journal' = Append(journal, Decided(Head(batch), "dropped"))
    /\ NextEvent
    /\ UNCHANGED <<watcherVars, cursor, filters, now, metrics, stored, failed,
                   published, scripts>>

\* the deduplicator lets the event through and the filter rejects it
DropEvent ==
    /\ task = "deciding"
    /\ ~IsDuplicate(seen, Head(batch).key, now)
    /\ seen' = ProcessedTable(seen, Head(batch).key, now)
    /\ ~Allows(filters, Head(batch).key)
    /\ metrics' = [metrics EXCEPT !.dropped = @ + 1]
    /\ journal' = Append(journal, Decided(Head(batch), "dropped"))
    /\ NextEvent
    /\ UNCHANGED <<watcherVars, cursor, filters, now, stored, failed, published, scripts>>

\* mutant: the insert is not awaited
MutRecordWithoutStore ==
    /\ task = "deciding"
    /\ ~IsDuplicate(seen, Head(batch).key, now)
    /\ seen' = ProcessedTable(seen, Head(batch).key, now)
    /\ Allows(filters, Head(batch).key)
    /\ metrics' = [metrics EXCEPT !.total = @ + 1]
    /\ journal' = Append(journal, Decided(Head(batch), "recorded"))
    /\ task' = "publishing"
    /\ UNCHANGED <<watcherVars, cursor, batch, filters, now, stored, failed,
                   published, scripts>>

\* both let it through: record_event, then the insert is awaited
RecordEvent ==
    /\ task = "deciding"
    /\ ~IsDuplicate(seen, Head(batch).key, now)
    /\ seen' = ProcessedTable(seen, Head(batch).key, now)
    /\ Allows(filters, Head(batch).key)
    /\ metrics' = [metrics EXCEPT !.total = @ + 1]
    /\ journal' = Append(journal, Decided(Head(batch), "recorded"))
    /\ task' = "storing"
    /\ UNCHANGED <<watcherVars, cursor, batch, filters, now, stored, failed,
                   published, scripts>>

\* insert().await returns: the row is there, or the insert failed (the worker
\* is gone, SQLite refused) and the error is only logged
StoreEvent ==
    /\ task = "storing"
    /\ task' = "publishing"
    /\ \/ stored' = Append(stored, Head(batch).id) /\ UNCHANGED failed
       \/ failed' = failed \cup {Head(batch).id} /\ UNCHANGED stored
    /\ UNCHANGED <<watcherVars, cursor, batch, filters, seen, now, metrics,
                   published, scripts, journal>>

\* web_tx.send and the spawned script, "sync" and "async" alike; the process task
\* keeps the configuration of the start, whatever was reloaded since
PublishEvent ==
    /\ task = "publishing"
    /\ published' = Append(published, Head(batch).id)
    /\ scripts' = IF RunsScript(StartConfig, Head(batch).key)
                  THEN scripts \cup {Head(batch).id} ELSE scripts
    /\ NextEvent
    /\ UNCHANGED <<watcherVars, cursor, filters, seen, now, metrics, stored, failed,
                   journal>>

-----------------------------------------------------------------------------
(* The environment of the process task.                                    *)

\* a reload takes the write lock: no reader may hold the filters
ReplaceFilters ==
    /\ ~HoldsFilters
    /\ filters' \in FilterLists \ {filters}
    /\ UNCHANGED <<watcherVars, cursor, task, batch, seen, now, metrics, stored, failed,
                   published, scripts, journal>>

\* a spawned script task ends
ScriptEnds ==
    /\ \E id \in scripts : scripts' = scripts \ {id}
    /\ UNCHANGED <<watcherVars, cursor, task, batch, filters, seen, now, metrics,
                   stored, failed, published, journal>>

Tick ==
    /\ now < MaxTime
    /\ now' = now + 1
    /\ UNCHANGED <<watcherVars, cursor, task, batch, filters, seen, metrics,
                   stored, failed, published, scripts, journal>>

TaskStep ==
    \/ RecvLagged \/ Recv \/ TakeFilters
    \/ DedupEvent \/ DropEvent \/ RecordEvent
    \/ StoreEvent \/ PublishEvent

Next ==
    \/ WatcherNext /\ UNCHANGED taskVars
    \/ TaskStep
    \/ ReplaceFilters \/ ScriptEnds \/ Tick

Spec == Init /\ [][Next]_vars

\* Every await of the process task comes to an end: the store's worker answers
\* or its channel closes, and no reload keeps the write lock.  Each task and
\* thread keeps being scheduled.
FairSpec ==
    Spec /\ WF_vars(TaskStep) /\ \A w \in Watcher : WF_vars(DebounceStep(w) /\ UNCHANGED taskVars)

(***************************************************************************)
(* Properties.                                                             *)
(***************************************************************************)

\* the events of the current message that are still to be decided
InHand == IF task \in {"storing", "publishing"} THEN Tail(batch) ELSE batch

Received == UNION {ToSet(sent[m].events) : m \in 1..cursor}

\* Type invariant of the process task, with the shape of its program counter.
TypeOK ==
    /\ WatcherTypeOK
    /\ cursor \in 0..Len(sent)
    /\ task \in TaskState
    /\ batch \in Seq(Event)
    /\ task = "idle" => batch = <<>>
    /\ HoldsFilters => batch # <<>>
    /\ filters \in FilterLists
    /\ DOMAIN seen \subseteq Key
    /\ \A k \in DOMAIN seen : seen[k] \in 0..now
    /\ now \in 0..MaxTime
    /\ metrics \in [{"batches", "deduped", "dropped", "total"} -> Nat]
    /\ stored \in Seq(1..MaxRaised)
    /\ failed \subseteq 1..MaxRaised
    /\ published \in Seq(1..MaxRaised)
    /\ scripts \subseteq 1..MaxRaised
    /\ journal \in Seq([event : Event, at : 0..MaxTime, outcome : Outcome,
                      allowed : BOOLEAN])

\* The history covers what happens: for every event the filters let through
\* whose insert is not still awaited, the events table has that event, or one
\* of the same path and type that was decided before it, less than a window
\* earlier -- unless the insert of that one failed, or the filters of that
\* time rejected it and a reload replaced them in between (the deduplicator is
\* asked before the filter and remembers what the filter then rejects).
HistoryCovers ==
    \A j \in DOMAIN journal :
        journal[j].allowed /\ ~(j = Len(journal) /\ task = "storing") =>
            \E i \in 1..j :
                /\ journal[i].event.key = journal[j].event.key
                /\ journal[j].at - journal[i].at < Window
                /\ \/ journal[i].event.id \in ToSet(stored) \cup failed
                   \/ journal[i].outcome = "dropped" /\ ~journal[i].allowed

\* The path of an event of one watcher from notify to the decision keeps the
\* order, across the batches, the lag of the channel and the filters.
DecidedInOrder ==
    \A i, j \in DOMAIN journal :
        i < j /\ journal[i].event.from = journal[j].event.from
            => journal[i].event.id < journal[j].event.id

\* Every event the channel accepted has exactly one fate once it is behind the
\* cursor: in hand, decided, or skipped by a lagging receiver.
ReceivedHasOneFate ==
    \A e \in Received :
        LET decided == Cardinality({i \in DOMAIN journal : journal[i].event = e})
        IN  \/ decided = 1 /\ ~IsLost(e) /\ e \notin ToSet(InHand)
            \/ decided = 0 /\ IsLost(e) /\ e \notin ToSet(InHand)
            \/ decided = 0 /\ ~IsLost(e) /\ e \in ToSet(InHand)

\* The counters a scrape of /metrics reads account for every event received
\* and not skipped by lag, whatever mix of outcomes its batch had.
CountersAccountForEvents ==
    metrics.deduped + metrics.dropped + metrics.total + Len(InHand)
        = Cardinality({e \in Received : ~IsLost(e)})

\* the row of the i-th event the web clients were sent, if its insert succeeded
RowOf(i) == Cardinality({k \in 1..i : published[k] \notin failed})

\* The live view never runs ahead of the history: the web clients are sent the
\* events in the order of the rows of the events table, each after the store
\* has answered for it, and without those whose insert failed the two are
\* equal up to the one event being published.
LiveFollowsHistory ==
    /\ \A i \in DOMAIN published : published[i] \notin failed =>
         RowOf(i) \in DOMAIN stored /\ stored[RowOf(i)] = published[i]
    /\ Len(stored) - RowOf(Len(published)) \in {0, 1}

\* While the process task is subscribed and its lag is not lost, every event
\* in the channel is decided.
SentIsDecided ==
    \A m \in 1..MaxRaised :
        (m \in DOMAIN sent) ~> (m <= cursor /\ task = "idle")
=============================================================================
