---------------------------- MODULE Deduplicator ----------------------------
(***************************************************************************)
(* dm-processor's EventDeduplicator as a component of its own: the table,  *)
(* the monotonic clock (std::time::Instant) it reads, and the answer of    *)
(* the latest call.  `process` reads the clock once, cleans the table,     *)
(* looks the key up and inserts, all under the caller's mutex, so a call   *)
(* is one step; time passes between calls.  process_batch calls process on *)
(* each event in turn and is a sequence of these steps.                    *)
(***************************************************************************)
EXTENDS DedupTable, Sequences

CONSTANTS Key,      \* the (path, event type) pairs, dedup.rs DedupKey
          MaxTime   \* bound on the clock

ASSUME MaxTimeAssumption == MaxTime \in Nat

VARIABLES seen,     \* EventDeduplicator.seen
          now,      \* Instant::now()
          verdict,  \* the Option<FsEvent> returned by the latest call
          passes    \* history: for each key, the instants at which it passed

dedupVars == <<seen, now, verdict, passes>>

NoVerdict == [asked |-> FALSE]
Verdict(k, p) == [asked |-> TRUE, key |-> k, passed |-> p]

Init ==
    /\ seen = EmptyTable
    /\ now = 0
    /\ verdict = NoVerdict
    /\ passes = [k \in Key |-> <<>>]

Pass(k) ==
    /\ ~IsDuplicate(seen, k, now)
    /\ verdict' = Verdict(k, TRUE)
    /\ passes' = [passes EXCEPT ![k] = Append(@, now)]

Suppress(k) ==
    /\ IsDuplicate(seen, k, now)
    /\ verdict' = Verdict(k, FALSE)
    /\ UNCHANGED passes

Process(k) ==
    /\ Pass(k) \/ Suppress(k)
    /\ seen' = ProcessedTable(seen, k, now)
    /\ UNCHANGED now

Tick ==
    /\ now < MaxTime
    /\ now' = now + 1
    /\ UNCHANGED <<seen, verdict, passes>>

Next == Tick \/ \E k \in Key : Process(k)

Spec == Init /\ [][Next]_dedupVars

(***************************************************************************)
(* Properties.                                                             *)
(***************************************************************************)

\* Type invariant of the table, the clock, the answer and the history.
TypeOK ==
    /\ DOMAIN seen \subseteq Key
    /\ \A k \in DOMAIN seen : seen[k] \in 0..now
    /\ now \in 0..MaxTime
    /\ verdict = NoVerdict \/ \E k \in Key, p \in BOOLEAN : verdict = Verdict(k, p)
    /\ passes \in [Key -> Seq(0..MaxTime)]

\* Two events of one key that both get through are at least a window apart,
\* over the whole life of the deduplicator and across every cleanup of the
\* table (EventDeduplicator::process).
PassesApart ==
    \A k \in Key : \A i, j \in DOMAIN passes[k] :
        i < j => passes[k][j] - passes[k][i] >= Window

LatestPass(k) == passes[k][Len(passes[k])]

RecentlyPassed(k) ==
    passes[k] # <<>> /\ now - LatestPass(k) < Window

\* An event is withheld only on account of one of the same key that did get
\* through less than a window ago: duplicates never prolong the silence, so
\* a path that changes without pause is still reported once per window.
SuppressedOnlyIfRecent ==
    [][\A k \in Key : Process(k) /\ ~verdict'.passed => RecentlyPassed(k)]_dedupVars

EveryEntryIsFresh(table) == \A k \in DOMAIN table : now - table[k] < Window

\* The table does not grow with the life of the process: after every call it
\* holds only keys that got through within the last window (cleanup).
ProcessCleans == (\E k \in Key : Process(k)) => EveryEntryIsFresh(seen')
TableIsFresh == [][ProcessCleans]_dedupVars

\* The table implements a hold timer per key: the ticks left of the window.
HoldOf(k) ==
    IF k \in DOMAIN seen /\ Fresh(seen, k, now)
    THEN Window - (now - seen[k]) ELSE 0

Hold == INSTANCE DedupHold WITH hold <- [k \in Key |-> HoldOf(k)]

\* Every behaviour of the table is one of the hold timers of DedupHold: same
\* answers, at the same times.
ImplementsHold == Hold!HoldSpec
=============================================================================
