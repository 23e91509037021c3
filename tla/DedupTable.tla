----------------------------- MODULE DedupTable -----------------------------
(***************************************************************************)
(* The table kept by dm-processor's EventDeduplicator and what one call of *)
(* `process` does to it.  A table maps a key (path, event type) to the     *)
(* instant of the event that was let through; the event itself, which the  *)
(* code keeps beside the instant, is never read and is left out.           *)
(***************************************************************************)
EXTENDS Integers

CONSTANT Window    \* EventDeduplicator.window, in clock units

ASSUME WindowAssumption == Window \in Nat \ {0}

EmptyTable == [k \in {} |-> 0]

\* mutant: the window is inclusive
MutFreshInclusive(table, k, t) == t - table[k] <= Window

\* duration_since(first_time) < window
Fresh(table, k, t) == t - table[k] < Window

\* cleanup: retain the entries that are still inside the window
CleanedTable(table, t) ==
    [k \in {x \in DOMAIN table : Fresh(table, x, t)} |-> table[k]]

\* insert(key, (now, event))
Insert(table, k, t) ==
    [x \in DOMAIN table \cup {k} |-> IF x = k THEN t ELSE table[x]]

\* mutant: the key is looked up before the cleanup
MutLookupBeforeCleanup(table, k, t) == k \in DOMAIN table

\* process answers None: the cleaned table has the key, inside the window
IsDuplicate(table, k, t) ==
    LET c == CleanedTable(table, t) IN k \in DOMAIN c /\ Fresh(c, k, t)

\* mutant: a duplicate re-arms the window (last seen in place of first seen)
MutRearmOnDuplicate(table, k, t) == Insert(CleanedTable(table, t), k, t)

\* mutant: cleanup is forgotten
MutNeverClean(table, k, t) ==
    IF IsDuplicate(table, k, t) THEN table ELSE Insert(table, k, t)

\* mutant: a key that comes back after its window keeps its old instant
MutKeepOldInstant(table, k, t) ==
    IF k \in DOMAIN table THEN table ELSE Insert(table, k, t)

\* a duplicate leaves the first instant in place; anything else (re)arms it
ProcessedTable(table, k, t) ==
    IF IsDuplicate(table, k, t)
    THEN CleanedTable(table, t)
    ELSE Insert(CleanedTable(table, t), k, t)

=============================================================================
