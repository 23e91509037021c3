------------------------- MODULE DeduplicatorProofs -------------------------
(***************************************************************************)
(* The deduplicator's properties for every set of keys, every window and   *)
(* every bound on the clock.                                               *)
(*                                                                         *)
(* The argument: the table remembers exactly the passes that still matter  *)
(* (TableTracksPasses), so a key that is absent from the cleaned table, or *)
(* outside its window, last passed at least a window ago.                  *)
(***************************************************************************)
EXTENDS Deduplicator, TLAPS

-----------------------------------------------------------------------------
(* What the operators of DedupTable return, for every table and window. *)

\* What the cleanup leaves: the entries inside the window, unchanged.
LEMMA CleanedTableFact ==
    ASSUME NEW table, NEW t
    PROVE  /\ DOMAIN CleanedTable(table, t) =
                 {x \in DOMAIN table : t - table[x] < Window}
           /\ \A x \in DOMAIN CleanedTable(table, t) :
                 CleanedTable(table, t)[x] = table[x]
BY DEF CleanedTable, Fresh

\* A key is a duplicate exactly when its entry is inside the window.
LEMMA IsDuplicateFact ==
    ASSUME NEW table, NEW k, NEW t
    PROVE  IsDuplicate(table, k, t) <=>
              k \in DOMAIN table /\ t - table[k] < Window
BY CleanedTableFact DEF IsDuplicate, Fresh

\* The table after a call: the asked key with its instant, and the entries
\* that were inside the window.
LEMMA ProcessedTableFact ==
    ASSUME NEW table, NEW k, NEW t
    PROVE  /\ DOMAIN ProcessedTable(table, k, t) \subseteq DOMAIN table \cup {k}
           /\ k \in DOMAIN ProcessedTable(table, k, t)
           /\ IsDuplicate(table, k, t) =>
                 ProcessedTable(table, k, t)[k] = table[k]
           /\ ~IsDuplicate(table, k, t) => ProcessedTable(table, k, t)[k] = t
           /\ \A x : x # k =>
                 /\ x \in DOMAIN ProcessedTable(table, k, t) <=>
                       x \in DOMAIN table /\ t - table[x] < Window
                 /\ x \in DOMAIN ProcessedTable(table, k, t) =>
                       ProcessedTable(table, k, t)[x] = table[x]
<1>1. CASE IsDuplicate(table, k, t)
  BY <1>1, CleanedTableFact, IsDuplicateFact DEF ProcessedTable
<1>2. CASE ~IsDuplicate(table, k, t)
  <2> DEFINE c == CleanedTable(table, t)
             p == ProcessedTable(table, k, t)
  <2>1. p = [x \in DOMAIN c \cup {k} |-> IF x = k THEN t ELSE c[x]]
    BY <1>2 DEF ProcessedTable, Insert
  <2>2. /\ DOMAIN c = {x \in DOMAIN table : t - table[x] < Window}
        /\ \A x \in DOMAIN c : c[x] = table[x]
    BY CleanedTableFact
  <2> HIDE DEF c, p
  <2>3. DOMAIN p = DOMAIN c \cup {k}
    BY <2>1
  <2>4. p[k] = t
    BY <2>1
  <2>5. \A x : x # k /\ x \in DOMAIN p => x \in DOMAIN c /\ p[x] = table[x]
    BY <2>1, <2>2
  <2> QED BY <1>2, <2>2, <2>3, <2>4, <2>5 DEF p
<1> QED
  BY <1>1, <1>2

-----------------------------------------------------------------------------
\* The table holds the latest pass of each of its keys; a key that is not in
\* it has never passed, or last passed at least a window ago.
TableTracksPasses ==
    \A k \in Key :
        /\ k \in DOMAIN seen => passes[k] # <<>> /\ seen[k] = LatestPass(k)
        /\ k \notin DOMAIN seen =>
              passes[k] = <<>> \/ now - LatestPass(k) >= Window

\* The inductive invariant.
IInv == TypeOK /\ TableTracksPasses /\ PassesApart

-----------------------------------------------------------------------------
\* One call of process keeps the type invariant.
LEMMA ProcessTypeOK ==
    ASSUME IInv, NEW k \in Key, Process(k)
    PROVE  TypeOK'
<1> USE WindowAssumption, MaxTimeAssumption DEF IInv, TypeOK
<1>1. now \in Nat /\ now' = now
  BY DEF Process
<1>2. (DOMAIN seen \subseteq Key)'
  BY ProcessedTableFact DEF Process
<1>3. (\A x \in DOMAIN seen : seen[x] \in 0..now)'
  <2> SUFFICES ASSUME NEW x \in DOMAIN seen'
               PROVE  seen'[x] \in 0..now
    BY <1>1
  <2>1. CASE x # k
    BY <2>1, ProcessedTableFact DEF Process
  <2>2. CASE x = k
    BY <2>2, <1>1, ProcessedTableFact, IsDuplicateFact DEF Process
  <2> QED BY <2>1, <2>2
<1>4. (verdict = NoVerdict \/ \E x \in Key, p \in BOOLEAN : verdict = Verdict(x, p))'
  BY DEF Process, Pass, Suppress
<1>5. (passes \in [Key -> Seq(0..MaxTime)])'
  <2>1. CASE Pass(k)
    <3>1. Append(passes[k], now) \in Seq(0..MaxTime)
      BY <1>1
    <3> QED BY <1>1, <2>1, <3>1 DEF Pass
  <2>2. CASE Suppress(k)
    BY <1>1, <2>2 DEF Suppress
  <2> QED BY <2>1, <2>2 DEF Process
<1> QED
  BY <1>1, <1>2, <1>3, <1>4, <1>5

\* The passes of k after a call that let it through.
LEMMA PassFact ==
    ASSUME IInv, NEW k \in Key, Pass(k)
    PROVE  /\ passes'[k] = Append(passes[k], now)
           /\ \A x \in Key \ {k} : passes'[x] = passes[x]
           /\ passes[k] = <<>> \/ now - LatestPass(k) >= Window
<1> USE DEF IInv, TypeOK
<1>1. passes'[k] = Append(passes[k], now) /\ \A x \in Key \ {k} : passes'[x] = passes[x]
  BY DEF Pass
<1>2. CASE k \notin DOMAIN seen
  BY <1>1, <1>2 DEF TableTracksPasses
<1>3. CASE k \in DOMAIN seen
  <2>1. ~(now - seen[k] < Window)
    BY <1>3, IsDuplicateFact DEF Pass
  <2>2. seen[k] \in Nat /\ now \in Nat
    BY <1>3
  <2>3. seen[k] = LatestPass(k)
    BY <1>3 DEF TableTracksPasses
  <2> QED BY <1>1, <2>1, <2>2, <2>3, WindowAssumption
<1> QED BY <1>2, <1>3

\* One call of process keeps the table in step with the history.
LEMMA ProcessTracks ==
    ASSUME IInv, NEW k \in Key, Process(k)
    PROVE  TableTracksPasses'
<1> USE DEF IInv, TypeOK
<1>1. now' = now /\ seen' = ProcessedTable(seen, k, now) /\ now \in Nat
  BY MaxTimeAssumption DEF Process
<1> SUFFICES ASSUME NEW x \in Key
             PROVE  /\ x \in DOMAIN seen' => passes'[x] # <<>>
                                             /\ seen'[x] = LatestPass(x)'
                    /\ x \notin DOMAIN seen' =>
                          passes'[x] = <<>> \/ now - LatestPass(x)' >= Window
  BY <1>1 DEF TableTracksPasses
<1>2. CASE x # k
  <2>1. passes'[x] = passes[x]
    <3>1. CASE Pass(k)
      BY <1>2, <3>1, PassFact
    <3>2. CASE Suppress(k)
      BY <3>2 DEF Suppress
    <3> QED BY <3>1, <3>2 DEF Process
  <2>2. LatestPass(x)' = LatestPass(x)
    BY <2>1 DEF LatestPass
  <2>3. CASE x \in DOMAIN seen'
    BY <1>1, <1>2, <2>1, <2>2, <2>3, ProcessedTableFact DEF TableTracksPasses
  <2>4. CASE x \notin DOMAIN seen'
    <3>1. CASE x \notin DOMAIN seen
      BY <2>1, <2>2, <2>4, <3>1 DEF TableTracksPasses
    <3>2. CASE x \in DOMAIN seen
      <4>1. ~(now - seen[x] < Window)
        BY <1>1, <1>2, <2>4, <3>2, ProcessedTableFact
      <4>2. seen[x] = LatestPass(x) /\ seen[x] \in Nat
        BY <3>2, <1>1 DEF TableTracksPasses
      <4> QED BY <1>1, <2>2, <2>4, <4>1, <4>2, WindowAssumption
    <3> QED BY <3>1, <3>2
  <2> QED BY <2>3, <2>4
<1>3. CASE x = k /\ Pass(k)
  <2>1. passes'[k] = Append(passes[k], now) /\ passes[k] \in Seq(0..MaxTime)
    BY <1>3, PassFact
  <2>2. /\ passes'[k][Len(passes'[k])] = now
        /\ Len(passes'[k]) # 0
    BY <2>1, <1>1
  <2>. LatestPass(k)' = now /\ passes'[k] # <<>>
    BY <2>2 DEF LatestPass
  <2>3. seen'[k] = now /\ k \in DOMAIN seen'
    BY <1>1, <1>3, ProcessedTableFact DEF Pass
  <2> QED BY <1>3, <2>2, <2>3
<1>4. CASE x = k /\ Suppress(k)
  <2>1. LatestPass(k)' = LatestPass(k) /\ passes' = passes
    BY <1>4 DEF Suppress, LatestPass
  <2>2. k \in DOMAIN seen /\ k \in DOMAIN seen' /\ seen'[k] = seen[k]
    BY <1>1, <1>4, ProcessedTableFact, IsDuplicateFact DEF Suppress
  <2> QED BY <1>4, <2>1, <2>2 DEF TableTracksPasses
<1> QED BY <1>2, <1>3, <1>4 DEF Process

\* One call of process keeps the passes of every key a window apart.
LEMMA ProcessPassesApart ==
    ASSUME IInv, NEW k \in Key, Process(k)
    PROVE  PassesApart'
<1> USE DEF IInv, TypeOK
<1>1. CASE Suppress(k)
  BY <1>1 DEF Suppress, PassesApart
<1>2. CASE Pass(k)
  <2> SUFFICES ASSUME NEW x \in Key,
                      NEW i \in DOMAIN passes'[x], NEW j \in DOMAIN passes'[x], i < j
               PROVE  passes'[x][j] - passes'[x][i] >= Window
    BY DEF PassesApart
  <2>1. CASE x # k
    BY <1>2, <2>1, PassFact DEF PassesApart
  <2>2. CASE x = k
    <3> DEFINE old == passes[k]
               n == Len(old)
    <3>1. old \in Seq(0..MaxTime) /\ now \in Nat /\ passes'[k] = Append(old, now)
      BY <1>2, MaxTimeAssumption, PassFact
    <3>2. i \in 1..n /\ j \in 1..(n + 1)
      BY <2>2, <3>1
    <3>3. passes'[k][i] = old[i] /\ old[i] \in Nat
      BY <3>1, <3>2, MaxTimeAssumption
    <3>4. CASE j \in 1..n
      <4>1. passes'[k][j] = old[j]
        BY <3>1, <3>4
      <4>2. old[j] - old[i] >= Window
        BY <3>1, <3>2, <3>4 DEF PassesApart
      <4> QED BY <2>2, <3>3, <4>1, <4>2
    <3>5. CASE j = n + 1
      <4>1. passes'[k][j] = now /\ old # <<>>
        BY <3>1, <3>2, <3>5
      <4>2. now - old[n] >= Window
        BY <1>2, <4>1, PassFact DEF LatestPass
      <4>3. i = n \/ old[n] - old[i] >= Window
        BY <3>1, <3>2 DEF PassesApart
      <4>4. n \in DOMAIN old /\ old[n] \in Nat
        BY <3>1, <3>2, MaxTimeAssumption
      <4> QED
        BY <2>2, <3>1, <3>3, <4>1, <4>2, <4>3, <4>4, WindowAssumption
    <3> QED BY <3>2, <3>4, <3>5
  <2> QED BY <2>1, <2>2
<1> QED BY <1>1, <1>2 DEF Process

\* Letting time pass keeps the inductive invariant.
LEMMA TickIInv ==
    ASSUME IInv, Tick
    PROVE  IInv'
<1> USE DEF IInv, TypeOK
<1>1. now \in Nat /\ now' = now + 1 /\ now' \in 0..MaxTime
  BY MaxTimeAssumption DEF Tick
<1>2. seen' = seen /\ verdict' = verdict /\ passes' = passes
  BY DEF Tick
<1>5. TypeOK'
  BY <1>1, <1>2
<1>6. TableTracksPasses'
  <2> SUFFICES ASSUME NEW k \in Key
               PROVE  /\ k \in DOMAIN seen => passes[k] # <<>> /\ seen[k] = LatestPass(k)
                      /\ k \notin DOMAIN seen =>
                            passes[k] = <<>> \/ now' - LatestPass(k) >= Window
    BY <1>2 DEF TableTracksPasses, LatestPass
  <2>1. passes[k] # <<>> => LatestPass(k) \in Nat
    BY <1>1, MaxTimeAssumption DEF LatestPass
  <2> QED BY <1>1, <2>1, WindowAssumption DEF TableTracksPasses
<1>7. PassesApart'
  BY <1>2 DEF PassesApart
<1> QED BY <1>5, <1>6, <1>7

LEMMA InitIInv == Init => IInv
<1> SUFFICES ASSUME Init PROVE IInv
  OBVIOUS
<1> USE MaxTimeAssumption DEF Init
<1>1. TypeOK
  BY DEF TypeOK, EmptyTable
<1>2. TableTracksPasses /\ PassesApart
  BY DEF TableTracksPasses, PassesApart, EmptyTable
<1> QED BY <1>1, <1>2 DEF IInv

LEMMA NextIInv == IInv /\ [Next]_dedupVars => IInv'
<1> SUFFICES ASSUME IInv, [Next]_dedupVars PROVE IInv'
  OBVIOUS
<1>1. CASE Tick
  BY <1>1, TickIInv
<1>2. ASSUME NEW k \in Key, Process(k) PROVE IInv'
  BY <1>2, ProcessTypeOK, ProcessTracks, ProcessPassesApart DEF IInv
<1>3. CASE UNCHANGED dedupVars
  BY <1>3 DEF IInv, TypeOK, TableTracksPasses, PassesApart, LatestPass, dedupVars
<1> QED BY <1>1, <1>2, <1>3 DEF Next

\* The deduplicator never lets two events of one key through within a window
\* (EventDeduplicator::process), whatever the cleanup has thrown away.
THEOREM DedupSafety == Spec => []IInv
<1> QED BY InitIInv, NextIInv, PTL DEF Spec

\* The table, the clock, the answers and the history keep their types.
THEOREM DedupTypeOK == Spec => []TypeOK
<1>1. IInv => TypeOK
  BY DEF IInv
<1> QED BY <1>1, DedupSafety, PTL

\* Two passes of one key are at least a window apart.
THEOREM DedupPassesApart == Spec => []PassesApart
<1>1. IInv => PassesApart
  BY DEF IInv
<1> QED BY <1>1, DedupSafety, PTL

-----------------------------------------------------------------------------
\* An event is withheld only on account of a pass less than a window ago.
THEOREM DedupSuppressedOnlyIfRecent == Spec => SuppressedOnlyIfRecent
<1>1. ASSUME IInv, NEW k \in Key, Process(k), ~verdict'.passed
      PROVE  RecentlyPassed(k)
  <2>1. Suppress(k)
    BY <1>1 DEF Process, Pass, Verdict
  <2>2. k \in DOMAIN seen /\ now - seen[k] < Window
    BY <2>1, IsDuplicateFact DEF Suppress
  <2> QED BY <1>1, <2>2 DEF IInv, TableTracksPasses, RecentlyPassed
<1>2. IInv /\ [Next]_dedupVars =>
         [\A k \in Key : Process(k) /\ ~verdict'.passed => RecentlyPassed(k)]_dedupVars
  BY <1>1
<1> QED BY <1>2, DedupSafety, PTL DEF Spec, SuppressedOnlyIfRecent

\* After every call the table holds only keys still inside their window.
THEOREM DedupTableIsFresh == Spec => TableIsFresh
<1>1. ASSUME IInv, NEW k \in Key, Process(k), NEW x \in DOMAIN seen'
      PROVE  now - seen'[x] < Window
  <2>1. seen' = ProcessedTable(seen, k, now) /\ now \in Nat
    BY <1>1, MaxTimeAssumption DEF Process, IInv, TypeOK
  <2>2. CASE x # k
    BY <1>1, <2>1, <2>2, ProcessedTableFact
  <2>3. CASE x = k /\ IsDuplicate(seen, k, now)
    BY <2>1, <2>3, ProcessedTableFact, IsDuplicateFact
  <2>4. CASE x = k /\ ~IsDuplicate(seen, k, now)
    BY <2>1, <2>4, ProcessedTableFact, WindowAssumption
  <2> QED BY <2>2, <2>3, <2>4
<1>2. IInv /\ [Next]_dedupVars => [ProcessCleans]_dedupVars
  BY <1>1 DEF ProcessCleans, EveryEntryIsFresh
<1> QED BY <1>2, DedupSafety, PTL DEF Spec, TableIsFresh

-----------------------------------------------------------------------------
\* The hold left on a key: it is on hold exactly when it is a duplicate.
LEMMA HoldOfFact ==
    ASSUME IInv, NEW k \in Key
    PROVE  /\ HoldOf(k) \in Nat
           /\ HoldOf(k) > 0 <=> IsDuplicate(seen, k, now)
           /\ IsDuplicate(seen, k, now) => HoldOf(k) = Window - (now - seen[k])
           /\ ~IsDuplicate(seen, k, now) => HoldOf(k) = 0
<1>1. k \in DOMAIN seen => seen[k] \in Nat /\ now - seen[k] \in Nat
  BY MaxTimeAssumption DEF IInv, TypeOK
<1> QED BY <1>1, IsDuplicateFact, WindowAssumption DEF HoldOf, Fresh

\* A call that lets a key through puts exactly that key on hold.
LEMMA ProcessImplementsHold ==
    ASSUME IInv, IInv', NEW k \in Key, Process(k)
    PROVE  Hold!HoldPass(k) \/ Hold!HoldSuppress(k)
<1>1. now' = now /\ seen' = ProcessedTable(seen, k, now) /\ now \in Nat
  BY MaxTimeAssumption DEF Process, IInv, TypeOK
<1>2. ASSUME NEW x \in Key, x # k PROVE HoldOf(x)' = HoldOf(x)
  BY <1>1, <1>2, ProcessedTableFact DEF HoldOf, Fresh
<1>3. CASE Pass(k)
  <2>1. HoldOf(k) = 0 /\ HoldOf(k)' = Window
    BY <1>1, <1>3, HoldOfFact, ProcessedTableFact, WindowAssumption
       DEF Pass, HoldOf, Fresh
  <2> QED
    BY <1>2, <1>3, <2>1 DEF Pass, Hold!HoldPass, Verdict, Hold!Verdict
<1>4. CASE Suppress(k)
  <2>1. HoldOf(k) > 0 /\ HoldOf(k)' = HoldOf(k)
    <3>1. k \in DOMAIN seen' /\ seen'[k] = seen[k] /\ k \in DOMAIN seen
      BY <1>1, <1>4, ProcessedTableFact, IsDuplicateFact DEF Suppress
    <3> QED BY <1>1, <1>4, <3>1, HoldOfFact DEF Suppress, HoldOf, Fresh
  <2> QED
    BY <1>2, <1>4, <2>1 DEF Suppress, Hold!HoldSuppress, Verdict, Hold!Verdict
<1> QED BY <1>3, <1>4 DEF Process

\* A tick of the clock takes one tick off every hold.
LEMMA TickImplementsHold ==
    ASSUME IInv, Tick
    PROVE  Hold!HoldTick
<1>1. now' = now + 1 /\ seen' = seen /\ now \in Nat /\ verdict' = verdict
  BY MaxTimeAssumption DEF Tick, IInv, TypeOK
<1>2. ASSUME NEW k \in Key
      PROVE  HoldOf(k)' = IF HoldOf(k) > 0 THEN HoldOf(k) - 1 ELSE 0
  <2>1. k \in DOMAIN seen => seen[k] \in Nat
    BY <1>1 DEF IInv, TypeOK
  <2> QED BY <1>1, <2>1, WindowAssumption DEF HoldOf, Fresh
<1> QED BY <1>1, <1>2 DEF Hold!HoldTick

\* The table of instants with its cleanup implements one hold timer per key:
\* the same answers at the same times (DedupHold).
THEOREM DedupImplementsHold == Spec => ImplementsHold
<1>1. Init => Hold!HoldInit
  BY DEF Init, Hold!HoldInit, HoldOf, EmptyTable, NoVerdict, Hold!NoVerdict
<1>2. IInv /\ IInv' /\ [Next]_dedupVars => [Hold!HoldNext]_Hold!holdVars
  <2> SUFFICES ASSUME IInv, IInv', [Next]_dedupVars
               PROVE  [Hold!HoldNext]_Hold!holdVars
    OBVIOUS
  <2>1. CASE Tick
    BY <2>1, TickImplementsHold DEF Hold!HoldNext
  <2>2. ASSUME NEW k \in Key, Process(k) PROVE Hold!HoldNext
    BY <2>2, ProcessImplementsHold DEF Hold!HoldNext
  <2>3. CASE UNCHANGED dedupVars
    BY <2>3 DEF dedupVars, Hold!holdVars, HoldOf, Fresh
  <2> QED BY <2>1, <2>2, <2>3 DEF Next
<1> QED
  BY <1>1, <1>2, DedupSafety, PTL DEF Spec, ImplementsHold, Hold!HoldSpec
=============================================================================
