----------------------- MODULE MetricsRegistryProofs ------------------------
(***************************************************************************)
(* The counters of the registry for any number of recorders, types and     *)
(* roots: no increment is lost however recorders meet over a new label,    *)
(* and no scrape shows less than an earlier one.  The argument: a cell     *)
(* belongs to one label for ever, and who holds a cell holds the one that  *)
(* is in the map.  And the parts of a chart belong together: every event   *)
(* in the total has been counted by a counter or is on its way to it, and  *)
(* what a chart is read from only grows while it is read.  And a window is *)
(* exact for every bucket that no recording has found too old: what it     *)
(* says of a bucket is the number of recordings in it.                     *)
(***************************************************************************)
EXTENDS MetricsRegistry, FiniteSetTheorems, SequenceTheorems, TLAPS

RecState ==
  {Idle} \cup [at : {"lookup", "create"}, i : 1..3, e : Event]
         \cup [at : {"add"}, i : 1..3, e : Event, cell : Nat]
         \cup [at : {"window"}, i : Nat, e : Event]

CountersTypeOK ==
  /\ total \in Nat
  /\ value \in Seq(Nat)
  /\ rec \in [Recorder -> RecState]
  /\ DOMAIN cells = Family
  /\ \A f \in Family : /\ DOMAIN cells[f] \subseteq Labels(f)
                       /\ \A l \in DOMAIN cells[f] : cells[f][l] \in 1..Len(value)
  /\ DOMAIN counted = Family
  /\ \A f \in Family : counted[f] \in [Labels(f) -> Nat]

\* each cell counts one label of one counter
CellsApart ==
  \A f, g \in Family : \A l \in DOMAIN cells[f], m \in DOMAIN cells[g] :
    cells[f][l] = cells[g][m] => f = g /\ l = m

\* a recorder about to add holds the cell of its label
HeldIsMapped ==
  \A r \in Recorder : rec[r].at = "add" =>
    /\ LabelAt(r) \in DOMAIN cells[FamilyOf(r)]
    /\ rec[r].cell = cells[FamilyOf(r)][LabelAt(r)]

CountersInv == CountersTypeOK /\ CellsApart /\ HeldIsMapped /\ NothingMiscounted

\* a cell that exists is never taken away from its label, nor counted back
Grown ==
  /\ total <= total'
  /\ \A f \in Family : \A l \in DOMAIN cells[f] :
       /\ l \in DOMAIN cells'[f]
       /\ value[cells[f][l]] <= value'[cells'[f][l]]

-----------------------------------------------------------------------------

LEMMA FamiliesAreCounters == Len(Families) = 3 /\ \A i \in 1..3 : Families[i] \in Family
BY DEF Families, Family, Keys

LEMMA InitCounters == Init => CountersInv
<1> SUFFICES ASSUME Init PROVE CountersInv
  OBVIOUS
<1>1. CountersTypeOK
  BY DEF Init, CountersTypeOK, RecState
<1>2. \A f \in Family : DOMAIN cells[f] = {}
  BY DEF Init
<1>3. CellsApart
  BY <1>2 DEF CellsApart
<1>4. HeldIsMapped
  BY DEF Init, HeldIsMapped, Idle
<1>5. NothingMiscounted
  BY <1>2 DEF Init, NothingMiscounted
<1> QED BY <1>1, <1>3, <1>4, <1>5 DEF CountersInv

\* What a recorder is at, while it is among the counters.
LEMMA AtCounter ==
  ASSUME CountersTypeOK, NEW r \in Recorder, rec[r].at \in {"lookup", "create", "add"}
  PROVE  /\ rec[r].i \in 1..3 /\ rec[r].e \in Event
         /\ FamilyOf(r) \in Family
         /\ LabelAt(r) \in Labels(FamilyOf(r))
         /\ rec[r].at # "add" => rec[r] \in [at : {"lookup", "create"}, i : 1..3, e : Event]
         /\ rec[r].at = "add" => rec[r] \in [at : {"add"}, i : 1..3, e : Event, cell : Nat]
<1>1. rec[r] \in RecState
  BY DEF CountersTypeOK
<1>2. rec[r].i \in 1..3 /\ rec[r].e \in Event
  BY <1>1 DEF RecState, Idle
<1>3. FamilyOf(r) \in Family
  BY <1>2, FamiliesAreCounters DEF FamilyOf
<1>4. LabelAt(r) \in Labels(FamilyOf(r))
  BY <1>2 DEF LabelAt, Labels
<1> QED BY <1>1, <1>2, <1>3, <1>4 DEF RecState, Idle

LEMMA RecordEventStep ==
  ASSUME CountersInv, NEW r \in Recorder, NEW e \in Event, RecordEvent(r, e)
  PROVE  CountersInv' /\ Grown
<1> USE DEF CountersInv, RecordEvent
<1>1. /\ rec' \in [Recorder -> RecState]
      /\ \A q \in Recorder : rec'[q].at = "add" => rec'[q] = rec[q]
  BY DEF CountersTypeOK, RecState
<1>2. CountersTypeOK'
  BY <1>1 DEF CountersTypeOK
<1>3. HeldIsMapped'
  BY <1>1 DEF HeldIsMapped, LabelAt, FamilyOf
<1>4. CellsApart' /\ NothingMiscounted'
  BY DEF CellsApart, NothingMiscounted
<1>5. Grown
  <2>1. \A f \in Family : \A l \in DOMAIN cells[f] : value[cells[f][l]] \in Nat
    BY DEF CountersTypeOK
  <2> QED BY <2>1 DEF Grown, CountersTypeOK
<1> QED BY <1>2, <1>3, <1>4, <1>5

LEMMA LookupStep ==
  ASSUME CountersInv, NEW r \in Recorder, Lookup(r)
  PROVE  CountersInv' /\ Grown
<1> USE DEF CountersInv, NoCount
<1>1. /\ rec[r] \in [at : {"lookup", "create"}, i : 1..3, e : Event]
      /\ FamilyOf(r) \in Family
      /\ rec[r].i \in 1..3 /\ rec[r].e \in Event
  BY AtCounter DEF Lookup
<1>2. UNCHANGED <<total, cells, value, counted>>
  BY DEF Lookup
<1>3. CASE LabelAt(r) \in DOMAIN cells[FamilyOf(r)]
  <2> DEFINE c == cells[FamilyOf(r)][LabelAt(r)]
  <2>1. c \in Nat
    BY <1>1, <1>3 DEF CountersTypeOK
  <2>2. rec' = Holding(r, c)
    BY <1>3 DEF Lookup
  <2>3. rec' \in [Recorder -> RecState]
    BY <1>1, <2>1, <2>2 DEF Holding, CountersTypeOK, RecState
  <2>4. HeldIsMapped'
    BY <1>1, <1>2, <1>3, <2>2 DEF Holding, HeldIsMapped, LabelAt, FamilyOf, CountersTypeOK
  <2> QED BY <1>2, <2>3, <2>4 DEF CountersTypeOK, CellsApart, NothingMiscounted, Grown
<1>4. CASE LabelAt(r) \notin DOMAIN cells[FamilyOf(r)]
  <2>1. rec' = [rec EXCEPT ![r].at = "create"]
    BY <1>4 DEF Lookup
  <2>2. rec' \in [Recorder -> RecState]
    BY <1>1, <2>1 DEF CountersTypeOK, RecState
  <2>3. \A q \in Recorder : rec'[q].at = "add" => rec'[q] = rec[q]
    BY <1>1, <2>1 DEF CountersTypeOK
  <2>4. HeldIsMapped'
    BY <1>2, <2>3 DEF HeldIsMapped, LabelAt, FamilyOf
  <2> QED BY <1>2, <2>2, <2>4 DEF CountersTypeOK, CellsApart, NothingMiscounted, Grown
<1> QED BY <1>3, <1>4

\* the other steps leave the counters alone and send nobody to one
LEMMA OtherStep ==
  ASSUME CountersInv, NoCount, rec' \in [Recorder -> RecState],
         \A q \in Recorder : rec'[q].at = "add" => rec'[q] = rec[q]
  PROVE  CountersInv' /\ Grown
<1> USE DEF CountersInv, NoCount
<1>1. CountersTypeOK'
  BY DEF CountersTypeOK
<1>2. HeldIsMapped'
  BY DEF HeldIsMapped, LabelAt, FamilyOf
<1>3. \A f \in Family : \A l \in DOMAIN cells[f] : value[cells[f][l]] \in Nat
  BY DEF CountersTypeOK
<1> QED BY <1>1, <1>2, <1>3 DEF CellsApart, NothingMiscounted, Grown, CountersTypeOK

\* What the slow path does to the map and to the cells.
LEMMA GetOrCreateEffect ==
  ASSUME CountersInv, NEW r \in Recorder, GetOrCreate(r),
         NEW f, f = FamilyOf(r), NEW l, l = LabelAt(r), NEW c, c = Found(f, l)
  PROVE  /\ f \in Family /\ l \in Labels(f)
         /\ DOMAIN cells' = Family
         /\ DOMAIN cells'[f] = DOMAIN cells[f] \cup {l}
         /\ \A g \in Family : g # f => cells'[g] = cells[g]
         /\ \A g \in Family : \A k \in DOMAIN cells[g] : cells'[g][k] = cells[g][k]
         /\ cells'[f][l] = c
         /\ value' \in Seq(Nat) /\ Len(value') \in Nat /\ Len(value) <= Len(value')
         /\ \A i \in 1..Len(value) : value'[i] = value[i]
         /\ c \in 1..Len(value')
         /\ l \notin DOMAIN cells[f] => c = Len(value) + 1 /\ value'[c] = 0
<1>1. f \in Family /\ l \in Labels(f)
  BY AtCounter DEF CountersInv, GetOrCreate
<1>2. value \in Seq(Nat) /\ Len(value) \in Nat
  BY DEF CountersInv, CountersTypeOK
<1>3. cells' = [cells EXCEPT ![f] =
                  [k \in DOMAIN cells[f] \cup {l} |-> IF k = l THEN c ELSE cells[f][k]]]
  BY DEF GetOrCreate
<1>4. value' = IF c > Len(value) THEN Append(value, 0) ELSE value
  BY DEF GetOrCreate
<1>5. DOMAIN cells = Family
  BY DEF CountersInv, CountersTypeOK
<1>8. /\ DOMAIN cells' = Family
      /\ cells'[f] = [k \in DOMAIN cells[f] \cup {l} |-> IF k = l THEN c ELSE cells[f][k]]
      /\ \A g \in Family : g # f => cells'[g] = cells[g]
  BY <1>1, <1>3, <1>5
<1>9. /\ DOMAIN cells'[f] = DOMAIN cells[f] \cup {l}
      /\ cells'[f][l] = c
      /\ \A k \in DOMAIN cells[f] : cells'[f][k] = cells[f][k]
  <2>1. l \in DOMAIN cells[f] => c = cells[f][l]
    BY DEF Found
  <2> QED BY <1>8, <2>1
<1>10. \A g \in Family : \A k \in DOMAIN cells[g] : cells'[g][k] = cells[g][k]
  BY <1>8, <1>9
<1>6. CASE l \in DOMAIN cells[f]
  <2>1. c = cells[f][l] /\ c \in 1..Len(value)
    BY <1>1, <1>6 DEF Found, CountersInv, CountersTypeOK
  <2>2. value' = value
    BY <1>2, <1>4, <2>1
  <2> QED BY <1>1, <1>2, <1>6, <1>8, <1>9, <1>10, <2>1, <2>2
<1>7. CASE l \notin DOMAIN cells[f]
  <2>1. c = Len(value) + 1 /\ value' = Append(value, 0)
    BY <1>2, <1>4, <1>7 DEF Found
  <2>2. value' \in Seq(Nat) /\ Len(value') = Len(value) + 1 /\ value'[c] = 0
    BY <1>2, <2>1
  <2>3. \A i \in 1..Len(value) : value'[i] = value[i]
    BY <1>2, <2>1
  <2> QED BY <1>1, <1>2, <1>7, <1>8, <1>9, <1>10, <2>1, <2>2, <2>3
<1> QED BY <1>6, <1>7

LEMMA GetOrCreateStep ==
  ASSUME CountersInv, NEW r \in Recorder, GetOrCreate(r)
  PROVE  CountersInv' /\ Grown
<1> DEFINE f == FamilyOf(r)
           l == LabelAt(r)
           c == Found(f, l)
<1> USE DEF CountersInv
<1>1. /\ f \in Family /\ l \in Labels(f)
      /\ DOMAIN cells' = Family
      /\ DOMAIN cells'[f] = DOMAIN cells[f] \cup {l}
      /\ \A g \in Family : g # f => cells'[g] = cells[g]
      /\ \A g \in Family : \A k \in DOMAIN cells[g] : cells'[g][k] = cells[g][k]
      /\ cells'[f][l] = c
      /\ value' \in Seq(Nat) /\ Len(value') \in Nat /\ Len(value) <= Len(value')
      /\ \A i \in 1..Len(value) : value'[i] = value[i]
      /\ c \in 1..Len(value')
      /\ l \notin DOMAIN cells[f] => c = Len(value) + 1 /\ value'[c] = 0
  BY GetOrCreateEffect
<1>2. /\ rec[r] \in [at : {"lookup", "create"}, i : 1..3, e : Event]
      /\ rec[r].i \in 1..3 /\ rec[r].e \in Event
  BY AtCounter DEF GetOrCreate
<1>3. rec' = Holding(r, c) /\ UNCHANGED <<total, counted>>
  BY DEF GetOrCreate
<1>4. \A g \in Family : \A k \in DOMAIN cells[g] : cells[g][k] \in 1..Len(value)
  BY DEF CountersTypeOK
<1> HIDE DEF f, l, c
<1>5. rec' \in [Recorder -> RecState]
  BY <1>1, <1>2, <1>3 DEF Holding, CountersTypeOK, RecState
<1>6. \A g \in Family : /\ DOMAIN cells'[g] \subseteq Labels(g)
                        /\ \A k \in DOMAIN cells'[g] : cells'[g][k] \in 1..Len(value')
  <2>1. TAKE g \in Family
  <2>2. DOMAIN cells'[g] \subseteq Labels(g)
    BY <1>1 DEF CountersTypeOK
  <2>3. ASSUME NEW k \in DOMAIN cells'[g] PROVE cells'[g][k] \in 1..Len(value')
    <3>1. CASE k \in DOMAIN cells[g]
      <4>1. cells'[g][k] = cells[g][k] /\ cells[g][k] \in 1..Len(value)
        BY <1>1, <1>4, <3>1
      <4>2. Len(value) \in Nat /\ Len(value') \in Nat /\ Len(value) <= Len(value')
        BY <1>1 DEF CountersTypeOK
      <4> QED BY <4>1, <4>2
    <3>2. CASE k \notin DOMAIN cells[g]
      BY <1>1, <2>3, <3>2
    <3> QED BY <3>1, <3>2
  <2> QED BY <2>2, <2>3
<1>7. CountersTypeOK'
  BY <1>1, <1>3, <1>5, <1>6 DEF CountersTypeOK
<1>8. CellsApart'
  <2> SUFFICES ASSUME NEW g \in Family, NEW h \in Family,
                      NEW k \in DOMAIN cells'[g], NEW m \in DOMAIN cells'[h],
                      cells'[g][k] = cells'[h][m]
               PROVE  g = h /\ k = m
    BY DEF CellsApart
  <2>1. CASE k \in DOMAIN cells[g] /\ m \in DOMAIN cells[h]
    BY <1>1, <2>1 DEF CellsApart
  <2>2. CASE k \notin DOMAIN cells[g] /\ m \notin DOMAIN cells[h]
    BY <1>1, <2>2
  <2>3. CASE k \in DOMAIN cells[g] /\ m \notin DOMAIN cells[h]
    <3>1. h = f /\ m = l /\ l \notin DOMAIN cells[f]
      BY <1>1, <2>3
    <3>2. cells'[h][m] = Len(value) + 1 /\ cells'[g][k] \in 1..Len(value)
      BY <1>1, <1>4, <2>3, <3>1
    <3> QED BY <3>2 DEF CountersTypeOK
  <2>4. CASE k \notin DOMAIN cells[g] /\ m \in DOMAIN cells[h]
    <3>1. g = f /\ k = l /\ l \notin DOMAIN cells[f]
      BY <1>1, <2>4
    <3>2. cells'[g][k] = Len(value) + 1 /\ cells'[h][m] \in 1..Len(value)
      BY <1>1, <1>4, <2>4, <3>1
    <3> QED BY <3>2 DEF CountersTypeOK
  <2> QED BY <2>1, <2>2, <2>3, <2>4
<1>9. HeldIsMapped'
  <2> SUFFICES ASSUME NEW q \in Recorder, rec'[q].at = "add"
               PROVE  /\ LabelAt(q)' \in DOMAIN cells'[FamilyOf(q)']
                      /\ rec'[q].cell = cells'[FamilyOf(q)'][LabelAt(q)']
    BY DEF HeldIsMapped
  <2>1. CASE q = r
    <3>1. rec'[r] = [at |-> "add", i |-> rec[r].i, e |-> rec[r].e, cell |-> c]
      BY <1>3 DEF Holding, CountersTypeOK
    <3>2. FamilyOf(r)' = f /\ LabelAt(r)' = l
      BY <3>1 DEF FamilyOf, LabelAt, f, l
    <3> QED BY <1>1, <2>1, <3>1, <3>2
  <2>2. CASE q # r
    <3>1. rec'[q] = rec[q]
      BY <1>3, <2>2 DEF Holding, CountersTypeOK
    <3>2. FamilyOf(q)' = FamilyOf(q) /\ LabelAt(q)' = LabelAt(q)
      BY <3>1 DEF FamilyOf, LabelAt
    <3>3. /\ LabelAt(q) \in DOMAIN cells[FamilyOf(q)]
          /\ rec[q].cell = cells[FamilyOf(q)][LabelAt(q)]
          /\ FamilyOf(q) \in Family
      BY <3>1, AtCounter DEF HeldIsMapped
    <3> QED BY <1>1, <3>1, <3>2, <3>3
  <2> QED BY <2>1, <2>2
<1>10. NothingMiscounted'
  <2> SUFFICES ASSUME NEW g \in Family, NEW k \in Labels(g)
               PROVE  counted'[g][k] = IF k \in DOMAIN cells'[g]
                                       THEN value'[cells'[g][k]] ELSE 0
    BY DEF NothingMiscounted
  <2>1. counted'[g][k] = IF k \in DOMAIN cells[g] THEN value[cells[g][k]] ELSE 0
    BY <1>3 DEF NothingMiscounted
  <2>2. CASE k \in DOMAIN cells[g]
    BY <1>1, <1>4, <2>1, <2>2, SMTT(30)
  <2>3. CASE k \notin DOMAIN cells[g]
    BY <1>1, <2>1, <2>3
  <2> QED BY <2>2, <2>3
<1>11. Grown
  <2>1. \A g \in Family : \A k \in DOMAIN cells[g] :
          k \in DOMAIN cells'[g] /\ value'[cells'[g][k]] = value[cells[g][k]]
    BY <1>1, <1>4, SMTT(30)
  <2>2. \A g \in Family : \A k \in DOMAIN cells[g] : value[cells[g][k]] \in Nat
    BY <1>4 DEF CountersTypeOK
  <2> QED BY <1>3, <2>1, <2>2 DEF Grown, CountersTypeOK
<1> QED BY <1>7, <1>8, <1>9, <1>10, <1>11

LEMMA IncrementStep ==
  ASSUME CountersInv, NEW r \in Recorder, Increment(r)
  PROVE  CountersInv' /\ Grown
<1> DEFINE f == FamilyOf(r)
           l == LabelAt(r)
           c == rec[r].cell
<1> USE DEF CountersInv
<1>1. /\ rec[r] \in [at : {"add"}, i : 1..3, e : Event, cell : Nat]
      /\ f \in Family /\ l \in Labels(f)
      /\ rec[r].i \in 1..3 /\ rec[r].e \in Event
  BY AtCounter DEF Increment
<1>2. l \in DOMAIN cells[f] /\ c = cells[f][l] /\ c \in 1..Len(value)
  BY <1>1 DEF Increment, HeldIsMapped, CountersTypeOK
<1>3. /\ value' = [value EXCEPT ![c] = @ + 1]
      /\ counted' = [counted EXCEPT ![f] = [counted[f] EXCEPT ![l] = counted[f][l] + 1]]
      /\ UNCHANGED <<total, cells>>
  BY DEF Increment
<1>4. \A g \in Family : \A k \in DOMAIN cells[g] :
        cells[g][k] \in 1..Len(value) /\ value[cells[g][k]] \in Nat
  BY DEF CountersTypeOK
<1>5. /\ value' \in Seq(Nat) /\ Len(value') = Len(value)
      /\ value'[c] = value[c] + 1
      /\ \A i \in 1..Len(value) : i # c => value'[i] = value[i]
  BY <1>2, <1>3 DEF CountersTypeOK
<1>6. /\ rec' \in [Recorder -> RecState]
      /\ \A q \in Recorder : rec'[q].at = "add" => rec'[q] = rec[q]
  BY <1>1, FamiliesAreCounters DEF Increment, CountersTypeOK, RecState
<1> HIDE DEF f, l, c
<1>7. /\ DOMAIN counted' = Family
      /\ \A g \in Family : counted'[g] \in [Labels(g) -> Nat]
      /\ counted'[f][l] = counted[f][l] + 1
      /\ \A g \in Family : \A k \in Labels(g) :
           ~(g = f /\ k = l) => counted'[g][k] = counted[g][k]
  BY <1>1, <1>3 DEF CountersTypeOK
<1>8. CountersTypeOK'
  BY <1>3, <1>5, <1>6, <1>7 DEF CountersTypeOK
<1>9. CellsApart'
  BY <1>3 DEF CellsApart
<1>10. HeldIsMapped'
  BY <1>3, <1>6 DEF HeldIsMapped, LabelAt, FamilyOf
<1>11. \A g \in Family : \A k \in DOMAIN cells[g] :
         value'[cells[g][k]] = IF g = f /\ k = l THEN value[c] + 1 ELSE value[cells[g][k]]
  <2> TAKE g \in Family
  <2> TAKE k \in DOMAIN cells[g]
  <2>1. CASE g = f /\ k = l
    BY <1>2, <1>5, <2>1
  <2>2. CASE ~(g = f /\ k = l)
    <3>1. cells[g][k] # c
      BY <1>1, <1>2, <2>2 DEF CellsApart
    <3> QED BY <1>4, <1>5, <2>2, <3>1
  <2> QED BY <2>1, <2>2
<1>12. NothingMiscounted'
  <2> SUFFICES ASSUME NEW g \in Family, NEW k \in Labels(g)
               PROVE  counted'[g][k] = IF k \in DOMAIN cells[g] THEN value'[cells[g][k]] ELSE 0
    BY <1>3 DEF NothingMiscounted
  <2>1. counted[g][k] = IF k \in DOMAIN cells[g] THEN value[cells[g][k]] ELSE 0
    BY DEF NothingMiscounted
  <2> QED BY <1>2, <1>7, <1>11, <2>1
<1>13. Grown
  <2>1. \A g \in Family : \A k \in DOMAIN cells[g] : value[cells[g][k]] <= value'[cells[g][k]]
    BY <1>2, <1>4, <1>11
  <2> QED BY <1>3, <2>1 DEF Grown, CountersTypeOK
<1> QED BY <1>8, <1>9, <1>10, <1>12, <1>13

LEMMA RecordWindowStep ==
  ASSUME CountersInv, NEW r \in Recorder, RecordWindow(r)
  PROVE  CountersInv' /\ Grown
<1>1. rec[r].at = "window" /\ rec[r] \in RecState
  BY DEF RecordWindow, CountersInv, CountersTypeOK
<1>2. rec[r] \in [at : {"window"}, i : Nat, e : Event]
  BY <1>1 DEF RecState, Idle
<1>3. /\ rec' \in [Recorder -> RecState]
      /\ \A q \in Recorder : rec'[q].at = "add" => rec'[q] = rec[q]
  <2> DEFINE on == [rec[r] EXCEPT !.i = rec[r].i + 1]
  <2>1. on \in [at : {"window"}, i : Nat, e : Event]
    BY <1>2
  <2>2. rec' = [rec EXCEPT ![r] = on] \/ rec' = [rec EXCEPT ![r] = Idle]
    BY DEF RecordWindow
  <2>3. on \in RecState /\ Idle \in RecState /\ on.at # "add" /\ Idle.at # "add"
    BY <2>1 DEF RecState, Idle
  <2> HIDE DEF on
  <2> QED BY <2>2, <2>3 DEF CountersInv, CountersTypeOK
<1> QED BY <1>3, OtherStep DEF RecordWindow

LEMMA CountersStep ==
  ASSUME CountersInv, [Next]_vars
  PROVE  CountersInv' /\ Grown
<1>1. rec \in [Recorder -> RecState]
  BY DEF CountersInv, CountersTypeOK
<1>2. ASSUME NEW r \in Recorder, NEW e \in Event, RecordEvent(r, e)
      PROVE  CountersInv' /\ Grown
  BY <1>2, RecordEventStep
<1>3. ASSUME NEW r \in Recorder, Lookup(r) \/ GetOrCreate(r) \/ Increment(r) \/ RecordWindow(r)
      PROVE  CountersInv' /\ Grown
  BY <1>3, LookupStep, GetOrCreateStep, IncrementStep, RecordWindowStep, SMTT(30)
<1>4. CASE ReadTotal \/ OpenSnapshot \/ CloseSnapshot
           \/ \E f \in Family : \E l \in Labels(f) : ReadLabel(l)
  BY <1>1, <1>4, OtherStep DEF ReadTotal, OpenSnapshot, CloseSnapshot, ReadLabel
<1>5. CASE Tick \/ \E t \in 0..MaxTime : StepBack(t)
  BY <1>1, <1>5, OtherStep DEF Tick, StepBack
<1>6. CASE UNCHANGED vars
  BY <1>1, <1>6, OtherStep DEF vars, NoCount
<1> QED BY <1>2, <1>3, <1>4, <1>5, <1>6 DEF Next

LEMMA SpecCounters == Spec => []CountersInv
BY InitCounters, CountersStep, PTL DEF Spec

\* No increment is lost or counted twice, for any number of recorders, types,
\* roots and events (LabeledCounter::with_labels and inc).
THEOREM IncrementsAreKept == Spec => []NothingMiscounted
BY SpecCounters, PTL DEF CountersInv

\* No label and no count that a scrape showed is gone or lower in a later one
\* (LabeledCounter::snapshot, AtomicCounter::get).
THEOREM CountersOnlyGrow == Spec => ScrapesGrow
<1>1. CountersInv /\ [Next]_vars => [Grown]_vars
  BY CountersStep
<1> QED BY <1>1, SpecCounters, PTL DEF Spec, ScrapesGrow, Grown

\* Each counter keeps its type, and each cell belongs to one label of one
\* counter (the HashMap of Arcs in LabeledCounter).
THEOREM CellsBelongToLabels == Spec => [](CountersTypeOK /\ CellsApart)
BY SpecCounters, PTL DEF CountersInv

-----------------------------------------------------------------------------
(* The chart.  A sum of counts is the size of a set: of the events that are *)
(* past their increment, told apart by their label and their number.        *)

Pairs(h, S) == UNION {{l} \X (1..h[l]) : l \in S}
Tally(f, S) == Pairs(counted[f], S)
InAll(i) == Tally(Families[i], Labels(Families[i]))

\* recorders whose event has yet to reach counter i
Ahead(i) == {r \in Under : rec[r].i <= i}

\* every event in the total has been counted by counter i or is on its way
TallyInv ==
  \A i \in 1..3 : /\ IsFiniteSet(InAll(i)) /\ IsFiniteSet(Ahead(i))
                  /\ total = Cardinality(InAll(i)) + Cardinality(Ahead(i))

\* what the reader has yet to add up
Unread == Tally(Families[chart.i], chart.todo)

ChartTypeOK ==
  \/ chart = Idle
  \/ chart \in [at : {"between"}, i : 1..3, total : Nat, under : Nat]
  \/ /\ chart \in [at : {"reading"}, i : 1..3, total : Nat, under : Nat, sum : Nat,
                   todo : SUBSET Labels(Families[chart.i])]
     /\ chart.todo \subseteq DOMAIN cells[Families[chart.i]]

\* what a chart is read from only grows, so that what is read and what is yet to
\* be read make no less than the total it began with
ChartInv ==
  /\ chart # Idle =>
       \A i \in 1..3 : chart.total - chart.under <= Cardinality(InAll(i))
  /\ chart.at = "reading" =>
       /\ chart.total - chart.under <= chart.sum + Cardinality(Unread)
       /\ chart.sum + Cardinality(Unread) <= Cardinality(InAll(chart.i))

LEMMA PairsMembers ==
  ASSUME NEW h, NEW S, NEW p
  PROVE  p \in Pairs(h, S) <=> \E l \in S : \E n \in 1..h[l] : p = <<l, n>>
BY DEF Pairs

\* the counters have different names
LEMMA CountersDiffer ==
  \A i, j \in 1..3 : Families[i] = Families[j] => i = j
BY DEF Families

\* One more event under one label.
LEMMA OneMoreEvent ==
  ASSUME NEW L, NEW S, S \subseteq L, NEW h \in [L -> Nat], NEW l \in L,
         NEW n \in Nat, n = h[l] + 1,
         NEW g, g[l] = n, \A k \in L : k # l => g[k] = h[k],
         IsFiniteSet(Pairs(h, S))
  PROVE  /\ IsFiniteSet(Pairs(g, S))
         /\ l \in S => Cardinality(Pairs(g, S)) = Cardinality(Pairs(h, S)) + 1
         /\ l \notin S => Cardinality(Pairs(g, S)) = Cardinality(Pairs(h, S))
<1>1. h[l] \in Nat /\ n \in Nat
  OBVIOUS
<1>2. \A k \in L : g[k] = IF k = l THEN n ELSE h[k]
  OBVIOUS
<1>3. Cardinality(Pairs(h, S)) \in Nat
  BY FS_CardinalityType
<1>4. <<l, n>> \notin Pairs(h, S)
  <2> SUFFICES ASSUME NEW k \in S, \E m \in 1..h[k] : <<l, n>> = <<k, m>>
               PROVE  FALSE
    BY PairsMembers
  <2>1. k = l /\ n \in 1..h[k]
    OBVIOUS
  <2> QED BY <1>1, <2>1
<1>5. CASE l \in S
  <2>1. ASSUME NEW p \in Pairs(g, S) PROVE p \in Pairs(h, S) \cup {<<l, n>>}
    <3>1. PICK k \in S : \E m \in 1..g[k] : p = <<k, m>>
      BY <2>1 DEF Pairs
    <3>2. PICK m \in 1..g[k] : p = <<k, m>>
      BY <3>1
    <3>3. CASE k # l
      <4>1. m \in 1..h[k]
        BY <1>2, <3>2, <3>3
      <4> QED BY <3>2, <4>1, PairsMembers
    <3>4. CASE k = l /\ m = n
      BY <3>2, <3>4
    <3>5. CASE k = l /\ m # n
      <4>1. m \in 1..n
        BY <1>2, <3>2, <3>5
      <4>2. m \in 1..h[k]
        BY <1>1, <3>5, <4>1
      <4> QED BY <3>2, <4>2, PairsMembers
    <3> QED BY <3>3, <3>4, <3>5
  <2>2. ASSUME NEW p \in Pairs(h, S) PROVE p \in Pairs(g, S)
    <3>1. PICK k \in S : \E m \in 1..h[k] : p = <<k, m>>
      BY PairsMembers
    <3>2. PICK m \in 1..h[k] : p = <<k, m>>
      BY <3>1
    <3>3. h[k] \in Nat /\ g[k] = IF k = l THEN h[k] + 1 ELSE h[k]
      BY <1>2
    <3>4. m \in 1..g[k]
      BY <3>2, <3>3
    <3> QED BY <3>2, <3>4, PairsMembers
  <2>3. <<l, n>> \in Pairs(g, S)
    <3>1. n \in 1..g[l]
      BY <1>1, <1>2
    <3> QED BY <1>5, <3>1, PairsMembers
  <2>4. Pairs(g, S) = Pairs(h, S) \cup {<<l, n>>}
    BY <2>1, <2>2, <2>3
  <2>5. Cardinality(Pairs(h, S) \cup {<<l, n>>}) = Cardinality(Pairs(h, S)) + 1
    BY <1>4, FS_AddElement
  <2>6. IsFiniteSet(Pairs(h, S) \cup {<<l, n>>})
    BY FS_AddElement
  <2> QED BY <1>5, <2>4, <2>5, <2>6
<1>6. CASE l \notin S
  <2>1. \A k \in S : g[k] = h[k]
    BY <1>2, <1>6
  <2>2. Pairs(g, S) = Pairs(h, S)
    BY <2>1 DEF Pairs
  <2> QED BY <1>3, <1>6, <2>2
<1> QED BY <1>5, <1>6

\* The pairs of one label are as many as its count.
LEMMA OneLabel ==
  ASSUME NEW h, NEW S, NEW l \in S, h[l] \in Nat, IsFiniteSet(Pairs(h, S))
  PROVE  /\ IsFiniteSet(Pairs(h, S \ {l}))
         /\ Cardinality(Pairs(h, S)) = h[l] + Cardinality(Pairs(h, S \ {l}))
<1> DEFINE P == {l} \X (1..h[l])
           R == Pairs(h, S \ {l})
           put == [n \in 1..h[l] |-> <<l, n>>]
<1>1. Pairs(h, S) = P \cup R /\ P \cap R = {}
  BY DEF Pairs
<1>2. IsFiniteSet(1..h[l]) /\ Cardinality(1..h[l]) = h[l]
  BY FS_Interval, SMTT(30)
<1>3. put \in Surjection(1..h[l], P) /\ put \in Injection(1..h[l], P)
  BY DEF Surjection, Injection, IsInjective
<1>4. IsFiniteSet(P) /\ Cardinality(P) = h[l]
  <2> HIDE DEF P, put
  <2>1. /\ IsFiniteSet(P)
        /\ Cardinality(P) = Cardinality(1..h[l]) <=> put \in Injection(1..h[l], P)
    BY <1>2, <1>3, FS_Surjection
  <2> QED BY <1>2, <1>3, <2>1
<1>5. IsFiniteSet(R)
  BY <1>1, FS_Subset
<1> HIDE DEF P, R
<1>6. Cardinality(P \cup R) = Cardinality(P) + Cardinality(R) - Cardinality(P \cap R)
  BY <1>4, <1>5, FS_Union
<1>7. Cardinality(P \cap R) = 0 /\ Cardinality(R) \in Nat
  BY <1>1, <1>5, FS_EmptySet, FS_CardinalityType
<1>8. Cardinality(Pairs(h, S)) = h[l] + Cardinality(R)
  BY <1>1, <1>4, <1>6, <1>7
<1> QED BY <1>5, <1>8 DEF R

\* Labels that have counted nothing add nothing.
LEMMA NothingCounted ==
  ASSUME NEW h, NEW S, NEW T, T \subseteq S, \A l \in S \ T : h[l] = 0
  PROVE  Pairs(h, T) = Pairs(h, S)
<1>1. ASSUME NEW p \in Pairs(h, S) PROVE p \in Pairs(h, T)
  <2>1. PICK l \in S : \E n \in 1..h[l] : p = <<l, n>>
    BY PairsMembers
  <2>2. h[l] # 0
    BY <2>1
  <2>3. l \in T
    BY <2>2
  <2> QED BY <2>1, <2>3, PairsMembers
<1>2. Pairs(h, T) \subseteq Pairs(h, S)
  BY DEF Pairs
<1> QED BY <1>1, <1>2

-----------------------------------------------------------------------------

LEMMA AheadMembers ==
  ASSUME NEW i, NEW r
  PROVE  r \in Ahead(i) <=> /\ r \in Recorder
                            /\ rec[r].at \in {"lookup", "create", "add"}
                            /\ rec[r].i <= i
BY DEF Ahead, Under

\* a recorder begins
LEMMA RecordEventTally ==
  ASSUME CountersInv, TallyInv, NEW r \in Recorder, NEW e \in Event, RecordEvent(r, e)
  PROVE  TallyInv'
<1>1. /\ rec' = [rec EXCEPT ![r] = [at |-> "lookup", i |-> 1, e |-> e]]
      /\ rec[r].at = "idle" /\ counted' = counted /\ total' = total + 1
  BY DEF RecordEvent, Idle
<1>2. total \in Nat /\ DOMAIN rec = Recorder
  BY DEF CountersInv, CountersTypeOK
<1> SUFFICES ASSUME NEW i \in 1..3
             PROVE  /\ IsFiniteSet(InAll(i)') /\ IsFiniteSet(Ahead(i)')
                    /\ total' = Cardinality(InAll(i)') + Cardinality(Ahead(i)')
  BY DEF TallyInv
<1>3. InAll(i)' = InAll(i)
  BY <1>1 DEF InAll, Tally
<1>4. Ahead(i)' = Ahead(i) \cup {r} /\ r \notin Ahead(i)
  <2>1. r \notin Ahead(i)
    BY <1>1, AheadMembers
  <2>2. \A q \in Recorder : rec'[q] = IF q = r THEN [at |-> "lookup", i |-> 1, e |-> e]
                                              ELSE rec[q]
    BY <1>1, <1>2
  <2>3. \A q : q \in Ahead(i)' <=> q = r \/ q \in Ahead(i)
    BY <2>2 DEF Ahead, Under
  <2> QED BY <2>1, <2>3
<1>5. /\ IsFiniteSet(InAll(i)) /\ IsFiniteSet(Ahead(i))
      /\ total = Cardinality(InAll(i)) + Cardinality(Ahead(i))
  BY DEF TallyInv
<1>6. Cardinality(InAll(i)) \in Nat /\ Cardinality(Ahead(i)) \in Nat
  BY <1>5, FS_CardinalityType
<1>7. /\ IsFiniteSet(Ahead(i) \cup {r})
      /\ Cardinality(Ahead(i) \cup {r}) = Cardinality(Ahead(i)) + 1
  BY <1>4, <1>5, FS_AddElement
<1> QED BY <1>1, <1>3, <1>4, <1>5, <1>6, <1>7

\* What an increment does to the counts: one more under one label of one counter.
LEMMA IncrementCounts ==
  ASSUME CountersInv, NEW r \in Recorder, Increment(r),
         NEW i \in 1..3, NEW S, S \subseteq Labels(Families[i]),
         IsFiniteSet(Tally(Families[i], S))
  PROVE  /\ IsFiniteSet(Pairs(counted'[Families[i]], S))
         /\ Cardinality(Pairs(counted'[Families[i]], S)) =
              Cardinality(Tally(Families[i], S)) +
              (IF i = rec[r].i /\ LabelAt(r) \in S THEN 1 ELSE 0)
<1> DEFINE f == FamilyOf(r)
           l == LabelAt(r)
           h == counted[f]
           g == [h EXCEPT ![l] = h[l] + 1]
<1>1. /\ f \in Family /\ l \in Labels(f) /\ rec[r].i \in 1..3
      /\ f = Families[rec[r].i] /\ Families[i] \in Family
  BY AtCounter, FamiliesAreCounters DEF CountersInv, Increment, FamilyOf
<1>2. DOMAIN counted = Family /\ h \in [Labels(f) -> Nat]
  BY <1>1 DEF CountersInv, CountersTypeOK
<1>3. counted' = [counted EXCEPT ![f] = g]
  BY DEF Increment
<1>4. CASE i = rec[r].i
  <2>1. counted'[Families[i]] = g /\ Families[i] = f /\ Tally(Families[i], S) = Pairs(h, S)
    BY <1>1, <1>2, <1>3, <1>4 DEF Tally
  <2>2. S \subseteq Labels(f) /\ IsFiniteSet(Pairs(h, S))
    BY <2>1
  <2> DEFINE L == Labels(f)
             n == h[l] + 1
  <2>4. /\ n \in Nat /\ n = h[l] + 1
        /\ g[l] = n /\ \A k \in L : k # l => g[k] = h[k]
        /\ S \subseteq L /\ h \in [L -> Nat] /\ l \in L
    BY <1>1, <1>2, <2>2
  <2> HIDE DEF f, l, h, g, L, n
  <2>3. /\ IsFiniteSet(Pairs(g, S))
        /\ l \in S => Cardinality(Pairs(g, S)) = Cardinality(Pairs(h, S)) + 1
        /\ l \notin S => Cardinality(Pairs(g, S)) = Cardinality(Pairs(h, S))
    <3>1. IsFiniteSet(Pairs(h, S))
      BY <2>2
    <3> QED BY ONLY <2>4, <3>1, OneMoreEvent
  <2>5. Cardinality(Pairs(h, S)) \in Nat
    BY <2>2, FS_CardinalityType
  <2> QED BY <1>4, <2>1, <2>3, <2>5 DEF l
<1>5. CASE i # rec[r].i
  <2>1. Families[i] # f
    BY <1>1, <1>5, CountersDiffer
  <2>2. counted'[Families[i]] = counted[Families[i]]
    BY <1>1, <1>2, <1>3, <2>1
  <2>3. Pairs(counted'[Families[i]], S) = Tally(Families[i], S)
    BY <2>2 DEF Tally
  <2>4. Cardinality(Tally(Families[i], S)) \in Nat
    BY FS_CardinalityType
  <2> QED BY <1>5, <2>3, <2>4
<1> QED BY <1>4, <1>5

\* a recorder's event is counted, and the recorder goes on to the next counter
LEMMA IncrementTally ==
  ASSUME CountersInv, TallyInv, NEW r \in Recorder, Increment(r)
  PROVE  TallyInv'
<1>1. /\ rec[r].i \in 1..3 /\ LabelAt(r) \in Labels(Families[rec[r].i])
      /\ rec[r].at = "add"
  BY AtCounter DEF CountersInv, Increment, FamilyOf
<1>2. total \in Nat /\ DOMAIN rec = Recorder /\ total' = total
  BY DEF CountersInv, CountersTypeOK, Increment
<1>3. \A q \in Recorder :
        rec'[q] = IF q = r THEN IF rec[r].i < 3
                                THEN [at |-> "lookup", i |-> rec[r].i + 1, e |-> rec[r].e]
                                ELSE [at |-> "window", i |-> 1, e |-> rec[r].e]
                           ELSE rec[q]
  BY <1>2, FamiliesAreCounters DEF Increment
<1> SUFFICES ASSUME NEW i \in 1..3
             PROVE  /\ IsFiniteSet(InAll(i)') /\ IsFiniteSet(Ahead(i)')
                    /\ total' = Cardinality(InAll(i)') + Cardinality(Ahead(i)')
  BY DEF TallyInv
<1>5. /\ IsFiniteSet(InAll(i)) /\ IsFiniteSet(Ahead(i))
      /\ total = Cardinality(InAll(i)) + Cardinality(Ahead(i))
  BY DEF TallyInv
<1>6. Cardinality(InAll(i)) \in Nat /\ Cardinality(Ahead(i)) \in Nat
  BY <1>5, FS_CardinalityType
<1>7. InAll(i)' = Pairs(counted'[Families[i]], Labels(Families[i]))
  BY DEF InAll, Tally
<1>8. /\ IsFiniteSet(InAll(i)')
      /\ Cardinality(InAll(i)') =
           Cardinality(InAll(i)) + (IF i = rec[r].i THEN 1 ELSE 0)
  BY <1>1, <1>5, <1>7, IncrementCounts DEF InAll
<1>9. CASE i = rec[r].i
  <2>1. r \in Ahead(i)
    BY <1>1, <1>9, AheadMembers
  <2>2. \A q : q \in Ahead(i)' <=> q # r /\ q \in Ahead(i)
    BY <1>1, <1>3, <1>9 DEF Ahead, Under
  <2>3. Ahead(i)' = Ahead(i) \ {r}
    BY <2>2
  <2>4. /\ IsFiniteSet(Ahead(i) \ {r})
        /\ Cardinality(Ahead(i) \ {r}) = Cardinality(Ahead(i)) - 1
    BY <1>5, <2>1, FS_RemoveElement
  <2> QED BY <1>2, <1>5, <1>6, <1>8, <1>9, <2>3, <2>4
<1>10. CASE i # rec[r].i
  <2>1. \A q : q \in Ahead(i)' <=> q \in Ahead(i)
    BY <1>1, <1>3, <1>10 DEF Ahead, Under
  <2>2. Ahead(i)' = Ahead(i)
    BY <2>1
  <2> QED BY <1>2, <1>5, <1>6, <1>8, <1>10, <2>2
<1> QED BY <1>9, <1>10

\* Other steps count nothing and leave those who are on their way on their way.
LEMMA OtherSteps ==
  ASSUME CountersInv, [Next]_vars
  PROVE  \/ \E r \in Recorder, e \in Event : RecordEvent(r, e)
         \/ \E r \in Recorder : Increment(r)
         \/ /\ total' = total /\ counted' = counted
            /\ \A q \in Recorder :
                 /\ rec'[q].at \in {"lookup", "create", "add"}
                      <=> rec[q].at \in {"lookup", "create", "add"}
                 /\ rec[q].at \in {"lookup", "create", "add"} => rec'[q].i = rec[q].i
<1>1. rec \in [Recorder -> RecState]
  BY DEF CountersInv, CountersTypeOK
<1>2. ASSUME NEW r \in Recorder, Lookup(r)
      PROVE  /\ total' = total /\ counted' = counted
             /\ \A q \in Recorder :
                 /\ rec'[q].at \in {"lookup", "create", "add"}
                      <=> rec[q].at \in {"lookup", "create", "add"}
                 /\ rec[q].at \in {"lookup", "create", "add"} => rec'[q].i = rec[q].i
  <2>1. rec[r] \in [at : {"lookup", "create"}, i : 1..3, e : Event] /\ rec[r].at = "lookup"
    BY <1>2, AtCounter DEF CountersInv, Lookup
  <2>2. \/ \E c : rec' = Holding(r, c)
        \/ rec' = [rec EXCEPT ![r].at = "create"]
    BY <1>2 DEF Lookup
  <2>3. rec'[r].at \in {"create", "add"} /\ rec'[r].i = rec[r].i
    BY <1>1, <2>1, <2>2 DEF Holding
  <2>4. \A q \in Recorder : q # r => rec'[q] = rec[q]
    BY <1>1, <2>2 DEF Holding
  <2> QED BY <1>2, <2>1, <2>3, <2>4 DEF Lookup, NoCount
<1>3. ASSUME NEW r \in Recorder, GetOrCreate(r)
      PROVE  /\ total' = total /\ counted' = counted
             /\ \A q \in Recorder :
                 /\ rec'[q].at \in {"lookup", "create", "add"}
                      <=> rec[q].at \in {"lookup", "create", "add"}
                 /\ rec[q].at \in {"lookup", "create", "add"} => rec'[q].i = rec[q].i
  <2>1. rec[r].at = "create"
    BY <1>3 DEF GetOrCreate
  <2>2. \E c : rec' = Holding(r, c)
    BY <1>3 DEF GetOrCreate
  <2>3. rec'[r].at = "add" /\ rec'[r].i = rec[r].i
    BY <1>1, <2>2 DEF Holding
  <2>4. \A q \in Recorder : q # r => rec'[q] = rec[q]
    BY <1>1, <2>2 DEF Holding
  <2> QED BY <1>3, <2>1, <2>3, <2>4 DEF GetOrCreate
<1>4. ASSUME NEW r \in Recorder, RecordWindow(r)
      PROVE  /\ total' = total /\ counted' = counted
             /\ \A q \in Recorder :
                 /\ rec'[q].at \in {"lookup", "create", "add"}
                      <=> rec[q].at \in {"lookup", "create", "add"}
                 /\ rec[q].at \in {"lookup", "create", "add"} => rec'[q].i = rec[q].i
  <2>1. rec[r].at = "window" /\ rec[r] \in RecState
    BY <1>1, <1>4 DEF RecordWindow
  <2>2. rec[r] \in [at : {"window"}, i : Nat, e : Event]
    BY <2>1 DEF RecState, Idle
  <2> DEFINE on == [rec[r] EXCEPT !.i = rec[r].i + 1]
  <2>3. on.at = "window"
    BY <2>2
  <2>4. rec' = [rec EXCEPT ![r] = on] \/ rec' = [rec EXCEPT ![r] = Idle]
    BY <1>4 DEF RecordWindow
  <2> HIDE DEF on
  <2>5. rec'[r].at \in {"window", "idle"}
    BY <1>1, <2>3, <2>4 DEF Idle
  <2>6. \A q \in Recorder : q # r => rec'[q] = rec[q]
    BY <1>1, <2>4
  <2> QED BY <1>4, <2>1, <2>5, <2>6 DEF RecordWindow, NoCount
<1>5. CASE \/ ReadTotal \/ OpenSnapshot \/ CloseSnapshot
           \/ \E f \in Family : \E l \in Labels(f) : ReadLabel(l)
  BY <1>5 DEF ReadTotal, OpenSnapshot, CloseSnapshot, ReadLabel, NoCount
<1>6. CASE Tick \/ \E t \in 0..MaxTime : StepBack(t)
  BY <1>6 DEF Tick, StepBack, NoCount
<1>7. CASE UNCHANGED vars
  BY <1>7 DEF vars
<1> QED BY <1>2, <1>3, <1>4, <1>5, <1>6, <1>7 DEF Next

LEMMA TallyStep ==
  ASSUME CountersInv, TallyInv, [Next]_vars
  PROVE  TallyInv'
<1>1. CASE \E r \in Recorder, e \in Event : RecordEvent(r, e)
  BY <1>1, RecordEventTally
<1>2. CASE \E r \in Recorder : Increment(r)
  BY <1>2, IncrementTally
<1>3. CASE /\ total' = total /\ counted' = counted
           /\ \A q \in Recorder :
                /\ rec'[q].at \in {"lookup", "create", "add"}
                     <=> rec[q].at \in {"lookup", "create", "add"}
                /\ rec[q].at \in {"lookup", "create", "add"} => rec'[q].i = rec[q].i
  <2>1. \A i \in 1..3 : InAll(i)' = InAll(i)
    BY <1>3 DEF InAll, Tally
  <2>2. \A i \in 1..3 : Ahead(i)' = Ahead(i)
    BY <1>3 DEF Ahead, Under
  <2> QED BY <1>3, <2>1, <2>2 DEF TallyInv
<1> QED BY <1>1, <1>2, <1>3, OtherSteps

LEMMA InitTally == Init => TallyInv
<1> SUFFICES ASSUME Init, NEW i \in 1..3
             PROVE  /\ IsFiniteSet(InAll(i)) /\ IsFiniteSet(Ahead(i))
                    /\ total = Cardinality(InAll(i)) + Cardinality(Ahead(i))
  BY DEF TallyInv
<1>1. Families[i] \in Family
  BY FamiliesAreCounters
<1>2. \A l \in Labels(Families[i]) : counted[Families[i]][l] = 0
  BY <1>1 DEF Init
<1>3. InAll(i) = {}
  BY <1>2 DEF InAll, Tally, Pairs
<1>4. Ahead(i) = {}
  BY DEF Init, Ahead, Under, Idle
<1>5. total = 0
  BY DEF Init
<1> QED BY <1>3, <1>4, <1>5, FS_EmptySet

-----------------------------------------------------------------------------

LEMMA ChartParts ==
  ASSUME ChartTypeOK
  PROVE  /\ chart.at \in {"idle", "between", "reading"}
         /\ chart = Idle <=> chart.at = "idle"
         /\ chart # Idle => chart.i \in 1..3 /\ chart.total \in Nat /\ chart.under \in Nat
         /\ chart.at = "between" =>
              chart \in [at : {"between"}, i : 1..3, total : Nat, under : Nat]
         /\ chart.at = "reading" =>
              /\ chart.i \in 1..3 /\ chart.sum \in Nat
              /\ chart.todo \subseteq Labels(Families[chart.i])
              /\ chart.todo \subseteq DOMAIN cells[Families[chart.i]]
              /\ chart \in [at : {"reading"}, i : 1..3, total : Nat, under : Nat,
                            sum : Nat, todo : SUBSET Labels(Families[chart.i])]
BY DEF ChartTypeOK, Idle

\* the pairs of some labels are among those of all
LEMMA TallyPart ==
  ASSUME TallyInv, NEW i \in 1..3, NEW S, S \subseteq Labels(Families[i])
  PROVE  /\ IsFiniteSet(Tally(Families[i], S))
         /\ IsFiniteSet(InAll(i))
         /\ Cardinality(Tally(Families[i], S)) \in Nat
         /\ Cardinality(InAll(i)) \in Nat
<1>1. Tally(Families[i], S) \subseteq InAll(i)
  BY DEF InAll, Tally, Pairs
<1>2. IsFiniteSet(InAll(i))
  BY DEF TallyInv
<1>3. IsFiniteSet(Tally(Families[i], S))
  BY <1>1, <1>2, FS_Subset
<1> QED BY <1>2, <1>3, FS_CardinalityType

\* Whatever recorders do while a chart is read.
LEMMA ChartStays ==
  ASSUME CountersInv, TallyInv, ChartTypeOK, ChartInv, [Next]_vars, chart' = chart
  PROVE  ChartTypeOK' /\ ChartInv'
<1>1. \A f \in Family : DOMAIN cells[f] \subseteq DOMAIN cells'[f]
  BY CountersStep DEF Grown
<1>2. ChartTypeOK'
  BY <1>1, FamiliesAreCounters DEF ChartTypeOK
<1>3. \/ counted' = counted
      \/ \E r \in Recorder : Increment(r)
  BY OtherSteps DEF RecordEvent
<1>4. CASE counted' = counted
  <2>1. \A i \in 1..3 : InAll(i)' = InAll(i)
    BY <1>4 DEF InAll, Tally
  <2>2. Unread' = Unread
    BY <1>4 DEF Unread, Tally
  <2>3. chart.at = "reading" => chart.i \in 1..3
    BY ChartParts
  <2> QED BY <1>2, <2>1, <2>2, <2>3 DEF ChartInv
<1>5. ASSUME NEW r \in Recorder, Increment(r)
      PROVE  ChartInv'
  <2>1. \A i \in 1..3 :
          /\ Cardinality(InAll(i)) \in Nat /\ Cardinality(InAll(i)') \in Nat
          /\ Cardinality(InAll(i)') = Cardinality(InAll(i)) + (IF i = rec[r].i THEN 1 ELSE 0)
    <3> TAKE i \in 1..3
    <3>1. IsFiniteSet(InAll(i)) /\ Cardinality(InAll(i)) \in Nat
      BY TallyPart
    <3>2. rec[r].i \in 1..3 /\ LabelAt(r) \in Labels(Families[rec[r].i])
      BY <1>5, AtCounter DEF CountersInv, Increment, FamilyOf
    <3>3. InAll(i)' = Pairs(counted'[Families[i]], Labels(Families[i]))
      BY DEF InAll, Tally
    <3>4. Cardinality(InAll(i)') = Cardinality(InAll(i)) + (IF i = rec[r].i THEN 1 ELSE 0)
      BY <1>5, <3>1, <3>2, <3>3, IncrementCounts DEF InAll
    <3> QED BY <3>1, <3>4
  <2>2. ASSUME chart # Idle, NEW i \in 1..3
        PROVE  chart.total - chart.under <= Cardinality(InAll(i)')
    <3>1. chart.total - chart.under \in Int
      BY <2>2, ChartParts
    <3>2. chart.total - chart.under <= Cardinality(InAll(i))
      BY <2>2 DEF ChartInv
    <3> QED BY <2>1, <3>1, <3>2
  <2>3. ASSUME chart.at = "reading"
        PROVE  /\ chart.total - chart.under <= chart.sum + Cardinality(Unread')
               /\ chart.sum + Cardinality(Unread') <= Cardinality(InAll(chart.i)')
    <3> DEFINE i == chart.i
               f == Families[i]
               b == i = rec[r].i /\ LabelAt(r) \in chart.todo
    <3>1. i \in 1..3 /\ chart.todo \subseteq Labels(f) /\ chart.sum \in Nat
      BY <2>3, ChartParts
    <3>2. IsFiniteSet(Unread) /\ Cardinality(Unread) \in Nat
      BY <3>1, TallyPart DEF Unread
    <3>3. Unread' = Pairs(counted'[f], chart.todo)
      BY DEF Unread, Tally
    <3>4. Cardinality(Unread') = Cardinality(Unread) + (IF b THEN 1 ELSE 0)
      BY <1>5, <3>1, <3>2, <3>3, IncrementCounts DEF Unread
    <3>5. chart.total - chart.under \in Int
      BY <2>3, ChartParts
    <3>6. /\ chart.total - chart.under <= chart.sum + Cardinality(Unread)
          /\ chart.sum + Cardinality(Unread) <= Cardinality(InAll(i))
      BY <2>3 DEF ChartInv
    <3>7. chart.total - chart.under <= chart.sum + Cardinality(Unread')
      BY <3>1, <3>2, <3>4, <3>5, <3>6
    <3>8. CASE b
      <4>1. Cardinality(InAll(i)') = Cardinality(InAll(i)) + 1 /\ Cardinality(InAll(i)) \in Nat
        BY <2>1, <3>1, <3>8
      <4>2. Cardinality(Unread') = Cardinality(Unread) + 1
        BY <3>4, <3>8
      <4> QED BY <3>1, <3>2, <3>6, <3>7, <4>1, <4>2
    <3>9. CASE ~b
      <4>1. Cardinality(InAll(i)') >= Cardinality(InAll(i))
            /\ Cardinality(InAll(i)) \in Nat /\ Cardinality(InAll(i)') \in Nat
        BY <2>1, <3>1
      <4>2. Cardinality(Unread') = Cardinality(Unread)
        BY <3>2, <3>4, <3>9
      <4> QED BY <3>1, <3>2, <3>6, <3>7, <4>1, <4>2
    <3> QED BY <3>8, <3>9
  <2>4. chart.at = "reading" => chart.i \in 1..3
    BY ChartParts
  <2> QED BY <2>2, <2>3, <2>4 DEF ChartInv
<1> QED BY <1>2, <1>3, <1>4, <1>5

\* the total is read: what is not in a counter yet is under way
LEMMA ReadTotalStep ==
  ASSUME CountersInv, TallyInv, ReadTotal
  PROVE  ChartTypeOK' /\ ChartInv'
<1>1. /\ chart' = [at |-> "between", i |-> 1, total |-> total, under |-> Cardinality(Under)]
      /\ counted' = counted
  BY DEF ReadTotal, NoCount
<1>2. \A r \in Under : rec[r].i \in 1..3
  BY AtCounter DEF Under, CountersInv
<1>3. Under = Ahead(3)
  BY <1>2 DEF Ahead
<1>4. IsFiniteSet(Under)
  BY <1>3 DEF TallyInv
<1>5. Cardinality(Under) \in Nat /\ total \in Nat
  BY <1>4, FS_CardinalityType DEF CountersInv, CountersTypeOK
<1>6. chart' \in [at : {"between"}, i : 1..3, total : Nat, under : Nat]
  BY <1>1, <1>5
<1>7. ASSUME NEW i \in 1..3
      PROVE  total - Cardinality(Under) <= Cardinality(InAll(i)')
  <2>1. InAll(i)' = InAll(i)
    BY <1>1 DEF InAll, Tally
  <2>2. Ahead(i) \subseteq Under
    BY DEF Ahead
  <2>3. Cardinality(Ahead(i)) <= Cardinality(Under)
    BY <1>4, <2>2, FS_Subset
  <2>4. /\ IsFiniteSet(InAll(i)) /\ IsFiniteSet(Ahead(i))
        /\ total = Cardinality(InAll(i)) + Cardinality(Ahead(i))
    BY DEF TallyInv
  <2>5. Cardinality(InAll(i)) \in Nat /\ Cardinality(Ahead(i)) \in Nat
    BY <2>4, FS_CardinalityType
  <2> QED BY <1>5, <2>1, <2>3, <2>4, <2>5
<1> QED BY <1>1, <1>6, <1>7 DEF ChartTypeOK, ChartInv

\* a counter is opened: labels that are not in its map have counted nothing
LEMMA OpenSnapshotStep ==
  ASSUME CountersInv, TallyInv, ChartTypeOK, ChartInv, OpenSnapshot
  PROVE  ChartTypeOK' /\ ChartInv'
<1> DEFINE i == chart.i
           f == Families[i]
<1>1. /\ chart.at = "between"
      /\ chart' = [at |-> "reading", i |-> i, total |-> chart.total,
                   under |-> chart.under, sum |-> 0, todo |-> DOMAIN cells[f]]
      /\ UNCHANGED <<counted, cells>>
  BY DEF OpenSnapshot, NoCount
<1>2. /\ i \in 1..3 /\ f \in Family /\ chart.total \in Nat /\ chart.under \in Nat
      /\ chart # Idle
  BY <1>1, ChartParts, FamiliesAreCounters
<1>3. DOMAIN cells[f] \subseteq Labels(f)
  BY <1>2 DEF CountersInv, CountersTypeOK
<1>4. Unread' = InAll(i)
  <2>1. \A l \in Labels(f) \ DOMAIN cells[f] : counted[f][l] = 0
    BY <1>2 DEF CountersInv, NothingMiscounted
  <2>2. Pairs(counted[f], DOMAIN cells[f]) = Pairs(counted[f], Labels(f))
    BY <1>3, <2>1, NothingCounted
  <2>3. Unread' = Pairs(counted[f], DOMAIN cells[f])
    BY <1>1 DEF Unread, Tally
  <2> QED BY <2>2, <2>3 DEF InAll, Tally
<1>5. \A j \in 1..3 : InAll(j)' = InAll(j)
  BY <1>1 DEF InAll, Tally
<1>6. chart'.i = i /\ chart'.total = chart.total /\ chart'.under = chart.under
      /\ chart'.sum = 0 /\ chart'.todo = DOMAIN cells[f] /\ chart'.at = "reading"
  BY <1>1
<1>7. Cardinality(InAll(i)) \in Nat
  BY <1>2, TallyPart
<1>8. \A j \in 1..3 : chart.total - chart.under <= Cardinality(InAll(j))
  BY <1>2 DEF ChartInv
<1>9. ChartTypeOK'
  BY <1>1, <1>2, <1>3 DEF ChartTypeOK
<1> HIDE DEF i, f
<1>10. ChartInv'
  BY <1>2, <1>4, <1>5, <1>6, <1>7, <1>8 DEF ChartInv
<1> QED BY <1>9, <1>10

\* a label is read: its cell holds what it has counted
LEMMA ReadLabelStep ==
  ASSUME CountersInv, TallyInv, ChartTypeOK, ChartInv, NEW l, ReadLabel(l)
  PROVE  ChartTypeOK' /\ ChartInv'
<1> DEFINE i == chart.i
           f == Families[i]
           n == counted[f][l]
           S == chart.todo
<1>1. /\ chart.at = "reading" /\ l \in S
      /\ UNCHANGED <<counted, cells>>
  BY DEF ReadLabel, NoCount
<1>2. /\ i \in 1..3 /\ f \in Family /\ chart.total \in Nat /\ chart.under \in Nat
      /\ chart # Idle /\ S \subseteq Labels(f) /\ S \subseteq DOMAIN cells[f]
      /\ chart.sum \in Nat
  BY <1>1, ChartParts, FamiliesAreCounters
<1>3. value[cells[f][l]] = n /\ n \in Nat
  <2>1. l \in Labels(f) /\ l \in DOMAIN cells[f]
    BY <1>1, <1>2
  <2>2. counted[f] \in [Labels(f) -> Nat]
    BY <1>2 DEF CountersInv, CountersTypeOK
  <2> QED BY <1>2, <2>1, <2>2 DEF CountersInv, NothingMiscounted
<1>4. chart' = [chart EXCEPT !.todo = S \ {l}, !.sum = chart.sum + n]
  BY <1>3 DEF ReadLabel
<1>5. chart \in [at : {"reading"}, i : 1..3, total : Nat, under : Nat, sum : Nat,
                 todo : SUBSET Labels(f)]
  BY <1>1, ChartParts
<1>6. /\ chart'.at = "reading" /\ chart'.i = i /\ chart'.total = chart.total
      /\ chart'.under = chart.under /\ chart'.sum = chart.sum + n /\ chart'.todo = S \ {l}
      /\ chart' \in [at : {"reading"}, i : 1..3, total : Nat, under : Nat, sum : Nat,
                     todo : SUBSET Labels(f)]
  <2> DEFINE L == SUBSET Labels(f)
             sum == chart.sum + n
             todo == S \ {l}
  <2>1. sum \in Nat /\ todo \in L
    BY <1>2, <1>3
  <2>2. chart' = [chart EXCEPT !.todo = todo, !.sum = sum]
    BY <1>4
  <2>3. chart \in [at : {"reading"}, i : 1..3, total : Nat, under : Nat, sum : Nat, todo : L]
    BY <1>5
  <2> HIDE DEF n, f, S, L, sum, todo
  <2>4. /\ chart'.at = "reading" /\ chart'.i = i /\ chart'.total = chart.total
        /\ chart'.under = chart.under /\ chart'.sum = sum /\ chart'.todo = todo
        /\ chart' \in [at : {"reading"}, i : 1..3, total : Nat, under : Nat, sum : Nat,
                       todo : L]
    BY <2>1, <2>2, <2>3
  <2> QED BY <2>4 DEF sum, todo, L
<1>7. ChartTypeOK'
  BY <1>1, <1>2, <1>6 DEF ChartTypeOK
<1>8. \A j \in 1..3 : InAll(j)' = InAll(j)
  BY <1>1 DEF InAll, Tally
<1>9. /\ IsFiniteSet(Tally(f, S)) /\ Cardinality(Tally(f, S)) \in Nat
  BY <1>2, TallyPart
<1>10. Unread' = Tally(f, S \ {l}) /\ Unread = Tally(f, S)
  BY <1>1, <1>6 DEF Unread, Tally
<1>11. /\ Cardinality(Tally(f, S)) = n + Cardinality(Tally(f, S \ {l}))
       /\ Cardinality(Tally(f, S \ {l})) \in Nat
  <2>1. Tally(f, S) = Pairs(counted[f], S)
        /\ Tally(f, S \ {l}) = Pairs(counted[f], S \ {l})
    BY DEF Tally
  <2>2. /\ IsFiniteSet(Pairs(counted[f], S \ {l}))
        /\ Cardinality(Pairs(counted[f], S)) = n + Cardinality(Pairs(counted[f], S \ {l}))
    BY <1>1, <1>3, <1>9, <2>1, OneLabel
  <2> QED BY <2>1, <2>2, FS_CardinalityType
<1>12. chart.sum + Cardinality(Unread) = chart'.sum + Cardinality(Unread')
  <2> HIDE DEF n
  <2> QED BY <1>2, <1>3, <1>6, <1>10, <1>11
<1>13. /\ chart.total - chart.under <= chart.sum + Cardinality(Unread)
       /\ chart.sum + Cardinality(Unread) <= Cardinality(InAll(i))
       /\ \A j \in 1..3 : chart.total - chart.under <= Cardinality(InAll(j))
  BY <1>1, <1>2 DEF ChartInv
<1> HIDE DEF i, f, n, S
<1>14. ChartInv'
  BY <1>2, <1>6, <1>8, <1>12, <1>13 DEF ChartInv
<1> QED BY <1>7, <1>14

\* on to the next counter, or the chart is done
LEMMA CloseSnapshotStep ==
  ASSUME CountersInv, TallyInv, ChartTypeOK, ChartInv, CloseSnapshot
  PROVE  ChartTypeOK' /\ ChartInv'
<1>1. /\ chart.at = "reading" /\ counted' = counted
      /\ chart' = IF chart.i < 3
                  THEN [at |-> "between", i |-> chart.i + 1,
                        total |-> chart.total, under |-> chart.under]
                  ELSE Idle
  BY FamiliesAreCounters DEF CloseSnapshot, NoCount
<1>2. /\ chart.i \in 1..3 /\ chart.total \in Nat /\ chart.under \in Nat
      /\ chart # Idle
  BY <1>1, ChartParts
<1>3. \A j \in 1..3 : InAll(j)' = InAll(j)
  BY <1>1 DEF InAll, Tally
<1>4. \A j \in 1..3 : chart.total - chart.under <= Cardinality(InAll(j))
  BY <1>2 DEF ChartInv
<1>5. ChartTypeOK'
  BY <1>1, <1>2 DEF ChartTypeOK
<1>6. ChartInv'
  BY <1>1, <1>2, <1>3, <1>4 DEF ChartInv, Idle
<1> QED BY <1>5, <1>6

LEMMA ChartStep ==
  ASSUME CountersInv, TallyInv, ChartTypeOK, ChartInv, [Next]_vars
  PROVE  ChartTypeOK' /\ ChartInv'
<1>1. CASE ReadTotal
  BY <1>1, ReadTotalStep
<1>2. CASE OpenSnapshot
  BY <1>2, OpenSnapshotStep
<1>3. CASE \E f \in Family : \E l \in Labels(f) : ReadLabel(l)
  BY <1>3, ReadLabelStep
<1>4. CASE CloseSnapshot
  BY <1>4, CloseSnapshotStep
<1>5. CASE \E r \in Recorder : \/ \E e \in Event : RecordEvent(r, e)
                              \/ Lookup(r) \/ GetOrCreate(r) \/ Increment(r)
                              \/ RecordWindow(r)
  <2>1. chart' = chart
    BY Zenon, <1>5 DEF RecordEvent, Lookup, GetOrCreate, Increment, RecordWindow
  <2> QED BY <2>1, ChartStays, SMTT(30)
<1>6. CASE Tick \/ (\E t \in 0..MaxTime : StepBack(t)) \/ UNCHANGED vars
  <2>1. chart' = chart
    BY <1>6 DEF Tick, StepBack, vars
  <2> QED BY <2>1, ChartStays
<1> QED BY <1>1, <1>2, <1>3, <1>4, <1>5, <1>6 DEF Next

LEMMA ChartAddsUp ==
  ASSUME CountersInv, TallyInv, ChartTypeOK, ChartInv
  PROVE  ChartHangsTogether
<1> SUFFICES ASSUME chart.at = "reading", chart.todo = {}
             PROVE  chart.total - chart.under <= chart.sum /\ chart.sum <= total
  BY DEF ChartHangsTogether
<1>1. chart.i \in 1..3 /\ chart.sum \in Nat /\ chart # Idle
  BY ChartParts
<1>2. Unread = {}
  BY DEF Unread, Tally, Pairs
<1>3. Cardinality(Unread) = 0
  BY <1>2, FS_EmptySet
<1>4. /\ chart.total - chart.under <= chart.sum + 0
      /\ chart.sum + 0 <= Cardinality(InAll(chart.i))
  BY <1>3 DEF ChartInv
<1>5. /\ IsFiniteSet(InAll(chart.i)) /\ IsFiniteSet(Ahead(chart.i))
      /\ total = Cardinality(InAll(chart.i)) + Cardinality(Ahead(chart.i))
  BY <1>1 DEF TallyInv
<1>6. Cardinality(InAll(chart.i)) \in Nat /\ Cardinality(Ahead(chart.i)) \in Nat
  BY <1>5, FS_CardinalityType
<1> QED BY <1>1, <1>4, <1>5, <1>6

\* The parts of a chart that is read while events are recorded belong together,
\* for any number of recorders, types and roots: each counter adds up to between
\* the total less what was under way when it was read and the total of now
\* (MetricsRegistry::chart_json, record_event).
THEOREM ChartPartsBelongTogether == Spec => []ChartHangsTogether
<1> DEFINE Inv == CountersInv /\ TallyInv /\ ChartTypeOK /\ ChartInv
<1>1. Init => Inv
  <2>1. Init => ChartTypeOK /\ ChartInv
    BY DEF Init, ChartTypeOK, ChartInv, Idle
  <2> QED BY <2>1, InitCounters, InitTally
<1>2. Inv /\ [Next]_vars => Inv'
  BY CountersStep, TallyStep, ChartStep
<1>3. Inv => ChartHangsTogether
  BY ChartAddsUp
<1> QED BY <1>1, <1>2, <1>3, PTL DEF Spec

-----------------------------------------------------------------------------
(* The windows.  What a window says of a bucket is again the size of a set: *)
(* a fold takes the buckets away one by one.                                *)

\* Induction on the subsets of a finite set: the smallest that is not good
\* would have only good subsets.
LEMMA SubsetInduction ==
    ASSUME NEW S, IsFiniteSet(S), NEW Good,
           \A T \in SUBSET S : (\A U \in SUBSET T : U # T => U \in Good) => T \in Good
    PROVE  \A T \in SUBSET S : T \in Good
<1> SUFFICES ASSUME NEW T \in SUBSET S, T \notin Good PROVE FALSE
  OBVIOUS
<1> DEFINE Bad == {U \in SUBSET S : U \notin Good}
<1>1. Bad \subseteq FiniteSubsetsOf(S) /\ Bad # {}
  BY FS_FiniteSubsetsOfFinite
<1>2. PICK U \in Bad : \A V \in Bad : ~ (<<V, U>> \in StrictSubsetOrdering(S))
  <2> HIDE DEF Bad
  <2> QED BY <1>1, FS_StrictSubsetOrderingWellFounded, WFMin
<1>3. \A V \in SUBSET U : V # U => V \in Good
  BY <1>2 DEF StrictSubsetOrdering
<1> QED BY <1>2, <1>3

Bucket == [at : Int, value : Nat]

\* what each bucket of window w adds to the count of the bucket b
Weight(w, b) == [i \in DOMAIN w |-> IF w[i].at = b THEN w[i].value ELSE 0]
Held(w, b) == Pairs(Weight(w, b), DOMAIN w)

LEMMA HeldMembers ==
  ASSUME NEW w, NEW b, NEW p
  PROVE  p \in Held(w, b) <=> \E i \in DOMAIN w : /\ w[i].at = b
                                                   /\ \E k \in 1..w[i].value : p = <<i, k>>
<1> DEFINE h == Weight(w, b)
<1>1. \A i \in DOMAIN w : h[i] = IF w[i].at = b THEN w[i].value ELSE 0
  BY DEF Weight
<1>2. p \in Held(w, b) <=> \E i \in DOMAIN w : \E k \in 1..h[i] : p = <<i, k>>
  BY PairsMembers DEF Held
<1> HIDE DEF h
<1>3. 1..0 = {}
  OBVIOUS
<1> QED BY <1>1, <1>2, <1>3

LEMMA PairsFinite ==
  ASSUME NEW S, IsFiniteSet(S), NEW h \in [S -> Nat]
  PROVE  \A T \in SUBSET S : IsFiniteSet(Pairs(h, T))
<1> DEFINE Good == {T \in SUBSET S : IsFiniteSet(Pairs(h, T))}
<1>1. ASSUME NEW T \in SUBSET S, \A U \in SUBSET T : U # T => U \in Good PROVE T \in Good
  <2>1. CASE T = {}
    BY <2>1, FS_EmptySet DEF Pairs
  <2>2. CASE T # {}
    <3>1. PICK l \in T : TRUE
      BY <2>2
    <3>2. IsFiniteSet(Pairs(h, T \ {l}))
      BY <1>1
    <3>3. IsFiniteSet({l} \X (1..h[l]))
      <4>0. l \in S
        OBVIOUS
      <4>1. h[l] \in Int /\ IsFiniteSet({l})
        BY <4>0, FS_Singleton
      <4>2. IsFiniteSet(1..h[l])
        BY <4>1, FS_Interval
      <4> QED BY <4>1, <4>2, FS_Product
    <3>4. Pairs(h, T) = ({l} \X (1..h[l])) \cup Pairs(h, T \ {l})
      BY DEF Pairs
    <3> DEFINE A == {l} \X (1..h[l])
               B == Pairs(h, T \ {l})
    <3> HIDE DEF A, B
    <3>6. IsFiniteSet(A \cup B)
      BY <3>2, <3>3, FS_Union DEF A, B
    <3>5. IsFiniteSet(Pairs(h, T))
      BY <3>4, <3>6 DEF A, B
    <3> QED BY <3>5
  <2> QED BY <2>1, <2>2
<1>2. \A T \in SUBSET S : T \in Good
  <2> HIDE DEF Good
  <2> QED BY <1>1, SubsetInduction
<1> QED BY <1>2

LEMMA PairsSplit ==
  ASSUME NEW S, IsFiniteSet(S), NEW h \in [S -> Nat], NEW s \in SUBSET S, NEW l \in s
  PROVE  Cardinality(Pairs(h, s)) = h[l] + Cardinality(Pairs(h, s \ {l}))
<1>1. h[l] \in Nat /\ IsFiniteSet(Pairs(h, s))
  BY PairsFinite
<1>2. /\ IsFiniteSet(Pairs(h, s \ {l}))
      /\ Cardinality(Pairs(h, s)) = h[l] + Cardinality(Pairs(h, s \ {l}))
  BY <1>1, OneLabel
<1> QED BY <1>2

\* The fold counts the pairs.
LEMMA ValueIsCount ==
  ASSUME NEW w \in Seq(Bucket), NEW b
  PROVE  IsFiniteSet(Held(w, b)) /\ ValueAt(w, b) = Cardinality(Held(w, b))
<1> DEFINE S == DOMAIN w
           h == Weight(w, b)
           x(s) == CHOOSE i \in s : TRUE
           Body(f) == [s \in SUBSET S |->
                         IF s = {} THEN 0
                         ELSE IF w[x(s)].at = b THEN f[s \ {x(s)}] + w[x(s)].value
                                                ELSE f[s \ {x(s)}]]
           Fold == CHOOSE f : f = Body(f)
           Count == [s \in SUBSET S |-> Cardinality(Pairs(h, s))]
<1>1. ValueAt(w, b) = Fold[S]
  BY Zenon DEF ValueAt, FoldSeq, FoldFunction, FoldFunctionOnSet, MapThenFoldSet
<1>2. IsFiniteSet(S) /\ \A i \in S : w[i] \in Bucket
  <2>1. Len(w) \in Nat /\ S = 1..Len(w)
    BY LenProperties
  <2> QED BY <2>1, FS_Interval
<1>3. h \in [S -> Nat] /\ \A i \in S : h[i] = IF w[i].at = b THEN w[i].value ELSE 0
  BY <1>2 DEF Weight, Bucket
<1>4. \A s : s # {} => x(s) \in s
  OBVIOUS
<1> HIDE DEF x, h
<1>5. \A s \in SUBSET S : IsFiniteSet(Pairs(h, s)) /\ Cardinality(Pairs(h, s)) \in Nat
  <2> HIDE DEF S
  <2> QED BY <1>2, <1>3, PairsFinite, FS_CardinalityType
<1>6. Cardinality(Pairs(h, {})) = 0
  BY FS_EmptySet DEF Pairs
<1>7. ASSUME NEW s \in SUBSET S, s # {}
      PROVE  Cardinality(Pairs(h, s)) =
               IF w[x(s)].at = b THEN Cardinality(Pairs(h, s \ {x(s)})) + w[x(s)].value
                                 ELSE Cardinality(Pairs(h, s \ {x(s)}))
  <2>1. x(s) \in s /\ h[x(s)] \in Nat /\ h[x(s)] = IF w[x(s)].at = b THEN w[x(s)].value ELSE 0
    BY <1>3, <1>4, <1>7
  <2>2. Cardinality(Pairs(h, s)) = h[x(s)] + Cardinality(Pairs(h, s \ {x(s)}))
    <3>1. PICK l \in s : l = x(s)
      BY <2>1
    <3> HIDE DEF S, Body, Fold, Count
    <3>2. Cardinality(Pairs(h, s)) = h[l] + Cardinality(Pairs(h, s \ {l}))
      BY <1>2, <1>3, PairsSplit
    <3> QED BY <3>1, <3>2
  <2>3. Cardinality(Pairs(h, s \ {x(s)})) \in Nat
    BY <1>5
  <2> QED BY <2>1, <2>2, <2>3
<1>8. Count = Body(Count)
  <2>1. \A s \in SUBSET S : s # {} => Count[s \ {x(s)}] = Cardinality(Pairs(h, s \ {x(s)}))
    OBVIOUS
  <2>2. \A s \in SUBSET S : Cardinality(Pairs(h, s)) =
            IF s = {} THEN 0
            ELSE IF w[x(s)].at = b THEN Count[s \ {x(s)}] + w[x(s)].value
                                   ELSE Count[s \ {x(s)}]
    <3> HIDE DEF Count, S
    <3> QED BY <1>6, <1>7, <2>1
  <2>3. Count = [s \in SUBSET S |-> Cardinality(Pairs(h, s))]
    OBVIOUS
  <2> HIDE DEF Count, S
  <2> QED BY <2>2, <2>3
<1>9. Fold = Body(Fold)
  <2> HIDE DEF Body, Count
  <2> QED BY <1>8
<1> HIDE DEF Fold
<1> DEFINE Good == {T \in SUBSET S : Fold[T] = Count[T]}
<1>10. ASSUME NEW T \in SUBSET S, \A U \in SUBSET T : U # T => U \in Good PROVE T \in Good
  <2>1. \A f : f = Body(f) =>
           f[T] = IF T = {} THEN 0
                  ELSE IF w[x(T)].at = b THEN f[T \ {x(T)}] + w[x(T)].value
                                         ELSE f[T \ {x(T)}]
    OBVIOUS
  <2>2. T # {} => T \ {x(T)} \in Good
    BY <1>4, <1>10
  <2> HIDE DEF Count, Body
  <2> QED BY <1>8, <1>9, <2>1, <2>2
<1>11. \A T \in SUBSET S : T \in Good
  <2> HIDE DEF Good, S
  <2> QED BY <1>2, <1>10, SubsetInduction
<1>12. Fold[S] = Count[S]
  BY <1>11
<1>13. Count[S] = Cardinality(Held(w, b)) /\ IsFiniteSet(Held(w, b))
  BY <1>5 DEF Held, h
<1> QED BY <1>1, <1>12, <1>13

\* A new bucket at the end.
LEMMA ValueAppended ==
  ASSUME NEW w \in Seq(Bucket), NEW b, NEW c \in Int
  PROVE  ValueAt(Append(w, [at |-> c, value |-> 1]), b) = ValueAt(w, b) + (IF b = c THEN 1 ELSE 0)
<1> DEFINE n == Len(w) + 1
           new == [at |-> c, value |-> 1]
           v == Append(w, new)
<1>1. /\ v \in Seq(Bucket) /\ n \in Nat /\ DOMAIN w = 1..Len(w) /\ DOMAIN v = 1..n
      /\ v[n] = new /\ \A i \in 1..Len(w) : v[i] = w[i]
  <2>1. new \in Bucket /\ Len(w) \in Nat /\ DOMAIN w = 1..Len(w)
    BY LenProperties DEF Bucket
  <2>2. v \in Seq(Bucket) /\ Len(v) = n /\ v[n] = new /\ \A i \in 1..Len(w) : v[i] = w[i]
    BY <2>1, AppendProperties
  <2>3. DOMAIN v = 1..Len(v)
    BY <2>2, LenProperties
  <2> QED BY <2>1, <2>2, <2>3
<1>2. /\ IsFiniteSet(Held(w, b)) /\ ValueAt(w, b) = Cardinality(Held(w, b))
      /\ ValueAt(v, b) = Cardinality(Held(v, b))
  BY <1>1, ValueIsCount
<1>3. <<n, 1>> \notin Held(w, b)
  <2>1. \A i \in DOMAIN w : i # n
    BY <1>1
  <2> QED BY <2>1, HeldMembers
<1>4. \A i \in DOMAIN v : i \in DOMAIN w \/ i = n
  BY <1>1
<1>5. n \in DOMAIN v /\ \A i \in DOMAIN w : i \in DOMAIN v /\ v[i] = w[i]
  BY <1>1
<1>6. v[n].at = c /\ v[n].value = 1 /\ 1..1 = {1}
  BY <1>1
<1> HIDE DEF v, n
<1>7. CASE b = c
  <2>1. Held(v, b) = Held(w, b) \cup {<<n, 1>>}
    <3>1. ASSUME NEW p \in Held(v, b) PROVE p \in Held(w, b) \cup {<<n, 1>>}
      <4>1. PICK i \in DOMAIN v : v[i].at = b /\ \E k \in 1..v[i].value : p = <<i, k>>
        BY HeldMembers
      <4>2. CASE i = n
        BY <1>6, <4>1, <4>2
      <4>3. CASE i \in DOMAIN w
        BY <1>5, <4>1, <4>3, HeldMembers
      <4> QED BY <1>4, <4>2, <4>3
    <3>2. Held(w, b) \subseteq Held(v, b)
      BY <1>5, HeldMembers
    <3>3. <<n, 1>> \in Held(v, b)
      BY <1>5, <1>6, <1>7, HeldMembers
    <3> QED BY <3>1, <3>2, <3>3
  <2>2. Cardinality(Held(w, b) \cup {<<n, 1>>}) = Cardinality(Held(w, b)) + 1
    BY <1>2, <1>3, FS_AddElement
  <2> QED BY <1>2, <1>7, <2>1, <2>2 DEF v
<1>8. CASE b # c
  <2>1. \A i \in DOMAIN v : v[i].at = b => i \in DOMAIN w
    BY <1>4, <1>6, <1>8
  <2>2. Held(v, b) = Held(w, b)
    <3>1. \A p : p \in Held(v, b) => p \in Held(w, b)
      BY <1>5, <2>1, HeldMembers
    <3>2. \A p : p \in Held(w, b) => p \in Held(v, b)
      BY <1>5, HeldMembers
    <3> QED BY <3>1, <3>2
  <2>3. Cardinality(Held(w, b)) \in Nat
    BY <1>2, FS_CardinalityType
  <2> QED BY <1>2, <1>8, <2>2, <2>3 DEF v
<1> QED BY <1>7, <1>8

\* One more in the last bucket.
LEMMA ValueBumped ==
  ASSUME NEW w \in Seq(Bucket), w # <<>>, NEW b
  PROVE  /\ [w EXCEPT ![Len(w)].value = @ + 1] \in Seq(Bucket)
         /\ Len([w EXCEPT ![Len(w)].value = @ + 1]) = Len(w)
         /\ \A i \in 1..Len(w) : [w EXCEPT ![Len(w)].value = @ + 1][i].at = w[i].at
         /\ ValueAt([w EXCEPT ![Len(w)].value = @ + 1], b) =
              ValueAt(w, b) + (IF b = w[Len(w)].at THEN 1 ELSE 0)
<1> DEFINE n == Len(w)
           v == [w EXCEPT ![n].value = @ + 1]
           m == w[n].value + 1
<1>1. n \in Nat \ {0} /\ DOMAIN w = 1..n /\ \A i \in 1..n : w[i] \in Bucket
  <2>1. n \in Nat \ {0}
    BY EmptySeq
  <2> QED BY <2>1, LenProperties
<1>2. n \in 1..n /\ w[n].value \in Nat /\ w[n].at \in Int /\ m \in Nat
  BY <1>1 DEF Bucket
<1> DEFINE e == [w[n] EXCEPT !.value = m]
<1>3. e \in Bucket /\ e.at = w[n].at /\ e.value = m
  BY <1>1, <1>2 DEF Bucket
<1>4. v = [w EXCEPT ![n] = e]
  OBVIOUS
<1> HIDE DEF e
<1>5. v \in Seq(Bucket) /\ Len(v) = n /\ \A j \in 1..n : v[j] = IF j = n THEN e ELSE w[j]
  <2>1. n \in 1..Len(w)
    BY <1>2
  <2> HIDE DEF n
  <2> QED BY <1>3, <1>4, <2>1, ExceptSeq DEF n
<1> HIDE DEF v
<1>6. DOMAIN v = 1..n
  BY <1>5, LenProperties
<1>7. /\ IsFiniteSet(Held(w, b)) /\ ValueAt(w, b) = Cardinality(Held(w, b))
      /\ ValueAt(v, b) = Cardinality(Held(v, b)) /\ Cardinality(Held(w, b)) \in Nat
  BY <1>5, ValueIsCount, FS_CardinalityType
<1>8. \A i \in 1..n : v[i].at = w[i].at /\ v[i].value = IF i = n THEN m ELSE w[i].value
  BY <1>3, <1>5
<1> HIDE DEF n
<1>9. CASE b = w[n].at
  <2>1. <<n, m>> \notin Held(w, b)
    <3>1. m \notin 1..w[n].value
      BY <1>2
    <3> QED BY <3>1, HeldMembers
  <2>2. Held(v, b) = Held(w, b) \cup {<<n, m>>}
    <3>1. ASSUME NEW p \in Held(v, b) PROVE p \in Held(w, b) \cup {<<n, m>>}
      <4>1. PICK i \in 1..n : w[i].at = b /\ \E k \in 1..v[i].value : p = <<i, k>>
        <5>1. PICK i \in DOMAIN v : v[i].at = b /\ \E k \in 1..v[i].value : p = <<i, k>>
          BY HeldMembers
        <5>2. i \in 1..n
          BY <1>6
        <5> QED BY <1>8, <5>1, <5>2
      <4>2. PICK k \in 1..v[i].value : p = <<i, k>>
        BY Zenon, <4>1
      <4>3. CASE i # n
        <5>1. v[i].value = w[i].value
          BY <1>8, <4>3
        <5>2. i \in DOMAIN w /\ k \in 1..w[i].value
          BY Zenon, <1>1, <4>2, <5>1 DEF n
        <5>3. p \in Held(w, b)
          BY Zenon, <4>1, <4>2, <5>2, HeldMembers
        <5> QED BY <5>3
      <4>4. CASE i = n /\ k = m
        BY Zenon, <4>2, <4>4
      <4>5. CASE i = n /\ k # m
        <5>1. k \in 1..w[i].value
          BY <1>2, <1>8, <4>2, <4>5, SMTT(30)
        <5> QED BY <1>1, <4>1, <4>2, <5>1, HeldMembers DEF n
      <4> QED BY <4>3, <4>4, <4>5
    <3>2. ASSUME NEW p \in Held(w, b) PROVE p \in Held(v, b)
      <4>1. PICK i \in 1..n : w[i].at = b /\ \E k \in 1..w[i].value : p = <<i, k>>
        BY <1>1, HeldMembers DEF n
      <4>2. PICK k \in 1..w[i].value : p = <<i, k>>
        BY Zenon, <4>1
      <4>3. k \in 1..v[i].value
        BY <1>2, <1>8, <4>2, SMTT(30)
      <4> QED BY <1>6, <1>8, <4>1, <4>2, <4>3, HeldMembers
    <3>3. <<n, m>> \in Held(v, b)
      <4>1. m \in 1..v[n].value
        BY <1>2, <1>8
      <4> QED BY <1>2, <1>6, <1>8, <1>9, <4>1, HeldMembers
    <3> QED BY <3>1, <3>2, <3>3
  <2>3. Cardinality(Held(w, b) \cup {<<n, m>>}) = Cardinality(Held(w, b)) + 1
    BY <1>7, <2>1, FS_AddElement
  <2>4. ValueAt(v, b) = ValueAt(w, b) + 1
    BY <1>7, <2>2, <2>3
  <2> QED BY <1>5, <1>8, <1>9, <2>4 DEF v, n
<1>10. CASE b # w[n].at
  <2>1. \A i \in 1..n : v[i].at = b => v[i] = w[i]
    BY <1>5, <1>8, <1>10
  <2>2. \A i \in 1..n : w[i].at = b => v[i] = w[i]
    BY <1>5, <1>8, <1>10
  <2>3. Held(v, b) = Held(w, b)
    <3>1. \A p : p \in Held(v, b) => p \in Held(w, b)
      BY <1>1, <1>6, <2>1, HeldMembers DEF n
    <3>2. \A p : p \in Held(w, b) => p \in Held(v, b)
      BY <1>1, <1>6, <2>2, HeldMembers DEF n
    <3> QED BY <3>1, <3>2
  <2>4. ValueAt(v, b) = ValueAt(w, b) + 0
    BY <1>7, <2>3
  <2> QED BY <1>5, <1>8, <1>10, <2>4 DEF v, n
<1> QED BY <1>9, <1>10

\* A set of indexes that is not empty has a least element.
LEMMA LeastIndex ==
  ASSUME NEW n \in Nat, NEW T \in SUBSET (1..n), T # {}
  PROVE  Min(T) \in T /\ \A k \in T : Min(T) <= k
<1> DEFINE Good == {U \in SUBSET (1..n) : U # {} => \E j \in U : \A k \in U : j <= k}
<1>1. ASSUME NEW V \in SUBSET (1..n), \A U \in SUBSET V : U # V => U \in Good PROVE V \in Good
  <2> SUFFICES ASSUME V # {} PROVE \E j \in V : \A k \in V : j <= k
    OBVIOUS
  <2>1. PICK l \in V : TRUE
    OBVIOUS
  <2>2. V \ {l} \in Good
    BY <1>1
  <2>3. CASE V \ {l} = {}
    <3>1. \A k \in V : k = l
      BY <2>3
    <3> QED BY <3>1
  <2>4. CASE V \ {l} # {}
    <3>1. PICK j \in V \ {l} : \A k \in V \ {l} : j <= k
      BY <2>2, <2>4
    <3>2. CASE j <= l
      <4>1. \A k \in V : j <= k
        BY <3>1, <3>2
      <4> QED BY <3>1, <4>1
    <3>3. CASE l < j
      <4>1. \A k \in V : l <= k
        BY <3>1, <3>3
      <4> QED BY <4>1
    <3> QED BY <3>2, <3>3
  <2> QED BY <2>3, <2>4
<1>2. \A U \in SUBSET (1..n) : U \in Good
  <2>1. IsFiniteSet(1..n)
    BY FS_Interval
  <2> HIDE DEF Good
  <2> QED BY <1>1, <2>1, SubsetInduction
<1>3. \E j \in T : \A k \in T : j <= k
  BY <1>2
<1> QED BY <1>3 DEF Min

\* Trimming drops buckets that are too old from the front, up to one that is not.
LEMMA TrimEffect ==
  ASSUME NEW w \in Seq(Bucket), NEW cutoff \in Int
  PROVE  /\ Trim(w, cutoff) \in Seq(Bucket)
         /\ \E d \in 0..Len(w) :
              /\ Len(Trim(w, cutoff)) = Len(w) - d
              /\ \A i \in 1..(Len(w) - d) : Trim(w, cutoff)[i] = w[i + d]
              /\ \A i \in 1..d : w[i].at < cutoff
              /\ d < Len(w) => w[d + 1].at >= cutoff
<1> DEFINE n == Len(w)
           young == {i \in DOMAIN w : w[i].at >= cutoff}
           v == Trim(w, cutoff)
<1>1. n \in Nat /\ DOMAIN w = 1..n /\ \A i \in 1..n : w[i] \in Bucket
  BY LenProperties
<1>2. \A i \in 1..n : w[i].at \in Int
  BY <1>1 DEF Bucket
<1>3. young \in SUBSET (1..n)
  BY <1>1
<1>4. CASE young = {}
  <2>1. v = <<>> /\ \A i \in 1..n : w[i].at < cutoff
    BY <1>1, <1>2, <1>4 DEF Trim
  <2>2. v \in Seq(Bucket) /\ Len(v) = n - n /\ n \in 0..n /\ 1..(n - n) = {}
    BY <1>1, <2>1, EmptySeq
  <2> HIDE DEF v, n
  <2> QED BY <2>1, <2>2 DEF v, n
<1>5. CASE young # {}
  <2> DEFINE m == Min(young)
  <2>1. m \in young /\ \A k \in young : m <= k
    <3> HIDE DEF young
    <3> QED BY <1>1, <1>3, <1>5, LeastIndex
  <2>2. v = SubSeq(w, m, n)
    BY <1>5 DEF Trim
  <2> HIDE DEF m, v
  <2>3. m \in 1..n /\ w[m].at >= cutoff
    BY <1>1, <2>1
  <2> DEFINE d == m - 1
  <2>4. d \in 0..n /\ d < n /\ d + 1 = m /\ n - m + 1 = n - d /\ n - d \in Nat
    BY <1>1, <2>3
  <2>5. \A i \in 1..d : w[i].at < cutoff
    <3> SUFFICES ASSUME NEW i \in 1..d, w[i].at >= cutoff PROVE FALSE
      BY <1>1, <1>2, <2>4
    <3>1. i \in 1..n
      BY <1>1, <2>3
    <3>2. i \in young
      BY <1>1, <3>1
    <3>3. m <= i
      BY <2>1, <3>2
    <3> QED BY <1>1, <2>3, <3>1, <3>3
  <2>6. \A i \in m..n : w[i] \in Bucket
    BY <1>1, <2>3
  <2>7. /\ v \in Seq(Bucket)
        /\ Len(v) = n - m + 1
        /\ \A i \in 1..(n - m + 1) : v[i] = w[m + i - 1]
    BY <1>1, <2>2, <2>3, <2>6, SubSeqProperties
  <2>8. \A i \in 1..(n - d) : v[i] = w[i + d]
    <3> SUFFICES ASSUME NEW i \in 1..(n - d) PROVE v[i] = w[i + d]
      OBVIOUS
    <3>1. i \in 1..(n - m + 1) /\ m + i - 1 = i + d
      BY <1>1, <2>3
    <3> QED BY <2>7, <3>1
  <2>9. Len(v) = n - d
    BY <2>4, <2>7
  <2> HIDE DEF d, n
  <2>10. w[d + 1].at >= cutoff
    BY <2>3, <2>4
  <2> QED BY <2>4, <2>5, <2>7, <2>8, <2>9, <2>10 DEF v, n
<1> QED BY <1>4, <1>5

\* Dropping buckets of other times does not change what is said of b.
LEMMA ValueShifted ==
  ASSUME NEW w \in Seq(Bucket), NEW v \in Seq(Bucket), NEW b, NEW d \in Nat,
         Len(w) = Len(v) + d,
         \A i \in 1..Len(v) : v[i] = w[i + d],
         \A i \in 1..d : w[i].at # b
  PROVE  ValueAt(v, b) = ValueAt(w, b)
<1> DEFINE put == [p \in Held(v, b) |-> <<p[1] + d, p[2]>>]
           n == Len(v)
<1>1. n \in Nat /\ DOMAIN v = 1..n /\ DOMAIN w = 1..(n + d)
  BY LenProperties
<1>2. ASSUME NEW p \in Held(v, b)
      PROVE  p[1] \in 1..n /\ p = <<p[1], p[2]>> /\ <<p[1] + d, p[2]>> \in Held(w, b)
  <2>1. PICK i \in DOMAIN v : v[i].at = b /\ \E k \in 1..v[i].value : p = <<i, k>>
    BY HeldMembers
  <2>2. PICK k \in 1..v[i].value : p = <<i, k>>
    BY <2>1
  <2>3. i + d \in DOMAIN w /\ w[i + d] = v[i] /\ i \in 1..n
    BY <1>1
  <2>4. <<i + d, k>> \in Held(w, b)
    BY <2>1, <2>2, <2>3, HeldMembers
  <2> QED BY <2>2, <2>3, <2>4
<1>3. ASSUME NEW q \in Held(w, b) PROVE \E p \in Held(v, b) : put[p] = q
  <2>1. PICK i \in DOMAIN w : w[i].at = b /\ \E k \in 1..w[i].value : q = <<i, k>>
    BY HeldMembers
  <2>2. PICK k \in 1..w[i].value : q = <<i, k>>
    BY <2>1
  <2>3. i \notin 1..d /\ i \in 1..(n + d)
    BY <1>1, <2>1
  <2>4. PICK j \in 1..n : i = j + d
    <3>1. i - d \in 1..n /\ i = (i - d) + d
      BY <1>1, <2>3
    <3> QED BY <3>1
  <2>5. j \in DOMAIN v /\ v[j] = w[i]
    BY <1>1, <2>4
  <2>6. <<j, k>> \in Held(v, b)
    BY <2>1, <2>2, <2>5, HeldMembers
  <2>7. put[<<j, k>>] = q
    BY <2>2, <2>4, <2>6
  <2> QED BY <2>6, <2>7
<1>4. ASSUME NEW p \in Held(v, b), NEW q \in Held(v, b), put[p] = put[q] PROVE p = q
  <2>1. p[1] + d = q[1] + d /\ p[2] = q[2]
    BY <1>4
  <2>2. p[1] \in 1..n /\ q[1] \in 1..n /\ p = <<p[1], p[2]>> /\ q = <<q[1], q[2]>>
    BY <1>2
  <2>3. p[1] = q[1]
    BY <1>1, <2>1, <2>2
  <2> QED BY <2>1, <2>2, <2>3
<1>5. put \in [Held(v, b) -> Held(w, b)]
  BY <1>2
<1> HIDE DEF put
<1>6. put \in Bijection(Held(v, b), Held(w, b))
  BY <1>3, <1>4, <1>5 DEF Bijection, Injection, Surjection, IsInjective
<1>7. ExistsBijection(Held(v, b), Held(w, b))
  BY <1>6 DEF ExistsBijection
<1>8. IsFiniteSet(Held(v, b)) /\ IsFiniteSet(Held(w, b))
  BY ValueIsCount
<1>9. Cardinality(Held(v, b)) = Cardinality(Held(w, b))
  BY <1>7, <1>8, FS_Bijection
<1> QED BY <1>9, ValueIsCount

WindowConfig == [size : Nat \ {0}, count : Nat \ {0}]

\* which of the times ts are of the bucket b
HeardAt(ts, b, cfg) == {i \in DOMAIN ts : BucketTime(ts[i], cfg) = b}

LEMMA BucketFact ==
  ASSUME NEW cfg \in WindowConfig, NEW t \in Nat
  PROVE  BucketTime(t, cfg) \in Nat /\ BucketTime(t, cfg) <= t /\ TotalDuration(cfg) \in Nat
<1>1. cfg.size \in Nat \ {0} /\ cfg.count \in Nat
  BY DEF WindowConfig
<1>2. t % cfg.size \in 0..(cfg.size - 1)
  BY <1>1
<1>3. t % cfg.size <= t
  BY <1>1
<1>4. cfg.size * cfg.count \in Nat
  BY <1>1
<1> QED BY <1>2, <1>3, <1>4 DEF BucketTime, TotalDuration

\* Later times have no earlier buckets.
LEMMA BucketsInOrder ==
  ASSUME NEW cfg \in WindowConfig, NEW t \in Nat, NEW u \in Nat, t <= u
  PROVE  BucketTime(t, cfg) <= BucketTime(u, cfg)
<1> DEFINE s == cfg.size
           a == t \div s
           b == u \div s
<1>1. s \in Nat \ {0}
  BY DEF WindowConfig
<1> HIDE DEF s
<1>2. a \in Nat /\ t % s \in 0..(s - 1) /\ t = s * a + (t % s)
  BY <1>1
<1>3. b \in Nat /\ u % s \in 0..(s - 1) /\ u = s * b + (u % s)
  BY <1>1
<1>4. a <= b
  <2> SUFFICES ASSUME a >= b + 1 PROVE FALSE
    BY <1>2, <1>3
  <2> HIDE DEF a, b
  <2>1. s * a >= s * (b + 1)
    BY <1>1, <1>2, <1>3
  <2>2. s * (b + 1) = s * b + s
    BY <1>1, <1>3
  <2>3. s * a \in Int /\ s * b \in Int
    BY <1>1, <1>2, <1>3
  <2> QED BY <1>1, <1>2, <1>3, <2>1, <2>2, <2>3
<1> HIDE DEF a, b
<1>5. s * a <= s * b /\ s * a \in Int /\ s * b \in Int
  BY <1>1, <1>2, <1>3, <1>4
<1>6. BucketTime(t, cfg) = s * a /\ BucketTime(u, cfg) = s * b
  <2>1. BucketTime(t, cfg) = t - (t % s) /\ BucketTime(u, cfg) = u - (u % s)
    BY DEF BucketTime, s
  <2> QED BY <1>1, <1>2, <1>3, <1>5, <2>1
<1> QED BY <1>5, <1>6

\* What is recorded is one more event in the bucket of its time, at the end.
LEMMA RecordAdds ==
  ASSUME NEW cfg \in WindowConfig, NEW w \in Seq(Bucket), NEW t \in Nat
  PROVE  \E v \in Seq(Bucket) :
           /\ RecordAt(w, t, cfg) = Trim(v, t - TotalDuration(cfg))
           /\ \A b \in Int : ValueAt(v, b) = ValueAt(w, b) + (IF b = BucketTime(t, cfg) THEN 1 ELSE 0)
           /\ Len(v) \in {Len(w), Len(w) + 1} /\ Len(v) \in Nat \ {0}
           /\ \A i \in 1..Len(w) : v[i].at = w[i].at
           /\ v[Len(v)].at = BucketTime(t, cfg)
<1> DEFINE c == BucketTime(t, cfg)
           n == Len(w)
           same == w # <<>> /\ w[n].at = c
           bump == [w EXCEPT ![n].value = @ + 1]
           new == [at |-> c, value |-> 1]
           v == IF same THEN bump ELSE Append(w, new)
<1>1. RecordAt(w, t, cfg) = Trim(v, t - TotalDuration(cfg))
  BY DEF RecordAt
<1>2. c \in Int /\ n \in Nat
  BY BucketFact, LenProperties
<1> HIDE DEF c
<1>3. CASE same
  <2>1. /\ bump \in Seq(Bucket) /\ Len(bump) = n /\ \A i \in 1..n : bump[i].at = w[i].at
        /\ \A b : ValueAt(bump, b) = ValueAt(w, b) + (IF b = w[n].at THEN 1 ELSE 0)
    BY <1>3, ValueBumped
  <2>2. n \in Nat \ {0} /\ n \in 1..n
    BY <1>2, <1>3, EmptySeq
  <2>3. v = bump
    BY <1>3
  <2>4. bump[n].at = c
    BY <1>3, <2>1, <2>2
  <2> HIDE DEF bump, v
  <2> QED BY <1>1, <1>3, <2>1, <2>2, <2>3, <2>4 DEF c
<1>4. CASE ~same
  <2> DEFINE u == Append(w, new)
  <2>1. new \in Bucket
    BY <1>2 DEF Bucket
  <2>2. /\ u \in Seq(Bucket) /\ Len(u) = n + 1 /\ \A i \in 1..n : u[i] = w[i]
        /\ u[n + 1] = new
    BY <2>1, AppendProperties
  <2>3. \A b : ValueAt(u, b) = ValueAt(w, b) + (IF b = c THEN 1 ELSE 0)
    BY <1>2, ValueAppended
  <2>4. v = u
    BY <1>4
  <2>5. u[Len(u)].at = c /\ n + 1 \in Nat \ {0} /\ \A i \in 1..n : u[i].at = w[i].at
    BY <1>2, <2>2
  <2> HIDE DEF u, v, new
  <2> QED BY <1>1, <2>2, <2>3, <2>4, <2>5 DEF c
<1> QED BY <1>3, <1>4

\* What is said of a bucket that no recording has found too old is exact.
Kept(w, ts, cfg) ==
  \A b \in Int : (\A i \in DOMAIN ts : b >= ts[i] - TotalDuration(cfg)) =>
                    ValueAt(w, b) = Cardinality(HeardAt(ts, b, cfg))

LEMMA HeardAppended ==
  ASSUME NEW ts \in Seq(Nat), NEW t \in Nat, NEW cfg, NEW b
  PROVE  /\ IsFiniteSet(HeardAt(ts, b, cfg))
         /\ Cardinality(HeardAt(Append(ts, t), b, cfg)) =
              Cardinality(HeardAt(ts, b, cfg)) + (IF b = BucketTime(t, cfg) THEN 1 ELSE 0)
<1> DEFINE n == Len(ts) + 1
           us == Append(ts, t)
           H == HeardAt(ts, b, cfg)
<1>1. /\ n \in Nat /\ DOMAIN ts = 1..Len(ts) /\ DOMAIN us = 1..n
      /\ us[n] = t /\ \A i \in 1..Len(ts) : us[i] = ts[i]
  <2>1. us \in Seq(Nat) /\ Len(us) = n /\ us[n] = t /\ \A i \in 1..Len(ts) : us[i] = ts[i]
    BY AppendProperties
  <2> QED BY <2>1, LenProperties
<1>2. IsFiniteSet(DOMAIN ts)
  BY <1>1, FS_Interval
<1>3. IsFiniteSet(H) /\ n \notin H
  <2>1. H \in SUBSET DOMAIN ts
    BY DEF HeardAt
  <2> QED BY <1>1, <1>2, <2>1, FS_Subset
<1>4. DOMAIN us = DOMAIN ts \cup {n} /\ \A i \in DOMAIN ts : us[i] = ts[i]
  BY <1>1
<1>5. HeardAt(us, b, cfg) = IF b = BucketTime(t, cfg) THEN H \cup {n} ELSE H
  <2> HIDE DEF us, n
  <2> QED BY <1>1, <1>4 DEF HeardAt
<1>6. Cardinality(H) \in Nat /\ Cardinality(H \cup {n}) = Cardinality(H) + 1
  BY <1>3, FS_AddElement, FS_CardinalityType
<1> QED BY <1>3, <1>5, <1>6

LEMMA RecordKeeps ==
  ASSUME NEW cfg \in WindowConfig, NEW w \in Seq(Bucket), NEW ts \in Seq(Nat), NEW t \in Nat,
         Kept(w, ts, cfg)
  PROVE  RecordAt(w, t, cfg) \in Seq(Bucket) /\ Kept(RecordAt(w, t, cfg), Append(ts, t), cfg)
<1> DEFINE D == TotalDuration(cfg)
           r == RecordAt(w, t, cfg)
           us == Append(ts, t)
<1>1. D \in Nat /\ BucketTime(t, cfg) \in Nat
  BY BucketFact
<1>2. PICK v \in Seq(Bucket) :
        /\ r = Trim(v, t - D)
        /\ \A b \in Int : ValueAt(v, b) = ValueAt(w, b) + (IF b = BucketTime(t, cfg) THEN 1 ELSE 0)
        /\ Len(v) \in {Len(w), Len(w) + 1} /\ Len(v) \in Nat \ {0}
        /\ \A i \in 1..Len(w) : v[i].at = w[i].at
        /\ v[Len(v)].at = BucketTime(t, cfg)
  BY RecordAdds
<1>3. t - D \in Int
  BY <1>1
<1> HIDE DEF D, r
<1>4. /\ r \in Seq(Bucket)
      /\ \E d \in 0..Len(v) :
           /\ Len(r) = Len(v) - d
           /\ \A i \in 1..(Len(v) - d) : r[i] = v[i + d]
           /\ \A i \in 1..d : v[i].at < t - D
  BY <1>2, <1>3, TrimEffect
<1>5. PICK d \in 0..Len(v) :
        /\ Len(r) = Len(v) - d
        /\ \A i \in 1..(Len(v) - d) : r[i] = v[i + d]
        /\ \A i \in 1..d : v[i].at < t - D
  BY <1>4
<1>6. Len(v) \in Nat /\ \A i \in 1..Len(v) : v[i].at \in Int
  <2>1. Len(v) \in Nat /\ \A i \in 1..Len(v) : v[i] \in Bucket
    BY LenProperties
  <2> QED BY <2>1 DEF Bucket
<1>7. /\ Len(us) = Len(ts) + 1 /\ us[Len(ts) + 1] = t /\ \A i \in 1..Len(ts) : us[i] = ts[i]
      /\ Len(ts) \in Nat /\ DOMAIN ts = 1..Len(ts) /\ DOMAIN us = 1..(Len(ts) + 1)
  <2>1. us \in Seq(Nat) /\ Len(us) = Len(ts) + 1 /\ us[Len(ts) + 1] = t /\ \A i \in 1..Len(ts) : us[i] = ts[i]
    BY AppendProperties
  <2> QED BY <2>1, LenProperties
<1>8. ASSUME NEW b \in Int, \A i \in DOMAIN us : b >= us[i] - D
      PROVE  ValueAt(r, b) = Cardinality(HeardAt(us, b, cfg))
  <2>1. b >= t - D /\ \A i \in DOMAIN ts : b >= ts[i] - D
    <3>1. Len(ts) + 1 \in DOMAIN us /\ \A i \in DOMAIN ts : i \in DOMAIN us
      BY <1>7
    <3> QED BY <1>7, <1>8, <3>1
  <2>2. \A i \in 1..d : v[i].at # b
    <3> SUFFICES ASSUME NEW i \in 1..d, v[i].at = b PROVE FALSE
      OBVIOUS
    <3>1. b < t - D
      BY <1>5
    <3> QED BY <1>3, <2>1, <3>1
  <2>3. ValueAt(r, b) = ValueAt(v, b)
    <3>1. d \in Nat /\ Len(v) = Len(r) + d /\ \A i \in 1..Len(r) : r[i] = v[i + d]
      BY <1>5, <1>6
    <3> QED BY <1>4, <2>2, <3>1, ValueShifted
  <2>4. ValueAt(w, b) = Cardinality(HeardAt(ts, b, cfg))
    BY <2>1 DEF Kept, D
  <2>5. Cardinality(HeardAt(us, b, cfg)) =
          Cardinality(HeardAt(ts, b, cfg)) + (IF b = BucketTime(t, cfg) THEN 1 ELSE 0)
    BY HeardAppended
  <2> HIDE DEF us
  <2> QED BY <1>2, <2>3, <2>4, <2>5
<1> HIDE DEF us
<1>9. Kept(r, us, cfg)
  BY <1>8 DEF Kept, D
<1> QED BY <1>4, <1>9 DEF r, us

\* While the clock only advances, the buckets stand in the order of their times
\* and none is older than the duration.
InOrder(w, ts, cfg, at) ==
  /\ \A i \in DOMAIN ts : ts[i] <= at /\ ts[i] <= ts[Len(ts)]
  /\ \A i, j \in DOMAIN w : i <= j => w[i].at <= w[j].at
  /\ \A i \in DOMAIN w : w[i].at <= BucketTime(at, cfg)
  /\ ts # <<>> => \A i \in DOMAIN w : w[i].at >= ts[Len(ts)] - TotalDuration(cfg)

LEMMA RecordInOrder ==
  ASSUME NEW cfg \in WindowConfig, NEW w \in Seq(Bucket), NEW ts \in Seq(Nat), NEW t \in Nat,
         InOrder(w, ts, cfg, t)
  PROVE  InOrder(RecordAt(w, t, cfg), Append(ts, t), cfg, t)
<1> DEFINE D == TotalDuration(cfg)
           r == RecordAt(w, t, cfg)
           us == Append(ts, t)
           c == BucketTime(t, cfg)
<1>1. D \in Nat /\ c \in Nat
  BY BucketFact
<1>2. PICK v \in Seq(Bucket) :
        /\ r = Trim(v, t - D)
        /\ Len(v) \in {Len(w), Len(w) + 1} /\ Len(v) \in Nat \ {0}
        /\ \A i \in 1..Len(w) : v[i].at = w[i].at
        /\ v[Len(v)].at = c
  BY RecordAdds
<1>3. t - D \in Int
  BY <1>1
<1>4. /\ \A i, j \in DOMAIN w : i <= j => w[i].at <= w[j].at
      /\ \A i \in DOMAIN w : w[i].at <= c
      /\ \A i \in DOMAIN ts : ts[i] <= t
  BY DEF InOrder
<1> HIDE DEF D, r, c
<1>5. /\ Len(w) \in Nat /\ DOMAIN w = 1..Len(w)
      /\ DOMAIN v = 1..Len(v) /\ \A i \in 1..Len(v) : v[i].at \in Int
  <2>1. \A i \in 1..Len(v) : v[i] \in Bucket
    BY LenProperties
  <2> QED BY <2>1, LenProperties DEF Bucket
<1>6. \A i \in 1..Len(v) : i \in 1..Len(w) \/ i = Len(v)
  <2>3. Len(w) \in Nat
    BY <1>5
  <2> PICK m \in Nat : m = Len(w)
    BY Zenon, <2>3
  <2>1. CASE Len(v) = m
    BY <2>1
  <2>2. CASE Len(v) = m + 1
    BY <2>2
  <2> QED BY <1>2, <2>1, <2>2
<1>7. \A i \in 1..Len(v) : v[i].at <= c
  <2> SUFFICES ASSUME NEW i \in 1..Len(v) PROVE v[i].at <= c
    OBVIOUS
  <2>1. CASE i \in 1..Len(w)
    <3>1. v[i].at = w[i].at
      BY ONLY <1>2, <2>1
    <3>2. w[i].at <= c
      BY ONLY <1>4, <1>5, <2>1
    <3> QED BY Zenon, <3>1, <3>2
  <2>2. CASE i = Len(v)
    BY <1>1, <1>2, <2>2
  <2> QED BY <1>6, <2>1, <2>2
<1>8. \A i, j \in 1..Len(v) : i <= j => v[i].at <= v[j].at
  <2> SUFFICES ASSUME NEW i \in 1..Len(v), NEW j \in 1..Len(v), i <= j PROVE v[i].at <= v[j].at
    OBVIOUS
  <2>1. CASE j = Len(v)
    BY <1>2, <1>7, <2>1
  <2>2. CASE j # Len(v)
    <3>1. j \in 1..Len(w)
      BY <1>6, <2>2
    <3>2. i \in 1..Len(w)
      BY <1>5, <3>1
    <3>3. v[i].at = w[i].at /\ v[j].at = w[j].at
      BY ONLY <1>2, <3>1, <3>2
    <3>4. w[i].at <= w[j].at
      BY ONLY <1>4, <1>5, <3>1, <3>2, i <= j
    <3> QED BY Zenon, <3>3, <3>4
  <2> QED BY <2>1, <2>2
<1>9. /\ r \in Seq(Bucket)
      /\ \E d \in 0..Len(v) :
           /\ Len(r) = Len(v) - d
           /\ \A i \in 1..(Len(v) - d) : r[i] = v[i + d]
           /\ d < Len(v) => v[d + 1].at >= t - D
  BY <1>2, <1>3, TrimEffect
<1>10. PICK d \in 0..Len(v) :
        /\ Len(r) = Len(v) - d
        /\ \A i \in 1..(Len(v) - d) : r[i] = v[i + d]
        /\ d < Len(v) => v[d + 1].at >= t - D
  BY <1>9
<1>11. DOMAIN r = 1..(Len(v) - d)
  BY <1>9, <1>10, LenProperties
<1>12. \A i \in DOMAIN r : /\ i \in Int /\ d \in Int
                           /\ i \in 1..(Len(v) - d) /\ i + d \in 1..Len(v) /\ r[i] = v[i + d]
                           /\ d + 1 <= i + d /\ d < Len(v) /\ d + 1 \in 1..Len(v)
  <2> SUFFICES ASSUME NEW i \in 1..(Len(v) - d)
               PROVE  /\ i \in Int /\ d \in Int
                      /\ i + d \in 1..Len(v) /\ d + 1 <= i + d
                      /\ d < Len(v) /\ d + 1 \in 1..Len(v)
    BY <1>10, <1>11
  <2> PICK k \in Nat : k = Len(v)
    BY <1>2
  <2>1. i \in Nat /\ d \in Nat /\ d <= k /\ 1 <= i /\ i <= k - d
    OBVIOUS
  <2> QED BY <2>1
<1>13. \A i, j \in DOMAIN r : i <= j => r[i].at <= r[j].at
  <2> SUFFICES ASSUME NEW i \in DOMAIN r, NEW j \in DOMAIN r, i <= j PROVE r[i].at <= r[j].at
    OBVIOUS
  <2>0. i \in Int /\ j \in Int /\ d \in Int
    BY Zenon, <1>12
  <2>1. i + d <= j + d
    BY ONLY <2>0, i <= j
  <2> QED BY <1>8, <1>12, <2>1
<1>14. \A i \in DOMAIN r : r[i].at <= c
  BY <1>7, <1>12
<1>15. \A i \in DOMAIN r : r[i].at >= t - D
  <2> SUFFICES ASSUME NEW i \in DOMAIN r PROVE r[i].at >= t - D
    OBVIOUS
  <2>1. v[d + 1].at >= t - D /\ v[d + 1].at <= v[i + d].at
    BY <1>8, <1>10, <1>12
  <2>2. v[d + 1].at \in Int /\ v[i + d].at \in Int
    BY <1>5, <1>12
  <2>3. PICK m \in Int : m = v[d + 1].at
    BY Zenon, <2>2
  <2>4. PICK n \in Int : n = v[i + d].at
    BY Zenon, <2>2
  <2>5. m >= t - D /\ m <= n
    BY Zenon, <2>1, <2>3, <2>4
  <2>6. n >= t - D
    BY ONLY <1>3, <2>5, m \in Int, n \in Int
  <2>7. r[i].at = n
    BY Zenon, <1>12, <2>4
  <2> QED BY Zenon, <2>6, <2>7
<1>16. /\ Len(us) = Len(ts) + 1 /\ us[Len(us)] = t /\ us \in Seq(Nat)
       /\ \A i \in DOMAIN us : us[i] <= t
  <2>1. us \in Seq(Nat) /\ Len(us) = Len(ts) + 1 /\ us[Len(ts) + 1] = t /\ \A i \in 1..Len(ts) : us[i] = ts[i]
    BY AppendProperties
  <2>2. Len(ts) \in Nat /\ DOMAIN ts = 1..Len(ts) /\ DOMAIN us = 1..(Len(ts) + 1)
    BY <2>1, LenProperties
  <2>3. \A i \in DOMAIN us : i \in DOMAIN ts \/ i = Len(ts) + 1
    BY <2>2
  <2>4. \A i \in DOMAIN us : us[i] <= t
    <3> HIDE DEF us
    <3> SUFFICES ASSUME NEW i \in DOMAIN us PROVE us[i] <= t
      OBVIOUS
    <3>1. CASE i \in DOMAIN ts
      <4>1. us[i] = ts[i] /\ ts[i] <= t
        BY <1>4, <2>1, <2>2, <3>1
      <4> QED BY Zenon, <4>1
    <3>2. CASE i = Len(ts) + 1
      BY <2>1, <3>2
    <3> QED BY <2>3, <3>1, <3>2
  <2> QED BY <2>1, <2>4
<1> HIDE DEF us
<1>17. InOrder(r, us, cfg, t)
  BY <1>13, <1>14, <1>15, <1>16 DEF InOrder, D, c
<1> QED BY <1>17 DEF r, us

-----------------------------------------------------------------------------

WindowsTypeOK ==
  /\ windows \in [Series -> Seq(Bucket)]
  /\ heard \in [times : [Series -> Seq(Nat)], stepped : BOOLEAN]
  /\ now \in Nat

\* a recorder among the windows is at one of its event's
AtWindow ==
  \A r \in Recorder : rec[r].at = "window" =>
    rec[r].e \in Event /\ rec[r].i \in 1..Len(SeriesOf(rec[r].e))

WindowsInv ==
  /\ WindowsTypeOK
  /\ \A s \in Series : Kept(windows[s], heard.times[s], Config[s])
  /\ ~heard.stepped =>
       \A s \in Series : InOrder(windows[s], heard.times[s], Config[s], now)

LEMMA SeriesFact ==
  ASSUME NEW e \in Event
  PROVE  /\ Len(SeriesOf(e)) \in Nat \ {0}
         /\ \A i \in 1..Len(SeriesOf(e)) : SeriesOf(e)[i] \in Series
<1> DEFINE S == STRING \cup {e["type"]}
           q == Append(Rates, e["type"])
<1>1. Rates \in Seq(S) /\ e["type"] \in S
  BY WindowsAssumption
<1>2. q \in Seq(S) /\ Len(q) = Len(Rates) + 1
  BY <1>1, AppendProperties
<1>3. Len(Rates) \in Nat /\ DOMAIN q = 1..Len(q)
  BY <1>1, <1>2, LenProperties
<1> HIDE DEF q
<1>4. \A i \in DOMAIN q : q[i] \in Range(q)
  BY DEF Range
<1>5. SeriesOf(e) = q
  BY DEF SeriesOf, q
<1>6. Range(q) \subseteq Series
  BY <1>5 DEF Series
<1> QED BY <1>2, <1>3, <1>4, <1>5, <1>6

LEMMA InitWindows == Init => WindowsInv /\ AtWindow
<1> SUFFICES ASSUME Init PROVE WindowsInv /\ AtWindow
  OBVIOUS
<1>1. WindowsTypeOK
  BY DEF Init, WindowsTypeOK
<1>2. AtWindow
  BY DEF Init, AtWindow, Idle
<1>3. ASSUME NEW s \in Series
      PROVE  /\ Kept(windows[s], heard.times[s], Config[s])
             /\ InOrder(windows[s], heard.times[s], Config[s], now)
  <2>1. windows[s] = <<>> /\ heard.times[s] = <<>>
    BY DEF Init
  <2>2. ASSUME NEW b \in Int
        PROVE  ValueAt(<<>>, b) = Cardinality(HeardAt(<<>>, b, Config[s]))
    <3>1. <<>> \in Seq(Bucket) /\ DOMAIN <<>> = {}
      OBVIOUS
    <3>2. ValueAt(<<>>, b) = Cardinality(Held(<<>>, b))
      BY <3>1, ValueIsCount
    <3>3. Held(<<>>, b) = {}
      BY <3>1 DEF Held, Pairs
    <3>4. HeardAt(<<>>, b, Config[s]) = {}
      BY <3>1 DEF HeardAt
    <3> QED BY <3>2, <3>3, <3>4
  <2>3. Kept(<<>>, <<>>, Config[s])
    BY <2>2 DEF Kept
  <2>4. InOrder(<<>>, <<>>, Config[s], now)
    BY DEF InOrder
  <2> QED BY <2>1, <2>3, <2>4
<1> QED BY <1>1, <1>2, <1>3 DEF WindowsInv

LEMMA AtWindowStep ==
  ASSUME CountersInv, AtWindow, [Next]_vars
  PROVE  AtWindow'
<1>1. rec \in [Recorder -> RecState]
  BY DEF CountersInv, CountersTypeOK
<1>2. ASSUME NEW r \in Recorder,
             \A q \in Recorder : q # r => rec'[q] = rec[q],
             rec'[r].at = "window" =>
               rec'[r].e \in Event /\ rec'[r].i \in 1..Len(SeriesOf(rec'[r].e))
      PROVE  AtWindow'
  BY <1>2 DEF AtWindow
<1>3. ASSUME NEW r \in Recorder, NEW e \in Event, RecordEvent(r, e) PROVE AtWindow'
  BY <1>1, <1>2, <1>3 DEF RecordEvent
<1>4. ASSUME NEW r \in Recorder, Lookup(r) \/ GetOrCreate(r) PROVE AtWindow'
  <2>1. rec[r] \in [at : {"lookup", "create"}, i : 1..3, e : Event]
    BY <1>4, AtCounter DEF CountersInv, Lookup, GetOrCreate
  <2>2. \/ \E c : rec' = Holding(r, c)
        \/ rec' = [rec EXCEPT ![r].at = "create"]
    BY <1>4 DEF Lookup, GetOrCreate
  <2>3. rec'[r].at \in {"create", "add"} /\ \A q \in Recorder : q # r => rec'[q] = rec[q]
    BY <1>1, <2>1, <2>2 DEF Holding
  <2> QED BY <1>2, <2>3
<1>5. ASSUME NEW r \in Recorder, Increment(r) PROVE AtWindow'
  <2>1. rec[r].e \in Event
    BY <1>5, AtCounter DEF CountersInv, Increment
  <2>2. 1 \in 1..Len(SeriesOf(rec[r].e))
    BY <2>1, SeriesFact
  <2> DEFINE first == [at |-> "window", i |-> 1, e |-> rec[r].e]
             on == [at |-> "lookup", i |-> rec[r].i + 1, e |-> rec[r].e]
  <2>3. rec' = [rec EXCEPT ![r] = first] \/ rec' = [rec EXCEPT ![r] = on]
    BY <1>5 DEF Increment
  <2>4. first.i = 1 /\ first.e = rec[r].e /\ on.at = "lookup"
    OBVIOUS
  <2> HIDE DEF first, on
  <2> QED BY <1>1, <1>2, <2>1, <2>2, <2>3, <2>4
<1>6. ASSUME NEW r \in Recorder, RecordWindow(r) PROVE AtWindow'
  <2>1. /\ rec[r].at = "window" /\ rec[r].e \in Event
        /\ rec[r].i \in 1..Len(SeriesOf(rec[r].e))
    BY <1>6 DEF RecordWindow, AtWindow
  <2>2. rec[r] \in [at : {"window"}, i : Nat, e : Event]
    BY <1>1, <2>1 DEF RecState, Idle
  <2>3. Len(SeriesOf(rec[r].e)) \in Nat
    BY <2>1, SeriesFact
  <2> DEFINE on == [rec[r] EXCEPT !.i = rec[r].i + 1]
  <2>4. on.i = rec[r].i + 1 /\ on.e = rec[r].e
    BY <2>2
  <2>5. \/ /\ rec[r].i < Len(SeriesOf(rec[r].e))
           /\ rec' = [rec EXCEPT ![r] = on]
        \/ rec' = [rec EXCEPT ![r] = Idle]
    BY <1>6 DEF RecordWindow
  <2> HIDE DEF on
  <2>6. CASE /\ rec[r].i < Len(SeriesOf(rec[r].e))
             /\ rec' = [rec EXCEPT ![r] = on]
    <3>1. rec'[r] = on /\ \A q \in Recorder : q # r => rec'[q] = rec[q]
      BY <1>1, <2>6
    <3>2. on.i \in 1..Len(SeriesOf(on.e))
      BY <2>1, <2>3, <2>4, <2>6
    <3> QED BY <1>2, <2>1, <2>4, <3>1, <3>2
  <2>7. CASE rec' = [rec EXCEPT ![r] = Idle]
    BY <1>1, <1>2, <2>7 DEF Idle
  <2> QED BY <2>5, <2>6, <2>7
<1>7. CASE \/ ReadTotal \/ OpenSnapshot \/ CloseSnapshot
           \/ \E f \in Family : \E l \in Labels(f) : ReadLabel(l)
  <2>1. rec' = rec
    BY Zenon, <1>7 DEF ReadTotal, OpenSnapshot, CloseSnapshot, ReadLabel
  <2> QED BY <2>1 DEF AtWindow
<1>8. CASE Tick \/ (\E t \in 0..MaxTime : StepBack(t)) \/ UNCHANGED vars
  BY <1>8 DEF Tick, StepBack, vars, AtWindow
<1> QED BY <1>3, <1>4, <1>5, <1>6, <1>7, <1>8 DEF Next

LEMMA BucketsHaveTimes ==
  ASSUME NEW w \in Seq(Bucket)
  PROVE  \A i \in DOMAIN w : w[i].at \in Int
<1>1. \A i \in DOMAIN w : w[i] \in Bucket
  BY LenProperties
<1> QED BY <1>1 DEF Bucket

\* Time alone leaves the windows as they are.
LEMMA TimePasses ==
  ASSUME NEW cfg \in WindowConfig, NEW w \in Seq(Bucket), NEW ts \in Seq(Nat),
         NEW t \in Nat, NEW u \in Nat, t <= u, InOrder(w, ts, cfg, t)
  PROVE  InOrder(w, ts, cfg, u)
<1>1. /\ BucketTime(t, cfg) <= BucketTime(u, cfg)
      /\ BucketTime(t, cfg) \in Nat /\ BucketTime(u, cfg) \in Nat
  BY BucketsInOrder, BucketFact
<1>2. \A i \in DOMAIN ts : ts[i] \in Nat
  OBVIOUS
<1>3. \A i \in DOMAIN w : w[i].at \in Int
  BY BucketsHaveTimes
<1> QED BY <1>1, <1>2, <1>3 DEF InOrder

LEMMA RecordWindowKeeps ==
  ASSUME WindowsInv, AtWindow, NEW r \in Recorder, RecordWindow(r)
  PROVE  WindowsInv'
<1> DEFINE z == SeriesOf(rec[r].e)[rec[r].i]
           w == RecordAt(windows[z], now, Config[z])
           ts == Append(heard.times[z], now)
<1>1. z \in Series
  BY SeriesFact DEF AtWindow, RecordWindow
<1>2. /\ windows' = [windows EXCEPT ![z] = w]
      /\ heard' = [heard EXCEPT !.times[z] = ts]
      /\ now' = now
  BY DEF RecordWindow
<1>3. /\ now \in Nat /\ windows[z] \in Seq(Bucket) /\ heard.times[z] \in Seq(Nat)
      /\ Config[z] \in WindowConfig /\ Kept(windows[z], heard.times[z], Config[z])
  BY <1>1, WindowsAssumption, SMTT(30) DEF WindowsInv, WindowsTypeOK, WindowConfig
<1>4. w \in Seq(Bucket) /\ Kept(w, ts, Config[z])
  BY <1>3, RecordKeeps, SMTT(30)
<1>5. ts \in Seq(Nat)
  BY <1>3, AppendProperties
<1>6. ~heard.stepped => InOrder(w, ts, Config[z], now)
  BY <1>1, <1>3, RecordInOrder DEF WindowsInv
<1> HIDE DEF z, w, ts
<1>7. /\ heard'.stepped = heard.stepped /\ heard'.times = [heard.times EXCEPT ![z] = ts]
      /\ heard' \in [times : [Series -> Seq(Nat)], stepped : BOOLEAN]
  BY <1>2, <1>5 DEF WindowsInv, WindowsTypeOK
<1>8. WindowsTypeOK'
  BY <1>2, <1>3, <1>4, <1>7 DEF WindowsInv, WindowsTypeOK
<1>9. \A s \in Series : /\ windows'[s] = IF s = z THEN w ELSE windows[s]
                        /\ heard'.times[s] = IF s = z THEN ts ELSE heard.times[s]
  BY <1>1, <1>2, <1>7 DEF WindowsInv, WindowsTypeOK
<1>10. ASSUME NEW s \in Series
       PROVE  Kept(windows'[s], heard'.times[s], Config[s])
  BY <1>4, <1>9 DEF WindowsInv
<1>11. ASSUME NEW s \in Series, ~heard.stepped
       PROVE  InOrder(windows'[s], heard'.times[s], Config[s], now')
  BY <1>2, <1>6, <1>9, <1>11 DEF WindowsInv
<1> QED BY <1>7, <1>8, <1>10, <1>11 DEF WindowsInv

LEMMA WindowsStep ==
  ASSUME WindowsInv, AtWindow, [Next]_vars
  PROVE  WindowsInv'
<1>1. CASE \E r \in Recorder : RecordWindow(r)
  BY <1>1, RecordWindowKeeps
<1>2. CASE UNCHANGED <<windows, heard, now>>
  BY <1>2 DEF WindowsInv, WindowsTypeOK
<1>3. CASE Tick
  <2>1. windows' = windows /\ heard' = heard /\ now' = now + 1 /\ now \in Nat
    BY <1>3 DEF Tick, Untimed, WindowsInv, WindowsTypeOK
  <2>2. WindowsTypeOK'
    BY <2>1 DEF WindowsInv, WindowsTypeOK
  <2>3. ASSUME NEW s \in Series, InOrder(windows[s], heard.times[s], Config[s], now)
        PROVE  InOrder(windows[s], heard.times[s], Config[s], now + 1)
    <3>1. /\ windows[s] \in Seq(Bucket) /\ heard.times[s] \in Seq(Nat)
          /\ Config[s] \in WindowConfig
      BY WindowsAssumption DEF WindowsInv, WindowsTypeOK, WindowConfig
    <3>2. now + 1 \in Nat /\ now <= now + 1
      BY <2>1
    <3> QED BY <2>1, <2>3, <3>1, <3>2, TimePasses
  <2> QED BY <2>1, <2>2, <2>3 DEF WindowsInv
<1>4. ASSUME NEW t \in 0..MaxTime, StepBack(t) PROVE WindowsInv'
  <2>1. /\ windows' = windows /\ now' = t /\ t \in Nat
        /\ heard' = [heard EXCEPT !.stepped = TRUE]
    BY <1>4 DEF StepBack
  <2>2. heard'.times = heard.times /\ heard'.stepped
    BY <2>1 DEF WindowsInv, WindowsTypeOK
  <2>3. heard' \in [times : [Series -> Seq(Nat)], stepped : BOOLEAN]
    BY <2>1 DEF WindowsInv, WindowsTypeOK
  <2>4. WindowsTypeOK'
    BY <2>1, <2>3 DEF WindowsInv, WindowsTypeOK
  <2> QED BY <2>1, <2>2, <2>4 DEF WindowsInv
<1>5. CASE \E r \in Recorder : \/ \E e \in Event : RecordEvent(r, e)
                               \/ Lookup(r) \/ GetOrCreate(r) \/ Increment(r)
  BY <1>2, <1>5 DEF RecordEvent, Lookup, GetOrCreate, Increment, Untimed
<1>6. CASE \/ ReadTotal \/ OpenSnapshot \/ CloseSnapshot
           \/ \E f \in Family : \E l \in Labels(f) : ReadLabel(l)
  <2>1. UNCHANGED <<windows, heard, now>>
    BY Zenon, <1>6 DEF ReadTotal, OpenSnapshot, CloseSnapshot, ReadLabel, Untimed
  <2> QED BY <1>2, <2>1
<1>7. CASE UNCHANGED vars
  BY <1>2, <1>7 DEF vars
<1> QED BY <1>1, <1>3, <1>4, <1>5, <1>6, <1>7 DEF Next

LEMMA SpecWindows == Spec => []WindowsInv
<1>1. CountersInv /\ WindowsInv /\ AtWindow /\ [Next]_vars => WindowsInv' /\ AtWindow'
  BY WindowsStep, AtWindowStep
<1> QED BY <1>1, SpecCounters, InitWindows, PTL DEF Spec

\* what the windows are compared with
LEMMA HeardInIsHeardAt ==
  ASSUME NEW s, NEW b
  PROVE  HeardIn(s, b) = Cardinality(HeardAt(heard.times[s], b, Config[s]))
BY DEF HeardIn, HeardAt

\* Whatever the clock does, no window loses an event before a recording that
\* finds its bucket too old, and none counts an event twice, for any sizes and
\* numbers of buckets, recorders and events (record_at and trim, window.rs:85).
THEOREM RecentEventsKept == Spec => []RecentKept
<1>1. WindowsInv => RecentKept
  <2> SUFFICES ASSUME WindowsInv, NEW s \in Series, NEW b \in 0..MaxTime,
                      \A i \in DOMAIN heard.times[s] :
                        b >= heard.times[s][i] - TotalDuration(Config[s])
               PROVE  ValueAt(windows[s], b) = HeardIn(s, b)
    BY DEF RecentKept
  <2>1. Kept(windows[s], heard.times[s], Config[s]) /\ b \in Int
    BY DEF WindowsInv
  <2>2. ValueAt(windows[s], b) = Cardinality(HeardAt(heard.times[s], b, Config[s]))
    BY <2>1 DEF Kept
  <2> QED BY <2>2, HeardInIsHeardAt
<1> QED BY <1>1, SpecWindows, PTL

\* While the clock only advances, each window is after each recording exactly the
\* events whose bucket began within its duration, for any sizes and numbers of
\* buckets, recorders and events (SlidingWindow::record_at, window.rs:85).
THEOREM WindowsExact == Spec => []WindowExact
<1>1. WindowsInv => WindowExact
  <2> SUFFICES ASSUME WindowsInv, NEW s \in Series, heard.times[s] # <<>>, ~heard.stepped,
                      NEW b \in 0..MaxTime
               PROVE  ValueAt(windows[s], b) =
                        IF b >= Last(heard.times[s]) - TotalDuration(Config[s])
                        THEN HeardIn(s, b) ELSE 0
    BY DEF WindowExact
  <2> DEFINE ts == heard.times[s]
             D == TotalDuration(Config[s])
  <2>1. /\ windows[s] \in Seq(Bucket) /\ ts \in Seq(Nat) /\ b \in Int
        /\ Config[s] \in WindowConfig /\ Kept(windows[s], ts, Config[s])
        /\ InOrder(windows[s], ts, Config[s], now)
    BY WindowsAssumption DEF WindowsInv, WindowsTypeOK, WindowConfig
  <2>2. D \in Nat
    BY <2>1, BucketFact
  <2>3. Last(ts) = ts[Len(ts)] /\ ts # <<>>
    BY DEF Last
  <2>4. ts[Len(ts)] \in Nat
    BY <2>1, <2>3, EmptySeq, LenProperties
  <2> HIDE DEF ts, D
  <2>5. CASE b >= ts[Len(ts)] - D
    <3>1. \A i \in DOMAIN ts : ts[i] \in Nat /\ ts[i] <= ts[Len(ts)]
      BY <2>1 DEF InOrder
    <3>2. \A i \in DOMAIN ts : b >= ts[i] - D
      <4> SUFFICES ASSUME NEW i \in DOMAIN ts PROVE b >= ts[i] - D
        OBVIOUS
      <4>1. PICK m \in Nat : m = ts[Len(ts)]
        BY Zenon, <2>4
      <4>2. PICK n \in Nat : n = ts[i]
        BY Zenon, <3>1
      <4>3. n <= m /\ b >= m - D
        BY Zenon, <2>5, <3>1, <4>1, <4>2
      <4> QED BY <2>2, <4>2, <4>3
    <3>3. ValueAt(windows[s], b) = Cardinality(HeardAt(ts, b, Config[s]))
      BY <2>1, <3>2 DEF Kept, D
    <3> QED BY <2>3, <2>5, <3>3, HeardInIsHeardAt DEF ts, D
  <2>6. CASE ~(b >= ts[Len(ts)] - D)
    <3>1. \A i \in DOMAIN windows[s] : windows[s][i].at \in Int /\ windows[s][i].at >= ts[Len(ts)] - D
      BY <2>1, <2>3, BucketsHaveTimes DEF InOrder, D
    <3>2. \A i \in DOMAIN windows[s] : windows[s][i].at # b
      BY <2>6, <3>1
    <3>3. Held(windows[s], b) = {}
      BY <3>2, HeldMembers
    <3>4. ValueAt(windows[s], b) = 0
      BY <2>1, <3>3, ValueIsCount, FS_EmptySet
    <3> QED BY <2>3, <2>6, <3>4 DEF ts, D
  <2> QED BY <2>5, <2>6
<1> QED BY <1>1, SpecWindows, PTL
=============================================================================
