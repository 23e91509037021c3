------------------------ MODULE WatcherReloadProofs -------------------------
(***************************************************************************)
(* Reloads of the watchers, for any paths, rules, files and reloads and    *)
(* with no bound: types, one watcher per path, no watcher restarted whose  *)
(* path stays configured, what pending_reload tells, and where a reload    *)
(* that nothing overlaps ends.                                             *)
(***************************************************************************)
EXTENDS WatcherReload, FiniteSetTheorems, SequenceTheorems, TLAPS

(***************************************************************************)
(* What the helpers on configurations return.                              *)
(***************************************************************************)

\* A set of indexes that is not empty has a greatest element: of the sets of
\* the indexes above one of them, a smallest is empty.
LEMMA LastIndex ==
    ASSUME NEW n \in Nat, NEW T \in SUBSET (1..n), T # {}
    PROVE  \E j \in T : \A k \in T : k <= j
<1> DEFINE Above(j) == {k \in T : k > j}
           Tails == {Above(j) : j \in T}
<1>0. T \subseteq Nat
  OBVIOUS
<1>1. Tails \subseteq FiniteSubsetsOf(Nat)
  <2> SUFFICES ASSUME NEW j \in T PROVE Above(j) \in FiniteSubsetsOf(Nat)
    OBVIOUS
  <2>1. IsFiniteSet(1..n)
    BY FS_Interval
  <2>2. Above(j) \in SUBSET (1..n)
    OBVIOUS
  <2>3. IsFiniteSet(Above(j))
    BY <2>1, <2>2, FS_Subset
  <2> QED BY <2>2, <2>3 DEF FiniteSubsetsOf
<1>2. Tails # {}
  OBVIOUS
<1>3. PICK U \in Tails : \A V \in Tails : ~ (<<V, U>> \in StrictSubsetOrdering(Nat))
  <2> HIDE DEF Tails
  <2> QED BY <1>1, <1>2, FS_StrictSubsetOrderingWellFounded, WFMin
<1>4. PICK j \in T : U = Above(j)
  OBVIOUS
<1>5. \A k \in T : k <= j
  <2> SUFFICES ASSUME NEW k \in T, k > j PROVE FALSE
    OBVIOUS
  <2>1. Above(k) \in SUBSET Nat /\ Above(j) \in SUBSET Nat
    BY <1>0
  <2>2. Above(k) \subseteq Above(j)
    <3>1. \A x \in T : x > k => x > j
      BY <1>0
    <3> QED BY <3>1
  <2>4. k \in Above(j) /\ k \notin Above(k)
    BY <1>0
  <2>3. <<Above(k), Above(j)>> \in StrictSubsetOrdering(Nat)
    BY <2>1, <2>2, <2>4 DEF StrictSubsetOrdering
  <2> QED BY <2>3, <1>3, <1>4
<1> QED BY <1>5

\* Watches taken from a configuration are finitely many.
LEMMA ElementsFinite ==
    ASSUME NEW c \in Seq(Watch), NEW ws \in SUBSET ToSet(c)
    PROVE  ws \subseteq Watch /\ IsFiniteSet(ws)
<1>1. c \in [1..Len(c) -> Watch] /\ Len(c) \in Nat /\ DOMAIN c = 1..Len(c)
  BY LenProperties
<1>2. c \in Surjection(1..Len(c), ToSet(c)) /\ ToSet(c) \subseteq Watch
  BY <1>1 DEF Surjection, ToSet
<1>3. IsFiniteSet(1..Len(c))
  BY <1>1, FS_Interval
<1>4. IsFiniteSet(ToSet(c))
  BY <1>2, <1>3, FS_Surjection
<1> QED BY <1>2, <1>4, FS_Subset

\* new_paths has one watch for each path of the list.
LEMMA WantedFact ==
    ASSUME NEW c \in Seq(Watch)
    PROVE  /\ Wanted(c) \subseteq Watch /\ IsFiniteSet(Wanted(c))
           /\ PathsOf(Wanted(c)) = PathsOf(ToSet(c))
           /\ \A v, w \in Wanted(c) : v.path = w.path => v = w
<1>1. c \in [1..Len(c) -> Watch] /\ Len(c) \in Nat /\ DOMAIN c = 1..Len(c)
  BY LenProperties
<1>2. Wanted(c) \subseteq ToSet(c)
  BY DEF Wanted, ToSet
<1>3. \A v, w \in Wanted(c) : v.path = w.path => v = w
  <2> SUFFICES ASSUME NEW i \in 1..Len(c), NEW j \in 1..Len(c),
                      \A k \in (i + 1)..Len(c) : c[k].path # c[i].path,
                      \A k \in (j + 1)..Len(c) : c[k].path # c[j].path,
                      c[i].path = c[j].path
               PROVE  i = j
    BY <1>1 DEF Wanted
  <2>1. ~ (i < j)
    BY <1>1
  <2>2. ~ (j < i)
    BY <1>1
  <2> QED BY <2>1, <2>2, <1>1
<1>4. ASSUME NEW i \in 1..Len(c)
      PROVE  \E w \in Wanted(c) : w.path = c[i].path
  <2> DEFINE T == {j \in 1..Len(c) : c[j].path = c[i].path}
  <2>1. PICK j \in T : \A k \in T : k <= j
    <3>1. T \in SUBSET (1..Len(c)) /\ T # {}
      OBVIOUS
    <3> HIDE DEF T
    <3> QED BY <3>1, <1>1, LastIndex
  <2>2. \A k \in (j + 1)..Len(c) : c[k].path # c[j].path
    BY <2>1, <1>1
  <2>3. c[j] \in Wanted(c)
    BY <2>1, <2>2, <1>1 DEF Wanted
  <2> QED BY <2>1, <2>3
<1>5. PathsOf(Wanted(c)) = PathsOf(ToSet(c))
  <2>1. PathsOf(ToSet(c)) \subseteq PathsOf(Wanted(c))
    BY <1>1, <1>4 DEF PathsOf, ToSet
  <2> QED BY <2>1, <1>2 DEF PathsOf
<1> QED BY <1>2, <1>3, <1>5, ElementsFinite

\* At startup too, no path is taken twice.
LEMMA WatchableFact ==
    ASSUME NEW c \in Seq(Watch), NEW ws \in Watchable(c)
    PROVE  /\ ws \subseteq Watch /\ IsFiniteSet(ws)
           /\ \A v, w \in ws : v.path = w.path => v = w
<1>1. ws \subseteq ToSet(c) /\ \A v, w \in ws : v.path = w.path => v = w
  BY DEF Watchable
<1> QED BY <1>1, ElementsFinite

\* The entries made for ws are typed, one for each watch, with ids of their own
\* in the range that next_id moves over.
LEMMA NewEntriesFact ==
    ASSUME NEW ws, ws \subseteq Watch, IsFiniteSet(ws), NEW first \in Nat,
           NEW new \in NewEntries(ws, first)
    PROVE  /\ Cardinality(ws) \in Nat
           /\ new \subseteq Entry /\ IsFiniteSet(new)
           /\ \A e \in new : first <= e.id /\ e.id < first + Cardinality(ws)
           /\ \A e, f \in new : e.id = f.id => e = f
           /\ \A e \in new : \E w \in ws : e.path = w.path
           /\ (\A v, w \in ws : v.path = w.path => v = w) =>
                 \A e, f \in new : e.path = f.path => e = f
<1>1. Cardinality(ws) \in Nat
  BY FS_CardinalityType
<1>2. PICK number \in [ws -> first..(first + Cardinality(ws) - 1)] :
          /\ \A v, w \in ws : v # w => number[v] # number[w]
          /\ new = {NewEntry(w, number[w]) : w \in ws}
  BY DEF NewEntries
<1>3. \A w \in ws : /\ number[w] \in Nat
                     /\ first <= number[w] /\ number[w] < first + Cardinality(ws)
  BY <1>1
<1>4. new \subseteq Entry
  BY <1>2, <1>3 DEF NewEntry, Entry, Watch
<1>5. IsFiniteSet(new)
  <2> DEFINE made == [w \in ws |-> NewEntry(w, number[w])]
  <2>1. made \in Surjection(ws, new)
    BY <1>2 DEF Surjection
  <2> HIDE DEF made
  <2> QED BY <2>1, FS_Surjection
<1>6. \A e \in new : \E w \in ws : e.path = w.path /\ e.id = number[w] /\ e = NewEntry(w, number[w])
  BY <1>2 DEF NewEntry
<1>7. \A e, f \in new : e.id = f.id => e = f
  BY <1>2, <1>6
<1>8. (\A v, w \in ws : v.path = w.path => v = w) =>
          \A e, f \in new : e.path = f.path => e = f
  BY <1>6
<1> QED BY <1>1, <1>3, <1>4, <1>5, <1>6, <1>7, <1>8

\* What a request does to a configuration leaves a configuration.
LEMMA EditsFact ==
    ASSUME NEW m \in Seq(Watch), NEW e \in Edits(m)
    PROVE  /\ e.watches \in Seq(Watch)
           /\ e.kind \in {"none", "put", "add", "delete", "global"}
           /\ e.path \in Path \cup {"none"}
           /\ e.kind = "add" => e.path \in Path
<1>1. m \in [1..Len(m) -> Watch] /\ Len(m) \in Nat /\ DOMAIN m = 1..Len(m)
  BY LenProperties
<1>2. CASE e \in PutWatch(m)
  <2>1. PICK i \in 1..Len(m), w \in Watch :
            e = [kind |-> "put", path |-> m[i].path, watches |-> [m EXCEPT ![i] = w]]
    BY <1>1, <1>2 DEF PutWatch
  <2>2. m[i] \in Watch
    BY <1>1
  <2>3. e.watches \in Seq(Watch)
    BY <2>1, ExceptSeq
  <2> QED BY <2>1, <2>2, <2>3 DEF Watch
<1>3. CASE e \in AddWatch(m)
  <2>1. PICK w \in Watch : e = [kind |-> "add", path |-> w.path, watches |-> Append(m, w)]
    BY <1>3 DEF AddWatch
  <2> QED BY <2>1, AppendProperties DEF Watch
<1>4. CASE e \in DeleteWatch(m)
  <2>1. PICK i \in 1..Len(m) :
            e = [kind |-> "delete", path |-> m[i].path, watches |-> RemoveAt(m, i)]
    BY <1>1, <1>4 DEF DeleteWatch
  <2>2. SubSeq(m, 1, i - 1) \in Seq(Watch) /\ SubSeq(m, i + 1, Len(m)) \in Seq(Watch)
    BY <1>1, SubSeqProperties
  <2>3. e.watches \in Seq(Watch)
    BY <2>1, <2>2, ConcatProperties DEF RemoveAt
  <2>4. m[i] \in Watch
    BY <1>1
  <2> QED BY <2>1, <2>3, <2>4 DEF Watch
<1>5. CASE e \in PutGlobal(m)
  BY <1>5 DEF PutGlobal
<1> QED BY <1>2, <1>3, <1>4, <1>5 DEF Edits

LEMMA FiltersOfType ==
    ASSUME NEW c \in Seq(Watch)
    PROVE  FiltersOf(c) \subseteq [at : Nat, path : Path, rule : Rule]
<1>1. c \in [1..Len(c) -> Watch] /\ Len(c) \in Nat /\ DOMAIN c = 1..Len(c)
  BY LenProperties
<1>2. \A i \in 1..Len(c) : i \in Nat /\ c[i].path \in Path /\ c[i].rule \in Rule
  BY <1>1 DEF Watch
<1> QED BY <1>1, <1>2 DEF FiltersOf

-----------------------------------------------------------------------------
(* The inductive invariant: the types, for the sets it speaks of, and one  *)
(* watcher per path.  Ids below next_id keep new entries distinct from the *)
(* old ones; finiteness gives the number of new entries a value.           *)

IInv == TypeOK /\ OneWatcherPerPath

LEMMA InitIInv == Init => IInv
<1> SUFFICES ASSUME Init PROVE IInv
  OBVIOUS
<1>1. ConfigTyped
  BY FilesAssumption DEF Init, ConfigTyped, NoEdit
<1>2. ManagerTyped /\ OneWatcherPerPath
  BY FS_EmptySet DEF Init, ManagerTyped, OneWatcherPerPath
<1>3. Idle \in ReloadState /\ Idle.step # "stored"
  BY DEF Idle, Step, ReloadState
<1>4. ReloadsTyped
  <2>1. reload \in [Reloader -> ReloadState]
    BY <1>3 DEF Init
  <2>2. \A r \in Signal : reload[r].step # "stored"
    BY <1>3 DEF Init, Reloader
  <2>3. up \in BOOLEAN /\ erred \in BOOLEAN
    BY DEF Init
  <2>4. gauge \in Int /\ edits \in Nat /\ loads \in Nat /\ starts \in Nat
    BY DEF Init
  <2>5. alone \subseteq Reloader
    BY DEF Init
  <2> QED BY <2>1, <2>2, <2>3, <2>4, <2>5 DEF ReloadsTyped
<1> QED BY <1>1, <1>2, <1>4 DEF IInv, TypeOK

LEMMA ConfigStep ==
    ASSUME IInv, [Next]_vars
    PROVE  ConfigTyped'
<1>1. ConfigTyped /\ ReloadsTyped
  BY DEF IInv, TypeOK
<1>2. CASE Start
  BY <1>1, <1>2, FiltersOfType DEF Start, ConfigTyped
<1>3. CASE Die
  BY <1>1, <1>3 DEF Die, ConfigTyped, NoEdit
<1>4. CASE BeginSave
  <2>1. PICK e \in Edits(memory) :
          /\ memory' = e.watches
          /\ promised' = IF e.kind = "delete" THEN promised \ {e.path} ELSE promised
          /\ \/ saving' = [kind |-> e.kind, path |-> e.path] /\ file' = <<>>
             \/ UNCHANGED <<saving, file>>
    BY <1>4 DEF BeginSave
  <2>2. exists' = exists /\ filters' = filters
    BY <1>4 DEF BeginSave
  <2>3. <<>> \in Seq(Watch)
    OBVIOUS
  <2>4. /\ e.watches \in Seq(Watch)
        /\ e.kind \in {"none", "put", "add", "delete", "global"}
        /\ e.path \in Path \cup {"none"}
        /\ e.kind = "add" => e.path \in Path
    BY <1>1, EditsFact DEF ConfigTyped
  <2>5. CASE UNCHANGED <<saving, file>>
    BY <1>1, <2>1, <2>2, <2>4, <2>5 DEF ConfigTyped
  <2>6. CASE saving' = [kind |-> e.kind, path |-> e.path] /\ file' = <<>>
    BY <1>1, <2>1, <2>2, <2>3, <2>4, <2>6 DEF ConfigTyped
  <2> QED BY <2>1, <2>5, <2>6
<1>5. CASE EndSave
  BY <1>1, <1>5 DEF EndSave, ConfigTyped, NoEdit
<1>6. CASE AdminEdit
  BY <1>1, <1>6, FilesAssumption DEF AdminEdit, ConfigTyped
<1>7. CASE PathChanges
  BY <1>1, <1>7 DEF PathChanges, ConfigTyped
<1>8. ASSUME NEW r \in Reloader, StoreConfig(r) \/ ReplaceFilters(r) PROVE ConfigTyped'
  <2>1. reload[r].conf \in Seq(Watch)
    BY <1>1 DEF ReloadsTyped, ReloadState
  <2>2. CASE StoreConfig(r)
    BY <1>1, <2>1, <2>2 DEF StoreConfig, ConfigTyped
  <2>3. CASE ReplaceFilters(r)
    BY <1>1, <2>1, <2>3, FiltersOfType DEF ReplaceFilters, ConfigTyped
  <2> QED BY <1>8, <2>2, <2>3
<1>9. ASSUME NEW r \in Reloader,
             Load(r) \/ Apply(r) \/ ApplyFails(r) \/ AdjustGauge(r)
      PROVE  ConfigTyped'
  <2>1. UNCHANGED <<file, memory, saving, promised, exists, filters>>
    BY <1>9 DEF Load, Apply, ApplyFails, AdjustGauge
  <2> QED BY <1>1, <2>1 DEF ConfigTyped
<1>10. CASE UNCHANGED vars
  BY <1>1, <1>10 DEF vars, ConfigTyped
<1> QED BY <1>2, <1>3, <1>4, <1>5, <1>6, <1>7, <1>8, <1>9, <1>10 DEF Next, ReloadStep

\* Distinct ids below next_id, one entry for each path, finitely many entries.
Distinct(entries, next) ==
    /\ entries \subseteq Entry /\ IsFiniteSet(entries)
    /\ next \in Nat
    /\ \A e, f \in entries : e.id < next /\ (e.id = f.id => e = f)
    /\ \A e, f \in entries : e.path = f.path => e = f

LEMMA DistinctManager ==
    /\ ManagerTyped /\ OneWatcherPerPath <=> Distinct(watchers, nextId)
    /\ (ManagerTyped /\ OneWatcherPerPath)' <=> Distinct(watchers', nextId')
BY DEF ManagerTyped, OneWatcherPerPath, Distinct

\* Adding entries for watches of paths that have none.
LEMMA AddedDistinct ==
    ASSUME NEW kept, NEW next, Distinct(kept, next),
           NEW ws, ws \subseteq Watch, IsFiniteSet(ws),
           \A v, w \in ws : v.path = w.path => v = w,
           \A w \in ws : \A e \in kept : e.path # w.path,
           NEW new \in NewEntries(ws, next)
    PROVE  Distinct(kept \cup new, next + Cardinality(ws))
<1>1. /\ Cardinality(ws) \in Nat /\ next \in Nat
      /\ new \subseteq Entry /\ IsFiniteSet(new)
      /\ \A e \in new : next <= e.id /\ e.id < next + Cardinality(ws)
      /\ \A e, f \in new : e.id = f.id => e = f
      /\ \A e \in new : \E w \in ws : e.path = w.path
      /\ \A e, f \in new : e.path = f.path => e = f
  BY NewEntriesFact DEF Distinct
<1>2. IsFiniteSet(kept \cup new) /\ kept \cup new \subseteq Entry
  BY <1>1, FS_Union DEF Distinct
<1>3. \A e \in kept \cup new : e.id \in Nat
  BY <1>2 DEF Entry
<1>4. \A e \in kept : e.id < next
  BY DEF Distinct
<1>5. \A e \in kept, f \in new : e.id # f.id /\ e.path # f.path
  BY <1>1, <1>3, <1>4
<1>6. \A e \in kept \cup new : e.id < next + Cardinality(ws)
  BY <1>1, <1>3, <1>4
<1>7. \A e, f \in kept \cup new : (e.id = f.id => e = f) /\ (e.path = f.path => e = f)
  BY <1>1, <1>5 DEF Distinct
<1> QED BY <1>1, <1>2, <1>6, <1>7 DEF Distinct

\* The entries that stay are those whose path stays configured, each with its
\* id, path and recursive mode.
LEMMA UpdatedFact ==
    ASSUME NEW c \in Seq(Watch), Distinct(watchers, nextId)
    PROVE  /\ Distinct(Updated(c), nextId)
           /\ \A u \in Updated(c) : \E e \in watchers : u.path = e.path
           /\ \A e \in watchers \ Removed(c) :
                 \E u \in Updated(c) : u.id = e.id /\ u.path = e.path /\ u.mode = e.mode
<1> DEFINE kept == watchers \ Removed(c)
           Upd(e) == UpdateEntry(e, WatchOf(c, e))
<1>1. kept \subseteq Entry /\ IsFiniteSet(kept) /\ kept \subseteq watchers
  BY FS_Subset DEF Distinct
<1>2. \A e \in kept : WatchOf(c, e) \in Watch
  BY WantedFact DEF Removed, PathsOf, WatchOf
<1>3. \A e \in kept : /\ Upd(e) \in Entry
                       /\ Upd(e).id = e.id /\ Upd(e).path = e.path /\ Upd(e).mode = e.mode
  BY <1>1, <1>2 DEF UpdateEntry, Entry, Watch
<1>4. Updated(c) = {Upd(e) : e \in kept}
  BY DEF Updated
<1>5. IsFiniteSet(Updated(c))
  <2> DEFINE updates == [e \in kept |-> Upd(e)]
  <2>1. updates \in Surjection(kept, Updated(c))
    BY <1>4 DEF Surjection
  <2> HIDE DEF updates, kept
  <2> QED BY <1>1, <2>1, FS_Surjection
<1>6. Updated(c) \subseteq Entry
  BY <1>3, <1>4
<1>7. \A u \in Updated(c) : \E e \in kept : u = Upd(e) /\ u.id = e.id /\ u.path = e.path
  BY <1>3, <1>4
<1>8. \A u \in Updated(c) : u.id < nextId
  BY <1>1, <1>7 DEF Distinct
<1>9. \A u, v \in Updated(c) : (u.id = v.id => u = v) /\ (u.path = v.path => u = v)
  <2> HIDE DEF Upd, kept
  <2> QED BY <1>1, <1>7 DEF Distinct
<1>10. Distinct(Updated(c), nextId)
  BY <1>5, <1>6, <1>8, <1>9 DEF Distinct
<1> QED BY <1>1, <1>3, <1>4, <1>7, <1>10

\* The watches that have no entry yet, one for each path.
LEMMA MissingFact ==
    ASSUME NEW c \in Seq(Watch), NEW ws \in SUBSET Missing(c)
    PROVE  /\ ws \subseteq Watch /\ IsFiniteSet(ws)
           /\ \A v, w \in ws : v.path = w.path => v = w
           /\ \A w \in ws : \A e \in watchers : e.path # w.path
<1>1. ws \in SUBSET Wanted(c)
  BY DEF Missing
<1>2. IsFiniteSet(ws)
  BY <1>1, WantedFact, FS_Subset
<1>3. \A w \in ws : \A e \in watchers : e.path # w.path
  BY DEF Missing, PathsOf
<1> QED BY <1>1, <1>2, <1>3, WantedFact

LEMMA ManagerStep ==
    ASSUME IInv, [Next]_vars
    PROVE  ManagerTyped' /\ OneWatcherPerPath'
<1> SUFFICES Distinct(watchers', nextId')
  BY DistinctManager
<1>1. Distinct(watchers, nextId) /\ ConfigTyped /\ ReloadsTyped
  BY DistinctManager DEF IInv, TypeOK
<1>2. Distinct({}, 0)
  BY FS_EmptySet DEF Distinct
<1>3. CASE Start
  <2>1. PICK ws \in Watchable(file) :
            watchers' \in NewEntries(ws, 0) /\ nextId' = Cardinality(ws)
    BY <1>3 DEF Start
  <2>2. /\ ws \subseteq Watch /\ IsFiniteSet(ws)
        /\ \A v, w \in ws : v.path = w.path => v = w
    <3>1. file \in Seq(Watch)
      BY <1>1, <2>1 DEF ConfigTyped
    <3> QED BY <3>1, <2>1, WatchableFact
  <2>3. Distinct({} \cup watchers', 0 + Cardinality(ws))
    <3>1. \A w \in ws : \A e \in {} : e.path # w.path
      OBVIOUS
    <3> QED BY <1>2, <2>1, <2>2, <3>1, AddedDistinct
  <2>4. {} \cup watchers' = watchers' /\ 0 + Cardinality(ws) = nextId'
    BY <2>1, <2>2, FS_CardinalityType
  <2> QED BY <2>3, <2>4
<1>4. CASE Die
  BY <1>2, <1>4 DEF Die
<1>5. ASSUME NEW r \in Reloader, Apply(r) PROVE Distinct(watchers', nextId')
  <2> DEFINE c == reload[r].conf
  <2>1. c \in Seq(Watch)
    BY <1>1 DEF ReloadsTyped, ReloadState
  <2>2. PICK new \in NewEntries(Missing(c), nextId) : watchers' = Updated(c) \cup new
    BY <1>5 DEF Apply
  <2>3. nextId' = nextId + Cardinality(Missing(c))
    BY <1>5 DEF Apply
  <2> HIDE DEF c
  <2>4. Distinct(Updated(c), nextId) /\ \A u \in Updated(c) : \E e \in watchers : u.path = e.path
    BY <1>1, <2>1, UpdatedFact
  <2>5. /\ Missing(c) \subseteq Watch /\ IsFiniteSet(Missing(c))
        /\ \A v, w \in Missing(c) : v.path = w.path => v = w
        /\ \A w \in Missing(c) : \A e \in watchers : e.path # w.path
    BY <2>1, MissingFact
  <2>6. \A w \in Missing(c) : \A u \in Updated(c) : u.path # w.path
    BY <2>4, <2>5
  <2> QED BY <2>2, <2>3, <2>4, <2>5, <2>6, AddedDistinct
<1>6. ASSUME NEW r \in Reloader, ApplyFails(r) PROVE Distinct(watchers', nextId')
  <2> DEFINE c == reload[r].conf
  <2>1. c \in Seq(Watch)
    BY <1>1 DEF ReloadsTyped, ReloadState
  <2>2. PICK ws \in SUBSET {w \in Missing(c) : w.path \in exists} :
            /\ \E new \in NewEntries(ws, nextId) : watchers' = (watchers \ Removed(c)) \cup new
            /\ nextId' = nextId + Cardinality(ws)
    BY <1>6 DEF ApplyFails
  <2> HIDE DEF c
  <2>3. PICK new \in NewEntries(ws, nextId) : watchers' = (watchers \ Removed(c)) \cup new
    BY <2>2
  <2>4. Distinct(watchers \ Removed(c), nextId)
    BY <1>1, FS_Subset DEF Distinct
  <2>5. ws \in SUBSET Missing(c)
    OBVIOUS
  <2>6. /\ ws \subseteq Watch /\ IsFiniteSet(ws)
        /\ \A v, w \in ws : v.path = w.path => v = w
        /\ \A w \in ws : \A e \in watchers \ Removed(c) : e.path # w.path
    BY <2>1, <2>5, MissingFact
  <2>7. nextId' = nextId + Cardinality(ws)
    BY <2>2
  <2> QED BY <2>3, <2>4, <2>6, <2>7, AddedDistinct
<1>7. CASE UNCHANGED active
  BY <1>1, <1>7 DEF active
<1>8. ASSUME BeginSave \/ EndSave \/ AdminEdit \/ PathChanges \/ UNCHANGED vars
      PROVE  UNCHANGED active
  BY <1>8 DEF BeginSave, EndSave, AdminEdit, PathChanges, vars, active
<1>9. ASSUME NEW r \in Reloader,
             Load(r) \/ StoreConfig(r) \/ ReplaceFilters(r) \/ AdjustGauge(r)
      PROVE  UNCHANGED active
  BY <1>9 DEF Load, StoreConfig, ReplaceFilters, AdjustGauge, active
<1> QED BY <1>3, <1>4, <1>5, <1>6, <1>7, <1>8, <1>9 DEF Next, ReloadStep

\* A step of one reload, to a state its kind can be in, keeps the reloads typed.
LEMMA ReloadType ==
    ASSUME ReloadsTyped, NEW r \in Reloader, NEW x \in ReloadState,
           r \in Http \/ x.step # "stored",
           reload' = [reload EXCEPT ![r] = x]
    PROVE  /\ reload' \in [Reloader -> ReloadState]
           /\ \A q \in Signal : reload'[q].step # "stored"
<1>1. reload' \in [Reloader -> ReloadState]
  BY DEF ReloadsTyped
<1>2. ASSUME NEW q \in Signal PROVE reload'[q].step # "stored"
  BY ReloaderAssumption DEF ReloadsTyped, Reloader
<1> QED BY <1>1, <1>2

LEMMA ReloadsStep ==
    ASSUME IInv, [Next]_vars
    PROVE  ReloadsTyped'
<1> DEFINE Others == /\ gauge' \in Int /\ alone' \subseteq Reloader
                     /\ up' \in BOOLEAN /\ erred' \in BOOLEAN
                     /\ edits' \in Nat /\ loads' \in Nat /\ starts' \in Nat
           Reloads == /\ reload' \in [Reloader -> ReloadState]
                      /\ \A q \in Signal : reload'[q].step # "stored"
<1> SUFFICES Reloads /\ Others
  BY DEF ReloadsTyped
<1>1. ConfigTyped /\ ManagerTyped /\ ReloadsTyped /\ Distinct(watchers, nextId)
  BY DistinctManager DEF IInv, TypeOK
<1>2. reload \in [Reloader -> ReloadState] /\ \A q \in Signal : reload[q].step # "stored"
  BY <1>1 DEF ReloadsTyped
<1>3. /\ gauge \in Int /\ alone \subseteq Reloader
      /\ up \in BOOLEAN /\ erred \in BOOLEAN
      /\ edits \in Nat /\ loads \in Nat /\ starts \in Nat
  BY <1>1 DEF ReloadsTyped
<1>4. Idle \in ReloadState /\ Idle.step # "stored"
  BY DEF Idle, Step, ReloadState
<1>5. ASSUME NEW c \in Seq(Watch)
      PROVE  Cardinality(Missing(c)) \in Nat /\ Cardinality(Removed(c)) \in Nat
  <2>1. IsFiniteSet(Missing(c))
    BY MissingFact
  <2>2. IsFiniteSet(Removed(c))
    BY <1>1, FS_Subset DEF ManagerTyped, Removed
  <2> QED BY <2>1, <2>2, FS_CardinalityType
<1>6. CASE Start
  <2>1. PICK ws \in Watchable(file) :
            gauge' = Cardinality(ws)
    BY <1>6 DEF Start
  <2>2. IsFiniteSet(ws)
    <3>1. file \in Seq(Watch)
      BY <1>1, <2>1 DEF ConfigTyped
    <3> QED BY <3>1, <2>1, WatchableFact
  <2>3. gauge' \in Int
    BY <2>1, <2>2, FS_CardinalityType
  <2>4. Reloads
    BY <1>2, <1>6 DEF Start
  <2>5. up' \in BOOLEAN /\ erred' \in BOOLEAN
    BY <1>6 DEF Start
  <2>6. alone' \subseteq Reloader /\ edits' \in Nat /\ loads' \in Nat /\ starts' \in Nat
    BY <1>3, <1>6 DEF Start
  <2> QED BY <2>3, <2>4, <2>5, <2>6
<1>7. CASE Die
  <2>2. Reloads
    BY <1>4, <1>7 DEF Die, Reloader
  <2>3. up' \in BOOLEAN /\ erred' \in BOOLEAN
    BY <1>3, <1>7 DEF Die
  <2>4. /\ gauge' \in Int /\ alone' \subseteq Reloader
        /\ edits' \in Nat /\ loads' \in Nat /\ starts' \in Nat
    BY <1>3, <1>7 DEF Die, counts
  <2> QED BY <2>2, <2>3, <2>4
<1>8. ASSUME BeginSave \/ EndSave \/ AdminEdit \/ PathChanges \/ UNCHANGED vars
      PROVE  Reloads /\ Others
  <2>1. Reloads
    BY <1>2, <1>8 DEF BeginSave, EndSave, AdminEdit, PathChanges, vars
  <2>2. Others
    BY <1>3, <1>8 DEF BeginSave, EndSave, AdminEdit, PathChanges, vars, counts
  <2> QED BY <2>1, <2>2
<1>9. ASSUME NEW r \in Reloader, Load(r) PROVE Reloads /\ Others
  <2> DEFINE x == [step |-> "loaded", conf |-> file, net |-> 0]
  <2>1. x \in ReloadState /\ x.step # "stored" /\ reload' = [reload EXCEPT ![r] = x]
    BY <1>1, <1>9 DEF Load, ConfigTyped, Step, ReloadState
  <2> HIDE DEF x
  <2>2. Reloads
    BY <1>1, <2>1, ReloadType
  <2>3. alone' \subseteq Reloader
    BY <1>9 DEF Load
  <2> QED BY <2>2, <2>3, <1>3, <1>9 DEF Load
<1>10. ASSUME NEW r \in Reloader, ReloadStep(r) PROVE Reloads /\ Others
  <2>1. reload[r] \in ReloadState
    BY <1>2
  <2>2. {"applied", "stored", "filtered"} \subseteq Step
    BY DEF Step
  <2>3. CASE Apply(r)
    <3> DEFINE c == reload[r].conf
               n == Cardinality(Missing(c)) - Cardinality(Removed(c))
               x == [reload[r] EXCEPT !.step = "applied", !.net = n]
    <3>1. n \in Int
      BY <1>5, <2>1 DEF ReloadState
    <3>2. reload' = [reload EXCEPT ![r].step = "applied", ![r].net = n]
      BY <2>3 DEF Apply
    <3> HIDE DEF n
    <3>3. x \in ReloadState /\ x.step # "stored"
      BY <2>1, <2>2, <3>1 DEF ReloadState
    <3>4. reload' = [reload EXCEPT ![r] = x]
      BY <3>2, <1>2
    <3> HIDE DEF x
    <3>5. Reloads
      BY <1>1, <3>3, <3>4, ReloadType
    <3> QED BY <3>5, <1>3, <2>3 DEF Apply, counts
  <2>4. CASE ApplyFails(r)
    <3>1. reload' = [reload EXCEPT ![r] = Idle] /\ erred' = TRUE
      BY <2>4 DEF ApplyFails
    <3>2. Reloads
      BY <1>1, <1>4, <3>1, ReloadType
    <3> QED BY <3>1, <3>2, <1>3, <2>4 DEF ApplyFails, counts
  <2>5. CASE StoreConfig(r)
    <3> DEFINE x == [reload[r] EXCEPT !.step = "stored"]
    <3>1. x \in ReloadState /\ r \in Http
      BY <2>1, <2>2, <2>5 DEF StoreConfig, ReloadState
    <3>2. reload' = [reload EXCEPT ![r] = x]
      BY <2>5, <1>2 DEF StoreConfig
    <3> HIDE DEF x
    <3>3. Reloads
      BY <1>1, <3>1, <3>2, ReloadType
    <3> QED BY <3>3, <1>3, <2>5 DEF StoreConfig, counts
  <2>6. CASE ReplaceFilters(r)
    <3> DEFINE x == [reload[r] EXCEPT !.step = "filtered"]
    <3>1. x \in ReloadState /\ x.step # "stored"
      BY <2>1, <2>2 DEF ReloadState
    <3>2. reload' = [reload EXCEPT ![r] = x]
      BY <2>6, <1>2 DEF ReplaceFilters
    <3> HIDE DEF x
    <3>3. Reloads
      BY <1>1, <3>1, <3>2, ReloadType
    <3> QED BY <3>3, <1>3, <2>6 DEF ReplaceFilters, counts
  <2>7. CASE AdjustGauge(r)
    <3>1. reload' = [reload EXCEPT ![r] = Idle] /\ gauge' = gauge + reload[r].net
      BY <2>7 DEF AdjustGauge
    <3>2. Reloads
      BY <1>1, <1>4, <3>1, ReloadType
    <3>3. gauge' \in Int
      BY <1>3, <2>1, <3>1 DEF ReloadState
    <3> QED BY <3>2, <3>3, <1>3, <2>7 DEF AdjustGauge, counts
  <2> QED BY <1>10, <2>3, <2>4, <2>5, <2>6, <2>7 DEF ReloadStep
<1> QED BY <1>6, <1>7, <1>8, <1>9, <1>10 DEF Next

LEMMA StepIInv == IInv /\ [Next]_vars => IInv'
BY ConfigStep, ManagerStep, ReloadsStep DEF IInv, TypeOK

-----------------------------------------------------------------------------
(* Theorems of the specification.                                          *)

THEOREM ReloadInductive == Spec => []IInv
BY InitIInv, StepIInv, PTL DEF Spec

\* The configuration, the entries of the manager (with distinct ids below
\* next_id) and the steps of the reloads are always typed.
THEOREM ReloadTypeCorrect == Spec => []TypeOK
<1>1. IInv => TypeOK
  BY DEF IInv
<1> QED BY <1>1, ReloadInductive, PTL

\* However reloads overlap and fail, and whatever duplicates the file has, no
\* path ever has two watchers.
THEOREM ReloadOneWatcherPerPath == Spec => []OneWatcherPerPath
<1>1. IInv => OneWatcherPerPath
  BY DEF IInv
<1> QED BY <1>1, ReloadInductive, PTL

\* A reload keeps the watcher of every path that stays configured.
LEMMA StepKeepsInPlace == IInv /\ [Next]_vars => KeptInPlace
<1> SUFFICES ASSUME IInv, [Next]_vars, NEW r \in Reloader,
                    reload[r].step = "loaded", reload'[r].step = "applied",
                    NEW e \in watchers, e.path \in PathsOf(ToSet(reload[r].conf))
             PROVE  \E f \in watchers' : f.id = e.id /\ f.path = e.path /\ f.mode = e.mode
  BY DEF KeptInPlace
<1> DEFINE c == reload[r].conf
<1>1. /\ reload \in [Reloader -> ReloadState]
      /\ Distinct(watchers, nextId)
  BY DistinctManager DEF IInv, TypeOK, ReloadsTyped
<1>2. Apply(r)
  <2>1. ASSUME NEW q \in Reloader, q # r, ReloadStep(q) \/ Load(q) PROVE FALSE
    <3>1. \E x : reload' = [reload EXCEPT ![q] = x]
      BY <2>1, <1>1 DEF ReloadStep, Load, Apply, ApplyFails, StoreConfig, ReplaceFilters,
                        AdjustGauge
    <3> QED BY <3>1, <2>1, <1>1
  <2>2. ~ Start /\ ~ BeginSave /\ ~ EndSave /\ ~ AdminEdit /\ ~ PathChanges /\ reload' # reload
    BY DEF Start, BeginSave, EndSave, AdminEdit, PathChanges
  <2>3. ~ Die
    BY DEF Die, Idle
  <2>4. ~ Load(r) /\ ~ StoreConfig(r) /\ ~ ReplaceFilters(r) /\ ~ AdjustGauge(r)
    BY DEF Load, StoreConfig, ReplaceFilters, AdjustGauge, Applied
  <2>5. ~ ApplyFails(r)
    BY <1>1 DEF ApplyFails, Idle
  <2> QED BY <2>1, <2>2, <2>3, <2>4, <2>5 DEF Next, ReloadStep, vars
<1>3. c \in Seq(Watch)
  BY <1>1 DEF ReloadState
<1>4. Updated(c) \subseteq watchers'
  BY <1>2 DEF Apply
<1>5. e \in watchers \ Removed(c)
  BY <1>3, WantedFact DEF Removed
<1> HIDE DEF c
<1> QED BY <1>1, <1>3, <1>4, <1>5, UpdatedFact

\* A reload never restarts a watcher whose path stays configured, whatever
\* else of its watch changes.
THEOREM ReloadKeepsWatchers == Spec => KeptWatcherNotRestarted
BY ReloadInductive, StepKeepsInPlace, PTL DEF Spec, KeptWatcherNotRestarted

-----------------------------------------------------------------------------
(* pending_reload.                                                         *)

Settings(e) == [path |-> e.path, recursive |-> e.recursive, rule |-> e.rule]

\* No path has two watchers: as many settings as entries.
LEMMA WatchersCounted ==
    ASSUME IInv
    PROVE  /\ IsFiniteSet({Settings(e) : e \in watchers})
           /\ Cardinality({Settings(e) : e \in watchers}) = Cardinality(watchers)
<1> DEFINE S == {Settings(e) : e \in watchers}
           f == [e \in watchers |-> Settings(e)]
<1>1. \A e, g \in watchers : f[e] = f[g] => e = g
  <2>1. \A e : Settings(e).path = e.path
    BY DEF Settings
  <2> QED BY <2>1 DEF IInv, OneWatcherPerPath
<1>2. f \in [watchers -> S] /\ \A x \in S : \E e \in watchers : f[e] = x
  OBVIOUS
<1> HIDE DEF f, S
<1>3. f \in Bijection(watchers, S)
  BY <1>1, <1>2 DEF Bijection, Injection, Surjection, IsInjective
<1>4. ExistsBijection(watchers, S)
  BY <1>3 DEF ExistsBijection
<1>5. IsFiniteSet(watchers)
  BY DEF IInv, TypeOK, ManagerTyped
<1>6. IsFiniteSet(S) /\ Cardinality(S) = Cardinality(watchers)
  BY <1>4, <1>5, FS_Bijection
<1> QED BY <1>6 DEF S

\* No path twice: as many watches as places in the list.
LEMMA MemoryCounted ==
    ASSUME IInv, Cardinality(PathsOf(ToSet(memory))) = Len(memory)
    PROVE  /\ IsFiniteSet(ToSet(memory)) /\ ToSet(memory) \subseteq Watch
           /\ Cardinality(ToSet(memory)) = Len(memory) /\ Len(memory) \in Nat
<1>1. memory \in [1..Len(memory) -> Watch] /\ Len(memory) \in Nat /\ DOMAIN memory = 1..Len(memory)
  <2>1. memory \in Seq(Watch)
    BY DEF IInv, TypeOK, ConfigTyped
  <2> QED BY <2>1, LenProperties
<1> DEFINE T == ToSet(memory)
           f == [w \in T |-> w.path]
<1>2. IsFiniteSet(T) /\ T \subseteq Watch
  BY ElementsFinite, SMTT(30) DEF IInv, TypeOK, ConfigTyped
<1>3. memory \in Surjection(1..Len(memory), T)
  BY <1>1 DEF Surjection, ToSet
<1>4. IsFiniteSet(1..Len(memory)) /\ Cardinality(1..Len(memory)) = Len(memory)
  <2>1. \A n \in Nat : IsFiniteSet(1..n) /\ Cardinality(1..n) = n
    BY FS_Interval, SMTT(30)
  <2> QED BY <1>1, <2>1
<1>5. Cardinality(T) <= Len(memory)
  BY <1>3, <1>4, FS_Surjection
<1>6. f \in Surjection(T, PathsOf(T))
  BY DEF Surjection, PathsOf
<1> HIDE DEF T, f
<1>7. Cardinality(PathsOf(T)) <= Cardinality(T)
  BY <1>2, <1>6, FS_Surjection
<1>8. Cardinality(T) \in Nat
  BY <1>2, FS_CardinalityType
<1> QED BY <1>1, <1>2, <1>5, <1>7, <1>8 DEF T

\* pending_reload tells exactly whether the watches in memory and those that the
\* manager has differ, although it compares their number and looks only for the
\* one in the other (get_config), unless a path is configured twice.
THEOREM ReloadPendingExact == Spec => []PendingReloadExact
<1>1. IInv => PendingReloadExact
  <2> SUFFICES ASSUME IInv, Cardinality(PathsOf(ToSet(memory))) = Len(memory)
               PROVE  PendingReload <=> ToSet(memory) # {Settings(e) : e \in watchers}
    BY DEF PendingReloadExact, Settings
  <2> DEFINE S == {Settings(e) : e \in watchers}
             T == ToSet(memory)
  <2>1. /\ IsFiniteSet(S) /\ Cardinality(S) = Cardinality(watchers)
        /\ IsFiniteSet(T) /\ Cardinality(T) = Len(memory) /\ T \subseteq Watch
    BY WatchersCounted, MemoryCounted
  <2>2. \A w \in Watch : w = Settings(w)
    BY DEF Watch, Settings
  <2>3. \A w \in T : w \in S <=> \E e \in watchers : /\ e.path = w.path
                                                     /\ e.recursive = w.recursive
                                                     /\ e.rule = w.rule
    BY <2>1, <2>2 DEF Settings
  <2> HIDE DEF S, T
  <2>4. PendingReload <=> Cardinality(S) # Cardinality(T) \/ ~(T \subseteq S)
    BY <2>1, <2>3 DEF PendingReload, T
  <2>5. T \subseteq S /\ Cardinality(S) = Cardinality(T) => S = T
    BY <2>1, FS_Subset
  <2> QED BY <2>4, <2>5 DEF S, T
<1> QED BY <1>1, ReloadInductive, PTL

-----------------------------------------------------------------------------
(* A reload that nothing overlaps.                                         *)

\* The entries are those of the configuration c, with its settings.
Matches(entries, c) ==
    /\ PathsOf(entries) = PathsOf(ToSet(c))
    /\ \A e \in entries : \E w \in Wanted(c) :
         w.path = e.path /\ w.recursive = e.recursive /\ w.rule = e.rule

\* Whatever a lone reload has done so far still stands.
AloneInv ==
    \A r \in alone :
        /\ up /\ saving = NoEdit
        /\ \A q \in Reloader \ {r} : reload[q].step = "idle"
        /\ reload[r].step \in {"applied", "stored", "filtered"} =>
              Matches(watchers, reload[r].conf)
        /\ reload[r].step \in {"stored", "filtered"} /\ r \in Http => memory = reload[r].conf
        /\ reload[r].step = "filtered" => filters = FiltersOf(reload[r].conf)

\* Entries that match a configuration need no update.
LEMMA MatchesUpdated ==
    ASSUME NEW c \in Seq(Watch), watchers \subseteq Entry, Matches(watchers, c)
    PROVE  Updated(c) = watchers
<1>1. Removed(c) = {}
  BY WantedFact DEF Removed, Matches, PathsOf
<1>2. ASSUME NEW e \in watchers PROVE UpdateEntry(e, WatchOf(c, e)) = e
  <2>1. PICK w \in Wanted(c) : w.path = e.path /\ w.recursive = e.recursive /\ w.rule = e.rule
    BY DEF Matches
  <2>2. WatchOf(c, e) = w
    BY <2>1, WantedFact DEF WatchOf
  <2>3. e \in Entry
    OBVIOUS
  <2> QED BY <2>1, <2>2, <2>3 DEF UpdateEntry, Entry
<1> QED BY <1>1, <1>2 DEF Updated

LEMMA NewEntriesMatch ==
    ASSUME NEW ws, NEW first, NEW new \in NewEntries(ws, first)
    PROVE  /\ \A e \in new : \E w \in ws :
                w.path = e.path /\ w.recursive = e.recursive /\ w.rule = e.rule
           /\ PathsOf(new) = PathsOf(ws)
<1>1. PICK number : new = {NewEntry(w, number[w]) : w \in ws}
  BY DEF NewEntries
<1>2. \A w, n : /\ NewEntry(w, n).path = w.path /\ NewEntry(w, n).rule = w.rule
                /\ NewEntry(w, n).recursive = w.recursive
  BY DEF NewEntry
<1> QED BY <1>1, <1>2 DEF PathsOf

\* manager.reload leaves the entries of the configuration it was given.
LEMMA ApplyMatches ==
    ASSUME IInv, NEW r \in Reloader, Apply(r)
    PROVE  Matches(watchers', reload[r].conf)
<1> DEFINE c == reload[r].conf
           Upd(e) == UpdateEntry(e, WatchOf(c, e))
           kept == watchers \ Removed(c)
<1>1. c \in Seq(Watch) /\ watchers \subseteq Entry
  BY DEF IInv, TypeOK, ReloadsTyped, ReloadState, ManagerTyped
<1>2. PICK new \in NewEntries(Missing(c), nextId) : watchers' = Updated(c) \cup new
  BY DEF Apply
<1>3. Updated(c) = {Upd(e) : e \in kept}
  BY DEF Updated
<1> HIDE DEF c
<1>4. \A e \in kept : WatchOf(c, e) \in Wanted(c) /\ WatchOf(c, e).path = e.path
  BY DEF Removed, PathsOf, WatchOf
<1>5. \A e \in kept : /\ Upd(e).path = e.path
                       /\ Upd(e).recursive = WatchOf(c, e).recursive
                       /\ Upd(e).rule = WatchOf(c, e).rule
  BY <1>1 DEF UpdateEntry, Entry
<1> HIDE DEF Upd
<1>6. /\ \A e \in new : \E w \in Missing(c) :
           w.path = e.path /\ w.recursive = e.recursive /\ w.rule = e.rule
      /\ PathsOf(new) = PathsOf(Missing(c))
  BY NewEntriesMatch
<1>7. Missing(c) \subseteq Wanted(c)
  BY DEF Missing
<1>8. ASSUME NEW e \in watchers'
      PROVE  \E w \in Wanted(c) :
               w.path = e.path /\ w.recursive = e.recursive /\ w.rule = e.rule
  <2>1. CASE e \in new
    BY <1>6, <1>7, <2>1
  <2>2. CASE e \in Updated(c)
    <3>1. PICK k \in kept : e = Upd(k)
      BY <1>3, <2>2
    <3> HIDE DEF kept
    <3> QED BY <1>4, <1>5, <3>1
  <2> QED BY <1>2, <2>1, <2>2
<1>9. ASSUME NEW w \in Wanted(c) PROVE \E e \in watchers' : e.path = w.path
  <2>1. CASE w \in Missing(c)
    BY <1>2, <1>6, <2>1 DEF PathsOf
  <2>2. CASE w \notin Missing(c)
    <3>1. PICK e \in watchers : e.path = w.path
      BY <2>2 DEF Missing, PathsOf
    <3>2. e \in kept
      BY <3>1 DEF Removed, PathsOf
    <3>3. Upd(e) \in watchers' /\ Upd(e).path = w.path
      BY <1>2, <1>3, <1>5, <3>1, <3>2
    <3> QED BY <3>3
  <2> QED BY <2>1, <2>2
<1>10. PathsOf(watchers') = PathsOf(Wanted(c))
  BY <1>8, <1>9 DEF PathsOf
<1> QED BY <1>1, <1>8, <1>10, WantedFact DEF Matches, c

LEMMA NextAlone == IInv /\ AloneInv /\ [Next]_vars => AloneInv'
<1> SUFFICES ASSUME IInv, AloneInv, [Next]_vars, NEW r \in alone'
             PROVE  /\ up' /\ saving' = NoEdit
                    /\ \A q \in Reloader \ {r} : reload'[q].step = "idle"
                    /\ reload'[r].step \in {"applied", "stored", "filtered"} =>
                          Matches(watchers', reload'[r].conf)
                    /\ reload'[r].step \in {"stored", "filtered"} /\ r \in Http =>
                          memory' = reload'[r].conf
                    /\ reload'[r].step = "filtered" =>
                          filters' = FiltersOf(reload'[r].conf)
  BY DEF AloneInv
<1> USE DEF AloneInv
<1>1. reload \in [Reloader -> ReloadState] /\ \A q \in Signal : reload[q].step # "stored"
  BY DEF IInv, TypeOK, ReloadsTyped
<1>2. CASE UNCHANGED <<up, saving, reload, watchers, memory, filters, alone>>
  BY <1>2
<1>3. CASE AdminEdit \/ PathChanges \/ UNCHANGED vars
  BY <1>2, <1>3 DEF AdminEdit, PathChanges, vars, active
<1>4. CASE Start \/ EndSave \/ Die \/ BeginSave
  BY <1>4 DEF Start, EndSave, Die, BeginSave
<1>5. ASSUME NEW q \in Reloader, Load(q) PROVE r = q /\ reload'[q].step = "loaded"
                                               /\ up' /\ saving' = NoEdit
                                               /\ \A p \in Reloader \ {q} : reload'[p].step = "idle"
  <2>1. saving = NoEdit /\ (\A p \in Reloader : reload[p].step = "idle") /\ r = q
    BY <1>5 DEF Load
  <2> QED BY <1>1, <1>5, <2>1 DEF Load
<1>6. ASSUME NEW q \in Reloader, ReloadStep(q) PROVE r = q /\ r \in alone
  BY <1>6 DEF ReloadStep, Apply, ApplyFails, StoreConfig, ReplaceFilters, AdjustGauge, Applied
<1>7. ASSUME r \in Reloader, r \in alone, NEW x, reload' = [reload EXCEPT ![r] = x],
             UNCHANGED <<up, saving>>
      PROVE  /\ up' /\ saving' = NoEdit /\ reload'[r] = x
             /\ \A q \in Reloader \ {r} : reload'[q].step = "idle"
  BY <1>1, <1>7
<1>8. ASSUME r \in Reloader, r \in alone, ApplyFails(r) \/ AdjustGauge(r)
      PROVE  /\ up' /\ saving' = NoEdit /\ reload'[r].step = "idle"
             /\ \A q \in Reloader \ {r} : reload'[q].step = "idle"
  <2>1. reload' = [reload EXCEPT ![r] = Idle] /\ UNCHANGED <<up, saving>>
    BY <1>8 DEF ApplyFails, AdjustGauge
  <2> QED BY <1>7, <1>8, <2>1 DEF Idle
<1>9. ASSUME r \in Reloader, r \in alone, Apply(r)
      PROVE  /\ up' /\ saving' = NoEdit /\ reload'[r].step = "applied"
             /\ \A q \in Reloader \ {r} : reload'[q].step = "idle"
             /\ Matches(watchers', reload'[r].conf)
  <2> DEFINE net == Cardinality(Missing(reload[r].conf)) - Cardinality(Removed(reload[r].conf))
             x == [reload[r] EXCEPT !.step = "applied", !.net = net]
  <2>1. reload[r] \in ReloadState
    BY <1>1, <1>9
  <2> HIDE DEF net
  <2>2. x.step = "applied" /\ x.conf = reload[r].conf
    BY <2>1 DEF ReloadState
  <2>3. reload' = [reload EXCEPT ![r] = x] /\ UNCHANGED <<up, saving>>
    BY <1>1, <1>9 DEF Apply, net
  <2> HIDE DEF x
  <2> QED BY <1>7, <1>9, <2>2, <2>3, ApplyMatches
<1>10. ASSUME r \in Reloader, r \in alone, NEW s,
              reload' = [reload EXCEPT ![r].step = s], UNCHANGED <<up, saving>>
       PROVE  /\ up' /\ saving' = NoEdit
              /\ reload'[r].step = s /\ reload'[r].conf = reload[r].conf
              /\ \A q \in Reloader \ {r} : reload'[q].step = "idle"
  <2>1. reload[r] \in ReloadState
    BY <1>1, <1>10
  <2>2. reload'[r].step = s /\ reload'[r].conf = reload[r].conf
    BY <1>1, <1>10, <2>1 DEF ReloadState
  <2> QED BY <1>1, <1>10, <2>2
<1>11. CASE r \in Reloader /\ r \in alone /\ StoreConfig(r)
  <2>1. /\ reload' = [reload EXCEPT ![r].step = "stored"] /\ memory' = reload[r].conf
        /\ UNCHANGED <<up, saving, watchers, filters>> /\ reload[r].step = "applied"
    BY <1>11 DEF StoreConfig, active
  <2> QED BY <1>10, <1>11, <2>1
<1>12. CASE r \in Reloader /\ r \in alone /\ ReplaceFilters(r)
  <2>1. /\ reload' = [reload EXCEPT ![r].step = "filtered"]
        /\ filters' = FiltersOf(reload[r].conf) /\ UNCHANGED <<up, saving, watchers, memory>>
        /\ reload[r].step \in {"applied", "stored"} /\ (r \in Http => reload[r].step = "stored")
    BY <1>12 DEF ReplaceFilters, Applied, active
  <2> QED BY <1>10, <1>12, <2>1
<1> QED
  BY <1>3, <1>4, <1>5, <1>6, <1>8, <1>9, <1>11, <1>12 DEF Next, ReloadStep

\* A reload with no other reload and no edit beside it ends with watchers,
\* filters and, over HTTP, state.config all of the file it has read
\* (reload_watchers and the SIGHUP task).
THEOREM ReloadLoneConverges == Spec => LoneReloadConverges
<1>1. Init => IInv /\ AloneInv
  BY InitIInv DEF Init, AloneInv
<1>2. IInv /\ AloneInv /\ [Next]_vars => (IInv /\ AloneInv)'
  BY StepIInv, NextAlone
<1>3. IInv /\ AloneInv /\ [Next]_vars => LoneReloadDone
  <2> SUFFICES ASSUME IInv, AloneInv, [Next]_vars, NEW r \in alone,
                      reload[r].step = "filtered", reload'[r].step = "idle", up'
               PROVE  LET c == reload[r].conf IN
                      /\ watchers' = Updated(c)
                      /\ PathsOf(watchers') = PathsOf(ToSet(c))
                      /\ filters' = FiltersOf(c)
                      /\ r \in Http => memory' = c
    BY DEF LoneReloadDone
  <2>1. /\ r \in Reloader /\ reload \in [Reloader -> ReloadState] /\ watchers \subseteq Entry
        /\ reload[r].conf \in Seq(Watch)
    BY DEF IInv, TypeOK, ReloadsTyped, ManagerTyped, ReloadState
  <2>2. /\ up /\ saving = NoEdit /\ Matches(watchers, reload[r].conf)
        /\ filters = FiltersOf(reload[r].conf) /\ (r \in Http => memory = reload[r].conf)
        /\ \A q \in Reloader \ {r} : reload[q].step = "idle"
    BY DEF AloneInv
  <2>3. UNCHANGED <<watchers, filters, memory>>
    <3>1. ASSUME NEW q \in Reloader, ReloadStep(q) PROVE q = r
      BY <2>2, <3>1
         DEF ReloadStep, Apply, ApplyFails, StoreConfig, ReplaceFilters, AdjustGauge, Applied
    <3>2. ASSUME NEW q \in Reloader, Load(q) PROVE FALSE
      <4>1. q # r /\ \E x : reload' = [reload EXCEPT ![q] = x]
        BY <3>2 DEF Load
      <4> QED BY <2>1, <4>1
    <3>3. ~ Start /\ ~ Die /\ ~ BeginSave /\ ~ EndSave /\ ~ AdminEdit /\ ~ PathChanges
      BY <2>2 DEF Start, Die, BeginSave, EndSave, AdminEdit, PathChanges
    <3>4. reload' # reload
      OBVIOUS
    <3>5. ~ Apply(r) /\ ~ ApplyFails(r) /\ ~ StoreConfig(r) /\ ~ ReplaceFilters(r)
      BY DEF Apply, ApplyFails, StoreConfig, ReplaceFilters, Applied
    <3>6. AdjustGauge(r)
      BY <3>1, <3>2, <3>3, <3>4, <3>5 DEF Next, ReloadStep, vars
    <3> QED BY <3>6 DEF AdjustGauge, active
  <2>4. Updated(reload[r].conf) = watchers
    BY <2>1, <2>2, MatchesUpdated
  <2> QED BY <2>2, <2>3, <2>4 DEF Matches
<1> QED BY <1>1, <1>2, <1>3, PTL DEF Spec, LoneReloadConverges

-----------------------------------------------------------------------------
(* Sums over a finite set, as the folds of the community modules make them. *)

\* Induction on the subsets of a finite set: the smallest that is not good
\* would have only good subsets.
LEMMA SubsetInduction ==
    ASSUME NEW S, IsFiniteSet(S), NEW Good,
           \A T \in SUBSET S : (\A U \in SUBSET T : U # T => U \in Good) => T \in Good
    PROVE  \A T \in SUBSET S : T \in Good
<1> SUFFICES ASSUME NEW T \in SUBSET S, T \notin Good PROVE FALSE
  OBVIOUS
<1> DEFINE Bad == {U \in SUBSET S : U \notin Good}
<1>1. Bad \subseteq FiniteSubsetsOf(S) /\ Bad # {}
  BY FS_FiniteSubsetsOfFinite
<1>2. PICK U \in Bad : \A V \in Bad : ~ (<<V, U>> \in StrictSubsetOrdering(S))
  <2> HIDE DEF Bad
  <2> QED BY <1>1, FS_StrictSubsetOrderingWellFounded, WFMin
<1>3. \A V \in SUBSET U : V # U => V \in Good
  BY <1>2 DEF StrictSubsetOrdering
<1> QED BY <1>2, <1>3

\* The element with which the folds of the community modules go on.
Some(s) == CHOOSE x \in s : TRUE

\* f gives every subset of S the sum of g over it, as a fold does.
Sums(f, g, S) ==
    f = [s \in SUBSET S |-> IF s = {} THEN 0 ELSE g[Some(s)] + f[s \ {Some(s)}]]

LEMMA SomeIn == \A s : s # {} => Some(s) \in s
BY DEF Some

LEMMA SumValues ==
    ASSUME NEW S, NEW g, NEW f, Sums(f, g, S)
    PROVE  /\ f[{}] = 0
           /\ \A s \in SUBSET S : s # {} =>
                 Some(s) \in s /\ f[s] = g[Some(s)] + f[s \ {Some(s)}]
<1>1. \A s \in SUBSET S : f[s] = IF s = {} THEN 0 ELSE g[Some(s)] + f[s \ {Some(s)}]
  BY DEF Sums
<1> QED BY <1>1, SomeIn

LEMMA SumInt ==
    ASSUME NEW S, IsFiniteSet(S), NEW g \in [S -> Int], NEW f, Sums(f, g, S)
    PROVE  f \in [SUBSET S -> Int]
<1> DEFINE Good == {T \in SUBSET S : f[T] \in Int}
<1>1. ASSUME NEW T \in SUBSET S, \A U \in SUBSET T : U # T => U \in Good PROVE T \in Good
  <2>1. CASE T = {}
    BY <2>1, SumValues
  <2>2. CASE T # {}
    <3>1. Some(T) \in T /\ f[T] = g[Some(T)] + f[T \ {Some(T)}]
      BY <2>2, SumValues
    <3>2. T \ {Some(T)} \in Good
      BY <1>1, <3>1
    <3>3. f[T \ {Some(T)}] \in Int /\ g[Some(T)] \in Int
      BY <3>1, <3>2
    <3>4. f[T] \in Int
      BY <3>1, <3>3
    <3> QED BY <3>4
  <2> QED BY <2>1, <2>2
<1>2. \A T \in SUBSET S : T \in Good
  <2> HIDE DEF Good
  <2> QED BY <1>1, SubsetInduction
<1> QED BY <1>2 DEF Sums

\* A sum over a set is what any one of its elements adds to the others.
LEMMA SumSplits ==
    ASSUME NEW S, IsFiniteSet(S), NEW g \in [S -> Int], NEW f, Sums(f, g, S)
    PROVE  \A T \in SUBSET S : \A x \in T : f[T] = g[x] + f[T \ {x}]
<1> DEFINE Good == {T \in SUBSET S : \A x \in T : f[T] = g[x] + f[T \ {x}]}
<1>1. ASSUME NEW T \in SUBSET S, \A U \in SUBSET T : U # T => U \in Good PROVE T \in Good
  <2> SUFFICES ASSUME NEW x \in T PROVE f[T] = g[x] + f[T \ {x}]
    OBVIOUS
  <2> DEFINE y == Some(T)
  <2>0. T # {}
    OBVIOUS
  <2>1. y \in T /\ f[T] = g[y] + f[T \ {y}]
    BY <2>0, SumValues
  <2> HIDE DEF y
  <2>2. CASE x # y
    <3>1. f[T \ {y}] = g[x] + f[(T \ {y}) \ {x}]
      <4>1. T \ {y} \in Good /\ x \in T \ {y}
        BY <1>1, <2>1, <2>2
      <4> QED BY <4>1
    <3>2. f[T \ {x}] = g[y] + f[(T \ {x}) \ {y}]
      <4>1. T \ {x} \in Good /\ y \in T \ {x}
        BY <1>1, <2>1, <2>2
      <4> QED BY <4>1
    <3>3. (T \ {x}) \ {y} = (T \ {y}) \ {x}
      OBVIOUS
    <3>4. g[x] \in Int /\ g[y] \in Int /\ f[(T \ {y}) \ {x}] \in Int
      <4>1. f \in [SUBSET S -> Int] /\ (T \ {y}) \ {x} \in SUBSET S
        BY SumInt
      <4>2. x \in S /\ y \in S
        BY <2>1
      <4> QED BY <4>1, <4>2
    <3>5. f[T] = g[y] + (g[x] + f[(T \ {y}) \ {x}])
      BY <2>1, <3>1
    <3>6. f[T \ {x}] = g[y] + f[(T \ {y}) \ {x}]
      BY <3>2, <3>3
    <3> HIDE DEF Good
    <3> QED BY <3>4, <3>5, <3>6
  <2> QED BY <2>1, <2>2
<1>2. \A T \in SUBSET S : T \in Good
  <2> HIDE DEF Good
  <2> QED BY <1>1, SubsetInduction
<1> QED BY <1>2

\* There are such sums: those of larger and larger subsets.
LEMMA SumExists ==
    ASSUME NEW S, IsFiniteSet(S), NEW g
    PROVE  \E f : Sums(f, g, S)
<1> DEFINE N == Cardinality(S)
           Upto(n) == {s \in SUBSET S : Cardinality(s) <= n}
           Rec(f, n) == f = [s \in Upto(n) |->
                                IF s = {} THEN 0 ELSE g[Some(s)] + f[s \ {Some(s)}]]
           Good == {T \in SUBSET (1..N) : \A n \in 0..N : T = 1..n => \E f : Rec(f, n)}
<1>1. N \in Nat /\ IsFiniteSet(1..N)
  BY FS_CardinalityType, FS_Interval
<1>2. \A s \in SUBSET S : IsFiniteSet(s) /\ Cardinality(s) \in Nat /\ Cardinality(s) <= N
  BY FS_Subset, FS_CardinalityType
<1>3. \A s \in SUBSET S : s # {} => /\ Some(s) \in s
                                    /\ Cardinality(s \ {Some(s)}) = Cardinality(s) - 1
  BY <1>2, SomeIn, FS_RemoveElement
<1>4. ASSUME NEW T \in SUBSET (1..N), \A U \in SUBSET T : U # T => U \in Good PROVE T \in Good
  <2> SUFFICES ASSUME NEW n \in 0..N, T = 1..n PROVE \E f : Rec(f, n)
    OBVIOUS
  <2>1. CASE n = 0
    <3> DEFINE f == [s \in Upto(0) |-> 0]
    <3>1. \A s \in Upto(0) : s = {}
      <4> SUFFICES ASSUME NEW s \in SUBSET S, Cardinality(s) <= 0, s # {} PROVE FALSE
        OBVIOUS
      <4>1. Cardinality(s) = 0 /\ s \ {Some(s)} \in SUBSET S
        BY <1>2
      <4>2. Cardinality(s \ {Some(s)}) = 0 - 1
        BY <1>3, <4>1
      <4> QED BY <1>2, <4>1, <4>2
    <3>2. Rec(f, 0)
      BY <3>1
    <3> QED BY <2>1, <3>2
  <2>2. CASE n # 0
    <3>1. n - 1 \in 0..N /\ 1..(n - 1) \in SUBSET T /\ 1..(n - 1) # T
      <4>1. n \in 1..n /\ n \notin 1..(n - 1)
        BY <1>1, <2>2
      <4> QED BY <1>1, <2>2, <4>1
    <3>2. PICK h : Rec(h, n - 1)
      BY <1>4, <3>1
    <3>3. \A s \in Upto(n - 1) : h[s] = IF s = {} THEN 0 ELSE g[Some(s)] + h[s \ {Some(s)}]
      <4> HIDE DEF Upto
      <4> QED BY <3>2
    <3> DEFINE f == [s \in Upto(n) |-> IF s = {} THEN 0 ELSE g[Some(s)] + h[s \ {Some(s)}]]
    <3>4. \A s \in Upto(n - 1) : s \in Upto(n) /\ f[s] = h[s]
      <4>1. \A s \in Upto(n - 1) : s \in Upto(n)
        BY <1>1, <1>2
      <4> HIDE DEF Upto
      <4> QED BY <3>3, <4>1
    <3>5. \A s \in Upto(n) : s # {} => s \ {Some(s)} \in Upto(n - 1)
      <4> SUFFICES ASSUME NEW s \in SUBSET S, Cardinality(s) <= n, s # {}
                   PROVE  s \ {Some(s)} \in SUBSET S /\ Cardinality(s \ {Some(s)}) <= n - 1
        OBVIOUS
      <4>1. Cardinality(s \ {Some(s)}) = Cardinality(s) - 1 /\ Cardinality(s) \in Nat
        BY <1>2, <1>3
      <4> QED BY <1>1, <4>1
    <3>6. \A s \in Upto(n) : s # {} => f[s \ {Some(s)}] = h[s \ {Some(s)}]
      <4> HIDE DEF Upto, f
      <4> QED BY <3>4, <3>5
    <3>7. Rec(f, n)
      <4>1. \A s \in Upto(n) : (IF s = {} THEN 0 ELSE g[Some(s)] + h[s \ {Some(s)}]) =
                               (IF s = {} THEN 0 ELSE g[Some(s)] + f[s \ {Some(s)}])
        <5> HIDE DEF Upto, f
        <5> QED BY <3>6
      <4>2. f = [s \in Upto(n) |-> IF s = {} THEN 0 ELSE g[Some(s)] + h[s \ {Some(s)}]]
        OBVIOUS
      <4> HIDE DEF f, Upto
      <4> QED BY <4>1, <4>2
    <3> HIDE DEF Rec, f
    <3> QED BY <3>7
  <2> QED BY <2>1, <2>2
<1>5. \A T \in SUBSET (1..N) : T \in Good
  <2> HIDE DEF Good, N
  <2> QED BY <1>1, <1>4, SubsetInduction
<1>6. 1..N \in Good /\ N \in 0..N
  <2> HIDE DEF Good, N
  <2> QED BY <1>1, <1>5
<1>7. PICK f : Rec(f, N)
  <2> HIDE DEF Rec, N
  <2> QED BY <1>6
<1>8. Upto(N) = SUBSET S
  BY <1>2
<1> HIDE DEF Upto
<1> QED BY <1>7, <1>8 DEF Sums

\* The sums of functions that agree on a set are the same.
LEMMA SumAgrees ==
    ASSUME NEW S, IsFiniteSet(S), NEW g, NEW h, NEW f, NEW k,
           Sums(f, g, S), Sums(k, h, S),
           NEW A \in SUBSET S, \A x \in A : g[x] = h[x]
    PROVE  f[A] = k[A]
<1> DEFINE Good == {T \in SUBSET A : f[T] = k[T]}
<1>1. ASSUME NEW T \in SUBSET A, \A U \in SUBSET T : U # T => U \in Good PROVE T \in Good
  <2>1. CASE T = {}
    BY <2>1, SumValues
  <2>2. CASE T # {}
    <3>0. T \in SUBSET S
      OBVIOUS
    <3>1. Some(T) \in T /\ f[T] = g[Some(T)] + f[T \ {Some(T)}]
      BY <2>2, <3>0, SumValues
    <3>3. k[T] = h[Some(T)] + k[T \ {Some(T)}]
      BY <2>2, <3>0, SumValues
    <3>2. T \ {Some(T)} \in Good
      BY <1>1, <3>1
    <3> QED BY <3>1, <3>2, <3>3
  <2> QED BY <2>1, <2>2
<1>2. \A T \in SUBSET A : T \in Good
  <2>1. IsFiniteSet(A)
    BY FS_Subset
  <2> HIDE DEF Good
  <2> QED BY <1>1, <2>1, SubsetInduction
<1> QED BY <1>2

\* Nothing but zeros add up to zero.
LEMMA SumOfZeros ==
    ASSUME NEW S, IsFiniteSet(S), NEW g, NEW f, Sums(f, g, S), \A x \in S : g[x] = 0
    PROVE  f[S] = 0
<1> DEFINE Good == {T \in SUBSET S : f[T] = 0}
<1>1. ASSUME NEW T \in SUBSET S, \A U \in SUBSET T : U # T => U \in Good PROVE T \in Good
  <2>1. CASE T = {}
    BY <2>1, SumValues
  <2>2. CASE T # {}
    <3>1. Some(T) \in T /\ f[T] = g[Some(T)] + f[T \ {Some(T)}]
      BY <2>2, SumValues
    <3>2. T \ {Some(T)} \in Good
      BY <1>1, <3>1
    <3> QED BY <3>1, <3>2
  <2> QED BY <2>1, <2>2
<1>2. \A T \in SUBSET S : T \in Good
  <2> HIDE DEF Good
  <2> QED BY <1>1, SubsetInduction
<1> QED BY <1>2

\* A sum changes by as much as one of its terms.
LEMMA SumChanges ==
    ASSUME NEW S, IsFiniteSet(S), NEW g \in [S -> Int], NEW h \in [S -> Int],
           NEW f, NEW k, Sums(f, g, S), Sums(k, h, S),
           NEW x \in S, \A y \in S : y # x => g[y] = h[y]
    PROVE  f[S] \in Int /\ k[S] = f[S] + (h[x] - g[x])
<1>1. f[S] = g[x] + f[S \ {x}] /\ k[S] = h[x] + k[S \ {x}]
  BY SumSplits
<1>2. f[S \ {x}] = k[S \ {x}]
  <2>1. S \ {x} \in SUBSET S /\ \A y \in S \ {x} : g[y] = h[y]
    OBVIOUS
  <2> QED BY <2>1, SumAgrees
<1>3. g[x] \in Int /\ h[x] \in Int /\ f[S \ {x}] \in Int /\ f[S] \in Int
  <2>1. f \in [SUBSET S -> Int] /\ S \ {x} \in SUBSET S /\ S \in SUBSET S
    BY SumInt
  <2> QED BY <2>1
<1> QED BY <1>1, <1>2, <1>3

-----------------------------------------------------------------------------
(* The gauge of the active watchers.                                       *)

\* What the reloads p have changed and not yet counted.
Net(p) == MapThenSumSet(LAMBDA r : p[r].net, Reloader)

LEMMA NetIsSum ==
    ASSUME NEW p
    PROVE  \E f : Sums(f, [r \in Reloader |-> p[r].net], Reloader) /\ Net(p) = f[Reloader]
<1> DEFINE g == [r \in Reloader |-> p[r].net]
           Body(f) == [s \in SUBSET Reloader |->
                          IF s = {} THEN 0 ELSE p[Some(s)].net + f[s \ {Some(s)}]]
           Fold == CHOOSE f : f = Body(f)
<1>1. Net(p) = Fold[Reloader]
  BY Zenon DEF Net, MapThenSumSet, MapThenFoldSet, Some
<1>2. \A f : Sums(f, g, Reloader) <=> f = Body(f)
  <2> SUFFICES ASSUME NEW f
               PROVE  [s \in SUBSET Reloader |->
                          IF s = {} THEN 0 ELSE g[Some(s)] + f[s \ {Some(s)}]] = Body(f)
    BY DEF Sums
  <2>1. \A s \in SUBSET Reloader : s # {} => g[Some(s)] = p[Some(s)].net
    BY SomeIn
  <2> HIDE DEF g
  <2> QED BY <2>1
<1>3. \E f : Sums(f, g, Reloader)
  BY SumExists, ReloaderAssumption DEF Reloader
<1>4. Sums(Fold, g, Reloader)
  <2> HIDE DEF g, Body
  <2> QED BY <1>2, <1>3
<1> QED BY <1>1, <1>4

LEMMA NetChanges ==
    ASSUME NEW p \in [Reloader -> ReloadState], NEW q \in [Reloader -> ReloadState],
           NEW r \in Reloader, \A t \in Reloader : t # r => p[t] = q[t]
    PROVE  Net(p) \in Int /\ Net(q) = Net(p) + (q[r].net - p[r].net)
<1> DEFINE g == [t \in Reloader |-> p[t].net]
           h == [t \in Reloader |-> q[t].net]
<1>1. g \in [Reloader -> Int] /\ h \in [Reloader -> Int]
  BY DEF ReloadState
<1>2. g[r] = p[r].net /\ h[r] = q[r].net /\ \A t \in Reloader : t # r => g[t] = h[t]
  OBVIOUS
<1>3. PICK f : Sums(f, g, Reloader) /\ Net(p) = f[Reloader]
  BY NetIsSum
<1>4. PICK k : Sums(k, h, Reloader) /\ Net(q) = k[Reloader]
  BY NetIsSum
<1>5. IsFiniteSet(Reloader)
  BY ReloaderAssumption DEF Reloader
<1> HIDE DEF g, h
<1>6. f[Reloader] \in Int /\ k[Reloader] = f[Reloader] + (h[r] - g[r])
  BY <1>1, <1>2, <1>3, <1>4, <1>5, SumChanges
<1> QED BY <1>2, <1>3, <1>4, <1>6

LEMMA NetOfNone ==
    ASSUME NEW p, \A r \in Reloader : p[r].net = 0
    PROVE  Net(p) = 0
<1> DEFINE g == [t \in Reloader |-> p[t].net]
<1>1. PICK f : Sums(f, g, Reloader) /\ Net(p) = f[Reloader]
  BY NetIsSum
<1>2. \A r \in Reloader : g[r] = 0
  OBVIOUS
<1>3. IsFiniteSet(Reloader)
  BY ReloaderAssumption DEF Reloader
<1> HIDE DEF g
<1> QED BY <1>1, <1>2, <1>3, SumOfZeros

\* The invariant that GaugeAccounts rests on: a reload that has not yet applied
\* its file has changed nothing, and without the service there is none.
NetsInv ==
    /\ ~up => \A r \in Reloader : reload[r] = Idle
    /\ \A r \in Reloader : reload[r].step \in {"idle", "loaded"} => reload[r].net = 0
    /\ GaugeAccounts

LEMMA GaugeIsNet ==
    /\ GaugeAccounts <=> (up /\ ~erred => gauge + Net(reload) = Cardinality(watchers))
    /\ GaugeAccounts' <=> (up' /\ ~erred' => gauge' + Net(reload') = Cardinality(watchers'))
BY Zenon DEF GaugeAccounts, Net, MapThenSumSet, MapThenFoldSet

\* As many entries are made as there are watches to make them for.
LEMMA NewEntriesCounted ==
    ASSUME NEW ws, ws \subseteq Watch, IsFiniteSet(ws), NEW first \in Nat,
           NEW new \in NewEntries(ws, first)
    PROVE  IsFiniteSet(new) /\ Cardinality(new) = Cardinality(ws)
<1>1. PICK number \in [ws -> first..(first + Cardinality(ws) - 1)] :
          /\ \A v, w \in ws : v # w => number[v] # number[w]
          /\ new = {NewEntry(w, number[w]) : w \in ws}
  BY DEF NewEntries
<1> DEFINE made == [w \in ws |-> NewEntry(w, number[w])]
<1>2. made \in [ws -> new] /\ \A e \in new : \E w \in ws : made[w] = e
  BY <1>1
<1>3. \A v, w \in ws : made[v] = made[w] => v = w
  <2>1. \A w \in ws : made[w].id = number[w]
    BY DEF NewEntry
  <2> QED BY <1>1, <2>1
<1> HIDE DEF made
<1>4. made \in Bijection(ws, new)
  BY <1>2, <1>3 DEF Bijection, Injection, Surjection, IsInjective
<1>5. ExistsBijection(ws, new)
  BY <1>4 DEF ExistsBijection
<1> QED BY <1>5, FS_Bijection

\* Updating the entries that stay leaves as many of them.
LEMMA UpdatedCounted ==
    ASSUME NEW c \in Seq(Watch), Distinct(watchers, nextId)
    PROVE  /\ IsFiniteSet(Updated(c))
           /\ Cardinality(Updated(c)) = Cardinality(watchers) - Cardinality(Removed(c))
           /\ Cardinality(watchers) \in Nat /\ Cardinality(Removed(c)) \in Nat
<1> DEFINE kept == watchers \ Removed(c)
           upd == [e \in kept |-> UpdateEntry(e, WatchOf(c, e))]
<1>1. IsFiniteSet(watchers) /\ Removed(c) \subseteq watchers /\ watchers \subseteq Entry
  BY DEF Distinct, Removed
<1>2. IsFiniteSet(kept) /\ Cardinality(kept) = Cardinality(watchers) - Cardinality(Removed(c))
  <2>1. watchers \cap Removed(c) = Removed(c)
    BY <1>1
  <2> QED BY <1>1, <2>1, FS_Difference
<1>3. upd \in [kept -> Updated(c)] /\ \A u \in Updated(c) : \E e \in kept : upd[e] = u
  BY DEF Updated
<1>4. \A e, f \in kept : upd[e] = upd[f] => e = f
  <2>1. \A e \in kept : upd[e].id = e.id
    BY <1>1 DEF UpdateEntry, Entry
  <2> HIDE DEF upd
  <2> QED BY <1>1, <2>1 DEF Distinct
<1> HIDE DEF upd, kept
<1>5. upd \in Bijection(kept, Updated(c))
  BY <1>3, <1>4 DEF Bijection, Injection, Surjection, IsInjective
<1>6. ExistsBijection(kept, Updated(c))
  BY <1>5 DEF ExistsBijection
<1>7. IsFiniteSet(Updated(c)) /\ Cardinality(Updated(c)) = Cardinality(kept)
  BY <1>2, <1>6, FS_Bijection
<1>8. IsFiniteSet(Removed(c))
  BY <1>1, FS_Subset
<1> QED BY <1>1, <1>2, <1>7, <1>8, FS_CardinalityType

\* The watchers after a reload are as many more as its net change.
LEMMA ApplyCounted ==
    ASSUME IInv, NEW r \in Reloader, Apply(r)
    PROVE  /\ reload'[r].net \in Int
           /\ Cardinality(watchers') = Cardinality(watchers) + reload'[r].net
<1> DEFINE c == reload[r].conf
<1>1. Distinct(watchers, nextId) /\ reload \in [Reloader -> ReloadState]
  BY DistinctManager DEF IInv, TypeOK, ReloadsTyped
<1>2. c \in Seq(Watch) /\ nextId \in Nat
  BY <1>1 DEF ReloadState, Distinct
<1>3. PICK new \in NewEntries(Missing(c), nextId) : watchers' = Updated(c) \cup new
  BY DEF Apply
<1>4. reload'[r].net = Cardinality(Missing(c)) - Cardinality(Removed(c))
  BY <1>1 DEF Apply
<1> HIDE DEF c
<1>5. /\ Missing(c) \subseteq Watch /\ IsFiniteSet(Missing(c))
      /\ \A w \in Missing(c) : \A e \in watchers : e.path # w.path
  BY <1>2, MissingFact
<1>6. IsFiniteSet(new) /\ Cardinality(new) = Cardinality(Missing(c))
  BY <1>2, <1>3, <1>5, NewEntriesCounted
<1>7. /\ IsFiniteSet(Updated(c))
      /\ Cardinality(Updated(c)) = Cardinality(watchers) - Cardinality(Removed(c))
      /\ Cardinality(watchers) \in Nat /\ Cardinality(Removed(c)) \in Nat
  BY <1>1, <1>2, UpdatedCounted
<1>8. Updated(c) \cap new = {}
  <2>1. \A u \in Updated(c) : \E e \in watchers : u.path = e.path
    BY <1>1, <1>2, UpdatedFact
  <2>2. \A e \in new : \E w \in Missing(c) : e.path = w.path
    BY <1>2, <1>3, <1>5, NewEntriesFact
  <2> QED BY <1>5, <2>1, <2>2
<1>9. Cardinality(watchers') = Cardinality(Updated(c)) + Cardinality(new) - Cardinality({})
  BY <1>3, <1>6, <1>7, <1>8, FS_Union
<1>10. Cardinality({}) = 0 /\ Cardinality(Missing(c)) \in Nat
  BY <1>5, FS_EmptySet, FS_CardinalityType
<1> QED BY <1>4, <1>6, <1>7, <1>9, <1>10

\* A step of a reload changes that reload only.
LEMMA StepOfOne ==
    ASSUME IInv, IInv', NEW r \in Reloader, Load(r) \/ ReloadStep(r)
    PROVE  /\ reload \in [Reloader -> ReloadState] /\ reload' \in [Reloader -> ReloadState]
           /\ \A q \in Reloader : q # r => reload'[q] = reload[q]
<1>1. reload \in [Reloader -> ReloadState] /\ reload' \in [Reloader -> ReloadState]
  BY DEF IInv, TypeOK, ReloadsTyped
<1>2. \E x : reload' = [reload EXCEPT ![r] = x]
  BY <1>1 DEF ReloadStep, Load, Apply, ApplyFails, StoreConfig, ReplaceFilters, AdjustGauge
<1> QED BY <1>1, <1>2

LEMMA NextNetsInv == IInv /\ IInv' /\ NetsInv /\ [Next]_vars => NetsInv'
<1> SUFFICES ASSUME IInv, IInv', NetsInv, [Next]_vars PROVE NetsInv'
  OBVIOUS
<1> DEFINE NoneDown == ~up => \A r \in Reloader : reload[r] = Idle
           NoneYet == \A r \in Reloader :
                         reload[r].step \in {"idle", "loaded"} => reload[r].net = 0
           Counted == up /\ ~erred => gauge + Net(reload) = Cardinality(watchers)
<1>1. NoneDown /\ NoneYet /\ Counted
  BY GaugeIsNet DEF NetsInv
<1>2. SUFFICES NoneDown' /\ NoneYet' /\ (up' /\ ~erred' => gauge' + Net(reload') = Cardinality(watchers'))
  BY GaugeIsNet DEF NetsInv
<1>3. /\ reload \in [Reloader -> ReloadState] /\ reload' \in [Reloader -> ReloadState]
      /\ gauge \in Int /\ gauge' \in Int /\ up \in BOOLEAN /\ erred \in BOOLEAN
  BY DEF IInv, TypeOK, ReloadsTyped
<1>4. Idle.step = "idle" /\ Idle.net = 0
  BY DEF Idle
<1>5. CASE Start
  <2>1. PICK ws \in Watchable(file) :
            watchers' \in NewEntries(ws, 0) /\ gauge' = Cardinality(ws)
    BY <1>5 DEF Start
  <2>2. ws \subseteq Watch /\ IsFiniteSet(ws)
    <3>1. file \in Seq(Watch)
      BY <2>1 DEF IInv, TypeOK, ConfigTyped
    <3> QED BY <3>1, <2>1, WatchableFact
  <2>3. Cardinality(watchers') = gauge'
    BY <2>1, <2>2, NewEntriesCounted
  <2>4. reload' = reload /\ up' /\ ~up
    BY <1>5 DEF Start
  <2>5. Net(reload') = 0
    BY <1>1, <1>4, <2>4, NetOfNone
  <2>6. gauge' + Net(reload') = Cardinality(watchers')
    <3>1. PICK n \in Int : gauge' = n
      BY <1>3
    <3>2. n + 0 = n
      OBVIOUS
    <3> QED BY <2>3, <2>5, <3>1, <3>2
  <2>7. NoneDown' /\ NoneYet'
    BY <1>1, <2>4
  <2> QED BY <2>6, <2>7
<1>6. CASE Die
  BY <1>4, <1>6 DEF Die
<1>7. CASE BeginSave \/ EndSave \/ AdminEdit \/ PathChanges \/ UNCHANGED vars
  <2>1. UNCHANGED <<reload, watchers, up, erred, gauge>>
    BY <1>7 DEF BeginSave, EndSave, AdminEdit, PathChanges, vars, active
  <2> QED BY <1>1, <2>1
<1>8. ASSUME NEW r \in Reloader, Load(r) \/ ReloadStep(r)
      PROVE  NoneDown' /\ NoneYet' /\ (up' /\ ~erred' => gauge' + Net(reload') = Cardinality(watchers'))
  <2>1. \A q \in Reloader : q # r => reload'[q] = reload[q]
    BY <1>8, StepOfOne
  <2>2. /\ Net(reload) \in Int
        /\ Net(reload') = Net(reload) + (reload'[r].net - reload[r].net)
    BY <1>3, <2>1, NetChanges
  <2>3. reload[r].net \in Int
    BY <1>3 DEF ReloadState
  <2>4. up' = up /\ up
    BY <1>1, <1>4, <1>8 DEF Load, ReloadStep, Apply, ApplyFails, StoreConfig, ReplaceFilters,
                           AdjustGauge, Applied
  <2>5. SUFFICES /\ reload'[r].step \in {"idle", "loaded"} => reload'[r].net = 0
                 /\ ~erred' => gauge' + Net(reload') = Cardinality(watchers')
    BY <1>1, <2>1, <2>4
  <2> HIDE DEF NoneDown
  <2>6. CASE Load(r)
    <3>1. /\ reload'[r].net = 0 /\ reload[r].net = 0
          /\ UNCHANGED <<watchers, gauge, erred>>
      BY <1>1, <1>3, <2>6 DEF Load, active
    <3> QED BY <1>1, <2>2, <2>4, <3>1
  <2>7. CASE Apply(r)
    <3>1. reload[r].net = 0 /\ reload'[r].step = "applied" /\ UNCHANGED <<gauge, erred>>
      BY <1>1, <1>3, <2>7 DEF Apply
    <3>2. /\ reload'[r].net \in Int
          /\ Cardinality(watchers') = Cardinality(watchers) + reload'[r].net
      BY <2>7, ApplyCounted
    <3> QED BY <1>1, <1>3, <2>2, <2>4, <3>1, <3>2
  <2>8. CASE ApplyFails(r)
    BY <1>3, <1>4, <2>8 DEF ApplyFails
  <2>9. CASE StoreConfig(r) \/ ReplaceFilters(r)
    <3>1. PICK x \in {"stored", "filtered"} : reload' = [reload EXCEPT ![r].step = x]
      BY <2>9 DEF StoreConfig, ReplaceFilters
    <3>2. UNCHANGED <<watchers, gauge, erred>>
      BY <2>9 DEF StoreConfig, ReplaceFilters, active
    <3>3. reload'[r] = [reload[r] EXCEPT !.step = x] /\ reload[r] \in ReloadState
      BY <1>3, <3>1
    <3>4. reload'[r].net = reload[r].net /\ reload'[r].step = x
      BY <3>3 DEF ReloadState
    <3>5. Net(reload') = Net(reload)
      BY <2>2, <2>3, <3>4
    <3>6. ~erred' => gauge' + Net(reload') = Cardinality(watchers')
      BY <1>1, <2>4, <3>2, <3>5
    <3> QED BY <3>4, <3>6
  <2>10. CASE AdjustGauge(r)
    <3>1. /\ reload'[r].net = 0
          /\ gauge' = gauge + reload[r].net /\ UNCHANGED <<watchers, erred>>
      BY <1>3, <1>4, <2>10 DEF AdjustGauge, active
    <3> QED BY <1>1, <1>3, <2>2, <2>3, <2>4, <3>1
  <2> QED BY <1>8, <2>6, <2>7, <2>8, <2>9, <2>10 DEF ReloadStep
<1> HIDE DEF NoneDown, NoneYet, Counted
<1> QED BY <1>5, <1>6, <1>7, <1>8 DEF Next

\* However many reloads are on their way, the gauge of the active watchers and
\* what they have still to add to it make the number of the manager's entries,
\* as long as no reload has failed after changing some (reload_watchers).
THEOREM ReloadGaugeAccounts == Spec => []GaugeAccounts
<1>1. Init => NetsInv
  <2> SUFFICES ASSUME Init PROVE NetsInv
    OBVIOUS
  <2>1. ~up /\ \A r \in Reloader : reload[r] = Idle
    BY DEF Init
  <2> QED BY <2>1, GaugeIsNet DEF NetsInv, Idle
<1>2. NetsInv => GaugeAccounts
  BY DEF NetsInv
<1> QED BY <1>1, <1>2, ReloadInductive, NextNetsInv, PTL DEF Spec
=============================================================================
