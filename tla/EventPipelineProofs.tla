------------------------ MODULE EventPipelineProofs -------------------------
(***************************************************************************)
(* The event path for any number of watchers, keys, filter lists, any      *)
(* capacity of the channel and any dedup window: types, a history that     *)
(* covers what the filters let through, decisions in order, one fate for   *)
(* every event received, counters that add up, a live view that follows    *)
(* the history.                                                            *)
(***************************************************************************)
EXTENDS EventPipeline, FsWatcherProofs, FiniteSetTheorems

-----------------------------------------------------------------------------
(* What the operators of DedupTable return, for every table and window. *)

\* What the cleanup leaves: the entries inside the window, unchanged.
LEMMA CleanedTableFact ==
    ASSUME NEW table, NEW t
    PROVE  /\ DOMAIN CleanedTable(table, t) =
                 {x \in DOMAIN table : t - table[x] < Window}
           /\ \A x \in DOMAIN CleanedTable(table, t) :
                 CleanedTable(table, t)[x] = table[x]
BY DEF CleanedTable, Fresh

\* A key is a duplicate exactly when its entry is inside the window.
LEMMA IsDuplicateFact ==
    ASSUME NEW table, NEW k, NEW t
    PROVE  IsDuplicate(table, k, t) <=>
              k \in DOMAIN table /\ t - table[k] < Window
BY CleanedTableFact DEF IsDuplicate, Fresh

\* The table after a call: the asked key with its instant, and the entries
\* that were inside the window.
LEMMA ProcessedTableFact ==
    ASSUME NEW table, NEW k, NEW t
    PROVE  /\ DOMAIN ProcessedTable(table, k, t) \subseteq DOMAIN table \cup {k}
           /\ k \in DOMAIN ProcessedTable(table, k, t)
           /\ IsDuplicate(table, k, t) =>
                 ProcessedTable(table, k, t)[k] = table[k]
           /\ ~IsDuplicate(table, k, t) => ProcessedTable(table, k, t)[k] = t
           /\ \A x : x # k =>
                 /\ x \in DOMAIN ProcessedTable(table, k, t) <=>
                       x \in DOMAIN table /\ t - table[x] < Window
                 /\ x \in DOMAIN ProcessedTable(table, k, t) =>
                       ProcessedTable(table, k, t)[x] = table[x]
<1>1. CASE IsDuplicate(table, k, t)
  BY <1>1, CleanedTableFact, IsDuplicateFact DEF ProcessedTable
<1>2. CASE ~IsDuplicate(table, k, t)
  <2> DEFINE c == CleanedTable(table, t)
             p == ProcessedTable(table, k, t)
  <2>1. p = [x \in DOMAIN c \cup {k} |-> IF x = k THEN t ELSE c[x]]
    BY <1>2 DEF ProcessedTable, Insert
  <2>2. /\ DOMAIN c = {x \in DOMAIN table : t - table[x] < Window}
        /\ \A x \in DOMAIN c : c[x] = table[x]
    BY CleanedTableFact
  <2> HIDE DEF c, p
  <2>3. DOMAIN p = DOMAIN c \cup {k}
    BY <2>1
  <2>4. p[k] = t
    BY <2>1
  <2>5. \A x : x # k /\ x \in DOMAIN p => x \in DOMAIN c /\ p[x] = table[x]
    BY <2>1, <2>2
  <2> QED BY <1>2, <2>2, <2>3, <2>4, <2>5 DEF p
<1> QED
  BY <1>1, <1>2

-----------------------------------------------------------------------------
\* The counters, the history and the sequences of ids: everything of TypeOK
\* that concerns the process task.
TaskTypeOK ==
    /\ cursor \in 0..Len(sent)
    /\ task \in TaskState
    /\ batch \in Seq(Event)
    /\ task = "idle" => batch = <<>>
    /\ HoldsFilters => batch # <<>>
    /\ filters \in FilterLists
    /\ DOMAIN seen \subseteq Key
    /\ \A k \in DOMAIN seen : seen[k] \in 0..now
    /\ now \in 0..MaxTime
    /\ metrics \in [{"batches", "deduped", "dropped", "total"} -> Nat]
    /\ stored \in Seq(1..MaxRaised)
    /\ failed \subseteq 1..MaxRaised
    /\ published \in Seq(1..MaxRaised)
    /\ scripts \subseteq 1..MaxRaised
    /\ journal \in Seq([event : Event, at : 0..MaxTime, outcome : Outcome,
                        allowed : BOOLEAN])

LEMMA TypeOKSplit == TypeOK <=> WatcherTypeOK /\ TaskTypeOK
BY DEF TypeOK, TaskTypeOK

\* The channel's log only grows.
LEMMA LogGrows ==
    ASSUME WatcherTypeOK, [WatcherNext]_watcherVars
    PROVE  Len(sent') \in Nat /\ Len(sent) \in Nat /\ Len(sent') >= Len(sent)
<1>1. sent \in Seq(Message)
  BY DEF WatcherTypeOK
<1>2. sent' = sent \/ \E m : sent' = Append(sent, m)
  <2>1. ASSUME NEW m, Send(m) PROVE sent' = sent \/ sent' = Append(sent, m)
    BY <2>1 DEF Send
  <2>2. ASSUME NEW w \in Watcher, DebounceStep(w)
        PROVE  sent' = sent \/ \E m : sent' = Append(sent, m)
    BY <2>1, <2>2 DEF DebounceStep, DebounceRecv, DebounceFlush, DebounceEnd
  <2>3. CASE UNCHANGED sent
    BY <2>3
  <2> QED
    BY <2>2, <2>3 DEF WatcherNext, Subscribe, StartWatcher, DropWatcher, Notify, watcherVars
<1> QED BY <1>1, <1>2

LEMMA InitTypeOK == Init => TypeOK
<1> SUFFICES ASSUME Init PROVE TypeOK
  OBVIOUS
<1> USE DEF Init
<1>1. WatcherTypeOK /\ Len(sent) = 0
  BY WatcherInitTypeOK DEF WatcherInit
<1>2. /\ batch \in Seq(Event) /\ stored \in Seq(1..MaxRaised) /\ published \in Seq(1..MaxRaised)
      /\ journal \in Seq([event : Event, at : 0..MaxTime, outcome : Outcome,
                          allowed : BOOLEAN])
  OBVIOUS
<1>3. DOMAIN seen = {}
  BY DEF EmptyTable
<1>4. metrics \in [{"batches", "deduped", "dropped", "total"} -> Nat]
  OBVIOUS
<1>5. TaskTypeOK
  BY <1>1, <1>2, <1>3, <1>4, ConfigAssumption, PipelineTimeAssumption
     DEF TaskTypeOK, TaskState, FilterLists, HoldsFilters
<1> QED BY <1>1, <1>5, TypeOKSplit

LEMMA AppendType ==
    ASSUME NEW S, NEW s \in Seq(S), NEW e \in S
    PROVE  Append(s, e) \in Seq(S)
OBVIOUS

\* What the next decision leaves: the rest of the batch, and idle at its end.
LEMMA NextEventType ==
    ASSUME batch \in Seq(Event), batch # <<>>, NextEvent
    PROVE  /\ batch' \in Seq(Event) /\ task' \in TaskState
           /\ task' = "idle" => batch' = <<>>
           /\ HoldsFilters' => batch' # <<>>
BY DEF NextEvent, TaskState, HoldsFilters

\* A call of the deduplicator keeps the table's type.
LEMMA TableType ==
    ASSUME TaskTypeOK, NEW k \in Key, seen' = ProcessedTable(seen, k, now)
    PROVE  /\ DOMAIN seen' \subseteq Key
           /\ \A x \in DOMAIN seen' : seen'[x] \in 0..now
<1>1. now \in Nat
  BY PipelineTimeAssumption DEF TaskTypeOK
<1>2. DOMAIN seen' \subseteq Key
  BY ProcessedTableFact DEF TaskTypeOK
<1>3. ASSUME NEW x \in DOMAIN seen', x # k PROVE seen'[x] \in 0..now
  BY <1>3, ProcessedTableFact DEF TaskTypeOK
<1>4. k \in DOMAIN seen' => seen'[k] \in 0..now
  BY <1>1, ProcessedTableFact, IsDuplicateFact, SMTT(30) DEF TaskTypeOK
<1> QED BY <1>2, <1>3, <1>4

Entry == [event : Event, at : 0..MaxTime, outcome : Outcome, allowed : BOOLEAN]

\* Deciding an event appends one typed entry to the journal.
LEMMA JournalType ==
    ASSUME TaskTypeOK, NEW e \in Event, NEW o \in Outcome,
           journal' = Append(journal, Decided(e, o))
    PROVE  journal' \in Seq(Entry)
<1>1. Decided(e, o) \in Entry
  BY DEF Decided, Entry, TaskTypeOK, Allows
<1> QED BY <1>1 DEF TaskTypeOK, Entry

LEMMA TaskStepTypeOK ==
    ASSUME TypeOK, TaskStep
    PROVE  TypeOK'
<1>1. WatcherTypeOK /\ TaskTypeOK
  BY TypeOKSplit
<1> DEFINE MetricsType == [{"batches", "deduped", "dropped", "total"} -> Nat]
           LossType == [id : 1..MaxRaised, why : {"unheard", "closed", "lagged"}]
<1>2. batch # <<>> => /\ Head(batch) \in Event
                       /\ Head(batch).id \in 1..MaxRaised /\ Head(batch).key \in Key
  <2> SUFFICES ASSUME batch # <<>>
               PROVE  Head(batch) \in Event
    BY DEF Event
  <2> QED BY <1>1 DEF TaskTypeOK
<1>3. ASSUME UNCHANGED watcherVars PROVE WatcherTypeOK'
  BY <1>1, <1>3 DEF WatcherTypeOK, watcherVars
<1>4. CASE RecvLagged
  <2>1. Len(sent) \in Nat /\ cursor' = Len(sent) - Capacity /\ cursor' \in 0..Len(sent)
    BY <1>1, <1>4, CapacityAssumption, SMTT(30) DEF RecvLagged, WatcherTypeOK, TaskTypeOK
  <2>2. \A m \in DOMAIN sent : sent[m].events \in Seq(Event)
    BY <1>1, MessageEvents
  <2>3. \A m \in cursor + 1 .. cursor' : m \in DOMAIN sent
    BY <1>1, <2>1, SMTT(30) DEF WatcherTypeOK, TaskTypeOK
  <2>4. \A m \in cursor + 1 .. cursor' : Losses(sent[m].events, "lagged") \subseteq LossType
    <3> SUFFICES ASSUME NEW m \in cursor + 1 .. cursor', NEW e \in ToSet(sent[m].events)
                 PROVE  Loss(e, "lagged") \in LossType
      BY DEF Losses
    <3>1. e \in Event
      BY <2>2, <2>3 DEF ToSet
    <3> QED BY <3>1 DEF Event, Loss
  <2>5. lost' \subseteq LossType
    BY <1>1, <1>4, <2>4 DEF RecvLagged, WatcherTypeOK
  <2>6. WatcherTypeOK'
    BY <1>1, <1>4, <2>5 DEF RecvLagged, WatcherTypeOK
  <2>7. TaskTypeOK'
    BY <1>1, <1>4, <2>1 DEF RecvLagged, TaskTypeOK, HoldsFilters
  <2> QED BY <2>6, <2>7 DEF TypeOK, TaskTypeOK
<1>5. CASE Recv
  <2>1. cursor' = cursor + 1 /\ cursor' \in DOMAIN sent /\ cursor' \in 0..Len(sent)
    <3>1. Len(sent) \in Nat /\ cursor \in Nat /\ DOMAIN sent = 1..Len(sent)
      BY <1>1 DEF WatcherTypeOK, TaskTypeOK
    <3>2. cursor' = cursor + 1 /\ Len(sent) - cursor >= 1
      BY <1>5, <3>1, CapacityAssumption DEF Recv
    <3> QED BY <3>1, <3>2
  <2>2. sent[cursor'] \in Message /\ sent[cursor'].events \in Seq(Event)
    BY <1>1, <2>1, MessageEvents DEF WatcherTypeOK
  <2>3. sent[cursor'].kind = "batch" => sent[cursor'].events # <<>>
    BY <2>2 DEF Message
  <2>4. TaskTypeOK'
    BY <1>1, <1>5, <2>1, <2>2, <2>3 DEF Recv, watcherVars, TaskState, TaskTypeOK, HoldsFilters
  <2> QED BY <1>3, <1>5, <2>4 DEF TypeOK, TaskTypeOK, Recv
<1>6. CASE TakeFilters
  <2>1. metrics' \in MetricsType
    <3>1. metrics \in MetricsType
      BY <1>1 DEF TaskTypeOK
    <3>2. metrics.batches + 1 \in Nat
      BY <3>1
    <3>3. metrics' = metrics \/ metrics' = [metrics EXCEPT !.batches = @ + 1]
      BY <1>6 DEF TakeFilters
    <3> QED BY <3>1, <3>2, <3>3
  <2>2. TaskTypeOK'
    BY <1>1, <1>6, <2>1 DEF TakeFilters, watcherVars, TaskState, TaskTypeOK, HoldsFilters
  <2> QED BY <1>3, <1>6, <2>2 DEF TypeOK, TaskTypeOK, TakeFilters
<1>7. ASSUME task = "deciding", seen' = ProcessedTable(seen, Head(batch).key, now),
             NEW o \in Outcome, journal' = Append(journal, Decided(Head(batch), o)),
             metrics' \in MetricsType,
             NextEvent \/ (task' = "storing" /\ batch' = batch),
             UNCHANGED <<watcherVars, cursor, filters, now, stored, failed, published, scripts>>
      PROVE  TypeOK'
  <2>1. batch # <<>>
    BY <1>1, <1>7 DEF TaskTypeOK, HoldsFilters
  <2>2. DOMAIN seen' \subseteq Key /\ \A x \in DOMAIN seen' : seen'[x] \in 0..now
    BY <1>1, <1>2, <1>7, <2>1, TableType
  <2>3. journal' \in Seq(Entry)
    BY <1>1, <1>2, <1>7, <2>1, JournalType
  <2>4. /\ batch' \in Seq(Event) /\ task' \in TaskState
        /\ (task' = "idle" => batch' = <<>>) /\ (HoldsFilters' => batch' # <<>>)
    BY <1>1, <1>7, <2>1, NextEventType DEF TaskState, TaskTypeOK
  <2>5. TaskTypeOK'
    BY <1>1, <1>7, <2>2, <2>3, <2>4 DEF watcherVars, Entry, TaskTypeOK
  <2> QED BY <1>3, <1>7, <2>5 DEF TypeOK, TaskTypeOK
<1>9. CASE DedupEvent
  <2>1. metrics' \in MetricsType
    <3>1. metrics \in MetricsType /\ metrics' = [metrics EXCEPT !.deduped = @ + 1]
      BY <1>1, <1>9 DEF DedupEvent, TaskTypeOK
    <3>2. metrics.deduped + 1 \in Nat
      BY <3>1
    <3> QED BY <3>1, <3>2
  <2> QED BY <1>7, <1>9, <2>1 DEF DedupEvent, Outcome
<1>10. CASE DropEvent
  <2>1. metrics' \in MetricsType
    <3>1. metrics \in MetricsType /\ metrics' = [metrics EXCEPT !.dropped = @ + 1]
      BY <1>1, <1>10 DEF DropEvent, TaskTypeOK
    <3>2. metrics.dropped + 1 \in Nat
      BY <3>1
    <3> QED BY <3>1, <3>2
  <2> QED BY <1>7, <1>10, <2>1 DEF DropEvent, Outcome
<1>11. CASE RecordEvent
  <2>1. metrics' \in MetricsType
    <3>1. metrics \in MetricsType /\ metrics' = [metrics EXCEPT !.total = @ + 1]
      BY <1>1, <1>11 DEF RecordEvent, TaskTypeOK
    <3>2. metrics.total + 1 \in Nat
      BY <3>1
    <3> QED BY <3>1, <3>2
  <2> QED BY <1>7, <1>11, <2>1 DEF RecordEvent, Outcome
<1>12. CASE StoreEvent
  <2>1. batch # <<>>
    BY <1>1, <1>12 DEF StoreEvent, TaskTypeOK, HoldsFilters
  <2>2. stored' \in Seq(1..MaxRaised) /\ failed' \subseteq 1..MaxRaised
    <3>1. stored \in Seq(1..MaxRaised) /\ failed \subseteq 1..MaxRaised
      BY <1>1 DEF TaskTypeOK
    <3>2. Append(stored, Head(batch).id) \in Seq(1..MaxRaised)
      BY <1>2, <2>1, <3>1, AppendType
    <3> QED BY <1>2, <1>12, <2>1, <3>1, <3>2 DEF StoreEvent
  <2>3. TaskTypeOK'
    BY <1>1, <1>12, <2>1, <2>2 DEF StoreEvent, watcherVars, TaskState, TaskTypeOK
  <2> QED BY <1>3, <1>12, <2>3 DEF TypeOK, TaskTypeOK, StoreEvent
<1>13. CASE PublishEvent
  <2>1. batch # <<>>
    BY <1>1, <1>13 DEF PublishEvent, TaskTypeOK, HoldsFilters
  <2>2. published' \in Seq(1..MaxRaised) /\ scripts' \subseteq 1..MaxRaised
    <3>1. published \in Seq(1..MaxRaised) /\ scripts \subseteq 1..MaxRaised
      BY <1>1 DEF TaskTypeOK
    <3>2. Append(published, Head(batch).id) \in Seq(1..MaxRaised)
      BY <1>2, <2>1, <3>1, AppendType
    <3> QED BY <1>2, <1>13, <2>1, <3>1, <3>2 DEF PublishEvent
  <2>3. /\ batch' \in Seq(Event) /\ task' \in TaskState
        /\ (task' = "idle" => batch' = <<>>) /\ (HoldsFilters' => batch' # <<>>)
    BY <1>1, <1>13, <2>1, NextEventType DEF PublishEvent, TaskTypeOK
  <2>4. TaskTypeOK'
    BY <1>1, <1>13, <2>2, <2>3 DEF PublishEvent, watcherVars, TaskTypeOK
  <2> QED BY <1>3, <1>13, <2>4 DEF TypeOK, TaskTypeOK, PublishEvent
<1> QED
  BY <1>4, <1>5, <1>6, <1>9, <1>10, <1>11, <1>12, <1>13 DEF TaskStep

LEMMA NextTypeOK == TypeOK /\ [Next]_vars => TypeOK'
<1> SUFFICES ASSUME TypeOK, [Next]_vars PROVE TypeOK'
  OBVIOUS
<1>1. WatcherTypeOK /\ TaskTypeOK
  BY TypeOKSplit
<1>2. CASE [WatcherNext]_watcherVars /\ UNCHANGED taskVars
  <2>1. WatcherTypeOK'
    BY <1>1, <1>2, WatcherNextTypeOK
  <2>2. Len(sent') \in Nat /\ Len(sent) \in Nat /\ Len(sent') >= Len(sent)
    BY <1>1, <1>2, LogGrows
  <2>3. cursor' \in 0..Len(sent')
    BY <1>1, <1>2, <2>2 DEF TaskTypeOK, taskVars
  <2>4. TaskTypeOK'
    BY <1>1, <1>2, <2>3 DEF TaskTypeOK, taskVars, HoldsFilters
  <2> QED BY <2>1, <2>4 DEF TypeOK, TaskTypeOK
<1>3. CASE TaskStep
  BY <1>3, TaskStepTypeOK
<1>4. ASSUME UNCHANGED watcherVars PROVE WatcherTypeOK' /\ sent' = sent
  BY <1>1, <1>4 DEF WatcherTypeOK, watcherVars
<1>5. CASE ReplaceFilters
  <2>1. TaskTypeOK'
    BY <1>1, <1>4, <1>5 DEF ReplaceFilters, TaskTypeOK, HoldsFilters
  <2> QED BY <1>4, <1>5, <2>1 DEF ReplaceFilters, TypeOK, TaskTypeOK
<1>6. CASE ScriptEnds
  <2>1. TaskTypeOK'
    BY <1>1, <1>4, <1>6 DEF ScriptEnds, TaskTypeOK, HoldsFilters
  <2> QED BY <1>4, <1>6, <2>1 DEF ScriptEnds, TypeOK, TaskTypeOK
<1>7. CASE Tick
  <2>1. now \in Nat /\ now' = now + 1 /\ now' \in 0..MaxTime
    BY <1>1, <1>7, PipelineTimeAssumption DEF Tick, TaskTypeOK
  <2>2. TaskTypeOK'
    BY <1>1, <1>4, <1>7, <2>1 DEF Tick, TaskTypeOK, HoldsFilters
  <2> QED BY <1>4, <1>7, <2>2 DEF Tick, TypeOK, TaskTypeOK
<1>8. CASE UNCHANGED vars
  BY <1>2, <1>8 DEF vars
<1> QED
  BY <1>2, <1>3, <1>5, <1>6, <1>7, <1>8 DEF Next

\* The process task, the channel cursor, the table, the counters and the
\* history keep their types; an idle task has nothing in hand, and one
\* that holds the filters has.
THEOREM PipelineTypeOK == Spec => []TypeOK
BY InitTypeOK, NextTypeOK, PTL DEF Spec

-----------------------------------------------------------------------------
(* The history covers what the filters let through.                        *)

\* A decision the table may remember: the event's insert was answered or is
\* awaited, or the filters of that time rejected it.
Kept(i) ==
    \/ journal[i].event.id \in ToSet(stored) \cup failed
    \/ journal[i].outcome = "dropped" /\ ~journal[i].allowed
    \/ i = Len(journal) /\ task = "storing"

\* Every entry of the table is the instant of such a decision.
TableStands ==
    \A k \in DOMAIN seen :
        \E i \in DOMAIN journal :
            journal[i].event.key = k /\ journal[i].at = seen[k] /\ Kept(i)

\* The insert that is awaited is that of the event decided last.
StoringLast ==
    task = "storing" => /\ Len(journal) \in DOMAIN journal
                        /\ journal[Len(journal)].event = Head(batch)

CoverInv == TypeOK /\ TableStands /\ StoringLast /\ HistoryCovers

\* The instants of the journal are numbers.
LEMMA JournalFact ==
    TypeOK => /\ journal \in Seq(Entry) /\ Len(journal) \in Nat
              /\ DOMAIN journal = 1..Len(journal)
              /\ \A i \in DOMAIN journal : journal[i].at \in Nat
<1> SUFFICES ASSUME TypeOK
             PROVE  /\ journal \in Seq(Entry) /\ Len(journal) \in Nat
                    /\ DOMAIN journal = 1..Len(journal)
                    /\ \A i \in DOMAIN journal : journal[i].at \in Nat
  OBVIOUS
<1>1. journal \in Seq(Entry)
  BY DEF TypeOK, Entry
<1>2. \A i \in DOMAIN journal : journal[i] \in Entry
  BY <1>1
<1>3. \A y \in Entry : y.at \in Nat
  BY PipelineTimeAssumption DEF Entry
<1> QED BY <1>1, <1>2, <1>3

\* Deciding the event at the head of the batch.
LEMMA DecideKeepsCoverInv ==
    ASSUME CoverInv, TypeOK', task = "deciding", NEW o, Head(batch) \in Event,
           seen' = ProcessedTable(seen, Head(batch).key, now),
           journal' = Append(journal, Decided(Head(batch), o)),
           UNCHANGED <<now, stored, failed>>,
           \/ o = "deduped" /\ IsDuplicate(seen, Head(batch).key, now) /\ task' # "storing"
           \/ /\ o = "dropped" /\ ~IsDuplicate(seen, Head(batch).key, now)
              /\ ~Allows(filters, Head(batch).key) /\ task' # "storing"
           \/ /\ o = "recorded" /\ ~IsDuplicate(seen, Head(batch).key, now)
              /\ task' = "storing" /\ batch' = batch
    PROVE  CoverInv'
<1> DEFINE e == Head(batch)
           n == Len(journal)
           k == e.key
           x == Decided(e, o)
<1>1. /\ journal \in Seq(Entry) /\ n \in Nat /\ DOMAIN journal = 1..n
      /\ \A i \in 1..n : journal[i].at \in Nat
      /\ now \in Nat /\ Window \in Nat \ {0}
  <2>1. now \in Nat
    BY PipelineTimeAssumption DEF CoverInv, TypeOK
  <2>2. /\ journal \in Seq(Entry) /\ Len(journal) \in Nat
        /\ DOMAIN journal = 1..Len(journal)
        /\ \A i \in DOMAIN journal : journal[i].at \in Nat
    BY JournalFact DEF CoverInv
  <2> QED BY <2>1, <2>2, WindowAssumption
<1>2. /\ Len(journal') = n + 1 /\ DOMAIN journal' = 1..(n + 1) /\ journal'[n + 1] = x
      /\ \A i \in 1..n : i \in 1..(n + 1) /\ journal'[i] = journal[i]
  BY <1>1
<1>3. /\ x.event = e /\ x.at = now /\ x.outcome = o
      /\ x.allowed = Allows(filters, e.key)
  BY DEF Decided
<1>4. \A i \in 1..n : Kept(i) => \/ journal[i].event.id \in ToSet(stored) \cup failed
                                 \/ journal[i].outcome = "dropped" /\ ~journal[i].allowed
  BY DEF Kept
<1>5. \A i \in 1..n : Kept(i) => Kept(i)'
  BY <1>2, <1>4 DEF Kept
<1>6. TableStands'
  <2> SUFFICES ASSUME NEW y \in DOMAIN seen'
               PROVE  \E i \in 1..(n + 1) :
                         journal'[i].event.key = y /\ journal'[i].at = seen'[y] /\ Kept(i)'
    BY <1>2 DEF TableStands
  <2>1. CASE y \in DOMAIN seen /\ seen'[y] = seen[y]
    <3>1. PICK i \in 1..n : journal[i].event.key = y /\ journal[i].at = seen[y] /\ Kept(i)
      BY <1>1, <2>1 DEF CoverInv, TableStands
    <3> QED BY <1>2, <1>5, <2>1, <3>1
  <2>2. CASE y = k /\ ~IsDuplicate(seen, k, now)
    <3>1. seen'[y] = now
      BY <2>2, ProcessedTableFact
    <3>2. PICK m \in 1..(n + 1) : m = n + 1
      BY <1>1
    <3>3. Kept(m)'
      BY <1>2, <1>3, <2>2, <3>2 DEF Kept
    <3> QED BY <1>2, <1>3, <2>2, <3>1, <3>2, <3>3
  <2>3. CASE y = k /\ IsDuplicate(seen, k, now)
    BY <2>1, <2>3, ProcessedTableFact, IsDuplicateFact
  <2>4. CASE y # k
    BY <2>1, <2>4, ProcessedTableFact
  <2> QED BY <2>2, <2>3, <2>4
<1>7. StoringLast'
  <2>1. n + 1 \in 1..(n + 1)
    BY <1>1
  <2> QED BY <1>2, <1>3, <2>1 DEF StoringLast
<1>8. HistoryCovers'
  <2> DEFINE C(i, j) == /\ journal'[i].event.key = journal'[j].event.key
                        /\ journal'[j].at - journal'[i].at < Window
                        /\ \/ journal'[i].event.id \in ToSet(stored) \cup failed
                           \/ journal'[i].outcome = "dropped" /\ ~journal'[i].allowed
  <2> SUFFICES ASSUME NEW j \in 1..(n + 1), journal'[j].allowed,
                      ~(j = n + 1 /\ task' = "storing")
               PROVE  \E i \in 1..j : C(i, j)
    BY <1>2 DEF HistoryCovers
  <2>1. CASE j \in 1..n
    <3>1. \A i \in 1..j : i \in 1..n
      BY <1>1, <2>1
    <3>2. PICK i \in 1..j : /\ journal[i].event.key = journal[j].event.key
                            /\ journal[j].at - journal[i].at < Window
                            /\ \/ journal[i].event.id \in ToSet(stored) \cup failed
                               \/ journal[i].outcome = "dropped" /\ ~journal[i].allowed
      BY <1>1, <1>2, <2>1 DEF CoverInv, HistoryCovers
    <3> QED BY <1>2, <2>1, <3>1, <3>2
  <2>2. CASE j = n + 1
    <3>1. o = "deduped" /\ k \in DOMAIN seen /\ now - seen[k] < Window
      BY <1>2, <1>3, <2>2, IsDuplicateFact
    <3>2. PICK i \in 1..n : journal[i].event.key = k /\ journal[i].at = seen[k] /\ Kept(i)
      BY <1>1, <3>1 DEF CoverInv, TableStands
    <3>3. i \in 1..j
      BY <1>1, <2>2
    <3> QED BY <1>2, <1>3, <1>4, <2>2, <3>1, <3>2, <3>3
  <2> QED BY <1>1, <2>1, <2>2
<1> QED BY <1>6, <1>7, <1>8 DEF CoverInv

\* The answer of the awaited insert, a row or an error.
LEMMA StoreKeepsCoverInv ==
    ASSUME CoverInv, TypeOK', StoreEvent
    PROVE  CoverInv'
<1> DEFINE n == Len(journal)
           A == ToSet(stored) \cup failed
<1>1. /\ task = "storing" /\ task' = "publishing"
      /\ UNCHANGED <<journal, seen>>
      /\ n \in Nat /\ n \in DOMAIN journal /\ journal[n].event = Head(batch)
      /\ DOMAIN journal = 1..n /\ \A i \in DOMAIN journal : journal[i].at \in Nat
  BY JournalFact DEF StoreEvent, CoverInv, StoringLast
<1>2. A \subseteq A' /\ Head(batch).id \in A'
  <2>1. CASE stored' = Append(stored, Head(batch).id) /\ UNCHANGED failed
    <3>1. stored \in Seq(1..MaxRaised) /\ Len(stored) \in Nat
      BY DEF CoverInv, TypeOK
    <3>2. /\ \A i \in DOMAIN stored : i \in DOMAIN stored' /\ stored'[i] = stored[i]
          /\ Len(stored) + 1 \in DOMAIN stored'
          /\ stored'[Len(stored) + 1] = Head(batch).id
      BY <2>1, <3>1
    <3> QED BY <2>1, <3>2 DEF ToSet
  <2>2. CASE failed' = failed \cup {Head(batch).id} /\ UNCHANGED stored
    BY <2>2
  <2> QED BY <2>1, <2>2 DEF StoreEvent
<1>3. \A i \in DOMAIN journal : Kept(i) => Kept(i)'
  BY <1>1, <1>2 DEF Kept
<1>4. TableStands'
  BY <1>1, <1>3 DEF CoverInv, TableStands
<1>5. StoringLast'
  BY <1>1 DEF StoringLast
<1>6. HistoryCovers'
  <2> SUFFICES ASSUME NEW j \in DOMAIN journal, journal[j].allowed
               PROVE  \E i \in 1..j :
                         /\ journal[i].event.key = journal[j].event.key
                         /\ journal[j].at - journal[i].at < Window
                         /\ \/ journal[i].event.id \in A'
                            \/ journal[i].outcome = "dropped" /\ ~journal[i].allowed
    BY <1>1 DEF HistoryCovers
  <2>1. CASE j = n
    <3>1. n \in 1..j /\ journal[n].at - journal[n].at < Window
      BY <1>1, <2>1, WindowAssumption
    <3> QED BY <1>1, <1>2, <2>1, <3>1
  <2>2. CASE j # n
    BY <1>2, <2>2 DEF CoverInv, HistoryCovers
  <2> QED BY <2>1, <2>2
<1> QED BY <1>4, <1>5, <1>6 DEF CoverInv

LEMMA InitCoverInv == Init => CoverInv
<1> SUFFICES ASSUME Init PROVE CoverInv
  OBVIOUS
<1>1. TypeOK /\ journal = <<>> /\ task = "idle" /\ DOMAIN seen = {}
  BY InitTypeOK DEF Init, EmptyTable
<1> QED BY <1>1 DEF CoverInv, TableStands, StoringLast, HistoryCovers

LEMMA NextCoverInv == CoverInv /\ [Next]_vars => CoverInv'
<1> SUFFICES ASSUME CoverInv, [Next]_vars PROVE CoverInv'
  OBVIOUS
<1>1. TypeOK /\ TypeOK'
  BY NextTypeOK DEF CoverInv
<1>2. ASSUME UNCHANGED <<seen, journal, stored, failed>>,
             \/ UNCHANGED <<task, batch>>
             \/ task # "storing" /\ task' # "storing"
      PROVE  CoverInv'
  <2>1. \A i \in DOMAIN journal : Kept(i) => Kept(i)'
    BY <1>2 DEF Kept
  <2>2. TableStands' /\ StoringLast'
    BY <1>2, <2>1 DEF CoverInv, TableStands, StoringLast
  <2>3. HistoryCovers'
    BY <1>2 DEF CoverInv, HistoryCovers
  <2> QED BY <1>1, <2>2, <2>3 DEF CoverInv
<1>3. task = "deciding" => Head(batch) \in Event
  <2>1. batch \in Seq(Event) /\ (task = "deciding" => batch # <<>>)
    BY <1>1 DEF TypeOK, HoldsFilters
  <2> QED BY <2>1
<1>4. CASE DedupEvent
  BY <1>1, <1>3, <1>4, DecideKeepsCoverInv DEF DedupEvent, NextEvent
<1>5. CASE DropEvent
  BY <1>1, <1>3, <1>5, DecideKeepsCoverInv DEF DropEvent, NextEvent
<1>6. CASE RecordEvent
  BY <1>1, <1>3, <1>6, DecideKeepsCoverInv DEF RecordEvent
<1>7. CASE StoreEvent
  BY <1>1, <1>7, StoreKeepsCoverInv
<1>8. CASE RecvLagged \/ Recv \/ TakeFilters \/ PublishEvent
  BY <1>2, <1>8 DEF RecvLagged, Recv, TakeFilters, PublishEvent, NextEvent
<1>9. CASE ReplaceFilters \/ ScriptEnds \/ Tick
  BY <1>2, <1>9 DEF ReplaceFilters, ScriptEnds, Tick
<1>10. CASE (WatcherNext /\ UNCHANGED taskVars) \/ UNCHANGED vars
  BY <1>2, <1>10 DEF taskVars, vars
<1> QED
  BY <1>4, <1>5, <1>6, <1>7, <1>8, <1>9, <1>10 DEF Next, TaskStep

\* Of whatever the filters let through, the history has the event or one of
\* its path and type from less than a window before, for any watchers, batches,
\* lag, reloads and window, but for a failed insert and for what the filters
\* rejected before a reload (process_watch_event, EventDeduplicator::process).
THEOREM PipelineHistoryCovers == Spec => []HistoryCovers
<1>1. CoverInv => HistoryCovers
  BY DEF CoverInv
<1> QED BY <1>1, InitCoverInv, NextCoverInv, PTL DEF Spec

-----------------------------------------------------------------------------
(* The order of the decisions.                                             *)

LEMMA CursorType == TypeOK => cursor \in 0..Len(sent) /\ cursor \in Int
<1> SUFFICES ASSUME TypeOK PROVE cursor \in 0..Len(sent) /\ cursor \in Int
  OBVIOUS
<1>1. sent \in Seq(Message) /\ cursor \in 0..Len(sent)
  BY DEF TypeOK, WatcherTypeOK
<1> QED BY <1>1

\* What the process task has received, one message at a time.
LEMMA ReceivedFact ==
    \A x : x \in Received <=>
      \E m \in 1..cursor : \E k \in DOMAIN sent[m].events : sent[m].events[k] = x
BY DEF Received, ToSet

Before(e, f) == e.from = f.from => e.id < f.id

\* What is in hand and what was decided was received, and comes one after the
\* other as it does in the log.
HandInv ==
    /\ \A i \in DOMAIN journal : journal[i].event \in Received
    /\ \A j \in DOMAIN batch : batch[j] \in Received
    /\ Sorted(batch)
    /\ \A i \in DOMAIN journal, j \in DOMAIN InHand : Before(journal[i].event, InHand[j])

PathInv == TypeOK /\ OrderInv /\ HandInv /\ DecidedInOrder

LEMMA SameOrder ==
    ASSUME OrderInv, TypeOK', UNCHANGED <<raw, pending, sent, reported>>
    PROVE  OrderInv'
<1>1. WatcherTypeOK' /\ Owned' /\ NotAhead'
  BY DEF OrderInv, Owned, NotAhead, TypeOK
<1>2. QueuesInOrder' /\ LogInOrder' /\ LogBeforeQueues'
  BY DEF OrderInv, QueuesInOrder, LogInOrder, LogBeforeQueues
<1> QED BY <1>1, <1>2 DEF OrderInv

\* Head and rest of a sorted sequence.
LEMMA HeadAndTail ==
    ASSUME NEW s \in Seq(Event), s # <<>>, Sorted(s)
    PROVE  /\ Head(s) = s[1] /\ 1 \in DOMAIN s /\ Sorted(Tail(s))
           /\ \A j \in DOMAIN Tail(s) : \E i \in DOMAIN s : Tail(s)[j] = s[i]
           /\ \A j \in DOMAIN Tail(s) : Head(s).id < Tail(s)[j].id
<1>1. Head(s) = s[1] /\ 1 \in DOMAIN s
  OBVIOUS
<1>2. \A j \in DOMAIN Tail(s) : j + 1 \in DOMAIN s /\ 1 < j + 1 /\ Tail(s)[j] = s[j + 1]
  OBVIOUS
<1>3. Sorted(Tail(s))
  BY SortedTail
<1>4. ASSUME NEW j \in DOMAIN Tail(s)
      PROVE  (\E i \in DOMAIN s : Tail(s)[j] = s[i]) /\ Head(s).id < Tail(s)[j].id
  <2> DEFINE i == j + 1
  <2>1. i \in DOMAIN s /\ 1 < i /\ Tail(s)[j] = s[i]
    BY <1>2
  <2> HIDE DEF i
  <2> QED BY <1>1, <2>1 DEF Sorted
<1> QED BY <1>1, <1>3, <1>4

\* The event at the head of the batch is decided.
LEMMA DecideInOrder ==
    ASSUME PathInv, TypeOK', task = "deciding", NEW o,
           journal' = Append(journal, Decided(Head(batch), o)), UNCHANGED <<sent, cursor>>,
           NextEvent \/ (task' = "storing" /\ batch' = batch)
    PROVE  HandInv' /\ DecidedInOrder'
<1> DEFINE n == Len(journal)
           e == Head(batch)
<1>1. /\ batch \in Seq(Event) /\ batch # <<>> /\ Sorted(batch)
      /\ \A j \in DOMAIN batch : batch[j] \in Received
  BY DEF PathInv, HandInv, TypeOK, HoldsFilters
<1>2. /\ e = batch[1] /\ 1 \in DOMAIN batch /\ Sorted(Tail(batch))
      /\ \A j \in DOMAIN Tail(batch) : \E i \in DOMAIN batch : Tail(batch)[j] = batch[i]
      /\ \A j \in DOMAIN Tail(batch) : e.id < Tail(batch)[j].id
  BY <1>1, HeadAndTail
<1>3. InHand = batch /\ InHand' = Tail(batch) /\ (batch' = batch \/ batch' = Tail(batch))
  BY DEF InHand, NextEvent
<1>4. n \in Nat /\ DOMAIN journal = 1..n /\ DOMAIN journal' = 1..(n + 1)
      /\ journal'[n + 1].event = e
      /\ \A i \in 1..n : journal'[i] = journal[i]
  <2>1. journal \in Seq(Entry)
    BY DEF PathInv, TypeOK, Entry
  <2>2. Decided(e, o).event = e
    BY DEF Decided
  <2> QED BY <2>1, <2>2
<1>5. Received' = Received
  BY DEF Received
<1>6. \A i \in DOMAIN journal : journal[i].event \in Received /\ Before(journal[i].event, e)
  BY <1>2, <1>3 DEF PathInv, HandInv
<1>7. \A i \in DOMAIN journal' : i = n + 1 \/ (i \in DOMAIN journal /\ journal'[i] = journal[i])
  BY <1>4
<1>8. \A i \in DOMAIN journal' : journal'[i].event \in Received'
  BY <1>1, <1>2, <1>4, <1>5, <1>6, <1>7
<1>9. (\A j \in DOMAIN batch' : batch'[j] \in Received') /\ Sorted(batch')
  BY <1>1, <1>2, <1>3, <1>5
<1>10. ASSUME NEW i \in DOMAIN journal', NEW j \in DOMAIN InHand'
       PROVE  Before(journal'[i].event, InHand'[j])
  <2>1. CASE i = n + 1
    BY <1>2, <1>3, <1>4, <2>1 DEF Before
  <2>2. CASE i \in DOMAIN journal /\ journal'[i] = journal[i]
    <3>1. PICK k \in DOMAIN batch : InHand'[j] = batch[k]
      BY <1>2, <1>3
    <3> QED BY <1>3, <2>2, <3>1 DEF PathInv, HandInv
  <2> QED BY <1>7, <2>1, <2>2
<1>11. DecidedInOrder'
  <2> SUFFICES ASSUME NEW i \in DOMAIN journal', NEW j \in DOMAIN journal', i < j,
                      journal'[i].event.from = journal'[j].event.from
               PROVE  journal'[i].event.id < journal'[j].event.id
    BY DEF DecidedInOrder
  <2>1. i \in DOMAIN journal /\ journal'[i] = journal[i]
    BY <1>4
  <2>2. CASE j = n + 1
    BY <1>4, <1>6, <2>1, <2>2 DEF Before
  <2>3. CASE j \in DOMAIN journal /\ journal'[j] = journal[j]
    BY <2>1, <2>3 DEF PathInv, DecidedInOrder
  <2> QED BY <1>7, <2>2, <2>3
<1> QED BY <1>8, <1>9, <1>10, <1>11 DEF HandInv

\* A message is received, whose events follow those of all messages before it.
LEMMA RecvInOrder ==
    ASSUME PathInv, TypeOK', Recv
    PROVE  HandInv' /\ DecidedInOrder'
<1>1. /\ task = "idle" /\ batch = <<>> /\ journal' = journal /\ sent' = sent
      /\ cursor \in Nat /\ cursor' = cursor + 1 /\ cursor' \in DOMAIN sent
      /\ task' = "locking" /\ batch' = sent[cursor'].events
  <2>1. sent \in Seq(Message) /\ cursor \in 0..Len(sent) /\ task = "idle" /\ batch = <<>>
    BY DEF Recv, PathInv, TypeOK, WatcherTypeOK
  <2>2. cursor' = cursor + 1 /\ Len(sent) - cursor \in 1..Capacity
    BY DEF Recv
  <2>3. cursor \in Nat /\ cursor' \in DOMAIN sent
    BY <2>1, <2>2, CapacityAssumption
  <2> QED BY <2>1, <2>2, <2>3 DEF Recv, watcherVars
<1>2. DecidedInOrder'
  BY <1>1 DEF PathInv, DecidedInOrder
<1>3. \A x \in Received : x \in Received' /\ \E m \in DOMAIN sent : m < cursor' /\
                                           \E k \in DOMAIN sent[m].events : sent[m].events[k] = x
  <2>1. 1..cursor \subseteq 1..cursor' /\ \A m \in 1..cursor : m < cursor' /\ m \in DOMAIN sent
    <3>1. sent \in Seq(Message)
      BY DEF PathInv, TypeOK, WatcherTypeOK
    <3> QED BY <1>1, <3>1
  <2> QED BY <1>1, <2>1, ReceivedFact DEF Received, ToSet
<1>4. \A i \in DOMAIN journal : journal[i].event \in Received'
  BY <1>3 DEF PathInv, HandInv
<1>5. \A k \in DOMAIN sent[cursor'].events : sent[cursor'].events[k] \in Received'
  <2>1. cursor' \in 1..cursor'
    BY <1>1
  <2> QED BY <1>1, <2>1 DEF Received, ToSet
<1>6. InHand' = batch'
  BY <1>1 DEF InHand
<1>7. Sorted(batch')
  BY <1>1 DEF PathInv, OrderInv, LogInOrder
<1>8. ASSUME NEW i \in DOMAIN journal, NEW j \in DOMAIN batch'
      PROVE  Before(journal[i].event, batch'[j])
  <2>1. PICK m \in DOMAIN sent : /\ m < cursor'
                                 /\ \E k \in DOMAIN sent[m].events :
                                      sent[m].events[k] = journal[i].event
    BY <1>3 DEF PathInv, HandInv
  <2>2. AllBefore(sent[m].events, sent[cursor'].events)
    BY <1>1, <2>1 DEF PathInv, OrderInv, LogInOrder
  <2> QED BY <1>1, <2>1, <2>2 DEF AllBefore, Before
<1> QED BY <1>1, <1>2, <1>4, <1>5, <1>6, <1>7, <1>8 DEF HandInv

\* A step of the watchers leaves the messages in the log as they are.
LEMMA LogKept ==
    ASSUME WatcherTypeOK, [WatcherNext]_watcherVars
    PROVE  \A m \in DOMAIN sent : m \in DOMAIN sent' /\ sent'[m] = sent[m]
<1>1. sent \in Seq(Message)
  BY DEF WatcherTypeOK
<1>2. sent' = sent \/ \E m : sent' = Append(sent, m)
  <2>1. ASSUME NEW m, Send(m) PROVE sent' = sent \/ sent' = Append(sent, m)
    BY <2>1 DEF Send
  <2> QED
    BY <2>1 DEF WatcherNext, Subscribe, StartWatcher, DropWatcher, Notify, DebounceStep,
                DebounceRecv, DebounceFlush, DebounceEnd, watcherVars
<1>3. ASSUME NEW x, sent' = Append(sent, x)
      PROVE  \A m \in DOMAIN sent : m \in DOMAIN sent' /\ sent'[m] = sent[m]
  BY <1>1, <1>3
<1> QED BY <1>2, <1>3

\* Steps that leave what was decided and what is in hand as they are.
LEMMA SameDecisions ==
    ASSUME HandInv, DecidedInOrder, TypeOK,
           \A m \in DOMAIN sent : m \in DOMAIN sent' /\ sent'[m] = sent[m],
           cursor' \in Int, cursor' >= cursor, journal' = journal, InHand' = InHand,
           Sorted(batch'),
           \A j \in DOMAIN batch' : \E i \in DOMAIN batch : batch'[j] = batch[i]
    PROVE  HandInv' /\ DecidedInOrder'
<1>1. \A m \in 1..cursor : m \in 1..cursor' /\ m \in DOMAIN sent
  <2>1. sent \in Seq(Message) /\ cursor \in 0..Len(sent)
    BY DEF TypeOK, WatcherTypeOK
  <2> QED BY <2>1
<1>2. ASSUME NEW x \in Received PROVE x \in Received'
  <2>1. PICK m \in 1..cursor : \E k \in DOMAIN sent[m].events : sent[m].events[k] = x
    BY ReceivedFact
  <2>2. m \in 1..cursor' /\ sent'[m] = sent[m]
    BY <1>1
  <2> QED BY <2>1, <2>2 DEF Received, ToSet
<1>3. \A j \in DOMAIN batch' : batch'[j] \in Received'
  BY <1>2 DEF HandInv
<1>4. DecidedInOrder'
  BY DEF DecidedInOrder
<1> QED BY <1>2, <1>3, <1>4 DEF HandInv

LEMMA NextPathInv == PathInv /\ [Next]_vars => PathInv'
<1> SUFFICES ASSUME PathInv, [Next]_vars PROVE PathInv'
  OBVIOUS
<1>1. TypeOK /\ TypeOK' /\ HandInv /\ DecidedInOrder /\ OrderInv /\ cursor \in Int
  <2>1. TypeOK /\ TypeOK' /\ HandInv /\ DecidedInOrder /\ OrderInv
    BY NextTypeOK DEF PathInv
  <2> QED BY <2>1, CursorType
<1>2. \A j \in DOMAIN batch : \E i \in DOMAIN batch : batch[j] = batch[i]
  OBVIOUS
<1>3. CASE WatcherNext /\ UNCHANGED taskVars
  <2>1. UNCHANGED <<cursor, journal, batch, task>> /\ InHand' = InHand
    BY <1>3 DEF taskVars, InHand
  <2>2. OrderInv'
    BY <1>1, <1>3, NextOrder
  <2>3. HandInv' /\ DecidedInOrder'
    <3>1. \A m \in DOMAIN sent : m \in DOMAIN sent' /\ sent'[m] = sent[m]
      BY <1>1, <1>3, LogKept DEF TypeOK
    <3>2. /\ cursor' \in Int /\ cursor' >= cursor /\ journal' = journal
          /\ Sorted(batch') /\ \A j \in DOMAIN batch' : \E i \in DOMAIN batch : batch'[j] = batch[i]
      BY <1>1, <1>2, <2>1 DEF HandInv
    <3> QED BY <1>1, <2>1, <3>1, <3>2, SameDecisions
  <2> QED BY <1>1, <2>2, <2>3 DEF PathInv
<1>4. ASSUME UNCHANGED <<sent, raw, pending, reported, journal, batch>>, InHand' = InHand,
             cursor' \in Int, cursor' >= cursor
      PROVE  PathInv'
  <2>1. OrderInv'
    BY <1>1, <1>4, SameOrder
  <2>2. HandInv' /\ DecidedInOrder'
    BY <1>1, <1>2, <1>4, SameDecisions DEF HandInv
  <2> QED BY <1>1, <2>1, <2>2 DEF PathInv
<1>5. CASE RecvLagged
  <2>1. /\ UNCHANGED <<sent, raw, pending, reported, journal, batch, task>>
        /\ cursor' = Len(sent) - Capacity /\ Len(sent) - cursor > Capacity
    BY <1>5 DEF RecvLagged
  <2>2. Len(sent) \in Nat
    BY <1>1 DEF TypeOK, WatcherTypeOK
  <2>3. cursor' \in Int /\ cursor' >= cursor /\ InHand' = InHand
    BY <1>1, <2>1, <2>2, CapacityAssumption DEF InHand
  <2> QED BY <1>4, <2>1, <2>3
<1>6. CASE Recv
  <2>1. OrderInv'
    BY <1>1, <1>6, SameOrder DEF Recv, watcherVars
  <2> QED BY <1>1, <1>6, <2>1, RecvInOrder DEF PathInv
<1>7. CASE TakeFilters \/ StoreEvent
  <2>1. UNCHANGED <<sent, raw, pending, reported, journal, batch, cursor>> /\ InHand' = InHand
    BY <1>7 DEF TakeFilters, StoreEvent, watcherVars, InHand
  <2> QED BY <1>1, <1>4, <2>1
<1>8. CASE DedupEvent \/ DropEvent \/ RecordEvent
  <2>1. /\ UNCHANGED <<sent, raw, pending, reported, cursor>> /\ task = "deciding"
        /\ \E o \in Outcome : journal' = Append(journal, Decided(Head(batch), o))
        /\ NextEvent \/ (task' = "storing" /\ batch' = batch)
    BY <1>8 DEF DedupEvent, DropEvent, RecordEvent, watcherVars, Outcome
  <2>2. OrderInv'
    BY <1>1, <2>1, SameOrder
  <2> QED BY <1>1, <2>1, <2>2, DecideInOrder DEF PathInv
<1>9. CASE PublishEvent
  <2>1. /\ UNCHANGED <<sent, raw, pending, reported, journal, cursor>>
        /\ task = "publishing" /\ NextEvent
    BY <1>9 DEF PublishEvent, watcherVars
  <2>2. batch \in Seq(Event) /\ batch # <<>> /\ Sorted(batch)
    BY <1>1, <2>1 DEF TypeOK, HandInv, HoldsFilters
  <2>3. InHand = Tail(batch) /\ batch' = Tail(batch) /\ InHand' = batch'
    BY <2>1 DEF InHand, NextEvent
  <2>4. HandInv' /\ DecidedInOrder'
    BY <1>1, <2>1, <2>2, <2>3, HeadAndTail, SameDecisions
  <2>5. OrderInv'
    BY <1>1, <2>1, SameOrder
  <2> QED BY <1>1, <2>4, <2>5 DEF PathInv
<1>10. CASE ReplaceFilters \/ ScriptEnds \/ Tick \/ UNCHANGED vars
  <2>1. UNCHANGED <<sent, raw, pending, reported, journal, batch, cursor>> /\ InHand' = InHand
    BY <1>10 DEF ReplaceFilters, ScriptEnds, Tick, vars, taskVars, watcherVars, InHand
  <2> QED BY <1>1, <1>4, <2>1
<1> QED BY <1>3, <1>5, <1>6, <1>7, <1>8, <1>9, <1>10 DEF Next, TaskStep

LEMMA InitPathInv == Init => PathInv
<1> SUFFICES ASSUME Init PROVE PathInv
  OBVIOUS
<1>1. TypeOK /\ OrderInv /\ journal = <<>> /\ batch = <<>> /\ DOMAIN batch = {}
  BY InitTypeOK, InitOrder DEF Init
<1> QED BY <1>1 DEF PathInv, HandInv, DecidedInOrder, Sorted

\* The events of one watcher are decided, and so recorded and published, in the
\* order in which notify reported them, each at most once, through the queues,
\* the batches, the lag of the channel and any reload (process_watch_event).
THEOREM PipelineDecidedInOrder == Spec => []DecidedInOrder
<1>1. PathInv => DecidedInOrder
  BY DEF PathInv
<1> QED BY <1>1, InitPathInv, NextPathInv, PTL DEF Spec

-----------------------------------------------------------------------------
(* The fate of what was received.                                          *)

Settled == {journal[i].event : i \in DOMAIN journal}
Held == ToSet(InHand)
Skipped == UNION {ToSet(sent[m].events) : m \in (cursor + 1) .. cursor'}

\* An event is forgotten only behind the cursor or before it was accepted, and
\* what is behind the cursor was decided, is in hand or is forgotten.
Fates ==
    /\ \A e \in Waiting : e.id \notin Forgotten
    /\ \A e \in Accepted : e.id \in Forgotten => e \in Received
    /\ \A e \in Received : e \in Settled \/ e \in Held \/ e.id \in Forgotten
    /\ \A e \in Settled \cup Held : e.id \notin Forgotten

FateInv == PathInv /\ Numbered /\ Fates

LEMMA ReceivedAccepted ==
    ASSUME PathInv
    PROVE  /\ Received \subseteq Accepted /\ Settled \subseteq Received
           /\ Held \subseteq Received
<1>1. 1..cursor \subseteq DOMAIN sent
  <2>1. sent \in Seq(Message) /\ cursor \in 0..Len(sent)
    BY DEF PathInv, TypeOK, WatcherTypeOK
  <2> QED BY <2>1
<1>2. Settled \subseteq Received
  BY DEF Settled, PathInv, HandInv
<1>3. Held \subseteq ToSet(batch)
  <2>1. batch \in Seq(Event) /\ (HoldsFilters => batch # <<>>)
    BY DEF PathInv, TypeOK
  <2>2. batch # <<>> => ToSet(Tail(batch)) \subseteq ToSet(batch)
    BY <2>1, HeadAndRestSet
  <2> QED BY <2>1, <2>2 DEF Held, InHand, HoldsFilters
<1>4. ToSet(batch) \subseteq Received
  BY DEF ToSet, PathInv, HandInv
<1> QED BY <1>1, <1>2, <1>3, <1>4 DEF Received, Accepted

\* What was accepted no longer waits, and no event is in two messages.
LEMMA AcceptedApart ==
    ASSUME OrderInv
    PROVE  /\ Waiting \cap Accepted = {}
           /\ \A m, n \in DOMAIN sent :
                m < n => ToSet(sent[m].events) \cap ToSet(sent[n].events) = {}
<1> DEFINE E(m) == sent[m].events
<1>1. \A m \in DOMAIN sent : \A e \in ToSet(E(m)) : e.id \in Int
  <2>1. \A m \in DOMAIN sent : E(m) \in Seq(Event)
    BY MessageEvents DEF OrderInv
  <2>2. \A e \in Event : e.id \in Int
    BY DEF Event
  <2>3. \A m \in DOMAIN sent : \A e \in ToSet(E(m)) : e \in Event
    BY <2>1 DEF ToSet
  <2> QED BY <2>2, <2>3
<1>2. \A s, t : AllBefore(s, t) =>
        \A e \in ToSet(s), f \in ToSet(t) : e.from = f.from => e.id < f.id
  BY DEF AllBefore, ToSet
<1>3. ASSUME NEW m \in DOMAIN sent, NEW t, AllBefore(E(m), t)
      PROVE  ToSet(E(m)) \cap ToSet(t) = {}
  <2> SUFFICES ASSUME NEW e, e \in ToSet(E(m)), e \in ToSet(t) PROVE FALSE
    OBVIOUS
  <2>1. e.id < e.id /\ e.id \in Int
    BY <1>1, <1>2, <1>3
  <2> QED BY <2>1
<1>4. \A m \in DOMAIN sent : \A w \in Watcher : /\ ToSet(E(m)) \cap ToSet(pending[w]) = {}
                                                /\ ToSet(E(m)) \cap ToSet(raw[w]) = {}
  BY <1>3 DEF OrderInv, LogBeforeQueues
<1>5. \A m, n \in DOMAIN sent : m < n => ToSet(E(m)) \cap ToSet(E(n)) = {}
  BY <1>3 DEF OrderInv, LogInOrder
<1> QED BY <1>4, <1>5 DEF Waiting, Accepted

\* The facts about places and ids that every step uses.
LEMMA FateFacts ==
    ASSUME FateInv
    PROVE  /\ \A e, f \in Noticed : e.id = f.id => e = f
           /\ Waiting \subseteq Noticed /\ Accepted \subseteq Noticed
           /\ Waiting \cap Accepted = {} /\ Received \subseteq Accepted
           /\ Settled \subseteq Received /\ Held \subseteq Received
           /\ \A e \in Noticed : e.id \in DOMAIN reported
           /\ Forgotten \subseteq DOMAIN reported
<1>1. OrderInv /\ PathInv /\ Numbered
  BY DEF FateInv, PathInv
<1>2. \A e \in Noticed : e.id \in DOMAIN reported
  BY <1>1 DEF Numbered, Noticed, ToSet
<1> QED BY <1>1, <1>2, KnownById, ReceivedAccepted, AcceptedApart DEF Numbered

\* A step of the watchers.
LEMMA WatchersKeepFates ==
    ASSUME FateInv, WatcherNext, UNCHANGED taskVars, PathInv'
    PROVE  FateInv'
<1>1. Numbered' /\ Moves
  BY NextMoves DEF FateInv, PathInv, NumberedInv
<1>2. Settled' = Settled /\ Held' = Held
  BY DEF taskVars, Settled, Held, InHand
<1>3. Received' = Received
  <2>1. sent \in Seq(Message) /\ cursor \in 0..Len(sent) /\ cursor' = cursor /\ WatcherTypeOK
    BY DEF FateInv, PathInv, TypeOK, WatcherTypeOK, taskVars
  <2>2. \A m \in 1..cursor : sent'[m] = sent[m]
    BY <2>1, LogKept
  <2> QED BY <2>1, <2>2 DEF Received
<1>4. ASSUME NEW e \in Accepted, e.id \in Forgotten' PROVE e.id \in Forgotten
  <2> SUFFICES ASSUME e.id \notin Forgotten PROVE FALSE
    OBVIOUS
  <2>1. PICK f \in Waiting : f.id = e.id
    BY <1>1, <1>4 DEF Moves
  <2> QED BY <2>1, FateFacts
<1>5. \A e \in Waiting' : e.id \notin Forgotten'
  <2> SUFFICES ASSUME NEW e \in Waiting', e.id \in Forgotten' PROVE FALSE
    OBVIOUS
  <2>1. CASE e.id \in Forgotten
    BY <1>1, <2>1, FateFacts DEF FateInv, Fates, Moves
  <2>2. CASE e.id \notin Forgotten
    <3>1. PICK f \in Waiting : f.id = e.id /\ f \notin Waiting'
      BY <1>1, <2>2 DEF Moves
    <3>2. e \in Waiting
      BY <1>1, <3>1, FateFacts DEF Moves
    <3> QED BY <3>1, <3>2, FateFacts
  <2> QED BY <2>1, <2>2
<1>6. \A e \in Accepted' : e.id \in Forgotten' => e \in Received'
  <2> SUFFICES ASSUME NEW e \in Accepted', e.id \in Forgotten' PROVE e \in Received
    BY <1>3
  <2>1. CASE e \in Accepted
    BY <1>4, <2>1 DEF FateInv, Fates
  <2>2. CASE e \notin Accepted
    BY <1>1, <2>2 DEF Moves, FateInv, Fates
  <2> QED BY <2>1, <2>2
<1>7. \A e \in Received' : e \in Settled' \/ e \in Held' \/ e.id \in Forgotten'
  BY <1>1, <1>2, <1>3 DEF Moves, FateInv, Fates
<1>8. \A e \in Settled' \cup Held' : e.id \notin Forgotten'
  BY <1>2, <1>4, FateFacts DEF FateInv, Fates
<1> QED BY <1>1, <1>5, <1>6, <1>7, <1>8 DEF FateInv, Fates

\* A step of the process task that reads the channel or decides, or that does
\* neither: nothing waiting or accepted moves, nothing is lost.
LEMMA TaskKeepsFates ==
    ASSUME FateInv, PathInv', UNCHANGED <<raw, pending, sent, reported, lost>>,
           Received \subseteq Received', Settled \cup Held \subseteq Settled' \cup Held',
           Received' \ Received \subseteq Held',
           \A e \in Settled' \cup Held' : e \in Settled \cup Held \/ e \in Accepted \ Received
    PROVE  FateInv'
<1>1. Waiting' = Waiting /\ Accepted' = Accepted /\ Forgotten' = Forgotten /\ Noticed' = Noticed
  BY DEF Waiting, Accepted, Forgotten, Noticed
<1>2. Numbered'
  BY <1>1 DEF FateInv, Numbered
<1>3. \A e \in Received' : e \in Settled' \/ e \in Held' \/ e.id \in Forgotten'
  BY <1>1 DEF FateInv, Fates
<1>4. \A e \in Settled' \cup Held' : e.id \notin Forgotten'
  BY <1>1 DEF FateInv, Fates
<1> QED BY <1>1, <1>2, <1>3, <1>4 DEF FateInv, Fates

\* The lag of the channel: the skipped messages are behind the cursor and lost.
LEMMA LagKeepsFates ==
    ASSUME FateInv, PathInv', RecvLagged
    PROVE  FateInv'
<1>1. /\ UNCHANGED <<raw, pending, sent, reported, journal, batch, task>>
      /\ sent \in Seq(Message) /\ cursor \in 0..Len(sent)
      /\ cursor < cursor' /\ cursor' \in 0..Len(sent)
      /\ lost' = lost \cup UNION {Losses(sent[m].events, "lagged") : m \in (cursor + 1) .. cursor'}
  <2>1. sent \in Seq(Message) /\ cursor \in 0..Len(sent)
    BY DEF FateInv, PathInv, TypeOK, WatcherTypeOK
  <2>2. cursor' = Len(sent) - Capacity /\ Len(sent) - cursor > Capacity
    BY DEF RecvLagged
  <2>3. cursor < cursor' /\ cursor' \in 0..Len(sent)
    BY <2>1, <2>2, CapacityAssumption
  <2> QED BY <2>1, <2>3 DEF RecvLagged
<1>2. /\ 1..cursor' = (1..cursor) \cup ((cursor + 1) .. cursor')
      /\ \A m \in (cursor + 1) .. cursor' : m \in DOMAIN sent
      /\ \A m \in 1..cursor, n \in (cursor + 1) .. cursor' :
           m < n /\ m \in DOMAIN sent /\ n \in DOMAIN sent
  BY <1>1
<1>3. Received' = Received \cup Skipped
  BY <1>1, <1>2 DEF Received, Skipped
<1>4. Forgotten' = Forgotten \cup {e.id : e \in Skipped}
  <2> DEFINE L(m) == Losses(sent[m].events, "lagged")
             Gap == (cursor + 1) .. cursor'
  <2>1. \A m : \A l : l \in L(m) <=> \E e \in ToSet(sent[m].events) : l = Loss(e, "lagged")
    BY DEF Losses
  <2>2. \A e : Loss(e, "lagged").id = e.id
    BY DEF Loss
  <2> HIDE DEF L, Gap
  <2>3. ASSUME NEW x
        PROVE  (\E l \in UNION {L(m) : m \in Gap} : x = l.id) <=> \E e \in Skipped : x = e.id
    <3>1. ASSUME NEW m \in Gap, NEW l \in L(m), x = l.id PROVE \E e \in Skipped : x = e.id
      BY <2>1, <2>2, <3>1 DEF Skipped, Gap
    <3>2. ASSUME NEW m \in Gap, NEW e \in ToSet(sent[m].events), x = e.id
          PROVE  \E l \in UNION {L(n) : n \in Gap} : x = l.id
      <4>1. Loss(e, "lagged") \in L(m) /\ x = Loss(e, "lagged").id
        BY <2>1, <2>2, <3>2
      <4> QED BY <4>1
    <3> QED BY <3>1, <3>2 DEF Skipped, Gap
  <2>4. lost' = lost \cup UNION {L(m) : m \in Gap}
    BY <1>1 DEF L, Gap
  <2>5. \A x : x \in Forgotten' <=> x \in Forgotten \/ \E e \in Skipped : x = e.id
    BY <2>3, <2>4 DEF Forgotten
  <2> QED BY <2>5
<1>5. Waiting' = Waiting /\ Accepted' = Accepted /\ Noticed' = Noticed
      /\ Settled' = Settled /\ Held' = Held
  BY <1>1 DEF Waiting, Accepted, Noticed, Settled, Held, InHand
<1>6. Skipped \subseteq Accepted
  BY <1>2 DEF Skipped, Accepted
<1>7. Skipped \cap Received = {}
  BY <1>2, AcceptedApart DEF Skipped, Received, FateInv, PathInv
<1>8. \A e \in Noticed : e.id \in Forgotten' => e.id \in Forgotten \/ e \in Skipped
  <2>1. Skipped \subseteq Noticed
    BY <1>6, FateFacts
  <2> QED BY <1>4, <2>1, FateFacts
<1>9. Numbered'
  BY <1>1, <1>4, <1>5, <1>6, FateFacts DEF FateInv, Numbered
<1>10. \A e \in Waiting' : e.id \notin Forgotten'
  BY <1>5, <1>6, <1>8, FateFacts DEF FateInv, Fates
<1>11. \A e \in Accepted' : e.id \in Forgotten' => e \in Received'
  BY <1>3, <1>5, <1>8, FateFacts DEF FateInv, Fates
<1>12. \A e \in Received' : e \in Settled' \/ e \in Held' \/ e.id \in Forgotten'
  BY <1>3, <1>4, <1>5 DEF FateInv, Fates
<1>13. \A e \in Settled' \cup Held' : e.id \notin Forgotten'
  BY <1>5, <1>7, <1>8, FateFacts DEF FateInv, Fates
<1> QED BY <1>9, <1>10, <1>11, <1>12, <1>13 DEF FateInv, Fates

LEMMA NextFates == FateInv /\ [Next]_vars => FateInv'
<1> SUFFICES ASSUME FateInv, [Next]_vars PROVE FateInv'
  OBVIOUS
<1>1. PathInv /\ PathInv' /\ TypeOK
  BY NextPathInv DEF FateInv, PathInv
<1>2. ASSUME UNCHANGED <<raw, pending, sent, reported, lost, cursor, journal>>,
             InHand' = InHand
      PROVE  FateInv'
  <2>1. Received' = Received /\ Settled' = Settled /\ Held' = Held
    BY <1>2 DEF Received, Settled, Held
  <2> QED BY <1>1, <1>2, <2>1, TaskKeepsFates
<1>3. CASE WatcherNext /\ UNCHANGED taskVars
  BY <1>1, <1>3, WatchersKeepFates
<1>4. CASE RecvLagged
  BY <1>1, <1>4, LagKeepsFates
<1>5. CASE Recv
  <2> DEFINE new == ToSet(sent[cursor'].events)
  <2>1. /\ UNCHANGED <<raw, pending, sent, reported, lost, journal>>
        /\ sent \in Seq(Message) /\ cursor \in 0..Len(sent) /\ batch = <<>> /\ task = "idle"
        /\ cursor' = cursor + 1 /\ cursor' \in 1..Len(sent)
    <3>1. sent \in Seq(Message) /\ cursor \in 0..Len(sent) /\ task = "idle" /\ batch = <<>>
      BY <1>1, <1>5 DEF Recv, TypeOK, WatcherTypeOK
    <3>2. cursor' = cursor + 1 /\ Len(sent) - cursor \in 1..Capacity
      BY <1>5 DEF Recv
    <3>3. cursor' \in 1..Len(sent)
      BY <3>1, <3>2, CapacityAssumption
    <3> QED BY <1>5, <3>1, <3>2, <3>3 DEF Recv, watcherVars
  <2>2. /\ 1..cursor' = (1..cursor) \cup {cursor'} /\ cursor' \in DOMAIN sent
        /\ \A m \in 1..cursor : m < cursor' /\ m \in DOMAIN sent
    BY <2>1
  <2>3. Received' = Received \cup new
    BY <2>1, <2>2 DEF Received
  <2>4. Settled' = Settled /\ Held = {} /\ Held' = new
    <3>1. sent[cursor'] \in Message /\ ToSet(<<>>) = {}
      BY <2>1 DEF ToSet
    <3>2. task' \in {"idle", "locking"} /\ batch' = sent[cursor'].events
      BY <1>5, <2>1, <3>1 DEF Recv, Message
    <3> QED BY <2>1, <3>1, <3>2 DEF Settled, Held, InHand
  <2>5. new \subseteq Accepted /\ new \cap Received = {}
    BY <1>1, <2>2, AcceptedApart DEF Accepted, Received, PathInv
  <2> HIDE DEF new
  <2> QED BY <1>1, <2>1, <2>3, <2>4, <2>5, TaskKeepsFates
<1>6. CASE DedupEvent \/ DropEvent \/ RecordEvent
  <2>1. /\ UNCHANGED <<raw, pending, sent, reported, lost, cursor>> /\ task = "deciding"
        /\ \E o \in Outcome : journal' = Append(journal, Decided(Head(batch), o))
        /\ NextEvent \/ (task' = "storing" /\ batch' = batch)
    BY <1>6 DEF DedupEvent, DropEvent, RecordEvent, watcherVars, Outcome
  <2>2. batch \in Seq(Event) /\ batch # <<>> /\ journal \in Seq(Entry)
    BY <1>1, <2>1 DEF TypeOK, Entry, HoldsFilters
  <2>3. InHand = batch /\ InHand' = Tail(batch)
    BY <2>1 DEF InHand, NextEvent
  <2>4. Held = {Head(batch)} \cup Held'
    BY <2>2, <2>3, HeadAndRestSet DEF Held
  <2>5. Settled' = Settled \cup {Head(batch)}
    <3>1. PICK o \in Outcome : journal' = Append(journal, Decided(Head(batch), o))
      BY <2>1
    <3>2. Decided(Head(batch), o).event = Head(batch)
      BY DEF Decided
    <3>3. /\ DOMAIN journal' = DOMAIN journal \cup {Len(journal) + 1}
          /\ \A i \in DOMAIN journal : journal'[i] = journal[i]
          /\ journal'[Len(journal) + 1].event = Head(batch)
      BY <2>2, <3>1, <3>2
    <3> QED BY <3>3 DEF Settled
  <2>6. Received' = Received
    BY <2>1 DEF Received
  <2> QED BY <1>1, <2>1, <2>4, <2>5, <2>6, TaskKeepsFates
<1>7. CASE TakeFilters \/ StoreEvent
  BY <1>2, <1>7 DEF TakeFilters, StoreEvent, watcherVars, InHand
<1>8. CASE PublishEvent
  BY <1>2, <1>8 DEF PublishEvent, NextEvent, watcherVars, InHand
<1>9. CASE ReplaceFilters \/ ScriptEnds \/ Tick \/ UNCHANGED vars
  BY <1>2, <1>9 DEF ReplaceFilters, ScriptEnds, Tick, vars, taskVars, watcherVars, InHand
<1> QED BY <1>3, <1>4, <1>5, <1>6, <1>7, <1>8, <1>9 DEF Next, TaskStep

LEMMA InitFates == Init => FateInv
<1> SUFFICES ASSUME Init PROVE FateInv
  OBVIOUS
<1>1. PathInv
  BY InitPathInv
<1>2. Numbered /\ Waiting = {} /\ Accepted = {}
  <2>1. ConservedInv
    BY InitPlaces DEF Init
  <2>2. Waiting = {} /\ Accepted = {}
    BY DEF Init, WatcherInit, Waiting, Accepted, ToSet
  <2> QED BY <2>1, <2>2 DEF ConservedInv, NumberedInv
<1>3. Received = {} /\ Settled = {} /\ Held = {}
  BY <1>1, <1>2, ReceivedAccepted
<1> QED BY <1>1, <1>2, <1>3 DEF FateInv, Fates

\* In a fate: how often an event was decided.
LEMMA DecidedOnce ==
    ASSUME PathInv, NEW e
    PROVE  /\ Cardinality({i \in DOMAIN journal : journal[i].event = e}) =
                IF e \in Settled THEN 1 ELSE 0
           /\ e \in Settled => e \notin Held
<1> DEFINE D == {i \in DOMAIN journal : journal[i].event = e}
<1>1. journal \in Seq(Entry) /\ DOMAIN journal \subseteq Int
  BY DEF PathInv, TypeOK, Entry
<1>2. \A i \in DOMAIN journal : journal[i].event.id \in Int
  <2>1. \A i \in DOMAIN journal : journal[i] \in Entry
    BY <1>1
  <2>2. \A x \in Entry : x.event.id \in Int
    BY DEF Entry, Event
  <2> QED BY <2>1, <2>2
<1>3. \A i, j \in D : i = j
  <2> SUFFICES ASSUME NEW i \in D, NEW j \in D, i < j PROVE FALSE
    BY <1>1
  <2>1. e.id < e.id /\ e.id \in Int
    BY <1>2 DEF PathInv, DecidedInOrder
  <2> QED BY <2>1
<1>4. e \in Settled => e \notin Held
  <2> SUFFICES ASSUME e \in Settled, e \in Held PROVE FALSE
    OBVIOUS
  <2>1. PICK i \in DOMAIN journal : journal[i].event = e
    BY DEF Settled
  <2>2. PICK j \in DOMAIN InHand : InHand[j] = e
    BY DEF Held, ToSet
  <2>3. e.id < e.id /\ e.id \in Int
    BY <1>2, <2>1, <2>2 DEF PathInv, HandInv, Before
  <2> QED BY <2>3
<1>5. CASE e \in Settled
  <2>1. \E i : D = {i}
    BY <1>3, <1>5 DEF Settled
  <2> QED BY <1>4, <1>5, <2>1, FS_Singleton
<1>6. CASE e \notin Settled
  <2>1. D = {}
    BY <1>6 DEF Settled
  <2> QED BY <1>6, <2>1, FS_EmptySet
<1> QED BY <1>5, <1>6

\* Every event behind the cursor is in hand, was decided exactly once or was
\* skipped by lag, and only one of the three (run_serve's recv loop and
\* process_watch_event), for any capacity, batches and reloads.
THEOREM PipelineReceivedHasOneFate == Spec => []ReceivedHasOneFate
<1>1. FateInv => ReceivedHasOneFate
  <2> SUFFICES ASSUME FateInv, NEW e \in Received
               PROVE  LET decided == Cardinality({i \in DOMAIN journal : journal[i].event = e})
                      IN  \/ decided = 1 /\ ~IsLost(e) /\ e \notin ToSet(InHand)
                          \/ decided = 0 /\ IsLost(e) /\ e \notin ToSet(InHand)
                          \/ decided = 0 /\ ~IsLost(e) /\ e \in ToSet(InHand)
    BY DEF ReceivedHasOneFate
  <2>1. /\ e \in Settled \/ e \in Held \/ e.id \in Forgotten
        /\ e \in Settled \cup Held => e.id \notin Forgotten
    BY DEF FateInv, Fates
  <2>2. /\ Cardinality({i \in DOMAIN journal : journal[i].event = e}) =
             IF e \in Settled THEN 1 ELSE 0
        /\ e \in Settled => e \notin Held
    BY DecidedOnce DEF FateInv
  <2>3. IsLost(e) <=> e.id \in Forgotten
    BY DEF IsLost, Forgotten
  <2> QED BY <2>1, <2>2, <2>3 DEF Held
<1> QED BY <1>1, InitFates, NextFates, PTL DEF Spec

-----------------------------------------------------------------------------
(* The counters.                                                           *)

\* Each decision is counted once, under one of the three outcomes.
Counted == metrics.deduped + metrics.dropped + metrics.total = Len(journal)

LEMMA DistinctItems ==
    ASSUME NEW S, NEW s \in Seq(S), \A i, j \in DOMAIN s : s[i] = s[j] => i = j
    PROVE  IsFiniteSet(ToSet(s)) /\ Cardinality(ToSet(s)) = Len(s)
<1> DEFINE n == Len(s)
<1>1. n \in Nat /\ DOMAIN s = 1..n /\ s = [i \in 1..n |-> s[i]]
  OBVIOUS
<1>2. ToSet(s) = {s[i] : i \in 1..n}
  BY <1>1 DEF ToSet
<1>3. s \in Bijection(1..n, ToSet(s))
  BY <1>1, <1>2 DEF Bijection, Injection, Surjection, IsInjective
<1>4. ExistsBijection(1..n, ToSet(s))
  BY <1>3 DEF ExistsBijection
<1>5. IsFiniteSet(ToSet(s))
  BY <1>1, <1>4, FS_NatBijection
<1> QED BY <1>1, <1>4, <1>5, FS_CountingElements

LEMMA NextCounted == TypeOK /\ Counted /\ [Next]_vars => Counted'
<1> SUFFICES ASSUME TypeOK, Counted, [Next]_vars PROVE Counted'
  OBVIOUS
<1>1. /\ metrics \in [{"batches", "deduped", "dropped", "total"} -> Nat]
      /\ metrics.deduped \in Nat /\ metrics.dropped \in Nat /\ metrics.total \in Nat
      /\ journal \in Seq(Entry) /\ Len(journal) \in Nat
  BY DEF TypeOK, Entry
<1>2. \A x : Len(Append(journal, x)) = Len(journal) + 1
  BY <1>1
<1>3. CASE UNCHANGED <<metrics, journal>>
  BY <1>3 DEF Counted
<1>4. CASE TakeFilters
  BY <1>1, <1>4 DEF TakeFilters, Counted
<1>5. CASE DedupEvent
  <2>1. metrics' = [metrics EXCEPT !.deduped = @ + 1]
    BY <1>5 DEF DedupEvent
  <2>2. /\ metrics'.deduped = metrics.deduped + 1
        /\ metrics'.dropped = metrics.dropped /\ metrics'.total = metrics.total
    BY <1>1, <2>1
  <2>3. Len(journal') = Len(journal) + 1
    BY <1>2, <1>5 DEF DedupEvent
  <2>4. (metrics.deduped + 1) + metrics.dropped + metrics.total = Len(journal) + 1
    BY <1>1 DEF Counted
  <2> QED BY <2>2, <2>3, <2>4 DEF Counted
<1>6. CASE DropEvent
  <2>1. metrics' = [metrics EXCEPT !.dropped = @ + 1]
    BY <1>6 DEF DropEvent
  <2>2. /\ metrics'.dropped = metrics.dropped + 1
        /\ metrics'.deduped = metrics.deduped /\ metrics'.total = metrics.total
    BY <1>1, <2>1
  <2>3. Len(journal') = Len(journal) + 1
    BY <1>2, <1>6 DEF DropEvent
  <2> QED BY <1>1, <2>2, <2>3 DEF Counted
<1>7. CASE RecordEvent
  <2>1. metrics' = [metrics EXCEPT !.total = @ + 1]
    BY <1>7 DEF RecordEvent
  <2>2. /\ metrics'.total = metrics.total + 1
        /\ metrics'.deduped = metrics.deduped /\ metrics'.dropped = metrics.dropped
    BY <1>1, <2>1
  <2>3. Len(journal') = Len(journal) + 1
    BY <1>2, <1>7 DEF RecordEvent
  <2> QED BY <1>1, <2>2, <2>3 DEF Counted
<1> QED
  BY <1>3, <1>4, <1>5, <1>6, <1>7
     DEF Next, TaskStep, RecvLagged, Recv, StoreEvent, PublishEvent, ReplaceFilters, ScriptEnds,
         Tick, taskVars, vars

\* The counters of a scrape add up to the events received and not skipped by
\* lag, less those in hand: none is counted twice, none is left out, whatever
\* mix of outcomes a batch has (process_watch_event's record_* calls).
THEOREM PipelineCountersAccountForEvents == Spec => []CountersAccountForEvents
<1>1. Init => FateInv /\ Counted
  <2> SUFFICES ASSUME Init PROVE Counted
    BY InitFates
  <2> QED BY DEF Init, Counted
<1>2. FateInv /\ Counted /\ [Next]_vars => (FateInv /\ Counted)'
  BY NextFates, NextCounted DEF FateInv, PathInv
<1>3. FateInv /\ Counted => CountersAccountForEvents
  <2> SUFFICES ASSUME FateInv, Counted PROVE CountersAccountForEvents
    OBVIOUS
  <2> DEFINE decided == [i \in DOMAIN journal |-> journal[i].event]
  <2>1. /\ journal \in Seq(Entry) /\ Len(journal) \in Nat /\ DOMAIN journal = 1..Len(journal)
        /\ \A i \in DOMAIN journal : journal[i].event \in Event
    <3>1. journal \in Seq(Entry)
      BY DEF FateInv, PathInv, TypeOK, Entry
    <3>2. \A i \in DOMAIN journal : journal[i] \in Entry
      BY <3>1
    <3> QED BY <3>1, <3>2 DEF Entry
  <2>2. decided \in Seq(Event) /\ Len(decided) = Len(journal) /\ ToSet(decided) = Settled
    BY <2>1 DEF Settled, ToSet
  <2>3. \A i, j \in DOMAIN decided : decided[i] = decided[j] => i = j
    <3> SUFFICES ASSUME NEW i \in DOMAIN journal, NEW j \in DOMAIN journal, i < j,
                        journal[i].event = journal[j].event
                 PROVE  FALSE
      BY <2>1
    <3>1. journal[i].event.id < journal[i].event.id /\ journal[i].event.id \in Int
      BY <2>1 DEF FateInv, PathInv, DecidedInOrder, Event
    <3> QED BY <3>1
  <2>4. IsFiniteSet(Settled) /\ Cardinality(Settled) = Len(journal)
    <3> HIDE DEF decided
    <3> QED BY <2>2, <2>3, DistinctItems
  <2>5. InHand \in Seq(Event) /\ Sorted(InHand)
    <3>1. batch \in Seq(Event) /\ Sorted(batch) /\ (HoldsFilters => batch # <<>>)
      BY DEF FateInv, PathInv, TypeOK, HandInv
    <3> QED BY <3>1, HeadAndTail DEF InHand, HoldsFilters
  <2>6. \A i, j \in DOMAIN InHand : InHand[i] = InHand[j] => i = j
    <3> SUFFICES ASSUME NEW i \in DOMAIN InHand, NEW j \in DOMAIN InHand, i < j,
                        InHand[i] = InHand[j]
                 PROVE  FALSE
      BY <2>5
    <3>1. InHand[i].id < InHand[i].id /\ InHand[i] \in Event
      BY <2>5 DEF Sorted
    <3> QED BY <3>1 DEF Event
  <2>7. IsFiniteSet(Held) /\ Cardinality(Held) = Len(InHand) /\ Len(InHand) \in Nat
    BY <2>5, <2>6, DistinctItems DEF Held
  <2>8. Settled \cap Held = {}
    BY DecidedOnce DEF FateInv
  <2>9. {e \in Received : ~IsLost(e)} = Settled \cup Held
    BY FateFacts DEF FateInv, Fates, IsLost, Forgotten
  <2>10. Cardinality(Settled \cup Held) = Len(journal) + Len(InHand)
    <3>1. Cardinality(Settled \cup Held)
            = Cardinality(Settled) + Cardinality(Held) - Cardinality(Settled \cap Held)
      BY <2>4, <2>7, FS_Union
    <3>2. Cardinality(Settled \cap Held) = 0
      BY <2>8, FS_EmptySet
    <3> QED BY <2>1, <2>4, <2>7, <3>1, <3>2
  <2> QED BY <2>9, <2>10 DEF CountersAccountForEvents, Counted
<1> QED BY <1>1, <1>2, <1>3, PTL DEF Spec

-----------------------------------------------------------------------------
(* The live view and the history.                                          *)

\* of the first i ids of p, those that are not in F
Among(p, F, i) == {k \in 1..i : p[k] \notin F}
Place(p, F, i) == Cardinality(Among(p, F, i))

LEMMA AmongNumber ==
    ASSUME NEW p, NEW F, NEW i \in Nat
    PROVE  /\ IsFiniteSet(Among(p, F, i)) /\ Cardinality(Among(p, F, i)) \in 0..i
           /\ Place(p, F, i) \in Nat
<1>1. IsFiniteSet(1..i) /\ Cardinality(1..i) = i
  BY FS_Interval, SMTT(30)
<1>2. Among(p, F, i) \subseteq 1..i
  BY DEF Among
<1> HIDE DEF Among
<1>3. /\ IsFiniteSet(Among(p, F, i)) /\ Cardinality(Among(p, F, i)) <= i
      /\ Cardinality(Among(p, F, i)) \in Nat
  BY <1>1, <1>2, FS_Subset, FS_CardinalityType
<1> QED BY <1>3 DEF Place

\* One more at the end.
LEMMA AmongAppended ==
    ASSUME NEW S, NEW p \in Seq(S), NEW x \in S, NEW F
    PROVE  /\ \A i \in 0..Len(p) : Among(Append(p, x), F, i) = Among(p, F, i)
           /\ \A i \in 0..Len(p) : Place(Append(p, x), F, i) = Place(p, F, i)
           /\ Place(Append(p, x), F, Len(p) + 1) = Place(p, F, Len(p)) + (IF x \in F THEN 0 ELSE 1)
<1> DEFINE n == Len(p)
           q == Append(p, x)
<1>1. n \in Nat /\ q[n + 1] = x /\ \A k \in 1..n : q[k] = p[k]
  OBVIOUS
<1> HIDE DEF n, q
<1>2. ASSUME NEW i \in 0..n PROVE Among(q, F, i) = Among(p, F, i)
  <2>1. \A k \in 1..i : k \in 1..n
    BY <1>1
  <2> QED BY <1>1, <2>1 DEF Among
<1>3. 1..(n + 1) = 1..n \cup {n + 1} /\ n + 1 \notin 1..n
  BY <1>1
<1>4. /\ Among(q, F, n + 1) = IF x \in F THEN Among(p, F, n) ELSE Among(p, F, n) \cup {n + 1}
      /\ n + 1 \notin Among(p, F, n)
  BY <1>1, <1>3 DEF Among
<1>5. IsFiniteSet(Among(p, F, n)) /\ Cardinality(Among(p, F, n)) \in Nat
  BY <1>1, AmongNumber
<1>6. Cardinality(Among(p, F, n) \cup {n + 1}) = Cardinality(Among(p, F, n)) + 1
  BY <1>4, <1>5, FS_AddElement
<1>7. Cardinality(Among(q, F, n + 1)) = Cardinality(Among(p, F, n)) + (IF x \in F THEN 0 ELSE 1)
  BY <1>4, <1>5, <1>6
<1> QED BY <1>2, <1>7 DEF Place, n, q

SettledIds == {journal[i].event.id : i \in DOMAIN journal}
AtStore == task \in {"storing", "publishing"}

\* The event that is being stored is new to the web clients and, until the store
\* has answered, to the failed ones; each row is where its event was sent.
RowInv ==
    /\ \A i \in DOMAIN published : published[i] \in SettledIds
    /\ failed \subseteq SettledIds
    /\ AtStore => /\ Head(batch).id \in SettledIds
                  /\ \A i \in DOMAIN published : published[i] # Head(batch).id
    /\ task = "storing" => Head(batch).id \notin failed
    /\ \A i \in DOMAIN published : published[i] \notin failed =>
         /\ Place(published, failed, i) \in DOMAIN stored
         /\ stored[Place(published, failed, i)] = published[i]
    /\ IF task = "publishing" /\ Head(batch).id \notin failed
       THEN /\ Len(stored) = Place(published, failed, Len(published)) + 1
            /\ stored[Len(stored)] = Head(batch).id
       ELSE Len(stored) = Place(published, failed, Len(published))

LEMMA RowIsPlace == \A i : RowOf(i) = Place(published, failed, i)
BY DEF RowOf, Place, Among

\* The decision on an event adds its id.
LEMMA SettledGrows ==
    ASSUME TypeOK, NEW o, journal' = Append(journal, Decided(Head(batch), o))
    PROVE  SettledIds' = SettledIds \cup {Head(batch).id}
<1> DEFINE n == Len(journal)
           x == Decided(Head(batch), o)
           s == Append(journal, x)
<1>1. /\ n \in Nat /\ DOMAIN journal = 1..n /\ DOMAIN s = 1..(n + 1)
      /\ s[n + 1] = x /\ \A i \in 1..n : s[i] = journal[i]
  BY DEF TypeOK
<1>2. x.event = Head(batch)
  BY DEF Decided
<1>3. DOMAIN s = DOMAIN journal \cup {n + 1}
  BY <1>1
<1> HIDE DEF x, s, n
<1>4. {s[i].event.id : i \in DOMAIN s} =
        {journal[i].event.id : i \in DOMAIN journal} \cup {x.event.id}
  BY <1>1, <1>3
<1>5. journal' = s
  BY DEF s, x
<1> QED BY <1>2, <1>4, <1>5 DEF SettledIds

\* What is about to be decided was not decided before.
LEMMA HeadIsNew ==
    ASSUME FateInv, task = "deciding"
    PROVE  Head(batch).id \notin SettledIds
<1>1. Head(batch) \in Held
  <2>1. batch \in Seq(Event) /\ batch # <<>>
    BY DEF FateInv, PathInv, TypeOK, HoldsFilters
  <2>2. Head(batch) = batch[1] /\ 1 \in DOMAIN batch
    BY <2>1
  <2> QED BY <2>2 DEF Held, InHand, ToSet
<1> SUFFICES ASSUME NEW i \in DOMAIN journal, journal[i].event.id = Head(batch).id PROVE FALSE
  BY DEF SettledIds
<1>2. journal[i].event \in Settled
  BY DEF Settled
<1>3. journal[i].event = Head(batch)
  BY <1>1, <1>2, FateFacts
<1> QED BY <1>1, <1>2, <1>3, DecidedOnce DEF FateInv

LEMMA StoreKeepsRows ==
    ASSUME TypeOK, RowInv, StoreEvent
    PROVE  RowInv'
<1> DEFINE id == Head(batch).id
           n == Len(published)
<1>1. /\ published \in Seq(1..MaxRaised) /\ stored \in Seq(1..MaxRaised)
      /\ n \in Nat /\ DOMAIN published = 1..n /\ Len(stored) \in Nat
      /\ DOMAIN stored = 1..Len(stored)
  BY DEF TypeOK
<1>2. /\ task = "storing" /\ task' = "publishing" /\ batch' = batch /\ journal' = journal
      /\ published' = published
  BY DEF StoreEvent
<1>3. /\ SettledIds' = SettledIds /\ id \in SettledIds /\ id \notin failed
      /\ \A i \in 1..n : published[i] # id
      /\ Len(stored) = Place(published, failed, n) /\ failed \subseteq SettledIds
      /\ \A i \in 1..n : published[i] \in SettledIds
  BY <1>1, <1>2 DEF RowInv, SettledIds, AtStore
<1>4. \A i \in 1..n : published[i] \notin failed =>
        /\ Place(published, failed, i) \in 1..Len(stored)
        /\ stored[Place(published, failed, i)] = published[i]
  BY <1>1 DEF RowInv
<1>5. CASE stored' = Append(stored, id) /\ failed' = failed
  <2>1. /\ Len(stored') = Len(stored) + 1 /\ stored'[Len(stored')] = id
        /\ DOMAIN stored' = 1..(Len(stored) + 1)
        /\ \A k \in 1..Len(stored) : stored'[k] = stored[k] /\ k \in DOMAIN stored'
    <3>1. id \in 1..MaxRaised
      <4>1. batch \in Seq(Event) /\ batch # <<>>
        BY <1>2 DEF TypeOK, HoldsFilters
      <4>2. Head(batch) \in Event
        BY <4>1
      <4> QED BY <4>2 DEF Event
    <3> QED BY <1>1, <1>5, <3>1
  <2>2. \A i \in 1..n : published[i] \notin failed =>
          /\ Place(published, failed, i) \in DOMAIN stored'
          /\ stored'[Place(published, failed, i)] = published[i]
    BY <1>4, <2>1
  <2> QED BY <1>1, <1>2, <1>3, <1>5, <2>1, <2>2 DEF RowInv, AtStore
<1>6. CASE failed' = failed \cup {id} /\ stored' = stored
  <2>1. ASSUME NEW i \in 0..n PROVE Place(published, failed', i) = Place(published, failed, i)
    <3>1. \A k \in 1..i : k \in 1..n
      BY <1>1
    <3>2. \A k \in 1..i : published[k] # id
      BY <1>3, <3>1
    <3>3. Among(published, failed \cup {id}, i) = Among(published, failed, i)
      BY <3>2 DEF Among
    <3> QED BY <1>6, <3>3 DEF Place
  <2>2. n \in 0..n /\ \A i \in 1..n : i \in 0..n
    BY <1>1
  <2> HIDE DEF n
  <2>3. \A i \in 1..n : published[i] \notin failed' =>
          /\ Place(published, failed', i) \in DOMAIN stored
          /\ stored[Place(published, failed', i)] = published[i]
    BY <1>1, <1>4, <1>6, <2>1, <2>2
  <2>4. Place(published, failed', n) = Place(published, failed, n)
    BY <2>1, <2>2
  <2> QED BY <1>1, <1>2, <1>3, <1>6, <2>3, <2>4 DEF RowInv, AtStore, n
<1> QED BY <1>5, <1>6 DEF StoreEvent

LEMMA PublishKeepsRows ==
    ASSUME TypeOK, RowInv, PublishEvent
    PROVE  RowInv'
<1> DEFINE id == Head(batch).id
           n == Len(published)
           q == Append(published, id)
<1>1. /\ published \in Seq(1..MaxRaised) /\ stored \in Seq(1..MaxRaised)
      /\ n \in Nat /\ DOMAIN published = 1..n /\ Len(stored) \in Nat
      /\ DOMAIN stored = 1..Len(stored)
  BY DEF TypeOK
<1>2. /\ task = "publishing" /\ ~AtStore' /\ journal' = journal /\ published' = q
      /\ stored' = stored /\ failed' = failed
  BY DEF PublishEvent, NextEvent, AtStore
<1>3. id \in 1..MaxRaised
  <2>1. batch \in Seq(Event) /\ batch # <<>>
    BY <1>2 DEF TypeOK, HoldsFilters
  <2>2. Head(batch) \in Event
    BY <2>1
  <2> QED BY <2>2 DEF Event
<1>4. /\ SettledIds' = SettledIds /\ id \in SettledIds /\ failed \subseteq SettledIds
      /\ \A i \in 1..n : published[i] \in SettledIds
  BY <1>1, <1>2 DEF RowInv, SettledIds, AtStore
<1>5. \A i \in 1..n : published[i] \notin failed =>
        /\ Place(published, failed, i) \in 1..Len(stored)
        /\ stored[Place(published, failed, i)] = published[i]
  BY <1>1 DEF RowInv
<1>6. /\ Len(q) = n + 1 /\ DOMAIN q = 1..(n + 1) /\ q[n + 1] = id
      /\ \A i \in 1..n : q[i] = published[i]
  BY <1>1, <1>3
<1>7. /\ \A i \in 0..n : Place(q, failed, i) = Place(published, failed, i)
      /\ Place(q, failed, n + 1) = Place(published, failed, n) + (IF id \in failed THEN 0 ELSE 1)
  <2> PICK x \in 1..MaxRaised : x = id
    BY Zenon, <1>3
  <2>1. published \in Seq(1..MaxRaised)
    BY <1>1
  <2>2. /\ \A i \in 0..Len(published) :
             Among(Append(published, x), failed, i) = Among(published, failed, i)
        /\ \A i \in 0..Len(published) :
             Place(Append(published, x), failed, i) = Place(published, failed, i)
        /\ Place(Append(published, x), failed, Len(published) + 1) =
             Place(published, failed, Len(published)) + (IF x \in failed THEN 0 ELSE 1)
    BY ONLY <2>1, x \in 1..MaxRaised, AmongAppended
  <2> HIDE DEF id
  <2> QED BY Zenon, <2>2
<1> HIDE DEF q, n, id
<1>8. \A i \in 1..n : i \in 0..n
  BY <1>1
<1>9. \A i \in 1..n : Place(q, failed, i) = Place(published, failed, i)
  BY <1>7, <1>8
<1>10. Place(published, failed, n) \in Nat
  BY <1>1, AmongNumber
<1>11. /\ Len(stored) = Place(q, failed, n + 1)
       /\ id \notin failed => stored[Len(stored)] = id /\ Len(stored) \in DOMAIN stored
  <2>1. CASE id \in failed
    BY <1>2, <1>7, <1>10, <2>1 DEF RowInv, n, id
  <2>2. CASE id \notin failed
    <3>1. Len(stored) = Place(published, failed, n) + 1 /\ stored[Len(stored)] = id
      BY <1>2, <2>2 DEF RowInv, n, id
    <3> QED BY <1>1, <1>7, <1>10, <2>2, <3>1
  <2> QED BY <2>1, <2>2
<1>12. \A i \in 1..(n + 1) : i \in 1..n \/ i = n + 1
  BY <1>1
<1>13. ASSUME NEW i \in 1..(n + 1)
       PROVE  /\ q[i] \in SettledIds
              /\ q[i] \notin failed => /\ Place(q, failed, i) \in DOMAIN stored
                                       /\ stored[Place(q, failed, i)] = q[i]
  <2>1. CASE i \in 1..n
    BY <1>1, <1>4, <1>5, <1>6, <1>9, <2>1
  <2>2. CASE i = n + 1
    <3>1. q[i] = id /\ Place(q, failed, i) = Len(stored)
      BY <1>6, <1>11, <2>2
    <3> QED BY Zenon, <1>4, <1>11, <3>1
  <2> QED BY <1>12, <2>1, <2>2
<1>14. task' # "publishing" /\ task' # "storing"
  BY <1>2 DEF AtStore
<1>15. published' = q /\ DOMAIN published' = 1..(n + 1) /\ Len(published') = n + 1
  BY <1>2, <1>6
<1> QED BY <1>2, <1>4, <1>11, <1>13, <1>14, <1>15 DEF RowInv

LEMMA NextRows == FateInv /\ RowInv /\ [Next]_vars => RowInv'
<1> SUFFICES ASSUME FateInv, RowInv, [Next]_vars PROVE RowInv'
  OBVIOUS
<1>0. TypeOK
  BY DEF FateInv, PathInv
<1>1. CASE UNCHANGED <<task, batch, journal, stored, failed, published>>
  BY <1>1 DEF RowInv, SettledIds, AtStore
<1>2. ASSUME ~AtStore, ~AtStore', SettledIds \subseteq SettledIds',
             UNCHANGED <<stored, failed, published>>
      PROVE  RowInv'
  BY <1>2 DEF RowInv, AtStore
<1>3. CASE Recv \/ TakeFilters
  <2>1. SettledIds' = SettledIds
    BY <1>3 DEF Recv, TakeFilters, SettledIds
  <2>2. ~AtStore
    BY <1>3 DEF Recv, TakeFilters, AtStore
  <2>3. UNCHANGED <<stored, failed, published>> /\ (~AtStore' \/ UNCHANGED <<task, batch, journal>>)
    BY <1>3 DEF Recv, TakeFilters, AtStore
  <2> QED BY <1>1, <1>2, <2>1, <2>2, <2>3
<1>4. CASE DedupEvent \/ DropEvent
  <2>1. \E o : journal' = Append(journal, Decided(Head(batch), o))
    BY <1>4 DEF DedupEvent, DropEvent
  <2>2. SettledIds \subseteq SettledIds'
    BY <1>0, <2>1, SettledGrows
  <2>3. ~AtStore /\ ~AtStore' /\ UNCHANGED <<stored, failed, published>>
    BY <1>4 DEF DedupEvent, DropEvent, NextEvent, AtStore
  <2> QED BY <1>2, <2>2, <2>3
<1>5. CASE RecordEvent
  <2>1. /\ task = "deciding" /\ task' = "storing" /\ batch' = batch
        /\ journal' = Append(journal, Decided(Head(batch), "recorded"))
        /\ UNCHANGED <<stored, failed, published>>
    BY <1>5 DEF RecordEvent
  <2>2. SettledIds' = SettledIds \cup {Head(batch).id}
    BY <1>0, <2>1, SettledGrows
  <2>3. Head(batch).id \notin SettledIds
    BY <2>1, HeadIsNew
  <2> QED BY <2>1, <2>2, <2>3 DEF RowInv, AtStore
<1>6. CASE StoreEvent \/ PublishEvent
  BY <1>0, <1>6, StoreKeepsRows, PublishKeepsRows
<1>7. CASE RecvLagged \/ ReplaceFilters \/ ScriptEnds \/ Tick
           \/ (WatcherNext /\ UNCHANGED taskVars) \/ UNCHANGED vars
  <2>1. UNCHANGED <<task, batch, journal, stored, failed, published>>
    BY <1>7 DEF RecvLagged, ReplaceFilters, ScriptEnds, Tick, taskVars, vars
  <2> QED BY <1>1, <2>1
<1> QED BY <1>3, <1>4, <1>5, <1>6, <1>7 DEF Next, TaskStep

\* The n-th event the web clients are sent, of those that could be stored, is the
\* n-th row of the history, and the live view is behind it by no more than the
\* one event being published, whichever inserts fail and whatever is reloaded
\* (process_watch_event: insert().await, then web_tx.send).
THEOREM PipelineLiveFollowsHistory == Spec => []LiveFollowsHistory
<1>1. Init => RowInv
  <2> SUFFICES ASSUME Init PROVE RowInv
    OBVIOUS
  <2>1. /\ published = <<>> /\ stored = <<>> /\ failed = {} /\ task = "idle"
        /\ DOMAIN published = {} /\ Len(published) = 0 /\ Len(stored) = 0
    BY DEF Init
  <2>2. Place(published, failed, 0) = 0
    <3>1. Among(published, failed, 0) = {}
      BY DEF Among
    <3> QED BY <3>1, FS_EmptySet DEF Place
  <2> QED BY <2>1, <2>2 DEF RowInv, AtStore
<1>2. FateInv /\ RowInv => LiveFollowsHistory
  <2> SUFFICES ASSUME FateInv, RowInv PROVE LiveFollowsHistory
    OBVIOUS
  <2>1. published \in Seq(1..MaxRaised)
    BY DEF FateInv, PathInv, TypeOK
  <2>2. Place(published, failed, Len(published)) \in Nat
    BY <2>1, AmongNumber
  <2> PICK n \in Nat : n = Place(published, failed, Len(published))
    BY Zenon, <2>2
  <2>3. Len(stored) = n \/ Len(stored) = n + 1
    BY DEF RowInv
  <2>4. Len(stored) - Place(published, failed, Len(published)) \in {0, 1}
    BY <2>3
  <2> QED BY <2>4, RowIsPlace DEF RowInv, LiveFollowsHistory
<1> QED BY <1>1, <1>2, InitFates, NextFates, NextRows, PTL DEF Spec
=============================================================================
