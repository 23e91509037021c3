------------------------- MODULE EventStoreProofs --------------------------
(***************************************************************************)
(* The schema of the event store, for any clients, rows and queues, any    *)
(* number of starts and any point at which the process dies: commands are  *)
(* executed on the current schema only, only a migration ends a worker of  *)
(* itself, and an insert is told as it ended.  What the comparison of      *)
(* timestamps as texts comes to, and what a client is shown that browses   *)
(* from page to page.  Last the types, and that the callers that wait are  *)
(* the ones a store has in its queue.                                      *)
(***************************************************************************)
EXTENDS EventStore, FiniteSetTheorems, TLAPS

\* What the statements of schema.rs leave behind wherever they are cut off: a
\* version 1 table is recorded as such, version 2 is recorded of such a table
\* only, and a worker records or confirms a version once it has the table.
SchemaInv ==
    /\ columns \in {0, 1, 2} /\ versions \subseteq {1, 2}
    /\ columns = 0 => versions = {}
    /\ columns = 1 => versions = {1}
    /\ worker \in [Store -> WorkerState]
    /\ \A s \in Store :
        /\ worker[s] \notin {"closed", "create", "dead"} => columns # 0
        /\ worker[s] \in {"record", "update"} => columns = 2
        /\ worker[s] = "running" => columns = 2 /\ 2 \in versions

\* MAX(version), or 0
LEMMA VersionFact ==
    ASSUME versions \subseteq {1, 2}
    PROVE  /\ Version = 0 <=> versions = {}
           /\ Version = 1 <=> versions = {1}
           /\ Version = 2 <=> 2 \in versions
           /\ Version \in {0, 1, 2}
<1> DEFINE V == versions \cup {0}
<1>1. \E m \in V : \A v \in V : m >= v
  <2>1. CASE 2 \in versions
    BY <2>1
  <2>2. CASE 2 \notin versions /\ 1 \in versions
    BY <2>2
  <2>3. CASE versions = {}
    BY <2>3
  <2> QED BY <2>1, <2>2, <2>3
<1>2. Version \in V /\ \A v \in V : Version >= v
  BY <1>1 DEF Version, Max
<1>3. Version \in {0, 1, 2} /\ (Version # 0 => Version \in versions)
  BY <1>2
<1>4. versions = {} \/ versions = {1} \/ 2 \in versions
  <2>1. ASSUME 2 \notin versions, versions # {} PROVE versions = {1}
    BY <2>1
  <2> QED BY <2>1
<1>5. /\ versions = {} => Version = 0
      /\ versions = {1} => Version = 1
      /\ 2 \in versions => Version = 2
  BY <1>2, <1>3
<1> HIDE DEF V
<1> QED BY <1>3, <1>4, <1>5

LEMMA InitSchemaInv == Init => SchemaInv
<1> SUFFICES ASSUME Init PROVE SchemaInv
  OBVIOUS
<1>1. first \in {0, 1, 2}
  BY VersionAssumption DEF Init
<1>2. worker \in [Store -> WorkerState] /\ \A s \in Store : worker[s] = "closed"
  BY DEF Init, WorkerState
<1> QED BY <1>1, <1>2 DEF Init, SchemaInv

LEMMA StepSchemaInv == SchemaInv /\ [Next]_vars => SchemaInv'
<1> SUFFICES ASSUME SchemaInv, [Next]_vars PROVE SchemaInv'
  OBVIOUS
<1> USE DEF SchemaInv
<1>1. CASE Open
  <2>1. \A s \in Store : worker'[s] = "create"
    BY <1>1 DEF Open
  <2>2. worker' \in [Store -> WorkerState]
    BY <1>1 DEF Open, WorkerState
  <2> QED BY <1>1, <2>1, <2>2 DEF Open, database
<1>2. CASE Die
  <2>1. \A s \in Store : worker'[s] = "closed"
    BY <1>2 DEF Die
  <2>2. worker' \in [Store -> WorkerState]
    BY <1>2 DEF Die, WorkerState
  <2> QED BY <1>2, <2>1, <2>2 DEF Die, database
<1>3. ASSUME NEW s \in Store, Prepare(s) PROVE SchemaInv'
  <2>1. CASE CreateTables(s)
    BY <2>1 DEF CreateTables, Moves, WorkerState
  <2>2. CASE ReadVersion(s)
    <3>1. CASE Version = 0
      BY <2>2, <3>1, VersionFact DEF ReadVersion, Moves, WorkerState, database
    <3>2. CASE Version = 1
      BY <2>2, <3>2, VersionFact DEF ReadVersion, Moves, WorkerState, database
    <3>3. CASE Version = 2
      BY <2>2, <3>3, VersionFact DEF ReadVersion, Moves, WorkerState, database
    <3> QED BY <3>1, <3>2, <3>3, VersionFact
  <2>3. CASE RecordVersion(s)
    BY <2>3 DEF RecordVersion, Moves, WorkerState
  <2>4. CASE AlterTable(s)
    BY <2>4 DEF AlterTable, Moves, WorkerState
  <2>5. CASE UpdateVersion(s)
    BY <2>5 DEF UpdateVersion, Moves, WorkerState
  <2>6. CASE AlterFails(s) \/ PrepareFails(s)
    BY <2>6 DEF AlterFails, PrepareFails, ThreadEnds, WorkerState, database
  <2> QED BY <1>3, <2>1, <2>2, <2>3, <2>4, <2>5, <2>6 DEF Prepare
<1>4. ASSUME UNCHANGED <<columns, versions, worker>> PROVE SchemaInv'
  BY <1>4
<1>5. ASSUME NEW s \in Store, Execute(s) PROVE UNCHANGED <<columns, versions, worker>>
  BY <1>5 DEF Execute, AnswerNobody, DoInsert, DoCount, DoQuery, Answer, database
<1>6. ASSUME NEW c \in Caller, Send(c) PROVE UNCHANGED <<columns, versions, worker>>
  BY <1>6 DEF Send, database
<1>7. ASSUME TaskInserts \/ TaskGoesOn \/ UNCHANGED vars
      PROVE  UNCHANGED <<columns, versions, worker>>
  BY <1>7 DEF TaskInserts, TaskGoesOn, vars, database
<1>8. ASSUME NEW c \in Client,
             RequestPage(c) \/ HandlerCounted(c) \/ HandlerAnswers(c) \/ Abandon(c)
      PROVE  UNCHANGED <<columns, versions, worker>>
  BY <1>8 DEF RequestPage, HandlerCounted, HandlerAnswers, Abandon, database
<1> QED BY <1>1, <1>2, <1>3, <1>4, <1>5, <1>6, <1>7, <1>8 DEF Next

\* A worker that executes commands does so on a table with the current columns
\* and with the current version recorded, wherever earlier starts were cut off.
THEOREM StoreRunsOnCurrentSchema == Spec => []RunningOnCurrentSchema
<1>1. SchemaInv => RunningOnCurrentSchema
  BY VersionFact DEF SchemaInv, RunningOnCurrentSchema
<1> QED BY <1>1, InitSchemaInv, StepSchemaInv, PTL DEF Spec

\* Who may be at which statement, from the version found at first: the column is
\* there before the version is recorded only if a worker is between the two
\* statements or was cut off there, and a worker that is to add the column to a
\* database of version 2 is too late because the other one has done it.
MigrationInv ==
    /\ versions \in IF first = 1 THEN {{1}, {2}} ELSE {{}, {2}}
    /\ \A s \in Store :
        /\ worker[s] = "record" => first # 1
        /\ worker[s] \in {"alter", "update"} => first = 1
        /\ worker[s] = "alter" /\ versions = {2} => \E t \in Store : worker[t] = "running"
    /\ columns = 2 /\ versions = {1} => interrupted \/ \E t \in Store : worker[t] = "update"

KillInv == SchemaInv /\ MigrationInv /\ OnlyMigrationKills

LEMMA InitKillInv == Init => KillInv
<1> SUFFICES ASSUME Init PROVE KillInv
  OBVIOUS
<1>1. first \in {0, 1, 2} /\ SchemaInv
  BY VersionAssumption, InitSchemaInv DEF Init
<1> QED BY <1>1 DEF Init, KillInv, MigrationInv, OnlyMigrationKills

\* A step from one state of a worker that lives to another.
LEMMA MovesFact ==
    ASSUME SchemaInv, NEW s \in Store, NEW from, NEW to, Moves(s, from, to)
    PROVE  worker[s] = from /\ worker'[s] = to /\ \A t \in Store \ {s} : worker'[t] = worker[t]
BY DEF Moves, SchemaInv

LEMMA StepKillInv == KillInv /\ [Next]_vars => KillInv'
<1> SUFFICES ASSUME KillInv, [Next]_vars PROVE MigrationInv' /\ OnlyMigrationKills'
  BY StepSchemaInv DEF KillInv
<1> USE DEF MigrationInv
<1>1. SchemaInv /\ MigrationInv /\ OnlyMigrationKills
  BY DEF KillInv
<1>2. CASE Open
  <2>1. \A s \in Store : worker[s] = "closed" /\ worker'[s] = "create"
    BY <1>2 DEF Open
  <2>2. UNCHANGED <<columns, versions, first, interrupted>>
    BY <1>2 DEF Open, database, history
  <2> QED BY <1>1, <2>1, <2>2 DEF OnlyMigrationKills
<1>3. CASE Die
  <2>1. \A s \in Store : worker'[s] = "closed"
    BY <1>3 DEF Die
  <2>2. /\ UNCHANGED <<columns, versions, first>>
        /\ interrupted' = (interrupted \/ \E s \in Store : worker[s] = "update")
    BY <1>3 DEF Die, database
  <2> QED BY <1>1, <2>1, <2>2 DEF OnlyMigrationKills
<1>4. ASSUME NEW s \in Store, NEW from, NEW to, Moves(s, from, to), to # "dead",
             UNCHANGED <<first, fault, interrupted>>
      PROVE  OnlyMigrationKills'
  <2>1. worker'[s] = to /\ \A t \in Store \ {s} : worker'[t] = worker[t]
    BY <1>1, <1>4, MovesFact
  <2> QED BY <1>1, <1>4, <2>1 DEF OnlyMigrationKills
<1>5. ASSUME NEW s \in Store, Prepare(s) PROVE MigrationInv' /\ OnlyMigrationKills'
  <2>1. CASE CreateTables(s)
    <3>1. /\ worker[s] = "create" /\ worker'[s] = "version"
          /\ \A t \in Store \ {s} : worker'[t] = worker[t]
          /\ columns' = (IF columns = 0 THEN 2 ELSE columns)
          /\ UNCHANGED <<versions, first, fault, interrupted>>
      BY <1>1, <2>1, MovesFact DEF CreateTables, Others, history
    <3>2. columns = 0 => versions = {}
      BY <1>1 DEF SchemaInv
    <3>3. OnlyMigrationKills'
      BY <1>4, <2>1, <3>1 DEF CreateTables
    <3>4. MigrationInv'
      BY <1>1, <3>1, <3>2
    <3> QED BY <3>3, <3>4
  <2>2. CASE ReadVersion(s)
    <3> DEFINE to == CASE Version = 0 -> "record" [] Version = 1 -> "alter" [] OTHER -> "running"
    <3>1. Moves(s, "version", to) /\ UNCHANGED <<columns, versions, first, fault, interrupted>>
      BY <2>2 DEF ReadVersion, database, Others, history
    <3>2. \/ to = "record" /\ versions = {}
          \/ to = "alter" /\ versions = {1}
          \/ to = "running" /\ 2 \in versions
      BY <1>1, VersionFact DEF SchemaInv
    <3> HIDE DEF to
    <3>3. /\ worker[s] = "version" /\ worker'[s] = to
          /\ \A t \in Store \ {s} : worker'[t] = worker[t]
      BY <1>1, <3>1, MovesFact
    <3>4. OnlyMigrationKills'
      BY <1>4, <3>1, <3>2
    <3>5. MigrationInv'
      BY <1>1, <3>1, <3>2, <3>3
    <3> QED BY <3>4, <3>5
  <2>3. CASE RecordVersion(s)
    <3>1. /\ worker[s] = "record" /\ worker'[s] = "running"
          /\ \A t \in Store \ {s} : worker'[t] = worker[t]
          /\ versions' = versions \cup {2}
          /\ UNCHANGED <<columns, first, fault, interrupted>>
      BY <1>1, <2>3, MovesFact DEF RecordVersion, Others, history
    <3>2. OnlyMigrationKills'
      BY <1>4, <2>3, <3>1 DEF RecordVersion
    <3>3. first # 1 /\ versions' = {2}
      BY <1>1, <3>1
    <3>4. MigrationInv'
      BY <1>1, <3>1, <3>3
    <3> QED BY <3>2, <3>4
  <2>4. CASE AlterTable(s)
    <3>1. /\ worker[s] = "alter" /\ worker'[s] = "update"
          /\ \A t \in Store \ {s} : worker'[t] = worker[t]
          /\ UNCHANGED <<versions, first, fault, interrupted>>
      BY <1>1, <2>4, MovesFact DEF AlterTable, Others, history
    <3>2. OnlyMigrationKills'
      BY <1>4, <2>4, <3>1 DEF AlterTable
    <3>3. MigrationInv'
      BY <1>1, <3>1
    <3> QED BY <3>2, <3>3
  <2>5. CASE UpdateVersion(s)
    <3>1. /\ worker[s] = "update" /\ worker'[s] = "running"
          /\ \A t \in Store \ {s} : worker'[t] = worker[t]
          /\ versions' = {2} /\ UNCHANGED <<columns, first, fault, interrupted>>
      BY <1>1, <2>5, MovesFact DEF UpdateVersion, Others, history
    <3>2. OnlyMigrationKills'
      BY <1>4, <2>5, <3>1 DEF UpdateVersion
    <3>3. MigrationInv'
      BY <1>1, <3>1
    <3> QED BY <3>2, <3>3
  <2>6. ASSUME ThreadEnds(s)
        PROVE  worker'[s] = "dead" /\ \A t \in Store \ {s} : worker'[t] = worker[t]
    BY <1>1, <2>6 DEF ThreadEnds, SchemaInv
  <2>7. CASE AlterFails(s)
    <3>1. /\ worker[s] = "alter" /\ columns # 1
          /\ UNCHANGED <<columns, versions, first, fault, interrupted>>
      BY <2>7 DEF AlterFails, database, history
    <3>2. columns = 2 /\ first = 1 /\ versions \in {{1}, {2}}
      BY <1>1, <3>1 DEF SchemaInv
    <3>3. interrupted \/ \E t \in Store : worker[t] \in {"update", "running"}
      BY <1>1, <3>1, <3>2
    <3>4. \A t \in Store : worker[t] \in {"update", "running"} => t # s /\ worker'[t] = worker[t]
      BY <2>6, <2>7, <3>1 DEF AlterFails
    <3>5. OnlyMigrationKills'
      BY <3>1, <3>2, <3>3, <3>4 DEF OnlyMigrationKills
    <3>6. MigrationInv'
      BY <1>1, <2>6, <2>7, <3>1, <3>4 DEF AlterFails
    <3> QED BY <3>5, <3>6
  <2>8. CASE PrepareFails(s)
    <3>1. /\ worker[s] \in {"create", "version", "record", "alter", "update"} /\ fault'
          /\ interrupted' = (interrupted \/ worker[s] = "update")
          /\ UNCHANGED <<columns, versions, first>>
      BY <2>8 DEF PrepareFails, database
    <3>2. OnlyMigrationKills'
      BY <3>1 DEF OnlyMigrationKills
    <3>3. MigrationInv'
      BY <1>1, <2>6, <2>8, <3>1 DEF PrepareFails
    <3> QED BY <3>2, <3>3
  <2> QED BY <1>5, <2>1, <2>2, <2>3, <2>4, <2>5, <2>7, <2>8 DEF Prepare
<1>6. ASSUME UNCHANGED <<columns, versions, worker, first, fault, interrupted>>
      PROVE  MigrationInv' /\ OnlyMigrationKills'
  BY <1>1, <1>6 DEF OnlyMigrationKills
<1>7. ASSUME NEW s \in Store, Execute(s)
      PROVE  UNCHANGED <<columns, versions, worker, first, fault, interrupted>>
  BY <1>7 DEF Execute, AnswerNobody, DoInsert, DoCount, DoQuery, Answer, database, history
<1>8. ASSUME NEW c \in Caller, Send(c)
      PROVE  UNCHANGED <<columns, versions, worker, first, fault, interrupted>>
  BY <1>8 DEF Send, database, history
<1>9. ASSUME TaskInserts \/ TaskGoesOn \/ UNCHANGED vars
      PROVE  UNCHANGED <<columns, versions, worker, first, fault, interrupted>>
  BY <1>9 DEF TaskInserts, TaskGoesOn, vars, database, history
<1>10. ASSUME NEW c \in Client,
              RequestPage(c) \/ HandlerCounted(c) \/ HandlerAnswers(c) \/ Abandon(c)
       PROVE  UNCHANGED <<columns, versions, worker, first, fault, interrupted>>
  BY <1>10 DEF RequestPage, HandlerCounted, HandlerAnswers, Abandon, database, history
<1> QED BY <1>2, <1>3, <1>5, <1>6, <1>7, <1>8, <1>9, <1>10 DEF Next

\* As long as the disk does not fail, only the migration of a version 1 database
\* ends a worker, and unless an earlier migration was cut off half-way the other
\* worker is left (schema::initialize), for any number of starts and deaths.
THEOREM StoreOnlyMigrationKills == Spec => []OnlyMigrationKills
<1>1. KillInv => OnlyMigrationKills
  BY DEF KillInv
<1> QED BY <1>1, InitKillInv, StepKillInv, PTL DEF Spec

-----------------------------------------------------------------------------
(* Timestamps compared as texts.                                           *)

Seconds == Nat

\* a sequence of numbers
IsText(s) == DOMAIN s \subseteq Nat \ {0} /\ \A i \in DOMAIN s : s[i] \in Int

\* the places before k, of the first five
AgreeBefore(s, t, k) == /\ k > 1 => s[1] = t[1]
                        /\ k > 2 => s[2] = t[2]
                        /\ k > 3 => s[3] = t[3]
                        /\ k > 4 => s[4] = t[4]

\* Texts differ at one place first, and that place decides.
LEMMA FirstDifference ==
    ASSUME NEW s, NEW t, IsText(s), IsText(t), NEW k \in 1..5, k \in DOMAIN s \cap DOMAIN t,
           NEW a \in Int, NEW b \in Int, s[k] = a, t[k] = b, a < b, AgreeBefore(s, t, k)
    PROVE  Less(s, t) /\ ~Less(t, s) /\ AtMost(s, t) /\ ~AtMost(t, s)
<1>1. \A j \in 1..(k - 1) : s[j] = t[j] /\ t[j] = s[j]
  <2>1. \A j \in 1..(k - 1) : j \in {1, 2, 3, 4} /\ k > j
    OBVIOUS
  <2> QED BY <2>1 DEF AgreeBefore
<1>2. Less(s, t)
  BY <1>1 DEF Less
<1>3. ASSUME Less(t, s) PROVE FALSE
  <2>1. PICK i \in DOMAIN t \cap DOMAIN s : t[i] < s[i] /\ \A j \in 1..(i - 1) : t[j] = s[j]
    BY <1>3 DEF Less
  <2>2. i \in Nat \ {0} /\ t[i] \in Int /\ s[i] \in Int
    BY DEF IsText
  <2>3. i # k
    BY <2>1
  <2>4. ASSUME i < k PROVE FALSE
    <3>1. i \in 1..(k - 1)
      BY <2>2, <2>4
    <3>2. t[i] = s[i]
      BY <1>1, <3>1
    <3> QED BY <2>1, <2>2, <3>2
  <2>5. ASSUME k < i PROVE FALSE
    <3>1. k \in 1..(i - 1)
      BY <2>2, <2>5
    <3>2. t[k] = s[k]
      BY <2>1, <3>1
    <3> QED BY <3>2
  <2> QED BY <2>2, <2>3, <2>4, <2>5
<1>4. s # t
  OBVIOUS
<1> QED BY <1>2, <1>3, <1>4 DEF AtMost

TimeIs(t, sec, ms, us, ns) ==
    /\ sec \in Seconds /\ ms \in Group /\ us \in Group /\ ns \in Group
    /\ t.sec = sec /\ t.ms = ms /\ t.us = us /\ t.ns = ns

\* what stands at the places of an event's text
Written(s, sec, ms, us, ns) ==
    /\ IsText(s) /\ {1, 2} \subseteq DOMAIN s /\ s[1] = sec
    /\ ms = 0 /\ us = 0 /\ ns = 0 => s[2] = 0
    /\ ~(ms = 0 /\ us = 0 /\ ns = 0) => {3, 4} \subseteq DOMAIN s /\ s[2] = 1 /\ s[3] = 2 + ms
    /\ ms # 0 /\ us = 0 /\ ns = 0 => s[4] = 0
    /\ ~(us = 0 /\ ns = 0) => 5 \in DOMAIN s /\ s[4] = 2 + us
    /\ us # 0 /\ ns = 0 => s[5] = 0
    /\ ns # 0 => s[5] = 2 + ns

\* The text of an event: the fraction only if it is not zero, in up to three groups.
LEMMA TextForm ==
    ASSUME NEW t, NEW sec, NEW ms, NEW us, NEW ns, TimeIs(t, sec, ms, us, ns)
    PROVE  Written(Text(t), sec, ms, us, ns)
<1> /\ sec \in Seconds /\ ms \in Group /\ us \in Group /\ ns \in Group
    /\ t.sec = sec /\ t.ms = ms /\ t.us = us /\ t.ns = ns
  BY DEF TimeIs
<1> USE DEF Group, Seconds
<1> DEFINE m == 2 + ms
           u == 2 + us
           n == 2 + ns
<1>1. m \in Int /\ u \in Int /\ n \in Int
  OBVIOUS
<1>2. CASE ns # 0
  <2>1. Text(t) = <<sec, 1, m, u, n, 0>>
    BY <1>2 DEF Text, Dot, Digits, Plus
  <2>2. DOMAIN Text(t) = 1..6
    BY <2>1
  <2>3. IsText(Text(t))
    <3> HIDE DEF m, u, n
    <3> QED BY <1>1, <2>1, <2>2 DEF IsText
  <2> QED BY <1>2, <2>1, <2>2, <2>3 DEF Written
<1>3. CASE ns = 0 /\ us # 0
  <2>1. Text(t) = <<sec, 1, m, u, 0>>
    BY <1>3 DEF Text, Dot, Digits, Plus
  <2>2. DOMAIN Text(t) = 1..5
    BY <2>1
  <2>3. IsText(Text(t))
    <3> HIDE DEF m, u, n
    <3> QED BY <1>1, <2>1, <2>2 DEF IsText
  <2> QED BY <1>3, <2>1, <2>2, <2>3 DEF Written
<1>4. CASE ns = 0 /\ us = 0 /\ ms # 0
  <2>1. Text(t) = <<sec, 1, m, 0>>
    BY <1>4 DEF Text, Dot, Digits, Plus
  <2>2. DOMAIN Text(t) = 1..4
    BY <2>1
  <2>3. IsText(Text(t))
    <3> HIDE DEF m, u, n
    <3> QED BY <1>1, <2>1, <2>2 DEF IsText
  <2> QED BY <1>4, <2>1, <2>2, <2>3 DEF Written
<1>5. CASE ns = 0 /\ us = 0 /\ ms = 0
  <2>1. Text(t) = <<sec, 0>>
    BY <1>5 DEF Text, Dot, Digits, Plus
  <2>2. DOMAIN Text(t) = 1..2
    BY <2>1
  <2>3. IsText(Text(t))
    BY <2>1, <2>2 DEF IsText
  <2> QED BY <1>5, <2>1, <2>2, <2>3 DEF Written
<1> QED BY <1>2, <1>3, <1>4, <1>5

BoundIs(b, sec, ms) == sec \in Seconds /\ ms \in Group /\ b.sec = sec /\ b.ms = ms

\* and of a bound's
BoundWritten(u, sec, ms) ==
    /\ IsText(u) /\ {1, 2, 3, 4} \subseteq DOMAIN u
    /\ u[1] = sec /\ u[2] = 1 /\ u[3] = 2 + ms /\ u[4] = 1002

LEMMA BoundForm ==
    ASSUME NEW b, NEW sec, NEW ms, BoundIs(b, sec, ms)
    PROVE  BoundWritten(BoundText(b), sec, ms)
<1> sec \in Seconds /\ ms \in Group /\ b.sec = sec /\ b.ms = ms
  BY DEF BoundIs
<1> USE DEF Group, Seconds
<1> DEFINE m == 2 + ms
<1>1. BoundText(b) = <<sec, 1, m, 1002>>
  BY DEF BoundText, Dot, Digits, Zulu
<1>2. DOMAIN BoundText(b) = 1..4 /\ m \in Int
  BY <1>1
<1>3. IsText(BoundText(b))
  <2> HIDE DEF m
  <2> QED BY <1>1, <1>2 DEF IsText
<1> QED BY <1>1, <1>2, <1>3 DEF BoundWritten

\* The first place at which a row's text and a bound's differ, in every form.
LEMMA PeriodByNumbers ==
    ASSUME NEW s, NEW u, NEW sec \in Seconds, NEW ms \in Group, NEW us \in Group, NEW ns \in Group,
           NEW bsec \in Seconds, NEW bms \in Group,
           Written(s, sec, ms, us, ns), BoundWritten(u, bsec, bms)
    PROVE  IF sec > bsec \/ (sec = bsec /\ ms > bms) THEN AtMost(u, s) /\ ~AtMost(s, u)
           ELSE AtMost(s, u) /\ ~AtMost(u, s)
<1> USE DEF Group, Seconds
<1>3. /\ IsText(s) /\ {1, 2} \subseteq DOMAIN s /\ s[1] = sec
      /\ ms = 0 /\ us = 0 /\ ns = 0 => s[2] = 0
      /\ ~(ms = 0 /\ us = 0 /\ ns = 0) => {3, 4} \subseteq DOMAIN s /\ s[2] = 1 /\ s[3] = 2 + ms
      /\ ms # 0 /\ us = 0 /\ ns = 0 => s[4] = 0
      /\ ~(us = 0 /\ ns = 0) => s[4] = 2 + us
  BY DEF Written
<1>4. /\ IsText(u) /\ {1, 2, 3, 4} \subseteq DOMAIN u
      /\ u[1] = bsec /\ u[2] = 1 /\ u[3] = 2 + bms /\ u[4] = 1002
  BY DEF BoundWritten
<1>6. CASE sec # bsec
  <2>1. AgreeBefore(s, u, 1) /\ AgreeBefore(u, s, 1) /\ 1 \in 1..5
    BY DEF AgreeBefore
  <2>2. CASE sec < bsec
    <3>1. AtMost(s, u) /\ ~AtMost(u, s)
      BY <1>3, <1>4, <2>1, <2>2, FirstDifference
    <3> QED BY <2>2, <3>1
  <2>3. CASE bsec < sec
    <3>1. AtMost(u, s) /\ ~AtMost(s, u)
      BY <1>3, <1>4, <2>1, <2>3, FirstDifference
    <3> QED BY <2>3, <3>1
  <2> QED BY <1>6, <2>2, <2>3
<1>7. CASE sec = bsec /\ ms = 0 /\ us = 0 /\ ns = 0
  <2>1. s[2] = 0 /\ AgreeBefore(s, u, 2) /\ 2 \in 1..5 /\ 0 < 1
    BY <1>3, <1>4, <1>7 DEF AgreeBefore
  <2>2. AtMost(s, u) /\ ~AtMost(u, s)
    BY <1>3, <1>4, <2>1, FirstDifference
  <2> QED BY <1>7, <2>2
<1>8. CASE sec = bsec /\ ~(ms = 0 /\ us = 0 /\ ns = 0)
  <2>1. {3, 4} \subseteq DOMAIN s /\ s[2] = 1 /\ s[3] = 2 + ms
    BY <1>3, <1>8
  <2>2. AgreeBefore(s, u, 3) /\ AgreeBefore(u, s, 3) /\ 3 \in 1..5
    BY <1>3, <1>4, <1>8, <2>1 DEF AgreeBefore
  <2>3. CASE ms < bms
    <3>1. 2 + ms < 2 + bms /\ 2 + ms \in Int /\ 2 + bms \in Int
      BY <2>3
    <3>2. AtMost(s, u) /\ ~AtMost(u, s)
      BY <1>3, <1>4, <2>1, <2>2, <3>1, FirstDifference
    <3> QED BY <1>8, <2>3, <3>2
  <2>4. CASE bms < ms
    <3>1. 2 + bms < 2 + ms /\ 2 + ms \in Int /\ 2 + bms \in Int
      BY <2>4
    <3>2. AtMost(u, s) /\ ~AtMost(s, u)
      BY <1>3, <1>4, <2>1, <2>2, <3>1, FirstDifference
    <3> QED BY <1>8, <2>4, <3>2
  <2>5. CASE ms = bms
    <3>1. AgreeBefore(s, u, 4) /\ 4 \in 1..5
      BY <1>3, <1>4, <1>8, <2>1, <2>5 DEF AgreeBefore
    <3>2. PICK c \in Int : s[4] = c /\ c < 1002
      <4>1. CASE us = 0 /\ ns = 0
        BY <1>3, <1>8, <4>1
      <4>2. CASE ~(us = 0 /\ ns = 0)
        BY <1>3, <4>2, SMTT(30)
      <4> QED BY <4>1, <4>2
    <3>3. AtMost(s, u) /\ ~AtMost(u, s)
      BY <1>3, <1>4, <2>1, <3>1, <3>2, FirstDifference
    <3> QED BY <1>8, <2>5, <3>3
  <2> QED BY <2>3, <2>4, <2>5
<1> QED BY <1>6, <1>7, <1>8

\* The first place at which the texts of two rows differ.
LEMMA OrderByNumbers ==
    ASSUME NEW s, NEW u, NEW sec \in Seconds, NEW ms \in Group, NEW us \in Group, NEW ns \in Group,
           NEW rsec \in Seconds, NEW rms \in Group, NEW rus \in Group, NEW rns \in Group,
           Written(s, sec, ms, us, ns), Written(u, rsec, rms, rus, rns),
           \/ sec < rsec
           \/ sec = rsec /\ ms < rms
           \/ sec = rsec /\ ms = rms /\ us < rus
           \/ sec = rsec /\ ms = rms /\ us = rus /\ ns < rns
    PROVE  Less(s, u) /\ ~Less(u, s)
<1> USE DEF Group, Seconds
<1>1. /\ IsText(s) /\ {1, 2} \subseteq DOMAIN s /\ s[1] = sec
      /\ IsText(u) /\ {1, 2} \subseteq DOMAIN u /\ u[1] = rsec
  BY DEF Written
<1>2. CASE sec < rsec
  <2>1. AgreeBefore(s, u, 1) /\ 1 \in 1..5
    BY DEF AgreeBefore
  <2> QED BY <1>1, <1>2, <2>1, FirstDifference
<1>3. CASE sec = rsec /\ ms = 0 /\ us = 0 /\ ns = 0
  <2>1. s[2] = 0 /\ u[2] = 1 /\ 0 < 1
    BY <1>3 DEF Written
  <2>2. AgreeBefore(s, u, 2) /\ 2 \in 1..5
    BY <1>1, <1>3 DEF AgreeBefore
  <2> QED BY <1>1, <2>1, <2>2, FirstDifference
<1>4. CASE sec = rsec /\ ~(ms = 0 /\ us = 0 /\ ns = 0)
  <2>1. {3, 4} \subseteq DOMAIN s /\ s[2] = 1 /\ s[3] = 2 + ms
    BY <1>4 DEF Written
  <2>2. {3, 4} \subseteq DOMAIN u /\ u[2] = 1 /\ u[3] = 2 + rms
    <3>1. \/ ms < rms
          \/ ms = rms /\ us < rus
          \/ ms = rms /\ us = rus /\ ns < rns
      BY <1>4
    <3>2. ~(rms = 0 /\ rus = 0 /\ rns = 0)
      <4>1. CASE ms < rms
        BY <4>1
      <4>2. CASE ms = rms /\ us < rus
        BY <4>2
      <4>3. CASE ms = rms /\ us = rus /\ ns < rns
        BY <4>3
      <4> QED BY <3>1, <4>1, <4>2, <4>3
    <3> QED BY <3>2 DEF Written
  <2>3. CASE ms < rms
    <3>1. 2 + ms < 2 + rms /\ 2 + ms \in Int /\ 2 + rms \in Int
      BY <2>3
    <3>2. AgreeBefore(s, u, 3) /\ 3 \in 1..5
      BY <1>1, <1>4, <2>1, <2>2 DEF AgreeBefore
    <3> QED BY <1>1, <2>1, <2>2, <3>1, <3>2, FirstDifference
  <2>4. CASE ms = rms /\ us < rus
    <3>1. PICK c \in Int : s[4] = c /\ c < 2 + rus
      <4>1. CASE us = 0 /\ ns = 0
        BY <1>4, <4>1 DEF Written
      <4>2. CASE ~(us = 0 /\ ns = 0)
        <5>1. s[4] = 2 + us
          BY <4>2 DEF Written
        <5> QED BY <2>4, <5>1
      <4> QED BY <4>1, <4>2
    <3>2. u[4] = 2 + rus /\ 2 + rus \in Int
      BY <2>4 DEF Written
    <3>3. AgreeBefore(s, u, 4) /\ 4 \in 1..5
      BY <1>1, <1>4, <2>1, <2>2, <2>4 DEF AgreeBefore
    <3> QED BY <1>1, <2>1, <2>2, <3>1, <3>2, <3>3, FirstDifference
  <2>5. CASE ms = rms /\ us = rus /\ ns < rns
    <3>1. u[4] = 2 + rus /\ u[5] = 2 + rns /\ 5 \in DOMAIN u
      BY <2>5, SMTT(30) DEF Written
    <3>2. CASE us = 0 /\ ns = 0
      <4>1. s[4] = 0 /\ 0 < 2 + rus /\ 2 + rus \in Int
        BY <1>4, <3>2 DEF Written
      <4>2. AgreeBefore(s, u, 4) /\ 4 \in 1..5
        BY <1>1, <1>4, <2>1, <2>2, <2>5 DEF AgreeBefore
      <4> QED BY <1>1, <2>1, <2>2, <3>1, <4>1, <4>2, FirstDifference
    <3>3. CASE ~(us = 0 /\ ns = 0)
      <4>1. s[4] = 2 + us /\ 5 \in DOMAIN s
        BY <3>3 DEF Written
      <4>2. PICK c \in Int : s[5] = c /\ c < 2 + rns
        <5>1. CASE ns = 0
          <6>1. s[5] = 0 /\ 0 < 2 + rns
            BY <3>3, <5>1 DEF Written
          <6> QED BY <6>1
        <5>2. CASE ns # 0
          <6>1. s[5] = 2 + ns
            BY <5>2 DEF Written
          <6> QED BY <2>5, <6>1
        <5> QED BY <5>1, <5>2
      <4>3. AgreeBefore(s, u, 5) /\ 5 \in 1..5 /\ 2 + rns \in Int
        BY <1>1, <1>4, <2>1, <2>2, <2>5, <3>1, <4>1 DEF AgreeBefore
      <4> QED BY <1>1, <3>1, <4>1, <4>2, <4>3, FirstDifference
    <3> QED BY <3>2, <3>3
  <2> QED BY <1>4, <2>3, <2>4, <2>5
<1> QED BY <1>2, <1>3, <1>4

LEMMA MomentIs ==
    ASSUME NEW t \in Moment
    PROVE  \E sec \in Seconds, ms \in Group, us \in Group, ns \in Group : TimeIs(t, sec, ms, us, ns)
<1>1. TimeIs(t, t.sec, t.ms, t.us, t.ns)
  BY DEF TimeIs, Moment, Seconds
<1>2. t.sec \in Seconds /\ t.ms \in Group /\ t.us \in Group /\ t.ns \in Group
  BY DEF Moment, Seconds
<1> QED BY <1>1, <1>2

\* A row is at or after the bound of a period, as texts, exactly if it is in a
\* later millisecond: those of the bound's own one are left out at its begin and
\* all of them belong to it at its end (shared.rs:80-87, worker.rs:415).
THEOREM PeriodByText ==
    ASSUME NEW t \in Moment, NEW b \in Bound
    PROVE  /\ AtMost(BoundText(b), Text(t)) <=> PastMillisecond(t, b)
           /\ AtMost(Text(t), BoundText(b)) <=> ~PastMillisecond(t, b)
<1>1. PICK sec \in Seconds, ms \in Group, us \in Group, ns \in Group : TimeIs(t, sec, ms, us, ns)
  BY MomentIs
<1>2. PICK bsec \in Seconds, bms \in Group : BoundIs(b, bsec, bms)
  <2>1. BoundIs(b, b.sec, b.ms)
    BY DEF BoundIs, Bound, Seconds
  <2>2. b.sec \in Seconds /\ b.ms \in Group
    BY DEF Bound, Seconds
  <2> QED BY <2>1, <2>2
<1>3. Written(Text(t), sec, ms, us, ns)
  BY <1>1, TextForm
<1>7. BoundWritten(BoundText(b), bsec, bms)
  BY <1>2, BoundForm
<1>5. PastMillisecond(t, b) <=> sec > bsec \/ (sec = bsec /\ ms > bms)
  BY <1>1, <1>2 DEF PastMillisecond, TimeIs, BoundIs
<1>6. IF sec > bsec \/ (sec = bsec /\ ms > bms)
      THEN AtMost(BoundText(b), Text(t)) /\ ~AtMost(Text(t), BoundText(b))
      ELSE AtMost(Text(t), BoundText(b)) /\ ~AtMost(BoundText(b), Text(t))
  BY <1>3, <1>7, PeriodByNumbers
<1> QED BY <1>5, <1>6

\* The texts of two events are in the order of their times, however many digits
\* each needs: ORDER BY timestamp is the order of time (worker.rs:476).
THEOREM RowsInTimeOrder ==
    ASSUME NEW q \in Moment, NEW r \in Moment, Earlier(q, r)
    PROVE  Less(Text(q), Text(r)) /\ ~Less(Text(r), Text(q))
<1>1. PICK sec \in Seconds, ms \in Group, us \in Group, ns \in Group : TimeIs(q, sec, ms, us, ns)
  BY MomentIs
<1>2. PICK rsec \in Seconds, rms \in Group, rus \in Group, rns \in Group : TimeIs(r, rsec, rms, rus, rns)
  BY MomentIs
<1>3. Written(Text(q), sec, ms, us, ns)
  BY <1>1, TextForm
<1>4. Written(Text(r), rsec, rms, rus, rns)
  BY <1>2, TextForm
<1>6. \/ sec < rsec
      \/ sec = rsec /\ ms < rms
      \/ sec = rsec /\ ms = rms /\ us < rus
      \/ sec = rsec /\ ms = rms /\ us = rus /\ ns < rns
  BY <1>1, <1>2 DEF TimeIs, Earlier
<1> QED BY <1>3, <1>4, <1>6, OrderByNumbers

-----------------------------------------------------------------------------
(* The insert of the process task.                                         *)

Command == [op : {"none", "insert", "count", "query"},
            step : {"idle", "sending", "queued", "answered"}, ok : BOOLEAN]

\* The process task's command: it waits in the queue of its own store, once, as
\* long as it is not answered, and until then its row is not in the table.
ToldInv ==
    /\ call \in [Caller -> Command]
    /\ queue \in [Store -> Seq(Caller \cup {"gone"})]
    /\ \A c \in Client : call[c].op # "insert"
    /\ call["task"].op \in {"none", "insert"}
    /\ \A s \in Store : \A i \in DOMAIN queue[s] :
         queue[s][i] = "task" => s = "process" /\ call["task"].step = "queued"
    /\ \A i, j \in DOMAIN queue["process"] :
         queue["process"][i] = "task" /\ queue["process"][j] = "task" => i = j
    /\ call["task"].step \in {"sending", "queued", "answered"} => row \notin DOMAIN told
    /\ call["task"].step \in {"sending", "queued"} => row \notin rows /\ ~call["task"].ok
    /\ call["task"].step = "answered" => (call["task"].ok <=> row \in rows)
    /\ InsertIsTold

LEMMA CallerFacts ==
    /\ "task" \in Caller /\ StoreOf("task") = "process"
    /\ "process" \in Store /\ "web" \in Store /\ "task" # "gone"
    /\ \A c \in Client : c \in Caller /\ c # "task" /\ c # "gone" /\ StoreOf(c) = "web"
BY ClientAssumption DEF Caller, StoreOf, Store

LEMMA ToldInit == Init => ToldInv
<1> SUFFICES ASSUME Init PROVE ToldInv
  OBVIOUS
<1>1. call = [c \in Caller |-> NoCall] /\ NoCall \in Command
  BY DEF Init, NoCall, Command
<1>2. \A c \in Caller : call[c].op = "none" /\ call[c].step = "idle"
  BY <1>1 DEF NoCall
<1>3. queue = [s \in Store |-> <<>>] /\ queue \in [Store -> Seq(Caller \cup {"gone"})]
  BY DEF Init
<1>4. \A s \in Store : DOMAIN queue[s] = {}
  BY <1>3
<1>5. InsertIsTold
  BY DEF Init, InsertIsTold
<1> QED BY <1>1, <1>2, <1>3, <1>4, <1>5, CallerFacts DEF ToldInv

\* Steps that leave the task's command, its queue and the table alone.
LEMMA ToldStays ==
    ASSUME ToldInv, call' \in [Caller -> Command], \A c \in Client : call'[c].op # "insert",
           call'["task"] = call["task"], UNCHANGED <<rows, row, told>>,
           queue' \in [Store -> Seq(Caller \cup {"gone"})],
           queue'["process"] = queue["process"],
           \A i \in DOMAIN queue'["web"] : queue'["web"][i] # "task"
    PROVE  ToldInv'
<1>1. InsertIsTold'
  BY DEF ToldInv, InsertIsTold
<1> QED BY <1>1 DEF ToldInv, Store

LEMMA DieTold ==
    ASSUME ToldInv, Die
    PROVE  ToldInv'
<1>1. call' = [c \in Caller |-> NoCall] /\ NoCall \in Command
  BY DEF Die, NoCall, Command
<1>2. \A c \in Caller : call'[c].op = "none" /\ call'[c].step = "idle"
  BY <1>1 DEF NoCall
<1>3. queue' = [s \in Store |-> <<>>] /\ queue' \in [Store -> Seq(Caller \cup {"gone"})]
  BY DEF Die
<1>4. \A s \in Store : DOMAIN queue'[s] = {}
  BY <1>3
<1>5. InsertIsTold'
  BY DEF Die, database, ToldInv, InsertIsTold
<1> QED BY <1>1, <1>2, <1>3, <1>4, <1>5, CallerFacts DEF ToldInv

\* The thread ends, and with it the commands that wait.
LEMMA EndTold ==
    ASSUME ToldInv, NEW s \in Store, ThreadEnds(s), UNCHANGED <<rows, row, told>>
    PROVE  ToldInv'
<1>1. /\ queue' = [queue EXCEPT ![s] = <<>>]
      /\ call' = [c \in Caller |->
             IF StoreOf(c) = s /\ call[c].step = "queued"
             THEN [call[c] EXCEPT !.step = "answered"] ELSE call[c]]
  BY DEF ThreadEnds
<1>2. \A c \in Caller : /\ call'[c] \in Command /\ call'[c].op = call[c].op
                        /\ call'[c].ok = call[c].ok
                        /\ call'[c].step = IF StoreOf(c) = s /\ call[c].step = "queued"
                                           THEN "answered" ELSE call[c].step
  BY <1>1, SMTT(30) DEF ToldInv, Command
<1>3. call' \in [Caller -> Command] /\ \A c \in Client : call'[c].op # "insert"
  BY <1>1, <1>2, CallerFacts DEF ToldInv
<1>4. queue' \in [Store -> Seq(Caller \cup {"gone"})] /\ DOMAIN queue'[s] = {}
      /\ \A t \in Store \ {s} : queue'[t] = queue[t]
  BY <1>1 DEF ToldInv
<1>5. InsertIsTold'
  BY DEF ToldInv, InsertIsTold
<1>6. CASE s = "process"
  BY <1>2, <1>3, <1>4, <1>5, <1>6, CallerFacts DEF ToldInv
<1>7. CASE s = "web"
  <2>1. /\ call'["task"].step = call["task"].step /\ call'["task"].ok = call["task"].ok
        /\ call'["task"].op = call["task"].op
    BY <1>2, <1>7, CallerFacts
  <2>2. queue'["process"] = queue["process"] /\ DOMAIN queue'["web"] = {}
    BY <1>4, <1>7, CallerFacts
  <2>3. \A t \in Store : \A i \in DOMAIN queue'[t] : queue'[t][i] = "task" =>
           t = "process" /\ call'["task"].step = "queued"
    BY <2>1, <2>2 DEF ToldInv, Store
  <2> QED BY <1>3, <1>4, <1>5, <2>1, <2>2, <2>3 DEF ToldInv
<1> QED BY <1>6, <1>7 DEF Store

LEMMA SendTold ==
    ASSUME ToldInv, NEW c \in Caller, Send(c)
    PROVE  ToldInv'
<1> DEFINE s == StoreOf(c)
<1>1. /\ call[c].step = "sending" /\ UNCHANGED <<rows, row, told>>
      /\ \/ queue' = [queue EXCEPT ![s] = Append(@, c)] /\ call' = [call EXCEPT ![c].step = "queued"]
         \/ queue' = queue /\ call' = [call EXCEPT ![c].step = "answered"]
  BY DEF Send, database, history
<1>2. s \in Store
  BY DEF StoreOf, Store
<1>3. /\ call' \in [Caller -> Command] /\ \A d \in Caller \ {c} : call'[d] = call[d]
      /\ call'[c].op = call[c].op /\ call'[c].ok = call[c].ok
  BY <1>1 DEF ToldInv, Command
<1>4. \A d \in Client : call'[d].op # "insert"
  BY <1>3, CallerFacts DEF ToldInv
<1>5. queue[s] \in Seq(Caller \cup {"gone"})
  BY <1>2 DEF ToldInv
<1>6. /\ DOMAIN Append(queue[s], c) = DOMAIN queue[s] \cup {Len(queue[s]) + 1}
      /\ \A i \in DOMAIN queue[s] : Append(queue[s], c)[i] = queue[s][i]
      /\ Append(queue[s], c)[Len(queue[s]) + 1] = c
      /\ Append(queue[s], c) \in Seq(Caller \cup {"gone"})
  BY <1>5
<1>7. queue' \in [Store -> Seq(Caller \cup {"gone"})]
      /\ \A t \in Store \ {s} : queue'[t] = queue[t]
      /\ (queue'[s] = queue[s] \/ queue'[s] = Append(queue[s], c))
  BY <1>1, <1>2, <1>6 DEF ToldInv
<1>8. CASE c = "task"
  <2>1. s = "process" /\ call["task"].step = "sending"
    BY <1>1, <1>8, CallerFacts
  <2>2. \A i \in DOMAIN queue["process"] : queue["process"][i] # "task"
    BY <2>1, CallerFacts DEF ToldInv
  <2>3. InsertIsTold'
    BY <1>1 DEF ToldInv, InsertIsTold
  <2>4. CASE queue' = [queue EXCEPT ![s] = Append(@, c)] /\ call' = [call EXCEPT ![c].step = "queued"]
    <3>1. queue'["process"] = Append(queue["process"], "task")
      BY <1>2, <1>8, <2>1, <2>4 DEF ToldInv
    <3>2. call'["task"].step = "queued"
      BY <1>8, <2>4 DEF ToldInv, Command
    <3>3. \A i \in DOMAIN queue'["process"] :
            queue'["process"][i] = "task" => i = Len(queue["process"]) + 1
      BY <1>6, <1>8, <2>1, <2>2, <3>1
    <3>4. \A t \in Store : \A i \in DOMAIN queue'[t] : queue'[t][i] = "task" => t = "process"
      BY <1>7, <2>1, CallerFacts DEF ToldInv
    <3> QED BY <1>1, <1>3, <1>4, <1>7, <1>8, <2>1, <2>3, <3>2, <3>3, <3>4, CallerFacts DEF ToldInv
  <2>5. CASE queue' = queue /\ call' = [call EXCEPT ![c].step = "answered"]
    <3>1. call'["task"].step = "answered" /\ ~call'["task"].ok /\ row \notin rows
      BY <1>3, <1>8, <2>1, <2>5 DEF ToldInv, Command
    <3>2. \A t \in Store : \A i \in DOMAIN queue'[t] : queue'[t][i] # "task"
      BY <2>1, <2>5 DEF ToldInv
    <3> QED BY <1>1, <1>3, <1>4, <1>7, <2>1, <2>3, <3>1, <3>2, CallerFacts DEF ToldInv
  <2> QED BY <1>1, <2>4, <2>5
<1>9. CASE c # "task"
  <2>1. s = "web" /\ c \in Client
    BY <1>9 DEF StoreOf, Caller
  <2>2. \A i \in DOMAIN queue'["web"] : queue'["web"][i] # "task"
    <3>1. \A i \in DOMAIN queue["web"] : queue["web"][i] # "task"
      BY CallerFacts DEF ToldInv
    <3>2. queue'["web"] = queue["web"] \/ queue'["web"] = Append(queue["web"], c)
      <4>1. queue'[s] = queue[s] \/ queue'[s] = Append(queue[s], c)
        BY <1>1, <1>2 DEF ToldInv
      <4> HIDE DEF s
      <4> QED BY <2>1, <4>1
    <3>3. \A i \in DOMAIN Append(queue["web"], c) : Append(queue["web"], c)[i] # "task"
      BY <1>6, <1>9, <2>1, <3>1
    <3> QED BY <3>1, <3>2, <3>3
  <2> QED BY <1>1, <1>3, <1>4, <1>7, <1>9, <2>1, <2>2, CallerFacts, ToldStays
<1> QED BY <1>8, <1>9

\* The first command of a queue is taken.
LEMMA TakenFirst ==
    ASSUME ToldInv, NEW s \in Store, queue[s] # <<>>, queue' = [queue EXCEPT ![s] = Tail(@)]
    PROVE  /\ queue' \in [Store -> Seq(Caller \cup {"gone"})]
           /\ \A t \in Store \ {s} : queue'[t] = queue[t]
           /\ 1 \in DOMAIN queue[s] /\ Head(queue[s]) = queue[s][1]
           /\ \A i \in DOMAIN queue'[s] : i + 1 \in DOMAIN queue[s] /\ i + 1 # 1
                                          /\ i \in Int /\ queue'[s][i] = queue[s][i + 1]
<1>1. queue[s] \in Seq(Caller \cup {"gone"})
  BY DEF ToldInv
<1>2. queue'[s] = Tail(queue[s]) /\ \A t \in Store \ {s} : queue'[t] = queue[t]
  BY DEF ToldInv
<1>3. Tail(queue[s]) \in Seq(Caller \cup {"gone"})
  BY <1>1
<1>4. 1 \in DOMAIN queue[s] /\ Head(queue[s]) = queue[s][1]
  BY <1>1
<1>5. \A i \in DOMAIN Tail(queue[s]) : i + 1 \in DOMAIN queue[s] /\ i + 1 # 1
                                       /\ i \in Int /\ Tail(queue[s])[i] = queue[s][i + 1]
  BY <1>1
<1>6. queue' \in [Store -> Seq(Caller \cup {"gone"})]
  BY <1>3 DEF ToldInv
<1> QED BY <1>2, <1>4, <1>5, <1>6

LEMMA AnsweredCommand ==
    ASSUME NEW d \in Command, NEW ok \in BOOLEAN
    PROVE  [[d EXCEPT !.step = "answered"] EXCEPT !.ok = ok] =
             [op |-> d.op, step |-> "answered", ok |-> ok]
<1> DEFINE e == [d EXCEPT !.step = "answered"]
<1>1. e = [op |-> d.op, step |-> "answered", ok |-> d.ok]
  BY DEF Command
<1>2. [e EXCEPT !.ok = ok] = [op |-> e.op, step |-> e.step, ok |-> ok]
  <2>1. e \in Command
    BY <1>1 DEF Command
  <2> HIDE DEF e
  <2> QED BY <2>1 DEF Command
<1>3. e.op = d.op /\ e.step = "answered"
  BY <1>1
<1> QED BY <1>2, <1>3

LEMMA ExecuteTold ==
    ASSUME ToldInv, NEW s \in Store, Execute(s)
    PROVE  ToldInv'
<1>1. CASE AnswerNobody(s)
  <2>1. /\ queue[s] # <<>> /\ Head(queue[s]) = "gone" /\ queue' = [queue EXCEPT ![s] = Tail(@)]
        /\ call' = call /\ UNCHANGED <<rows, row, told>>
    BY <1>1 DEF AnswerNobody, database, history
  <2>2. \A t \in Store : \A i \in DOMAIN queue'[t] :
          \E j \in DOMAIN queue[t] : queue'[t][i] = queue[t][j]
    <3>1. ASSUME NEW i \in DOMAIN queue'[s] PROVE \E j \in DOMAIN queue[s] : queue'[s][i] = queue[s][j]
      <4>1. i + 1 \in DOMAIN queue[s] /\ queue'[s][i] = queue[s][i + 1]
        BY <2>1, TakenFirst
      <4> DEFINE j == i + 1
      <4>2. j \in DOMAIN queue[s] /\ queue'[s][i] = queue[s][j]
        BY <4>1
      <4> HIDE DEF j
      <4> QED BY <4>2
    <3>2. \A t \in Store \ {s} : queue'[t] = queue[t]
      BY <2>1, TakenFirst
    <3> QED BY <3>1, <3>2
  <2>3. \A i, j \in DOMAIN queue'["process"] :
          queue'["process"][i] = "task" /\ queue'["process"][j] = "task" => i = j
    <3>1. CASE s = "process"
      <4> SUFFICES ASSUME NEW i \in DOMAIN queue'[s], NEW j \in DOMAIN queue'[s],
                          queue'[s][i] = "task", queue'[s][j] = "task"
                   PROVE  i = j
        BY <3>1
      <4>1. i + 1 = j + 1
        BY <2>1, <3>1, TakenFirst DEF ToldInv
      <4>2. i \in Int /\ j \in Int
        BY <2>1, TakenFirst
      <4> QED BY <4>1, <4>2
    <3>2. CASE s = "web"
      BY <2>1, <3>2, TakenFirst, CallerFacts DEF ToldInv
    <3> QED BY <3>1, <3>2 DEF Store
  <2>4. queue' \in [Store -> Seq(Caller \cup {"gone"})] /\ InsertIsTold'
    BY <2>1, TakenFirst DEF ToldInv, InsertIsTold
  <2> QED BY <2>1, <2>2, <2>3, <2>4 DEF ToldInv
<1>2. ASSUME NEW c \in Caller, NEW ok \in BOOLEAN, Answer(s, c, ok)
      PROVE  /\ queue' \in [Store -> Seq(Caller \cup {"gone"})]
             /\ \A t \in Store \ {s} : queue'[t] = queue[t]
             /\ 1 \in DOMAIN queue[s] /\ queue[s][1] = c
             /\ \A i \in DOMAIN queue'[s] : i + 1 \in DOMAIN queue[s] /\ i + 1 # 1
                                            /\ queue'[s][i] = queue[s][i + 1]
             /\ call' \in [Caller -> Command] /\ \A d \in Caller \ {c} : call'[d] = call[d]
             /\ call'[c].op = call[c].op /\ call'[c].step = "answered" /\ call'[c].ok = ok
             /\ row' = row /\ told' = told
  <2>1. /\ queue[s] # <<>> /\ c = Head(queue[s]) /\ queue' = [queue EXCEPT ![s] = Tail(@)]
        /\ call' = [call EXCEPT ![c].step = "answered", ![c].ok = ok]
        /\ row' = row /\ told' = told
    BY <1>2 DEF Answer, history
  <2>2. call' = [call EXCEPT ![c] = [op |-> call[c].op, step |-> "answered", ok |-> ok]]
        /\ [op |-> call[c].op, step |-> "answered", ok |-> ok] \in Command
    <3>1. call[c] \in Command /\ call \in [Caller -> Command]
      BY DEF ToldInv
    <3>2. [[call[c] EXCEPT !.step = "answered"] EXCEPT !.ok = ok] =
            [op |-> call[c].op, step |-> "answered", ok |-> ok]
      BY <3>1, AnsweredCommand
    <3>3. call' = [call EXCEPT ![c] = [[call[c] EXCEPT !.step = "answered"] EXCEPT !.ok = ok]]
      BY <2>1, <3>1
    <3>4. call[c].op \in {"none", "insert", "count", "query"}
      BY <3>1 DEF Command
    <3> QED BY <3>2, <3>3, <3>4 DEF Command
  <2>3. /\ call' \in [Caller -> Command] /\ \A d \in Caller \ {c} : call'[d] = call[d]
        /\ call'[c].op = call[c].op /\ call'[c].step = "answered" /\ call'[c].ok = ok
    BY <2>2 DEF ToldInv
  <2> QED BY <2>1, <2>3, TakenFirst
<1>3. ASSUME NEW c \in Caller, DoInsert(s, c) PROVE ToldInv'
  <2>1. c = "task" /\ call["task"].op = "insert"
    BY <1>3 DEF DoInsert, ToldInv, Caller
  <2>2. PICK ok \in BOOLEAN : Answer(s, "task", ok) /\ rows' = IF ok THEN rows \cup {row} ELSE rows
    BY <1>3, <2>1 DEF DoInsert
  <2>3. s = "process" /\ call["task"].step = "queued"
    BY <1>2, <2>2, CallerFacts DEF ToldInv
  <2>4. \A i \in DOMAIN queue'["process"] : queue'["process"][i] # "task"
    BY <1>2, <2>2, <2>3, CallerFacts DEF ToldInv
  <2>5. \A t \in Store : \A i \in DOMAIN queue'[t] : queue'[t][i] # "task"
    BY <1>2, <2>2, <2>3, <2>4, CallerFacts DEF ToldInv
  <2>6. row \notin DOMAIN told /\ row \notin rows
    BY <2>3 DEF ToldInv
  <2>7. InsertIsTold'
    BY <1>2, <2>2, <2>6, CallerFacts DEF ToldInv, InsertIsTold
  <2>8. call'["task"].step = "answered" /\ (call'["task"].ok <=> row' \in rows') /\ row' \notin DOMAIN told'
    BY <1>2, <2>2, <2>6, CallerFacts
  <2>9. call' \in [Caller -> Command] /\ queue' \in [Store -> Seq(Caller \cup {"gone"})]
        /\ (\A d \in Client : call'[d].op # "insert") /\ call'["task"].op = "insert"
    <3>1. /\ call' \in [Caller -> Command] /\ queue' \in [Store -> Seq(Caller \cup {"gone"})]
          /\ \A d \in Caller \ {"task"} : call'[d] = call[d]
          /\ call'["task"].op = call["task"].op
      BY <1>2, <2>2, CallerFacts
    <3>2. \A d \in Client : call[d].op # "insert" /\ call'[d] = call[d]
      BY <3>1, CallerFacts DEF ToldInv
    <3> QED BY <2>1, <3>1, <3>2
  <2> QED BY <2>5, <2>7, <2>8, <2>9, CallerFacts DEF ToldInv
<1>4. ASSUME NEW c \in Caller, DoCount(s, c) \/ DoQuery(s, c) PROVE ToldInv'
  <2>1. PICK ok \in BOOLEAN : Answer(s, c, ok) /\ rows' = rows
    BY <1>4 DEF DoCount, DoQuery
  <2>2. call[c].op \in {"count", "query"}
    BY <1>4 DEF DoCount, DoQuery
  <2>3. CASE c # "task"
    <3>1. c \in Client
      BY <2>3 DEF Caller
    <3>2. call'["task"] = call["task"] /\ \A d \in Client : call'[d].op # "insert"
      <4>1. call'["task"] = call["task"]
        BY <1>2, <2>1, <2>3, CallerFacts
      <4>2. call'[c].op # "insert" /\ \A d \in Client \ {c} : call'[d] = call[d]
        BY <1>2, <2>1, <2>2, CallerFacts
      <4> QED BY <4>1, <4>2 DEF ToldInv
    <3>3. InsertIsTold'
      BY <1>2, <2>1 DEF ToldInv, InsertIsTold
    <3>4. \A t \in Store : \A i \in DOMAIN queue'[t] :
            \E j \in DOMAIN queue[t] : queue'[t][i] = queue[t][j]
      BY <1>2, <2>1
    <3>5. \A i, j \in DOMAIN queue'["process"] :
            queue'["process"][i] = "task" /\ queue'["process"][j] = "task" => i = j
      <4>1. CASE s = "process"
        <5> SUFFICES ASSUME NEW i \in DOMAIN queue'[s], NEW j \in DOMAIN queue'[s],
                            queue'[s][i] = "task", queue'[s][j] = "task"
                     PROVE  i = j
          BY <4>1
        <5>0. queue[s] # <<>> /\ queue' = [queue EXCEPT ![s] = Tail(@)]
          BY <2>1 DEF Answer
        <5>1. i + 1 = j + 1
          BY <1>2, <2>1, <4>1 DEF ToldInv
        <5>2. i \in Int /\ j \in Int
          BY <5>0, TakenFirst
        <5> QED BY <5>1, <5>2
      <4>2. CASE s = "web"
        BY <1>2, <2>1, <4>2, CallerFacts DEF ToldInv
      <4> QED BY <4>1, <4>2 DEF Store
    <3> QED BY <1>2, <2>1, <3>2, <3>3, <3>4, <3>5 DEF ToldInv
  <2>4. CASE c = "task"
    <3>1. call["task"].op \in {"none", "insert"}
      BY DEF ToldInv
    <3> QED BY <2>2, <2>4, <3>1
  <2> QED BY <2>3, <2>4
<1> QED BY <1>1, <1>3, <1>4 DEF Execute

LEMMA CallersTold ==
    ASSUME ToldInv,
           \/ TaskInserts \/ TaskGoesOn
           \/ \E c \in Client : RequestPage(c) \/ HandlerCounted(c) \/ HandlerAnswers(c) \/ Abandon(c)
    PROVE  ToldInv'
<1>1. NoCall \in Command /\ \A op \in {"insert", "count", "query"} : Asks(op) \in Command
  BY DEF NoCall, Asks, Command
<1>2. CASE TaskInserts
  <2>1. /\ call["task"].step = "idle" /\ call' = [call EXCEPT !["task"] = Asks("insert")]
        /\ row' \notin rows /\ row' \notin DOMAIN told /\ UNCHANGED <<rows, queue, told>>
    BY <1>2 DEF TaskInserts, database, history
  <2>2. /\ call' \in [Caller -> Command] /\ call'["task"] = Asks("insert")
        /\ \A c \in Client : call'[c] = call[c]
    BY <1>1, <2>1, CallerFacts DEF ToldInv
  <2>3. call'["task"].op = "insert" /\ call'["task"].step = "sending" /\ ~call'["task"].ok
    BY <2>2 DEF Asks
  <2>4. \A s \in Store : \A i \in DOMAIN queue[s] : queue[s][i] # "task"
    BY <2>1 DEF ToldInv
  <2>5. InsertIsTold'
    BY <2>1 DEF ToldInv, InsertIsTold
  <2> QED BY <2>1, <2>2, <2>3, <2>4, <2>5, CallerFacts DEF ToldInv
<1>3. CASE TaskGoesOn
  <2>1. /\ call["task"].step = "answered" /\ call' = [call EXCEPT !["task"] = NoCall]
        /\ told' = [r \in DOMAIN told \cup {row} |-> IF r = row THEN call["task"].ok ELSE told[r]]
        /\ UNCHANGED <<rows, queue>>
    BY <1>3 DEF TaskGoesOn, database
  <2>2. /\ call' \in [Caller -> Command] /\ call'["task"] = NoCall
        /\ \A c \in Client : call'[c] = call[c]
    BY <1>1, <2>1, CallerFacts DEF ToldInv
  <2>3. call'["task"].op = "none" /\ call'["task"].step = "idle"
    BY <2>2 DEF NoCall
  <2>4. \A s \in Store : \A i \in DOMAIN queue[s] : queue[s][i] # "task"
    BY <2>1 DEF ToldInv
  <2>5. InsertIsTold'
    <3>1. call["task"].ok <=> row \in rows
      BY <2>1 DEF ToldInv
    <3>2. \A r \in DOMAIN told : told[r] <=> r \in rows
      BY DEF ToldInv, InsertIsTold
    <3>3. DOMAIN told' = DOMAIN told \cup {row}
      BY <2>1
    <3>4. told'[row] = call["task"].ok /\ \A r \in DOMAIN told \ {row} : told'[r] = told[r]
      BY <2>1
    <3>5. \A r \in DOMAIN told' : told'[r] <=> r \in rows
      BY <3>1, <3>2, <3>3, <3>4, Zenon
    <3> QED BY <2>1, <3>5 DEF InsertIsTold
  <2> QED BY <2>1, <2>2, <2>3, <2>4, <2>5, CallerFacts DEF ToldInv
<1>4. ASSUME NEW c \in Client, RequestPage(c) \/ HandlerCounted(c) \/ HandlerAnswers(c)
      PROVE  ToldInv'
  <2>1. /\ \E d \in {NoCall, Asks("count"), Asks("query")} : call' = [call EXCEPT ![c] = d]
        /\ UNCHANGED <<rows, queue, row, told>>
    BY <1>4 DEF RequestPage, HandlerCounted, HandlerAnswers, database, history
  <2>2. PICK d \in {NoCall, Asks("count"), Asks("query")} : call' = [call EXCEPT ![c] = d]
    BY <2>1
  <2>3. d \in Command /\ d.op # "insert"
    <3>1. Asks("count") \in Command /\ Asks("query") \in Command
      BY <1>1
    <3>2. NoCall.op # "insert" /\ Asks("count").op # "insert" /\ Asks("query").op # "insert"
      BY DEF NoCall, Asks
    <3> QED BY <1>1, <3>1, <3>2
  <2>4. /\ call' \in [Caller -> Command] /\ call'["task"] = call["task"]
        /\ \A e \in Client : call'[e].op # "insert"
    BY <2>2, <2>3, CallerFacts DEF ToldInv
  <2>5. \A i \in DOMAIN queue["web"] : queue["web"][i] # "task"
    BY CallerFacts DEF ToldInv
  <2>6. queue' \in [Store -> Seq(Caller \cup {"gone"})]
    BY <2>1 DEF ToldInv
  <2> QED BY <2>1, <2>4, <2>5, <2>6, ToldStays
<1>5. ASSUME NEW c \in Client, Abandon(c) PROVE ToldInv'
  <2> DEFINE q == [i \in DOMAIN queue["web"] |-> IF queue["web"][i] = c THEN "gone" ELSE queue["web"][i]]
  <2>1. /\ call' = [call EXCEPT ![c] = NoCall] /\ queue' = [queue EXCEPT !["web"] = q]
        /\ UNCHANGED <<rows, row, told>>
    BY <1>5 DEF Abandon, database, history
  <2>2. NoCall.op # "insert"
    BY DEF NoCall
  <2>3. /\ call' \in [Caller -> Command] /\ call'["task"] = call["task"]
        /\ \A e \in Client : call'[e].op # "insert"
    BY <1>1, <2>1, <2>2, CallerFacts DEF ToldInv
  <2>4. queue["web"] \in Seq(Caller \cup {"gone"}) /\ \A i \in DOMAIN queue["web"] : queue["web"][i] # "task"
    BY CallerFacts DEF ToldInv
  <2>5. q \in Seq(Caller \cup {"gone"})
    <3>1. \A i \in 1..Len(queue["web"]) :
             (IF queue["web"][i] = c THEN "gone" ELSE queue["web"][i]) \in Caller \cup {"gone"}
      BY <2>4
    <3>2. DOMAIN queue["web"] = 1..Len(queue["web"]) /\ Len(queue["web"]) \in Nat
      BY <2>4
    <3> QED BY <3>1, <3>2
  <2>6. \A i \in DOMAIN q : q[i] # "task"
    BY <2>4, CallerFacts
  <2> HIDE DEF q
  <2>7. queue' \in [Store -> Seq(Caller \cup {"gone"})] /\ queue'["web"] = q /\ queue'["process"] = queue["process"]
    BY <2>1, <2>5, CallerFacts DEF ToldInv
  <2> QED BY <2>1, <2>3, <2>6, <2>7, ToldStays
<1> QED BY <1>2, <1>3, <1>4, <1>5

LEMMA ToldStep == ToldInv /\ [Next]_vars => ToldInv'
<1> SUFFICES ASSUME ToldInv, [Next]_vars PROVE ToldInv'
  OBVIOUS
<1>1. ASSUME call' = call, queue' = queue, UNCHANGED <<rows, row, told>> PROVE ToldInv'
  BY <1>1 DEF ToldInv, InsertIsTold
<1>2. CASE Open \/ UNCHANGED vars
  BY <1>1, <1>2 DEF Open, vars, database, history
<1>3. CASE Die
  BY <1>3, DieTold
<1>4. ASSUME NEW s \in Store, Prepare(s) PROVE ToldInv'
  <2>1. CASE CreateTables(s) \/ ReadVersion(s) \/ RecordVersion(s) \/ AlterTable(s) \/ UpdateVersion(s)
    BY <1>1, <2>1 DEF CreateTables, ReadVersion, RecordVersion, AlterTable, UpdateVersion, Others,
                      database, history
  <2>2. CASE AlterFails(s) \/ PrepareFails(s)
    BY <2>2, EndTold DEF AlterFails, PrepareFails, database, history
  <2> QED BY <1>4, <2>1, <2>2 DEF Prepare
<1>5. ASSUME NEW s \in Store, Execute(s) PROVE ToldInv'
  BY <1>5, ExecuteTold
<1>6. ASSUME NEW c \in Caller, Send(c) PROVE ToldInv'
  BY <1>6, SendTold
<1> QED BY <1>2, <1>3, <1>4, <1>5, <1>6, CallersTold DEF Next

\* Whatever ends between the command and its answer, the worker or the callers
\* before it in the queue, the process task is told ok exactly if its event is in
\* the table (worker.rs:95-105, 251-270).
THEOREM StoreInsertIsTold == Spec => []InsertIsTold
<1>1. ToldInv => InsertIsTold
  BY DEF ToldInv
<1> QED BY <1>1, ToldInit, ToldStep, PTL DEF Spec

-----------------------------------------------------------------------------
(* Pages.                                                                  *)

LEMMA RowsAreFinite ==
    ASSUME NEW F, F \subseteq Row
    PROVE  IsFiniteSet(F) /\ Cardinality(F) \in 0..MaxRow
<1>1. IsFiniteSet(Row) /\ Cardinality(Row) = MaxRow
  BY RowAssumption, FS_Interval DEF Row
<1>2. IsFiniteSet(F) /\ Cardinality(F) <= MaxRow
  BY <1>1, FS_Subset
<1>3. Cardinality(F) \in Nat
  BY <1>2, FS_CardinalityType
<1> QED BY <1>2, <1>3, RowAssumption

\* The rows before a row, newest first.
LEMMA NewerRows ==
    \A r \in Row : Newer[r] = {q \in Row : q > r}
<1> SUFFICES ASSUME NEW r \in Row PROVE Newer[r] = {q \in Row : q > r}
  OBVIOUS
<1>1. Newer[r] = {q \in Row : Less(Text(Stamp[r]), Text(Stamp[q]))}
  BY DEF Newer
<1>2. ASSUME NEW q \in Row PROVE Less(Text(Stamp[r]), Text(Stamp[q])) <=> q > r
  <2>1. Stamp[q] \in Moment /\ Stamp[r] \in Moment /\ q \in Int /\ r \in Int
    BY StampAssumption DEF Row
  <2>2. CASE q > r
    <3>1. Earlier(Stamp[r], Stamp[q])
      BY <2>1, <2>2, StampAssumption
    <3> QED BY <2>1, <2>2, <3>1, RowsInTimeOrder
  <2>3. CASE q < r
    <3>1. Earlier(Stamp[q], Stamp[r])
      BY <2>1, <2>3, StampAssumption
    <3> QED BY <2>1, <2>3, <3>1, RowsInTimeOrder
  <2>4. CASE q = r
    <3>1. PICK sec \in Seconds, ms \in Group, us \in Group, ns \in Group :
              TimeIs(Stamp[r], sec, ms, us, ns)
      BY <2>1, MomentIs
    <3>2. IsText(Text(Stamp[r]))
      BY <3>1, TextForm DEF Written
    <3>3. ~Less(Text(Stamp[r]), Text(Stamp[r]))
      BY <3>2 DEF IsText, Less
    <3> QED BY <2>1, <2>4, <3>3
  <2> QED BY <2>1, <2>2, <2>3, <2>4
<1> QED BY <1>1, <1>2

\* In a set of rows each has a rank of its own, below their number, and each
\* rank below their number is that of one.
LEMMA RankBelow ==
    ASSUME NEW F, F \subseteq Row, NEW r \in F
    PROVE  /\ Cardinality(F \cap Newer[r]) \in Nat
           /\ Cardinality(F \cap Newer[r]) < Cardinality(F)
<1>1. r \notin Newer[r] /\ r \in Row
  BY NewerRows DEF Row
<1> DEFINE G == F \cap Newer[r]
<1>2. IsFiniteSet(F) /\ G \subseteq F /\ G # F
  BY <1>1, RowsAreFinite
<1>3. Cardinality(G) <= Cardinality(F) /\ Cardinality(F) # Cardinality(G) /\ IsFiniteSet(G)
  BY <1>2, FS_Subset
<1>4. Cardinality(G) \in Nat /\ Cardinality(F) \in Nat
  BY <1>2, <1>3, FS_CardinalityType
<1> HIDE DEF G
<1>5. Cardinality(G) < Cardinality(F)
  BY <1>3, <1>4
<1> QED BY <1>4, <1>5 DEF G

LEMMA RanksDiffer ==
    ASSUME NEW F, F \subseteq Row, NEW q \in F, NEW r \in F, q < r
    PROVE  Cardinality(F \cap Newer[r]) < Cardinality(F \cap Newer[q])
<1> DEFINE G == F \cap Newer[q]
           H == F \cap Newer[r]
<1>1. H \subseteq G /\ r \in G /\ r \notin H
  BY NewerRows DEF Row
<1>2. IsFiniteSet(G) /\ H # G
  BY <1>1, RowsAreFinite
<1>3. Cardinality(H) <= Cardinality(G) /\ Cardinality(G) # Cardinality(H) /\ IsFiniteSet(H)
  BY <1>1, <1>2, FS_Subset
<1>4. Cardinality(G) \in Nat /\ Cardinality(H) \in Nat
  BY <1>2, <1>3, FS_CardinalityType
<1> HIDE DEF G, H
<1>5. Cardinality(H) < Cardinality(G)
  BY <1>3, <1>4
<1> QED BY <1>5 DEF G, H

LEMMA RankReached ==
    ASSUME NEW F, F \subseteq Row, NEW k \in Nat, k < Cardinality(F)
    PROVE  \E r \in F : Cardinality(F \cap Newer[r]) = k
<1> DEFINE n == Cardinality(F)
           T == 0..(n - 1)
           rank == [r \in F |-> Cardinality(F \cap Newer[r])]
<1>1. n \in Nat /\ n > 0
  BY RowsAreFinite
<1>2. IsFiniteSet(T) /\ Cardinality(T) = n
  <2> HIDE DEF n
  <2>1. 0 \in Int /\ n - 1 \in Int /\ n > 0 /\ n \in Int
    BY <1>1
  <2>2. IsFiniteSet(T) /\ Cardinality(T) = IF 0 > n - 1 THEN 0 ELSE n - 1 - 0 + 1
    BY <2>1, FS_Interval
  <2> QED BY <2>1, <2>2
<1>3. rank \in [F -> T]
  BY <1>1, RankBelow
<1>4. \A q, r \in F : rank[q] = rank[r] => q = r
  <2> SUFFICES ASSUME NEW q \in F, NEW r \in F, rank[q] = rank[r], q # r PROVE FALSE
    OBVIOUS
  <2>1. q \in Int /\ r \in Int
    BY DEF Row
  <2>2. rank[q] \in Int /\ rank[r] \in Int
    BY <1>1, <1>3
  <2>3. CASE q < r
    BY <2>2, <2>3, RanksDiffer
  <2>4. CASE r < q
    BY <2>2, <2>4, RanksDiffer
  <2> QED BY <2>1, <2>3, <2>4
<1> HIDE DEF n, T, rank
<1>5. rank \in Injection(F, T)
  BY <1>3, <1>4 DEF Injection, IsInjective
<1>6. rank \in Surjection(F, T)
  BY <1>2, <1>5, FS_Injection DEF n
<1>7. k \in T
  BY <1>1 DEF T, n
<1>8. PICK r \in F : rank[r] = k
  BY <1>6, <1>7 DEF Surjection
<1> QED BY <1>8 DEF rank

LEMMA RankGrows ==
    ASSUME NEW F, NEW G, F \subseteq G, G \subseteq Row, NEW r
    PROVE  /\ Cardinality(F \cap Newer[r]) \in Nat /\ Cardinality(G \cap Newer[r]) \in Nat
           /\ Cardinality(F \cap Newer[r]) <= Cardinality(G \cap Newer[r])
<1>1. /\ IsFiniteSet(G \cap Newer[r]) /\ IsFiniteSet(F \cap Newer[r])
      /\ F \cap Newer[r] \subseteq G \cap Newer[r]
  BY RowsAreFinite
<1> QED BY <1>1, FS_Subset, FS_CardinalityType

\* The last page holds the last row, and there are no more pages than rows.
LEMMA PagesHoldAll ==
    ASSUME NEW t \in Nat, NEW p \in Nat, p > 0, p >= TotalPages(t)
    PROVE  p * PerPage >= t
<1>1. CASE t = 0
  BY <1>1, PageAssumption
<1>2. CASE t # 0
  <2> DEFINE q == (t + PerPage - 1) \div PerPage
  <2>1. PerPage \in Nat /\ PerPage > 0
    BY PageAssumption
  <2>2. q \in Nat /\ t + PerPage - 1 < q * PerPage + PerPage
    BY <2>1
  <2>3. p >= q
    BY <1>2 DEF TotalPages
  <2> HIDE DEF q
  <2>4. p * PerPage >= q * PerPage
    BY <2>1, <2>2, <2>3
  <2> QED BY <2>1, <2>2, <2>4
<1> QED BY <1>1, <1>2

LEMMA PagesAreFew ==
    ASSUME NEW t \in Nat
    PROVE  TotalPages(t) \in Nat /\ TotalPages(t) <= t + 1 /\ (t # 0 => TotalPages(t) <= t)
<1>1. CASE t = 0
  BY <1>1 DEF TotalPages
<1>2. CASE t # 0
  <2> DEFINE q == (t + PerPage - 1) \div PerPage
  <2>1. PerPage \in Nat /\ PerPage > 0
    BY PageAssumption
  <2>2. q \in Nat /\ q * PerPage <= t + PerPage - 1
    BY <2>1
  <2>3. TotalPages(t) = q
    BY <1>2 DEF TotalPages
  <2> HIDE DEF q
  <2>4. q <= t
    <3> SUFFICES ASSUME q >= t + 1 PROVE FALSE
      BY <2>2
    <3>1. q * PerPage >= (t + 1) * PerPage
      BY <2>1, <2>2
    <3>2. (t + 1) * PerPage = t * PerPage + PerPage /\ t * PerPage >= t
      BY <2>1
    <3> QED BY <2>1, <2>2, <3>1, <3>2
  <2> QED BY <2>2, <2>3, <2>4
<1> QED BY <1>1, <1>2

-----------------------------------------------------------------------------
(* What a client is shown.                                                 *)

ClientView == [page : 0..(MaxRow + 1), total : 0..MaxRow, errors : BOOLEAN,
               counted : SUBSET Row, found : SUBSET Row, shown : SUBSET Row,
               begun : SUBSET Row, seen : SUBSET Row]

ViewsOK ==
    /\ rows \subseteq Row /\ row \in Row \cup {0}
    /\ call["task"].step # "idle" => row \in Row
    /\ view \in [Client -> ClientView]

\* the steps of a client's command, as far as its answer matters
Waits(c) == call[c].step \in {"sending", "queued"}
Ends(c) == /\ call'[c] = NoCall /\ view'[c] = NewView
Waited(c) == /\ Waits(c) /\ view'[c] = view[c]
             /\ \E step \in {"queued", "answered"} : call'[c] = [call[c] EXCEPT !.step = step]
Result(c, op, ok) == /\ call[c].op = op /\ rows' = rows
                     /\ call'[c] = [op |-> op, step |-> "answered", ok |-> ok]
IsCounted(c) == \E ok \in BOOLEAN :
    /\ Result(c, "count", ok)
    /\ view'[c] = IF ok THEN [view[c] EXCEPT !.counted = Counted] ELSE view[c]
IsFound(c) == \E ok \in BOOLEAN :
    /\ Result(c, "query", ok)
    /\ view'[c] = IF ok THEN [view[c] EXCEPT !.found = Counted,
                                             !.shown = Page(Counted, view[c].page)]
                        ELSE view[c]

ClientStep(c) ==
    \/ call'[c] = call[c] /\ view'[c] = view[c]
    \/ Ends(c) \/ Waited(c) \/ IsCounted(c) \/ IsFound(c)
    \/ RequestPage(c) \/ HandlerCounted(c) \/ HandlerAnswers(c)

LEMMA AnswerEffect ==
    ASSUME ToldInv, NEW s \in Store, NEW c \in Caller, NEW ok \in BOOLEAN, Answer(s, c, ok)
    PROVE  /\ call'[c] = [op |-> call[c].op, step |-> "answered", ok |-> ok]
           /\ \A d \in Caller \ {c} : call'[d] = call[d]
<1>1. call' = [call EXCEPT ![c].step = "answered", ![c].ok = ok]
  BY DEF Answer
<1>2. call[c] \in Command /\ call \in [Caller -> Command]
  BY DEF ToldInv
<1>3. [[call[c] EXCEPT !.step = "answered"] EXCEPT !.ok = ok] =
        [op |-> call[c].op, step |-> "answered", ok |-> ok]
  BY <1>2, AnsweredCommand
<1>4. call' = [call EXCEPT ![c] = [[call[c] EXCEPT !.step = "answered"] EXCEPT !.ok = ok]]
  BY <1>1, <1>2
<1> QED BY <1>2, <1>3, <1>4

\* What the worker's answer is to the client it answers.
LEMMA ExecuteClient ==
    ASSUME ToldInv, ViewsOK, NEW s \in Store, Execute(s), NEW c \in Client
    PROVE  ClientStep(c) /\ rows \subseteq rows'
<1>1. c \in Caller /\ view \in [Client -> ClientView]
  BY CallerFacts DEF ViewsOK
<1>2. CASE AnswerNobody(s)
  BY <1>1, <1>2 DEF AnswerNobody, ClientStep, database
<1>3. ASSUME NEW d \in Caller, DoInsert(s, d)
      PROVE  ClientStep(c) /\ rows \subseteq rows'
  <2>1. PICK ok \in BOOLEAN : Answer(s, d, ok) /\ rows \subseteq rows' /\ view' = view
    BY <1>3 DEF DoInsert
  <2>2. d # c
    BY <1>3 DEF DoInsert, ToldInv
  <2>3. call'[c] = call[c]
    BY <1>1, <2>1, <2>2, AnswerEffect
  <2> QED BY <1>1, <2>1, <2>3 DEF ClientStep
<1>4. ASSUME NEW d \in Caller, DoCount(s, d)
      PROVE  ClientStep(c) /\ rows \subseteq rows'
  <2>1. PICK ok \in BOOLEAN :
            /\ Answer(s, d, ok)
            /\ IF ok THEN view' = [view EXCEPT ![d].counted = Counted] ELSE view' = view
    BY <1>4 DEF DoCount
  <2>2. call[d].op = "count" /\ rows' = rows
    BY <1>4 DEF DoCount
  <2>3. /\ call'[d] = [op |-> "count", step |-> "answered", ok |-> ok]
        /\ \A e \in Caller \ {d} : call'[e] = call[e]
    BY <2>1, <2>2, AnswerEffect
  <2>4. CASE d = c
    <3>1. view'[c] = IF ok THEN [view[c] EXCEPT !.counted = Counted] ELSE view[c]
      BY <1>1, <2>1, <2>4
    <3>2. IsCounted(c)
      BY <2>2, <2>3, <2>4, <3>1 DEF IsCounted, Result
    <3> QED BY <1>1, <2>1, <2>2, <3>2 DEF ClientStep
  <2>5. CASE d # c
    BY <1>1, <2>1, <2>2, <2>3, <2>5 DEF ClientStep
  <2> QED BY <2>4, <2>5
<1>5. ASSUME NEW d \in Caller, DoQuery(s, d)
      PROVE  ClientStep(c) /\ rows \subseteq rows'
  <2>1. PICK ok \in BOOLEAN :
            /\ Answer(s, d, ok)
            /\ IF ok THEN view' = [view EXCEPT ![d].found = Counted,
                                               ![d].shown = Page(Counted, view[d].page)]
                     ELSE view' = view
    BY <1>5 DEF DoQuery, Counted
  <2>2. call[d].op = "query" /\ rows' = rows
    BY <1>5 DEF DoQuery
  <2>3. /\ call'[d] = [op |-> "query", step |-> "answered", ok |-> ok]
        /\ \A e \in Caller \ {d} : call'[e] = call[e]
    BY <2>1, <2>2, AnswerEffect
  <2>4. CASE d = c
    <3>1. view'[c] = IF ok THEN [view[c] EXCEPT !.found = Counted,
                                                !.shown = Page(Counted, view[c].page)]
                           ELSE view[c]
      BY <1>1, <2>1, <2>4
    <3>2. IsFound(c)
      BY <2>2, <2>3, <2>4, <3>1 DEF IsFound, Result
    <3> QED BY <1>1, <2>1, <2>2, <3>2 DEF ClientStep
  <2>5. CASE d # c
    BY <1>1, <2>1, <2>2, <2>3, <2>5 DEF ClientStep
  <2> QED BY <2>4, <2>5
<1> QED BY <1>2, <1>3, <1>4, <1>5 DEF Execute

LEMMA ClientSteps ==
    ASSUME ToldInv, ViewsOK, [Next]_vars, NEW c \in Client
    PROVE  ClientStep(c) /\ rows \subseteq rows'
<1>1. c \in Caller /\ view \in [Client -> ClientView] /\ call \in [Caller -> Command]
      /\ call[c] \in Command
  BY CallerFacts DEF ViewsOK, ToldInv
<1>2. CASE Open \/ UNCHANGED vars
  BY <1>1, <1>2 DEF Open, vars, database, ClientStep
<1>3. CASE Die
  BY <1>1, <1>3 DEF Die, ClientStep, Ends, database
<1>4. ASSUME NEW s \in Store, Prepare(s)
      PROVE  ClientStep(c) /\ rows \subseteq rows'
  <2>1. CASE CreateTables(s) \/ ReadVersion(s) \/ RecordVersion(s) \/ AlterTable(s) \/ UpdateVersion(s)
    BY <1>1, <2>1 DEF CreateTables, ReadVersion, RecordVersion, AlterTable, UpdateVersion, Others,
                      ClientStep, database
  <2>2. CASE AlterFails(s) \/ PrepareFails(s)
    <3>1. /\ call' = [d \in Caller |->
                 IF StoreOf(d) = s /\ call[d].step = "queued"
                 THEN [call[d] EXCEPT !.step = "answered"] ELSE call[d]]
          /\ view' = view /\ rows' = rows
      BY <2>2 DEF AlterFails, PrepareFails, ThreadEnds, database
    <3>2. \/ call'[c] = call[c]
          \/ call[c].step = "queued" /\ call'[c] = [call[c] EXCEPT !.step = "answered"]
      BY <1>1, <3>1
    <3> QED BY <1>1, <3>1, <3>2 DEF ClientStep, Waited, Waits
  <2> QED BY <1>4, <2>1, <2>2 DEF Prepare
<1>5. ASSUME NEW s \in Store, Execute(s)
      PROVE  ClientStep(c) /\ rows \subseteq rows'
  BY <1>5, ExecuteClient
<1>6. ASSUME NEW d \in Caller, Send(d)
      PROVE  ClientStep(c) /\ rows \subseteq rows'
  <2>1. /\ call[d].step = "sending" /\ view' = view /\ rows' = rows
        /\ \E step \in {"queued", "answered"} : call' = [call EXCEPT ![d].step = step]
    BY <1>6 DEF Send, database
  <2>2. CASE d = c
    <3>1. \E step \in {"queued", "answered"} : call'[c] = [call[c] EXCEPT !.step = step]
      BY <1>1, <2>1, <2>2
    <3> QED BY <1>1, <2>1, <2>2, <3>1 DEF ClientStep, Waited, Waits
  <2>3. CASE d # c
    BY <1>1, <2>1, <2>3 DEF ClientStep
  <2> QED BY <2>2, <2>3
<1>7. CASE TaskInserts \/ TaskGoesOn
  BY <1>1, <1>7, CallerFacts DEF TaskInserts, TaskGoesOn, ClientStep, database
<1>8. ASSUME NEW d \in Client, RequestPage(d) \/ HandlerCounted(d) \/ HandlerAnswers(d)
      PROVE  ClientStep(c) /\ rows \subseteq rows'
  <2>1. rows' = rows /\ \E u, k : view' = [view EXCEPT ![d] = u] /\ call' = [call EXCEPT ![d] = k]
    BY <1>8 DEF RequestPage, HandlerCounted, HandlerAnswers, database
  <2>2. CASE d = c
    BY <1>1, <1>8, <2>1, <2>2 DEF ClientStep
  <2>3. CASE d # c
    BY <1>1, <2>1, <2>3 DEF ClientStep
  <2> QED BY <2>2, <2>3
<1>9. ASSUME NEW d \in Client, Abandon(d)
      PROVE  ClientStep(c) /\ rows \subseteq rows'
  <2>1. /\ rows' = rows /\ view' = [view EXCEPT ![d] = NewView]
        /\ call' = [call EXCEPT ![d] = NoCall]
    BY <1>9 DEF Abandon, database
  <2> QED BY <1>1, <2>1 DEF ClientStep, Ends
<1> QED BY <1>2, <1>3, <1>4, <1>5, <1>6, <1>7, <1>8, <1>9 DEF Next

\* The state a client's command is in.
CallOK(c) ==
    /\ call[c].op \in {"none", "count", "query"}
    /\ call[c].step = "idle" <=> call[c].op = "none"
    /\ call[c].op # "none" => view[c].page >= 1
    /\ Waits(c) => ~call[c].ok

\* The total is that of a count, whose rows a later query finds again.
AnswerOK(c) ==
    /\ view[c].counted \subseteq Counted /\ view[c].found \subseteq Counted
    /\ call[c].op = "query" => view[c].total \in {0, Cardinality(view[c].counted)}
    /\ call[c].op = "query" /\ call[c].step = "answered" /\ call[c].ok =>
         /\ view[c].counted \subseteq view[c].found
         /\ view[c].shown = Page(view[c].found, view[c].page)

ClientsInv == ViewsOK /\ \A c \in Client : CallOK(c) /\ AnswerOK(c)

LEMMA ClientsInit == Init => ClientsInv
<1> SUFFICES ASSUME Init PROVE ClientsInv
  OBVIOUS
<1>1. /\ rows = {} /\ row = 0 /\ \A c \in Caller : call[c] = NoCall
      /\ view = [c \in Client |-> NewView]
  BY DEF Init
<1>2. NewView \in ClientView
  BY RowAssumption DEF NewView, ClientView
<1>3. ViewsOK
  BY <1>1, <1>2, CallerFacts DEF ViewsOK, NoCall
<1>4. ASSUME NEW c \in Client PROVE CallOK(c) /\ AnswerOK(c)
  BY <1>1, CallerFacts DEF CallOK, AnswerOK, NoCall, NewView, Waits
<1> QED BY <1>3, <1>4 DEF ClientsInv

LEMMA CountedRows ==
    ASSUME rows \subseteq Row, rows \subseteq rows'
    PROVE  /\ Counted \subseteq Row /\ Counted \subseteq Counted'
           /\ rows' = rows => Counted' = Counted
           /\ \A p : Page(Counted, p) \subseteq Counted
BY DEF Counted, Page

\* a request for a page, as far as the types go
LEMMA RequestView ==
    ASSUME ViewsOK, NEW c \in Client, RequestPage(c)
    PROVE  /\ call[c].step = "idle" /\ ~LastPage(c) /\ rows' = rows
           /\ view'[c] \in ClientView /\ view'[c].page = view[c].page + 1
           /\ view'[c].total = 0 /\ view'[c].shown = {}
           /\ view'[c].begun = IF view[c].page = 0 THEN rows ELSE view[c].begun
           /\ view'[c].counted = view[c].counted /\ view'[c].found = view[c].found
           /\ view'[c].seen = view[c].seen /\ view'[c].errors = view[c].errors
<1> DEFINE v == view[c]
           begun == IF v.page = 0 THEN rows ELSE v.begun
<1>1. v \in ClientView /\ rows \subseteq Row
  BY DEF ViewsOK
<1>2. /\ view'[c] = [v EXCEPT !.page = v.page + 1, !.total = 0, !.shown = {}, !.begun = begun]
      /\ call[c].step = "idle" /\ ~LastPage(c) /\ rows' = rows
  BY DEF RequestPage, ViewsOK, database
<1>3. begun \in SUBSET Row
  BY <1>1 DEF ClientView
<1>4. v.page + 1 \in 0..(MaxRow + 1)
  <2>1. v.page \in 0..(MaxRow + 1) /\ v.total \in 0..MaxRow /\ MaxRow \in Nat
    BY <1>1, RowAssumption DEF ClientView
  <2>2. v.page = 0 \/ ~(v.page >= TotalPages(v.total))
    BY <1>2, <2>1 DEF LastPage
  <2>3. TotalPages(v.total) \in Nat /\ TotalPages(v.total) <= v.total + 1
    BY <2>1, PagesAreFew
  <2> HIDE DEF v
  <2> QED BY <2>1, <2>2, <2>3
<1> HIDE DEF begun
<1>5. /\ view'[c].page = v.page + 1 /\ view'[c].total = 0 /\ view'[c].shown = {}
      /\ view'[c].begun = begun /\ view'[c].counted = v.counted /\ view'[c].found = v.found
      /\ view'[c].seen = v.seen /\ view'[c].errors = v.errors
  BY <1>1, <1>2 DEF ClientView
<1>6. view'[c] \in ClientView
  <2> DEFINE page == v.page + 1
  <2>1. page \in 0..(MaxRow + 1) /\ 0 \in 0..MaxRow
    BY <1>4, RowAssumption
  <2>2. view'[c] = [v EXCEPT !.page = page, !.total = 0, !.shown = {}, !.begun = begun]
    BY <1>2
  <2> HIDE DEF page, v
  <2> QED BY <1>1, <1>3, <2>1, <2>2 DEF ClientView
<1> QED BY <1>2, <1>5, <1>6 DEF begun

LEMMA CountedView ==
    ASSUME ViewsOK, NEW c \in Client, HandlerCounted(c)
    PROVE  /\ call[c].step = "answered" /\ call[c].op = "count" /\ rows' = rows
           /\ view'[c] \in ClientView
           /\ view'[c].total = IF call[c].ok THEN Cardinality(view[c].counted) ELSE 0
           /\ view'[c].errors <=> view[c].errors \/ ~call[c].ok
           /\ view'[c].page = view[c].page /\ view'[c].counted = view[c].counted
           /\ view'[c].found = view[c].found /\ view'[c].shown = view[c].shown
           /\ view'[c].begun = view[c].begun /\ view'[c].seen = view[c].seen
<1> DEFINE v == view[c]
           total == IF call[c].ok THEN Cardinality(v.counted) ELSE 0
           errors == v.errors \/ ~call[c].ok
<1>1. v \in ClientView
  BY DEF ViewsOK
<1>2. /\ view'[c] = [v EXCEPT !.total = total, !.errors = errors]
      /\ call[c].step = "answered" /\ call[c].op = "count" /\ rows' = rows
  BY DEF HandlerCounted, ViewsOK, database
<1>3. total \in 0..MaxRow /\ errors \in BOOLEAN
  <2>1. v.counted \subseteq Row
    BY <1>1 DEF ClientView
  <2>2. Cardinality(v.counted) \in 0..MaxRow
    BY <2>1, RowsAreFinite
  <2> QED BY <2>2, RowAssumption
<1> HIDE DEF total, errors
<1>4. /\ view'[c].total = total /\ view'[c].errors = errors
      /\ view'[c].page = v.page /\ view'[c].counted = v.counted
      /\ view'[c].found = v.found /\ view'[c].shown = v.shown
      /\ view'[c].begun = v.begun /\ view'[c].seen = v.seen
  BY <1>1, <1>2 DEF ClientView
<1>5. view'[c] \in ClientView
  BY <1>1, <1>2, <1>3 DEF ClientView
<1>6. view'[c].errors <=> view[c].errors \/ ~call[c].ok
  BY <1>4 DEF errors
<1> QED BY <1>2, <1>4, <1>5, <1>6 DEF total

LEMMA AnsweredView ==
    ASSUME ViewsOK, NEW c \in Client, HandlerAnswers(c)
    PROVE  /\ call[c].step = "answered" /\ call[c].op = "query" /\ rows' = rows
           /\ view'[c] \in ClientView
           /\ view'[c].seen = view[c].seen \cup view[c].shown
           /\ view'[c].errors <=> view[c].errors \/ ~call[c].ok
           /\ view'[c].page = view[c].page /\ view'[c].counted = view[c].counted
           /\ view'[c].found = view[c].found /\ view'[c].shown = view[c].shown
           /\ view'[c].begun = view[c].begun /\ view'[c].total = view[c].total
<1> DEFINE v == view[c]
           seen == v.seen \cup v.shown
           errors == v.errors \/ ~call[c].ok
<1>1. v \in ClientView
  BY DEF ViewsOK
<1>2. /\ view'[c] = [v EXCEPT !.seen = seen, !.errors = errors]
      /\ call[c].step = "answered" /\ call[c].op = "query" /\ rows' = rows
  BY DEF HandlerAnswers, ViewsOK, database
<1>3. seen \in SUBSET Row /\ errors \in BOOLEAN
  BY <1>1 DEF ClientView
<1> HIDE DEF seen, errors
<1>4. /\ view'[c].seen = seen /\ view'[c].errors = errors
      /\ view'[c].page = v.page /\ view'[c].counted = v.counted
      /\ view'[c].found = v.found /\ view'[c].shown = v.shown
      /\ view'[c].begun = v.begun /\ view'[c].total = v.total
  BY <1>1, <1>2 DEF ClientView
<1>5. view'[c] \in ClientView
  BY <1>1, <1>2, <1>3 DEF ClientView
<1>6. view'[c].errors <=> view[c].errors \/ ~call[c].ok
  BY <1>4 DEF errors
<1> QED BY <1>2, <1>4, <1>5, <1>6 DEF seen

\* A result, an error or the rows.
LEMMA CountView ==
    ASSUME ViewsOK, NEW c \in Client, IsCounted(c)
    PROVE  \E ok \in BOOLEAN :
             /\ Result(c, "count", ok) /\ view'[c] \in ClientView
             /\ view'[c].counted = IF ok THEN Counted ELSE view[c].counted
             /\ view'[c].total = view[c].total /\ view'[c].errors = view[c].errors
             /\ view'[c].page = view[c].page /\ view'[c].found = view[c].found
             /\ view'[c].shown = view[c].shown /\ view'[c].begun = view[c].begun
             /\ view'[c].seen = view[c].seen
<1>1. view[c] \in ClientView /\ Counted \in SUBSET Row
  BY CountedRows DEF ViewsOK, Counted
<1>2. PICK ok \in BOOLEAN :
        /\ Result(c, "count", ok)
        /\ view'[c] = IF ok THEN [view[c] EXCEPT !.counted = Counted] ELSE view[c]
  BY DEF IsCounted
<1> QED BY <1>1, <1>2 DEF ClientView

LEMMA QueryView ==
    ASSUME ViewsOK, NEW c \in Client, IsFound(c)
    PROVE  \E ok \in BOOLEAN :
             /\ Result(c, "query", ok) /\ view'[c] \in ClientView
             /\ view'[c].found = IF ok THEN Counted ELSE view[c].found
             /\ view'[c].shown = IF ok THEN Page(Counted, view[c].page) ELSE view[c].shown
             /\ view'[c].total = view[c].total /\ view'[c].errors = view[c].errors
             /\ view'[c].page = view[c].page /\ view'[c].counted = view[c].counted
             /\ view'[c].begun = view[c].begun /\ view'[c].seen = view[c].seen
<1> DEFINE page == Page(Counted, view[c].page)
<1>1. view[c] \in ClientView /\ Counted \in SUBSET Row /\ page \in SUBSET Row
  BY DEF ViewsOK, Counted, Page
<1>2. PICK ok \in BOOLEAN :
        /\ Result(c, "query", ok)
        /\ view'[c] = IF ok THEN [view[c] EXCEPT !.found = Counted, !.shown = page] ELSE view[c]
  BY DEF IsFound
<1> HIDE DEF page
<1>3. CASE ok
  BY <1>1, <1>2, <1>3 DEF ClientView, page
<1>4. CASE ~ok
  BY <1>1, <1>2, <1>4
<1> QED BY <1>3, <1>4

\* A step changes the view of one client, or all begin anew.
LEMMA ViewShape ==
    ASSUME ViewsOK, [Next]_vars
    PROVE  view' = [c \in Client |-> view'[c]]
<1>1. view \in [Client -> ClientView]
  BY DEF ViewsOK
<1>2. ASSUME NEW s \in Store, Prepare(s) \/ Execute(s) PROVE view' = [c \in Client |-> view'[c]]
  <2>1. CASE Prepare(s)
    BY <1>1, <2>1 DEF Prepare, CreateTables, ReadVersion, RecordVersion, AlterTable,
       UpdateVersion, AlterFails, PrepareFails, Others
  <2>2. CASE Execute(s)
    BY <1>1, <2>2 DEF Execute, AnswerNobody, DoInsert, DoCount, DoQuery
  <2> QED BY <1>2, <2>1, <2>2
<1>3. ASSUME NEW c \in Client, RequestPage(c) \/ HandlerCounted(c) \/ HandlerAnswers(c) \/ Abandon(c)
      PROVE  view' = [d \in Client |-> view'[d]]
  BY <1>1, <1>3 DEF RequestPage, HandlerCounted, HandlerAnswers, Abandon
<1>4. CASE Open \/ Die \/ TaskInserts \/ TaskGoesOn \/ (\E c \in Caller : Send(c)) \/ UNCHANGED vars
  BY <1>1, <1>4 DEF Open, Die, TaskInserts, TaskGoesOn, Send, vars
<1> QED BY <1>2, <1>3, <1>4 DEF Next

LEMMA ViewsStep ==
    ASSUME ToldInv, ClientsInv, [Next]_vars
    PROVE  ViewsOK'
<1> USE DEF ClientsInv
<1>1. /\ rows \subseteq Row /\ row \in Row \cup {0} /\ "task" \in Caller
      /\ call["task"].step # "idle" => row \in Row
      /\ call \in [Caller -> Command]
  BY CallerFacts DEF ViewsOK, ToldInv
<1>2. rows' \subseteq Row
  <2>1. CASE \E s \in Store : \E c \in Caller : DoInsert(s, c)
    <3>1. PICK s \in Store, c \in Caller : DoInsert(s, c)
      BY <2>1
    <3>2. c = "task" /\ rows' \subseteq rows \cup {row} /\ queue[s] # <<>> /\ c = Head(queue[s])
      BY <3>1 DEF DoInsert, ToldInv, Caller, Answer
    <3>3. call["task"].step = "queued"
      <4>1. queue[s] \in Seq(Caller \cup {"gone"})
        BY DEF ToldInv
      <4>2. 1 \in DOMAIN queue[s] /\ queue[s][1] = "task"
        BY <3>2, <4>1
      <4> QED BY <4>2 DEF ToldInv
    <3> QED BY <1>1, <3>2, <3>3
  <2>2. CASE ~\E s \in Store : \E c \in Caller : DoInsert(s, c)
    <3>1. rows' = rows
      BY <2>2 DEF Next, vars, database, Open, Die, Prepare, CreateTables, ReadVersion,
         RecordVersion, AlterTable, UpdateVersion, AlterFails, PrepareFails, Others, Execute,
         AnswerNobody, DoCount, DoQuery, Send, TaskInserts, TaskGoesOn, RequestPage,
         HandlerCounted, HandlerAnswers, Abandon
    <3> QED BY <1>1, <3>1
  <2> QED BY <2>1, <2>2
<1>3. row' \in Row \cup {0} /\ (call'["task"].step # "idle" => row' \in Row)
  <2>1. CASE TaskInserts
    BY <2>1 DEF TaskInserts
  <2>2. CASE Die
    BY <1>1, <2>2 DEF Die, NoCall
  <2>3. CASE TaskGoesOn
    BY <1>1, <2>3 DEF TaskGoesOn, NoCall
  <2>4. ASSUME row' = row, call'["task"].step # "idle" => call["task"].step # "idle"
        PROVE  row' \in Row \cup {0} /\ (call'["task"].step # "idle" => row' \in Row)
    BY <1>1, <2>4
  <2>5. ASSUME NEW s \in Store, Prepare(s)
        PROVE  row' = row /\ (call'["task"].step # "idle" => call["task"].step # "idle")
    <3>1. row' = row
      BY <2>5 DEF Prepare, CreateTables, ReadVersion, RecordVersion, AlterTable, UpdateVersion,
         AlterFails, PrepareFails, Others
    <3>2. call' = call \/ ThreadEnds(s)
      BY <2>5 DEF Prepare, CreateTables, ReadVersion, RecordVersion, AlterTable, UpdateVersion,
         AlterFails, PrepareFails, Others
    <3> QED BY <1>1, <3>1, <3>2 DEF ThreadEnds
  <2>6. ASSUME NEW s \in Store, Execute(s)
        PROVE  row' = row /\ (call'["task"].step # "idle" => call["task"].step # "idle")
    <3>1. CASE AnswerNobody(s)
      BY <3>1 DEF AnswerNobody
    <3>2. ASSUME NEW c \in Caller, DoInsert(s, c) \/ DoCount(s, c) \/ DoQuery(s, c)
          PROVE  row' = row /\ (call'["task"].step # "idle" => call["task"].step # "idle")
      <4>1. PICK ok \in BOOLEAN : Answer(s, c, ok)
        BY <3>2 DEF DoInsert, DoCount, DoQuery
      <4>2. row' = row /\ \A d \in Caller \ {c} : call'[d] = call[d]
        BY <4>1, AnswerEffect DEF Answer
      <4>3. CASE c = "task"
        <5>1. queue[s] \in Seq(Caller \cup {"gone"}) /\ queue[s] # <<>> /\ Head(queue[s]) = "task"
          BY <4>1, <4>3 DEF ToldInv, Answer
        <5>2. 1 \in DOMAIN queue[s] /\ queue[s][1] = "task"
          BY <5>1
        <5>3. call["task"].step = "queued"
          BY <5>2 DEF ToldInv
        <5> QED BY <4>2, <5>3
      <4> QED BY <1>1, <4>2, <4>3
    <3> QED BY <2>6, <3>1, <3>2 DEF Execute
  <2>7. ASSUME NEW c \in Caller, Send(c)
        PROVE  row' = row /\ (call'["task"].step # "idle" => call["task"].step # "idle")
    <3>1. /\ row' = row /\ call[c].step = "sending"
          /\ \E step \in {"queued", "answered"} : call' = [call EXCEPT ![c].step = step]
      BY <2>7 DEF Send
    <3> QED BY <1>1, <3>1
  <2>8. ASSUME NEW c \in Client,
               RequestPage(c) \/ HandlerCounted(c) \/ HandlerAnswers(c) \/ Abandon(c)
        PROVE  row' = row /\ call'["task"] = call["task"]
    BY <1>1, <2>8, CallerFacts DEF RequestPage, HandlerCounted, HandlerAnswers, Abandon
  <2>9. CASE Open \/ UNCHANGED vars
    BY <1>1, <2>9 DEF Open, vars
  <2> QED BY <2>1, <2>2, <2>3, <2>4, <2>5, <2>6, <2>7, <2>8, <2>9 DEF Next
<1>4. ASSUME NEW c \in Client PROVE view'[c] \in ClientView
  <2>1. ViewsOK /\ view[c] \in ClientView /\ NewView \in ClientView
    BY RowAssumption DEF ViewsOK, NewView, ClientView
  <2>2. ClientStep(c)
    BY ClientSteps
  <2> QED BY <2>1, <2>2, CountView, QueryView, RequestView, CountedView, AnsweredView
          DEF ClientStep, Ends, Waited
<1>5. view' = [c \in Client |-> view'[c]]
  BY ViewShape
<1> QED BY <1>2, <1>3, <1>4, <1>5 DEF ViewsOK

LEMMA ClientsStep ==
    ASSUME ToldInv, ClientsInv, [Next]_vars
    PROVE  ClientsInv'
<1> SUFFICES ASSUME NEW c \in Client PROVE CallOK(c)' /\ AnswerOK(c)'
  BY ViewsStep DEF ClientsInv
<1>1. /\ ViewsOK /\ CallOK(c) /\ AnswerOK(c) /\ ClientStep(c)
      /\ call[c] \in Command /\ view[c] \in ClientView
  BY ClientSteps, CallerFacts DEF ClientsInv, ViewsOK, ToldInv
<1>2. /\ Counted \subseteq Row /\ Counted \subseteq Counted'
      /\ rows' = rows => Counted' = Counted
  BY <1>1, ClientSteps, CountedRows DEF ViewsOK
<1>3. CASE call'[c] = call[c] /\ view'[c] = view[c]
  BY <1>1, <1>2, <1>3 DEF CallOK, AnswerOK, Waits
<1>4. CASE Ends(c)
  BY <1>2, <1>4 DEF Ends, CallOK, AnswerOK, Waits, NoCall, NewView
<1>5. CASE Waited(c)
  <2>1. PICK step \in {"queued", "answered"} : call'[c] = [call[c] EXCEPT !.step = step]
    BY <1>5 DEF Waited
  <2>2. /\ call'[c].op = call[c].op /\ call'[c].step = step /\ ~call'[c].ok
        /\ call[c].step # "idle" /\ view'[c] = view[c]
    BY <1>1, <1>5, <2>1 DEF Waited, Waits, CallOK, Command
  <2>3. CallOK(c)'
    BY <1>1, <2>2 DEF CallOK, Waits
  <2>4. AnswerOK(c)'
    BY <1>1, <1>2, <2>2 DEF AnswerOK
  <2> QED BY <2>3, <2>4
<1>6. CASE IsCounted(c)
  <2>1. PICK ok \in BOOLEAN :
             /\ Result(c, "count", ok)
             /\ view'[c].counted = IF ok THEN Counted ELSE view[c].counted
             /\ view'[c].page = view[c].page /\ view'[c].found = view[c].found
    BY <1>1, <1>6, CountView
  <2>2. CallOK(c)'
    BY <1>1, <2>1 DEF Result, CallOK, Waits
  <2>3. AnswerOK(c)'
    BY <1>1, <1>2, <2>1 DEF Result, AnswerOK
  <2> QED BY <2>2, <2>3
<1>7. CASE IsFound(c)
  <2>1. PICK ok \in BOOLEAN :
             /\ Result(c, "query", ok)
             /\ view'[c].found = IF ok THEN Counted ELSE view[c].found
             /\ view'[c].shown = IF ok THEN Page(Counted, view[c].page) ELSE view[c].shown
             /\ view'[c].total = view[c].total
             /\ view'[c].page = view[c].page /\ view'[c].counted = view[c].counted
    BY <1>1, <1>7, QueryView
  <2>2. CallOK(c)'
    BY <1>1, <2>1 DEF Result, CallOK, Waits
  <2>3. AnswerOK(c)'
    BY <1>1, <1>2, <2>1 DEF Result, AnswerOK
  <2> QED BY <2>2, <2>3
<1>8. CASE RequestPage(c)
  <2>1. /\ call'[c] = Asks("count") /\ rows' = rows
        /\ view'[c].page = view[c].page + 1
        /\ view'[c].counted = view[c].counted /\ view'[c].found = view[c].found
    BY <1>1, <1>8, RequestView, CallerFacts DEF RequestPage, ToldInv
  <2>2. view[c].page \in Nat
    BY <1>1, RowAssumption DEF ClientView
  <2>3. CallOK(c)'
    BY <2>1, <2>2 DEF CallOK, Asks, Waits
  <2>4. AnswerOK(c)'
    BY <1>1, <1>2, <2>1 DEF AnswerOK, Asks
  <2> QED BY <2>3, <2>4
<1>9. CASE HandlerCounted(c)
  <2>1. /\ call'[c] = Asks("query") /\ rows' = rows
        /\ view'[c].total = IF call[c].ok THEN Cardinality(view[c].counted) ELSE 0
        /\ view'[c].page = view[c].page /\ call[c].op = "count"
        /\ view'[c].counted = view[c].counted /\ view'[c].found = view[c].found
    BY <1>1, <1>9, CountedView, CallerFacts DEF HandlerCounted, ToldInv
  <2>2. CallOK(c)'
    BY <1>1, <2>1 DEF CallOK, Asks, Waits
  <2>3. AnswerOK(c)'
    BY <1>1, <1>2, <2>1 DEF AnswerOK, Asks
  <2> QED BY <2>2, <2>3
<1>10. CASE HandlerAnswers(c)
  <2>1. /\ call'[c] = NoCall /\ rows' = rows
        /\ view'[c].counted = view[c].counted /\ view'[c].found = view[c].found
    BY <1>1, <1>10, AnsweredView, CallerFacts DEF HandlerAnswers, ToldInv
  <2>2. CallOK(c)'
    BY <2>1 DEF CallOK, NoCall, Waits
  <2>3. AnswerOK(c)'
    BY <1>1, <1>2, <2>1 DEF AnswerOK, NoCall
  <2> QED BY <2>2, <2>3
<1> QED BY <1>1, <1>3, <1>4, <1>5, <1>6, <1>7, <1>8, <1>9, <1>10 DEF ClientStep

LEMMA SpecClients == Spec => [](ToldInv /\ ClientsInv)
<1>1. ToldInv /\ ClientsInv /\ [Next]_vars => ToldInv' /\ ClientsInv'
  BY ToldStep, ClientsStep
<1> QED BY <1>1, ToldInit, ClientsInit, PTL DEF Spec

\* The rows of a page are those of PerPage ranks.
LEMMA PageRanks ==
    ASSUME NEW p \in Nat, NEW F, NEW r \in F, NEW k \in Nat,
           k = Cardinality(F \cap Newer[r])
    PROVE  r \in Page(F, p) <=> (p - 1) * PerPage <= k /\ k < p * PerPage
<1>1. PerPage \in Nat
  BY PageAssumption
<1>2. (p - 1) * PerPage \in Int /\ p * PerPage \in Int
  BY <1>1
<1> DEFINE a == (p - 1) * PerPage
           b == p * PerPage
<1>3. r \in Page(F, p) <=> k \in a..(b - 1)
  BY DEF Page
<1> HIDE DEF a, b
<1>4. k \in a..(b - 1) <=> a <= k /\ k < b
  BY <1>2 DEF a, b
<1> QED BY <1>3, <1>4 DEF a, b

\* A page that the total promises is never empty, for any rows, filters and page
\* sizes: the rows of the count are found again, and every rank below their
\* number is that of one (list_events, routes/events.rs; worker.rs:476).
THEOREM StorePagePresent == Spec => []PagePresent
<1>1. ClientsInv => PagePresent
  <2> SUFFICES ASSUME ClientsInv, NEW c \in Client,
                      call[c].step = "answered", call[c].op = "query", call[c].ok,
                      view[c].total > (view[c].page - 1) * PerPage
               PROVE  view[c].shown # {}
    BY DEF PagePresent
  <2> DEFINE F == view[c].found
             G == view[c].counted
             p == view[c].page
             k == (p - 1) * PerPage
  <2>1. /\ view[c] \in ClientView /\ p >= 1 /\ G \subseteq F /\ F \subseteq Row
        /\ view[c].shown = Page(F, p) /\ view[c].total \in {0, Cardinality(G)}
    <3>1. view[c] \in ClientView /\ CallOK(c) /\ AnswerOK(c)
      BY DEF ClientsInv, ViewsOK
    <3> QED BY <3>1 DEF CallOK, AnswerOK, ClientView
  <2>2. p \in Nat /\ PerPage \in Nat /\ PerPage > 0
    BY <2>1, RowAssumption, PageAssumption DEF ClientView
  <2> HIDE DEF p
  <2>3. k \in Nat /\ p * PerPage = k + PerPage
    BY <2>1, <2>2
  <2>4. Cardinality(G) <= Cardinality(F) /\ Cardinality(F) \in Nat /\ Cardinality(G) \in Nat
    BY <2>1, RowsAreFinite, FS_Subset, FS_CardinalityType
  <2>5. k < Cardinality(F)
    <3>1. view[c].total > k
      BY DEF p
    <3> HIDE DEF k
    <3> QED BY <2>1, <2>3, <2>4, <3>1
  <2>6. PICK r \in F : Cardinality(F \cap Newer[r]) = k
    BY <2>1, <2>3, <2>5, RankReached
  <2>7. r \in Page(F, p)
    BY <2>2, <2>3, <2>6, PageRanks
  <2> QED BY <2>1, <2>7
<1> QED BY <1>1, SpecClients, PTL

-----------------------------------------------------------------------------
(* Browsing from page to page.                                             *)

\* The rows the clause of a query selects, by their times: the bounds are
\* compared as texts, which leaves out the millisecond the period begins with
\* and takes in all of the one it ends with.
Selected == {r \in Matching : /\ \A b \in After : PastMillisecond(Stamp[r], b)
                             /\ \A b \in Before : ~PastMillisecond(Stamp[r], b)}

\* They are the rows inside the period and some of its bounds' milliseconds.
LEMMA SelectedInPeriod == Inside \subseteq Selected /\ Selected \subseteq Touching
<1>1. ASSUME NEW r \in Row, NEW b \in Bound
      PROVE  ~(PastMillisecond(Stamp[r], b) /\ BeforeMillisecond(Stamp[r], b))
  <2>1. Stamp[r] \in Moment
    BY StampAssumption
  <2>2. Stamp[r].sec \in Int /\ Stamp[r].ms \in Int /\ b.sec \in Int /\ b.ms \in Int
    <3>1. Stamp[r].sec \in Nat /\ Stamp[r].ms \in Group
      BY <2>1 DEF Moment
    <3>2. b.sec \in Nat /\ b.ms \in Group
      BY DEF Bound
    <3>3. Group \subseteq Int /\ Nat \subseteq Int
      BY DEF Group
    <3> QED BY <3>1, <3>2, <3>3
  <2>3. PICK s \in Int, m \in Int, t \in Int, n \in Int :
            Stamp[r].sec = s /\ Stamp[r].ms = m /\ b.sec = t /\ b.ms = n
    BY <2>2
  <2>4. ~((s > t \/ (s = t /\ m > n)) /\ (s < t \/ (s = t /\ m < n)))
    OBVIOUS
  <2> QED BY <2>3, <2>4 DEF PastMillisecond, BeforeMillisecond
<1>2. Matching \subseteq Row /\ After \subseteq Bound /\ Before \subseteq Bound
  BY StampAssumption, RowAssumption
<1>3. ASSUME NEW r \in Inside PROVE r \in Selected
  <2>1. /\ r \in Matching /\ r \in Row
        /\ \A b \in After : PastMillisecond(Stamp[r], b)
        /\ \A b \in Before : BeforeMillisecond(Stamp[r], b)
    BY <1>2 DEF Inside
  <2> QED BY <1>1, <1>2, <2>1 DEF Selected
<1>4. ASSUME NEW r \in Selected PROVE r \in Touching
  <2>1. /\ r \in Matching /\ r \in Row
        /\ \A b \in After : PastMillisecond(Stamp[r], b)
        /\ \A b \in Before : ~PastMillisecond(Stamp[r], b)
    BY <1>2 DEF Selected
  <2> QED BY <1>1, <1>2, <2>1 DEF Touching
<1> QED BY <1>3, <1>4

LEMMA SelectedRows ==
    Counted = rows \cap Selected
<1>1. \A r \in Row : r \in InPeriod <=> /\ \A b \in After : PastMillisecond(Stamp[r], b)
                                        /\ \A b \in Before : ~PastMillisecond(Stamp[r], b)
  <2> TAKE r \in Row
  <2>1. Stamp[r] \in Moment /\ After \subseteq Bound /\ Before \subseteq Bound
    BY StampAssumption
  <2>2. \A b \in After : AtMost(BoundText(b), Text(Stamp[r])) <=> PastMillisecond(Stamp[r], b)
    BY <2>1, PeriodByText
  <2>3. \A b \in Before : AtMost(Text(Stamp[r]), BoundText(b)) <=> ~PastMillisecond(Stamp[r], b)
    BY <2>1, PeriodByText
  <2> QED BY <2>2, <2>3 DEF InPeriod
<1>2. \A r \in Matching : r \in InPeriod <=> r \in Selected
  BY <1>1, RowAssumption DEF Selected
<1>3. Selected \subseteq Matching
  BY DEF Selected
<1> QED BY <1>2, <1>3 DEF Counted

\* how many pages the client has been shown
PagesShown(c) == IF call[c].op = "none" THEN view[c].page ELSE view[c].page - 1
Rank(c, r) == Cardinality(view[c].found \cap Newer[r])
Unseen(c) == (view[c].begun \cap Selected) \ view[c].seen

\* A row that was there at the beginning and has not been shown stands behind
\* the pages that have been: rows only move to later pages.
BrowseOK(c) ==
    /\ view[c].begun \subseteq rows
    /\ view[c].shown \subseteq Selected /\ view[c].seen \subseteq Selected
    /\ ~view[c].errors =>
         /\ call[c].op = "query" \/ (call[c].op = "none" /\ view[c].page > 0) =>
              view[c].total = Cardinality(view[c].counted)
         /\ call[c].op = "none" /\ view[c].page > 0 => view[c].counted \subseteq view[c].found
         /\ \A r \in Unseen(c) :
              /\ Rank(c, r) >= PagesShown(c) * PerPage
              /\ \/ call[c].op = "none"
                 \/ call[c].op = "query" /\ call[c].step = "answered" /\ call[c].ok
                 => r \in view[c].found

BrowseInv == \A c \in Client : BrowseOK(c)

LEMMA BrowseInit == Init => BrowseInv
<1> SUFFICES ASSUME Init, NEW c \in Client PROVE BrowseOK(c)
  BY DEF BrowseInv
<1>1. view[c] = NewView /\ call[c] = NoCall
  BY CallerFacts DEF Init
<1> QED BY <1>1 DEF BrowseOK, NewView, NoCall, Unseen

\* Steps that leave the view and the command's place alone.
LEMMA BrowseStays ==
    ASSUME NEW c \in Client, BrowseOK(c), rows \subseteq rows', view'[c] = view[c],
           call'[c].op = call[c].op,
           call'[c].step = "answered" /\ call'[c].ok => call[c].step = "answered" /\ call[c].ok
    PROVE  BrowseOK(c)'
<1>1. PagesShown(c)' = PagesShown(c) /\ Unseen(c)' = Unseen(c)
      /\ \A r : Rank(c, r)' = Rank(c, r)
  BY DEF PagesShown, Unseen, Rank
<1> QED BY <1>1 DEF BrowseOK

\* A page is asked for: all that is there is yet to be shown, or the next page is.
LEMMA RequestBrowse ==
    ASSUME ViewsOK, NEW c \in Client, CallOK(c), BrowseOK(c), RequestPage(c),
           call'[c] = Asks("count")
    PROVE  BrowseOK(c)'
<1>1. /\ call[c].step = "idle" /\ rows' = rows
      /\ view'[c].page = view[c].page + 1 /\ view'[c].shown = {}
      /\ view'[c].begun = IF view[c].page = 0 THEN rows ELSE view[c].begun
      /\ view'[c].found = view[c].found
      /\ view'[c].seen = view[c].seen /\ view'[c].errors = view[c].errors
  BY RequestView
<1>2. call[c].op = "none" /\ call'[c].op = "count"
  BY <1>1 DEF CallOK, Asks
<1>3. view[c].page \in Nat /\ view[c].found \subseteq Row
  BY RowAssumption DEF ViewsOK, ClientView
<1>4. PagesShown(c)' = view[c].page /\ PagesShown(c) = view[c].page
      /\ \A r : Rank(c, r)' = Rank(c, r)
  BY <1>1, <1>2, <1>3 DEF PagesShown, Rank
<1>5. ASSUME ~view[c].errors, NEW r \in Unseen(c)'
      PROVE  Rank(c, r)' >= PagesShown(c)' * PerPage
  <2>1. CASE view[c].page = 0
    <3>1. PagesShown(c)' * PerPage = 0
      BY <1>4, <2>1, PageAssumption
    <3>2. Rank(c, r) \in Nat
      BY <1>3, RankGrows DEF Rank
    <3> QED BY <1>4, <3>1, <3>2
  <2>2. CASE view[c].page # 0
    <3>1. Unseen(c)' = Unseen(c)
      BY <1>1, <2>2 DEF Unseen
    <3> QED BY <1>4, <1>5, <3>1 DEF BrowseOK
  <2> QED BY <2>1, <2>2
<1> QED BY <1>1, <1>2, <1>5 DEF BrowseOK

\* The query finds what the earlier ones found and more, so that nothing has
\* moved to an earlier page.
LEMMA QueryBrowse ==
    ASSUME ViewsOK, NEW c \in Client, AnswerOK(c), CallOK(c), BrowseOK(c), IsFound(c)
    PROVE  BrowseOK(c)'
<1>1. PICK ok \in BOOLEAN :
             /\ Result(c, "query", ok)
             /\ view'[c].found = IF ok THEN Counted ELSE view[c].found
             /\ view'[c].shown = IF ok THEN Page(Counted, view[c].page) ELSE view[c].shown
             /\ view'[c].total = view[c].total /\ view'[c].errors = view[c].errors
             /\ view'[c].page = view[c].page /\ view'[c].counted = view[c].counted
             /\ view'[c].begun = view[c].begun /\ view'[c].seen = view[c].seen
  BY QueryView
<1>2. /\ call[c].op = "query" /\ rows' = rows /\ call'[c].op = "query" /\ call'[c].ok = ok
      /\ view[c].found \subseteq Counted /\ Counted \subseteq Row
      /\ Counted = rows \cap Selected
  BY <1>1, CountedRows, SelectedRows DEF Result, AnswerOK, ViewsOK
<1>3. PagesShown(c)' = PagesShown(c) /\ Unseen(c)' = Unseen(c)
  BY <1>1, <1>2 DEF PagesShown, Unseen
<1>4. view'[c].shown \subseteq Selected
  BY <1>1, <1>2 DEF BrowseOK, Page
<1>5. view[c].found \subseteq view'[c].found /\ view'[c].found \subseteq Row
  BY <1>1, <1>2
<1>6. ASSUME ~view[c].errors, NEW r \in Unseen(c)
      PROVE  /\ Rank(c, r)' >= PagesShown(c) * PerPage
             /\ ok => r \in view'[c].found
  <2>1. Rank(c, r) \in Nat /\ Rank(c, r)' \in Nat /\ Rank(c, r) <= Rank(c, r)'
    BY <1>5, RankGrows DEF Rank
  <2>2. Rank(c, r) >= PagesShown(c) * PerPage
    BY <1>6 DEF BrowseOK
  <2>3. PagesShown(c) * PerPage \in Int
    <3>1. view[c].page \in Int /\ PerPage \in Int
      BY RowAssumption, PageAssumption DEF ViewsOK, ClientView
    <3> QED BY <3>1 DEF PagesShown
  <2>4. r \in rows /\ r \in Selected
    BY DEF Unseen, BrowseOK
  <2> DEFINE m == PagesShown(c) * PerPage
  <2>5. m \in Int /\ Rank(c, r) >= m
    BY <2>2, <2>3
  <2> HIDE DEF m
  <2>6. Rank(c, r)' >= m
    BY <2>1, <2>5
  <2> QED BY <1>1, <1>2, <2>4, <2>6 DEF m
<1>7. call[c].op = "query" => (~view[c].errors => view[c].total = Cardinality(view[c].counted))
  BY DEF BrowseOK
<1> QED BY <1>1, <1>2, <1>3, <1>4, <1>6, <1>7 DEF BrowseOK

\* The page is shown: what is unseen has a rank behind it.
LEMMA AnswerBrowse ==
    ASSUME ViewsOK, NEW c \in Client, AnswerOK(c), CallOK(c), BrowseOK(c), HandlerAnswers(c),
           call'[c] = NoCall
    PROVE  BrowseOK(c)'
<1>1. /\ call[c].step = "answered" /\ call[c].op = "query" /\ rows' = rows
      /\ view'[c].seen = view[c].seen \cup view[c].shown
      /\ view'[c].errors <=> view[c].errors \/ ~call[c].ok
      /\ view'[c].page = view[c].page /\ view'[c].counted = view[c].counted
      /\ view'[c].found = view[c].found /\ view'[c].shown = view[c].shown
      /\ view'[c].begun = view[c].begun /\ view'[c].total = view[c].total
  BY AnsweredView
<1>2. call'[c].op = "none"
  BY DEF NoCall
<1>3. view[c].page \in Nat /\ view[c].found \subseteq Row
  BY RowAssumption DEF ViewsOK, ClientView
<1>4. PagesShown(c)' = view[c].page /\ PagesShown(c) = view[c].page - 1
      /\ \A r : Rank(c, r)' = Rank(c, r)
  BY <1>1, <1>2 DEF PagesShown, Rank
<1>5. ASSUME ~view'[c].errors, NEW r \in Unseen(c)'
      PROVE  Rank(c, r) >= view[c].page * PerPage /\ r \in view[c].found
  <2>1. ~view[c].errors /\ call[c].ok /\ r \in Unseen(c) /\ r \notin view[c].shown
    BY <1>1, <1>5 DEF Unseen
  <2>2. view[c].shown = Page(view[c].found, view[c].page)
    BY <1>1, <2>1 DEF AnswerOK
  <2>3. r \in view[c].found /\ Rank(c, r) >= (view[c].page - 1) * PerPage
    BY <1>1, <1>4, <2>1 DEF BrowseOK
  <2>4. Rank(c, r) \in Nat /\ view[c].page * PerPage \in Int
    <3>1. Rank(c, r) \in Nat
      BY <1>3, RankGrows DEF Rank
    <3> QED BY <1>3, <3>1, PageAssumption
  <2>5. r \in Page(view[c].found, view[c].page) <=>
            (view[c].page - 1) * PerPage <= Rank(c, r) /\ Rank(c, r) < view[c].page * PerPage
    BY <1>3, <2>3, <2>4, PageRanks DEF Rank
  <2> DEFINE a == (view[c].page - 1) * PerPage
             b == view[c].page * PerPage
  <2>6. ~(a <= Rank(c, r) /\ Rank(c, r) < b) /\ Rank(c, r) >= a /\ b \in Int /\ a \in Int
    <3>1. a \in Int
      BY <1>3, PageAssumption
    <3> QED BY <2>1, <2>2, <2>3, <2>4, <2>5, <3>1
  <2> HIDE DEF a, b
  <2>7. Rank(c, r) >= b
    BY <2>4, <2>6
  <2> QED BY <2>3, <2>7 DEF b
<1>6. view'[c].seen \subseteq Selected /\ view'[c].shown \subseteq Selected
  BY <1>1 DEF BrowseOK
<1>7. ~view'[c].errors => /\ view'[c].total = Cardinality(view'[c].counted)
                          /\ view'[c].counted \subseteq view'[c].found
  BY <1>1 DEF BrowseOK, AnswerOK
<1> QED BY <1>1, <1>2, <1>4, <1>5, <1>6, <1>7 DEF BrowseOK

LEMMA BrowseStep ==
    ASSUME ToldInv, ClientsInv, BrowseInv, [Next]_vars
    PROVE  BrowseInv'
<1> SUFFICES ASSUME NEW c \in Client PROVE BrowseOK(c)'
  BY DEF BrowseInv
<1>1. /\ ViewsOK /\ CallOK(c) /\ AnswerOK(c) /\ BrowseOK(c) /\ ClientStep(c)
      /\ rows \subseteq rows' /\ call[c] \in Command /\ call \in [Caller -> Command]
      /\ c \in Caller
  BY ClientSteps, CallerFacts DEF ClientsInv, BrowseInv, ToldInv
<1>2. CASE call'[c] = call[c] /\ view'[c] = view[c]
  BY <1>1, <1>2, BrowseStays
<1>3. CASE Ends(c)
  BY <1>3 DEF Ends, BrowseOK, NoCall, NewView, Unseen
<1>4. CASE Waited(c)
  <2>1. PICK step \in {"queued", "answered"} : call'[c] = [call[c] EXCEPT !.step = step]
    BY <1>4 DEF Waited
  <2>2. call'[c].op = call[c].op /\ ~call'[c].ok /\ view'[c] = view[c]
    BY <1>1, <1>4, <2>1 DEF Waited, CallOK, Command
  <2> QED BY <1>1, <2>2, BrowseStays
<1>5. CASE IsCounted(c)
  <2>1. PICK ok \in BOOLEAN :
             /\ Result(c, "count", ok)
             /\ view'[c].errors = view[c].errors
             /\ view'[c].page = view[c].page /\ view'[c].found = view[c].found
             /\ view'[c].shown = view[c].shown /\ view'[c].begun = view[c].begun
             /\ view'[c].seen = view[c].seen
    BY <1>1, <1>5, CountView
  <2>2. call[c].op = "count" /\ call'[c].op = "count" /\ rows' = rows
    BY <2>1 DEF Result
  <2>3. /\ PagesShown(c)' = PagesShown(c) /\ Unseen(c)' = Unseen(c)
        /\ \A r : Rank(c, r)' = Rank(c, r)
    BY <2>1, <2>2 DEF PagesShown, Unseen, Rank
  <2> QED BY <1>1, <2>1, <2>2, <2>3 DEF BrowseOK
<1>6. CASE IsFound(c)
  BY <1>1, <1>6, QueryBrowse
<1>7. CASE RequestPage(c)
  <2>1. call'[c] = Asks("count")
    BY <1>1, <1>7 DEF RequestPage
  <2> QED BY <1>1, <1>7, <2>1, RequestBrowse
<1>8. CASE HandlerCounted(c)
  <2>1. /\ call'[c] = Asks("query") /\ rows' = rows /\ call[c].op = "count"
        /\ view'[c].total = IF call[c].ok THEN Cardinality(view[c].counted) ELSE 0
        /\ view'[c].errors <=> view[c].errors \/ ~call[c].ok
        /\ view'[c].page = view[c].page /\ view'[c].counted = view[c].counted
        /\ view'[c].found = view[c].found /\ view'[c].shown = view[c].shown
        /\ view'[c].begun = view[c].begun /\ view'[c].seen = view[c].seen
    BY <1>1, <1>8, CountedView DEF HandlerCounted
  <2>2. call'[c].op = "query" /\ call'[c].step = "sending"
    BY <2>1 DEF Asks
  <2>3. /\ PagesShown(c)' = PagesShown(c) /\ Unseen(c)' = Unseen(c)
        /\ \A r : Rank(c, r)' = Rank(c, r)
    BY <2>1, <2>2 DEF PagesShown, Unseen, Rank
  <2>4. ~view'[c].errors => ~view[c].errors /\ view'[c].total = Cardinality(view'[c].counted)
    BY <2>1
  <2> QED BY <1>1, <2>1, <2>2, <2>3, <2>4 DEF BrowseOK
<1>9. CASE HandlerAnswers(c)
  <2>1. call'[c] = NoCall
    BY <1>1, <1>9 DEF HandlerAnswers
  <2> QED BY <1>1, <1>9, <2>1, AnswerBrowse
<1> QED BY <1>1, <1>2, <1>3, <1>4, <1>5, <1>6, <1>7, <1>8, <1>9 DEF ClientStep

\* The rows of a set that stand behind n others are as many as the set has more.
LEMMA FewBehind ==
    ASSUME NEW F, F \subseteq Row, NEW U, U \subseteq F, NEW n \in Nat,
           n <= Cardinality(F), \A r \in U : Cardinality(F \cap Newer[r]) >= n
    PROVE  Cardinality(U) <= Cardinality(F) - n
<1> DEFINE m == Cardinality(F)
           T == n..(m - 1)
           rank == [r \in U |-> Cardinality(F \cap Newer[r])]
<1>1. m \in Nat /\ n <= m
  BY RowsAreFinite
<1>2. IsFiniteSet(T) /\ Cardinality(T) = m - n
  <2> HIDE DEF m
  <2>1. n \in Int /\ m - 1 \in Int /\ m \in Int
    BY <1>1
  <2>2. IsFiniteSet(T) /\ Cardinality(T) = IF n > m - 1 THEN 0 ELSE m - 1 - n + 1
    BY <2>1, FS_Interval
  <2> QED BY <1>1, <2>1, <2>2
<1>3. rank \in [U -> T]
  <2> SUFFICES ASSUME NEW r \in U PROVE Cardinality(F \cap Newer[r]) \in T
    OBVIOUS
  <2> DEFINE k == Cardinality(F \cap Newer[r])
  <2>1. k \in Nat /\ k < m /\ k >= n
    <3>1. r \in F
      OBVIOUS
    <3> QED BY <3>1, RankBelow
  <2> HIDE DEF m, k
  <2>2. k \in T
    BY <1>1, <2>1
  <2> QED BY <2>2 DEF k
<1>4. \A q, r \in U : rank[q] = rank[r] => q = r
  <2> SUFFICES ASSUME NEW q \in U, NEW r \in U, rank[q] = rank[r], q # r PROVE FALSE
    OBVIOUS
  <2>1. q \in Int /\ r \in Int /\ q \in F /\ r \in F
    BY DEF Row
  <2>2. rank[q] \in Int /\ rank[r] \in Int
    BY <1>1, <1>3
  <2>3. CASE q < r
    <3>1. Cardinality(F \cap Newer[r]) < Cardinality(F \cap Newer[q])
      BY <2>1, <2>3, RanksDiffer
    <3> QED BY <2>2, <3>1
  <2>4. CASE r < q
    <3>1. Cardinality(F \cap Newer[q]) < Cardinality(F \cap Newer[r])
      BY <2>1, <2>4, RanksDiffer
    <3> QED BY <2>2, <3>1
  <2> QED BY <2>1, <2>3, <2>4
<1> HIDE DEF m, T, rank
<1>5. rank \in Injection(U, T)
  BY <1>3, <1>4 DEF Injection, IsInjective
<1>6. Cardinality(U) <= Cardinality(T)
  BY <1>2, <1>5, FS_Injection
<1> QED BY <1>2, <1>6 DEF m

\* A client that goes on to the last page has been shown the rows inside the
\* period that were there when it began, but for as many as were inserted
\* between the last count and its query, and none outside the period, for any
\* rows, filters, bounds and page sizes and any inserts between the pages
\* (events.js:188, worker.rs:476): a row it has not been shown stands behind
\* the pages it has, and these hold as many rows as the last count found.
THEOREM StoreBrowseComplete == Spec => []BrowseComplete
<1>1. ClientsInv /\ BrowseInv => BrowseComplete
  <2> SUFFICES ASSUME ClientsInv, BrowseInv, NEW c \in Client,
                      call[c].step = "idle", LastPage(c), ~view[c].errors
               PROVE  /\ Cardinality((view[c].begun \cap Inside) \ view[c].seen)
                            <= Cardinality(view[c].found \ view[c].counted)
                      /\ view[c].seen \subseteq Touching
    BY DEF BrowseComplete
  <2> DEFINE F == view[c].found
             G == view[c].counted
             n == Cardinality(G)
             U == (view[c].begun \cap Inside) \ view[c].seen
  <2>1. /\ view[c] \in ClientView /\ CallOK(c) /\ BrowseOK(c) /\ AnswerOK(c)
        /\ call[c].op = "none"
        /\ view[c].page > 0 /\ view[c].page >= TotalPages(view[c].total)
    BY DEF ClientsInv, ViewsOK, BrowseInv, LastPage, CallOK
  <2>2. /\ view[c].total = n /\ F \subseteq Row /\ G \subseteq F
        /\ view[c].page \in Nat /\ view[c].total \in Nat /\ U \subseteq Unseen(c)
    <3>1. U \subseteq Unseen(c)
      BY SelectedInPeriod DEF Unseen
    <3>2. G \subseteq F
      BY <2>1 DEF BrowseOK
    <3> QED BY <2>1, <3>1, <3>2, RowAssumption DEF BrowseOK, ClientView
  <2>3. view[c].page * PerPage >= view[c].total
    BY <2>1, <2>2, PagesHoldAll
  <2>4. ASSUME NEW r \in U PROVE r \in F /\ Cardinality(F \cap Newer[r]) >= n
    <3>1. r \in F /\ Rank(c, r) >= view[c].page * PerPage
      BY <2>1, <2>2 DEF BrowseOK, PagesShown
    <3>2. Rank(c, r) \in Nat
      BY <2>2, <3>1, RankBelow DEF Rank
    <3> DEFINE b == view[c].page * PerPage
    <3>3. b \in Int /\ b >= n /\ Rank(c, r) >= b /\ n \in Nat
      BY <2>2, <2>3, <3>1, PageAssumption
    <3> HIDE DEF b, n
    <3>4. Rank(c, r) >= n
      BY <3>2, <3>3
    <3> QED BY <3>1, <3>4 DEF Rank
  <2>5. /\ IsFiniteSet(F) /\ Cardinality(F) \in Nat /\ n \in Nat
        /\ n <= Cardinality(F) /\ Cardinality(F \ G) = Cardinality(F) - n
    <3>1. IsFiniteSet(F) /\ IsFiniteSet(G) /\ F \cap G = G
      BY <2>2, RowsAreFinite
    <3>2. /\ Cardinality(F \ G) = Cardinality(F) - Cardinality(F \cap G)
          /\ Cardinality(G) <= Cardinality(F)
      BY <2>2, <3>1, FS_Difference, FS_Subset
    <3> QED BY <3>1, <3>2, FS_CardinalityType
  <2>6. Cardinality(U) <= Cardinality(F) - n
    <3>1. U \subseteq F /\ \A r \in U : Cardinality(F \cap Newer[r]) >= n
      BY <2>4
    <3> HIDE DEF U, F, n
    <3> QED BY <2>2, <2>5, <3>1, FewBehind
  <2>7. view[c].seen \subseteq Touching
    BY <2>1, SelectedInPeriod DEF BrowseOK
  <2> QED BY <2>5, <2>6, <2>7
<1>2. ToldInv /\ ClientsInv /\ BrowseInv /\ [Next]_vars => BrowseInv'
  BY BrowseStep
<1> QED BY <1>1, <1>2, SpecClients, BrowseInit, PTL DEF Spec

-----------------------------------------------------------------------------
(* The queues and the types.                                               *)

\* the callers whose command waits in the queue of store s
Waiting(s) == {c \in Caller : StoreOf(c) = s /\ call[c].step = "queued"}

\* A queue within its capacity that has each of the callers once, and no other.
Lists(q, callers) ==
    /\ Len(q) <= Capacity
    /\ \A i \in DOMAIN q : q[i] # "gone" => q[i] \in callers
    /\ \A i, j \in DOMAIN q : q[i] = q[j] /\ q[i] # "gone" => i = j
    /\ \A c \in callers : \E i \in DOMAIN q : q[i] = c

QueuesInv ==
    /\ \A s \in Store : Lists(queue[s], Waiting(s))
    /\ DOMAIN told \subseteq Row

LEMMA EmptyLists == Lists(<<>>, {})
BY PageAssumption DEF Lists

LEMMA AppendLists ==
    ASSUME NEW q \in Seq(Caller \cup {"gone"}), NEW W \in SUBSET Caller, Lists(q, W),
           NEW c \in Caller \ W, Len(q) < Capacity
    PROVE  Lists(Append(q, c), W \cup {c})
<1> DEFINE p == Append(q, c)
<1>1. /\ Len(p) = Len(q) + 1 /\ DOMAIN p = DOMAIN q \cup {Len(q) + 1}
      /\ \A i \in DOMAIN q : p[i] = q[i]
      /\ p[Len(q) + 1] = c
  OBVIOUS
<1>2. Len(p) <= Capacity
  BY <1>1, PageAssumption
<1> HIDE DEF p
<1>3. \A i \in DOMAIN p : p[i] # "gone" => p[i] \in W \cup {c}
  BY <1>1 DEF Lists
<1>4. c # "gone"
  BY ClientAssumption DEF Caller
<1>5. \A i \in DOMAIN q : q[i] # c
  BY <1>4 DEF Lists
<1>6. \A i, j \in DOMAIN p : p[i] = p[j] /\ p[i] # "gone" => i = j
  BY <1>1, <1>5 DEF Lists
<1>7. ASSUME NEW d \in W \cup {c} PROVE \E i \in DOMAIN p : p[i] = d
  <2>1. CASE d = c
    BY <1>1, <2>1
  <2>2. CASE d \in W
    BY <1>1, <2>2 DEF Lists
  <2> QED BY <2>1, <2>2
<1>8. Lists(p, W \cup {c})
  BY <1>2, <1>3, <1>6, <1>7 DEF Lists
<1> QED BY <1>8 DEF p

LEMMA TailLists ==
    ASSUME NEW q \in Seq(Caller \cup {"gone"}), NEW W \in SUBSET Caller, Lists(q, W), q # <<>>
    PROVE  Lists(Tail(q), W \ {Head(q)})
<1> DEFINE p == Tail(q)
<1>1. /\ Len(p) = Len(q) - 1 /\ DOMAIN p = 1..(Len(q) - 1) /\ DOMAIN q = 1..Len(q)
      /\ Len(q) \in Nat /\ Len(q) >= 1 /\ Head(q) = q[1]
  OBVIOUS
<1>2. \A i \in DOMAIN p : p[i] = q[i + 1] /\ i \in Nat \ {0}
  BY <1>1
<1>3. Len(p) <= Capacity
  BY <1>1, PageAssumption DEF Lists
<1> HIDE DEF p
<1>4. 1 \in DOMAIN q /\ \A i \in DOMAIN p : i + 1 \in DOMAIN q /\ i + 1 # 1
  BY <1>1
<1>5. ASSUME NEW i \in DOMAIN p, p[i] # "gone" PROVE p[i] \in W \ {Head(q)}
  <2>1. q[i + 1] \in W
    BY <1>2, <1>4, <1>5 DEF Lists
  <2>2. q[i + 1] # q[1]
    BY <1>2, <1>4, <1>5 DEF Lists
  <2> QED BY <1>1, <1>2, <2>1, <2>2
<1>6. ASSUME NEW i \in DOMAIN p, NEW j \in DOMAIN p, p[i] = p[j], p[i] # "gone" PROVE i = j
  <2>1. i + 1 = j + 1
    BY <1>2, <1>4, <1>6 DEF Lists
  <2> QED BY <1>2, <2>1
<1>7. ASSUME NEW d \in W \ {Head(q)} PROVE \E i \in DOMAIN p : p[i] = d
  <2>1. PICK k \in DOMAIN q : q[k] = d
    BY DEF Lists
  <2>2. k # 1 /\ k \in Nat /\ k >= 1 /\ k <= Len(q)
    BY <1>1, <2>1
  <2> DEFINE i == k - 1
  <2>3. i \in DOMAIN p /\ i + 1 = k
    BY <1>1, <2>2
  <2>4. p[i] = d
    BY <1>2, <2>1, <2>3
  <2> QED BY <2>3, <2>4
<1>8. Lists(p, W \ {Head(q)})
  BY <1>3, <1>5, <1>6, <1>7 DEF Lists
<1> QED BY <1>8 DEF p

LEMMA GoneLists ==
    ASSUME NEW q \in Seq(Caller \cup {"gone"}), NEW W \in SUBSET Caller, Lists(q, W), NEW c
    PROVE  Lists([i \in DOMAIN q |-> IF q[i] = c THEN "gone" ELSE q[i]], W \ {c})
<1> DEFINE p == [i \in DOMAIN q |-> IF q[i] = c THEN "gone" ELSE q[i]]
<1>1. DOMAIN p = DOMAIN q /\ \A i \in DOMAIN q : p[i] = IF q[i] = c THEN "gone" ELSE q[i]
  OBVIOUS
<1>2. DOMAIN q = 1..Len(q) /\ Len(q) \in Nat
  OBVIOUS
<1>3. Len(p) = Len(q)
  BY <1>2
<1> HIDE DEF p
<1>4. \A i \in DOMAIN p : p[i] # "gone" => p[i] \in W \ {c}
  BY <1>1 DEF Lists
<1>5. \A i, j \in DOMAIN p : p[i] = p[j] /\ p[i] # "gone" => i = j
  BY <1>1 DEF Lists
<1>6. \A d \in W \ {c} : \E i \in DOMAIN p : p[i] = d
  BY <1>1 DEF Lists
<1>7. Lists(p, W \ {c})
  BY <1>3, <1>4, <1>5, <1>6 DEF Lists
<1> QED BY <1>7 DEF p

LEMMA QueuesInit == Init => QueuesInv
<1> SUFFICES ASSUME Init PROVE QueuesInv
  OBVIOUS
<1>1. \A s \in Store : queue[s] = <<>> /\ Waiting(s) = {}
  BY DEF Init, Waiting, NoCall
<1>2. DOMAIN told = {}
  BY DEF Init
<1> QED BY <1>1, <1>2, EmptyLists DEF QueuesInv

\* Steps that leave the queues alone and none of whose commands was or is in one.
LEMMA QueuesStay ==
    ASSUME QueuesInv, ToldInv, queue' = queue, DOMAIN told' \subseteq Row,
           \A c \in Caller : call'[c].step = "queued" <=> call[c].step = "queued"
    PROVE  QueuesInv'
<1>1. \A s \in Store : Waiting(s)' = Waiting(s)
  BY DEF Waiting
<1> QED BY <1>1 DEF QueuesInv, Lists

\* Steps on one queue.
LEMMA OneQueue ==
    ASSUME QueuesInv, NEW s \in Store, told' = told, \A t \in Store \ {s} : queue'[t] = queue[t],
           \A c \in Caller : StoreOf(c) # s => call'[c].step = call[c].step,
           Lists(queue'[s], Waiting(s)')
    PROVE  QueuesInv'
<1>1. \A t \in Store \ {s} : Waiting(t)' = Waiting(t)
  BY DEF Waiting
<1>2. \A t \in Store \ {s} : Lists(queue'[t], Waiting(t)')
  BY <1>1 DEF QueuesInv
<1> QED BY <1>2 DEF QueuesInv, Lists

LEMMA QueuesStep == QueuesInv /\ ToldInv /\ ViewsOK /\ [Next]_vars => QueuesInv'
<1> SUFFICES ASSUME QueuesInv, ToldInv, ViewsOK, [Next]_vars PROVE QueuesInv'
  OBVIOUS
<1>1. call \in [Caller -> Command] /\ queue \in [Store -> Seq(Caller \cup {"gone"})]
  BY DEF ToldInv
<1>2. \A s \in Store : Waiting(s) \in SUBSET Caller /\ Lists(queue[s], Waiting(s))
  BY DEF QueuesInv, Waiting
<1>3. CASE Open \/ UNCHANGED vars
  BY <1>3, QueuesStay DEF QueuesInv, Open, vars, history
<1>4. CASE Die
  <2>1. \A s \in Store : queue'[s] = <<>> /\ Waiting(s)' = {}
    BY <1>4 DEF Die, Waiting, NoCall
  <2>2. told' = told
    BY <1>4 DEF Die
  <2> QED BY <2>1, <2>2, EmptyLists DEF QueuesInv, Lists
<1>5. ASSUME NEW s \in Store, Prepare(s) PROVE QueuesInv'
  <2>1. CASE CreateTables(s) \/ ReadVersion(s) \/ RecordVersion(s) \/ AlterTable(s) \/ UpdateVersion(s)
    BY <2>1, QueuesStay DEF CreateTables, ReadVersion, RecordVersion, AlterTable, UpdateVersion,
                            Others, history, QueuesInv
  <2>2. CASE AlterFails(s) \/ PrepareFails(s)
    <3>1. /\ queue' = [queue EXCEPT ![s] = <<>>] /\ told' = told
          /\ call' = [c \in Caller |->
                 IF StoreOf(c) = s /\ call[c].step = "queued"
                 THEN [call[c] EXCEPT !.step = "answered"] ELSE call[c]]
      BY <2>2 DEF AlterFails, PrepareFails, ThreadEnds, history
    <3>2. \A c \in Caller : call'[c].step = IF StoreOf(c) = s /\ call[c].step = "queued"
                                            THEN "answered" ELSE call[c].step
      BY <1>1, <3>1, SMTT(30) DEF Command
    <3>3. queue'[s] = <<>> /\ \A t \in Store \ {s} : queue'[t] = queue[t]
      BY <1>1, <3>1
    <3>4. Waiting(s)' = {}
      BY <3>2 DEF Waiting
    <3> QED BY <3>1, <3>2, <3>3, <3>4, EmptyLists, OneQueue
  <2> QED BY <1>5, <2>1, <2>2 DEF Prepare
<1>6. ASSUME NEW s \in Store, AnswerNobody(s) PROVE QueuesInv'
  <2>1. /\ queue[s] # <<>> /\ Head(queue[s]) = "gone" /\ queue' = [queue EXCEPT ![s] = Tail(@)]
        /\ call' = call /\ told' = told
    BY <1>6 DEF AnswerNobody, history
  <2>2. queue'[s] = Tail(queue[s]) /\ \A t \in Store \ {s} : queue'[t] = queue[t]
    BY <1>1, <2>1
  <2>3. Waiting(s)' = Waiting(s) \ {Head(queue[s])}
    BY <2>1, ClientAssumption DEF Waiting, Caller
  <2>4. Lists(queue'[s], Waiting(s)')
    BY <1>1, <1>2, <2>1, <2>2, <2>3, TailLists, SMTT(30)
  <2> QED BY <2>1, <2>2, <2>4, OneQueue
<1>7. ASSUME NEW s \in Store, NEW c \in Caller, NEW ok \in BOOLEAN, Answer(s, c, ok)
      PROVE  QueuesInv'
  <2>1. /\ queue[s] # <<>> /\ Head(queue[s]) = c /\ queue' = [queue EXCEPT ![s] = Tail(@)]
        /\ told' = told
    BY <1>7 DEF Answer, history
  <2>2. queue'[s] = Tail(queue[s]) /\ \A t \in Store \ {s} : queue'[t] = queue[t]
    BY <1>1, <2>1
  <2>3. call'[c].step = "answered" /\ \A d \in Caller \ {c} : call'[d] = call[d]
    <3>1. /\ call'[c] = [op |-> call[c].op, step |-> "answered", ok |-> ok]
          /\ \A d \in Caller \ {c} : call'[d] = call[d]
      BY <1>7, AnswerEffect
    <3> QED BY <3>1
  <2>4. StoreOf(c) = s
    <3>1. 1 \in DOMAIN queue[s] /\ queue[s][1] = c
      BY <1>1, <2>1
    <3>2. c # "gone"
      BY ClientAssumption DEF Caller
    <3> QED BY <1>2, <3>1, <3>2 DEF Lists, Waiting
  <2>5. Waiting(s)' = Waiting(s) \ {c}
    BY <2>3 DEF Waiting
  <2>6. Lists(queue'[s], Waiting(s)')
    BY <1>1, <1>2, <2>1, <2>2, <2>5, TailLists, SMTT(30)
  <2> QED BY <2>1, <2>2, <2>3, <2>4, <2>6, OneQueue
<1>8. ASSUME NEW s \in Store, Execute(s) PROVE QueuesInv'
  <2>1. AnswerNobody(s) \/ \E c \in Caller, ok \in BOOLEAN : Answer(s, c, ok)
    BY <1>8 DEF Execute, DoInsert, DoCount, DoQuery
  <2> QED BY <1>6, <1>7, <2>1
<1>9. ASSUME NEW c \in Caller, Send(c) PROVE QueuesInv'
  <2> DEFINE s == StoreOf(c)
  <2>1. s \in Store
    BY DEF StoreOf, Store
  <2>2. call[c].step = "sending" /\ told' = told
    BY <1>9 DEF Send, history
  <2>3. CASE /\ Len(queue[s]) < Capacity /\ queue' = [queue EXCEPT ![s] = Append(@, c)]
             /\ call' = [call EXCEPT ![c].step = "queued"]
    <3>1. /\ queue'[s] = Append(queue[s], c) /\ \A t \in Store \ {s} : queue'[t] = queue[t]
      BY <1>1, <2>1, <2>3
    <3>2. call'[c].step = "queued" /\ \A d \in Caller \ {c} : call'[d] = call[d]
      BY <1>1, <2>3 DEF Command
    <3>3. c \notin Waiting(s) /\ Waiting(s)' = Waiting(s) \cup {c}
      BY <2>2, <3>2 DEF Waiting
    <3>4. Lists(queue'[s], Waiting(s)')
      BY <1>1, <1>2, <2>1, <2>3, <3>1, <3>3, AppendLists
    <3>5. \A d \in Caller : StoreOf(d) # s => call'[d].step = call[d].step
      BY <3>2
    <3> HIDE DEF s
    <3> QED BY <2>1, <2>2, <3>1, <3>4, <3>5, OneQueue
  <2>4. CASE queue' = queue /\ call' = [call EXCEPT ![c].step = "answered"]
    <3>1. call'[c].step = "answered" /\ \A d \in Caller \ {c} : call'[d] = call[d]
      BY <1>1, <2>4 DEF Command
    <3>2. \A d \in Caller : call'[d].step = "queued" <=> call[d].step = "queued"
      BY <2>2, <3>1
    <3> QED BY <2>2, <2>4, <3>2, QueuesStay DEF QueuesInv
  <2> QED BY <1>9, <2>3, <2>4 DEF Send
<1>10. NoCall.step = "idle" /\ \A op : Asks(op).step = "sending"
  BY DEF NoCall, Asks
<1>11. CASE TaskInserts
  <2>1. /\ call["task"].step = "idle" /\ call' = [call EXCEPT !["task"] = Asks("insert")]
        /\ queue' = queue /\ told' = told
    BY <1>11 DEF TaskInserts, history
  <2>2. \A c \in Caller : call'[c].step = "queued" <=> call[c].step = "queued"
    BY <1>1, <1>10, <2>1, CallerFacts
  <2> QED BY <2>1, <2>2, QueuesStay DEF QueuesInv
<1>12. CASE TaskGoesOn
  <2>1. /\ call["task"].step = "answered" /\ call' = [call EXCEPT !["task"] = NoCall]
        /\ queue' = queue /\ DOMAIN told' = DOMAIN told \cup {row}
    BY <1>12 DEF TaskGoesOn
  <2>2. \A c \in Caller : call'[c].step = "queued" <=> call[c].step = "queued"
    BY <1>1, <1>10, <2>1, CallerFacts
  <2>3. DOMAIN told' \subseteq Row
    BY <2>1 DEF ViewsOK, QueuesInv
  <2> QED BY <2>1, <2>2, <2>3, QueuesStay
<1>13. ASSUME NEW c \in Client, RequestPage(c) \/ HandlerCounted(c) \/ HandlerAnswers(c)
       PROVE  QueuesInv'
  <2>1. /\ call[c].step # "queued" /\ queue' = queue /\ told' = told
        /\ \E d \in {NoCall, Asks("count"), Asks("query")} : call' = [call EXCEPT ![c] = d]
    BY <1>13 DEF RequestPage, HandlerCounted, HandlerAnswers, history
  <2>2. call'[c].step # "queued" /\ \A d \in Caller \ {c} : call'[d] = call[d]
    BY <1>1, <1>10, <2>1, CallerFacts
  <2>3. \A d \in Caller : call'[d].step = "queued" <=> call[d].step = "queued"
    BY <2>1, <2>2
  <2> QED BY <2>1, <2>3, QueuesStay DEF QueuesInv
<1>14. ASSUME NEW c \in Client, Abandon(c) PROVE QueuesInv'
  <2> DEFINE q == [i \in DOMAIN queue["web"] |-> IF queue["web"][i] = c THEN "gone" ELSE queue["web"][i]]
  <2>1. /\ call' = [call EXCEPT ![c] = NoCall] /\ queue' = [queue EXCEPT !["web"] = q]
        /\ told' = told
    BY <1>14 DEF Abandon, history
  <2>2. queue'["web"] = q /\ \A t \in Store \ {"web"} : queue'[t] = queue[t]
    BY <1>1, <2>1, CallerFacts
  <2>3. call'[c].step = "idle" /\ \A d \in Caller \ {c} : call'[d] = call[d]
    BY <1>1, <1>10, <2>1, CallerFacts
  <2>4. Waiting("web")' = Waiting("web") \ {c}
    BY <2>3, CallerFacts DEF Waiting
  <2>5. Lists(q, Waiting("web") \ {c})
    BY <1>1, <1>2, CallerFacts, GoneLists
  <2> HIDE DEF q
  <2>6. \A d \in Caller : StoreOf(d) # "web" => call'[d].step = call[d].step
    BY <2>3, CallerFacts
  <2> QED BY <2>1, <2>2, <2>4, <2>5, <2>6, CallerFacts, OneQueue
<1> QED BY <1>3, <1>4, <1>5, <1>8, <1>9, <1>11, <1>12, <1>13, <1>14 DEF Next

\* The types of the store; each caller whose command waits stands in the queue of
\* its own store, and nobody else does: a worker answers those who wait
\* (worker.rs:87-93, 251-270).
THEOREM StoreTypeOK == Spec => []TypeOK
<1>1. SchemaInv /\ ToldInv /\ ViewsOK /\ QueuesInv => TypeOK
  <2> SUFFICES ASSUME SchemaInv, ToldInv, ViewsOK, QueuesInv PROVE TypeOK
    OBVIOUS
  <2>1. columns \in 0..2 /\ versions \subseteq 1..2 /\ worker \in [Store -> WorkerState]
    BY DEF SchemaInv
  <2>2. /\ queue \in [Store -> Seq(Caller \cup {"gone"})]
        /\ call \in [Caller -> [op : {"none", "insert", "count", "query"}, ok : BOOLEAN,
                                step : {"idle", "sending", "queued", "answered"}]]
    BY DEF ToldInv, Command
  <2>3. /\ rows \subseteq Row /\ row \in Row \cup {0}
        /\ view \in [Client -> [page : 0..(MaxRow + 1), total : 0..MaxRow, errors : BOOLEAN,
                                counted : SUBSET Row, found : SUBSET Row, shown : SUBSET Row,
                                begun : SUBSET Row, seen : SUBSET Row]]
    BY DEF ViewsOK, ClientView
  <2>4. \A s \in Store : Len(queue[s]) <= Capacity
    BY DEF QueuesInv, Lists
  <2>5. ASSUME NEW c \in Caller
        PROVE  call[c].step = "queued" <=> \E i \in DOMAIN queue[StoreOf(c)] :
                                              queue[StoreOf(c)][i] = c
    <3>1. StoreOf(c) \in Store /\ c # "gone"
      BY ClientAssumption DEF StoreOf, Store, Caller
    <3>2. Lists(queue[StoreOf(c)], Waiting(StoreOf(c)))
      BY <3>1 DEF QueuesInv
    <3>3. c \in Waiting(StoreOf(c)) <=> call[c].step = "queued"
      BY DEF Waiting
    <3> QED BY <3>1, <3>2, <3>3 DEF Lists
  <2>6. DOMAIN told \subseteq Row
    BY DEF QueuesInv
  <2> QED BY <2>1, <2>2, <2>3, <2>4, <2>5, <2>6 DEF TypeOK
<1>2. ToldInv /\ ClientsInv /\ QueuesInv /\ [Next]_vars => QueuesInv'
  BY QueuesStep DEF ClientsInv
<1>3. ClientsInv => ViewsOK
  BY DEF ClientsInv
<1>4. Spec => []SchemaInv
  BY InitSchemaInv, StepSchemaInv, PTL DEF Spec
<1>5. Spec => []QueuesInv
  BY <1>2, QueuesInit, SpecClients, PTL DEF Spec
<1> QED BY <1>1, <1>3, <1>4, <1>5, SpecClients, PTL
=============================================================================
