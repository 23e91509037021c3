---------------------------- MODULE EventStore -----------------------------
(***************************************************************************)
(* The event store as run_serve uses it: two EventStores on one database,  *)
(* one for the process task and one for the HTTP handlers, each a worker   *)
(* thread with a queue of commands and a oneshot channel per answer.  The  *)
(* workers prepare the schema at the same time and the process may die     *)
(* between two statements.  A handler of GET /api/events sends two         *)
(* commands, count_filtered and query; a client browses the history from   *)
(* page to page while events are inserted.                                 *)
(*                                                                         *)
(* A row is the number of its place in the order of timestamps; no two are *)
(* at the same nanosecond.  A statement of SQLite is atomic and survives   *)
(* the process; it may fail (disk, a lock that stays busy).  insert_batch  *)
(* and purge_before, which only tests call, and time_series, which only    *)
(* reads, are left out.                                                    *)
(***************************************************************************)
EXTENDS TimeText, FiniteSets, FiniteSetsExt

CONSTANTS Client,        \* browsers
          MaxRow,        \* bound: the rows that events may be stored as
          Stamp,         \* Stamp[r]: the timestamp of the event stored as r
          After, Before, \* the bounds of the period the clients ask for: none or one
          Matching,      \* the rows the rest of their filter selects
          PerPage, Capacity,
          FirstVersions, \* versions of the database found at first; 0: none
          MaxStarts      \* bound

Row == 1..MaxRow

ASSUME RowAssumption == MaxRow \in Nat /\ Matching \subseteq Row
ASSUME StampAssumption ==
    /\ Stamp \in [Row -> Moment] /\ After \subseteq Bound /\ Before \subseteq Bound
    /\ \A q, r \in Row : q < r => Earlier(Stamp[q], Stamp[r])
ASSUME PageAssumption == PerPage \in Nat \ {0} /\ Capacity \in Nat \ {0}
ASSUME VersionAssumption == FirstVersions \subseteq 0..2
ASSUME ClientAssumption == {"task", "gone"} \cap Client = {}

VARIABLES columns,  \* version of the columns of table events, 0 without table
          versions, \* the rows of schema_version
          rows,     \* the rows of events
          worker,   \* for each store: the state of its thread
          queue,    \* for each store: the callers of the commands sent to it, or "gone"
          call,     \* for each caller: its command, its progress and outcome
          row,      \* the row the process task inserts
          view,     \* for each client: page, total, and what it has been shown
          starts,   \* counted for the bound
          first,       \* history: the version found at first
          fault,       \* history: a worker has failed to prepare the schema
          interrupted, \* history: a migration was cut off after its first statement
          told         \* history: for each row tried, whether insert said ok

database == <<columns, versions, rows>>
history == <<first, fault, interrupted, told>>
vars == <<database, worker, queue, call, row, view, starts, history>>

Store == {"process", "web"}
Caller == {"task"} \cup Client
StoreOf(c) == IF c = "task" THEN "process" ELSE "web"

WorkerState == {"closed", "create", "version", "record", "alter", "update", "running", "dead"}

NoCall == [op |-> "none", step |-> "idle", ok |-> FALSE]
Asks(op) == [op |-> op, step |-> "sending", ok |-> FALSE]

\* page and total are of the answer shown, 0 at first; counted and found are the
\* selected rows at the count and at the query; begun all rows at the beginning
NewView == [page |-> 0, total |-> 0, counted |-> {}, found |-> {}, shown |-> {},
            begun |-> {}, seen |-> {}, errors |-> FALSE]

Init ==
    /\ first \in FirstVersions
    /\ columns = first
    /\ versions = IF first = 0 THEN {} ELSE {first}
    /\ rows = {}
    /\ worker = [s \in Store |-> "closed"]
    /\ queue = [s \in Store |-> <<>>]
    /\ call = [c \in Caller |-> NoCall]
    /\ row = 0
    /\ view = [c \in Client |-> NewView]
    /\ starts = 0 /\ fault = FALSE /\ interrupted = FALSE
    /\ told = [r \in {} |-> FALSE]

-----------------------------------------------------------------------------
(* The process starts and dies.                                            *)

\* EventStore::open, twice: each spawns its thread
Open ==
    /\ \A s \in Store : worker[s] = "closed"
    /\ starts < MaxStarts
    /\ starts' = starts + 1
    /\ worker' = [s \in Store |-> "create"]
    /\ UNCHANGED <<database, queue, call, row, view, history>>

\* a statement that was not executed is lost with its caller
Die ==
    /\ \E s \in Store : worker[s] # "closed"
    /\ interrupted' = (interrupted \/ \E s \in Store : worker[s] = "update")
    /\ worker' = [s \in Store |-> "closed"]
    /\ queue' = [s \in Store |-> <<>>]
    /\ call' = [c \in Caller |-> NoCall]
    /\ row' = 0
    /\ view' = [c \in Client |-> NewView]
    /\ fault' = FALSE
    /\ UNCHANGED <<database, starts, first, told>>

-----------------------------------------------------------------------------
(* schema::initialize, by each worker.                                     *)

Moves(s, from, to) == worker[s] = from /\ worker' = [worker EXCEPT ![s] = to]
Others == <<queue, call, row, view, starts, history>>

\* execute_batch(SCHEMA_SQL): IF NOT EXISTS leaves an old table as it is
CreateTables(s) ==
    /\ Moves(s, "create", "version")
    /\ columns' = IF columns = 0 THEN 2 ELSE columns
    /\ UNCHANGED <<versions, rows, Others>>

Version == Max(versions \cup {0})

\* mutant: a database of an older version is not migrated
MutReadVersion(s) ==
    /\ Moves(s, "version", IF Version = 0 THEN "record" ELSE "running")
    /\ UNCHANGED <<database, Others>>

ReadVersion(s) ==
    /\ Moves(s, "version", CASE Version = 0 -> "record"
                             [] Version = 1 -> "alter"
                             [] OTHER -> "running")
    /\ UNCHANGED <<database, Others>>

\* mutant: the version recorded is not that of SCHEMA_SQL
MutRecordVersion(s) ==
    /\ Moves(s, "record", "running")
    /\ versions' = versions \cup {1}
    /\ UNCHANGED <<columns, rows, Others>>

RecordVersion(s) ==
    /\ Moves(s, "record", "running")
    /\ versions' = versions \cup {2}
    /\ UNCHANGED <<columns, rows, Others>>

AlterTable(s) ==
    /\ Moves(s, "alter", "update")
    /\ columns = 1 /\ columns' = 2
    /\ UNCHANGED <<versions, rows, Others>>

UpdateVersion(s) ==
    /\ Moves(s, "update", "running")
    /\ versions' = {2}
    /\ UNCHANGED <<columns, rows, Others>>

\* mutant: the commands that wait are not dropped with the receiver
MutThreadEnds(s) ==
    /\ worker' = [worker EXCEPT ![s] = "dead"]
    /\ UNCHANGED <<queue, call>>

\* the thread ends with an error: its receiver is dropped, with the commands in
\* it and the senders of their answers
ThreadEnds(s) ==
    /\ worker' = [worker EXCEPT ![s] = "dead"]
    /\ queue' = [queue EXCEPT ![s] = <<>>]
    /\ call' = [c \in Caller |->
           IF StoreOf(c) = s /\ call[c].step = "queued"
           THEN [call[c] EXCEPT !.step = "answered"] ELSE call[c]]

\* the column exists
AlterFails(s) ==
    /\ worker[s] = "alter" /\ columns # 1
    /\ ThreadEnds(s)
    /\ UNCHANGED <<database, row, view, starts, history>>

\* the database cannot be opened, or a statement fails for another reason
PrepareFails(s) ==
    /\ worker[s] \in {"create", "version", "record", "alter", "update"}
    /\ ThreadEnds(s)
    /\ fault' = TRUE
    /\ interrupted' = (interrupted \/ worker[s] = "update")
    /\ UNCHANGED <<database, row, view, starts, first, told>>

Prepare(s) ==
    \/ CreateTables(s) \/ ReadVersion(s) \/ RecordVersion(s)
    \/ AlterTable(s) \/ UpdateVersion(s) \/ AlterFails(s) \/ PrepareFails(s)

-----------------------------------------------------------------------------
(* Commands and answers.                                                   *)

\* tx.send(..).await: waits for room; NotInitialized once the thread has ended
Send(c) ==
    LET s == StoreOf(c) IN
    /\ call[c].step = "sending"
    /\ \/ /\ worker[s] # "dead" /\ Len(queue[s]) < Capacity
          /\ queue' = [queue EXCEPT ![s] = Append(@, c)]
          /\ call' = [call EXCEPT ![c].step = "queued"]
       \/ /\ worker[s] = "dead"
          /\ call' = [call EXCEPT ![c].step = "answered"]
          /\ UNCHANGED queue
    /\ UNCHANGED <<database, worker, row, view, starts, history>>

\* the worker takes the first command and sends the result
Answer(s, c, ok) ==
    /\ worker[s] = "running" /\ queue[s] # <<>> /\ c = Head(queue[s])
    /\ queue' = [queue EXCEPT ![s] = Tail(@)]
    /\ call' = [call EXCEPT ![c].step = "answered", ![c].ok = ok]
    /\ UNCHANGED <<columns, versions, worker, row, starts, history>>

\* mutant: the result of the statement is not passed on
MutDoInsert(s, c) ==
    /\ call[c].op = "insert"
    /\ Answer(s, c, TRUE)
    /\ rows' = rows \cup {row} \/ rows' = rows
    /\ UNCHANGED view

DoInsert(s, c) ==
    /\ call[c].op = "insert"
    /\ \/ Answer(s, c, TRUE) /\ rows' = rows \cup {row}
       \/ Answer(s, c, FALSE) /\ UNCHANGED rows
    /\ UNCHANGED view

\* timestamp >= ? AND timestamp <= ?
InPeriod == {r \in Row : /\ \A b \in After : AtMost(BoundText(b), Text(Stamp[r]))
                        /\ \A b \in Before : AtMost(Text(Stamp[r]), BoundText(b))}

\* mutant: the clause is left out of the count
MutCounted == rows

\* the rows counted: SELECT COUNT(*) with the clause of the filter
Counted == rows \cap Matching \cap InPeriod

DoCount(s, c) ==
    /\ call[c].op = "count"
    /\ \/ /\ Answer(s, c, TRUE)
          /\ view' = [view EXCEPT ![c].counted = Counted]
       \/ Answer(s, c, FALSE) /\ UNCHANGED view
    /\ UNCHANGED rows

Newer == [r \in Row |-> {q \in Row : Less(Text(Stamp[r]), Text(Stamp[q]))}]

\* mutant: the first page is page 0
MutPage(found, p) ==
    {r \in found : Cardinality(found \cap Newer[r]) \in (p * PerPage)..(p * PerPage + PerPage - 1)}

\* ORDER BY timestamp DESC LIMIT per_page OFFSET (page - 1) * per_page
Page(found, p) ==
    {r \in found : Cardinality(found \cap Newer[r]) \in ((p - 1) * PerPage)..(p * PerPage - 1)}

DoQuery(s, c) ==
    /\ call[c].op = "query"
    /\ LET found == rows \cap Matching \cap InPeriod
       IN  \/ /\ Answer(s, c, TRUE)
              /\ view' = [view EXCEPT ![c].found = found,
                                      ![c].shown = Page(found, view[c].page)]
           \/ Answer(s, c, FALSE) /\ UNCHANGED view
    /\ UNCHANGED rows

\* a read whose receiver is gone: the result is dropped
AnswerNobody(s) ==
    /\ worker[s] = "running" /\ queue[s] # <<>> /\ Head(queue[s]) = "gone"
    /\ queue' = [queue EXCEPT ![s] = Tail(@)]
    /\ UNCHANGED <<database, worker, call, row, view, starts, history>>

Execute(s) == AnswerNobody(s) \/ \E c \in Caller : DoInsert(s, c) \/ DoCount(s, c) \/ DoQuery(s, c)

-----------------------------------------------------------------------------
(* The callers.                                                            *)

Serving == \A s \in Store : worker[s] # "closed"

\* the process task stores an event (its id is new) and waits
TaskInserts ==
    /\ Serving /\ call["task"].step = "idle"
    /\ \E r \in Row \ (rows \cup DOMAIN told) : row' = r
    /\ call' = [call EXCEPT !["task"] = Asks("insert")]
    /\ UNCHANGED <<database, worker, queue, view, starts, history>>

TaskGoesOn ==
    /\ call["task"].step = "answered"
    /\ call' = [call EXCEPT !["task"] = NoCall]
    /\ told' = [r \in DOMAIN told \cup {row} |-> IF r = row THEN call["task"].ok ELSE told[r]]
    /\ row' = 0
    /\ UNCHANGED <<database, worker, queue, view, starts, first, fault, interrupted>>

\* total_pages of an answer
TotalPages(total) == IF total = 0 THEN 1 ELSE (total + PerPage - 1) \div PerPage

LastPage(c) == view[c].page > 0 /\ view[c].page >= TotalPages(view[c].total)

\* a client asks for the first page, then for the next one as long as the
\* answer's total_pages has one; the handler sends count_filtered
RequestPage(c) ==
    /\ Serving /\ call[c].step = "idle" /\ ~LastPage(c)
    /\ view' = [view EXCEPT ![c].page = @ + 1, ![c].total = 0, ![c].shown = {},
                            ![c].begun = IF view[c].page = 0 THEN rows ELSE @]
    /\ call' = [call EXCEPT ![c] = Asks("count")]
    /\ UNCHANGED <<database, worker, queue, row, starts, history>>

\* the total, 0 after an error, and the second command
HandlerCounted(c) ==
    /\ call[c].step = "answered" /\ call[c].op = "count"
    /\ view' = [view EXCEPT ![c].total = IF call[c].ok THEN Cardinality(view[c].counted) ELSE 0,
                            ![c].errors = @ \/ ~call[c].ok]
    /\ call' = [call EXCEPT ![c] = Asks("query")]
    /\ UNCHANGED <<database, worker, queue, row, starts, history>>

\* the events, none after an error: the client shows the page
HandlerAnswers(c) ==
    /\ call[c].step = "answered" /\ call[c].op = "query"
    /\ view' = [view EXCEPT ![c].seen = @ \cup view[c].shown, ![c].errors = @ \/ ~call[c].ok]
    /\ call' = [call EXCEPT ![c] = NoCall]
    /\ UNCHANGED <<database, worker, queue, row, starts, history>>

\* the connection closes: the handler is dropped where it waits, a command it
\* has sent stays in the queue, and the client begins anew
Abandon(c) ==
    /\ call[c].step \in {"sending", "queued"}
    /\ queue' = [queue EXCEPT !["web"] = [i \in DOMAIN @ |-> IF @[i] = c THEN "gone" ELSE @[i]]]
    /\ call' = [call EXCEPT ![c] = NoCall]
    /\ view' = [view EXCEPT ![c] = NewView]
    /\ UNCHANGED <<database, worker, row, starts, history>>

Next ==
    \/ Open \/ Die
    \/ \E s \in Store : Prepare(s) \/ Execute(s)
    \/ \E c \in Caller : Send(c)
    \/ TaskInserts \/ TaskGoesOn
    \/ \E c \in Client : RequestPage(c) \/ HandlerCounted(c) \/ HandlerAnswers(c) \/ Abandon(c)

Spec == Init /\ [][Next]_vars

\* Worker threads run and SQLite's statements end; the callers' tasks are
\* polled; tokio's channel hands out its room in the order it was asked for.
FairSpec ==
    /\ Spec
    /\ \A s \in Store : WF_vars(Prepare(s)) /\ WF_vars(Execute(s))
    /\ \A c \in Caller : SF_vars(Send(c))
    /\ WF_vars(TaskGoesOn)
    /\ \A c \in Client : WF_vars(HandlerCounted(c) \/ HandlerAnswers(c))

(***************************************************************************)
(* Properties.                                                             *)
(***************************************************************************)

\* Type invariant: state, and the commands queued are those of waiting callers.
TypeOK ==
    /\ columns \in 0..2 /\ versions \subseteq 1..2 /\ rows \subseteq Row
    /\ worker \in [Store -> WorkerState]
    /\ queue \in [Store -> Seq(Caller \cup {"gone"})]
    /\ \A s \in Store : Len(queue[s]) <= Capacity
    /\ call \in [Caller -> [op : {"none", "insert", "count", "query"}, ok : BOOLEAN,
                            step : {"idle", "sending", "queued", "answered"}]]
    /\ \A c \in Caller : call[c].step = "queued" <=> \E i \in DOMAIN queue[StoreOf(c)] :
                                                        queue[StoreOf(c)][i] = c
    /\ row \in Row \cup {0}
    /\ view \in [Client -> [page : 0..(MaxRow + 1), total : 0..MaxRow, errors : BOOLEAN,
                            counted : SUBSET Row, found : SUBSET Row, shown : SUBSET Row,
                            begun : SUBSET Row, seen : SUBSET Row]]
    /\ DOMAIN told \subseteq Row

\* Commands are executed on the current schema only, whichever worker prepared
\* it and wherever an earlier start was cut off.
RunningOnCurrentSchema ==
    \A s \in Store : worker[s] = "running" => columns = 2 /\ Version = 2

\* Without a fault of the disk, a worker ends only because the other one, or an
\* earlier start that was cut off half-way, has added the column to a version 1
\* database; and if it was the other one, that one is left.
OnlyMigrationKills ==
    \A s \in Store : worker[s] = "dead" /\ ~fault =>
        first = 1 /\ (interrupted \/ \E t \in Store : worker[t] # "dead")

\* An event is in the database exactly if its insert was answered with ok,
\* whatever ended in between.
InsertIsTold == \A r \in DOMAIN told : told[r] <=> r \in rows

\* Every command is answered, also by a worker that has ended or will end.
CallsEnd == \A c \in Caller : (call[c].step # "idle") ~> (call[c].step = "idle")

\* A page that the total promises is never empty, whatever is inserted between
\* the count and the query.
PagePresent ==
    \A c \in Client :
        call[c].step = "answered" /\ call[c].op = "query" /\ call[c].ok
            /\ view[c].total > (view[c].page - 1) * PerPage => view[c].shown # {}

\* The rows a client asks for, up to the millisecond of a bound: those of the
\* milliseconds between the bounds, and those of the bounds' own as well.
Inside == {r \in Matching : /\ \A b \in After : PastMillisecond(Stamp[r], b)
                           /\ \A b \in Before : BeforeMillisecond(Stamp[r], b)}
Touching == {r \in Matching : /\ \A b \in After : ~BeforeMillisecond(Stamp[r], b)
                             /\ \A b \in Before : ~PastMillisecond(Stamp[r], b)}

\* A client that goes on to the last page without a failed request has been
\* shown the rows inside the period that were there when it began, though
\* inserts push rows to later pages and though bounds and rows are compared as
\* texts of different forms: at most as many are missing as rows were inserted
\* between the count of the last page and its query.  It has been shown no row
\* outside the period.  (On which side the rows of a bound's own millisecond
\* fall is not asked here: the texts decide it otherwise than the times.)
BrowseComplete ==
    \A c \in Client :
        call[c].step = "idle" /\ LastPage(c) /\ ~view[c].errors =>
            /\ Cardinality((view[c].begun \cap Inside) \ view[c].seen)
                 <= Cardinality(view[c].found \ view[c].counted)
            /\ view[c].seen \subseteq Touching
=============================================================================
