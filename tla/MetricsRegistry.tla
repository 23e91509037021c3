-------------------------- MODULE MetricsRegistry ---------------------------
(***************************************************************************)
(* dm-metrics: one registry behind an Arc.  record_event counts an event   *)
(* in events_total, then in three LabeledCounters, then in the sliding     *)
(* windows, each under a lock of its own, so that readers and other        *)
(* recorders run between any two of these.  A LabeledCounter hands out the *)
(* cell of a label: looked up under the read lock, created under the write *)
(* lock, incremented with no lock held.                                    *)
(*                                                                         *)
(* chart_json reads events_total, then each counter label by label under   *)
(* its read lock; prometheus does the same without the total.              *)
(*                                                                         *)
(* Not here: the dropped, deduped and watcher counts (EventPipeline and    *)
(* WatcherReload have them) and the text of the two formats.               *)
(***************************************************************************)
EXTENDS SlidingWindow, FiniteSets

CONSTANTS Recorder,   \* the tasks that hold the Arc and record
          Event,      \* what is recorded: functions from "type" and "root"
          Rates,      \* names of the unlabelled windows, in order of recording
          Config,     \* Config[s]: [size, count] of the windows
          MaxEvents,  \* bound on events_total
          MaxTime     \* bound on the clock

ASSUME BoundAssumption == MaxEvents \in Nat /\ MaxTime \in Nat

VARIABLES total,   \* events_total
          cells,   \* cells[f]: label -> index in value, the HashMap of Arcs
          value,   \* value[c]: the AtomicCounter c
          rec,     \* rec[r]: where recorder r is in record_event
          windows, \* windows[s]: the buckets of window s
          now,     \* Utc::now(), in seconds
          chart,   \* where the reader is in chart_json
          counted, \* history: counted[f][l], events past their increment
          heard    \* history: the times at which each window recorded, and
                   \* whether the clock was ever set back

vars == <<total, cells, value, rec, windows, now, chart, counted, heard>>

Families == <<"type", "root", "type_root">>
Keys == [type |-> {"type"}, root |-> {"root"}, type_root |-> {"type", "root"}]
Family == DOMAIN Keys

\* the label under which family f counts event e
LabelOf(f, e) == [k \in Keys[f] |-> e[k]]
Labels(f) == {LabelOf(f, e) : e \in Event}

\* the windows an event is recorded in, in that order
SeriesOf(e) == Append(Rates, e["type"])
Series == UNION {Range(SeriesOf(e)) : e \in Event}

\* the windows are made with the registry, each with a constant configuration
ASSUME WindowsAssumption ==
  /\ Rates \in Seq(STRING)
  /\ Config \in [Series -> [size : Nat \ {0}, count : Nat \ {0}]]

Idle == [at |-> "idle"]

Init ==
  /\ total = 0
  /\ cells = [f \in Family |-> <<>>]
  /\ value = <<>>
  /\ rec = [r \in Recorder |-> Idle]
  /\ windows = [s \in Series |-> <<>>]
  /\ now = 0
  /\ chart = Idle
  /\ counted = [f \in Family |-> [l \in Labels(f) |-> 0]]
  /\ heard = [times |-> [s \in Series |-> <<>>], stepped |-> FALSE]

\* the window part of the state is left alone by the counters, and conversely
Untimed == UNCHANGED <<windows, heard>>
NoCount == UNCHANGED <<total, cells, value, counted>>

-----------------------------------------------------------------------------
(* record_event *)

RecordEvent(r, e) ==
  /\ rec[r] = Idle
  /\ total < MaxEvents
  /\ total' = total + 1
  /\ rec' = [rec EXCEPT ![r] = [at |-> "lookup", i |-> 1, e |-> e]]
  /\ UNCHANGED <<cells, value, now, chart, counted>> /\ Untimed

\* the counter and the label that recorder r is at
FamilyOf(r) == Families[rec[r].i]
LabelAt(r) == LabelOf(FamilyOf(r), rec[r].e)

\* r has the Arc of cell c and lets go of the lock
Holding(r, c) ==
  [rec EXCEPT ![r] = [at |-> "add", i |-> rec[r].i, e |-> rec[r].e, cell |-> c]]

\* with_labels, fast path: the label is looked up under the read lock
Lookup(r) ==
  /\ rec[r].at = "lookup"
  /\ rec' = IF LabelAt(r) \in DOMAIN cells[FamilyOf(r)]
            THEN Holding(r, cells[FamilyOf(r)][LabelAt(r)])
            ELSE [rec EXCEPT ![r].at = "create"]
  /\ UNCHANGED <<now, chart>> /\ NoCount /\ Untimed

\* mutant: the map is not looked at again under the write lock
MutFound(f, l) == Len(value) + 1

\* the cell of a label that is in the map by now, or a new one
Found(f, l) == IF l \in DOMAIN cells[f] THEN cells[f][l] ELSE Len(value) + 1

\* mutant: the new map has the new label only
MutGetOrCreate(r) ==
  LET f == FamilyOf(r)
      c == Found(f, LabelAt(r))
  IN  /\ rec[r].at = "create"
      /\ ~(chart.at = "reading" /\ Families[chart.i] = f)
      /\ cells' = [cells EXCEPT ![f] = [k \in {LabelAt(r)} |-> c]]
      /\ value' = IF c > Len(value) THEN Append(value, 0) ELSE value
      /\ rec' = Holding(r, c)
      /\ UNCHANGED <<total, now, chart, counted>> /\ Untimed

\* slow path: looked up again under the write lock, which waits for a reader
GetOrCreate(r) ==
  LET f == FamilyOf(r)
      l == LabelAt(r)
      c == Found(f, l)
  IN  /\ rec[r].at = "create"
      /\ ~(chart.at = "reading" /\ Families[chart.i] = f)
      /\ cells' = [cells EXCEPT ![f] =
                     [k \in DOMAIN @ \cup {l} |-> IF k = l THEN c ELSE @[k]]]
      /\ value' = IF c > Len(value) THEN Append(value, 0) ELSE value
      /\ rec' = Holding(r, c)
      /\ UNCHANGED <<total, now, chart, counted>> /\ Untimed

\* fetch_add on the cell, then on to the next counter or to the windows
Increment(r) ==
  /\ rec[r].at = "add"
  /\ value' = [value EXCEPT ![rec[r].cell] = @ + 1]
  /\ counted' = [counted EXCEPT ![FamilyOf(r)][LabelAt(r)] = @ + 1]
  /\ rec' = [rec EXCEPT ![r] =
               IF rec[r].i < Len(Families)
               THEN [at |-> "lookup", i |-> rec[r].i + 1, e |-> rec[r].e]
               ELSE [at |-> "window", i |-> 1, e |-> rec[r].e]]
  /\ UNCHANGED <<total, cells, now, chart>> /\ Untimed

\* the event is counted in the windows one after the other; the two calls of
\* Utc::now() in one recording are taken as one moment
RecordWindow(r) ==
  LET series == SeriesOf(rec[r].e)
      s      == series[rec[r].i]
  IN  /\ rec[r].at = "window"
      /\ windows' = [windows EXCEPT ![s] = RecordAt(@, now, Config[s])]
      /\ heard' = [heard EXCEPT !.times[s] = Append(@, now)]
      /\ rec' = [rec EXCEPT ![r] = IF rec[r].i < Len(series)
                                   THEN [rec[r] EXCEPT !.i = @ + 1] ELSE Idle]
      /\ UNCHANGED <<now, chart>> /\ NoCount

-----------------------------------------------------------------------------
(* chart_json *)

\* events in record_event that may have yet to reach the counters
Under == {r \in Recorder : rec[r].at \in {"lookup", "create", "add"}}

ReadTotal ==
  /\ chart = Idle
  /\ chart' = [at |-> "between", i |-> 1, total |-> total,
               under |-> Cardinality(Under)]
  /\ UNCHANGED <<rec, now>> /\ NoCount /\ Untimed

\* snapshot takes the read lock
OpenSnapshot ==
  /\ chart.at = "between"
  /\ chart' = [at |-> "reading", i |-> chart.i, total |-> chart.total,
               under |-> chart.under, sum |-> 0,
               todo |-> DOMAIN cells[Families[chart.i]]]
  /\ UNCHANGED <<rec, now>> /\ NoCount /\ Untimed

\* mutant: a counter is represented by one of its labels
MutReadLabel(l) ==
  /\ chart.at = "reading"
  /\ l \in chart.todo
  /\ chart' = [chart EXCEPT !.todo = @ \ {l},
                            !.sum = value[cells[Families[chart.i]][l]]]
  /\ UNCHANGED <<rec, now>> /\ NoCount /\ Untimed

\* and loads one cell after the other, while increments go on
ReadLabel(l) ==
  /\ chart.at = "reading"
  /\ l \in chart.todo
  /\ chart' = [chart EXCEPT !.todo = @ \ {l},
                            !.sum = @ + value[cells[Families[chart.i]][l]]]
  /\ UNCHANGED <<rec, now>> /\ NoCount /\ Untimed

CloseSnapshot ==
  /\ chart.at = "reading"
  /\ chart.todo = {}
  /\ chart' = IF chart.i < Len(Families)
              THEN [at |-> "between", i |-> chart.i + 1,
                    total |-> chart.total, under |-> chart.under]
              ELSE Idle
  /\ UNCHANGED <<rec, now>> /\ NoCount /\ Untimed

-----------------------------------------------------------------------------
(* the system clock *)

Tick ==
  /\ now < MaxTime
  /\ now' = now + 1
  /\ UNCHANGED <<rec, chart>> /\ NoCount /\ Untimed

\* set back by an operator or by NTP
StepBack(t) ==
  /\ ~heard.stepped
  /\ t < now
  /\ now' = t
  /\ heard' = [heard EXCEPT !.stepped = TRUE]
  /\ UNCHANGED <<rec, windows, chart>> /\ NoCount

Next ==
  \/ \E r \in Recorder : \/ \E e \in Event : RecordEvent(r, e)
                         \/ Lookup(r) \/ GetOrCreate(r) \/ Increment(r)
                         \/ RecordWindow(r)
  \/ ReadTotal \/ OpenSnapshot \/ CloseSnapshot
  \/ \E f \in Family : \E l \in Labels(f) : ReadLabel(l)
  \/ Tick
  \/ \E t \in 0..MaxTime : StepBack(t)

Spec == Init /\ [][Next]_vars

-----------------------------------------------------------------------------
(* Properties *)

\* No increment is lost or counted twice: at every moment each cell holds as
\* many events as are past their fetch_add on its label, however many tasks
\* met the label for the first time together (with_labels, counter.rs:91).
NothingMiscounted ==
  \A f \in Family : \A l \in Labels(f) :
    counted[f][l] = IF l \in DOMAIN cells[f] THEN value[cells[f][l]] ELSE 0

\* Two scrapes in a row never show a label gone or its count, or the total,
\* lower: what Prometheus takes a counter for (snapshot, counter.rs:130).
ScrapesGrow ==
  [][/\ total <= total'
     /\ \A f \in Family : \A l \in DOMAIN cells[f] :
          /\ l \in DOMAIN cells'[f]
          /\ value[cells[f][l]] <= value'[cells'[f][l]]]_vars

\* The parts of one chart belong together although they are read at different
\* moments: each counter's labels add up to no less than the total the chart
\* shows, but for the events that were under way when it was read, and to no
\* more than the total of now (chart_json, lib.rs:249).
ChartHangsTogether ==
  chart.at = "reading" /\ chart.todo = {} =>
    chart.total - chart.under <= chart.sum /\ chart.sum <= total

HeardIn(s, b) ==
  Cardinality({i \in DOMAIN heard.times[s] :
                 BucketTime(heard.times[s][i], Config[s]) = b})

\* While the clock only advances, a window is after each recording exactly the
\* events whose bucket began within its duration (trim, window.rs:103).
WindowExact ==
  \A s \in Series : heard.times[s] # <<>> /\ ~heard.stepped =>
    \A b \in 0..MaxTime :
      ValueAt(windows[s], b) =
        IF b >= Last(heard.times[s]) - TotalDuration(Config[s])
        THEN HeardIn(s, b) ELSE 0

\* Whatever the clock does, no event is dropped before a recording that finds
\* its bucket older than the duration, and the buckets of one time, of which
\* there may be two once the clock was set back, add up (record_at, window.rs:85).
RecentKept ==
  \A s \in Series : \A b \in 0..MaxTime :
    (\A i \in DOMAIN heard.times[s] :
       b >= heard.times[s][i] - TotalDuration(Config[s])) =>
      ValueAt(windows[s], b) = HeardIn(s, b)
=============================================================================
