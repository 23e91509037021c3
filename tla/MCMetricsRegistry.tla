------------------------- MODULE MCMetricsRegistry --------------------------
(* Model of MetricsRegistry: two recorders, events of two types under one root, *)
(* so that a label of each counter is created by whoever comes first, and a     *)
(* window of one bucket of two seconds beside windows of two of one second,   *)
(* so that buckets fill, leave and stand behind older ones when the clock is    *)
(* set back.                                                                    *)
EXTENDS MetricsRegistry, TLC

CONSTANTS r1, r2

MCRecorder == {r1, r2}
MCEvent == {[type |-> "CREATE", root |-> "data"], [type |-> "DELETE", root |-> "data"]}
MCRates == <<"rate_1h">>
MCConfig == [s \in Series |-> IF s = "rate_1h" THEN [size |-> 2, count |-> 1]
                                              ELSE [size |-> 1, count |-> 2]]

\* Counters and windows share no state but the recorders' positions, and the
\* clock matters to the windows alone, each recording of which is one step: the
\* clock stands at 0 while a chart is read or both recorders are under way.
Apart == \/ now = 0
         \/ chart = Idle /\ Cardinality({r \in Recorder : rec[r] # Idle}) <= 1

\* A tick commutes with every step but a recording in a window, so it is put off
\* until a recorder is about to make one.
TimelyTick == now' # now => \E r \in Recorder : rec[r].at = "window"

RecorderSymmetry == Permutations(MCRecorder)
=============================================================================
