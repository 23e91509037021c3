--------------------------- MODULE MCEventStore ----------------------------
(* An instance of EventStore for TLC: rows written with nine, no and nine  *)
(* digits; the first is a nanosecond before the period, the others are     *)
(* inside it; pages of one row, queues of one command.                     *)
EXTENDS EventStore
Stamps == <<[sec |-> 5, ms |-> 122, us |-> 999, ns |-> 999],
            [sec |-> 6, ms |-> 0, us |-> 0, ns |-> 0],
            [sec |-> 6, ms |-> 0, us |-> 0, ns |-> 1]>>
Begin == {[sec |-> 5, ms |-> 123]}
End == {[sec |-> 6, ms |-> 1]}
=============================================================================
