----------------------------- MODULE DedupHold ------------------------------
(***************************************************************************)
(* What the deduplicator promises, with no table and no clock: letting a   *)
(* key through puts it on hold for Window ticks, an event on hold is       *)
(* suppressed and does not lengthen the hold, an event that is not on hold *)
(* passes.                                                                 *)
(***************************************************************************)
EXTENDS Integers

CONSTANTS Key, Window

VARIABLES hold,     \* hold[k]: ticks until k may pass again
          verdict   \* answer to the latest event

holdVars == <<hold, verdict>>

NoVerdict == [asked |-> FALSE]
Verdict(k, p) == [asked |-> TRUE, key |-> k, passed |-> p]

HoldInit == hold = [k \in Key |-> 0] /\ verdict = NoVerdict

HoldPass(k) ==
    /\ hold[k] = 0
    /\ hold' = [hold EXCEPT ![k] = Window]
    /\ verdict' = Verdict(k, TRUE)

HoldSuppress(k) ==
    /\ hold[k] > 0
    /\ verdict' = Verdict(k, FALSE)
    /\ UNCHANGED hold

HoldTick ==
    /\ hold' = [k \in Key |-> IF hold[k] > 0 THEN hold[k] - 1 ELSE 0]
    /\ UNCHANGED verdict

HoldNext ==
    \/ HoldTick
    \/ \E k \in Key : HoldPass(k) \/ HoldSuppress(k)

HoldSpec == HoldInit /\ [][HoldNext]_holdVars
=============================================================================
