--------------------------- MODULE MCDeduplicator ---------------------------
(* Model of Deduplicator: two keys, a window of two ticks, and a clock that *)
(* runs for more than two windows, so that every key can pass, be           *)
(* suppressed, expire, be cleaned up by the other key's events and return.  *)
EXTENDS Deduplicator

CONSTANTS k1, k2
MCKey == {k1, k2}
MCWindow == 2
MCMaxTime == 6
=============================================================================
