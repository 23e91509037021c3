-------------------------- MODULE MCEmailNotifier --------------------------
(* Instances of EmailNotifier for TLC. *)
EXTENDS EmailNotifier
CONSTANTS e1, e2, e3, x, y, bad

\* events of a watch with one recipient, of two watches that share one, and of a
\* watch with an address that is invalid
Mixed == [e \in Event |-> CASE e = e2 -> <<y, x, y>> [] e = e3 -> <<y, bad, x>> [] OTHER -> <<x>>]
OneEach == [e \in Event |-> <<x>>]
=============================================================================
