---------------------------- MODULE MCWebClient -----------------------------
(* Model of WebClient: pages of two rows and a channel of one, so that live   *)
(* events leave the view and receivers lag; two rows at first, one row that   *)
(* does not match the filters, and a last one that is older than the first    *)
(* two, so that it belongs on the second page; two logins, so that a second   *)
(* socket joins the first; one trouble, so that a run has one disturbance.    *)
EXTENDS WebClient
Stamps == <<4, 3, 1, 2>>
=============================================================================
