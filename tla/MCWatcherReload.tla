-------------------------- MODULE MCWatcherReload --------------------------
(* Instances of WatcherReload for TLC. *)
EXTENDS WatcherReload
CONSTANTS a, b, r1, bad

W(p, deep, rule) == [path |-> p, recursive |-> deep, rule |-> rule]

NoAdmin == {}
\* started with one watch
OneWatch == {<<W(a, TRUE, r1)>>}
\* an administrator may list a path twice, with invalid globs the second time
TwiceTheSame == {<<W(a, TRUE, r1), W(a, FALSE, bad)>>}
=============================================================================
