---------------------------- MODULE MCFsWatcher -----------------------------
(* Model of FsWatcher: two watchers, so that their batches interleave in the *)
(* channel, and enough items for two batches of one watcher with an error or *)
(* a noise event between them.                                               *)
EXTENDS FsWatcher

CONSTANTS w1, w2
MCWatcher == {w1, w2}
=============================================================================
