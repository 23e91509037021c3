--------------------------- MODULE SlidingWindow ----------------------------
(***************************************************************************)
(* dm-metrics/window.rs: events counted in buckets of `size` seconds, of   *)
(* which a window keeps those that began `count` sizes ago or later: in    *)
(* the second a bucket begins, one more than the `count` of window.rs:20.  *)
(* A window is the sequence of its buckets [at, value], where `at` is the  *)
(* second the bucket begins.                                               *)
(* Recording compares with the last bucket only and is the one operation   *)
(* that trims: a reader finds what the last recording left.                *)
(***************************************************************************)
EXTENDS Integers, Sequences, SequencesExt

TotalDuration(cfg) == cfg.size * cfg.count

BucketTime(time, cfg) == time - (time % cfg.size)

\* mutant: a bucket that began exactly one duration ago leaves
MutTrim(window, cutoff) ==
  LET young == {i \in DOMAIN window : window[i].at > cutoff}
  IN  IF young = {} THEN <<>> ELSE SubSeq(window, Min(young), Len(window))

\* buckets leave from the front, up to the first that is young enough
Trim(window, cutoff) ==
  LET young == {i \in DOMAIN window : window[i].at >= cutoff}
  IN  IF young = {} THEN <<>> ELSE SubSeq(window, Min(young), Len(window))

\* mutant: an event older than the last bucket is counted in that bucket
MutRecordAt(window, time, cfg) ==
  LET bucket == BucketTime(time, cfg)
      last   == Len(window)
      added  == IF window # <<>> /\ window[last].at >= bucket
                THEN [window EXCEPT ![last].value = @ + 1]
                ELSE Append(window, [at |-> bucket, value |-> 1])
  IN  Trim(added, time - TotalDuration(cfg))

RecordAt(window, time, cfg) ==
  LET bucket == BucketTime(time, cfg)
      last   == Len(window)
      added  == IF window # <<>> /\ window[last].at = bucket
                THEN [window EXCEPT ![last].value = @ + 1]
                ELSE Append(window, [at |-> bucket, value |-> 1])
  IN  Trim(added, time - TotalDuration(cfg))

\* what the data points of a window say of one bucket
ValueAt(window, bucket) ==
  FoldSeq(LAMBDA b, sum : IF b.at = bucket THEN sum + b.value ELSE sum, 0, window)
=============================================================================
