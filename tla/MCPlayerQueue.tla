----------------------------- MODULE MCPlayerQueue -----------------------------
(* Two tracks, one with an unknown duration, and queues with duplicates. *)
EXTENDS PlayerQueue

CONSTANTS t1, t2

MCTrack == {t1, t2}
MCDuration == [t \in MCTrack |-> IF t = t1 THEN 1 ELSE 0]
=============================================================================
