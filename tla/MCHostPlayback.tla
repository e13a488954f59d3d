----------------------------- MODULE MCHostPlayback -----------------------------
(* Two tracks whose duration no scan knows, and a queue of two entries. *)
EXTENDS HostPlayback

CONSTANTS t1, t2

MCTrack == {t1, t2}
MCDuration == [t \in MCTrack |-> 0]
=============================================================================
