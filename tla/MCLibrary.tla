-------------------------------- MODULE MCLibrary --------------------------------
(* Two tracks, one of which changes, vanishes and comes back, compete for one
   place in the channel and one permit. *)
EXTENDS Library

CONSTANTS a, b, title, permit

MCPath == {a, b}
MCChanging == {a}
MCUploaded == {b}
MCTagged == {2}
MCCorrection == {title}
MCPermit == {permit}

Base == [start |-> "started", late |-> FALSE, success |-> TRUE, stderr |-> "",
         stdout |-> "track", bounded |-> TRUE]
(* An answer, one with too long a title, and no helper. *)
MCHelperRun == {Base, [Base EXCEPT !.bounded = FALSE], [Base EXCEPT !.start = "not found"]}
=============================================================================
