---------------------------- MODULE MCSnapshotFeed ----------------------------
(* One controller, and a page with a very short event channel. *)
EXTENDS SnapshotFeed

CONSTANT c1
=============================================================================
