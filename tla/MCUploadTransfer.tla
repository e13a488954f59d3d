--------------------------- MODULE MCUploadTransfer ---------------------------
(* Two transfers that may hold the same songs, one song of two chunks. *)
EXTENDS UploadTransfer, TLC

CONSTANTS x1, x2, f1, f2, s1, s2

MCTransfer == {x1, x2}
MCFile == {f1, f2}
MCSize == [f \in MCFile |-> IF f = f1 THEN 2 ELSE 1]
MCSongOf == [f \in MCFile |-> IF f = f1 THEN s1 ELSE s2]
MCSymmetry == Permutations(MCTransfer)
=============================================================================
