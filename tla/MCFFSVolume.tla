----------------------------- MODULE MCFFSVolume -----------------------------
(* Small instances of FFSVolume for TLC. *)
EXTENDS FFSVolume, TLC

(* FCB addresses are interchangeable, and so are file objects, and the     *)
(* files that are not directories: FFSVolume compares them for equality    *)
(* only. *)
Symmetry == Permutations(Fcbs) \cup Permutations(FileObjects) \cup Permutations(Files \ Dirs)
=============================================================================
