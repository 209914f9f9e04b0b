----------------------------- MODULE MCFFSMount -----------------------------
(* Disk labels of three partitions for FFSMount. *)
EXTENDS FFSMount, TLC

Ffs(o, m, r) == [fs |-> "ffs", magic |-> m, offset |-> o, root |-> r]
Swap(o) == [fs |-> "other", magic |-> 0, offset |-> o, root |-> FALSE]
Label(s, a, b, c) == [start |-> s, parts |-> [i \in 0 .. 2 |-> IF i = 0 THEN a ELSE IF i = 1 THEN b ELSE c]]

(* The root first, or behind the swap partition or another file system;    *)
(* UFS1 and UFS2 side by side; a partition that was never formatted.       *)
SomeLabels ==
  { Label(1, Ffs(1, 2, TRUE), Swap(3), Ffs(4, 2, FALSE)),
    Label(2, Swap(2), Ffs(3, 2, TRUE), Ffs(5, 2, FALSE)),
    Label(0, Ffs(0, 2, FALSE), Ffs(2, 2, TRUE), Swap(4)),
    Label(1, Ffs(1, 1, TRUE), Ffs(3, 2, FALSE), Swap(5)),
    Label(1, Ffs(1, 2, TRUE), Ffs(2, 0, FALSE), Ffs(6, 1, FALSE)) }

Symmetric == Permutations(Volumes)

=============================================================================
