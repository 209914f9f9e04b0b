--------------------------- MODULE MCFFSDirectory ---------------------------
(* Two directories for FFSDirectory: one with a free entry and a last entry *)
(* of the least size, and one that ends in zeros.                           *)
EXTENDS FFSDirectory

Live(n, len, need) == [ino |-> 3, name |-> n, reclen |-> len, need |-> need]
Free(len) == [ino |-> 0, name |-> "a", reclen |-> len, need |-> 1]

Directory(size, entries) ==
  LET at[i \in 1 .. Len(entries) + 1] == IF i = 1 THEN 0 ELSE at[i - 1] + entries[i - 1].reclen
  IN  [size |-> size, entries |-> entries, at |-> at]

SomeDirectories ==
  { Directory(56, <<Live("a", 12, 1), Free(16), Live("b", 16, 2), Live("c", 12, 1)>>),
    Directory(512, <<Live("b", 12, 1), Free(0)>>) }

Asks(n, room, single, restart, byIndex) ==
  [name |-> n, room |-> room, single |-> single, restart |-> restart, byIndex |-> byIndex]

SomeRequests ==
  { Asks("*", 3, FALSE, FALSE, FALSE), Asks("b", 1, TRUE, TRUE, FALSE), Asks("*", 2, FALSE, FALSE, TRUE) }

Symmetric == Permutations(Queries)
=============================================================================
