--------------------------- MODULE MCFFSNameCache ---------------------------
(* A small disk for FFSNameCache: \f is a file, \d a directory that holds   *)
(* two files whose names differ in case only, and .., which leads back to   *)
(* the root.                                                                *)
EXTENDS FFSNameCache

SomeNames == {"d", "f", "F", "..", "*"}
Upcased == [n \in SomeNames |-> IF n = "f" THEN "F" ELSE n]

Stored(n, i) == [name |-> n, ino |-> i]
SmallDisk ==
  (2 :> <<Stored("f", 3), Stored("d", 4)>>) @@ (4 :> <<Stored("..", 2), Stored("F", 5), Stored("f", 3)>>)

SomePaths == {<<>>, <<"f">>, <<"d", "F">>, <<"F", "*">>, <<"d", "..">>}
Wild == {"*"}

Symmetric == Permutations(Handles) \cup Permutations(McbIds \ {RootMcb})
=============================================================================
