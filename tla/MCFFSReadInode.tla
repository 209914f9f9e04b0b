--------------------------- MODULE MCFFSReadInode ---------------------------
(* Small files for FFSReadInode, with blocks of 16 bytes of 4 fragments.   *)
EXTENDS FFSReadInode

FragmentsPerBlock == BlockSize \div FragmentSize

(* Runs of three blocks that follow each other on disk. *)
Place(n) == FragmentsPerBlock * (10 + n + n \div 3)

File(v, offset, data) ==
  [FSVersion |-> v, FSOffset |-> offset,
   Address |-> [n \in 0 .. Capacity(v) - 1 |-> IF n \in data THEN Place(n) ELSE 0]]

DenseFiles(v, offset, sizes) == { File(v, offset, 0 .. n - 1) : n \in sizes }

(* Holes among direct blocks and under allocated blocks of pointers. *)
SparseFiles(v, last) == { File(v, 0, (0 .. last) \ holes) : holes \in {{0}, {1, 4}, {2}} }

(* All UFS1 files, and the UFS2 files that need no triple indirect block. *)
ReadableFiles ==
  DenseFiles(1, 0, 0 .. Capacity(1)) \cup DenseFiles(2, 0, 0 .. FirstLeaf(2, 3))
    \cup DenseFiles(2, 64, {FirstLeaf(2, 3)}) \cup SparseFiles(1, 9) \cup SparseFiles(2, 7)

ShortRanges == {1, 16, 21, 60}
Starts == {0, 5, 32, 90, 350}

(* A UFS1 file in a partition that is not the first of its disk label. *)
SecondPartition == DenseFiles(1, 64, {7})

SmallFiles == DenseFiles(1, 0, {1, 3})
=============================================================================
