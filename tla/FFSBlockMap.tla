----------------------------- MODULE FFSBlockMap -----------------------------
(***************************************************************************)
(* From a block index of a file to the block on disk, through the direct   *)
(* pointers and the single, double and triple indirect blocks of an inode, *)
(* for UFS1 (4-byte pointers) and UFS2 (8-byte pointers).                  *)
(*                                                                         *)
(* A file is the function Address from block indices to the fragment where *)
(* the block starts, 0 for a hole.  A pointer is a record [layer, first]:  *)
(* what it leads to is a tree of `layer` levels of pointers over the data  *)
(* blocks from index `first` on.  v is the version of the file system.     *)
(***************************************************************************)
EXTENDS Integers, FiniteSets

CONSTANTS
  BLOCK_BITS,  \* log2 of the block size
  NDADDR,      \* direct pointers of an inode
  WordBits     \* width of a ULONG

ASSUME GeometryAssumption ==
  /\ BLOCK_BITS \in Nat /\ BLOCK_BITS > 3
  /\ NDADDR \in Nat \ {0}
  /\ WordBits \in Nat \ {0}

BlockSize == 2 ^ BLOCK_BITS

-----------------------------------------------------------------------------
(* What FFS puts on the disk *)

PointersPerBlock(v) == BlockSize \div (IF v = 1 THEN 4 ELSE 8)

(* The data blocks that a pointer of a layer leads to. *)
Leaves(v, layer) ==
  LET P == PointersPerBlock(v) IN
  CASE layer = 0 -> 1 [] layer = 1 -> P [] layer = 2 -> P * P [] layer = 3 -> P * P * P

(* Arithmetic of powers of two, true for all values of the constants. *)
ASSUME PowerAssumption ==
  /\ BlockSize \in Nat /\ BlockSize >= 16
  /\ 2 ^ 0 = 1
  /\ \A n \in 0 .. WordBits : 2 ^ n \in Nat \ {0}
  /\ \A n \in 0 .. WordBits - 1 : 2 ^ n < 2 ^ WordBits
  /\ \A layer \in 0 .. 3 : /\ 2 ^ ((BLOCK_BITS - 2) * layer) = Leaves(1, layer)
                           /\ 2 ^ ((BLOCK_BITS - 3) * layer) = Leaves(2, layer)

(* The index of the first data block below the indirect pointer of a layer. *)
FirstLeaf(v, layer) ==
  NDADDR + CASE layer = 1 -> 0
             [] layer = 2 -> Leaves(v, 1)
             [] layer = 3 -> Leaves(v, 1) + Leaves(v, 2)

Capacity(v) == FirstLeaf(v, 3) + Leaves(v, 3)

DirectPointer(n) == [layer |-> 0, first |-> n]
IndirectPointer(v, layer) == [layer |-> layer, first |-> FirstLeaf(v, layer)]

(* A word read from anything that is not a block of pointers of the file. *)
Stray == [layer |-> 0, first |-> -1]

Below(v, b) == b.first .. (b.first + Leaves(v, b.layer) - 1)

(* A block of pointers is allocated with the first data block below it. *)
Allocated(v, Address, b) == \E n \in Below(v, b) : Address[n] # 0

PointerIn(v, Address, b, k) ==
  IF b # Stray /\ k < PointersPerBlock(v) /\ Allocated(v, Address, b)
  THEN [layer |-> b.layer - 1, first |-> b.first + k * Leaves(v, b.layer - 1)]
  ELSE Stray

(* The places of the blocks of pointers below an indirect pointer. *)
PlacesBelow(v, top) ==
  UNION { { [layer |-> l, first |-> FirstLeaf(v, top) + k * Leaves(v, l)] :
              k \in 0 .. Leaves(v, top - l) - 1 } : l \in 1 .. top }

PointerBlocks(v, Address) ==
  { b \in UNION { PlacesBelow(v, top) : top \in 1 .. 3 } : Allocated(v, Address, b) }

DataBlocksOf(Address) == { n \in DOMAIN Address : Address[n] # 0 }

BlocksHeld(v, Address) ==
  Cardinality(DataBlocksOf(Address)) + Cardinality(PointerBlocks(v, Address))

-----------------------------------------------------------------------------
(* The geometry of the volume *)

(* The shift count is taken modulo the width of the word, as x86 does. *)
Shl(x, n) == (x * 2 ^ (n % WordBits)) % 2 ^ WordBits

(* Mistaken: the pointers of UFS2 are taken for those of UFS1. *)
PointerBits_UFS1(v) == BLOCK_BITS - 2

PointerBits(v) == IF v = 1 THEN BLOCK_BITS - 2 ELSE BLOCK_BITS - 3

dwData(v, i) == Shl(IF i = 0 THEN NDADDR ELSE 1, PointerBits(v) * i)

(* Mistaken: a block of pointers is counted without the ones below it. *)
dwMeta_TopOnly(v, i) == IF i = 0 THEN 0 ELSE 1

dwMeta(v, i) ==
  LET Above(meta) == 1 + Shl(meta, PointerBits(v)) IN
  CASE i = 0 -> 0 [] i = 1 -> Above(0) [] i = 2 -> Above(Above(0)) [] i = 3 -> Above(Above(Above(0)))

(* FFSDataBlocks and FFSTotalBlocks count a direct block as one. *)
UnitData(v, i) == IF i = 0 THEN 1 ELSE dwData(v, i)
UnitTotal(v, i) == UnitData(v, i) + dwMeta(v, i)

(* Both take one indirect pointer after the other, with all it leads to; of *)
(* the last one, they take what each layer of pointers below it leads to.   *)
(* `left` are the blocks still to be taken, `sum` counts what they make. *)
Taken(left, sum) == [left |-> left, sum |-> sum]

DataOfLayer(v, p, j) ==
  IF p.left = 0 THEN p
  ELSE Taken((p.left - 1) % UnitTotal(v, j),
             p.sum + ((p.left - 1) \div UnitTotal(v, j)) * UnitData(v, j))

TotalOfLayer(v, p, j) ==
  IF p.left = 0 THEN p
  ELSE Taken(p.left % UnitData(v, j),
             p.sum + (p.left \div UnitData(v, j)) * UnitTotal(v, j) + 1)

DataOfPointer(v, p, i) ==
  LET Layer(q, j) == IF j < i THEN DataOfLayer(v, q, j) ELSE q
  IN IF p.left > 0 /\ p.left >= UnitTotal(v, i)
     THEN Taken(p.left - UnitTotal(v, i), p.sum + UnitData(v, i))
     ELSE Layer(Layer(Layer(p, 2), 1), 0)

TotalOfPointer(v, p, i) ==
  LET Layer(q, j) == IF j < i THEN TotalOfLayer(v, q, j) ELSE q
  IN IF p.left > 0 /\ p.left >= UnitData(v, i)
     THEN Taken(p.left - UnitData(v, i), p.sum + UnitTotal(v, i))
     ELSE Layer(Layer(Layer(p, 2), 1), 0)

(* How many data blocks there are among TotalBlocks blocks of a file. *)
FFSDataBlocks(v, TotalBlocks) ==
  LET Pointer(p, i) == DataOfPointer(v, p, i)
  IN IF TotalBlocks <= NDADDR THEN TotalBlocks
     ELSE Pointer(Pointer(Pointer(Taken(TotalBlocks - NDADDR, NDADDR), 1), 2), 3).sum

(* How many blocks a file of DataBlocks data blocks holds. *)
FFSTotalBlocks(v, DataBlocks) ==
  LET Pointer(p, i) == TotalOfPointer(v, p, i)
  IN IF DataBlocks <= NDADDR THEN DataBlocks
     ELSE Pointer(Pointer(Pointer(Taken(DataBlocks - NDADDR, NDADDR), 1), 2), 3).sum

-----------------------------------------------------------------------------
(* The walk *)

(* Mistaken: all levels of UFS2 divide as those of UFS1 do. *)
IndexBits_UFS1(v, Index, layer) == BLOCK_BITS - 2

(* The bits that each level below leaves in Index. *)
IndexBits(v, Index, layer) ==
  IF v = 2 /\ ~(Index >= BlockSize \div 8 /\ layer = 2) THEN BLOCK_BITS - 2
  ELSE PointerBits(v)

(* One level: a block of pointers takes its part of Index, and leaves the  *)
(* rest to the level below. *)
Down(v, Address, at, layer) ==
  LET temp == Shl(1, IndexBits(v, at.Index, layer) * (layer - 1))
  IN [pointer |-> PointerIn(v, Address, at.pointer, at.Index \div temp),
      Index |-> at.Index % temp]

(* The pointer reached from b, `layer` levels down. *)
FFSGetBlock(v, Address, b, Index, layer) ==
  LET Level(at, l) == IF l <= layer THEN Down(v, Address, at, l) ELSE at
  IN Level(Level(Level([pointer |-> b, Index |-> Index], 3), 2), 1).pointer

(* What the pointers of an inode up to one of a layer take off the index. *)
Skipped(v, i) ==
  CASE i = 0 -> 0
    [] i = 1 -> dwData(v, 0)
    [] i = 2 -> dwData(v, 0) + dwData(v, 1)
    [] i = 3 -> dwData(v, 0) + dwData(v, 1) + dwData(v, 2)

(* The pointer to the block at Index and the layer it was found under; no  *)
(* layer when the index is past the blocks of the file or of an inode. *)
NotMapped == [layer |-> -1, pointer |-> Stray]

MappedUnder(v, Address, Index, i) ==
  LET left == Index - Skipped(v, i)
  IN [layer |-> i,
      pointer |-> IF i = 0 THEN DirectPointer(left)
                  ELSE FFSGetBlock(v, Address, IndirectPointer(v, i), left, i)]

FFSBlockMap(v, Address, di_blocks, Index) ==
  LET layers == { i \in 0 .. 3 : Index \in Skipped(v, i) .. (Skipped(v, i) + dwData(v, i) - 1) }
  IN IF Index >= FFSDataBlocks(v, di_blocks) \/ layers = {} THEN NotMapped
     ELSE MappedUnder(v, Address, Index, CHOOSE i \in layers : TRUE)
=============================================================================
