-------------------------- MODULE FFSBlockMapProofs --------------------------
(***************************************************************************)
(* Where the walk of FFSBlockMap ends, for every geometry of a volume and  *)
(* every index.                                                            *)
(***************************************************************************)
EXTENDS FFSBlockMap, FiniteSetTheorems, TLAPS

-----------------------------------------------------------------------------
(* Arithmetic *)

LEMMA Division ==
  ASSUME NEW x \in Nat, NEW d \in Nat \ {0}
  PROVE  /\ x \div d \in Nat /\ x % d \in 0 .. d - 1
         /\ x = (x \div d) * d + (x % d)
OBVIOUS

LEMMA Multiples ==
  ASSUME NEW a \in Nat, NEW b \in Nat, NEW d \in Nat, a < b
  PROVE  a * d + d <= b * d
<1>1. a * d + d = (a + 1) * d
  OBVIOUS
<1>2. PICK c \in Nat : b = a + 1 + c
  <2>1. b = a + 1 + (b - a - 1) /\ b - a - 1 \in Nat
    OBVIOUS
  <2>. QED BY <2>1
<1>3. b * d = (a + 1) * d + c * d /\ c * d \in Nat
  BY <1>2
<1>. QED BY <1>1, <1>3

(* The quotient is the one number that fits. *)
LEMMA Quotient ==
  ASSUME NEW x \in Nat, NEW d \in Nat \ {0}, NEW q \in Nat, q * d <= x, x < q * d + d
  PROVE  x \div d = q /\ x % d = x - q * d
<1>1. /\ x \div d \in Nat /\ x % d \in 0 .. d - 1 /\ x = (x \div d) * d + (x % d)
  BY Division
<1>2. ~ x \div d < q
  BY <1>1, Multiples
<1>3. ~ q < x \div d
  BY <1>1, Multiples
<1>. QED BY <1>1, <1>2, <1>3

-----------------------------------------------------------------------------
(* The geometry of a volume *)

LEMMA Geometry ==
  ASSUME NEW v \in {1, 2}
  PROVE  /\ BlockSize \in Nat /\ BlockSize > 0
         /\ PointersPerBlock(v) \in Nat /\ PointersPerBlock(v) > 0
         /\ \A l \in 0 .. 3 : Leaves(v, l) \in Nat /\ Leaves(v, l) > 0
         /\ Leaves(v, 0) = 1
         /\ \A l \in 1 .. 3 : Leaves(v, l) = PointersPerBlock(v) * Leaves(v, l - 1)
         /\ \A l \in 1 .. 3 : FirstLeaf(v, l) \in Nat /\ FirstLeaf(v, l) >= NDADDR
         /\ FirstLeaf(v, 1) = NDADDR /\ NDADDR \in Nat /\ NDADDR > 0
         /\ FirstLeaf(v, 2) = FirstLeaf(v, 1) + Leaves(v, 1)
         /\ FirstLeaf(v, 3) = FirstLeaf(v, 2) + Leaves(v, 2)
         /\ Capacity(v) = FirstLeaf(v, 3) + Leaves(v, 3) /\ Capacity(v) \in Nat
<1> DEFINE P == PointersPerBlock(v)
<1>1. BlockSize \in Nat /\ BlockSize > 0 /\ P \in Nat /\ P > 0
  BY PowerAssumption DEF PointersPerBlock
<1>2. /\ Leaves(v, 0) = 1 /\ Leaves(v, 1) = P /\ Leaves(v, 2) = P * P
      /\ Leaves(v, 3) = P * P * P
  BY DEF Leaves
<1> HIDE DEF P
<1>3. P * P \in Nat /\ P * P > 0 /\ P * P * P \in Nat /\ P * P * P > 0 /\ P * P * P = P * (P * P)
  <2>1. P * P \in Nat /\ P * P > 0
    BY <1>1
  <2>2. P * (P * P) \in Nat /\ P * (P * P) > 0 /\ P * P * P = P * (P * P)
    BY <1>1, <2>1
  <2>. QED BY <2>1, <2>2
<1>4. \A l \in 0 .. 3 : Leaves(v, l) \in Nat /\ Leaves(v, l) > 0
  <2>1. \A l \in 0 .. 3 : l = 0 \/ l = 1 \/ l = 2 \/ l = 3
    OBVIOUS
  <2>. QED BY <1>1, <1>2, <1>3, <2>1
<1>5. \A l \in 1 .. 3 : Leaves(v, l) = P * Leaves(v, l - 1)
  <2>1. \A l \in 1 .. 3 : (l = 1 /\ l - 1 = 0) \/ (l = 2 /\ l - 1 = 1) \/ (l = 3 /\ l - 1 = 2)
    OBVIOUS
  <2>. QED BY <1>1, <1>2, <1>3, <2>1
<1>6. /\ FirstLeaf(v, 1) = NDADDR /\ FirstLeaf(v, 2) = NDADDR + Leaves(v, 1)
      /\ FirstLeaf(v, 3) = NDADDR + Leaves(v, 1) + Leaves(v, 2)
      /\ NDADDR \in Nat /\ NDADDR > 0
  BY <1>4, GeometryAssumption DEF FirstLeaf
<1>7. \A l \in 1 .. 3 : FirstLeaf(v, l) \in Nat /\ FirstLeaf(v, l) >= NDADDR
  <2>1. \A l \in 1 .. 3 : l = 1 \/ l = 2 \/ l = 3
    OBVIOUS
  <2>. QED BY <1>4, <1>6, <2>1
<1>. QED BY <1>1, <1>2, <1>4, <1>5, <1>6, <1>7 DEF Capacity, P

(* A shift leaves a word, and does not lose a single bit. *)
LEMMA Shifts ==
  ASSUME NEW x \in Nat, NEW n \in Nat
  PROVE  /\ Shl(x, n) \in Nat /\ Shl(1, n) > 0
         /\ n = 0 => Shl(x, n) <= x
         /\ n < WordBits => Shl(1, n) = 2 ^ n
<1>1. n % WordBits \in 0 .. WordBits - 1 /\ (n < WordBits => n % WordBits = n) /\ WordBits \in Nat
  BY GeometryAssumption
<1> DEFINE s == 2 ^ (n % WordBits)
           w == 2 ^ WordBits
<1>2. s \in Nat /\ s > 0 /\ w \in Nat /\ s < w /\ (n = 0 => s = 1) /\ (n < WordBits => s = 2 ^ n)
  <2>1. n % WordBits \in 0 .. WordBits /\ WordBits \in 0 .. WordBits
    BY <1>1
  <2>2. n = 0 => n % WordBits = 0
    BY <1>1, GeometryAssumption
  <2>3. s \in Nat \ {0} /\ w \in Nat \ {0}
    BY <2>1, PowerAssumption
  <2>4. s < w
    BY <1>1, PowerAssumption
  <2>5. n = 0 => s = 1
    BY <2>2, PowerAssumption
  <2>. QED BY <1>1, <2>3, <2>4, <2>5
<1>3. Shl(x, n) = (x * s) % w /\ Shl(1, n) = (1 * s) % w
  BY DEF Shl
<1> HIDE DEF s, w
<1>4. x * s \in Nat /\ (n = 0 => x * s = x)
  BY <1>2
<1>5. (x * s) % w \in Nat /\ (x * s) % w <= x * s
  BY <1>2, <1>4
<1>6. (1 * s) % w = s
  BY <1>2
<1>. QED BY <1>2, <1>3, <1>4, <1>5, <1>6

(* The counts that FFSInitializeVcb and the functions that read them make, *)
(* truncated or not. *)
LEMMA Counts ==
  ASSUME NEW v \in {1, 2}, NEW i \in 0 .. 3
  PROVE  /\ PointerBits(v) \in Nat
         /\ dwData(v, i) \in Nat /\ dwData(v, 0) <= NDADDR /\ dwMeta(v, i) \in Nat
         /\ UnitData(v, i) \in Nat /\ UnitData(v, i) > 0
         /\ UnitTotal(v, i) \in Nat /\ UnitTotal(v, i) > 0
<1>1. PointerBits(v) \in Nat
  BY GeometryAssumption DEF PointerBits
<1>2. dwData(v, i) \in Nat /\ dwData(v, 0) <= NDADDR /\ (i # 0 => dwData(v, i) > 0)
  <2>1. PointerBits(v) * i \in Nat /\ PointerBits(v) * 0 = 0 /\ NDADDR \in Nat
    BY <1>1, GeometryAssumption
  <2>2. Shl(NDADDR, PointerBits(v) * i) \in Nat /\ Shl(1, PointerBits(v) * i) \in Nat
        /\ Shl(1, PointerBits(v) * i) > 0 /\ Shl(NDADDR, 0) <= NDADDR
    BY <2>1, Shifts
  <2>. QED BY <2>1, <2>2 DEF dwData
<1>3. dwMeta(v, i) \in Nat
  <2> DEFINE Above(meta) == 1 + Shl(meta, PointerBits(v))
  <2>1. ASSUME NEW meta \in Nat PROVE Above(meta) \in Nat
    <3>1. Shl(meta, PointerBits(v)) \in Nat
      BY <1>1, Shifts
    <3>. QED BY <3>1
  <2> HIDE DEF Above
  <2>2. Above(0) \in Nat /\ Above(Above(0)) \in Nat /\ Above(Above(Above(0))) \in Nat
    BY <2>1
  <2>3. /\ dwMeta(v, 0) = 0 /\ dwMeta(v, 1) = Above(0) /\ dwMeta(v, 2) = Above(Above(0))
        /\ dwMeta(v, 3) = Above(Above(Above(0)))
    BY DEF dwMeta, Above
  <2>4. i = 0 \/ i = 1 \/ i = 2 \/ i = 3
    OBVIOUS
  <2>. QED BY <2>2, <2>3, <2>4
<1>4. UnitData(v, i) \in Nat /\ UnitData(v, i) > 0
  BY <1>2 DEF UnitData
<1>5. UnitTotal(v, i) \in Nat /\ UnitTotal(v, i) > 0
  BY <1>3, <1>4 DEF UnitTotal
<1>. QED BY <1>1, <1>2, <1>3, <1>4, <1>5

LEMMA DataOfLayerType ==
  ASSUME NEW v \in {1, 2}, NEW j \in 0 .. 3, NEW p \in [left : Nat, sum : Nat]
  PROVE  DataOfLayer(v, p, j) \in [left : Nat, sum : Nat]
<1> DEFINE u == UnitTotal(v, j)
           d == UnitData(v, j)
<1>1. u \in Nat /\ u > 0 /\ d \in Nat
  BY Counts
<1> HIDE DEF u, d
<1>2. CASE p.left # 0
  <2>1. p.left - 1 \in Nat /\ p.sum \in Nat
    BY <1>2
  <2>2. (p.left - 1) % u \in Nat /\ (p.left - 1) \div u \in Nat
    BY <1>1, <2>1, Division
  <2>3. p.sum + ((p.left - 1) \div u) * d \in Nat
    BY <1>1, <2>1, <2>2
  <2>. QED BY <1>2, <2>2, <2>3 DEF DataOfLayer, Taken, u, d
<1>. QED BY <1>2 DEF DataOfLayer

LEMMA DataOfPointerType ==
  ASSUME NEW v \in {1, 2}, NEW i \in 1 .. 3, NEW p \in [left : Nat, sum : Nat]
  PROVE  DataOfPointer(v, p, i) \in [left : Nat, sum : Nat]
<1> DEFINE Layer(q, j) == IF j < i THEN DataOfLayer(v, q, j) ELSE q
           State == [left : Nat, sum : Nat]
<1>1. ASSUME NEW q \in State, NEW j \in 0 .. 3
      PROVE  Layer(q, j) \in State
  BY DataOfLayerType
<1> HIDE DEF Layer
<1>2. Layer(Layer(Layer(p, 2), 1), 0) \in State
  <2>1. Layer(p, 2) \in State
    BY <1>1
  <2>2. Layer(Layer(p, 2), 1) \in State
    BY <1>1, <2>1
  <2>. QED BY <1>1, <2>2
<1>3. p.left >= UnitTotal(v, i) => Taken(p.left - UnitTotal(v, i), p.sum + UnitData(v, i)) \in State
  <2>1. UnitTotal(v, i) \in Nat /\ UnitData(v, i) \in Nat
    BY Counts
  <2>. QED BY <2>1 DEF Taken
<1>. QED BY <1>2, <1>3 DEF DataOfPointer, Layer

LEMMA DataBlocksType ==
  ASSUME NEW v \in {1, 2}, NEW TotalBlocks \in Nat
  PROVE  FFSDataBlocks(v, TotalBlocks) \in Nat
<1> DEFINE Pointer(p, i) == DataOfPointer(v, p, i)
           State == [left : Nat, sum : Nat]
           start == Taken(TotalBlocks - NDADDR, NDADDR)
<1>1. ASSUME NEW p \in State, NEW i \in 1 .. 3
      PROVE  Pointer(p, i) \in State
  BY DataOfPointerType
<1>2. TotalBlocks > NDADDR => start \in State
  BY GeometryAssumption DEF Taken
<1> HIDE DEF Pointer, start
<1>3. CASE TotalBlocks > NDADDR
  <2>1. Pointer(start, 1) \in State
    BY <1>1, <1>2, <1>3
  <2>2. Pointer(Pointer(start, 1), 2) \in State
    BY <1>1, <2>1
  <2>3. Pointer(Pointer(Pointer(start, 1), 2), 3) \in State
    BY <1>1, <2>2
  <2>4. ~ TotalBlocks <= NDADDR
    BY <1>3, GeometryAssumption
  <2>5. FFSDataBlocks(v, TotalBlocks) = Pointer(Pointer(Pointer(start, 1), 2), 3).sum
    BY <2>4 DEF FFSDataBlocks, Pointer, start
  <2>. QED BY <2>3, <2>5
<1>4. CASE TotalBlocks <= NDADDR
  BY <1>4 DEF FFSDataBlocks
<1>. QED BY <1>3, <1>4, GeometryAssumption

LEMMA PlacesAreFew ==
  ASSUME NEW v \in {1, 2}
  PROVE  UNION { PlacesBelow(v, top) : top \in 1 .. 3 }
           \subseteq [layer : 1 .. 3, first : 0 .. Capacity(v)]
<1> SUFFICES ASSUME NEW top \in 1 .. 3, NEW l \in 1 .. top, NEW k \in 0 .. Leaves(v, top - l) - 1
             PROVE  FirstLeaf(v, top) + k * Leaves(v, l) \in 0 .. Capacity(v)
  BY DEF PlacesBelow
<1>1. /\ Leaves(v, top - l) \in Nat /\ Leaves(v, l) \in Nat /\ Leaves(v, top) \in Nat
      /\ FirstLeaf(v, top) \in Nat /\ Capacity(v) \in Nat
  <2>1. top - l \in 0 .. 3 /\ l \in 0 .. 3 /\ top \in 0 .. 3
    OBVIOUS
  <2>2. /\ \A m \in 0 .. 3 : Leaves(v, m) \in Nat
        /\ \A m \in 1 .. 3 : FirstLeaf(v, m) \in Nat
        /\ Capacity(v) \in Nat
    BY Geometry
  <2>. QED BY <2>1, <2>2
<1>2. k * Leaves(v, l) + Leaves(v, l) <= Leaves(v, top - l) * Leaves(v, l)
  BY <1>1, Multiples
<1>3. Leaves(v, top - l) * Leaves(v, l) = Leaves(v, top)
  <2> DEFINE P == PointersPerBlock(v)
  <2>1. /\ Leaves(v, 0) = 1 /\ Leaves(v, 1) = P /\ Leaves(v, 2) = P * P /\ Leaves(v, 3) = P * P * P
        /\ P \in Nat
    BY Geometry DEF Leaves
  <2> HIDE DEF P
  <2>2. P * (P * P) = P * P * P /\ P * P \in Nat /\ P * P * P \in Nat
    BY <2>1
  <2>3. CASE top = 1
    <3>1. l = 1 /\ top - l = 0
      BY <2>3
    <3>. QED BY <2>1, <2>3, <3>1
  <2>4. CASE top = 2
    <3>1. (l = 1 /\ top - l = 1) \/ (l = 2 /\ top - l = 0)
      BY <2>4
    <3>. QED BY <2>1, <2>2, <2>4, <3>1
  <2>5. CASE top = 3
    <3>1. (l = 1 /\ top - l = 2) \/ (l = 2 /\ top - l = 1) \/ (l = 3 /\ top - l = 0)
      BY <2>5
    <3>. QED BY <2>1, <2>2, <2>5, <3>1
  <2>. QED BY <2>3, <2>4, <2>5
<1>4. FirstLeaf(v, top) + Leaves(v, top) <= Capacity(v)
  <2>1. top = 1 \/ top = 2 \/ top = 3
    OBVIOUS
  <2>. QED BY <2>1, Geometry
<1>5. k * Leaves(v, l) \in Nat
  BY <1>1
<1>. QED BY <1>1, <1>2, <1>3, <1>4, <1>5

LEMMA BlocksHeldType ==
  ASSUME NEW v \in {1, 2}, NEW Address \in [0 .. Capacity(v) - 1 -> Nat]
  PROVE  BlocksHeld(v, Address) \in Nat
<1>0. Capacity(v) \in Nat
  BY Geometry
<1>1. IsFiniteSet(DataBlocksOf(Address))
  <2>1. DataBlocksOf(Address) \in SUBSET (0 .. Capacity(v) - 1)
    BY DEF DataBlocksOf
  <2>2. IsFiniteSet(0 .. Capacity(v) - 1)
    <3>1. Capacity(v) - 1 \in Int
      BY <1>0
    <3>. QED BY <3>1, FS_Interval
  <2>. QED BY <2>1, <2>2, FS_Subset
<1>2. IsFiniteSet(PointerBlocks(v, Address))
  <2> DEFINE Pairs == (1 .. 3) \X (0 .. Capacity(v))
             Records == [layer : 1 .. 3, first : 0 .. Capacity(v)]
             f == [t \in Pairs |-> [layer |-> t[1], first |-> t[2]]]
  <2>1. IsFiniteSet(Pairs)
    <3>1. IsFiniteSet(1 .. 3)
      <4>1. 1 \in Int /\ 3 \in Int
        OBVIOUS
      <4>. QED BY <4>1, FS_Interval
    <3>2. IsFiniteSet(0 .. Capacity(v))
      <4>1. Capacity(v) \in Int
        BY <1>0
      <4>. QED BY <4>1, FS_Interval
    <3>. QED BY <3>1, <3>2, FS_Product
  <2>2. f \in Surjection(Pairs, Records)
    <3>1. f \in [Pairs -> Records]
      OBVIOUS
    <3>2. ASSUME NEW r \in Records PROVE \E t \in Pairs : f[t] = r
      <4>1. <<r.layer, r.first>> \in Pairs /\ f[<<r.layer, r.first>>] = r
        OBVIOUS
      <4>. QED BY <4>1
    <3>. QED BY <3>1, <3>2 DEF Surjection
  <2>3. IsFiniteSet(Records)
    BY <2>1, <2>2, FS_Surjection
  <2>4. PointerBlocks(v, Address) \in SUBSET Records
    BY PlacesAreFew DEF PointerBlocks
  <2>. QED BY <2>3, <2>4, FS_Subset
<1>3. Cardinality(DataBlocksOf(Address)) \in Nat /\ Cardinality(PointerBlocks(v, Address)) \in Nat
  BY <1>1, <1>2, FS_CardinalityType
<1>. QED BY <1>3 DEF BlocksHeld

-----------------------------------------------------------------------------
(* The walk stays in the inode *)

(* A pointer in the tree below indirect pointer j, at a layer of it. *)
InTree(v, j, p, l) ==
  \/ p = Stray
  \/ \E n \in Nat : /\ p = [layer |-> l, first |-> n]
                    /\ FirstLeaf(v, j) <= n
                    /\ n + Leaves(v, l) <= FirstLeaf(v, j) + Leaves(v, j)

LEMMA IndexBitsType ==
  ASSUME NEW v \in {1, 2}, NEW Index, NEW layer
  PROVE  IndexBits(v, Index, layer) \in Nat
BY GeometryAssumption, Counts DEF IndexBits, PointerBits

LEMMA DownStays ==
  ASSUME NEW v \in {1, 2}, NEW Address, NEW j \in 1 .. 3, NEW l \in 1 .. 3, NEW at,
         at.Index \in Nat, InTree(v, j, at.pointer, l)
  PROVE  /\ Down(v, Address, at, l).Index \in Nat
         /\ InTree(v, j, Down(v, Address, at, l).pointer, l - 1)
<1> DEFINE temp == Shl(1, IndexBits(v, at.Index, l) * (l - 1))
           k == at.Index \div temp
           P == PointersPerBlock(v)
           b == at.pointer
<1>1. temp \in Nat /\ temp > 0
  <2>1. IndexBits(v, at.Index, l) \in Nat /\ l - 1 \in Nat
    BY IndexBitsType
  <2>2. IndexBits(v, at.Index, l) * (l - 1) \in Nat
    BY <2>1
  <2>. QED BY <2>2, Shifts
<1>2. /\ Down(v, Address, at, l).Index = at.Index % temp
      /\ Down(v, Address, at, l).pointer = PointerIn(v, Address, b, k)
  BY DEF Down
<1> HIDE DEF temp
<1>3. at.Index % temp \in Nat /\ k \in Nat
  BY <1>1, Division
<1> HIDE DEF k, b
<1>4. CASE PointerIn(v, Address, b, k) = Stray
  BY <1>2, <1>3, <1>4 DEF InTree
<1>5. CASE PointerIn(v, Address, b, k) # Stray
  <2>1. /\ b # Stray /\ k < P
        /\ PointerIn(v, Address, b, k)
             = [layer |-> b.layer - 1, first |-> b.first + k * Leaves(v, b.layer - 1)]
    BY <1>5 DEF PointerIn
  <2>2. PICK n \in Nat : /\ b = [layer |-> l, first |-> n]
                         /\ FirstLeaf(v, j) <= n
                         /\ n + Leaves(v, l) <= FirstLeaf(v, j) + Leaves(v, j)
    BY <2>1 DEF InTree, b
  <2> DEFINE L == Leaves(v, l - 1)
             m == n + k * L
  <2>3. P \in Nat /\ L \in Nat /\ Leaves(v, l) = P * L
    <3>1. l - 1 \in 0 .. 3
      OBVIOUS
    <3>. QED BY <3>1, Geometry
  <2>4. FirstLeaf(v, j) \in Nat /\ Leaves(v, j) \in Nat
    <3>1. j \in 0 .. 3
      OBVIOUS
    <3>. QED BY <3>1, Geometry
  <2>5. k * L + L <= P * L
    BY <1>3, <2>1, <2>3, Multiples
  <2>6. PointerIn(v, Address, b, k) = [layer |-> l - 1, first |-> m]
    BY <2>1, <2>2
  <2> HIDE DEF L, P
  <2>7. k * L \in Nat
    BY <1>3, <2>3
  <2>8. m \in Nat /\ FirstLeaf(v, j) <= m /\ m + L <= FirstLeaf(v, j) + Leaves(v, j)
    <3>1. m = n + k * L
      OBVIOUS
    <3> HIDE DEF m
    <3>. QED BY <2>2, <2>3, <2>4, <2>5, <2>7, <3>1
  <2>. QED BY <1>2, <1>3, <2>6, <2>8 DEF InTree, L
<1>. QED BY <1>4, <1>5

(* The pointers to data blocks that an inode may hold, and what is none. *)
DataPointers(v) == {Stray} \cup { DirectPointer(n) : n \in 0 .. Capacity(v) - 1 }

LEMMA GetBlockStays ==
  ASSUME NEW v \in {1, 2}, NEW Address, NEW j \in 1 .. 3, NEW Index \in Nat
  PROVE  FFSGetBlock(v, Address, IndirectPointer(v, j), Index, j) \in DataPointers(v)
<1> DEFINE Level(at, l) == IF l <= j THEN Down(v, Address, at, l) ELSE at
           top == [pointer |-> IndirectPointer(v, j), Index |-> Index]
           In(at, l) == at.Index \in Nat /\ InTree(v, j, at.pointer, l)
<1>0. FirstLeaf(v, j) \in Nat /\ Leaves(v, j) \in Nat /\ Leaves(v, 0) = 1 /\ Capacity(v) \in Nat
  <2>1. j \in 0 .. 3
    OBVIOUS
  <2>. QED BY <2>1, Geometry
<1>1. In(top, j)
  BY <1>0 DEF IndirectPointer, InTree
<1>2. ASSUME NEW at, NEW l \in 1 .. j, In(at, l)
      PROVE  In(Level(at, l), l - 1)
  BY <1>2, DownStays
<1>3. ASSUME NEW at, NEW l \in j + 1 .. 3
      PROVE  Level(at, l) = at
  BY <1>3
<1> HIDE DEF In, Level, top
<1>4. In(Level(Level(Level(top, 3), 2), 1), 0)
  <2>1. CASE j = 3
    <3>1. In(Level(top, 3), 2)
      BY <1>1, <1>2, <2>1
    <3>2. In(Level(Level(top, 3), 2), 1)
      BY <1>2, <2>1, <3>1
    <3>. QED BY <1>2, <2>1, <3>2
  <2>2. CASE j = 2
    <3>1. Level(top, 3) = top
      BY <1>3, <2>2
    <3>2. In(Level(top, 2), 1)
      BY <1>1, <1>2, <2>2
    <3>. QED BY <1>2, <2>2, <3>1, <3>2
  <2>3. CASE j = 1
    <3>1. Level(top, 3) = top /\ Level(top, 2) = top
      BY <1>3, <2>3
    <3>. QED BY <1>1, <1>2, <2>3, <3>1
  <2>. QED BY <2>1, <2>2, <2>3
<1> DEFINE p == FFSGetBlock(v, Address, IndirectPointer(v, j), Index, j)
<1>5. p = Level(Level(Level(top, 3), 2), 1).pointer
  BY DEF FFSGetBlock, Level, top
<1> HIDE DEF p
<1>6. InTree(v, j, p, 0)
  BY <1>4, <1>5 DEF In
<1>7. FirstLeaf(v, j) + Leaves(v, j) <= Capacity(v)
  <2>1. j = 1 \/ j = 2 \/ j = 3
    OBVIOUS
  <2>2. Leaves(v, 2) \in Nat /\ Leaves(v, 3) \in Nat
    BY Geometry
  <2>. QED BY <2>1, <2>2, Geometry
<1>8. ASSUME NEW n \in Nat, FirstLeaf(v, j) <= n, n + 1 <= FirstLeaf(v, j) + Leaves(v, j)
      PROVE  n \in 0 .. Capacity(v) - 1
  BY <1>0, <1>7, <1>8
<1>9. p \in DataPointers(v)
  BY <1>0, <1>6, <1>8 DEF InTree, DataPointers, DirectPointer
<1>. QED BY <1>9 DEF p

(* What FFSv*BlockMap can return, for any file and any index. *)
LEMMA BlockMapStays ==
  ASSUME NEW v \in {1, 2}, NEW Address, NEW di_blocks \in Nat, NEW Index \in Nat
  PROVE  LET m == FFSBlockMap(v, Address, di_blocks, Index)
         IN m.pointer \in DataPointers(v) /\ m.layer \in -1 .. 3
<1> DEFINE m == FFSBlockMap(v, Address, di_blocks, Index)
           layers == { i \in 0 .. 3 :
                         Index \in Skipped(v, i) .. (Skipped(v, i) + dwData(v, i) - 1) }
<1>1. CASE m = NotMapped
  BY <1>1 DEF NotMapped, DataPointers
<1>2. CASE m # NotMapped
  <2>1. PICK i \in layers : m = MappedUnder(v, Address, Index, i)
    BY <1>2 DEF FFSBlockMap
  <2>2. dwData(v, 0) \in Nat /\ dwData(v, 1) \in Nat /\ dwData(v, 2) \in Nat
        /\ dwData(v, 3) \in Nat /\ dwData(v, 0) <= NDADDR
    BY Counts
  <2>3. Skipped(v, 0) = 0 /\ Skipped(v, 1) \in Nat /\ Skipped(v, 2) \in Nat /\ Skipped(v, 3) \in Nat
    BY <2>2 DEF Skipped
  <2>4. i \in 0 .. 3 /\ Index \in Skipped(v, i) .. (Skipped(v, i) + dwData(v, i) - 1)
    BY <2>1
  <2> HIDE DEF m, layers
  <2> DEFINE left == Index - Skipped(v, i)
  <2>5. left \in Nat /\ (i = 0 => left < dwData(v, 0))
    <3>1. i = 0 \/ i = 1 \/ i = 2 \/ i = 3
      BY <2>4
    <3>. QED BY <2>2, <2>3, <2>4, <3>1
  <2>6. CASE i = 0
    <3>1. m = [layer |-> 0, pointer |-> DirectPointer(left)]
      BY <2>1, <2>6 DEF MappedUnder
    <3>2. Capacity(v) \in Nat /\ NDADDR <= Capacity(v) /\ NDADDR \in Nat
      <4>1. /\ FirstLeaf(v, 1) = NDADDR /\ FirstLeaf(v, 2) = FirstLeaf(v, 1) + Leaves(v, 1)
            /\ FirstLeaf(v, 3) = FirstLeaf(v, 2) + Leaves(v, 2)
            /\ Capacity(v) = FirstLeaf(v, 3) + Leaves(v, 3) /\ NDADDR \in Nat
        BY Geometry
      <4>2. Leaves(v, 1) \in Nat /\ Leaves(v, 2) \in Nat /\ Leaves(v, 3) \in Nat
        BY Geometry
      <4>. QED BY <4>1, <4>2
    <3>3. left \in 0 .. Capacity(v) - 1
      BY <2>2, <2>5, <2>6, <3>2
    <3>. QED BY <3>1, <3>3 DEF DataPointers, m
  <2>7. CASE i # 0
    <3>1. m = [layer |-> i,
               pointer |-> FFSGetBlock(v, Address, IndirectPointer(v, i), left, i)]
      BY <2>1, <2>7 DEF MappedUnder
    <3>2. i \in 1 .. 3
      BY <2>4, <2>7
    <3>. QED BY <2>5, <3>1, <3>2, GetBlockStays DEF m
  <2>. QED BY <2>6, <2>7
<1>. QED BY <1>1, <1>2

-----------------------------------------------------------------------------
(* Where the walk finds a block *)

(* The block counts of the pointers up to one of a layer, and the shifts of *)
(* the walk below it, fit in a word. *)
InAWord(v, layer) == NDADDR < 2 ^ WordBits /\ PointerBits(v) * layer < WordBits

(* The walk below a triple indirect pointer of UFS2 divides as UFS1 does. *)
Walkable(v, layer) == InAWord(v, layer) /\ (v = 2 => layer < 3)

LEMMA Powers ==
  ASSUME NEW v \in {1, 2}, NEW l \in 0 .. 3
  PROVE  2 ^ (PointerBits(v) * l) = Leaves(v, l)
BY PowerAssumption DEF PointerBits

LEMMA BitsGrow ==
  ASSUME NEW v \in {1, 2}, NEW j \in 0 .. 3, NEW l \in 0 .. j, InAWord(v, j)
  PROVE  InAWord(v, l) /\ PointerBits(v) * l \in Nat
<1> DEFINE p == PointerBits(v)
<1>1. p \in Nat /\ WordBits \in Nat
  BY Counts, GeometryAssumption
<1>2. p * j < WordBits
  BY DEF InAWord
<1> HIDE DEF p
<1>3. p * l <= p * j /\ p * l \in Nat /\ p * j \in Nat
  <2>1. p * j = p * l + p * (j - l) /\ p * (j - l) \in Nat
    BY <1>1
  <2>. QED BY <1>1, <2>1
<1>. QED BY <1>1, <1>2, <1>3 DEF InAWord, p

LEMMA FullCounts ==
  ASSUME NEW v \in {1, 2}, NEW j \in 0 .. 3, InAWord(v, j)
  PROVE  dwData(v, j) = IF j = 0 THEN NDADDR ELSE Leaves(v, j)
<1>1. PointerBits(v) * j \in Nat /\ PointerBits(v) * j < WordBits
  BY BitsGrow DEF InAWord
<1>2. CASE j = 0
  <2>1. PointerBits(v) * j = 0
    BY <1>2, Counts
  <2>2. 0 % WordBits = 0
    BY GeometryAssumption
  <2>3. dwData(v, j) = (NDADDR * 2 ^ (0 % WordBits)) % 2 ^ WordBits
    BY <1>2, <2>1 DEF dwData, Shl
  <2>4. NDADDR * 2 ^ (0 % WordBits) = NDADDR
    <3>1. 2 ^ (0 % WordBits) = 1
      BY <2>2, PowerAssumption
    <3>2. NDADDR \in Nat
      BY GeometryAssumption
    <3>. QED BY <3>1, <3>2
  <2>5. NDADDR \in Nat /\ NDADDR < 2 ^ WordBits /\ 2 ^ WordBits \in Nat \ {0}
    <3>1. WordBits \in 0 .. WordBits
      BY GeometryAssumption
    <3>. QED BY <3>1, PowerAssumption, GeometryAssumption DEF InAWord
  <2>. QED BY <1>2, <2>3, <2>4, <2>5
<1>3. CASE j # 0
  <2>1. Shl(1, PointerBits(v) * j) = 2 ^ (PointerBits(v) * j)
    BY <1>1, Shifts
  <2>. QED BY <1>3, <2>1, Powers DEF dwData
<1>. QED BY <1>2, <1>3

(* A level divides by what the layer below holds: for UFS2, by more where  *)
(* the index is below that anyway. *)
LEMMA Divisors ==
  ASSUME NEW v \in {1, 2}, NEW j \in 1 .. 3, Walkable(v, j), NEW l \in 1 .. j,
         NEW x \in Nat, x < Leaves(v, l)
  PROVE  LET temp == Shl(1, IndexBits(v, x, l) * (l - 1))
         IN /\ x \div temp = x \div Leaves(v, l - 1)
            /\ x % temp = x % Leaves(v, l - 1)
<1> DEFINE temp == Shl(1, IndexBits(v, x, l) * (l - 1))
<1>1. l - 1 \in 0 .. j /\ j \in 0 .. 3 /\ l - 1 \in 0 .. 3
  OBVIOUS
<1>2. PointerBits(v) * (l - 1) \in Nat /\ PointerBits(v) * (l - 1) < WordBits
  <2>1. InAWord(v, l - 1) /\ PointerBits(v) * (l - 1) \in Nat
    BY <1>1, BitsGrow DEF Walkable
  <2>. QED BY <2>1 DEF InAWord
<1>3. Shl(1, PointerBits(v) * (l - 1)) = Leaves(v, l - 1)
  BY <1>1, <1>2, Shifts, Powers
<1>4. CASE IndexBits(v, x, l) = PointerBits(v) \/ l = 1
  <2>1. IndexBits(v, x, l) * (l - 1) = PointerBits(v) * (l - 1)
    <3>1. IndexBits(v, x, l) \in Nat /\ PointerBits(v) \in Nat
      BY IndexBitsType, Counts
    <3>. QED BY <1>4, <3>1
  <2>. QED BY <1>3, <2>1
<1>5. CASE IndexBits(v, x, l) # PointerBits(v) /\ l # 1
  <2>1. v = 2 /\ l = 2 /\ j = 2 /\ x < BlockSize \div 8 /\ IndexBits(v, x, l) = BLOCK_BITS - 2
    <3>1. v = 2
      BY <1>5 DEF IndexBits
    <3>2. l = 2 /\ j = 2
      BY <1>5, <3>1 DEF Walkable
    <3>3. BlockSize \in Nat /\ BlockSize \div 8 \in Nat
      BY PowerAssumption
    <3>. QED BY <1>5, <3>1, <3>2, <3>3 DEF IndexBits
  <2>2. IndexBits(v, x, l) * (l - 1) = (BLOCK_BITS - 2) * 1 /\ (BLOCK_BITS - 2) * 1 = BLOCK_BITS - 2
    BY <2>1, GeometryAssumption
  <2>3. BLOCK_BITS - 2 \in Nat /\ BLOCK_BITS - 2 < WordBits
    <3>1. (BLOCK_BITS - 3) * 2 < WordBits
      BY <2>1 DEF Walkable, InAWord, PointerBits
    <3>. QED BY <3>1, GeometryAssumption
  <2>4. temp = 2 ^ ((BLOCK_BITS - 2) * 1)
    <3>1. Shl(1, BLOCK_BITS - 2) = 2 ^ (BLOCK_BITS - 2)
      BY <2>3, Shifts
    <3>. QED BY <2>2, <3>1
  <2>5. 2 ^ ((BLOCK_BITS - 2) * 1) = Leaves(1, 1)
    BY PowerAssumption
  <2>6. Leaves(1, 1) = BlockSize \div 4 /\ Leaves(v, l - 1) = BlockSize \div 8
    BY <2>1 DEF Leaves, PointersPerBlock
  <2> HIDE DEF temp
  <2>7. x < temp /\ x < Leaves(v, l - 1) /\ temp \in Nat /\ Leaves(v, l - 1) \in Nat
    BY <2>1, <2>4, <2>5, <2>6, PowerAssumption
  <2> DEFINE L == Leaves(v, l - 1)
  <2>8. 0 \in Nat /\ temp \in Nat \ {0} /\ L \in Nat \ {0} /\ 0 * temp = 0 /\ 0 * L = 0
    BY <2>7
  <2> HIDE DEF L
  <2>9. x \div temp = 0 /\ x % temp = x - 0 * temp
    <3>1. 0 * temp <= x /\ x < 0 * temp + temp
      BY <2>7, <2>8
    <3>. QED BY <2>8, <3>1, Quotient
  <2>10. x \div L = 0 /\ x % L = x - 0 * L
    <3>1. 0 * L <= x /\ x < 0 * L + L
      BY <2>7, <2>8 DEF L
    <3>. QED BY <2>8, <3>1, Quotient
  <2>. QED BY <2>8, <2>9, <2>10 DEF temp, L
<1>. QED BY <1>4, <1>5

(* A place of the tree over the block n of the file. *)
Over(v, b, n) == b.first <= n /\ n < b.first + Leaves(v, b.layer)

(* The walk to index x below pointer j has come to the place over the block *)
(* it goes to, the k-th of its layer. *)
On(v, j, x, at, l) ==
  \E k \in 0 .. Leaves(v, j - l) - 1 :
    LET f == FirstLeaf(v, j) + k * Leaves(v, l)
    IN /\ at.pointer = [layer |-> l, first |-> f]
       /\ at.Index \in 0 .. Leaves(v, l) - 1
       /\ f + at.Index = FirstLeaf(v, j) + x

LEMMA DownGoesOn ==
  ASSUME NEW v \in {1, 2}, NEW Address, NEW j \in 1 .. 3, NEW x \in Nat, Walkable(v, j),
         \A b \in PlacesBelow(v, j) : Over(v, b, FirstLeaf(v, j) + x) => Allocated(v, Address, b),
         NEW l \in 1 .. j, NEW at, On(v, j, x, at, l)
  PROVE  On(v, j, x, Down(v, Address, at, l), l - 1)
<1> DEFINE P == PointersPerBlock(v)
           F == FirstLeaf(v, j)
           M == Leaves(v, l)
           L == Leaves(v, l - 1)
           N == Leaves(v, j - l)
           I == at.Index
           q == I \div L
           b == at.pointer
<1>1. /\ P \in Nat /\ P > 0 /\ F \in Nat /\ M \in Nat /\ L \in Nat /\ L > 0 /\ N \in Nat
      /\ M = P * L /\ Leaves(v, j - (l - 1)) = P * N
  <2>1. l \in 0 .. 3 /\ l - 1 \in 0 .. 3 /\ j - l \in 0 .. 3 /\ j - (l - 1) \in 1 .. 3 /\ l \in 1 .. 3
        /\ (j - (l - 1)) - 1 = j - l
    OBVIOUS
  <2>2. /\ P \in Nat /\ P > 0 /\ \A m \in 0 .. 3 : Leaves(v, m) \in Nat /\ Leaves(v, m) > 0
        /\ \A m \in 1 .. 3 : Leaves(v, m) = P * Leaves(v, m - 1)
        /\ \A m \in 1 .. 3 : FirstLeaf(v, m) \in Nat
    BY Geometry
  <2>. QED BY <2>1, <2>2
<1>2. PICK k \in 0 .. N - 1 : /\ b = [layer |-> l, first |-> F + k * M]
                            /\ I \in 0 .. M - 1 /\ F + k * M + I = F + x
  BY DEF On
<1>3. b \in PlacesBelow(v, j) /\ Over(v, b, F + x)
  <2>1. b \in PlacesBelow(v, j)
    BY <1>2 DEF PlacesBelow
  <2>2. k * M \in Nat
    BY <1>1, <1>2
  <2>3. b.first = F + k * M /\ b.layer = l
    BY <1>2
  <2> HIDE DEF F, I, b
  <2>. QED BY <1>1, <1>2, <2>1, <2>2, <2>3 DEF Over
<1>4. Allocated(v, Address, b) /\ b # Stray
  <2>1. b.layer = l /\ Stray.layer = 0
    BY <1>2 DEF Stray
  <2>. QED BY <1>3, <2>1
<1>5. Down(v, Address, at, l) = [pointer |-> PointerIn(v, Address, b, q), Index |-> I % L]
  <2>1. I \in Nat /\ I < Leaves(v, l)
    BY <1>1, <1>2
  <2>. QED BY <2>1, Divisors DEF Down
<1>6. q \in Nat /\ I % L \in 0 .. L - 1 /\ I = q * L + (I % L)
  <2>1. I \in Nat /\ L \in Nat \ {0}
    BY <1>1, <1>2
  <2> HIDE DEF I, L
  <2>. QED BY <2>1, Division
<1> HIDE DEF q
<1>7. q < P
  <2>1. SUFFICES ASSUME P <= q PROVE FALSE
    BY <1>1, <1>6
  <2>2. P * L <= q * L
    <3>1. q = P + (q - P) /\ q - P \in Nat
      BY <1>1, <1>6, <2>1
    <3>2. q * L = P * L + (q - P) * L /\ (q - P) * L \in Nat
      BY <1>1, <1>6, <3>1
    <3>. QED BY <1>1, <3>2
  <2>. QED BY <1>1, <1>2, <1>6, <2>2
<1> DEFINE c == k * P + q
<1>8. c \in 0 .. P * N - 1 /\ F + c * L = F + k * M + q * L
  <2>1. k * P + P <= N * P /\ k * P \in Nat /\ N * P = P * N
    BY <1>1, <1>2, Multiples
  <2>2. c \in Nat /\ c < P * N
    BY <1>1, <1>6, <1>7, <2>1
  <2>3. c * L = k * P * L + q * L /\ k * P * L = k * (P * L)
    BY <1>1, <1>2, <1>6, <2>1
  <2>4. P * N \in Nat
    BY <1>1
  <2>. QED BY <1>1, <1>2, <1>6, <2>1, <2>2, <2>3, <2>4
<1>9. PointerIn(v, Address, b, q) = [layer |-> l - 1, first |-> F + c * L]
  <2>1. PointerIn(v, Address, b, q) = [layer |-> b.layer - 1, first |-> b.first + q * Leaves(v, b.layer - 1)]
    BY <1>4, <1>7 DEF PointerIn
  <2>2. b.layer = l /\ b.first = F + k * M
    BY <1>2
  <2>. QED BY <1>8, <2>1, <2>2
<1>10. F + c * L + (I % L) = F + x
  <2>1. k * M \in Nat /\ q * L \in Nat
    BY <1>1, <1>2, <1>6
  <2>. QED BY <1>1, <1>2, <1>6, <1>8, <2>1
<1> HIDE DEF c
<1>. QED BY <1>1, <1>5, <1>6, <1>8, <1>9, <1>10 DEF On

(* FFSv*GetBlock comes to the data block of the index. *)
LEMMA GetBlockIsRight ==
  ASSUME NEW v \in {1, 2}, NEW Address, NEW j \in 1 .. 3, Walkable(v, j),
         NEW x \in 0 .. Leaves(v, j) - 1,
         \A b \in PlacesBelow(v, j) : Over(v, b, FirstLeaf(v, j) + x) => Allocated(v, Address, b)
  PROVE  FFSGetBlock(v, Address, IndirectPointer(v, j), x, j) = DirectPointer(FirstLeaf(v, j) + x)
<1> DEFINE Level(at, l) == IF l <= j THEN Down(v, Address, at, l) ELSE at
           top == [pointer |-> IndirectPointer(v, j), Index |-> x]
<1>1. /\ FirstLeaf(v, j) \in Nat /\ Leaves(v, j) \in Nat /\ Leaves(v, 0) = 1 /\ x \in Nat
  <2>1. j \in 0 .. 3
    OBVIOUS
  <2>. QED BY <2>1, Geometry
<1>2. On(v, j, x, top, j)
  <2>1. 0 \in 0 .. Leaves(v, j - j) - 1
    BY <1>1
  <2>2. FirstLeaf(v, j) + 0 * Leaves(v, j) = FirstLeaf(v, j)
    BY <1>1
  <2>3. /\ top.pointer = [layer |-> j, first |-> FirstLeaf(v, j) + 0 * Leaves(v, j)]
        /\ top.Index = x
    BY <2>2 DEF IndirectPointer
  <2>. QED BY <1>1, <2>1, <2>2, <2>3 DEF On
<1>3. ASSUME NEW at, NEW l \in 1 .. j, On(v, j, x, at, l)
      PROVE  On(v, j, x, Level(at, l), l - 1)
  <2>1. On(v, j, x, Down(v, Address, at, l), l - 1)
    <3>1. x \in Nat
      BY <1>1
    <3>. QED BY <1>3, <3>1, DownGoesOn
  <2>2. Level(at, l) = Down(v, Address, at, l)
    OBVIOUS
  <2>. QED BY <2>1, <2>2
<1>4. ASSUME NEW at, NEW l \in j + 1 .. 3
      PROVE  Level(at, l) = at
  BY <1>4
<1> HIDE DEF Level, top
<1> DEFINE bottom == Level(Level(Level(top, 3), 2), 1)
<1>5. On(v, j, x, bottom, 0)
  <2>1. CASE j = 3
    <3>1. On(v, j, x, Level(top, 3), 2)
      BY <1>2, <1>3, <2>1
    <3>2. On(v, j, x, Level(Level(top, 3), 2), 1)
      BY <1>3, <2>1, <3>1
    <3>. QED BY <1>3, <2>1, <3>2
  <2>2. CASE j = 2
    <3>1. Level(top, 3) = top
      BY <1>4, <2>2
    <3>2. On(v, j, x, Level(top, 2), 1)
      BY <1>2, <1>3, <2>2
    <3>. QED BY <1>3, <2>2, <3>1, <3>2
  <2>3. CASE j = 1
    <3>1. Level(top, 3) = top /\ Level(top, 2) = top
      BY <1>4, <2>3
    <3>. QED BY <1>2, <1>3, <2>3, <3>1
  <2>. QED BY <2>1, <2>2, <2>3
<1> HIDE DEF bottom
<1>6. bottom.pointer = DirectPointer(FirstLeaf(v, j) + x)
  <2>1. PICK k \in 0 .. Leaves(v, j - 0) - 1 :
          LET f == FirstLeaf(v, j) + k * Leaves(v, 0)
          IN /\ bottom.pointer = [layer |-> 0, first |-> f]
             /\ bottom.Index \in 0 .. Leaves(v, 0) - 1 /\ f + bottom.Index = FirstLeaf(v, j) + x
    BY <1>5 DEF On
  <2>2. bottom.Index = 0 /\ k * Leaves(v, 0) \in Nat
    BY <1>1, <2>1
  <2>3. bottom.pointer = [layer |-> 0, first |-> FirstLeaf(v, j) + x]
    BY <1>1, <2>1, <2>2
  <2>. QED BY <2>3 DEF DirectPointer
<1>7. FFSGetBlock(v, Address, IndirectPointer(v, j), x, j) = bottom.pointer
  BY DEF FFSGetBlock, Level, top, bottom
<1>. QED BY <1>6, <1>7

(* The blocks that an inode maps by its pointer of a layer. *)
MappedBy(v, layer) ==
  IF layer = 0 THEN 0 .. NDADDR - 1
  ELSE FirstLeaf(v, layer) .. FirstLeaf(v, layer) + Leaves(v, layer) - 1

LEMMA LayersCover ==
  ASSUME NEW v \in {1, 2}, NEW n \in 0 .. Capacity(v) - 1
  PROVE  \E layer \in 0 .. 3 : n \in MappedBy(v, layer)
<1>1. /\ FirstLeaf(v, 1) = NDADDR /\ FirstLeaf(v, 2) = NDADDR + Leaves(v, 1)
      /\ FirstLeaf(v, 3) = NDADDR + Leaves(v, 1) + Leaves(v, 2)
      /\ Capacity(v) = NDADDR + Leaves(v, 1) + Leaves(v, 2) + Leaves(v, 3) /\ NDADDR \in Nat
  BY Geometry
<1>2. Leaves(v, 1) \in Nat /\ Leaves(v, 2) \in Nat /\ Leaves(v, 3) \in Nat
  BY Geometry
<1>3. CASE n < NDADDR
  BY <1>1, <1>3 DEF MappedBy
<1>4. CASE n >= NDADDR /\ n < FirstLeaf(v, 2)
  <2>1. n \in MappedBy(v, 1)
    BY <1>1, <1>2, <1>4 DEF MappedBy
  <2>. QED BY <2>1
<1>5. CASE n >= FirstLeaf(v, 2) /\ n < FirstLeaf(v, 3)
  <2>1. n \in MappedBy(v, 2)
    BY <1>1, <1>2, <1>5 DEF MappedBy
  <2>. QED BY <2>1
<1>6. CASE n >= FirstLeaf(v, 3)
  <2>1. n \in MappedBy(v, 3)
    BY <1>1, <1>2, <1>6 DEF MappedBy
  <2>. QED BY <2>1
<1>. QED BY <1>1, <1>2, <1>3, <1>4, <1>5, <1>6

LEMMA FoundUnder ==
  ASSUME NEW v \in {1, 2}, NEW layer \in 0 .. 3, InAWord(v, layer), NEW n \in MappedBy(v, layer)
  PROVE  /\ Skipped(v, layer) = IF layer = 0 THEN 0 ELSE FirstLeaf(v, layer)
         /\ { i \in 0 .. 3 : n \in Skipped(v, i) .. (Skipped(v, i) + dwData(v, i) - 1) } = {layer}
<1>1. /\ FirstLeaf(v, 1) = NDADDR /\ FirstLeaf(v, 2) = NDADDR + Leaves(v, 1)
      /\ FirstLeaf(v, 3) = NDADDR + Leaves(v, 1) + Leaves(v, 2) /\ NDADDR \in Nat
  BY Geometry
<1>2. Leaves(v, 1) \in Nat /\ Leaves(v, 2) \in Nat /\ Leaves(v, 3) \in Nat
  BY Geometry
<1>3. /\ dwData(v, 0) \in Nat /\ dwData(v, 1) \in Nat /\ dwData(v, 2) \in Nat
      /\ dwData(v, 3) \in Nat
  BY Counts
<1>4. \A l \in 0 .. layer : dwData(v, l) = IF l = 0 THEN NDADDR ELSE Leaves(v, l)
  <2> TAKE l \in 0 .. layer
  <2>1. InAWord(v, l) /\ l \in 0 .. 3
    BY BitsGrow
  <2>. QED BY <2>1, FullCounts
<1> DEFINE s1 == dwData(v, 0)
           s2 == s1 + dwData(v, 1)
           s3 == s2 + dwData(v, 2)
           In(l) == n \in Skipped(v, l) .. (Skipped(v, l) + dwData(v, l) - 1)
<1>5. /\ Skipped(v, 0) = 0 /\ Skipped(v, 1) = s1 /\ Skipped(v, 2) = s2 /\ Skipped(v, 3) = s3
  BY <1>3 DEF Skipped
<1>6. /\ In(0) <=> n \in 0 .. s1 - 1
      /\ In(1) <=> n \in s1 .. s2 - 1
      /\ In(2) <=> n \in s2 .. s3 - 1
      /\ In(3) <=> n \in s3 .. s3 + dwData(v, 3) - 1
  BY <1>3, <1>5
<1>7. s1 \in Nat /\ s2 \in Nat /\ s3 \in Nat /\ s1 <= s2 /\ s2 <= s3
  BY <1>3
<1>8. layer = 0 \/ layer = 1 \/ layer = 2 \/ layer = 3
  OBVIOUS
<1>9. Skipped(v, layer) = IF layer = 0 THEN 0 ELSE FirstLeaf(v, layer)
  BY <1>1, <1>2, <1>4, <1>5, <1>8
<1>10. In(layer) /\ n \in Nat
  BY <1>1, <1>2, <1>4, <1>8, <1>9 DEF MappedBy
<1> HIDE DEF In, s1, s2, s3
<1>11. \A l \in 0 .. 3 : In(l) <=> l = layer
  <2> TAKE l \in 0 .. 3
  <2>1. l = 0 \/ l = 1 \/ l = 2 \/ l = 3
    OBVIOUS
  <2>. QED BY <1>3, <1>6, <1>7, <1>8, <1>10, <2>1
<1>. QED BY <1>9, <1>11 DEF In

(* FFSv1BlockMap and FFSv2BlockMap lead to the block that FFS put at an     *)
(* index of the file, when the block counts and shifts up to the layer that *)
(* maps it fit in a word, when UFS2 does not map it by the triple indirect  *)
(* pointer, and when the blocks of pointers over it are there; or they say  *)
(* that the index is past the blocks of the file. *)
THEOREM BlockMapIsRight ==
  ASSUME NEW v \in {1, 2}, NEW Address, NEW di_blocks, NEW layer \in 0 .. 3,
         Walkable(v, layer), NEW n \in MappedBy(v, layer),
         \A b \in PlacesBelow(v, layer) : Over(v, b, n) => Allocated(v, Address, b)
  PROVE  FFSBlockMap(v, Address, di_blocks, n)
           = IF n >= FFSDataBlocks(v, di_blocks) THEN NotMapped
             ELSE [layer |-> layer, pointer |-> DirectPointer(n)]
<1> DEFINE layers == { i \in 0 .. 3 : n \in Skipped(v, i) .. (Skipped(v, i) + dwData(v, i) - 1) }
<1>1. /\ Skipped(v, layer) = IF layer = 0 THEN 0 ELSE FirstLeaf(v, layer)
      /\ layers = {layer}
  BY FoundUnder DEF Walkable
<1>2. (CHOOSE i \in layers : TRUE) = layer
  BY <1>1
<1>3. MappedUnder(v, Address, n, layer) = [layer |-> layer, pointer |-> DirectPointer(n)]
  <2>1. CASE layer = 0
    <3>1. n - Skipped(v, layer) = n
      BY <1>1, <2>1, GeometryAssumption DEF MappedBy
    <3>. QED BY <2>1, <3>1 DEF MappedUnder
  <2>2. CASE layer # 0
    <3> DEFINE x == n - FirstLeaf(v, layer)
    <3>1. FirstLeaf(v, layer) \in Nat /\ Leaves(v, layer) \in Nat /\ layer \in 1 .. 3
      <4>1. layer \in 1 .. 3 /\ layer \in 0 .. 3
        BY <2>2
      <4>. QED BY <4>1, Geometry
    <3>2. x \in 0 .. Leaves(v, layer) - 1 /\ FirstLeaf(v, layer) + x = n
      BY <2>2, <3>1 DEF MappedBy
    <3> HIDE DEF x
    <3>3. FFSGetBlock(v, Address, IndirectPointer(v, layer), x, layer) = DirectPointer(n)
      BY <3>1, <3>2, GetBlockIsRight
    <3>4. n - Skipped(v, layer) = x
      BY <1>1, <2>2 DEF x
    <3>. QED BY <2>2, <3>3, <3>4 DEF MappedUnder
  <2>. QED BY <2>1, <2>2
<1>. QED BY <1>1, <1>2, <1>3 DEF FFSBlockMap

-----------------------------------------------------------------------------
(* The block counts *)

(* What the pointers of an inode up to one of a layer hold, themselves and *)
(* the direct blocks included. *)
HeldUpTo(v, top) ==
  NDADDR + CASE top = 0 -> 0
             [] top = 1 -> UnitTotal(v, 1)
             [] top = 2 -> UnitTotal(v, 1) + UnitTotal(v, 2)
             [] top = 3 -> UnitTotal(v, 1) + UnitTotal(v, 2) + UnitTotal(v, 3)

(* The index after the last block that they map. *)
MappedUpTo(v, top) == IF top = 0 THEN NDADDR ELSE FirstLeaf(v, top) + Leaves(v, top)

LEMMA MappedUpToType ==
  ASSUME NEW v \in {1, 2}, NEW top \in 0 .. 3
  PROVE  MappedUpTo(v, top) \in Nat
<1>1. top # 0 => top \in 1 .. 3
  OBVIOUS
<1>2. top # 0 => FirstLeaf(v, top) \in Nat /\ Leaves(v, top) \in Nat
  BY <1>1, Geometry
<1>. QED BY <1>2, GeometryAssumption DEF MappedUpTo

(* What counts fit a word are those of the trees below the pointers. *)
LEMMA Units ==
  ASSUME NEW v \in {1, 2}, NEW j \in 0 .. 3, InAWord(v, j)
  PROVE  /\ UnitData(v, j) = Leaves(v, j)
         /\ UnitTotal(v, 0) = 1
         /\ j > 0 => UnitTotal(v, j) = 1 + PointersPerBlock(v) * UnitTotal(v, j - 1)
<1> DEFINE P == PointersPerBlock(v)
           b == PointerBits(v)
           w == 2 ^ WordBits
<1>1. P \in Nat /\ P >= 2
  BY PowerAssumption DEF PointersPerBlock
<1>2. /\ Leaves(v, 0) = 1 /\ Leaves(v, 1) = P /\ Leaves(v, 2) = P * P /\ Leaves(v, 3) = P * P * P
  BY DEF Leaves
<1>3. b \in Nat /\ b > 0 /\ WordBits \in Nat
  BY GeometryAssumption DEF PointerBits
<1>4. 2 ^ (b * 1) = P /\ b * 1 = b
  <2>1. 2 ^ (b * 1) = Leaves(v, 1)
    BY Powers
  <2>. QED BY <1>2, <1>3, <2>1
<1>5. UnitData(v, j) = Leaves(v, j)
  BY <1>2, FullCounts DEF UnitData
<1>6. w \in Nat /\ w > 0
  <2>1. WordBits \in 0 .. WordBits
    BY <1>3
  <2>. QED BY <2>1, PowerAssumption
<1>7. ASSUME NEW m \in 0 .. 3, b * m < WordBits
      PROVE  Leaves(v, m) < w
  <2>1. 2 ^ (b * m) = Leaves(v, m) /\ b * m \in 0 .. WordBits - 1
    <3>1. b * m \in Nat
      BY <1>3
    <3>. QED BY <1>3, <1>7, <3>1, Powers
  <2>. QED BY <2>1, PowerAssumption
<1>8. dwMeta(v, 0) = 0
  BY DEF dwMeta
<1>9. dwMeta(v, 1) = 1
  <2>1. b % WordBits \in 0 .. WordBits
    BY <1>3, GeometryAssumption
  <2>2. 2 ^ (b % WordBits) \in Nat
    BY <2>1, PowerAssumption
  <2>3. Shl(0, b) = 0
    <3> DEFINE s == 2 ^ (b % WordBits)
    <3>1. Shl(0, b) = (0 * s) % w
      BY DEF Shl
    <3> HIDE DEF s, w
    <3>. QED BY <1>6, <2>2, <3>1 DEF s
  <2>. QED BY <2>3 DEF dwMeta
<1>10. ASSUME NEW x \in Nat, b < WordBits, x * P < w
       PROVE  Shl(x, b) = x * P
  <2>1. b % WordBits = b
    BY <1>3, <1>10
  <2>2. Shl(x, b) = (x * P) % w
    BY <1>4, <2>1 DEF Shl
  <2> HIDE DEF w, P
  <2>3. x * P \in Nat
    BY <1>1
  <2>. QED BY <1>6, <1>10, <2>2, <2>3
<1>11. j >= 1 => b < WordBits
  <2>1. b * j < WordBits /\ (j >= 1 => b * j >= b)
    <3>1. j = 0 \/ j = 1 \/ j = 2 \/ j = 3
      OBVIOUS
    <3>. QED BY <1>3, <3>1 DEF InAWord
  <2>. QED BY <1>3, <2>1
<1>12. j >= 2 => dwMeta(v, 2) = 1 + P
  <2> SUFFICES ASSUME j >= 2 PROVE dwMeta(v, 2) = 1 + P
    OBVIOUS
  <2>1. P < w /\ 1 * P = P
    BY <1>1, <1>2, <1>3, <1>4, <1>7, <1>11
  <2>2. Shl(1, b) = P
    BY <1>10, <1>11, <2>1
  <2>3. dwMeta(v, 2) = 1 + Shl(dwMeta(v, 1), b)
    BY DEF dwMeta
  <2>. QED BY <1>9, <2>2, <2>3
<1>13. j = 3 => dwMeta(v, 3) = 1 + (1 + P) * P
  <2> SUFFICES ASSUME j = 3 PROVE dwMeta(v, 3) = 1 + (1 + P) * P
    OBVIOUS
  <2>1. P * P * P < w
    <3>1. b * 3 < WordBits
      BY <1>3 DEF InAWord
    <3>. QED BY <1>2, <1>7, <3>1
  <2>2. (1 + P) * P <= P * P * P
    <3> HIDE DEF P
    <3>1. P * P \in Nat /\ P * P >= P + P
      <4>1. P * P = P * (P - 2) + P + P /\ P * (P - 2) \in Nat
        BY <1>1
      <4>. QED BY <1>1, <4>1
    <3>2. (P * P - P - P) * P \in Nat
      BY <1>1, <3>1
    <3>3. P * P * P = (P * P - P - P) * P + (P + P) * P
      BY <1>1, <3>1
    <3>4. (P + P) * P = (1 + P) * P + (P - 1) * P /\ (P - 1) * P \in Nat /\ (1 + P) * P \in Nat
      BY <1>1
    <3>. QED BY <3>2, <3>3, <3>4
  <2>3. (1 + P) * P \in Nat /\ 1 + P \in Nat
    BY <1>1
  <2>4. P * P * P \in Nat
    BY <1>1
  <2> HIDE DEF w, P
  <2>5. (1 + P) * P < w
    BY <1>6, <2>1, <2>2, <2>3, <2>4
  <2>6. Shl(1 + P, b) = (1 + P) * P
    BY <1>10, <1>11, <2>3, <2>5 DEF P, w
  <2>7. dwMeta(v, 3) = 1 + Shl(dwMeta(v, 2), b)
    BY DEF dwMeta
  <2>. QED BY <1>12, <2>6, <2>7
<1>14. \A l \in 1 .. j : UnitData(v, l) = Leaves(v, l)
  <2> TAKE l \in 1 .. j
  <2>1. InAWord(v, l) /\ l \in 0 .. 3
    BY BitsGrow
  <2>2. dwData(v, l) = Leaves(v, l)
    BY <2>1, FullCounts
  <2>. QED BY <2>2 DEF UnitData
<1>15. UnitTotal(v, 0) = 1
  BY <1>8 DEF UnitTotal, UnitData
<1>16. CASE j = 1
  <2>1. UnitTotal(v, 1) = P + 1
    BY <1>2, <1>9, <1>14, <1>16 DEF UnitTotal
  <2>2. UnitTotal(v, j) = 1 + P * UnitTotal(v, j - 1)
    BY <1>1, <1>15, <1>16, <2>1
  <2>. QED BY <1>5, <1>15, <2>2
<1>17. CASE j = 2
  <2>1. UnitTotal(v, 1) = P + 1 /\ UnitTotal(v, 2) = P * P + (1 + P)
    BY <1>2, <1>9, <1>12, <1>14, <1>17 DEF UnitTotal
  <2>2. P * (P + 1) = P * P + P /\ P * P \in Nat
    BY <1>1
  <2>3. UnitTotal(v, j) = 1 + P * UnitTotal(v, j - 1)
    BY <1>1, <1>17, <2>1, <2>2
  <2>. QED BY <1>5, <1>15, <2>3
<1>18. CASE j = 3
  <2>1. UnitTotal(v, 2) = P * P + (1 + P) /\ UnitTotal(v, 3) = P * P * P + (1 + (1 + P) * P)
    BY <1>2, <1>12, <1>13, <1>14, <1>18 DEF UnitTotal
  <2> HIDE DEF P
  <2>2. /\ P * (P * P + (1 + P)) = P * (P * P) + P * (1 + P)
        /\ P * (P * P) = P * P * P /\ P * (1 + P) = (1 + P) * P
        /\ P * P * P \in Nat /\ (1 + P) * P \in Nat
    BY <1>1
  <2>3. UnitTotal(v, j) = 1 + P * UnitTotal(v, j - 1)
    BY <1>1, <1>18, <2>1, <2>2
  <2>. QED BY <1>5, <1>15, <2>3 DEF P
<1>. QED BY <1>5, <1>15, <1>16, <1>17, <1>18

LEMMA UnitsBelow ==
  ASSUME NEW v \in {1, 2}, NEW j \in 1 .. 3, InAWord(v, j)
  PROVE  /\ UnitData(v, j) = PointersPerBlock(v) * UnitData(v, j - 1)
         /\ UnitTotal(v, j) = 1 + PointersPerBlock(v) * UnitTotal(v, j - 1)
         /\ UnitData(v, j - 1) \in Nat \ {0} /\ UnitTotal(v, j - 1) \in Nat \ {0}
<1>1. InAWord(v, j - 1) /\ j - 1 \in 0 .. 3 /\ j \in 0 .. 3
  BY BitsGrow
<1>2. UnitData(v, j - 1) = Leaves(v, j - 1) /\ UnitData(v, j) = Leaves(v, j)
  BY <1>1, Units
<1>3. Leaves(v, j) = PointersPerBlock(v) * Leaves(v, j - 1)
  BY Geometry
<1>. QED BY <1>1, <1>2, <1>3, Units, Counts

(* No more than one pointer of layer j holds is left, and with the data     *)
(* under that pointer the sum would be at most s. *)
AtMost(v, p, j, s) ==
  p.left < UnitTotal(v, j) /\ p.sum + UnitData(v, j) <= s

LEMMA LayerAtMost ==
  ASSUME NEW v \in {1, 2}, NEW j \in 1 .. 3, InAWord(v, j), NEW p \in [left : Nat, sum : Nat],
         NEW s \in Nat, AtMost(v, p, j, s)
  PROVE  AtMost(v, DataOfLayer(v, p, j - 1), j - 1, s)
<1> DEFINE P == PointersPerBlock(v)
           u == UnitTotal(v, j - 1)
           d == UnitData(v, j - 1)
           q == (p.left - 1) \div u
<1>1. /\ UnitData(v, j) = P * d /\ UnitTotal(v, j) = 1 + P * u
      /\ u \in Nat \ {0} /\ d \in Nat \ {0} /\ P \in Nat /\ P > 0
  BY UnitsBelow, Geometry
<1> HIDE DEF P, u, d, q
<1>2. p.left < 1 + P * u /\ p.sum + P * d <= s /\ p.left \in Nat /\ p.sum \in Nat
  BY <1>1 DEF AtMost
<1>3. P * d \in Nat /\ P * d >= d /\ P * u \in Nat
  <2>1. P * d = (P - 1) * d + d /\ (P - 1) * d \in Nat
    BY <1>1
  <2>. QED BY <1>1, <2>1
<1>4. CASE p.left = 0
  <2>1. DataOfLayer(v, p, j - 1) = p
    BY <1>4 DEF DataOfLayer
  <2>. QED BY <1>1, <1>2, <1>3, <1>4, <2>1 DEF AtMost, u, d
<1>5. CASE p.left # 0
  <2>1. p.left - 1 \in Nat /\ p.left - 1 < P * u
    BY <1>2, <1>3, <1>5
  <2>2. q \in Nat /\ (p.left - 1) % u \in 0 .. u - 1 /\ q * u <= p.left - 1
    <3>1. p.left - 1 = q * u + ((p.left - 1) % u)
      BY <1>1, <2>1, Division DEF q
    <3>2. q \in Nat /\ (p.left - 1) % u \in 0 .. u - 1
      BY <1>1, <2>1, Division DEF q
    <3>. QED BY <1>1, <3>1, <3>2
  <2>3. q < P
    <3>1. ASSUME P <= q PROVE P * u <= q * u
      <4>1. q * u = P * u + (q - P) * u /\ (q - P) * u \in Nat
        BY <1>1, <2>2, <3>1
      <4>. QED BY <1>3, <4>1
    <3>. QED BY <1>1, <1>3, <2>1, <2>2, <3>1
  <2>4. q * d + d <= P * d
    BY <1>1, <2>2, <2>3, Multiples
  <2>5. DataOfLayer(v, p, j - 1) = Taken((p.left - 1) % u, p.sum + q * d)
    BY <1>5 DEF DataOfLayer, q, u, d
  <2>6. q * d \in Nat
    BY <1>1, <2>2
  <2>7. (p.left - 1) % u < u /\ (p.sum + q * d) + d <= s
    BY <1>1, <1>2, <1>3, <2>2, <2>4, <2>6
  <2>. QED BY <2>5, <2>7 DEF AtMost, Taken, u, d
<1>. QED BY <1>4, <1>5

(* A pointer adds at most the data under it, and takes all that it holds. *)
LEMMA PointerAtMost ==
  ASSUME NEW v \in {1, 2}, NEW i \in 1 .. 3, InAWord(v, i), NEW p \in [left : Nat, sum : Nat]
  PROVE  LET q == DataOfPointer(v, p, i) IN
         /\ q \in [left : Nat, sum : Nat]
         /\ q.sum <= p.sum + Leaves(v, i)
         /\ \A m \in Nat : p.left <= UnitTotal(v, i) + m => q.left <= m
<1> DEFINE Layer(q, j) == IF j < i THEN DataOfLayer(v, q, j) ELSE q
           State == [left : Nat, sum : Nat]
           q == DataOfPointer(v, p, i)
           s == p.sum + UnitData(v, i)
<1>1. q \in State
  BY DataOfPointerType
<1>2. UnitData(v, i) = Leaves(v, i) /\ UnitData(v, i) \in Nat /\ UnitTotal(v, i) \in Nat
      /\ UnitTotal(v, i) > 0
  BY Units, Counts
<1>3. CASE p.left > 0 /\ p.left >= UnitTotal(v, i)
  <2>1. q.left = p.left - UnitTotal(v, i) /\ q.sum = s
    BY <1>3 DEF DataOfPointer, Taken
  <2>. QED BY <1>1, <1>2, <2>1
<1>4. CASE ~ (p.left > 0 /\ p.left >= UnitTotal(v, i))
  <2>1. q = Layer(Layer(Layer(p, 2), 1), 0)
    BY <1>4 DEF DataOfPointer, Layer
  <2>2. AtMost(v, p, i, s) /\ s \in Nat
    BY <1>2, <1>4 DEF AtMost
  <2>3. ASSUME NEW r \in State, NEW j \in 0 .. 2, AtMost(v, r, j + 1, s), j < i
        PROVE  Layer(r, j) \in State /\ AtMost(v, Layer(r, j), j, s)
    <3>1. j + 1 \in 0 .. i /\ j + 1 \in 1 .. 3 /\ (j + 1) - 1 = j /\ j \in 0 .. 3
      BY <2>3
    <3>2. InAWord(v, j + 1)
      BY <3>1, BitsGrow
    <3>3. DataOfLayer(v, r, j) \in State /\ AtMost(v, DataOfLayer(v, r, j), j, s)
      <4>1. AtMost(v, DataOfLayer(v, r, (j + 1) - 1), (j + 1) - 1, s)
        BY <2>2, <2>3, <3>1, <3>2, LayerAtMost
      <4>. QED BY <3>1, <4>1, DataOfLayerType
    <3>. QED BY <2>3, <3>3
  <2>4. ASSUME NEW r, NEW j \in i .. 2 PROVE Layer(r, j) = r
    BY <2>4
  <2> HIDE DEF Layer, q, s
  <2>5. AtMost(v, q, 0, s)
    <3>1. CASE i = 3
      <4>1. Layer(p, 2) \in State /\ AtMost(v, Layer(p, 2), 2, s)
        BY <2>2, <2>3, <3>1
      <4>2. Layer(Layer(p, 2), 1) \in State /\ AtMost(v, Layer(Layer(p, 2), 1), 1, s)
        BY <2>3, <3>1, <4>1
      <4>. QED BY <2>1, <2>3, <3>1, <4>2
    <3>2. CASE i = 2
      <4>1. Layer(p, 2) = p
        BY <2>4, <3>2
      <4>2. Layer(p, 1) \in State /\ AtMost(v, Layer(p, 1), 1, s)
        BY <2>2, <2>3, <3>2
      <4>. QED BY <2>1, <2>3, <3>2, <4>1, <4>2
    <3>3. CASE i = 1
      <4>1. Layer(p, 2) = p /\ Layer(p, 1) = p
        BY <2>4, <3>3
      <4>. QED BY <2>1, <2>2, <2>3, <3>3, <4>1
    <3>. QED BY <3>1, <3>2, <3>3
  <2>6. UnitTotal(v, 0) = 1 /\ UnitData(v, 0) = 1
    BY Units DEF UnitData
  <2>7. q.left = 0 /\ q.sum <= s
    BY <1>1, <2>2, <2>5, <2>6 DEF AtMost
  <2>. QED BY <1>1, <1>2, <2>7 DEF q, s
<1>. QED BY <1>3, <1>4

LEMMA NothingLeft ==
  ASSUME NEW v, NEW i, NEW p, p.left = 0
  PROVE  DataOfPointer(v, p, i) = p
<1>1. \A j : DataOfLayer(v, p, j) = p
  BY DEF DataOfLayer
<1>. QED BY <1>1 DEF DataOfPointer

(* The block counts never admit an index past the last pointer that counts. *)
LEMMA DataBlocksAtMost ==
  ASSUME NEW v \in {1, 2}, NEW top \in 0 .. 3, InAWord(v, top), NEW n \in Nat,
         top = 3 \/ n <= HeldUpTo(v, top)
  PROVE  FFSDataBlocks(v, n) <= MappedUpTo(v, top)
<1> DEFINE Pointer(p, i) == DataOfPointer(v, p, i)
           State == [left : Nat, sum : Nat]
           L(i) == Leaves(v, i)
           U(i) == UnitTotal(v, i)
           p0 == Taken(n - NDADDR, NDADDR)
<1>1. /\ L(1) \in Nat /\ L(2) \in Nat /\ L(3) \in Nat /\ NDADDR \in Nat
      /\ MappedUpTo(v, top) = NDADDR + CASE top = 0 -> 0 [] top = 1 -> L(1)
                               [] top = 2 -> L(1) + L(2) [] top = 3 -> L(1) + L(2) + L(3)
  <2>1. /\ L(1) \in Nat /\ L(2) \in Nat /\ L(3) \in Nat /\ NDADDR \in Nat
        /\ FirstLeaf(v, 1) = NDADDR /\ FirstLeaf(v, 2) = FirstLeaf(v, 1) + L(1)
        /\ FirstLeaf(v, 3) = FirstLeaf(v, 2) + L(2)
    BY Geometry
  <2>2. top = 0 \/ top = 1 \/ top = 2 \/ top = 3
    OBVIOUS
  <2> HIDE DEF L
  <2>. QED BY <2>1, <2>2 DEF MappedUpTo, L
<1>2. CASE n <= NDADDR
  <2>1. FFSDataBlocks(v, n) = n
    BY <1>2 DEF FFSDataBlocks
  <2> HIDE DEF L
  <2>2. top = 0 \/ top = 1 \/ top = 2 \/ top = 3
    OBVIOUS
  <2>. QED BY <1>1, <1>2, <2>1, <2>2
<1>3. CASE n > NDADDR
  <2> HIDE DEF Pointer, p0
  <2> DEFINE p1 == Pointer(p0, 1)
             p2 == Pointer(p1, 2)
             p3 == Pointer(p2, 3)
  <2>1. p0 \in State /\ p0.left = n - NDADDR /\ p0.sum = NDADDR
    BY <1>1, <1>3 DEF Taken, p0
  <2>2. FFSDataBlocks(v, n) = p3.sum
    <3>1. ~ n <= NDADDR
      BY <1>1, <1>3
    <3>. QED BY <3>1 DEF FFSDataBlocks, Pointer, p0
  <2> HIDE DEF p1, p2, p3
  <2>3. ASSUME NEW i \in 1 .. 3, NEW p \in State
        PROVE  /\ Pointer(p, i) \in State
               /\ i <= top => /\ Pointer(p, i).sum <= p.sum + L(i)
                              /\ \A m \in Nat : p.left <= U(i) + m => Pointer(p, i).left <= m
               /\ p.left = 0 => Pointer(p, i).left = 0 /\ Pointer(p, i).sum = p.sum
    <3>1. Pointer(p, i) \in State
      BY DataOfPointerType DEF Pointer
    <3>2. i <= top => /\ Pointer(p, i).sum <= p.sum + L(i)
                      /\ \A m \in Nat : p.left <= U(i) + m => Pointer(p, i).left <= m
      <4> SUFFICES ASSUME i <= top PROVE /\ Pointer(p, i).sum <= p.sum + L(i)
                      /\ \A m \in Nat : p.left <= U(i) + m => Pointer(p, i).left <= m
        OBVIOUS
      <4>1. i \in 0 .. top
        OBVIOUS
      <4>2. InAWord(v, i)
        BY <4>1, BitsGrow
      <4>. QED BY <4>2, PointerAtMost DEF Pointer
    <3>3. p.left = 0 => Pointer(p, i) = p
      BY NothingLeft DEF Pointer
    <3>. QED BY <3>1, <3>2, <3>3
  <2> HIDE DEF L, U
  <2>4. p1 \in State /\ p2 \in State /\ p3 \in State
    BY <2>1, <2>3 DEF p1, p2, p3
  <2>5. U(1) \in Nat /\ U(2) \in Nat /\ U(3) \in Nat
    BY Counts DEF U
  <2>6. /\ 1 <= top => p1.sum <= NDADDR + L(1)
        /\ 1 <= top => \A m \in Nat : n - NDADDR <= U(1) + m => p1.left <= m
    <3>1. 1 \in 1 .. 3 /\ p1 = Pointer(p0, 1)
      BY DEF p1
    <3>2. 1 <= top => /\ p1.sum <= p0.sum + L(1)
                      /\ \A m \in Nat : p0.left <= U(1) + m => p1.left <= m
      BY <2>1, <2>3, <3>1
    <3>. QED BY <2>1, <3>2
  <2>7. /\ 2 <= top => p2.sum <= p1.sum + L(2)
        /\ 2 <= top => \A m \in Nat : p1.left <= U(2) + m => p2.left <= m
        /\ p1.left = 0 => p2.left = 0 /\ p2.sum = p1.sum
    <3>1. 2 \in 1 .. 3 /\ p2 = Pointer(p1, 2)
      BY DEF p2
    <3>. QED BY <2>4, <2>3, <3>1
  <2>8. /\ 3 <= top => p3.sum <= p2.sum + L(3)
        /\ p2.left = 0 => p3.sum = p2.sum
    <3>1. 3 \in 1 .. 3 /\ p3 = Pointer(p2, 3)
      BY DEF p3
    <3>. QED BY <2>4, <2>3, <3>1
  <2>9. CASE top = 3
    <3>1. p1.sum <= NDADDR + L(1) /\ p2.sum <= p1.sum + L(2) /\ p3.sum <= p2.sum + L(3)
      BY <2>6, <2>7, <2>8, <2>9
    <3>. QED BY <1>1, <2>2, <2>4, <2>9, <3>1
  <2>10. CASE top = 2
    <3>1. n - NDADDR <= U(1) + U(2)
      BY <1>1, <2>5, <2>10 DEF HeldUpTo, U
    <3>2. p1.left <= U(2) + 0 /\ p1.sum <= NDADDR + L(1)
      BY <2>5, <2>6, <2>10, <3>1
    <3>3. p2.left <= 0 /\ p2.sum <= p1.sum + L(2)
      BY <2>7, <2>10, <3>2
    <3>4. p3.sum = p2.sum
      BY <2>4, <2>8, <3>3
    <3>. QED BY <1>1, <2>2, <2>4, <2>10, <3>2, <3>3, <3>4
  <2>11. CASE top = 1
    <3>1. n - NDADDR <= U(1) + 0
      BY <1>1, <2>5, <2>11 DEF HeldUpTo, U
    <3>2. p1.left <= 0 /\ p1.sum <= NDADDR + L(1)
      BY <2>6, <2>11, <3>1
    <3>3. p2.left = 0 /\ p2.sum = p1.sum
      BY <2>4, <2>7, <3>2
    <3>4. p3.sum = p2.sum
      BY <2>4, <2>8, <3>3
    <3>. QED BY <1>1, <2>2, <2>4, <2>11, <3>2, <3>3, <3>4
  <2>12. CASE top = 0
    <3>1. n <= NDADDR
      BY <1>1, <2>12 DEF HeldUpTo
    <3>. QED BY <1>1, <1>3, <3>1
  <2>. QED BY <2>9, <2>10, <2>11, <2>12
<1>. QED BY <1>1, <1>2, <1>3

LEMMA CountedIsMapped ==
  ASSUME NEW v \in {1, 2}, NEW top \in 0 .. 3, NEW n \in Nat, n < MappedUpTo(v, top)
  PROVE  /\ n \in 0 .. Capacity(v) - 1
         /\ \E layer \in 0 .. top : n \in MappedBy(v, layer)
<1>1. /\ FirstLeaf(v, 1) = NDADDR /\ FirstLeaf(v, 2) = NDADDR + Leaves(v, 1)
      /\ FirstLeaf(v, 3) = NDADDR + Leaves(v, 1) + Leaves(v, 2)
      /\ Capacity(v) = NDADDR + Leaves(v, 1) + Leaves(v, 2) + Leaves(v, 3) /\ NDADDR \in Nat
  BY Geometry
<1>2. Leaves(v, 1) \in Nat /\ Leaves(v, 2) \in Nat /\ Leaves(v, 3) \in Nat
  BY Geometry
<1>3. top = 0 \/ top = 1 \/ top = 2 \/ top = 3
  OBVIOUS
<1>4. n \in 0 .. Capacity(v) - 1
  BY <1>1, <1>2, <1>3 DEF MappedUpTo
<1>5. PICK layer \in 0 .. 3 : n \in MappedBy(v, layer)
  BY <1>4, LayersCover
<1>6. layer <= top
  <2>1. layer = 0 \/ layer = 1 \/ layer = 2 \/ layer = 3
    OBVIOUS
  <2>. QED BY <1>1, <1>2, <1>3, <1>5, <2>1 DEF MappedUpTo, MappedBy
<1>. QED BY <1>4, <1>5, <1>6

LEMMA CountedIsFound ==
  ASSUME NEW v \in {1, 2}, NEW layer \in 0 .. 3, InAWord(v, layer), NEW n \in MappedBy(v, layer),
         NEW Address, NEW di_blocks, n \in Nat, FFSDataBlocks(v, di_blocks) \in Nat,
         n < FFSDataBlocks(v, di_blocks)
  PROVE  FFSBlockMap(v, Address, di_blocks, n) # NotMapped
<1> DEFINE layers == { i \in 0 .. 3 : n \in Skipped(v, i) .. (Skipped(v, i) + dwData(v, i) - 1) }
<1>1. layers = {layer} /\ ~ n >= FFSDataBlocks(v, di_blocks)
  BY FoundUnder
<1>2. FFSBlockMap(v, Address, di_blocks, n) = MappedUnder(v, Address, n, layer)
  BY <1>1 DEF FFSBlockMap
<1>3. MappedUnder(v, Address, n, layer).layer = layer /\ NotMapped.layer = -1
  BY DEF MappedUnder, NotMapped
<1>. QED BY <1>2, <1>3

-----------------------------------------------------------------------------
(* Induction on a set of numbers, by counting: a set that has with a number *)
(* the one before it has all the numbers below. *)
LEMMA Descent ==
  ASSUME NEW D \in SUBSET Nat, \A n \in D : n = 0 \/ n - 1 \in D, NEW x \in D
  PROVE  0 .. x \subseteq D
<1> SUFFICES ASSUME NEW y \in 0 .. x, y \notin D PROVE FALSE
  OBVIOUS
<1> DEFINE T == { n \in D : y < n /\ n <= x }
           f == [n \in T |-> n - 1]
<1>1. IsFiniteSet(T)
  <2>1. T \in SUBSET Nat /\ x \in Nat /\ \A n \in T : n <= x
    OBVIOUS
  <2> HIDE DEF T
  <2>. QED BY <2>1, FS_BoundedSetOfNaturals
<1>2. x \in T
  OBVIOUS
<1>3. f \in Injection(T, T)
  <2>1. \A n \in T : n \in Nat /\ n - 1 \in T
    <3> TAKE n \in T
    <3>1. n \in Nat /\ n > 0 /\ n - 1 \in D
      OBVIOUS
    <3>2. n - 1 # y
      BY <3>1
    <3>. QED BY <3>1, <3>2
  <2> HIDE DEF T
  <2>2. f \in [T -> T]
    BY <2>1
  <2>3. \A a, b \in T : f[a] = f[b] => a = b
    BY <2>1
  <2>. QED BY <2>2, <2>3 DEF Injection, IsInjective
<1>4. f \in Surjection(T, T)
  BY <1>1, <1>3, FS_Injection
<1>5. PICK n \in T : f[n] = x
  BY <1>2, <1>4 DEF Surjection
<1>. QED BY <1>5

-----------------------------------------------------------------------------
(* Rounding up *)

Ceiling(m, d) == (m + d - 1) \div d

LEMMA CeilingBounds ==
  ASSUME NEW m \in Nat, NEW d \in Nat \ {0}
  PROVE  /\ Ceiling(m, d) \in Nat
         /\ m <= Ceiling(m, d) * d /\ Ceiling(m, d) * d < m + d
<1> DEFINE x == m + d - 1
           q == x \div d
           r == x % d
<1>1. x \in Nat
  OBVIOUS
<1> HIDE DEF x
<1>2. q \in Nat /\ r \in 0 .. d - 1 /\ x = q * d + r
  BY <1>1, Division
<1> HIDE DEF q, r
<1>3. q * d \in Nat
  BY <1>2
<1>4. m <= q * d /\ q * d < m + d
  BY <1>2, <1>3 DEF x
<1>. QED BY <1>2, <1>4 DEF Ceiling, q, x

LEMMA CeilingIs ==
  ASSUME NEW m \in Nat, NEW d \in Nat \ {0}, NEW q \in Nat, m <= q * d, q * d < m + d
  PROVE  Ceiling(m, d) = q
<1>1. q * d \in Nat /\ m + d - 1 \in Nat
  OBVIOUS
<1>2. q * d <= m + d - 1 /\ m + d - 1 < q * d + d
  BY <1>1
<1>. QED BY <1>1, <1>2, Quotient DEF Ceiling

LEMMA CeilingGrows ==
  ASSUME NEW m \in Nat, NEW n \in Nat, m <= n, NEW d \in Nat \ {0}
  PROVE  Ceiling(m, d) <= Ceiling(n, d)
<1> DEFINE a == Ceiling(m, d)
           b == Ceiling(n, d)
<1>1. a \in Nat /\ a * d < m + d /\ b \in Nat /\ n <= b * d
  BY CeilingBounds
<1> HIDE DEF a, b
<1>2. CASE b < a
  <2>1. b * d + d <= a * d
    BY <1>1, <1>2, Multiples
  <2>2. a * d \in Nat /\ b * d \in Nat
    BY <1>1
  <2>. QED BY <1>1, <2>1, <2>2
<1>. QED BY <1>1, <1>2 DEF a, b

(* The multiples of d below m are as many as Ceiling(m, d) says. *)
LEMMA CeilingCounts ==
  ASSUME NEW m \in Nat, NEW d \in Nat \ {0}, NEW k \in Nat
  PROVE  k < Ceiling(m, d) <=> k * d < m
<1> DEFINE c == Ceiling(m, d)
<1>1. c \in Nat /\ m <= c * d /\ c * d < m + d
  BY CeilingBounds
<1> HIDE DEF c
<1>2. c * d \in Nat /\ k * d \in Nat
  BY <1>1
<1>3. k < c => k * d < m
  <2> SUFFICES ASSUME k < c PROVE k * d < m
    OBVIOUS
  <2>1. k * d + d <= c * d
    BY <1>1, Multiples
  <2>. QED BY <1>1, <1>2, <2>1
<1>4. ~ k < c => ~ k * d < m
  <2> SUFFICES ASSUME c <= k PROVE c * d <= k * d
    BY <1>1, <1>2
  <2>1. k * d = c * d + (k - c) * d /\ (k - c) * d \in Nat
    BY <1>1
  <2>. QED BY <1>2, <2>1
<1>. QED BY <1>3, <1>4 DEF c

LEMMA CeilingAdds ==
  ASSUME NEW m \in Nat, NEW d \in Nat \ {0}, NEW x \in Nat
  PROVE  Ceiling(x * d + m, d) = x + Ceiling(m, d)
<1> DEFINE c == Ceiling(m, d)
<1>1. c \in Nat /\ m <= c * d /\ c * d < m + d
  BY CeilingBounds
<1> HIDE DEF c
<1>2. c * d \in Nat /\ x * d \in Nat /\ (x + c) * d = x * d + c * d
  BY <1>1
<1>3. x * d + m <= (x + c) * d /\ (x + c) * d < x * d + m + d
  BY <1>1, <1>2
<1>4. Ceiling(x * d + m, d) = x + c
  BY <1>1, <1>2, <1>3, CeilingIs
<1>. QED BY <1>4 DEF c

LEMMA LeavesMultiply ==
  ASSUME NEW v \in {1, 2}, NEW top \in 0 .. 3, NEW l \in 0 .. top
  PROVE  Leaves(v, top - l) * Leaves(v, l) = Leaves(v, top)
<1> DEFINE P == PointersPerBlock(v)
<1>1. /\ Leaves(v, 0) = 1 /\ Leaves(v, 1) = P /\ Leaves(v, 2) = P * P /\ Leaves(v, 3) = P * P * P
      /\ P \in Nat
  BY Geometry DEF Leaves
<1> HIDE DEF P
<1>2. P * (P * P) = P * P * P /\ P * P \in Nat /\ P * P * P \in Nat
  BY <1>1
<1>3. CASE l = 0 \/ l = top
  <2>1. top - 0 = top /\ top - top = 0 /\ Leaves(v, top) \in Nat
    BY Geometry
  <2>. QED BY <1>1, <1>3, <2>1
<1>4. CASE l # 0 /\ l # top
  <2>1. \/ top = 2 /\ l = 1 /\ top - l = 1
        \/ top = 3 /\ l = 1 /\ top - l = 2
        \/ top = 3 /\ l = 2 /\ top - l = 1
    BY <1>4
  <2>. QED BY <1>1, <1>2, <2>1
<1>. QED BY <1>3, <1>4

-----------------------------------------------------------------------------
(* Blocks of pointers *)

Rows(v, l, m) == Ceiling(m, Leaves(v, l))

(* The blocks of pointers over the first m blocks under pointer i. *)
Meta(v, i, m) ==
  CASE i = 0 -> 0
    [] i = 1 -> Rows(v, 1, m)
    [] i = 2 -> Rows(v, 1, m) + Rows(v, 2, m)
    [] i = 3 -> Rows(v, 1, m) + Rows(v, 2, m) + Rows(v, 3, m)

(* With the blocks themselves *)
Whole(v, i, m) == m + Meta(v, i, m)

LEMMA RowsFacts ==
  ASSUME NEW v \in {1, 2}, NEW l \in 1 .. 3, NEW m \in Nat
  PROVE  /\ Rows(v, l, m) \in Nat /\ Rows(v, l, 0) = 0
         /\ m > 0 /\ m <= Leaves(v, l) => Rows(v, l, m) = 1
         /\ \A n \in Nat : m <= n => Rows(v, l, m) <= Rows(v, l, n)
<1> DEFINE d == Leaves(v, l)
<1>1. d \in Nat \ {0}
  BY Geometry
<1> HIDE DEF d
<1>2. Ceiling(0, d) = 0 /\ Ceiling(m, d) \in Nat
  BY <1>1, CeilingIs, CeilingBounds
<1>3. m > 0 /\ m <= d => Ceiling(m, d) = 1
  BY <1>1, CeilingIs
<1>. QED BY <1>1, <1>2, <1>3, CeilingGrows DEF Rows, d

LEMMA RowsAdd ==
  ASSUME NEW v \in {1, 2}, NEW j \in 0 .. 3, NEW l \in 1 .. j, NEW a \in Nat, NEW r \in Nat
  PROVE  Rows(v, l, a * Leaves(v, j) + r) = a * Rows(v, l, Leaves(v, j)) + Rows(v, l, r)
<1> DEFINE d == Leaves(v, l)
           e == Leaves(v, j - l)
<1>1. d \in Nat \ {0} /\ e \in Nat /\ Leaves(v, j) = e * d
  <2>1. l \in 0 .. 3 /\ j - l \in 0 .. 3 /\ l \in 0 .. j
    OBVIOUS
  <2>2. d \in Nat \ {0} /\ e \in Nat
    BY <2>1, Geometry
  <2>3. e * d = Leaves(v, j)
    BY <2>1, LeavesMultiply
  <2>. QED BY <2>2, <2>3
<1> HIDE DEF d, e
<1>2. a * Leaves(v, j) = (a * e) * d /\ a * e \in Nat /\ e * d = e * d + 0
  BY <1>1
<1>3. Ceiling((a * e) * d + r, d) = a * e + Ceiling(r, d)
  BY <1>1, <1>2, CeilingAdds
<1>4. Ceiling(e * d, d) = e
  <2>1. Ceiling(e * d + 0, d) = e + Ceiling(0, d)
    BY <1>1, CeilingAdds
  <2>2. Ceiling(0, d) = 0
    BY <1>1, CeilingIs
  <2>. QED BY <1>1, <1>2, <2>1, <2>2
<1>. QED BY <1>1, <1>2, <1>3, <1>4 DEF Rows, d

LEMMA MetaFacts ==
  ASSUME NEW v \in {1, 2}, NEW i \in 0 .. 3, NEW m \in Nat
  PROVE  /\ Meta(v, i, m) \in Nat /\ Whole(v, i, m) \in Nat /\ Whole(v, i, m) >= m
         /\ Meta(v, i, 0) = 0 /\ Whole(v, i, 0) = 0
         /\ \A n \in Nat : m < n => Whole(v, i, m) < Whole(v, i, n)
<1>1. \A l \in 1 .. 3 : \A n \in Nat : Rows(v, l, n) \in Nat /\ Rows(v, l, 0) = 0
  BY RowsFacts
<1>2. \A n \in Nat : Meta(v, i, n) \in Nat
  <2>1. i = 0 \/ i = 1 \/ i = 2 \/ i = 3
    OBVIOUS
  <2>. QED BY <1>1, <2>1 DEF Meta
<1>3. Meta(v, i, 0) = 0
  <2>1. i = 0 \/ i = 1 \/ i = 2 \/ i = 3
    OBVIOUS
  <2>. QED BY <1>1, <2>1 DEF Meta
<1>4. ASSUME NEW n \in Nat, m < n
      PROVE  Meta(v, i, m) <= Meta(v, i, n)
  <2>1. \A l \in 1 .. 3 : Rows(v, l, m) <= Rows(v, l, n)
    <3>1. m <= n
      BY <1>4
    <3>. QED BY <3>1, RowsFacts
  <2>2. Rows(v, 1, m) <= Rows(v, 1, n) /\ Rows(v, 2, m) <= Rows(v, 2, n) /\ Rows(v, 3, m) <= Rows(v, 3, n)
    BY <2>1
  <2>3. i = 0 \/ i = 1 \/ i = 2 \/ i = 3
    OBVIOUS
  <2>. QED BY <1>1, <2>2, <2>3 DEF Meta
<1>5. \A n \in Nat : Whole(v, i, n) = n + Meta(v, i, n)
  BY DEF Whole
<1>6. ASSUME NEW n \in Nat, m < n PROVE Whole(v, i, m) < Whole(v, i, n)
  BY <1>2, <1>4, <1>5, <1>6
<1>. QED BY <1>2, <1>3, <1>5, <1>6

(* A part of what a block of pointers of layer j + 1 leads to: full parts   *)
(* of layer j, a rest, and the block itself. *)
LEMMA WholeSplits ==
  ASSUME NEW v \in {1, 2}, NEW j \in 0 .. 2, NEW a \in Nat, NEW r \in Nat,
         a * Leaves(v, j) + r > 0, a * Leaves(v, j) + r <= Leaves(v, j + 1)
  PROVE  Whole(v, j + 1, a * Leaves(v, j) + r)
           = a * Whole(v, j, Leaves(v, j)) + Whole(v, j, r) + 1
<1> DEFINE L == Leaves(v, j)
           m == a * L + r
<1>1. L \in Nat /\ m \in Nat
  <2>1. L \in Nat
    BY Geometry
  <2>. QED BY <2>1
<1>2. Rows(v, j + 1, m) = 1
  <2>1. j + 1 \in 1 .. 3
    OBVIOUS
  <2>. QED BY <1>1, <2>1, RowsFacts
<1>3. Meta(v, j + 1, m) = Meta(v, j, m) + 1
  <2>1. \/ j = 0 /\ j + 1 = 1
        \/ j = 1 /\ j + 1 = 2
        \/ j = 2 /\ j + 1 = 3
    OBVIOUS
  <2>. QED BY <1>2, <2>1 DEF Meta
<1> HIDE DEF m
<1>4. Meta(v, j, m) = a * Meta(v, j, L) + Meta(v, j, r)
  <2>1. \A l \in 1 .. j : Rows(v, l, m) = a * Rows(v, l, L) + Rows(v, l, r)
    BY RowsAdd DEF m
  <2>2. \A l \in 1 .. 3 : Rows(v, l, L) \in Nat /\ Rows(v, l, r) \in Nat
    BY <1>1, RowsFacts
  <2> HIDE DEF L
  <2>3. CASE j = 0
    BY <2>3 DEF Meta
  <2>4. CASE j = 1
    <3>1. Rows(v, 1, m) = a * Rows(v, 1, L) + Rows(v, 1, r)
      BY <2>1, <2>4
    <3>. QED BY <2>4, <3>1 DEF Meta
  <2>5. CASE j = 2
    <3> DEFINE x == Rows(v, 1, L)
               y == Rows(v, 2, L)
    <3>1. /\ Rows(v, 1, m) = a * x + Rows(v, 1, r)
          /\ Rows(v, 2, m) = a * y + Rows(v, 2, r)
          /\ x \in Nat /\ y \in Nat /\ Rows(v, 1, r) \in Nat /\ Rows(v, 2, r) \in Nat
      BY <2>1, <2>2, <2>5
    <3>2. Meta(v, j, m) = Rows(v, 1, m) + Rows(v, 2, m) /\ Meta(v, j, L) = x + y
          /\ Meta(v, j, r) = Rows(v, 1, r) + Rows(v, 2, r)
      BY <2>5 DEF Meta
    <3> HIDE DEF x, y
    <3>3. a * (x + y) = a * x + a * y /\ a * x \in Nat /\ a * y \in Nat
      BY <3>1
    <3>. QED BY <3>1, <3>2, <3>3
  <2>. QED BY <2>3, <2>4, <2>5
<1>5. Meta(v, j, L) \in Nat /\ Meta(v, j, r) \in Nat
  <2>1. j \in 0 .. 3
    OBVIOUS
  <2>. QED BY <1>1, <2>1, MetaFacts
<1>6. a * (L + Meta(v, j, L)) = a * L + a * Meta(v, j, L) /\ a * Meta(v, j, L) \in Nat /\ a * L \in Nat
  BY <1>1, <1>5
<1>7. m = a * L + r
  BY DEF m
<1> HIDE DEF L
<1>8. m + Meta(v, j + 1, m) = a * (L + Meta(v, j, L)) + (r + Meta(v, j, r)) + 1
  BY <1>1, <1>3, <1>4, <1>5, <1>6, <1>7
<1>. QED BY <1>8 DEF Whole, m, L

(* The counts of a pointer that fit a word are those of its tree. *)
LEMMA UnitsAreTrees ==
  ASSUME NEW v \in {1, 2}, NEW j \in 0 .. 3, InAWord(v, j)
  PROVE  UnitData(v, j) = Leaves(v, j) /\ UnitTotal(v, j) = Whole(v, j, Leaves(v, j))
<1> DEFINE P == PointersPerBlock(v)
           W(l) == Whole(v, l, Leaves(v, l))
<1>1. UnitData(v, j) = Leaves(v, j) /\ P \in Nat /\ P > 0
  BY Units, Geometry
<1>2. \A l \in 1 .. j : UnitTotal(v, l) = 1 + P * UnitTotal(v, l - 1)
  <2> TAKE l \in 1 .. j
  <2>1. InAWord(v, l) /\ l \in 0 .. 3 /\ l > 0
    BY BitsGrow
  <2>. QED BY <2>1, Units
<1>3. \A l \in 0 .. 2 : W(l + 1) = P * W(l) + 1
  <2> TAKE l \in 0 .. 2
  <2>1. Leaves(v, l) \in Nat /\ Leaves(v, l + 1) = P * Leaves(v, l) /\ Leaves(v, l + 1) > 0
        /\ Leaves(v, l + 1) \in Nat
    <3>1. l \in 0 .. 3 /\ l + 1 \in 1 .. 3 /\ l + 1 \in 0 .. 3 /\ (l + 1) - 1 = l
      OBVIOUS
    <3>2. Leaves(v, l + 1) = P * Leaves(v, (l + 1) - 1)
      BY <3>1, Geometry
    <3>. QED BY <3>1, <3>2, Geometry
  <2> HIDE DEF P
  <2>2. P * Leaves(v, l) + 0 = Leaves(v, l + 1)
    BY <1>1, <2>1
  <2>3. Whole(v, l + 1, P * Leaves(v, l) + 0) = P * W(l) + Whole(v, l, 0) + 1
    BY <1>1, <2>1, <2>2, WholeSplits
  <2>4. Whole(v, l, 0) = 0 /\ W(l) \in Nat
    <3>1. l \in 0 .. 3
      OBVIOUS
    <3>. QED BY <2>1, <3>1, MetaFacts
  <2>5. P * W(l) \in Nat
    BY <1>1, <2>4
  <2> HIDE DEF W
  <2>. QED BY <2>2, <2>3, <2>4, <2>5 DEF W
<1>4. W(0) = 1 /\ UnitTotal(v, 0) = 1
  BY Units, Geometry DEF Whole, Meta
<1>5. \A l \in 0 .. 3 : W(l) \in Nat
  BY Geometry, MetaFacts
<1> HIDE DEF W, P
<1>6. j >= 1 => UnitTotal(v, 1) = W(1)
  <2>1. W(0 + 1) = P * W(0) + 1 /\ (j >= 1 => UnitTotal(v, 1) = 1 + P * UnitTotal(v, 1 - 1))
    BY <1>2, <1>3
  <2>. QED BY <1>1, <1>4, <2>1
<1>7. j >= 2 => UnitTotal(v, 2) = W(2)
  <2>1. W(1 + 1) = P * W(1) + 1 /\ (j >= 2 => UnitTotal(v, 2) = 1 + P * UnitTotal(v, 2 - 1))
    BY <1>2, <1>3
  <2>2. P * W(1) \in Nat
    BY <1>1, <1>5
  <2>. QED BY <1>6, <2>1, <2>2
<1>8. j = 3 => UnitTotal(v, 3) = W(3)
  <2>1. W(2 + 1) = P * W(2) + 1 /\ (j = 3 => UnitTotal(v, 3) = 1 + P * UnitTotal(v, 3 - 1))
    BY <1>2, <1>3
  <2>2. P * W(2) \in Nat
    BY <1>1, <1>5
  <2>. QED BY <1>7, <2>1, <2>2
<1>9. j = 0 \/ j = 1 \/ j = 2 \/ j = 3
  OBVIOUS
<1>. QED BY <1>1, <1>4, <1>6, <1>7, <1>8, <1>9 DEF W

-----------------------------------------------------------------------------
(* FFSTotalBlocks and FFSDataBlocks *)

(* What is left is less than a pointer of layer j leads to, and the sum is  *)
(* s with all of it: in the one, data blocks are left; in the other, they   *)
(* and the blocks of pointers over them. *)
TotalToCome(v, p, j, s) ==
  /\ p \in [left : Nat, sum : Nat]
  /\ p.left < Leaves(v, j) /\ p.sum + Whole(v, j, p.left) = s

DataToCome(v, p, j, s) ==
  /\ p \in [left : Nat, sum : Nat]
  /\ \E r \in 0 .. Leaves(v, j) - 1 : p.left = Whole(v, j, r) /\ p.sum + r = s

LEMMA TotalLayer ==
  ASSUME NEW v \in {1, 2}, NEW j \in 0 .. 2, InAWord(v, j), NEW p, NEW s,
         TotalToCome(v, p, j + 1, s)
  PROVE  TotalToCome(v, TotalOfLayer(v, p, j), j, s)
<1> DEFINE L == Leaves(v, j)
           W == Whole(v, j, L)
           a == p.left \div L
           r == p.left % L
<1>1. /\ p \in [left : Nat, sum : Nat] /\ p.left < Leaves(v, j + 1)
      /\ p.sum + Whole(v, j + 1, p.left) = s
  BY DEF TotalToCome
<1>2. L \in Nat \ {0} /\ W \in Nat /\ Leaves(v, j + 1) \in Nat
  <2>1. j \in 0 .. 3 /\ j + 1 \in 0 .. 3
    OBVIOUS
  <2>2. L \in Nat \ {0} /\ Leaves(v, j + 1) \in Nat
    BY <2>1, Geometry
  <2>. QED BY <2>1, <2>2, MetaFacts
<1>3. UnitData(v, j) = L /\ UnitTotal(v, j) = W
  <2>1. j \in 0 .. 3
    OBVIOUS
  <2>. QED BY <2>1, UnitsAreTrees
<1>4. a \in Nat /\ r \in 0 .. L - 1 /\ p.left = a * L + r
  <2> HIDE DEF L
  <2>. QED BY <1>1, <1>2, Division
<1>5. CASE p.left = 0
  <2>1. TotalOfLayer(v, p, j) = p
    BY <1>5 DEF TotalOfLayer
  <2>2. Whole(v, j, 0) = 0 /\ Whole(v, j + 1, 0) = 0
    <3>1. j \in 0 .. 3 /\ j + 1 \in 0 .. 3 /\ 0 \in Nat
      OBVIOUS
    <3>. QED BY <3>1, MetaFacts
  <2> HIDE DEF L
  <2>. QED BY <1>1, <1>2, <1>5, <2>1, <2>2 DEF TotalToCome, L
<1>6. CASE p.left # 0
  <2>1. TotalOfLayer(v, p, j) = Taken(r, p.sum + a * W + 1)
    BY <1>3, <1>6 DEF TotalOfLayer
  <2>2. Whole(v, j + 1, p.left) = a * W + Whole(v, j, r) + 1
    <3> HIDE DEF a, r
    <3>1. r \in Nat /\ a * L + r > 0 /\ a * L + r <= Leaves(v, j + 1)
      BY <1>1, <1>2, <1>4, <1>6
    <3>. QED BY <1>4, <3>1, WholeSplits
  <2>3. Whole(v, j, r) \in Nat /\ r \in Nat
    <3>1. j \in 0 .. 3 /\ r \in Nat
      BY <1>2, <1>4
    <3>. QED BY <3>1, MetaFacts
  <2> HIDE DEF a, W, r, L
  <2>4. a * W \in Nat
    BY <1>2, <1>4
  <2>5. p.sum + a * W + 1 \in Nat /\ (p.sum + a * W + 1) + Whole(v, j, r) = s
    BY <1>1, <2>2, <2>3, <2>4
  <2>6. r < L
    BY <1>2, <1>4
  <2>. QED BY <2>1, <2>3, <2>5, <2>6 DEF TotalToCome, Taken, L
<1>. QED BY <1>5, <1>6

LEMMA DataLayer ==
  ASSUME NEW v \in {1, 2}, NEW j \in 0 .. 2, InAWord(v, j), NEW p, NEW s \in Nat,
         DataToCome(v, p, j + 1, s)
  PROVE  DataToCome(v, DataOfLayer(v, p, j), j, s)
<1> DEFINE L == Leaves(v, j)
           W == Whole(v, j, L)
<1>1. PICK m \in 0 .. Leaves(v, j + 1) - 1 :
        /\ p \in [left : Nat, sum : Nat]
        /\ p.left = Whole(v, j + 1, m) /\ p.sum + m = s
  BY DEF DataToCome
<1>2. L \in Nat \ {0} /\ W \in Nat \ {0} /\ Leaves(v, j + 1) \in Nat /\ m \in Nat
  <2>1. j \in 0 .. 3 /\ j + 1 \in 0 .. 3
    OBVIOUS
  <2>2. L \in Nat \ {0} /\ Leaves(v, j + 1) \in Nat
    BY <2>1, Geometry
  <2>3. W \in Nat /\ W >= L
    BY <2>1, <2>2, MetaFacts
  <2>. QED BY <2>2, <2>3
<1>3. UnitData(v, j) = L /\ UnitTotal(v, j) = W
  <2>1. j \in 0 .. 3
    OBVIOUS
  <2>. QED BY <2>1, UnitsAreTrees
<1> DEFINE a == m \div L
           r == m % L
<1>4. a \in Nat /\ r \in 0 .. L - 1 /\ m = a * L + r
  <2> HIDE DEF L
  <2>. QED BY <1>2, Division
<1>5. CASE m = 0
  <2>1. p.left = 0
    <3>1. j + 1 \in 0 .. 3 /\ 0 \in Nat
      OBVIOUS
    <3>. QED BY <1>1, <1>5, <3>1, MetaFacts
  <2>2. DataOfLayer(v, p, j) = p
    BY <2>1 DEF DataOfLayer
  <2>3. Whole(v, j, 0) = 0
    <3>1. j \in 0 .. 3 /\ 0 \in Nat
      OBVIOUS
    <3>. QED BY <3>1, MetaFacts
  <2>4. 0 \in 0 .. L - 1
    BY <1>2
  <2>. QED BY <1>1, <1>5, <2>1, <2>2, <2>3, <2>4 DEF DataToCome
<1>6. CASE m # 0
  <2>1. Whole(v, j + 1, m) = a * W + Whole(v, j, r) + 1
    <3> HIDE DEF a, r
    <3> HIDE DEF L
    <3>1. m > 0 /\ m <= Leaves(v, j + 1)
      BY <1>1, <1>2, <1>6
    <3>2. r \in Nat /\ a * L + r > 0 /\ a * L + r <= Leaves(v, j + 1)
      BY <1>2, <1>4, <3>1
    <3>. QED BY <1>4, <3>2, WholeSplits DEF L
  <2>2. Whole(v, j, r) \in Nat /\ r \in Nat /\ Whole(v, j, r) < W
    <3> HIDE DEF r
    <3>1. j \in 0 .. 3 /\ L \in Nat
      BY <1>2
    <3> HIDE DEF L
    <3>2. r \in Nat /\ r < L
      BY <1>4, <3>1
    <3>3. Whole(v, j, r) \in Nat /\ Whole(v, j, r) < Whole(v, j, L)
      BY <3>1, <3>2, MetaFacts
    <3>. QED BY <3>2, <3>3 DEF L
  <2> HIDE DEF a, W, r, L
  <2>3. a * W \in Nat /\ a * L \in Nat
    BY <1>2, <1>4
  <2>4. p.left # 0 /\ p.left - 1 = a * W + Whole(v, j, r)
    BY <1>1, <2>1, <2>2, <2>3
  <2>5. (p.left - 1) \div W = a /\ (p.left - 1) % W = Whole(v, j, r)
    <3>1. p.left - 1 \in Nat /\ a * W <= p.left - 1 /\ p.left - 1 < a * W + W
          /\ (p.left - 1) - a * W = Whole(v, j, r)
      BY <1>2, <2>2, <2>3, <2>4
    <3>. QED BY <1>2, <1>4, <3>1, Quotient
  <2>6. DataOfLayer(v, p, j) = Taken(Whole(v, j, r), p.sum + a * L)
    BY <1>3, <2>4, <2>5 DEF DataOfLayer
  <2>7. p.sum + a * L \in Nat /\ (p.sum + a * L) + r = s
    BY <1>1, <1>2, <1>4, <2>2, <2>3
  <2>. QED BY <1>4, <2>2, <2>6, <2>7 DEF DataToCome, Taken, L
<1>. QED BY <1>5, <1>6

(* One pointer after the other: of the data blocks left, m are below this   *)
(* one and x below the pointers after it. *)
LEMMA TotalPointer ==
  ASSUME NEW v \in {1, 2}, NEW i \in 1 .. 3, NEW p \in [left : Nat, sum : Nat],
         NEW m \in 0 .. Leaves(v, i), NEW x \in Nat, m < Leaves(v, i) => x = 0,
         InAWord(v, i) \/ m = 0, p.left = m + x
  PROVE  TotalOfPointer(v, p, i) = Taken(x, p.sum + Whole(v, i, m))
<1> DEFINE Layer(q, j) == IF j < i THEN TotalOfLayer(v, q, j) ELSE q
           q == TotalOfPointer(v, p, i)
           L == Leaves(v, i)
           s == p.sum + Whole(v, i, m)
<1>1. L \in Nat \ {0} /\ m \in Nat /\ Whole(v, i, 0) = 0
  <2>1. i \in 0 .. 3 /\ 0 \in Nat
    OBVIOUS
  <2>2. L \in Nat \ {0}
    BY <2>1, Geometry
  <2>3. Whole(v, i, 0) = 0
    BY <2>1, MetaFacts
  <2> HIDE DEF L
  <2>4. m \in Nat
    BY <2>2 DEF L
  <2>. QED BY <2>2, <2>3, <2>4
<1>2. CASE p.left = 0
  <2>1. m = 0 /\ x = 0
    BY <1>1, <1>2
  <2>2. \A j : TotalOfLayer(v, p, j) = p
    BY <1>2 DEF TotalOfLayer
  <2>3. q = p
    BY <1>2, <2>2 DEF TotalOfPointer
  <2>4. p = [left |-> 0, sum |-> p.sum + 0]
    BY <1>2
  <2>. QED BY <1>1, <2>1, <2>3, <2>4 DEF Taken
<1>3. CASE p.left # 0 /\ m = L
  <2>1. UnitData(v, i) = L /\ UnitTotal(v, i) = Whole(v, i, L)
    BY <1>1, <1>3, UnitsAreTrees
  <2> HIDE DEF L
  <2>2. p.left > 0 /\ p.left >= L /\ p.left - L = x
    BY <1>1, <1>3
  <2>. QED BY <1>3, <2>1, <2>2 DEF TotalOfPointer
<1>4. CASE p.left # 0 /\ m # L
  <2>1. x = 0 /\ p.left = m /\ m < L /\ InAWord(v, i)
    BY <1>1, <1>4
  <2>2. UnitData(v, i) = L
    BY <2>1, UnitsAreTrees
  <2>3. q = Layer(Layer(Layer(p, 2), 1), 0)
    <3>1. ~ p.left >= UnitData(v, i)
      BY <1>1, <2>1, <2>2
    <3>. QED BY <3>1 DEF TotalOfPointer, Layer
  <2>4. TotalToCome(v, p, i, s)
    BY <2>1 DEF TotalToCome
  <2>5. ASSUME NEW r, NEW j \in 0 .. 2, TotalToCome(v, r, j + 1, s), j < i
        PROVE  TotalToCome(v, Layer(r, j), j, s)
    <3>1. j \in 0 .. i
      BY <2>5
    <3>2. InAWord(v, j)
      BY <2>1, <3>1, BitsGrow
    <3>3. TotalToCome(v, TotalOfLayer(v, r, j), j, s)
      BY <2>5, <3>2, TotalLayer
    <3>. QED BY <2>5, <3>3
  <2>6. ASSUME NEW r, NEW j \in i .. 2 PROVE Layer(r, j) = r
    BY <2>6
  <2> HIDE DEF Layer, q, s, L
  <2>7. TotalToCome(v, q, 0, s)
    <3>1. CASE i = 3
      <4>1. TotalToCome(v, Layer(p, 2), 2, s)
        BY <2>4, <2>5, <3>1
      <4>2. TotalToCome(v, Layer(Layer(p, 2), 1), 1, s)
        BY <2>5, <3>1, <4>1
      <4>. QED BY <2>3, <2>5, <3>1, <4>2
    <3>2. CASE i = 2
      <4>1. Layer(p, 2) = p
        BY <2>6, <3>2
      <4>2. TotalToCome(v, Layer(p, 1), 1, s)
        BY <2>4, <2>5, <3>2
      <4>. QED BY <2>3, <2>5, <3>2, <4>1, <4>2
    <3>3. CASE i = 1
      <4>1. Layer(p, 2) = p /\ Layer(p, 1) = p
        BY <2>6, <3>3
      <4>. QED BY <2>3, <2>4, <2>5, <3>3, <4>1
    <3>. QED BY <3>1, <3>2, <3>3
  <2>8. Leaves(v, 0) = 1 /\ Whole(v, 0, 0) = 0
    BY Geometry DEF Whole, Meta
  <2>9. q \in [left : Nat, sum : Nat] /\ q.left = 0 /\ q.sum + Whole(v, 0, 0) = s
    BY <2>7, <2>8 DEF TotalToCome
  <2>10. q = [left |-> 0, sum |-> s]
    BY <2>8, <2>9
  <2>. QED BY <2>1, <2>10 DEF Taken, q, s
<1>. QED BY <1>2, <1>3, <1>4

(* The same for the blocks left: those of m data blocks are below it. *)
LEMMA DataPointer ==
  ASSUME NEW v \in {1, 2}, NEW i \in 1 .. 3, NEW p \in [left : Nat, sum : Nat],
         NEW m \in 0 .. Leaves(v, i), NEW x \in Nat, m < Leaves(v, i) => x = 0,
         InAWord(v, i) \/ m = 0, p.left = Whole(v, i, m) + x
  PROVE  DataOfPointer(v, p, i) = Taken(x, p.sum + m)
<1> DEFINE Layer(q, j) == IF j < i THEN DataOfLayer(v, q, j) ELSE q
           q == DataOfPointer(v, p, i)
           L == Leaves(v, i)
           s == p.sum + m
<1>1. L \in Nat \ {0} /\ m \in Nat /\ Whole(v, i, 0) = 0 /\ Whole(v, i, m) \in Nat
      /\ Whole(v, i, m) >= m /\ (m < L => Whole(v, i, m) < Whole(v, i, L))
      /\ Whole(v, i, L) \in Nat
  <2>1. i \in 0 .. 3 /\ 0 \in Nat /\ m \in Nat
    OBVIOUS
  <2>2. L \in Nat \ {0}
    BY <2>1, Geometry
  <2>. QED BY <2>1, <2>2, MetaFacts
<1>2. CASE p.left = 0
  <2>1. m = 0 /\ x = 0
    BY <1>1, <1>2
  <2>2. q = p
    BY <1>2, NothingLeft
  <2>3. p = [left |-> 0, sum |-> p.sum + 0]
    BY <1>2
  <2>. QED BY <2>1, <2>2, <2>3 DEF Taken
<1>3. CASE p.left # 0 /\ m = L
  <2>1. UnitData(v, i) = L /\ UnitTotal(v, i) = Whole(v, i, L)
    BY <1>1, <1>3, UnitsAreTrees
  <2> HIDE DEF L
  <2>2. p.left > 0 /\ p.left >= Whole(v, i, L) /\ p.left - Whole(v, i, L) = x
    BY <1>1, <1>3
  <2>. QED BY <1>3, <2>1, <2>2 DEF DataOfPointer
<1>4. CASE p.left # 0 /\ m # L
  <2>1. x = 0 /\ p.left = Whole(v, i, m) /\ m < L
    BY <1>1, <1>4
  <2>0. m # 0
    BY <1>1, <1>4, <2>1
  <2>2. UnitTotal(v, i) = Whole(v, i, L) /\ InAWord(v, i)
    BY <2>0, UnitsAreTrees
  <2>3. q = Layer(Layer(Layer(p, 2), 1), 0)
    <3>1. ~ p.left >= UnitTotal(v, i)
      BY <1>1, <2>1, <2>2
    <3>. QED BY <3>1 DEF DataOfPointer, Layer
  <2>4. DataToCome(v, p, i, s) /\ s \in Nat
    <3>1. m \in 0 .. Leaves(v, i) - 1
      BY <1>1, <2>1
    <3>. QED BY <1>1, <2>1, <3>1 DEF DataToCome
  <2>5. ASSUME NEW r, NEW j \in 0 .. 2, DataToCome(v, r, j + 1, s), j < i
        PROVE  DataToCome(v, Layer(r, j), j, s)
    <3>1. j \in 0 .. i
      BY <2>5
    <3>2. InAWord(v, j)
      BY <2>2, <3>1, BitsGrow
    <3>3. DataToCome(v, DataOfLayer(v, r, j), j, s)
      BY <2>4, <2>5, <3>2, DataLayer
    <3>. QED BY <2>5, <3>3
  <2>6. ASSUME NEW r, NEW j \in i .. 2 PROVE Layer(r, j) = r
    BY <2>6
  <2> HIDE DEF Layer, q, s, L
  <2>7. DataToCome(v, q, 0, s)
    <3>1. CASE i = 3
      <4>1. DataToCome(v, Layer(p, 2), 2, s)
        BY <2>4, <2>5, <3>1
      <4>2. DataToCome(v, Layer(Layer(p, 2), 1), 1, s)
        BY <2>5, <3>1, <4>1
      <4>. QED BY <2>3, <2>5, <3>1, <4>2
    <3>2. CASE i = 2
      <4>1. Layer(p, 2) = p
        BY <2>6, <3>2
      <4>2. DataToCome(v, Layer(p, 1), 1, s)
        BY <2>4, <2>5, <3>2
      <4>. QED BY <2>3, <2>5, <3>2, <4>1, <4>2
    <3>3. CASE i = 1
      <4>1. Layer(p, 2) = p /\ Layer(p, 1) = p
        BY <2>6, <3>3
      <4>. QED BY <2>3, <2>4, <2>5, <3>3, <4>1
    <3>. QED BY <3>1, <3>2, <3>3
  <2>8. Leaves(v, 0) = 1 /\ Whole(v, 0, 0) = 0
    BY Geometry DEF Whole, Meta
  <2>9. q \in [left : Nat, sum : Nat] /\ q.left = 0 /\ q.sum + 0 = s
    <3>1. PICK r \in 0 .. Leaves(v, 0) - 1 : q.left = Whole(v, 0, r) /\ q.sum + r = s
      BY <2>7 DEF DataToCome
    <3>2. r = 0
      BY <2>8, <3>1
    <3>. QED BY <2>7, <2>8, <3>1, <3>2 DEF DataToCome
  <2>10. q = [left |-> 0, sum |-> s]
    BY <2>9
  <2>. QED BY <2>1, <2>10 DEF Taken, q, s
<1>. QED BY <1>2, <1>3, <1>4

(* m of the data blocks after the direct ones are below each pointer, which *)
(* is full before the next one has any. *)
Filled(v, m) ==
  /\ m \in [1 .. 3 -> Nat]
  /\ \A i \in 1 .. 3 : m[i] <= Leaves(v, i) /\ (InAWord(v, i) \/ m[i] = 0)
  /\ m[1] > 0
  /\ m[1] < Leaves(v, 1) => m[2] = 0
  /\ m[2] < Leaves(v, 2) => m[3] = 0

LEMMA FilledUpTo ==
  ASSUME NEW v \in {1, 2}, NEW top \in 0 .. 3, InAWord(v, top),
         NEW n \in Nat, NDADDR < n, n <= MappedUpTo(v, top)
  PROVE  \E m : Filled(v, m) /\ n = NDADDR + m[1] + m[2] + m[3]
<1> DEFINE L(i) == Leaves(v, i)
<1>1. /\ L(1) \in Nat /\ L(2) \in Nat /\ L(3) \in Nat /\ NDADDR \in Nat
      /\ L(1) > 0 /\ L(2) > 0
      /\ FirstLeaf(v, 1) = NDADDR /\ FirstLeaf(v, 2) = FirstLeaf(v, 1) + L(1)
      /\ FirstLeaf(v, 3) = FirstLeaf(v, 2) + L(2)
  BY Geometry
<1>2. \A i \in 0 .. top : InAWord(v, i)
  BY BitsGrow
<1>3. top = 0 \/ top = 1 \/ top = 2 \/ top = 3
  OBVIOUS
<1> HIDE DEF L
<1> DEFINE x == n - NDADDR
           a == IF x <= L(1) THEN x ELSE L(1)
           b == IF x <= L(1) THEN 0 ELSE IF x - L(1) <= L(2) THEN x - L(1) ELSE L(2)
           c == IF x <= L(1) + L(2) THEN 0 ELSE x - L(1) - L(2)
           m == [i \in 1 .. 3 |-> CASE i = 1 -> a [] i = 2 -> b [] i = 3 -> c]
<1>4. /\ a \in Nat /\ b \in Nat /\ c \in Nat /\ a > 0 /\ n = NDADDR + a + b + c
      /\ a <= L(1) /\ b <= L(2) /\ (a < L(1) => b = 0) /\ (b < L(2) => c = 0)
      /\ (x <= L(1) => b = 0) /\ (x <= L(1) + L(2) => c = 0)
  BY <1>1
<1>5. x <= (CASE top = 0 -> 0 [] top = 1 -> L(1) [] top = 2 -> L(1) + L(2)
                 [] top = 3 -> L(1) + L(2) + L(3)) /\ x > 0
  BY <1>1, <1>3 DEF MappedUpTo, L
<1>6. c <= L(3) /\ top > 0 /\ (top = 1 => b = 0 /\ c = 0) /\ (top = 2 => c = 0)
  BY <1>1, <1>3, <1>5
<1> HIDE DEF a, b, c
<1>7. m \in [1 .. 3 -> Nat] /\ m[1] = a /\ m[2] = b /\ m[3] = c
  BY <1>4
<1> HIDE DEF m
<1>8. \A i \in 1 .. 3 : m[i] <= Leaves(v, i) /\ (InAWord(v, i) \/ m[i] = 0)
  <2>1. \A i \in 1 .. 3 : i = 1 \/ i = 2 \/ i = 3
    OBVIOUS
  <2>2. 1 <= top /\ (2 <= top \/ b = 0) /\ (3 <= top \/ c = 0)
    BY <1>3, <1>6
  <2>3. InAWord(v, 1) /\ (InAWord(v, 2) \/ b = 0) /\ (InAWord(v, 3) \/ c = 0)
    BY <1>2, <2>2
  <2>. QED BY <1>4, <1>6, <1>7, <2>1, <2>3 DEF L
<1>9. Filled(v, m)
  BY <1>4, <1>7, <1>8 DEF Filled, L
<1>. QED BY <1>4, <1>7, <1>9

(* The blocks of such a file, and the two counts of them *)
HeldWith(v, m) == NDADDR + Whole(v, 1, m[1]) + Whole(v, 2, m[2]) + Whole(v, 3, m[3])

LEMMA FilledFacts ==
  ASSUME NEW v \in {1, 2}, NEW m, Filled(v, m)
  PROVE  /\ \A i \in 1 .. 3 : m[i] \in 0 .. Leaves(v, i) /\ Whole(v, i, m[i]) \in Nat
         /\ Whole(v, 1, m[1]) > 0 /\ HeldWith(v, m) \in Nat /\ HeldWith(v, m) > NDADDR
<1>1. \A i \in 1 .. 3 : m[i] \in 0 .. Leaves(v, i) /\ m[i] \in Nat
  <2>1. \A i \in 1 .. 3 : Leaves(v, i) \in Nat
    BY Geometry
  <2>. QED BY <2>1 DEF Filled
<1>2. \A i \in 1 .. 3 : Whole(v, i, m[i]) \in Nat /\ Whole(v, i, m[i]) >= m[i]
  <2> TAKE i \in 1 .. 3
  <2>1. i \in 0 .. 3 /\ m[i] \in Nat
    BY <1>1
  <2>. QED BY <2>1, MetaFacts
<1>3. Whole(v, 1, m[1]) > 0
  BY <1>1, <1>2 DEF Filled
<1>. QED BY <1>1, <1>2, <1>3, GeometryAssumption DEF HeldWith

LEMMA TotalBlocksAreHeld ==
  ASSUME NEW v \in {1, 2}, NEW m, Filled(v, m)
  PROVE  FFSTotalBlocks(v, NDADDR + m[1] + m[2] + m[3]) = HeldWith(v, m)
<1> DEFINE Pointer(p, i) == TotalOfPointer(v, p, i)
           n == NDADDR + m[1] + m[2] + m[3]
           p0 == Taken(n - NDADDR, NDADDR)
           w(i) == Whole(v, i, m[i])
<1>1. /\ \A i \in 1 .. 3 : m[i] \in 0 .. Leaves(v, i) /\ m[i] \in Nat /\ w(i) \in Nat
      /\ NDADDR \in Nat
  <2>1. \A i \in 1 .. 3 : m[i] \in Nat
    BY DEF Filled
  <2>. QED BY <2>1, FilledFacts, GeometryAssumption
<1>2. FFSTotalBlocks(v, n) = Pointer(Pointer(Pointer(p0, 1), 2), 3).sum
  <2>1. ~ n <= NDADDR
    BY <1>1 DEF Filled
  <2> HIDE DEF n
  <2>. QED BY <2>1 DEF FFSTotalBlocks
<1>3. p0 = Taken(m[1] + (m[2] + m[3]), NDADDR)
  <2>1. n - NDADDR = m[1] + (m[2] + m[3])
    BY <1>1
  <2> HIDE DEF n
  <2>. QED BY <2>1
<1>4. ASSUME NEW i \in 1 .. 3, NEW x \in Nat, NEW s \in Nat, m[i] < Leaves(v, i) => x = 0
      PROVE  Pointer(Taken(m[i] + x, s), i) = Taken(x, s + w(i))
  <2> DEFINE p == Taken(m[i] + x, s)
  <2>1. p \in [left : Nat, sum : Nat] /\ p.left = m[i] + x /\ p.sum = s
    BY <1>1 DEF Taken
  <2> HIDE DEF p
  <2>2. m[i] \in 0 .. Leaves(v, i) /\ (InAWord(v, i) \/ m[i] = 0)
    BY <1>1 DEF Filled
  <2>3. TotalOfPointer(v, p, i) = Taken(x, p.sum + Whole(v, i, m[i]))
    BY <1>4, <2>1, <2>2, TotalPointer
  <2>. QED BY <2>1, <2>3 DEF p
<1> HIDE DEF Pointer, p0, w, n
<1>5. Pointer(p0, 1) = Taken(m[2] + m[3], NDADDR + w(1))
  <2>1. m[2] + m[3] \in Nat /\ (m[1] < Leaves(v, 1) => m[2] + m[3] = 0)
    <3>1. Leaves(v, 2) \in Nat /\ Leaves(v, 2) > 0
      BY Geometry
    <3>. QED BY <1>1, <3>1 DEF Filled
  <2>2. 1 \in 1 .. 3
    OBVIOUS
  <2>. QED BY <1>1, <1>3, <1>4, <2>1, <2>2
<1>6. Pointer(Taken(m[2] + m[3], NDADDR + w(1)), 2) = Taken(m[3], NDADDR + w(1) + w(2))
  <2>1. 2 \in 1 .. 3 /\ m[3] \in Nat /\ NDADDR + w(1) \in Nat /\ (m[2] < Leaves(v, 2) => m[3] = 0)
    BY <1>1 DEF Filled
  <2>. QED BY <1>4, <2>1
<1>7. Pointer(Taken(m[3], NDADDR + w(1) + w(2)), 3) = Taken(0, NDADDR + w(1) + w(2) + w(3))
  <2>1. 3 \in 1 .. 3 /\ m[3] + 0 = m[3] /\ NDADDR + w(1) + w(2) \in Nat /\ 0 \in Nat
    BY <1>1
  <2>2. Pointer(Taken(m[3] + 0, NDADDR + w(1) + w(2)), 3) = Taken(0, NDADDR + w(1) + w(2) + w(3))
    BY <1>4, <2>1
  <2>. QED BY <2>1, <2>2
<1>8. FFSTotalBlocks(v, n) = NDADDR + w(1) + w(2) + w(3)
  BY <1>2, <1>5, <1>6, <1>7 DEF Taken
<1>. QED BY <1>8 DEF HeldWith, w, n

LEMMA DataBlocksAreMapped ==
  ASSUME NEW v \in {1, 2}, NEW m, Filled(v, m)
  PROVE  FFSDataBlocks(v, HeldWith(v, m)) = NDADDR + m[1] + m[2] + m[3]
<1> DEFINE Pointer(p, i) == DataOfPointer(v, p, i)
           n == HeldWith(v, m)
           p0 == Taken(n - NDADDR, NDADDR)
           w(i) == Whole(v, i, m[i])
<1>1. /\ \A i \in 1 .. 3 : m[i] \in 0 .. Leaves(v, i) /\ m[i] \in Nat /\ w(i) \in Nat
      /\ NDADDR \in Nat
  <2>1. \A i \in 1 .. 3 : m[i] \in Nat
    BY DEF Filled
  <2>. QED BY <2>1, FilledFacts, GeometryAssumption
<1>2. FFSDataBlocks(v, n) = Pointer(Pointer(Pointer(p0, 1), 2), 3).sum
  <2>1. ~ n <= NDADDR
    BY <1>1, FilledFacts
  <2> HIDE DEF n
  <2>. QED BY <2>1 DEF FFSDataBlocks
<1>3. p0 = Taken(w(1) + (w(2) + w(3)), NDADDR)
  <2>1. n - NDADDR = w(1) + (w(2) + w(3))
    <3>1. n = NDADDR + w(1) + w(2) + w(3)
      BY DEF HeldWith
    <3> HIDE DEF n, w
    <3>2. w(1) \in Nat /\ w(2) \in Nat /\ w(3) \in Nat
      BY <1>1
    <3>. QED BY <1>1, <3>1, <3>2
  <2> HIDE DEF n, w
  <2>. QED BY <2>1
<1>4. ASSUME NEW i \in 1 .. 3, NEW x \in Nat, NEW s \in Nat, m[i] < Leaves(v, i) => x = 0
      PROVE  Pointer(Taken(w(i) + x, s), i) = Taken(x, s + m[i])
  <2> DEFINE p == Taken(w(i) + x, s)
  <2>1. p \in [left : Nat, sum : Nat] /\ p.left = Whole(v, i, m[i]) + x /\ p.sum = s
    BY <1>1 DEF Taken
  <2> HIDE DEF p
  <2>2. m[i] \in 0 .. Leaves(v, i) /\ (InAWord(v, i) \/ m[i] = 0)
    BY <1>1 DEF Filled
  <2>3. DataOfPointer(v, p, i) = Taken(x, p.sum + m[i])
    BY <1>4, <2>1, <2>2, DataPointer
  <2>. QED BY <2>1, <2>3 DEF p
<1>5. /\ m[1] < Leaves(v, 1) => w(2) + w(3) = 0
      /\ m[2] < Leaves(v, 2) => w(3) = 0
  <2>1. Whole(v, 2, 0) = 0 /\ Whole(v, 3, 0) = 0
    BY MetaFacts
  <2>2. Leaves(v, 2) \in Nat /\ Leaves(v, 2) > 0
    BY Geometry
  <2>. QED BY <2>1, <2>2 DEF Filled
<1> HIDE DEF Pointer, p0, w, n
<1>6. Pointer(p0, 1) = Taken(w(2) + w(3), NDADDR + m[1])
  <2>1. 1 \in 1 .. 3 /\ w(2) + w(3) \in Nat
    BY <1>1
  <2>. QED BY <1>1, <1>3, <1>4, <1>5, <2>1
<1>7. Pointer(Taken(w(2) + w(3), NDADDR + m[1]), 2) = Taken(w(3), NDADDR + m[1] + m[2])
  <2>1. 2 \in 1 .. 3 /\ w(3) \in Nat /\ NDADDR + m[1] \in Nat
    BY <1>1
  <2>. QED BY <1>4, <1>5, <2>1
<1>8. Pointer(Taken(w(3), NDADDR + m[1] + m[2]), 3) = Taken(0, NDADDR + m[1] + m[2] + m[3])
  <2>1. 3 \in 1 .. 3 /\ w(3) + 0 = w(3) /\ NDADDR + m[1] + m[2] \in Nat /\ 0 \in Nat
    BY <1>1
  <2>2. Pointer(Taken(w(3) + 0, NDADDR + m[1] + m[2]), 3) = Taken(0, NDADDR + m[1] + m[2] + m[3])
    BY <1>4, <2>1
  <2>. QED BY <2>1, <2>2
<1>9. FFSDataBlocks(v, n) = NDADDR + m[1] + m[2] + m[3]
  BY <1>2, <1>6, <1>7, <1>8 DEF Taken
<1>. QED BY <1>9 DEF n

-----------------------------------------------------------------------------
(* A file without holes *)

LEMMA DisjointSum ==
  ASSUME NEW S, NEW T, IsFiniteSet(S), IsFiniteSet(T), S \cap T = {}
  PROVE  /\ IsFiniteSet(S \cup T)
         /\ Cardinality(S \cup T) = Cardinality(S) + Cardinality(T)
<1>1. Cardinality(S) \in Nat /\ Cardinality(T) \in Nat /\ Cardinality(S \cap T) = 0
  BY FS_CardinalityType, FS_EmptySet
<1>2. /\ IsFiniteSet(S \cup T)
      /\ Cardinality(S \cup T) = Cardinality(S) + Cardinality(T) - Cardinality(S \cap T)
  BY FS_Union
<1>. QED BY <1>1, <1>2

LEMMA DenseIsInterval ==
  ASSUME NEW D \in SUBSET Nat, IsFiniteSet(D), \A n \in D : n = 0 \/ n - 1 \in D
  PROVE  D = 0 .. Cardinality(D) - 1
<1> DEFINE c == Cardinality(D)
<1>1. c \in Nat
  BY FS_CardinalityType
<1>2. ASSUME NEW x \in D PROVE x \in 0 .. c - 1
  <2>1. (0 .. x) \in SUBSET D
    BY Descent
  <2>2. x \in Int /\ 0 \in Int /\ x >= 0
    OBVIOUS
  <2>3. Cardinality(0 .. x) = x - 0 + 1
    BY <2>2, FS_Interval
  <2>4. Cardinality(0 .. x) <= c
    BY <2>1, FS_Subset
  <2>. QED BY <1>1, <2>2, <2>3, <2>4
<1>3. IsFiniteSet(0 .. c - 1) /\ Cardinality(0 .. c - 1) = c
  <2>1. c - 1 \in Int /\ 0 \in Int
    BY <1>1
  <2>2. /\ IsFiniteSet(0 .. c - 1)
        /\ Cardinality(0 .. c - 1) = IF 0 > c - 1 THEN 0 ELSE (c - 1) - 0 + 1
    BY <2>1, FS_Interval
  <2>. QED BY <1>1, <2>2
<1>4. D \in SUBSET (0 .. c - 1)
  BY <1>2
<1>. QED BY <1>3, <1>4, FS_Subset

(* x blocks of pointers of layer l below indirect pointer top. *)
Row(v, top, l, x) ==
  { [layer |-> l, first |-> FirstLeaf(v, top) + k * Leaves(v, l)] : k \in 0 .. x - 1 }

LEMMA RowCounts ==
  ASSUME NEW v \in {1, 2}, NEW top \in 1 .. 3, NEW l \in 1 .. 3, NEW x \in Nat
  PROVE  IsFiniteSet(Row(v, top, l, x)) /\ Cardinality(Row(v, top, l, x)) = x
<1> DEFINE d == Leaves(v, l)
           e == FirstLeaf(v, top)
           f == [k \in 0 .. x - 1 |-> [layer |-> l, first |-> e + k * d]]
           R == { [layer |-> l, first |-> e + k * d] : k \in 0 .. x - 1 }
<1>1. d \in Nat /\ d > 0 /\ e \in Nat
  BY Geometry
<1>2. Row(v, top, l, x) = R
  BY DEF Row
<1> HIDE DEF d, e
<1>3. ASSUME NEW a \in 0 .. x - 1, NEW b \in 0 .. x - 1, f[a] = f[b] PROVE a = b
  <2>1. a \in Nat /\ b \in Nat /\ a * d \in Nat /\ b * d \in Nat
    BY <1>1
  <2>2. f[a].first = e + a * d /\ f[b].first = e + b * d
    OBVIOUS
  <2>3. e + a * d = e + b * d
    BY <1>3, <2>2
  <2>4. a * d = b * d
    BY <1>1, <2>1, <2>3
  <2>5. ~ a < b /\ ~ b < a
    BY <1>1, <2>1, <2>4, Multiples
  <2>. QED BY <2>1, <2>5
<1>4. f \in Bijection(0 .. x - 1, R)
  <2>1. f \in [0 .. x - 1 -> R]
    OBVIOUS
  <2>2. f \in Injection(0 .. x - 1, R)
    BY <1>3, <2>1 DEF Injection, IsInjective
  <2>3. f \in Surjection(0 .. x - 1, R)
    <3>1. \A r \in R : \E k \in 0 .. x - 1 : f[k] = r
      OBVIOUS
    <3>. QED BY <2>1, <3>1 DEF Surjection
  <2>. QED BY <2>2, <2>3 DEF Bijection
<1>5. IsFiniteSet(0 .. x - 1) /\ Cardinality(0 .. x - 1) = x
  <2>1. x - 1 \in Int /\ 0 \in Int
    OBVIOUS
  <2>2. /\ IsFiniteSet(0 .. x - 1)
        /\ Cardinality(0 .. x - 1) = IF 0 > x - 1 THEN 0 ELSE (x - 1) - 0 + 1
    BY <2>1, FS_Interval
  <2>. QED BY <2>2
<1>6. IsFiniteSet(R) /\ Cardinality(R) = Cardinality(0 .. x - 1)
  BY <1>4, <1>5, FS_Bijection DEF ExistsBijection
<1>. QED BY <1>2, <1>5, <1>6

(* The blocks of pointers over the first x blocks below a pointer. *)
RowsOver(v, top, x) == UNION { Row(v, top, l, Rows(v, l, x)) : l \in 1 .. top }

LEMMA RowsOverCount ==
  ASSUME NEW v \in {1, 2}, NEW top \in 1 .. 3, NEW x \in Nat
  PROVE  /\ IsFiniteSet(RowsOver(v, top, x))
         /\ Cardinality(RowsOver(v, top, x)) = Meta(v, top, x)
<1> DEFINE R(l) == Row(v, top, l, Rows(v, l, x))
<1>1. \A l \in 1 .. 3 : /\ IsFiniteSet(R(l)) /\ Cardinality(R(l)) = Rows(v, l, x)
                        /\ \A b \in R(l) : b.layer = l
  <2> TAKE l \in 1 .. 3
  <2>1. Rows(v, l, x) \in Nat
    BY RowsFacts
  <2>2. IsFiniteSet(R(l)) /\ Cardinality(R(l)) = Rows(v, l, x)
    BY <2>1, RowCounts
  <2>3. \A b \in R(l) : b.layer = l
    BY DEF Row
  <2>. QED BY <2>2, <2>3
<1>2. RowsOver(v, top, x) = UNION { R(l) : l \in 1 .. top }
  BY DEF RowsOver
<1> HIDE DEF R
<1>3. CASE top = 1
  <2>1. 1 .. 1 = {1}
    OBVIOUS
  <2>2. RowsOver(v, top, x) = R(1)
    BY <1>2, <1>3, <2>1
  <2>. QED BY <1>1, <1>3, <2>2 DEF Meta
<1>4. R(1) \cap R(2) = {} /\ (R(1) \cup R(2)) \cap R(3) = {}
  <2>1. \A b : b \in R(1) => b.layer = 1
    BY <1>1
  <2>2. \A b : b \in R(2) => b.layer = 2
    BY <1>1
  <2>3. \A b : b \in R(3) => b.layer = 3
    BY <1>1
  <2>. QED BY <2>1, <2>2, <2>3
<1>5. /\ IsFiniteSet(R(1) \cup R(2))
      /\ Cardinality(R(1) \cup R(2)) = Rows(v, 1, x) + Rows(v, 2, x)
  <2>1. IsFiniteSet(R(1)) /\ IsFiniteSet(R(2))
        /\ Cardinality(R(1)) = Rows(v, 1, x) /\ Cardinality(R(2)) = Rows(v, 2, x)
    BY <1>1
  <2>. QED BY <1>4, <2>1, DisjointSum
<1>6. CASE top = 2
  <2>1. 1 .. 2 = {1, 2}
    OBVIOUS
  <2>2. RowsOver(v, top, x) = R(1) \cup R(2)
    BY <1>2, <1>6, <2>1
  <2>. QED BY <1>5, <1>6, <2>2 DEF Meta
<1>7. CASE top = 3
  <2>1. 1 .. 3 = {1, 2, 3}
    OBVIOUS
  <2>2. RowsOver(v, top, x) = (R(1) \cup R(2)) \cup R(3)
    BY <1>2, <1>7, <2>1
  <2>3. IsFiniteSet(R(3)) /\ Cardinality(R(3)) = Rows(v, 3, x)
    BY <1>1
  <2>4. /\ IsFiniteSet((R(1) \cup R(2)) \cup R(3))
        /\ Cardinality((R(1) \cup R(2)) \cup R(3)) = Rows(v, 1, x) + Rows(v, 2, x) + Rows(v, 3, x)
    BY <1>4, <1>5, <2>3, DisjointSum
  <2>5. Meta(v, top, x) = Rows(v, 1, x) + Rows(v, 2, x) + Rows(v, 3, x)
    BY <1>7 DEF Meta
  <2>. QED BY <2>2, <2>4, <2>5
<1>. QED BY <1>3, <1>6, <1>7

(* A block of pointers lies in the tree of its pointer. *)
LEMMA PlaceInTree ==
  ASSUME NEW v \in {1, 2}, NEW top \in 1 .. 3, NEW l \in 1 .. top, NEW k \in Nat
  PROVE  /\ k < Leaves(v, top - l) <=> k * Leaves(v, l) < Leaves(v, top)
         /\ k < Leaves(v, top - l) => k * Leaves(v, l) + Leaves(v, l) <= Leaves(v, top)
<1> DEFINE d == Leaves(v, l)
           e == Leaves(v, top - l)
<1>1. d \in Nat /\ d > 0 /\ e \in Nat /\ Leaves(v, top) = e * d
  <2>1. l \in 0 .. 3 /\ top - l \in 0 .. 3 /\ l \in 0 .. top /\ top \in 0 .. 3
    OBVIOUS
  <2>2. d \in Nat /\ d > 0 /\ e \in Nat
    BY <2>1, Geometry
  <2>3. e * d = Leaves(v, top)
    BY <2>1, LeavesMultiply
  <2>. QED BY <2>2, <2>3
<1> HIDE DEF d, e
<1>2. k * d \in Nat /\ e * d \in Nat
  BY <1>1
<1>3. k < e => k * d + d <= e * d
  BY <1>1, Multiples
<1>4. ~ k < e => e * d <= k * d
  <2> SUFFICES ASSUME e <= k PROVE e * d <= k * d
    BY <1>1
  <2>1. k * d = e * d + (k - e) * d /\ (k - e) * d \in Nat
    BY <1>1
  <2>. QED BY <1>2, <2>1
<1>. QED BY <1>1, <1>2, <1>3, <1>4 DEF d, e

LEMMA TreesFit ==
  ASSUME NEW v \in {1, 2}, NEW top \in 1 .. 3
  PROVE  /\ Leaves(v, top) \in Nat /\ FirstLeaf(v, top) \in Nat /\ Capacity(v) \in Nat
         /\ FirstLeaf(v, top) + Leaves(v, top) <= Capacity(v)
         /\ \A l \in 0 .. top : Leaves(v, l) \in Nat \ {0} /\ Leaves(v, top - l) \in Nat
<1>1. /\ Capacity(v) = FirstLeaf(v, 3) + Leaves(v, 3)
      /\ FirstLeaf(v, 2) = FirstLeaf(v, 1) + Leaves(v, 1)
      /\ FirstLeaf(v, 3) = FirstLeaf(v, 2) + Leaves(v, 2)
      /\ FirstLeaf(v, 1) \in Nat
  BY Geometry
<1>2. \A l \in 0 .. 3 : Leaves(v, l) \in Nat \ {0}
  BY Geometry
<1>3. Leaves(v, 1) \in Nat /\ Leaves(v, 2) \in Nat /\ Leaves(v, 3) \in Nat
  BY <1>2
<1>4. top = 1 \/ top = 2 \/ top = 3
  OBVIOUS
<1>5. /\ Leaves(v, top) \in Nat /\ FirstLeaf(v, top) \in Nat /\ Capacity(v) \in Nat
      /\ FirstLeaf(v, top) + Leaves(v, top) <= Capacity(v)
  BY <1>1, <1>3, <1>4
<1>6. \A l \in 0 .. top : l \in 0 .. 3 /\ top - l \in 0 .. 3
  OBVIOUS
<1>. QED BY <1>2, <1>5, <1>6

(* How far the data of a file reaches below each of its pointers *)
LEMMA FilledBelow ==
  ASSUME NEW v \in {1, 2}, NEW m, Filled(v, m), NEW top \in 1 .. 3,
         NEW y \in Nat, y < Leaves(v, top)
  PROVE  FirstLeaf(v, top) + y < NDADDR + m[1] + m[2] + m[3] <=> y < m[top]
<1>1. /\ FirstLeaf(v, 1) = NDADDR /\ FirstLeaf(v, 2) = NDADDR + Leaves(v, 1)
      /\ FirstLeaf(v, 3) = NDADDR + Leaves(v, 1) + Leaves(v, 2) /\ NDADDR \in Nat
      /\ \A l \in 0 .. 3 : Leaves(v, l) \in Nat
      /\ Leaves(v, 2) > 0
  BY Geometry
<1>2. /\ Leaves(v, 1) \in Nat /\ Leaves(v, 2) \in Nat /\ Leaves(v, 3) \in Nat
      /\ m[1] \in Nat /\ m[2] \in Nat /\ m[3] \in Nat
      /\ m[1] <= Leaves(v, 1) /\ m[2] <= Leaves(v, 2) /\ m[3] <= Leaves(v, 3)
      /\ (m[1] < Leaves(v, 1) => m[2] = 0) /\ (m[2] < Leaves(v, 2) => m[3] = 0)
  BY <1>1 DEF Filled
<1>3. top = 1 \/ top = 2 \/ top = 3
  OBVIOUS
<1>4. CASE top = 1
  BY <1>1, <1>2, <1>4
<1>5. CASE top = 2
  BY <1>1, <1>2, <1>5
<1>6. CASE top = 3
  BY <1>1, <1>2, <1>6
<1>. QED BY <1>3, <1>4, <1>5, <1>6

LEMMA Products ==
  ASSUME NEW a \in Nat, NEW b \in Nat
  PROVE  a * b \in Nat
OBVIOUS

LEMMA PartsFit ==
  ASSUME NEW a \in Nat, NEW y \in Nat, NEW d \in Nat, NEW b \in Nat, NEW c \in Nat,
         y + d <= b, a + b <= c
  PROVE  a + y \in Nat /\ (a + y) + d <= c
OBVIOUS

LEMMA BelowANumber ==
  ASSUME NEW n \in Nat, NEW k \in Nat
  PROVE  k \in 0 .. n - 1 <=> k < n
OBVIOUS

LEMMA IntervalsMeet ==
  ASSUME NEW a \in Nat, NEW d \in Nat \ {0}, NEW c \in Nat
  PROVE  (\E n \in a .. (a + d - 1) : n \in 0 .. c - 1) <=> a < c
<1>1. a \in a .. (a + d - 1)
  OBVIOUS
<1>. QED BY <1>1

(* Without holes, a block of pointers is allocated when the file goes on    *)
(* past the first block below it. *)
LEMMA DenseAllocated ==
  ASSUME NEW v \in {1, 2}, NEW Address \in [0 .. Capacity(v) - 1 -> Nat], NEW c \in Nat,
         DataBlocksOf(Address) = 0 .. c - 1,
         NEW top \in 1 .. 3, NEW l \in 1 .. top, NEW k \in 0 .. Leaves(v, top - l) - 1
  PROVE  Allocated(v, Address, [layer |-> l, first |-> FirstLeaf(v, top) + k * Leaves(v, l)])
           <=> FirstLeaf(v, top) + k * Leaves(v, l) < c
<1> DEFINE d == Leaves(v, l)
           a == FirstLeaf(v, top) + k * d
           b == [layer |-> l, first |-> a]
<1>1. /\ d \in Nat \ {0} /\ Leaves(v, top) \in Nat /\ FirstLeaf(v, top) \in Nat
      /\ FirstLeaf(v, top) + Leaves(v, top) <= Capacity(v) /\ Capacity(v) \in Nat
      /\ Leaves(v, top - l) \in Nat
  <2>1. l \in 0 .. top
    OBVIOUS
  <2>. QED BY <2>1, TreesFit
<1>2. k \in Nat /\ k < Leaves(v, top - l)
  BY <1>1
<1>3. k * d + d <= Leaves(v, top)
  BY <1>2, PlaceInTree
<1>4. Below(v, b) = a .. (a + d - 1)
  BY DEF Below
<1>5. \A n \in 0 .. Capacity(v) - 1 : Address[n] # 0 <=> n \in 0 .. c - 1
  BY DEF DataBlocksOf
<1> DEFINE y == k * d
<1>6. y \in Nat /\ y + d <= Leaves(v, top) /\ a = FirstLeaf(v, top) + y
  <2> HIDE DEF d
  <2>. QED BY <1>1, <1>2, <1>3
<1> HIDE DEF a, y, d
<1>7. a \in Nat /\ a + d <= Capacity(v)
  <2>1. d \in Nat
    BY <1>1
  <2>. QED BY <1>1, <1>6, <2>1, PartsFit
<1>8. Allocated(v, Address, b) <=> \E n \in a .. (a + d - 1) : n \in 0 .. c - 1
  <2>1. \A n \in a .. (a + d - 1) : n \in 0 .. Capacity(v) - 1
    BY <1>1, <1>7
  <2>. QED BY <1>4, <1>5, <2>1 DEF Allocated
<1>. QED BY <1>1, <1>7, <1>8, IntervalsMeet DEF a, b, d, y

LEMMA DensePlaces ==
  ASSUME NEW v \in {1, 2}, NEW Address \in [0 .. Capacity(v) - 1 -> Nat], NEW m, Filled(v, m),
         DataBlocksOf(Address) = 0 .. (NDADDR + m[1] + m[2] + m[3]) - 1, NEW top \in 1 .. 3
  PROVE  { b \in PlacesBelow(v, top) : Allocated(v, Address, b) } = RowsOver(v, top, m[top])
<1> DEFINE c == NDADDR + m[1] + m[2] + m[3]
           Place(l, k) == [layer |-> l, first |-> FirstLeaf(v, top) + k * Leaves(v, l)]
<1>1. /\ \A i \in 1 .. 3 : m[i] \in Nat /\ m[i] <= Leaves(v, i)
      /\ \A l \in 0 .. top : Leaves(v, l) \in Nat \ {0} /\ Leaves(v, top - l) \in Nat
  BY TreesFit DEF Filled
<1>2. c \in Nat
  <2>1. m[1] \in Nat /\ m[2] \in Nat /\ m[3] \in Nat /\ NDADDR \in Nat
    BY <1>1, GeometryAssumption
  <2>. QED BY <2>1
<1> HIDE DEF c
<1>3. ASSUME NEW l \in 1 .. top, NEW k \in Nat
      PROVE  (k < Leaves(v, top - l) /\ Allocated(v, Address, Place(l, k)))
               <=> k < Rows(v, l, m[top])
  <2> DEFINE y == k * Leaves(v, l)
  <2>1. Leaves(v, l) \in Nat \ {0} /\ m[top] \in Nat /\ m[top] <= Leaves(v, top)
        /\ Leaves(v, top) \in Nat /\ Leaves(v, top - l) \in Nat
    <3>1. l \in 0 .. top /\ top \in 0 .. top
      OBVIOUS
    <3>. QED BY <1>1, <3>1
  <2>2. y \in Nat
    BY <2>1, Products
  <2>3. k < Leaves(v, top - l) <=> y < Leaves(v, top)
    BY PlaceInTree
  <2>4. k < Rows(v, l, m[top]) <=> y < m[top]
    BY <2>1, CeilingCounts DEF Rows
  <2>5. k < Leaves(v, top - l) =>
          (Allocated(v, Address, Place(l, k)) <=> FirstLeaf(v, top) + y < c)
    <3>1. k < Leaves(v, top - l) => k \in 0 .. Leaves(v, top - l) - 1
      BY <2>1
    <3>. QED BY <1>2, <3>1, DenseAllocated DEF c
  <2>6. y < Leaves(v, top) => (FirstLeaf(v, top) + y < c <=> y < m[top])
    BY <2>2, FilledBelow DEF c
  <2>7. y < m[top] => y < Leaves(v, top)
    <3> HIDE DEF y
    <3>. QED BY <2>1, <2>2
  <2> HIDE DEF y
  <2>. QED BY <2>3, <2>4, <2>5, <2>6, <2>7
<1> HIDE DEF Place
<1>4. PlacesBelow(v, top) = UNION { { Place(l, k) : k \in 0 .. Leaves(v, top - l) - 1 } : l \in 1 .. top }
  BY DEF PlacesBelow, Place
<1>5. RowsOver(v, top, m[top]) = UNION { { Place(l, k) : k \in 0 .. Rows(v, l, m[top]) - 1 } : l \in 1 .. top }
  BY DEF RowsOver, Row, Place
<1>6. \A l \in 1 .. top : Rows(v, l, m[top]) \in Nat /\ Leaves(v, top - l) \in Nat
  <2> TAKE l \in 1 .. top
  <2>1. l \in 1 .. 3 /\ l \in 0 .. top
    OBVIOUS
  <2>2. m[top] \in Nat /\ Leaves(v, top - l) \in Nat
    BY <1>1, <2>1
  <2>. QED BY <2>1, <2>2, RowsFacts
<1>7. ASSUME NEW l \in 1 .. top, NEW k \in Nat
      PROVE  /\ k \in 0 .. Leaves(v, top - l) - 1 <=> k < Leaves(v, top - l)
             /\ k \in 0 .. Rows(v, l, m[top]) - 1 <=> k < Rows(v, l, m[top])
  BY <1>6, BelowANumber
<1>8. ASSUME NEW b \in PlacesBelow(v, top), Allocated(v, Address, b)
      PROVE  b \in RowsOver(v, top, m[top])
  <2>1. PICK l \in 1 .. top : \E k \in 0 .. Leaves(v, top - l) - 1 : b = Place(l, k)
    BY <1>4
  <2>2. PICK k \in 0 .. Leaves(v, top - l) - 1 : b = Place(l, k)
    BY <2>1
  <2>3. k \in Nat
    OBVIOUS
  <2>4. k \in 0 .. Rows(v, l, m[top]) - 1
    BY <1>3, <1>7, <1>8, <2>2, <2>3
  <2>. QED BY <1>5, <2>2, <2>4
<1>9. ASSUME NEW b \in RowsOver(v, top, m[top])
      PROVE  b \in PlacesBelow(v, top) /\ Allocated(v, Address, b)
  <2>1. PICK l \in 1 .. top : \E k \in 0 .. Rows(v, l, m[top]) - 1 : b = Place(l, k)
    BY <1>5
  <2>2. PICK k \in 0 .. Rows(v, l, m[top]) - 1 : b = Place(l, k)
    BY <2>1
  <2>3. k \in Nat
    OBVIOUS
  <2>4. k \in 0 .. Leaves(v, top - l) - 1 /\ Allocated(v, Address, b)
    BY <1>3, <1>7, <2>2, <2>3
  <2>. QED BY <1>4, <2>2, <2>4
<1>. QED BY <1>8, <1>9

LEMMA HeldIsSum ==
  ASSUME NEW v \in {1, 2}, NEW m, Filled(v, m)
  PROVE  HeldWith(v, m) = (NDADDR + m[1] + m[2] + m[3])
                            + (Meta(v, 1, m[1]) + Meta(v, 2, m[2]) + Meta(v, 3, m[3]))
<1> DEFINE a == m[1]
           b == m[2]
           c == m[3]
           x == Meta(v, 1, m[1])
           y == Meta(v, 2, m[2])
           z == Meta(v, 3, m[3])
<1>1. \A i \in 1 .. 3 : m[i] \in Nat /\ Meta(v, i, m[i]) \in Nat
  <2> TAKE i \in 1 .. 3
  <2>1. i \in 0 .. 3 /\ m[i] \in Nat
    BY DEF Filled
  <2>. QED BY <2>1, MetaFacts
<1>2. /\ a \in Nat /\ b \in Nat /\ c \in Nat /\ x \in Nat /\ y \in Nat /\ z \in Nat
      /\ NDADDR \in Nat
  BY <1>1, GeometryAssumption
<1>3. HeldWith(v, m) = NDADDR + (a + x) + (b + y) + (c + z)
  BY DEF HeldWith, Whole
<1> HIDE DEF a, b, c, x, y, z
<1>4. HeldWith(v, m) = (NDADDR + a + b + c) + (x + y + z)
  BY <1>2, <1>3
<1>. QED BY <1>4 DEF a, b, c, x, y, z

LEMMA DenseIsHeld ==
  ASSUME NEW v \in {1, 2}, NEW Address \in [0 .. Capacity(v) - 1 -> Nat], NEW m, Filled(v, m),
         DataBlocksOf(Address) = 0 .. (NDADDR + m[1] + m[2] + m[3]) - 1
  PROVE  Cardinality(PointerBlocks(v, Address)) = Meta(v, 1, m[1]) + Meta(v, 2, m[2]) + Meta(v, 3, m[3])
<1> DEFINE R(top) == RowsOver(v, top, m[top])
<1>1. \A i \in 1 .. 3 : m[i] \in Nat
  BY DEF Filled
<1>2. \A top \in 1 .. 3 : IsFiniteSet(R(top)) /\ Cardinality(R(top)) = Meta(v, top, m[top])
  BY <1>1, RowsOverCount
<1>3. \A top \in 1 .. 3 : { b \in PlacesBelow(v, top) : Allocated(v, Address, b) } = R(top)
  BY DensePlaces
<1>4. PointerBlocks(v, Address) = (R(1) \cup R(2)) \cup R(3)
  <2> HIDE DEF R
  <2>1. 1 .. 3 = {1, 2, 3}
    OBVIOUS
  <2>2. PointerBlocks(v, Address) = UNION { { b \in PlacesBelow(v, top) : Allocated(v, Address, b) } : top \in 1 .. 3 }
    BY DEF PointerBlocks
  <2>. QED BY <1>3, <2>1, <2>2
<1>5. \A top \in 1 .. 3 : \A b \in R(top) :
        FirstLeaf(v, top) <= b.first /\ b.first < FirstLeaf(v, top) + Leaves(v, top) /\ b.first \in Nat
  <2> TAKE top \in 1 .. 3
  <2> TAKE b \in R(top)
  <2>1. b \in PlacesBelow(v, top)
    BY <1>3
  <2>2. PICK l \in 1 .. top : \E k \in 0 .. Leaves(v, top - l) - 1 :
          b = [layer |-> l, first |-> FirstLeaf(v, top) + k * Leaves(v, l)]
    BY <2>1 DEF PlacesBelow
  <2>3. PICK k \in 0 .. Leaves(v, top - l) - 1 : b.first = FirstLeaf(v, top) + k * Leaves(v, l)
    BY <2>2
  <2>4. FirstLeaf(v, top) \in Nat /\ Leaves(v, l) \in Nat /\ Leaves(v, top - l) \in Nat /\ Leaves(v, top) \in Nat
    <3>1. l \in 0 .. 3 /\ top \in 0 .. 3 /\ top - l \in 0 .. 3
      OBVIOUS
    <3>. QED BY <3>1, Geometry
  <2>5. k \in Nat /\ k < Leaves(v, top - l)
    BY <2>4
  <2>6. k * Leaves(v, l) < Leaves(v, top)
    BY <2>5, PlaceInTree
  <2> DEFINE y == k * Leaves(v, l)
  <2>7. y \in Nat
    BY <2>4, <2>5, Products
  <2>8. y < Leaves(v, top) /\ b.first = FirstLeaf(v, top) + y
    BY <2>3, <2>6
  <2> HIDE DEF y
  <2>. QED BY <2>4, <2>7, <2>8
<1> HIDE DEF R
<1>6. R(1) \cap R(2) = {} /\ (R(1) \cup R(2)) \cap R(3) = {}
  <2>1. /\ FirstLeaf(v, 2) = FirstLeaf(v, 1) + Leaves(v, 1) /\ FirstLeaf(v, 3) = FirstLeaf(v, 2) + Leaves(v, 2)
        /\ FirstLeaf(v, 1) \in Nat /\ Leaves(v, 1) \in Nat /\ Leaves(v, 2) \in Nat
    <3>1. 1 \in 0 .. 3 /\ 2 \in 0 .. 3 /\ 1 \in 1 .. 3
      OBVIOUS
    <3>. QED BY <3>1, Geometry
  <2>2. \A b : b \in R(1) => b.first < FirstLeaf(v, 2) /\ b.first \in Nat
    BY <1>5, <2>1
  <2>3. \A b : b \in R(2) => FirstLeaf(v, 2) <= b.first /\ b.first < FirstLeaf(v, 3) /\ b.first \in Nat
    BY <1>5, <2>1
  <2>4. \A b : b \in R(3) => FirstLeaf(v, 3) <= b.first /\ b.first \in Nat
    BY <1>5, <2>1
  <2>5. R(1) \cap R(2) = {}
    BY <2>1, <2>2, <2>3
  <2>6. \A b : ~ (b \in R(1) /\ b \in R(3)) /\ ~ (b \in R(2) /\ b \in R(3))
    BY <2>1, <2>2, <2>3, <2>4
  <2>. QED BY <2>5, <2>6
<1>7. /\ IsFiniteSet(R(1) \cup R(2))
      /\ Cardinality(R(1) \cup R(2)) = Cardinality(R(1)) + Cardinality(R(2))
  <2>1. IsFiniteSet(R(1)) /\ IsFiniteSet(R(2))
    BY <1>2
  <2>. QED BY <1>6, <2>1, DisjointSum
<1>8. Cardinality((R(1) \cup R(2)) \cup R(3)) = Cardinality(R(1) \cup R(2)) + Cardinality(R(3))
  <2>1. IsFiniteSet(R(3))
    BY <1>2
  <2>. QED BY <1>6, <1>7, <2>1, DisjointSum
<1>9. Cardinality(R(1)) = Meta(v, 1, m[1]) /\ Cardinality(R(2)) = Meta(v, 2, m[2]) /\ Cardinality(R(3)) = Meta(v, 3, m[3])
  BY <1>2
<1>. QED BY <1>4, <1>7, <1>8, <1>9

(* What FFSTotalBlocks and FFSDataBlocks say of a file without holes, whose *)
(* blocks are all below pointers that count right: the one, how many blocks *)
(* the file holds, the other, how many of them are data blocks. *)
THEOREM CountsOfADenseFile ==
  ASSUME NEW v \in {1, 2}, NEW Address \in [0 .. Capacity(v) - 1 -> Nat],
         \A n \in DataBlocksOf(Address) : n = 0 \/ Address[n - 1] # 0,
         NEW top \in 0 .. 3, InAWord(v, top),
         Cardinality(DataBlocksOf(Address)) <= MappedUpTo(v, top)
  PROVE  LET data == Cardinality(DataBlocksOf(Address))
             held == BlocksHeld(v, Address)
         IN  FFSTotalBlocks(v, data) = held /\ FFSDataBlocks(v, held) = data
<1> DEFINE D == DataBlocksOf(Address)
           c == Cardinality(D)
<1>1. D \in SUBSET (0 .. Capacity(v) - 1) /\ D \in SUBSET Nat /\ Capacity(v) \in Nat
  <2>1. D \in SUBSET (0 .. Capacity(v) - 1)
    BY DEF DataBlocksOf
  <2>2. Capacity(v) \in Nat
    BY Geometry
  <2>. QED BY <2>1, <2>2
<1>2. IsFiniteSet(D)
  <2>1. Capacity(v) - 1 \in Int /\ 0 \in Int
    BY <1>1
  <2>2. IsFiniteSet(0 .. Capacity(v) - 1)
    BY <2>1, FS_Interval
  <2>. QED BY <1>1, <2>2, FS_Subset
<1>3. \A n \in D : n = 0 \/ n - 1 \in D
  BY <1>1 DEF DataBlocksOf
<1>4. c \in Nat /\ D = 0 .. c - 1
  <2> HIDE DEF D
  <2>. QED BY <1>1, <1>2, <1>3, FS_CardinalityType, DenseIsInterval
<1>5. BlocksHeld(v, Address) = c + Cardinality(PointerBlocks(v, Address))
  BY DEF BlocksHeld
<1>6. NDADDR \in Nat
  BY GeometryAssumption
<1>7. CASE c <= NDADDR
  <2>1. PointerBlocks(v, Address) = {}
    <3> SUFFICES ASSUME NEW i \in 1 .. 3, NEW b \in PlacesBelow(v, i), Allocated(v, Address, b)
                 PROVE  FALSE
      BY DEF PointerBlocks
    <3>1. PICK l \in 1 .. i : \E k \in 0 .. Leaves(v, i - l) - 1 :
            b = [layer |-> l, first |-> FirstLeaf(v, i) + k * Leaves(v, l)]
      BY DEF PlacesBelow
    <3>2. PICK k \in 0 .. Leaves(v, i - l) - 1 :
            b = [layer |-> l, first |-> FirstLeaf(v, i) + k * Leaves(v, l)]
      BY <3>1
    <3> HIDE DEF c, D
    <3>3. FirstLeaf(v, i) + k * Leaves(v, l) < c
      BY <1>4, <3>2, DenseAllocated DEF c, D
    <3>4. FirstLeaf(v, i) \in Nat /\ FirstLeaf(v, i) >= NDADDR /\ Leaves(v, l) \in Nat
      <4>1. l \in 0 .. 3
        OBVIOUS
      <4>. QED BY <4>1, Geometry
    <3>5. k * Leaves(v, l) \in Nat
      BY <3>4
    <3>. QED BY <1>4, <1>6, <1>7, <3>3, <3>4, <3>5
  <2>2. BlocksHeld(v, Address) = c
    <3>1. Cardinality(PointerBlocks(v, Address)) = 0
      BY <2>1, FS_EmptySet
    <3> HIDE DEF c
    <3>. QED BY <1>4, <1>5, <3>1
  <2>. QED BY <1>7, <2>2 DEF FFSTotalBlocks, FFSDataBlocks
<1>8. CASE c > NDADDR
  <2> HIDE DEF c, D
  <2>1. PICK m : Filled(v, m) /\ c = NDADDR + m[1] + m[2] + m[3]
    <3>1. NDADDR < c /\ c <= MappedUpTo(v, top)
      BY <1>4, <1>6, <1>8 DEF c, D
    <3>. QED BY <1>4, <3>1, FilledUpTo
  <2>2. Cardinality(PointerBlocks(v, Address)) = Meta(v, 1, m[1]) + Meta(v, 2, m[2]) + Meta(v, 3, m[3])
    BY <1>4, <2>1, DenseIsHeld DEF D
  <2>5. BlocksHeld(v, Address) = HeldWith(v, m)
    BY <1>5, <2>1, <2>2, HeldIsSum
  <2>6. FFSTotalBlocks(v, c) = HeldWith(v, m) /\ FFSDataBlocks(v, HeldWith(v, m)) = c
    BY <2>1, TotalBlocksAreHeld, DataBlocksAreMapped
  <2>. QED BY <2>5, <2>6 DEF c, D
<1>. QED BY <1>4, <1>6, <1>7, <1>8
=============================================================================
