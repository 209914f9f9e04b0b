-------------------------- MODULE FFSReadInodeProofs --------------------------
(***************************************************************************)
(* A read of any range, of any file on any geometry, describes each byte   *)
(* of the range once, and takes it from where the file has it on disk.     *)
(***************************************************************************)
EXTENDS FFSReadInode, FFSBlockMapProofs

ExtentRecord == [Lba : Nat, Offset : Nat, Length : Nat \ {0}]

-----------------------------------------------------------------------------
(* The inductive invariant *)

Typed ==
  /\ file \in Files /\ di_blocks \in Nat
  /\ pc \in {"idle", "building", "built", "answered"} /\ end \in Reasons
  /\ Offset \in Nat /\ Size \in Nat /\ i \in Nat /\ dwBytes \in Nat
  /\ ffsbdl \in Seq(ExtentRecord)
  /\ answer \in [success : BOOLEAN, dwRet : {0, Size}]

(* Before block i, what was described ends where the block starts. *)
Described_Before ==
  IF i = nBeg THEN dwBytes = 0 /\ ffsbdl = <<>>
  ELSE /\ ffsbdl # <<>>
       /\ IF i = nEnd THEN dwBytes = Size ELSE Offset + dwBytes = i * BlockSize

Building ==
  pc = "building" => /\ Size > 0 /\ i \in nBeg .. nEnd
                     /\ end = "none" /\ answer = NoAnswer
                     /\ Described_Before

Fresh ==
  pc = "idle" => dwBytes = 0 /\ ffsbdl = <<>> /\ end = "none" /\ answer = NoAnswer

Bounded == dwBytes <= Size /\ (end = "complete" => dwBytes = Size)

(* Extents that follow each other in the buffer, up to a length. *)
Chained(s, length) ==
  /\ s # <<>> => s[1].Offset = 0
  /\ \A k \in DOMAIN s \ {1} : s[k].Offset = s[k - 1].Offset + s[k - 1].Length
  /\ length = IF s = <<>> THEN 0 ELSE s[Len(s)].Offset + s[Len(s)].Length

IInv == Typed /\ Fresh /\ Building /\ Bounded /\ Chained(ffsbdl, dwBytes)

-----------------------------------------------------------------------------
(* Sequences of extents *)

LEMMA ChainsAppend ==
  ASSUME NEW s \in Seq(ExtentRecord), NEW length \in Nat, Chained(s, length),
         NEW e \in ExtentRecord, e.Offset = length
  PROVE  /\ Append(s, e) \in Seq(ExtentRecord) /\ Append(s, e) # <<>>
         /\ Chained(Append(s, e), length + e.Length)
<1> DEFINE t == Append(s, e)
<1>1. /\ t \in Seq(ExtentRecord) /\ t # <<>> /\ Len(t) = Len(s) + 1 /\ Len(s) \in Nat
      /\ t[Len(t)] = e /\ \A k \in 1 .. Len(s) : t[k] = s[k]
      /\ DOMAIN t = 1 .. Len(s) + 1 /\ DOMAIN s = 1 .. Len(s)
  <2>1. t \in Seq(ExtentRecord) /\ Len(t) = Len(s) + 1 /\ Len(s) \in Nat
    OBVIOUS
  <2>2. t[Len(s) + 1] = e /\ \A k \in 1 .. Len(s) : t[k] = s[k]
    OBVIOUS
  <2>3. DOMAIN t = 1 .. Len(t) /\ DOMAIN s = 1 .. Len(s)
    BY <2>1
  <2> HIDE DEF t
  <2>4. t # <<>>
    BY <2>1
  <2>. QED BY <2>1, <2>2, <2>3, <2>4
<1> HIDE DEF t
<1>2. CASE s = <<>>
  <2>1. Len(s) = 0 /\ t[1] = e /\ DOMAIN t \ {1} = {} /\ length = 0
    BY <1>1, <1>2 DEF Chained
  <2>. QED BY <1>1, <2>1 DEF Chained, t, ExtentRecord
<1>3. CASE s # <<>>
  <2>1. Len(s) > 0 /\ s[Len(s)] \in ExtentRecord
    BY <1>1, <1>3
  <2>2. t[1].Offset = 0
    BY <1>1, <1>3, <2>1 DEF Chained
  <2>3. ASSUME NEW k \in DOMAIN t \ {1}
        PROVE  t[k].Offset = t[k - 1].Offset + t[k - 1].Length
    <3>1. k \in 2 .. Len(s) + 1 /\ k - 1 \in 1 .. Len(s)
      BY <1>1
    <3>2. t[k - 1] = s[k - 1]
      BY <1>1, <3>1
    <3>3. CASE k = Len(s) + 1
      <4>1. t[k] = e /\ k - 1 = Len(s)
        BY <1>1, <3>3
      <4>. QED BY <1>3, <3>2, <4>1 DEF Chained
    <3>4. CASE k # Len(s) + 1
      <4>1. k \in DOMAIN s \ {1} /\ t[k] = s[k]
        BY <1>1, <3>1, <3>4
      <4>. QED BY <3>2, <4>1 DEF Chained
    <3>. QED BY <3>3, <3>4
  <2>. QED BY <1>1, <2>2, <2>3 DEF Chained, t
<1>. QED BY <1>1, <1>2, <1>3 DEF t

Grown(s, more) == [s EXCEPT ![Len(s)].Length = @ + more]

LEMMA ChainsGrow ==
  ASSUME NEW s \in Seq(ExtentRecord), s # <<>>, NEW length \in Nat, Chained(s, length),
         NEW more \in Nat
  PROVE  LET t == Grown(s, more) IN
         /\ t \in Seq(ExtentRecord) /\ t # <<>> /\ Chained(t, length + more)
         /\ DOMAIN t = DOMAIN s /\ \A k \in DOMAIN s \ {Len(s)} : t[k] = s[k]
         /\ t[Len(s)].Lba = s[Len(s)].Lba /\ t[Len(s)].Offset = s[Len(s)].Offset
         /\ t[Len(s)].Length = s[Len(s)].Length + more
<1> DEFINE t == Grown(s, more)
           n == Len(s)
           e == [s[n] EXCEPT !.Length = s[n].Length + more]
<1>1. n \in Nat /\ n > 0 /\ n \in DOMAIN s /\ DOMAIN s = 1 .. n
      /\ \A k \in DOMAIN s : s[k] \in ExtentRecord
  OBVIOUS
<1>2. e \in ExtentRecord /\ e.Lba = s[n].Lba /\ e.Offset = s[n].Offset
      /\ e.Length = s[n].Length + more
  <2>1. s[n] \in ExtentRecord
    BY <1>1
  <2>2. s[n].Length + more \in Nat \ {0}
    BY <2>1 DEF ExtentRecord
  <2>. QED BY <2>1, <2>2 DEF ExtentRecord
<1>3. t = [s EXCEPT ![n] = e]
  BY DEF Grown
<1> HIDE DEF e, t
<1>4. t \in Seq(ExtentRecord) /\ DOMAIN t = DOMAIN s /\ Len(t) = n /\ t # <<>>
      /\ t[n] = e /\ \A k \in DOMAIN s \ {n} : t[k] = s[k]
  BY <1>1, <1>2, <1>3
<1> HIDE DEF n
<1>5. \A k \in DOMAIN s : t[k].Offset = s[k].Offset
  BY <1>2, <1>4
<1>6. t[1].Offset = 0
  BY <1>1, <1>5 DEF Chained
<1>7. ASSUME NEW k \in DOMAIN t \ {1}
      PROVE  t[k].Offset = t[k - 1].Offset + t[k - 1].Length
  <2>1. k \in DOMAIN s \ {1} /\ k - 1 \in DOMAIN s \ {n} /\ k \in DOMAIN s
    BY <1>1, <1>4
  <2>2. t[k - 1] = s[k - 1] /\ t[k].Offset = s[k].Offset
    BY <1>4, <1>5, <2>1
  <2>. QED BY <2>1, <2>2 DEF Chained
<1>8. length + more = t[n].Offset + t[n].Length
  <2>1. length = s[n].Offset + s[n].Length
    BY DEF Chained, n
  <2>2. s[n].Offset \in Nat /\ s[n].Length \in Nat
    BY <1>1 DEF ExtentRecord
  <2>. QED BY <1>2, <1>4, <2>1, <2>2
<1>. QED BY <1>2, <1>4, <1>6, <1>7, <1>8 DEF Chained, n, t

-----------------------------------------------------------------------------
(* The blocks of the range *)

LEMMA FileTypes ==
  ASSUME file \in Files
  PROVE  /\ file.FSVersion \in {1, 2} /\ file.FSOffset \in Nat
         /\ file.Address \in [0 .. Capacity(file.FSVersion) - 1 -> Nat]
BY ReadAssumption

LEMMA AllocSizeType ==
  ASSUME Typed
  PROVE  AllocSize \in Nat
<1>1. FFSDataBlocks(file.FSVersion, di_blocks) \in Nat
  BY FileTypes, DataBlocksType DEF Typed
<1>. QED BY <1>1, PowerAssumption DEF AllocSize

LEMMA AddressTypes ==
  ASSUME Typed, NEW dwBlk \in dwBlks
  PROVE  dwBlk \in Nat /\ LbaOf(dwBlk) \in Nat
<1> DEFINE v == file.FSVersion
           p == Mapped.pointer
<1>1. v \in {1, 2} /\ file.FSOffset \in Nat /\ file.Address \in [0 .. Capacity(v) - 1 -> Nat]
      /\ i \in Nat /\ di_blocks \in Nat
  BY FileTypes DEF Typed
<1>2. p \in DataPointers(v)
  BY <1>1, BlockMapStays DEF Mapped
<1> HIDE DEF p
<1>3. \A n \in 0 .. Capacity(v) - 1 : DirectPointer(n).first = n
  BY DEF DirectPointer
<1>4. AddressesOf(p) \subseteq Nat
  <2>1. CASE p = Stray
    BY <2>1 DEF AddressesOf, StrayAddresses
  <2>2. CASE p # Stray
    <3>1. p.first \in 0 .. Capacity(v) - 1
      BY <1>2, <1>3, <2>2 DEF DataPointers
    <3>. QED BY <1>1, <2>2, <3>1 DEF AddressesOf
  <2>. QED BY <2>1, <2>2
<1>5. dwBlk \in Nat
  BY <1>4 DEF dwBlks, p
<1>6. dwBlk * FragmentSize \in Nat
  BY <1>5, ReadAssumption
<1>. QED BY <1>1, <1>5, <1>6 DEF LbaOf

(* The blocks of a range of s bytes from o. *)
FirstOf(o) == o \div BlockSize
EndOf(o, s) == (s + o + BlockSize - 1) \div BlockSize

LEMMA Blocks ==
  ASSUME NEW o \in Nat, NEW s \in Nat, s > 0
  PROVE  /\ FirstOf(o) \in Nat /\ EndOf(o, s) \in Nat /\ FirstOf(o) < EndOf(o, s)
         /\ o % BlockSize \in 0 .. BlockSize - 1
         /\ o = FirstOf(o) * BlockSize + (o % BlockSize)
         /\ (EndOf(o, s) - 1) * BlockSize < o + s /\ o + s <= EndOf(o, s) * BlockSize
<1> DEFINE B == BlockSize
           x == s + o + B - 1
           first == FirstOf(o)
           after == EndOf(o, s)
<1>1. B \in Nat \ {0}
  BY PowerAssumption
<1> HIDE DEF B
<1>2. /\ first \in Nat /\ o % B \in 0 .. B - 1 /\ o = first * B + (o % B)
  BY <1>1, Division DEF FirstOf, B
<1>3. x \in Nat
  BY <1>1
<1>4. after = x \div B
  BY DEF EndOf, B
<1> HIDE DEF x, first, after
<1>5. x \div B \in Nat /\ x % B \in 0 .. B - 1 /\ x = (x \div B) * B + (x % B)
  BY <1>1, <1>3, Division
<1>6. after \in Nat /\ after * B \in Nat /\ after * B <= x /\ x < after * B + B
  <2>1. after \in Nat /\ x = after * B + (x % B)
    BY <1>4, <1>5
  <2>2. after * B \in Nat
    BY <1>1, <2>1
  <2>. QED BY <1>1, <1>3, <1>5, <2>1, <2>2
<1>7. o + s <= after * B /\ after * B - B < o + s
  BY <1>1, <1>6 DEF x
<1>8. (after - 1) * B = after * B - B
  BY <1>1, <1>6
<1>9. first < after
  <2>1. SUFFICES ASSUME after <= first PROVE FALSE
    BY <1>2, <1>6
  <2>2. after * B <= first * B
    <3>1. first = after + (first - after) /\ first - after \in Nat
      BY <1>2, <1>6, <2>1
    <3>2. first * B = after * B + (first - after) * B /\ (first - after) * B \in Nat
      BY <1>1, <1>6, <3>1
    <3>. QED BY <1>6, <3>2
  <2>3. first * B \in Nat
    BY <1>1, <1>2
  <2>. QED BY <1>1, <1>2, <1>6, <1>7, <2>2, <2>3
<1>. QED BY <1>2, <1>6, <1>7, <1>8, <1>9 DEF B, first, after

LEMMA RangeInBlocks ==
  ASSUME Offset \in Nat, Size \in Nat, Size > 0
  PROVE  /\ nBeg \in Nat /\ nEnd \in Nat /\ nBeg < nEnd
         /\ Offset % BlockSize \in 0 .. BlockSize - 1
         /\ Offset = nBeg * BlockSize + (Offset % BlockSize)
         /\ (nEnd - 1) * BlockSize < Offset + Size /\ Offset + Size <= nEnd * BlockSize
<1>1. nBeg = FirstOf(Offset) /\ nEnd = EndOf(Offset, Size)
  BY DEF nBeg, nEnd, FirstOf, EndOf
<1>. QED BY <1>1, Blocks

(* The part of block i that is in the range: where it starts in the block, *)
(* and its length. *)
PieceStart == IF i = nBeg THEN Offset % BlockSize ELSE 0
PieceLength ==
  IF i = nBeg THEN FirstLength ELSE IF i = nEnd - 1 THEN Size - dwBytes ELSE BlockSize

LEMMA PieceFits ==
  ASSUME IInv, InBlock
  PROVE  /\ PieceStart \in Nat /\ PieceLength \in Nat \ {0}
         /\ PieceStart + PieceLength <= BlockSize
         /\ Offset + dwBytes = i * BlockSize + PieceStart
         /\ dwBytes + PieceLength <= Size
         /\ i + 1 \in nBeg .. nEnd /\ i + 1 # nBeg
         /\ IF i + 1 = nEnd THEN dwBytes + PieceLength = Size
            ELSE Offset + (dwBytes + PieceLength) = (i + 1) * BlockSize
<1> DEFINE B == BlockSize
           r == Offset % B
<1>1. /\ Offset \in Nat /\ Size \in Nat /\ Size > 0 /\ i \in Nat /\ dwBytes \in Nat
      /\ i \in nBeg .. nEnd /\ i < nEnd /\ Described_Before
  BY DEF IInv, Typed, Building, InBlock
<1>2. /\ nBeg \in Nat /\ nEnd \in Nat /\ nBeg < nEnd /\ r \in 0 .. B - 1 /\ Offset = nBeg * B + r
      /\ (nEnd - 1) * B < Offset + Size /\ Offset + Size <= nEnd * B
  BY <1>1, RangeInBlocks
<1>3. B \in Nat /\ B > 0
  BY PowerAssumption
<1>4. i * B \in Nat /\ (i + 1) * B = i * B + B /\ nBeg * B \in Nat /\ nEnd * B \in Nat
      /\ (nEnd - 1) * B \in Nat
  BY <1>1, <1>2, <1>3
<1>5. i + 1 < nEnd => (i + 1) * B <= (nEnd - 1) * B
  <2>1. SUFFICES ASSUME i + 1 < nEnd PROVE (i + 1) * B <= (nEnd - 1) * B
    OBVIOUS
  <2>2. nEnd - 1 = (i + 1) + (nEnd - 1 - (i + 1)) /\ nEnd - 1 - (i + 1) \in Nat /\ i + 1 \in Nat
    BY <1>1, <1>2, <2>1
  <2>3. (nEnd - 1) * B = (i + 1) * B + (nEnd - 1 - (i + 1)) * B /\ (nEnd - 1 - (i + 1)) * B \in Nat
    BY <1>3, <2>2
  <2>. QED BY <1>3, <1>4, <2>3
<1>6. i + 1 \in nBeg .. nEnd /\ i + 1 # nBeg
  BY <1>1, <1>2
<1>7. CASE i = nBeg
  <2>1. dwBytes = 0 /\ PieceStart = r
    BY <1>1, <1>7 DEF Described_Before, PieceStart
  <2>2. CASE OneBlock
    <3>1. i + 1 = nEnd /\ PieceLength = Size
      BY <1>1, <1>2, <1>7, <2>2 DEF OneBlock, PieceLength, FirstLength
    <3> HIDE DEF r, B
    <3>2. i * B + B = nEnd * B
      BY <1>4, <3>1
    <3>. QED BY <1>1, <1>2, <1>3, <1>4, <1>6, <1>7, <2>1, <3>1, <3>2 DEF B
  <2>3. CASE ~ OneBlock
    <3>1. i + 1 # nEnd /\ i + 1 < nEnd /\ PieceLength = B - r
      BY <1>1, <1>2, <1>7, <2>3 DEF OneBlock, PieceLength, FirstLength
    <3> HIDE DEF r, B
    <3>. QED BY <1>1, <1>2, <1>3, <1>4, <1>5, <1>6, <1>7, <2>1, <3>1 DEF B
  <2>. QED BY <2>2, <2>3
<1>8. CASE i # nBeg
  <2>1. Offset + dwBytes = i * B /\ PieceStart = 0
    BY <1>1, <1>8 DEF Described_Before, PieceStart
  <2>2. CASE i = nEnd - 1
    <3>1. i + 1 = nEnd /\ PieceLength = Size - dwBytes /\ (nEnd - 1) * B = i * B
      BY <1>1, <1>2, <1>8, <2>2 DEF PieceLength
    <3> HIDE DEF B
    <3>2. i * B + B = nEnd * B
      BY <1>4, <3>1
    <3>. QED BY <1>1, <1>2, <1>3, <1>4, <1>6, <2>1, <3>1, <3>2 DEF B
  <2>3. CASE i # nEnd - 1
    <3>1. i + 1 # nEnd /\ i + 1 < nEnd /\ PieceLength = B
      BY <1>1, <1>2, <1>8, <2>3 DEF PieceLength
    <3> HIDE DEF B
    <3>. QED BY <1>1, <1>2, <1>3, <1>4, <1>5, <1>6, <2>1, <3>1 DEF B
  <2>. QED BY <2>2, <2>3
<1>. QED BY <1>7, <1>8

-----------------------------------------------------------------------------
(* Every step keeps the invariant *)

LEMMA InitEstablishes == Init => IInv
<1> SUFFICES ASSUME Init PROVE IInv
  OBVIOUS
<1>1. file \in Files /\ pc = "idle" /\ end = "none" /\ Offset = 0 /\ Size = 0 /\ i = 0
      /\ dwBytes = 0 /\ ffsbdl = <<>> /\ answer = NoAnswer
  BY DEF Init
<1>2. di_blocks \in Nat
  <2>1. BlocksHeld(file.FSVersion, file.Address) \in Nat
    BY <1>1, FileTypes, BlocksHeldType
  <2>. QED BY <2>1, ReadAssumption DEF Init
<1>3. Typed
  BY <1>1, <1>2 DEF Typed, Reasons, NoAnswer, Answer
<1>4. Fresh /\ Building /\ Bounded
  BY <1>1 DEF Fresh, Building, Bounded
<1>5. Chained(ffsbdl, dwBytes)
  BY <1>1 DEF Chained
<1>. QED BY <1>3, <1>4, <1>5 DEF IInv

LEMMA ClipKeeps ==
  ASSUME IInv, NEW o \in Offsets, NEW s \in Sizes, Clip(o, s)
  PROVE  Offset' \in Nat /\ Size' \in Nat /\ Size' > 0 /\ Offset' = o
<1>1. o \in Nat /\ s \in Nat /\ s > 0 /\ AllocSize \in Nat
  BY ReadAssumption, AllocSizeType DEF IInv
<1>. QED BY <1>1 DEF Clip

LEMMA RangeSteps ==
  ASSUME IInv, NEW o \in Offsets, NEW s \in Sizes,
         BeyondEnd(o, s) \/ StartBDL(o, s) \/ NoMemory(o, s)
  PROVE  IInv'
<1>1. o \in Nat /\ s \in Nat /\ s > 0
  BY ReadAssumption
<1>2. Typed /\ pc = "idle" /\ dwBytes = 0 /\ ffsbdl = <<>> /\ end = "none" /\ answer = NoAnswer
  BY DEF IInv, Fresh, BeyondEnd, StartBDL, NoMemory, Clip
<1>3. /\ UNCHANGED <<file, di_blocks, dwBytes, ffsbdl, answer>>
      /\ Offset' \in Nat /\ Size' \in Nat
  BY <1>1, ClipKeeps DEF BeyondEnd, StartBDL, NoMemory, inode
<1>4. i' \in Nat /\ end' \in Reasons /\ end' # "complete" /\ pc' \in {"building", "built"}
  <2>1. CASE BeyondEnd(o, s) \/ NoMemory(o, s)
    BY <1>2, <2>1 DEF BeyondEnd, NoMemory, Reasons, Typed
  <2>2. CASE StartBDL(o, s)
    <3>1. o \div BlockSize \in Nat
      BY <1>1, Blocks DEF FirstOf
    <3>. QED BY <1>2, <2>2, <3>1 DEF StartBDL, Reasons
  <2>. QED BY <2>1, <2>2
<1>5. Typed'
  BY <1>2, <1>3, <1>4 DEF Typed, NoAnswer, Answer
<1>6. Fresh' /\ Bounded'
  BY <1>2, <1>3, <1>4 DEF Fresh, Bounded
<1>7. Building'
  <2>1. CASE StartBDL(o, s)
    <3>1. Size' > 0 /\ Offset' = o /\ i' = o \div BlockSize /\ end' = "none"
      BY <1>2, <2>1, ClipKeeps DEF StartBDL
    <3>2. i' = nBeg'
      BY <3>1 DEF nBeg
    <3>3. nBeg' \in Nat /\ nEnd' \in Nat /\ nBeg' < nEnd'
      <4>1. nBeg' = FirstOf(Offset') /\ nEnd' = EndOf(Offset', Size')
        BY DEF nBeg, nEnd, FirstOf, EndOf
      <4>. QED BY <1>3, <3>1, <4>1, Blocks
    <3>. QED BY <1>2, <1>3, <3>1, <3>2, <3>3 DEF Building, Described_Before
  <2>2. CASE ~ StartBDL(o, s)
    BY <2>2 DEF BeyondEnd, NoMemory, Building
  <2>. QED BY <2>1, <2>2
<1>8. Chained(ffsbdl, dwBytes)' 
  BY <1>3 DEF IInv, Chained
<1>. QED BY <1>5, <1>6, <1>7, <1>8 DEF IInv

LEMMA DescribedChains ==
  ASSUME IInv, ffsbdl # <<>>, NEW lba \in Nat, NEW length \in Nat \ {0}
  PROVE  LET t == Described(lba, length)
         IN t \in Seq(ExtentRecord) /\ t # <<>> /\ Chained(t, dwBytes + length)
<1> DEFINE last == ffsbdl[Len(ffsbdl)]
           grown == [ffsbdl EXCEPT ![Len(ffsbdl)].Length = @ + length]
<1>1. ffsbdl \in Seq(ExtentRecord) /\ dwBytes \in Nat /\ Chained(ffsbdl, dwBytes)
  BY DEF IInv, Typed
<1>2. CASE last.Lba + last.Length = lba
  <2>1. Described(lba, length) = grown
    BY <1>2 DEF Described
  <2> HIDE DEF grown
  <2>2. grown = Grown(ffsbdl, length) /\ length \in Nat
    BY DEF grown, Grown
  <2>3. grown \in Seq(ExtentRecord) /\ grown # <<>> /\ Chained(grown, dwBytes + length)
    BY <1>1, <2>2, ChainsGrow
  <2>. QED BY <2>1, <2>3
<1>3. CASE last.Lba + last.Length # lba
  <2> DEFINE e == Extent(lba, dwBytes, length)
  <2>1. Described(lba, length) = Append(ffsbdl, e)
    BY <1>3 DEF Described
  <2>2. e \in ExtentRecord /\ e.Offset = dwBytes /\ e.Length = length
    BY <1>1 DEF Extent, ExtentRecord
  <2> HIDE DEF e
  <2>. QED BY <1>1, <2>1, <2>2, ChainsAppend
<1>. QED BY <1>2, <1>3

LEMMA PieceDone ==
  ASSUME IInv, InBlock, NEW length, length = PieceLength,
         ffsbdl' \in Seq(ExtentRecord), ffsbdl' # <<>>, Chained(ffsbdl', dwBytes + length),
         dwBytes' = dwBytes + length, i' = i + 1,
         UNCHANGED <<inode, pc, Offset, Size, end, answer>>
  PROVE  IInv'
<1>1. /\ length \in Nat \ {0} /\ dwBytes + length <= Size /\ i + 1 \in nBeg .. nEnd /\ i + 1 # nBeg
      /\ IF i + 1 = nEnd THEN dwBytes + length = Size
         ELSE Offset + (dwBytes + length) = (i + 1) * BlockSize
  BY PieceFits
<1>2. Typed /\ pc = "building" /\ Size > 0 /\ end = "none" /\ answer = NoAnswer
  BY DEF IInv, Building, InBlock
<1>3. nBeg' = nBeg /\ nEnd' = nEnd
  BY DEF nBeg, nEnd
<1>4. Typed'
  BY <1>1, <1>2 DEF Typed, inode
<1>5. Building'
  BY <1>1, <1>2, <1>3 DEF Building, Described_Before
<1>6. Fresh' /\ Bounded'
  BY <1>1, <1>2 DEF Fresh, Bounded
<1>7. Chained(ffsbdl, dwBytes)'
  <2>1. Chained(ffsbdl', dwBytes')
    OBVIOUS
  <2>. QED BY <2>1 DEF Chained
<1>. QED BY <1>4, <1>5, <1>6, <1>7 DEF IInv

LEMMA FirstBlockStep ==
  ASSUME IInv, FirstBlock
  PROVE  IInv'
<1>1. InBlock /\ i = nBeg /\ dwBytes = 0 /\ ffsbdl = <<>> /\ Typed
  BY DEF IInv, Building, Described_Before, FirstBlock, InBlock
<1>2. PICK dwBlk \in dwBlks \ {0} :
        ffsbdl' = Append(ffsbdl, Extent(LbaOf(dwBlk) + (Offset % BlockSize), 0, FirstLength))
  BY DEF FirstBlock
<1> DEFINE e == Extent(LbaOf(dwBlk) + (Offset % BlockSize), 0, FirstLength)
<1>3. PieceLength = FirstLength /\ PieceStart = Offset % BlockSize
  BY <1>1 DEF PieceLength, PieceStart
<1>4. FirstLength \in Nat \ {0} /\ Offset % BlockSize \in Nat
  BY <1>1, <1>3, PieceFits
<1>5. LbaOf(dwBlk) \in Nat
  BY <1>1, AddressTypes
<1>6. e \in ExtentRecord /\ e.Offset = dwBytes /\ e.Length = FirstLength
  BY <1>1, <1>4, <1>5 DEF Extent, ExtentRecord
<1>7. ffsbdl' = Append(ffsbdl, e)
  BY <1>2
<1> HIDE DEF e
<1>8. ffsbdl' \in Seq(ExtentRecord) /\ ffsbdl' # <<>> /\ Chained(ffsbdl', dwBytes + FirstLength)
  BY <1>1, <1>6, <1>7, ChainsAppend DEF IInv, Typed
<1>9. /\ dwBytes' = dwBytes + FirstLength /\ i' = i + 1
      /\ UNCHANGED <<inode, pc, Offset, Size, end, answer>>
  BY <1>1, <1>4 DEF FirstBlock
<1>. QED BY <1>1, <1>3, <1>8, <1>9, PieceDone

LEMMA FollowingBlockStep ==
  ASSUME IInv, MiddleBlock \/ LastBlock
  PROVE  IInv'
<1>1. /\ InBlock /\ i # nBeg /\ ffsbdl # <<>> /\ Typed /\ i' = i + 1
      /\ UNCHANGED <<inode, pc, Offset, Size, end, answer>>
  BY DEF IInv, Building, Described_Before, MiddleBlock, LastBlock, InBlock
<1>2. PieceLength \in Nat \ {0} /\ dwBytes \in Nat /\ Size \in Nat
  BY <1>1, PieceFits DEF Typed
<1>3. PICK dwBlk \in dwBlks \ {0} : ffsbdl' = Described(LbaOf(dwBlk), PieceLength)
  BY <1>1 DEF MiddleBlock, LastBlock, PieceLength
<1>4. dwBytes' = dwBytes + PieceLength
  BY <1>1, <1>2 DEF MiddleBlock, LastBlock, PieceLength
<1>5. LbaOf(dwBlk) \in Nat
  BY <1>1, AddressTypes
<1>6. ffsbdl' \in Seq(ExtentRecord) /\ ffsbdl' # <<>> /\ Chained(ffsbdl', dwBytes + PieceLength)
  BY <1>1, <1>2, <1>3, <1>5, DescribedChains
<1>. QED BY <1>1, <1>4, <1>6, PieceDone

LEMMA EndStep ==
  ASSUME IInv, NoBlock \/ PointersUnread \/ AllBlocks
  PROVE  IInv'
<1>1. /\ pc = "building" /\ pc' = "built" /\ end' \in Reasons
      /\ UNCHANGED <<file, di_blocks, Offset, Size, i, dwBytes, ffsbdl, answer>>
  BY DEF NoBlock, PointersUnread, AllBlocks, EndBDL, InBlock, Reasons, inode
<1>2. end' = "complete" => dwBytes = Size
  <2>1. end' = "complete" => i = nEnd
    BY DEF NoBlock, PointersUnread, AllBlocks, EndBDL
  <2>2. nBeg < nEnd /\ nBeg \in Nat /\ nEnd \in Nat
    BY <1>1, RangeInBlocks DEF IInv, Typed, Building
  <2>. QED BY <1>1, <2>1, <2>2 DEF IInv, Building, Described_Before
<1>3. Typed'
  BY <1>1 DEF IInv, Typed
<1>4. Fresh' /\ Building' /\ Bounded'
  BY <1>1, <1>2 DEF IInv, Fresh, Building, Bounded
<1>5. Chained(ffsbdl, dwBytes)'
  BY <1>1 DEF IInv, Chained
<1>. QED BY <1>3, <1>4, <1>5 DEF IInv

LEMMA AnswerSteps ==
  ASSUME IInv, ReadExtents \/ Return
  PROVE  IInv'
<1>1. CASE ReadExtents
  <2>1. /\ pc = "built" /\ pc' = "answered"
        /\ UNCHANGED <<file, di_blocks, Offset, Size, i, dwBytes, ffsbdl, end>>
    BY <1>1 DEF ReadExtents, inode
  <2>2. answer' \in {Answer(TRUE, 0), NoAnswer, Answer(TRUE, Size)}
    BY <1>1 DEF ReadExtents
  <2>3. Typed'
    <3>1. answer' \in [success : BOOLEAN, dwRet : {0, Size}]
      <4>1. /\ Answer(TRUE, 0) \in [success : BOOLEAN, dwRet : {0, Size}]
            /\ Answer(TRUE, Size) \in [success : BOOLEAN, dwRet : {0, Size}]
        BY DEF Answer
      <4>2. NoAnswer \in [success : BOOLEAN, dwRet : {0, Size}]
        BY DEF NoAnswer, Answer
      <4>. QED BY <2>2, <4>1, <4>2
    <3>. QED BY <2>1, <3>1 DEF IInv, Typed
  <2>4. Fresh' /\ Building' /\ Bounded'
    BY <2>1 DEF IInv, Fresh, Building, Bounded
  <2>5. Chained(ffsbdl, dwBytes)'
    BY <2>1 DEF IInv, Chained
  <2>. QED BY <2>3, <2>4, <2>5 DEF IInv
<1>2. CASE Return
  <2>1. /\ pc' = "idle" /\ end' = "none" /\ Offset' = 0 /\ Size' = 0 /\ i' = 0 /\ dwBytes' = 0
        /\ ffsbdl' = <<>> /\ answer' = NoAnswer /\ UNCHANGED <<file, di_blocks>>
    BY <1>2 DEF Return, inode
  <2>2. Typed'
    BY <2>1 DEF IInv, Typed, Answer, NoAnswer, Reasons
  <2>3. Fresh' /\ Building' /\ Bounded'
    BY <2>1 DEF Fresh, Building, Bounded
  <2>4. Chained(ffsbdl, dwBytes)'
    BY <2>1 DEF Chained
  <2>. QED BY <2>2, <2>3, <2>4 DEF IInv
<1>. QED BY <1>1, <1>2

LEMMA StepKeeps ==
  ASSUME IInv, [Next]_vars
  PROVE  IInv'
<1>1. CASE UNCHANGED vars
  BY <1>1 DEF vars, IInv, Typed, Fresh, Building, Described_Before, Bounded, Chained, nBeg, nEnd
<1>2. CASE Next
  BY <1>2, RangeSteps, FirstBlockStep, FollowingBlockStep, EndStep, AnswerSteps DEF Next
<1>. QED BY <1>1, <1>2

(* IInv is inductive. *)
THEOREM Invariance == Spec => []IInv
<1>1. IInv /\ [Next]_vars => IInv'
  BY StepKeeps
<1>. QED BY <1>1, InitEstablishes, PTL DEF Spec

(* No more bytes are described, or said to be read, than the range has, and *)
(* no extent is empty. *)
THEOREM TypeCorrect == Spec => []TypeOK
<1>1. ASSUME IInv PROVE TypeOK
  <2>1. Typed /\ dwBytes <= Size
    BY <1>1 DEF IInv, Bounded
  <2>2. dwBytes \in 0 .. Size /\ answer \in [success : BOOLEAN, dwRet : 0 .. Size]
    <3>1. dwBytes \in 0 .. Size /\ {0, Size} \subseteq 0 .. Size
      BY <2>1 DEF Typed
    <3>. QED BY <2>1, <3>1 DEF Typed
  <2>3. \A k \in DOMAIN ffsbdl : ffsbdl[k] \in ExtentRecord
    BY <2>1 DEF Typed
  <2>. QED BY <2>1, <2>2, <2>3 DEF TypeOK, Typed, ExtentRecord
<1>. QED BY <1>1, Invariance, PTL

(* The extents that FFSv*BuildBDL makes of any range of any file fill the  *)
(* buffer from its start, without a gap or an overlap. *)
THEOREM FillsTheBuffer == Spec => []BdlIsContiguous
<1>1. ASSUME IInv PROVE BdlIsContiguous
  BY <1>1 DEF IInv, Bounded, Chained, BdlIsContiguous, Total
<1>. QED BY <1>1, Invariance, PTL

-----------------------------------------------------------------------------
(* The bytes that the extents are read from *)

(* A file that the walk can find all the blocks of: a UFS1 file is on a     *)
(* volume that starts the disk; the layers up to its last block are         *)
(* walkable; and it has no hole as large as what a block of pointers maps.  *)
ReadableFile(f) ==
  LET v == f.FSVersion IN
  /\ v = 1 => f.FSOffset = 0
  /\ \A layer \in 0 .. 3 : \A n \in MappedBy(v, layer) :
       (\E last \in DataBlocksOf(f.Address) : n <= last) =>
         /\ Walkable(v, layer)
         /\ \A b \in PlacesBelow(v, layer) : Over(v, b, n) => Allocated(v, f.Address, b)

(* The walk of a block gives the address FFS gave it. *)
LEMMA WalkOfFile ==
  ASSUME Typed, ReadableFile(file), OfTheFile(i), Mapped # NotMapped
  PROVE  dwBlks = {file.Address[i]}
<1> DEFINE v == file.FSVersion
           A == file.Address
<1>1. v \in {1, 2} /\ A \in [0 .. Capacity(v) - 1 -> Nat] /\ Capacity(v) \in Nat /\ i \in Nat
  BY FileTypes, Geometry DEF Typed
<1>2. i \in 0 .. Capacity(v) - 1
  BY <1>1 DEF OfTheFile, DataBlocksOf
<1>3. PICK layer \in 0 .. 3 : i \in MappedBy(v, layer)
  BY <1>1, <1>2, LayersCover
<1>4. /\ Walkable(v, layer)
      /\ \A b \in PlacesBelow(v, layer) : Over(v, b, i) => Allocated(v, A, b)
  BY <1>3 DEF ReadableFile, OfTheFile
<1>5. Mapped = NotMapped \/ Mapped = [layer |-> layer, pointer |-> DirectPointer(i)]
  BY <1>1, <1>3, <1>4, BlockMapIsRight DEF Mapped
<1>6. dwBlks = AddressesOf(DirectPointer(i))
  BY <1>5 DEF dwBlks
<1>7. DirectPointer(i) # Stray /\ DirectPointer(i).first = i
  BY <1>1 DEF DirectPointer, Stray
<1>. QED BY <1>6, <1>7 DEF AddressesOf

LEMMA BlockOfFile ==
  ASSUME Typed, ReadableFile(file), OfTheFile(i), NEW dwBlk \in dwBlks \ {0}
  PROVE  dwBlk = file.Address[i]
<1>1. Mapped # NotMapped
  BY DEF dwBlks
<1>. QED BY <1>1, WalkOfFile

(* The byte at `at` of the disk is the one of the file that is read into   *)
(* byte `o` of the buffer. *)
ByteIsRight(at, o) ==
  LET block == (Offset + o) \div BlockSize
  IN OfTheFile(block) => file.Address[block] # 0 /\ at = DiskByte(Offset + o)

Reads(s) ==
  \A k \in DOMAIN s : \A b \in 0 .. s[k].Length - 1 : ByteIsRight(s[k].Lba + b, s[k].Offset + b)

(* All the bytes of the part of block i that is in the range are. *)
LEMMA PieceIsRight ==
  ASSUME IInv, InBlock, ReadableFile(file), NEW dwBlk \in dwBlks \ {0},
         NEW b \in 0 .. PieceLength - 1
  PROVE  ByteIsRight(LbaOf(dwBlk) + PieceStart + b, dwBytes + b)
<1> DEFINE r == PieceStart + b
           position == Offset + (dwBytes + b)
           A == file.Address
<1>1. /\ PieceStart \in Nat /\ PieceLength \in Nat /\ PieceStart + PieceLength <= BlockSize
      /\ Offset + dwBytes = i * BlockSize + PieceStart
  BY PieceFits
<1>2. Typed /\ Offset \in Nat /\ dwBytes \in Nat /\ i \in Nat /\ BlockSize \in Nat \ {0} /\ b \in Nat
  BY <1>1, PowerAssumption DEF IInv, Typed
<1>3. i * BlockSize \in Nat
  BY <1>2
<1>4. r \in Nat /\ r < BlockSize /\ position = i * BlockSize + r /\ position \in Nat
  BY <1>1, <1>2, <1>3
<1>5. position \div BlockSize = i /\ position % BlockSize = r
  <2>1. i * BlockSize <= position /\ position < i * BlockSize + BlockSize /\ position - i * BlockSize = r
    BY <1>2, <1>3, <1>4
  <2> HIDE DEF position, r
  <2>. QED BY <1>2, <1>4, <2>1, Quotient
<1> HIDE DEF position, r
<1>6. ASSUME OfTheFile(i)
      PROVE  A[i] # 0 /\ LbaOf(dwBlk) + PieceStart + b = DiskByte(position)
  <2>1. dwBlk = A[i] /\ dwBlk # 0 /\ dwBlk \in Nat
    BY <1>2, <1>6, BlockOfFile, AddressTypes
  <2>2. file.FSVersion \in {1, 2} /\ file.FSOffset \in Nat /\ (file.FSVersion = 1 => file.FSOffset = 0)
    BY <1>2, FileTypes DEF Typed, ReadableFile
  <2>3. dwBlk * FragmentSize \in Nat
    BY <2>1, ReadAssumption
  <2>4. LbaOf(dwBlk) = dwBlk * FragmentSize + file.FSOffset
    BY <2>2, <2>3 DEF LbaOf
  <2>5. DiskByte(position) = file.FSOffset + dwBlk * FragmentSize + r
    BY <1>5, <2>1 DEF DiskByte
  <2>. QED BY <1>1, <1>2, <2>1, <2>2, <2>3, <2>4, <2>5 DEF r
<1>. QED BY <1>5, <1>6 DEF ByteIsRight, position

LEMMA ReadsAppended ==
  ASSUME NEW s \in Seq(ExtentRecord), Reads(s), NEW e \in ExtentRecord,
         \A b \in 0 .. e.Length - 1 : ByteIsRight(e.Lba + b, e.Offset + b)
  PROVE  Reads(Append(s, e))
<1> DEFINE t == Append(s, e)
<1>1. Len(t) = Len(s) + 1 /\ Len(s) \in Nat /\ t \in Seq(ExtentRecord)
  OBVIOUS
<1>2. t[Len(s) + 1] = e /\ \A k \in 1 .. Len(s) : t[k] = s[k]
  OBVIOUS
<1>3. DOMAIN t = 1 .. Len(t) /\ DOMAIN s = 1 .. Len(s)
  BY <1>1
<1> HIDE DEF t
<1>4. ASSUME NEW k \in DOMAIN t, NEW b \in 0 .. t[k].Length - 1
      PROVE  ByteIsRight(t[k].Lba + b, t[k].Offset + b)
  <2>1. CASE k = Len(s) + 1
    BY <1>2, <2>1
  <2>2. CASE k # Len(s) + 1
    <3>1. k \in DOMAIN s /\ t[k] = s[k]
      BY <1>1, <1>2, <1>3, <2>2
    <3>. QED BY <3>1 DEF Reads
  <2>. QED BY <2>1, <2>2
<1>. QED BY <1>4 DEF Reads, t

LEMMA ReadsGrown ==
  ASSUME NEW s \in Seq(ExtentRecord), s # <<>>, Reads(s), NEW length \in Nat, Chained(s, length),
         NEW more \in Nat, NEW lba \in Nat, s[Len(s)].Lba + s[Len(s)].Length = lba,
         \A b \in 0 .. more - 1 : ByteIsRight(lba + b, length + b)
  PROVE  Reads(Grown(s, more))
<1> DEFINE t == Grown(s, more)
           n == Len(s)
<1>1. /\ DOMAIN t = DOMAIN s /\ \A k \in DOMAIN s \ {n} : t[k] = s[k]
      /\ t[n].Lba = s[n].Lba /\ t[n].Offset = s[n].Offset /\ t[n].Length = s[n].Length + more
  BY ChainsGrow
<1> HIDE DEF t
<1>2. n \in DOMAIN s /\ s[n] \in ExtentRecord
  OBVIOUS
<1>3. length = s[n].Offset + s[n].Length
  BY DEF Chained
<1>4. ASSUME NEW k \in DOMAIN t, NEW b \in 0 .. t[k].Length - 1
      PROVE  ByteIsRight(t[k].Lba + b, t[k].Offset + b)
  <2>1. CASE k # n
    BY <1>1, <2>1 DEF Reads
  <2>2. CASE k = n /\ b < s[n].Length
    <3>1. b \in 0 .. s[n].Length - 1
      BY <1>2, <2>2 DEF ExtentRecord
    <3>. QED BY <1>1, <1>2, <2>2, <3>1 DEF Reads
  <2>3. CASE k = n /\ ~ b < s[n].Length
    <3> DEFINE c == b - s[n].Length
    <3>1. s[n].Length \in Nat /\ s[n].Lba \in Nat /\ s[n].Offset \in Nat
      BY <1>2 DEF ExtentRecord
    <3>2. c \in 0 .. more - 1 /\ t[k].Lba + b = lba + c /\ t[k].Offset + b = length + c
      <4>1. /\ t[k].Length = s[n].Length + more /\ t[k].Lba = s[n].Lba /\ t[k].Offset = s[n].Offset
            /\ lba = s[n].Lba + s[n].Length
        BY <1>1, <2>3
      <4>2. b \in Nat /\ b <= s[n].Length + more - 1 /\ ~ b < s[n].Length
        BY <2>3, <3>1, <4>1
      <4>3. c \in 0 .. more - 1
        BY <3>1, <4>2
      <4>4. c \in Int /\ b = s[n].Length + c
        BY <3>1, <4>2
      <4>5. t[k].Lba + b = s[n].Lba + b /\ t[k].Offset + b = s[n].Offset + b
        BY <4>1
      <4> DEFINE x == s[n].Lba
                 y == s[n].Offset
                 z == s[n].Length
      <4>6. /\ x \in Nat /\ y \in Nat /\ z \in Nat /\ lba = x + z /\ length = y + z
            /\ c \in Int /\ b = z + c
        BY <1>3, <3>1, <4>1, <4>4
      <4> HIDE DEF c, x, y, z
      <4>7. x + b = lba + c /\ y + b = length + c
        BY <4>6
      <4>. QED BY <4>3, <4>5, <4>7 DEF x, y
    <3> HIDE DEF c
    <3>3. ByteIsRight(lba + c, length + c)
      BY <3>2
    <3>. QED BY <3>2, <3>3
  <2>. QED BY <2>1, <2>2, <2>3
<1>. QED BY <1>4 DEF Reads, t

LEMMA ReadsDescribed ==
  ASSUME IInv, ffsbdl # <<>>, Reads(ffsbdl), NEW lba \in Nat, NEW length \in Nat \ {0},
         \A b \in 0 .. length - 1 : ByteIsRight(lba + b, dwBytes + b)
  PROVE  Reads(Described(lba, length))
<1> DEFINE last == ffsbdl[Len(ffsbdl)]
<1>1. ffsbdl \in Seq(ExtentRecord) /\ dwBytes \in Nat /\ Chained(ffsbdl, dwBytes) /\ length \in Nat
  BY DEF IInv, Typed
<1>2. CASE last.Lba + last.Length = lba
  <2>1. Described(lba, length) = Grown(ffsbdl, length)
    BY <1>2 DEF Described, Grown
  <2>. QED BY <1>1, <1>2, <2>1, ReadsGrown
<1>3. CASE last.Lba + last.Length # lba
  <2> DEFINE e == Extent(lba, dwBytes, length)
  <2>1. Described(lba, length) = Append(ffsbdl, e)
    BY <1>3 DEF Described
  <2>2. e \in ExtentRecord /\ e.Lba = lba /\ e.Offset = dwBytes /\ e.Length = length
    BY <1>1 DEF Extent, ExtentRecord
  <2> HIDE DEF e
  <2>3. Reads(Append(ffsbdl, e))
    BY <1>1, <2>2, ReadsAppended
  <2>. QED BY <2>1, <2>3
<1>. QED BY <1>2, <1>3

LEMMA ReadsKept ==
  ASSUME IInv, Next, ReadableFile(file), Reads(ffsbdl)
  PROVE  ffsbdl' = <<>> \/ (Reads(ffsbdl') /\ UNCHANGED <<file, Offset>>)
<1>1. CASE \E o \in Offsets, s \in Sizes : BeyondEnd(o, s) \/ StartBDL(o, s) \/ NoMemory(o, s)
  <2>1. pc = "idle" /\ ffsbdl' = ffsbdl
    BY <1>1 DEF BeyondEnd, StartBDL, NoMemory, Clip
  <2>. QED BY <2>1 DEF IInv, Fresh
<1>2. CASE FirstBlock
  <2>1. InBlock /\ i = nBeg /\ dwBytes = 0 /\ ffsbdl = <<>> /\ Typed /\ UNCHANGED <<file, Offset>>
    BY <1>2 DEF IInv, Building, Described_Before, FirstBlock, InBlock, inode
  <2>2. PICK dwBlk \in dwBlks \ {0} :
          ffsbdl' = Append(ffsbdl, Extent(LbaOf(dwBlk) + (Offset % BlockSize), 0, FirstLength))
    BY <1>2 DEF FirstBlock
  <2> DEFINE e == Extent(LbaOf(dwBlk) + (Offset % BlockSize), 0, FirstLength)
  <2>3. PieceLength = FirstLength /\ PieceStart = Offset % BlockSize
    BY <2>1 DEF PieceLength, PieceStart
  <2>4. FirstLength \in Nat \ {0} /\ Offset % BlockSize \in Nat /\ LbaOf(dwBlk) \in Nat
    BY <2>1, <2>3, PieceFits, AddressTypes
  <2>5. e \in ExtentRecord /\ e.Lba = LbaOf(dwBlk) + PieceStart /\ e.Offset = dwBytes
        /\ e.Length = PieceLength
    BY <2>1, <2>3, <2>4 DEF Extent, ExtentRecord
  <2>6. ffsbdl' = Append(ffsbdl, e) /\ ffsbdl \in Seq(ExtentRecord)
    BY <2>1, <2>2 DEF Typed
  <2> HIDE DEF e
  <2>7. \A b \in 0 .. e.Length - 1 : ByteIsRight(e.Lba + b, e.Offset + b)
    BY <2>1, <2>5, PieceIsRight
  <2>8. Reads(Append(ffsbdl, e))
    BY <2>5, <2>6, <2>7, ReadsAppended
  <2>. QED BY <2>1, <2>6, <2>8
<1>3. CASE MiddleBlock \/ LastBlock
  <2>1. InBlock /\ i # nBeg /\ ffsbdl # <<>> /\ Typed /\ UNCHANGED <<file, Offset>>
    BY <1>3 DEF IInv, Building, Described_Before, MiddleBlock, LastBlock, InBlock, inode
  <2>2. PICK dwBlk \in dwBlks \ {0} : ffsbdl' = Described(LbaOf(dwBlk), PieceLength)
    BY <1>3, <2>1 DEF MiddleBlock, LastBlock, PieceLength
  <2>3. PieceLength \in Nat \ {0} /\ PieceStart = 0 /\ LbaOf(dwBlk) \in Nat
    BY <2>1, PieceFits, AddressTypes DEF PieceStart
  <2>4. ASSUME NEW b \in 0 .. PieceLength - 1
        PROVE  ByteIsRight(LbaOf(dwBlk) + b, dwBytes + b)
    <3>1. ByteIsRight(LbaOf(dwBlk) + PieceStart + b, dwBytes + b)
      BY <2>1, PieceIsRight
    <3>2. LbaOf(dwBlk) + PieceStart + b = LbaOf(dwBlk) + b
      BY <2>3
    <3>. QED BY <3>1, <3>2
  <2>5. Reads(Described(LbaOf(dwBlk), PieceLength))
    BY <2>1, <2>3, <2>4, ReadsDescribed
  <2>. QED BY <2>1, <2>2, <2>5
<1>4. CASE NoBlock \/ PointersUnread \/ AllBlocks
  <2>1. UNCHANGED <<ffsbdl, file, Offset>>
    BY <1>4 DEF NoBlock, PointersUnread, AllBlocks, EndBDL, inode
  <2>. QED BY <2>1
<1>5. CASE ReadExtents \/ Return
  BY <1>5 DEF ReadExtents, Return, inode
<1>. QED BY <1>1, <1>2, <1>3, <1>4, <1>5 DEF Next

LEMMA ReadsAreOfTheFile ==
  ASSUME Typed PROVE BdlReadsFile <=> Reads(ffsbdl)
<1>1. ASSUME NEW k \in DOMAIN ffsbdl, NEW b \in 0 .. ffsbdl[k].Length - 1
      PROVE  Offset + ffsbdl[k].Offset + b = Offset + (ffsbdl[k].Offset + b)
  <2>1. Offset \in Nat /\ ffsbdl[k] \in ExtentRecord /\ b \in Int
    BY DEF Typed
  <2>. QED BY <2>1 DEF ExtentRecord
<1>. QED BY <1>1 DEF BdlReadsFile, Reads, ByteIsRight

(* Whichever blocks an extent was merged from, and whichever indirect       *)
(* pointers lead to them, every byte of the file that a read describes is   *)
(* read from where the file has it on disk, on every geometry on which the  *)
(* walk can find the blocks of the file. *)
THEOREM ReadsTheFile ==
  ASSUME \A f \in Files : ReadableFile(f)
  PROVE  Spec => []BdlReadsFile
<1>1. Init => Reads(ffsbdl)
  BY DEF Init, Reads
<1>2. ASSUME IInv, Reads(ffsbdl), [Next]_vars
      PROVE  Reads(ffsbdl)'
  <2>1. CASE Next
    <3>1. ReadableFile(file)
      BY <1>2 DEF IInv, Typed
    <3>2. ffsbdl' = <<>> \/ (Reads(ffsbdl') /\ UNCHANGED <<file, Offset>>)
      BY <1>2, <2>1, <3>1, ReadsKept
    <3>3. CASE ffsbdl' = <<>>
      BY <3>3 DEF Reads
    <3>4. CASE Reads(ffsbdl') /\ UNCHANGED <<file, Offset>>
      BY <3>4 DEF Reads, ByteIsRight, OfTheFile, DiskByte
    <3>. QED BY <3>2, <3>3, <3>4
  <2>2. CASE UNCHANGED vars
    BY <1>2, <2>2 DEF Reads, ByteIsRight, OfTheFile, DiskByte, vars
  <2>. QED BY <1>2, <2>1, <2>2
<1>3. IInv /\ Reads(ffsbdl) => BdlReadsFile
  BY ReadsAreOfTheFile DEF IInv
<1>. QED BY <1>1, <1>2, <1>3, Invariance, PTL DEF Spec

-----------------------------------------------------------------------------
(* The block at which a read ends *)

(* The blocks and the sectors of a file can be counted: either all counts   *)
(* fit a word, or the file has no more sectors than the pointers up to the  *)
(* last layer whose counts fit. *)
CountableFile(f) ==
  \E top \in 0 .. 3 :
    /\ InAWord(f.FSVersion, top)
    /\ top = 3 \/ SectorsPerBlock * BlocksHeld(f.FSVersion, f.Address)
                    <= HeldUpTo(f.FSVersion, top)

Ended ==
  /\ di_blocks = SectorsPerBlock * BlocksHeld(file.FSVersion, file.Address)
  /\ pc = "building" => Offset + Size <= AllocSize
  /\ pc = "answered" => end # "none"
  /\ pc = "built" => end # "none" /\ answer = NoAnswer
  /\ end \in {"beyond", "memory"} => ffsbdl = <<>> /\ answer.dwRet = 0
  /\ end = "hole" => file.Address[i] = 0

(* The blocks of a range that was clipped are counted. *)
LEMMA BlockIsCounted ==
  ASSUME IInv, InBlock, Offset + Size <= AllocSize
  PROVE  i < FFSDataBlocks(file.FSVersion, di_blocks)
<1> DEFINE D == FFSDataBlocks(file.FSVersion, di_blocks)
           m == Size + Offset + BlockSize - 1
<1>1. D \in Nat /\ i \in Nat /\ Offset \in Nat /\ Size \in Nat /\ BlockSize \in Nat \ {0}
  <2>1. Typed
    BY DEF IInv
  <2>2. D \in Nat
    BY <2>1, FileTypes, DataBlocksType DEF Typed
  <2>. QED BY <2>1, <2>2, PowerAssumption DEF Typed
<1>2. Offset + Size <= D * BlockSize /\ i < nEnd /\ nEnd = m \div BlockSize
  BY DEF AllocSize, InBlock, nEnd
<1> HIDE DEF D
<1>3. m \in Nat /\ D * BlockSize \in Nat /\ m < D * BlockSize + BlockSize
  BY <1>1, <1>2
<1> HIDE DEF m
<1>4. nEnd \in Nat /\ nEnd * BlockSize <= m
  <2> DEFINE q == m \div BlockSize
             r == m % BlockSize
  <2>1. q \in Nat /\ r \in 0 .. BlockSize - 1 /\ m = q * BlockSize + r
    BY <1>1, <1>3, Division
  <2> HIDE DEF q, r
  <2>2. q * BlockSize \in Nat /\ q * BlockSize <= m
    BY <1>1, <1>3, <2>1
  <2>. QED BY <1>2, <2>1, <2>2 DEF q
<1>5. ~ D < nEnd
  <2> SUFFICES ASSUME D < nEnd PROVE FALSE
    OBVIOUS
  <2>1. D * BlockSize + BlockSize <= nEnd * BlockSize
    BY <1>1, <1>4, Multiples
  <2>2. nEnd * BlockSize \in Nat
    BY <1>1, <1>4
  <2>. QED BY <1>1, <1>3, <1>4, <2>1, <2>2
<1>. QED BY <1>1, <1>2, <1>4, <1>5 DEF D

(* A block that is counted is found, and a pointer to it is a hole's only   *)
(* where the file has one. *)
LEMMA HoleIsThere ==
  ASSUME IInv, Ended, InBlock, ReadableFile(file), CountableFile(file), 0 \in dwBlks
  PROVE  file.Address[i] = 0
<1> DEFINE v == file.FSVersion
           A == file.Address
<1>1. Typed /\ v \in {1, 2} /\ A \in [0 .. Capacity(v) - 1 -> Nat] /\ Capacity(v) \in Nat
      /\ i \in Nat /\ di_blocks \in Nat
  BY FileTypes, Geometry DEF IInv, Typed
<1>2. i < FFSDataBlocks(v, di_blocks)
  BY BlockIsCounted DEF Ended, InBlock
<1>3. PICK top \in 0 .. 3 :
        InAWord(v, top) /\ (top = 3 \/ di_blocks <= HeldUpTo(v, top))
  BY DEF CountableFile, Ended
<1>4. FFSDataBlocks(v, di_blocks) <= MappedUpTo(v, top) /\ FFSDataBlocks(v, di_blocks) \in Nat
  BY <1>1, <1>3, DataBlocksAtMost, DataBlocksType
<1>5. i < MappedUpTo(v, top)
  <2>1. MappedUpTo(v, top) \in Nat
    BY <1>1, MappedUpToType
  <2>. QED BY <1>1, <1>2, <1>4, <2>1
<1>6. i \in 0 .. Capacity(v) - 1 /\ \E l \in 0 .. top : i \in MappedBy(v, l)
  BY <1>1, <1>5, CountedIsMapped
<1>7. PICK layer \in 0 .. top : i \in MappedBy(v, layer)
  BY <1>6
<1>8. Mapped # NotMapped
  <2>1. InAWord(v, layer) /\ layer \in 0 .. 3
    BY <1>1, <1>3, <1>7, BitsGrow
  <2>2. FFSBlockMap(v, A, di_blocks, i) # NotMapped
    BY <1>1, <1>2, <1>4, <1>7, <2>1, CountedIsFound
  <2>. QED BY <2>2 DEF Mapped
<1>9. CASE OfTheFile(i)
  BY <1>1, <1>8, <1>9, WalkOfFile
<1>10. CASE ~ OfTheFile(i)
  BY <1>1, <1>6, <1>10 DEF OfTheFile, DataBlocksOf
<1>. QED BY <1>9, <1>10

LEMMA EndedInit == Init => Ended
BY DEF Init, Ended

LEMMA EndedKept ==
  ASSUME IInv, Ended, ReadableFile(file), CountableFile(file), Next
  PROVE  Ended'
<1>1. CASE \E o \in Offsets, s \in Sizes : BeyondEnd(o, s) \/ StartBDL(o, s) \/ NoMemory(o, s)
  <2>1. PICK o \in Offsets, s \in Sizes : BeyondEnd(o, s) \/ StartBDL(o, s) \/ NoMemory(o, s)
    BY <1>1
  <2>2. o \in Nat /\ s \in Nat /\ AllocSize \in Nat /\ pc = "idle" /\ ffsbdl = <<>>
        /\ end = "none" /\ answer = NoAnswer
    BY <2>1, ReadAssumption, AllocSizeType DEF IInv, Fresh, BeyondEnd, StartBDL, NoMemory, Clip
  <2>3. CASE BeyondEnd(o, s)
    BY <2>2, <2>3 DEF BeyondEnd, Ended, inode, NoAnswer, Answer
  <2>4. CASE StartBDL(o, s)
    <3>1. AllocSize' = AllocSize
      BY <2>4 DEF StartBDL, inode, AllocSize
    <3>2. Offset' + Size' <= AllocSize'
      BY <2>2, <2>4, <3>1 DEF StartBDL, Clip
    <3>. QED BY <2>2, <2>4, <3>2 DEF StartBDL, Ended, inode
  <2>5. CASE NoMemory(o, s)
    BY <2>2, <2>5 DEF NoMemory, Ended, inode, NoAnswer, Answer
  <2>. QED BY <2>1, <2>3, <2>4, <2>5
<1>2. CASE FirstBlock \/ MiddleBlock \/ LastBlock
  <2>1. pc = "building" /\ pc' = pc /\ end = "none" /\ end' = end
        /\ UNCHANGED <<file, di_blocks, Offset, Size>>
    BY <1>2 DEF IInv, Building, FirstBlock, MiddleBlock, LastBlock, InBlock, inode
  <2>2. AllocSize' = AllocSize
    BY <2>1 DEF AllocSize
  <2>. QED BY <2>1, <2>2 DEF Ended
<1>3. CASE NoBlock \/ PointersUnread \/ AllBlocks
  <2>1. pc = "building" /\ pc' = "built" /\ UNCHANGED <<file, di_blocks, i, answer>>
        /\ end' \in {"hole", "unread", "complete"} /\ answer = NoAnswer
    BY <1>3 DEF IInv, Building, NoBlock, PointersUnread, AllBlocks, EndBDL, InBlock, inode
  <2>2. end' = "hole" => InBlock /\ 0 \in dwBlks
    BY <1>3 DEF NoBlock, PointersUnread, AllBlocks, EndBDL
  <2>3. end' = "hole" => file.Address[i] = 0
    BY <2>2, HoleIsThere
  <2>. QED BY <2>1, <2>3 DEF Ended
<1>4. CASE ReadExtents
  BY <1>4 DEF ReadExtents, Ended, inode, NoAnswer, Answer
<1>5. CASE Return
  BY <1>5 DEF Return, Ended, inode
<1>. QED BY <1>1, <1>2, <1>3, <1>4, <1>5 DEF Next

(* A read answered with more than was described met a hole or an unreadable *)
(* block of pointers: FFSDataBlocks, which bounds the index in FFSv1BlockMap *)
(* and FFSv2BlockMap, is at least the index of every block of the range, and *)
(* admits none past the pointers, though di_blocks counts sectors. *)
THEOREM NoBlockIsHidden ==
  ASSUME \A f \in Files : ReadableFile(f) /\ CountableFile(f)
  PROVE  Spec => []OnlyHolesShortenARead
<1>1. ASSUME IInv, Ended, [Next]_vars
      PROVE  Ended'
  <2>1. CASE Next
    <3>1. ReadableFile(file) /\ CountableFile(file)
      BY <1>1 DEF IInv, Typed
    <3>. QED BY <1>1, <2>1, <3>1, EndedKept
  <2>2. CASE UNCHANGED vars
    <3>1. AllocSize' = AllocSize
      BY <2>2 DEF vars, AllocSize
    <3>. QED BY <1>1, <2>2, <3>1 DEF vars, Ended
  <2>. QED BY <1>1, <2>1, <2>2
<1>2. ASSUME IInv, Ended, pc = "answered", answer.dwRet > Total
      PROVE  end = "unread" \/ (end = "hole" /\ file.Address[i] = 0)
  <2>1. Total = dwBytes /\ dwBytes \in Nat /\ Size \in Nat /\ answer.dwRet \in {0, Size}
        /\ end \in Reasons
    BY <1>2 DEF IInv, Typed, Chained, Total
  <2>2. end # "complete"
    BY <1>2, <2>1 DEF IInv, Bounded
  <2>3. end \notin {"beyond", "memory"}
    BY <1>2, <2>1 DEF Ended
  <2>. QED BY <1>2, <2>1, <2>2, <2>3 DEF Ended, Reasons
<1>3. IInv /\ Ended => OnlyHolesShortenARead
  BY <1>2 DEF OnlyHolesShortenARead
<1>. QED BY <1>1, <1>3, EndedInit, Invariance, PTL DEF Spec

(* The data blocks of a file without holes are below the pointers whose     *)
(* counts fit a word. *)
CountedFile(f) ==
  IsDense(f.Address) =>
    \E top \in 0 .. 3 :
      /\ InAWord(f.FSVersion, top)
      /\ Cardinality(DataBlocksOf(f.Address)) <= MappedUpTo(f.FSVersion, top)

(* What FFSExpandInode asserts is true of a file without holes, of any size *)
(* that the counts in the VCB allow: FFSTotalBlocks of its data blocks are  *)
(* the blocks it holds, and FFSDataBlocks takes them back. *)
THEOREM AssertedCountsAgree ==
  ASSUME \A f \in Files : CountedFile(f)
  PROVE  Spec => []BlockCountsAgree
<1>1. ASSUME IInv PROVE BlockCountsAgree
  <2> SUFFICES ASSUME IsDense(file.Address) PROVE BlockCountsAgree
    BY DEF BlockCountsAgree
  <2> DEFINE v == file.FSVersion
             A == file.Address
  <2>1. v \in {1, 2} /\ A \in [0 .. Capacity(v) - 1 -> Nat] /\ file \in Files
    BY <1>1, FileTypes DEF IInv, Typed
  <2>2. PICK top \in 0 .. 3 :
          InAWord(v, top) /\ Cardinality(DataBlocksOf(A)) <= MappedUpTo(v, top)
    BY <2>1 DEF CountedFile
  <2>3. \A n \in DataBlocksOf(A) : n = 0 \/ A[n - 1] # 0
    BY DEF IsDense
  <2> HIDE DEF v, A
  <2>4. LET data == Cardinality(DataBlocksOf(A))
            held == BlocksHeld(v, A)
        IN  FFSTotalBlocks(v, data) = held /\ FFSDataBlocks(v, held) = data
    BY <2>1, <2>2, <2>3, CountsOfADenseFile
  <2>. QED BY <2>4 DEF BlockCountsAgree, v, A
<1>. QED BY <1>1, Invariance, PTL
=============================================================================
