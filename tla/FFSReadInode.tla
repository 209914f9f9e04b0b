---------------------------- MODULE FFSReadInode ----------------------------
(***************************************************************************)
(* Reading a range of a file: FFSv1ReadInode and FFSv2ReadInode clip the   *)
(* range, build the list of extents on disk (the BDL) block by block, and  *)
(* have the extents read into the buffer.                                  *)
(*                                                                         *)
(* One read after another of one file that nobody writes: the driver is    *)
(* built read only, and the inode is a copy made when the FCB was.         *)
(***************************************************************************)
EXTENDS FFSBlockMap, Sequences

CONSTANTS
  FragmentSize,     \* fs_fsize
  SectorsPerBlock,  \* di_blocks counts sectors
  Files,            \* [FSVersion, FSOffset, Address]: the volume and the file
  Offsets, Sizes    \* what callers ask for, in bytes

ASSUME ReadAssumption ==
  /\ FragmentSize \in Nat \ {0} /\ SectorsPerBlock \in Nat \ {0}
  /\ Offsets \subseteq Nat /\ Sizes \subseteq Nat \ {0}
  /\ \A f \in Files : /\ f.FSVersion \in {1, 2} /\ f.FSOffset \in Nat
                      /\ f.Address \in [0 .. Capacity(f.FSVersion) - 1 -> Nat]

VARIABLES
  file,        \* the volume and the inode
  di_blocks,   \* of the inode
  pc,          \* "idle", "building", "built" or "answered"
  Offset, Size,
  i, dwBytes,  \* the block, and the bytes described so far
  ffsbdl,      \* the extents
  end,         \* why the building ended
  answer       \* what the caller gets

vars == <<file, di_blocks, pc, Offset, Size, i, dwBytes, ffsbdl, end, answer>>
inode == <<file, di_blocks>>

Reasons == {"none", "beyond", "memory", "hole", "unread", "complete"}

Answer(success, dwRet) == [success |-> success, dwRet |-> dwRet]
NoAnswer == Answer(FALSE, 0)

Init ==
  /\ file \in Files
  /\ di_blocks = SectorsPerBlock * BlocksHeld(file.FSVersion, file.Address)
  /\ pc = "idle" /\ end = "none"
  /\ Offset = 0 /\ Size = 0 /\ i = 0 /\ dwBytes = 0
  /\ ffsbdl = <<>> /\ answer = NoAnswer

AllocSize == FFSDataBlocks(file.FSVersion, di_blocks) * BlockSize

nBeg == Offset \div BlockSize
nEnd == (Size + Offset + BlockSize - 1) \div BlockSize

-----------------------------------------------------------------------------
(* The range *)

BeyondEnd(o, s) ==
  /\ pc = "idle" /\ o >= AllocSize
  /\ pc' = "built" /\ end' = "beyond"
  /\ Offset' = o /\ Size' = s
  /\ UNCHANGED <<inode, i, dwBytes, ffsbdl, answer>>

Clip(o, s) ==
  /\ pc = "idle" /\ o < AllocSize
  /\ Offset' = o /\ Size' = IF o + s > AllocSize THEN AllocSize - o ELSE s

StartBDL(o, s) ==
  /\ Clip(o, s)
  /\ pc' = "building" /\ i' = o \div BlockSize
  /\ UNCHANGED <<inode, dwBytes, ffsbdl, end, answer>>

NoMemory(o, s) ==
  /\ Clip(o, s)
  /\ pc' = "built" /\ end' = "memory"
  /\ UNCHANGED <<inode, i, dwBytes, ffsbdl, answer>>

-----------------------------------------------------------------------------
(* The extents *)

Mapped == FFSBlockMap(file.FSVersion, file.Address, di_blocks, i)

(* A stray pointer is whatever a word of another block holds. *)
StrayAddresses == {0, 1}

AddressesOf(pointer) ==
  IF pointer = Stray THEN StrayAddresses ELSE {file.Address[pointer.first]}

(* The fragment the walk returns; none when a block of pointers cannot be  *)
(* allocated or read, or when the index is not mapped. *)
Unread == Mapped.layer > 0
dwBlks == IF Mapped = NotMapped THEN {0} ELSE AddressesOf(Mapped.pointer)

(* The bytes of the disk that a fragment starts at.  Only UFS2 reads are   *)
(* relative to the partition of the disk label. *)
LbaOf(dwBlk) ==
  dwBlk * FragmentSize + IF file.FSVersion = 1 THEN 0 ELSE file.FSOffset

Extent(lba, offset, length) == [Lba |-> lba, Offset |-> offset, Length |-> length]

(* Mistaken: a block that follows the last extent is taken for part of it. *)
Described_NotExtended(lba, length) ==
  LET last == ffsbdl[Len(ffsbdl)] IN
  IF last.Lba + last.Length = lba THEN ffsbdl
  ELSE Append(ffsbdl, Extent(lba, dwBytes, length))

(* A block that follows the last extent on disk makes it longer. *)
Described(lba, length) ==
  LET last == ffsbdl[Len(ffsbdl)] IN
  IF last.Lba + last.Length = lba
  THEN [ffsbdl EXCEPT ![Len(ffsbdl)].Length = @ + length]
  ELSE Append(ffsbdl, Extent(lba, dwBytes, length))

OneBlock == nBeg = nEnd - 1
InBlock == pc = "building" /\ i < nEnd

(* Mistaken: the range within one block is not a case of its own. *)
FirstLength_ToBlockEnd == BlockSize - (Offset % BlockSize)

FirstLength == IF OneBlock THEN Size ELSE BlockSize - (Offset % BlockSize)

FirstBlock ==
  /\ InBlock /\ i = nBeg
  /\ \E dwBlk \in dwBlks \ {0} :
       ffsbdl' = Append(ffsbdl, Extent(LbaOf(dwBlk) + (Offset % BlockSize), 0, FirstLength))
  /\ dwBytes' = FirstLength /\ i' = i + 1
  /\ UNCHANGED <<inode, pc, Offset, Size, end, answer>>

MiddleBlock ==
  /\ InBlock /\ i # nBeg /\ i # nEnd - 1
  /\ \E dwBlk \in dwBlks \ {0} : ffsbdl' = Described(LbaOf(dwBlk), BlockSize)
  /\ dwBytes' = dwBytes + BlockSize /\ i' = i + 1
  /\ UNCHANGED <<inode, pc, Offset, Size, end, answer>>

LastBlock ==
  /\ InBlock /\ i # nBeg /\ i = nEnd - 1
  /\ \E dwBlk \in dwBlks \ {0} : ffsbdl' = Described(LbaOf(dwBlk), Size - dwBytes)
  /\ dwBytes' = Size /\ i' = i + 1
  /\ UNCHANGED <<inode, pc, Offset, Size, end, answer>>

EndBDL(why) ==
  /\ pc' = "built" /\ end' = why
  /\ UNCHANGED <<inode, Offset, Size, i, dwBytes, ffsbdl, answer>>

NoBlock == InBlock /\ 0 \in dwBlks /\ EndBDL("hole")

PointersUnread == InBlock /\ Unread /\ EndBDL("unread")

AllBlocks == pc = "building" /\ i = nEnd /\ EndBDL("complete")

-----------------------------------------------------------------------------
(* The answer *)

(* The extents are read into the buffer, which may fail.  A read that did  *)
(* not is answered with the size of the range, whatever was described. *)
ReadExtents ==
  /\ pc = "built" /\ pc' = "answered"
  /\ answer' \in IF end = "beyond" THEN {Answer(TRUE, 0)}
                 ELSE IF ffsbdl = <<>> THEN {NoAnswer}
                 ELSE {Answer(TRUE, Size), NoAnswer}
  /\ UNCHANGED <<inode, Offset, Size, i, dwBytes, ffsbdl, end>>

Return ==
  /\ pc = "answered"
  /\ pc' = "idle" /\ end' = "none"
  /\ Offset' = 0 /\ Size' = 0 /\ i' = 0 /\ dwBytes' = 0
  /\ ffsbdl' = <<>> /\ answer' = NoAnswer
  /\ UNCHANGED inode

-----------------------------------------------------------------------------
Next ==
  \/ \E o \in Offsets, s \in Sizes : BeyondEnd(o, s) \/ StartBDL(o, s) \/ NoMemory(o, s)
  \/ FirstBlock
  \/ MiddleBlock
  \/ LastBlock
  \/ NoBlock
  \/ PointersUnread
  \/ AllBlocks
  \/ ReadExtents
  \/ Return

Spec == Init /\ [][Next]_vars

-----------------------------------------------------------------------------
(* Properties *)

(* Type invariant of a read: in particular no more bytes are described     *)
(* than were asked for, and no extent is empty. *)
TypeOK ==
  /\ file \in Files /\ di_blocks \in Nat
  /\ pc \in {"idle", "building", "built", "answered"} /\ end \in Reasons
  /\ Offset \in Nat /\ Size \in Nat /\ i \in Nat /\ dwBytes \in 0 .. Size
  /\ answer \in [success : BOOLEAN, dwRet : 0 .. Size]
  /\ \A k \in DOMAIN ffsbdl :
       ffsbdl[k].Lba \in Nat /\ ffsbdl[k].Offset \in Nat /\ ffsbdl[k].Length \in Nat \ {0}

Total == IF ffsbdl = <<>> THEN 0 ELSE ffsbdl[Len(ffsbdl)].Offset + ffsbdl[Len(ffsbdl)].Length

(* The extents of FFSv*BuildBDL fill the buffer from its start with no gap *)
(* and no overlap, whichever were merged and wherever the range starts     *)
(* and ends in its blocks, and all of it when no block stops the building. *)
BdlIsContiguous ==
  /\ ffsbdl # <<>> => ffsbdl[1].Offset = 0
  /\ \A k \in DOMAIN ffsbdl \ {1} :
       ffsbdl[k].Offset = ffsbdl[k - 1].Offset + ffsbdl[k - 1].Length
  /\ Total = dwBytes
  /\ end = "complete" => Total = Size

(* The byte of the disk that holds a byte of the file. *)
DiskByte(position) ==
  file.FSOffset + file.Address[position \div BlockSize] * FragmentSize + (position % BlockSize)

(* The blocks up to the last one of the file, holes included. *)
OfTheFile(n) == \E last \in DataBlocksOf(file.Address) : n <= last

(* Every byte of the file that an extent describes is taken from where FFS *)
(* put it on disk, whatever the number of indirect blocks FFSv*BlockMap    *)
(* and FFSv*GetBlock walk to its block, and no byte of a hole is. *)
BdlReadsFile ==
  \A k \in DOMAIN ffsbdl : \A b \in 0 .. ffsbdl[k].Length - 1 :
    LET position == Offset + ffsbdl[k].Offset + b
        block == position \div BlockSize
    IN OfTheFile(block) => /\ file.Address[block] # 0
                           /\ ffsbdl[k].Lba + b = DiskByte(position)

(* A read that is answered with more bytes than were described met a hole  *)
(* of the file, or a block of pointers that could not be read: the block   *)
(* counts that bound FFSv*BlockMap never hide a block that is there. *)
OnlyHolesShortenARead ==
  pc = "answered" /\ answer.dwRet > Total =>
    \/ end = "unread"
    \/ end = "hole" /\ file.Address[i] = 0

IsDense(Address) ==
  \A n \in DataBlocksOf(Address) : n = 0 \/ Address[n - 1] # 0

(* What FFSExpandInode asserts of a file without holes: FFSTotalBlocks and *)
(* FFSDataBlocks are inverse, and count the blocks the file really holds. *)
BlockCountsAgree ==
  IsDense(file.Address) =>
    LET data == Cardinality(DataBlocksOf(file.Address))
        held == BlocksHeld(file.FSVersion, file.Address)
    IN /\ FFSTotalBlocks(file.FSVersion, data) = held
       /\ FFSDataBlocks(file.FSVersion, held) = data

(* A successful read returns bytes within the allocation size of the file, *)
(* which FFSExpandInode asserts to be FFSDataBlocks of the blocks held,    *)
(* di_blocks / (BLOCK_SIZE / SECTOR_SIZE), not of the sectors held. *)
ReadsWithinTheAllocation ==
  pc = "answered" /\ answer.dwRet > 0 =>
    Offset + answer.dwRet
      <= FFSDataBlocks(file.FSVersion, di_blocks \div SectorsPerBlock) * BlockSize
=============================================================================
