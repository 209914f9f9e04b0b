# A verification of the FFS file system driver

The repository is a read-only FFS (UFS1/UFS2) file system driver for Windows.
This directory models its core in TLA+, checks it with TLC on small instances
and proves the central invariants with TLAPS for every instance.

## 1. Inventory

The driver is the set of C files at the top of `src/` (release 0.5);
`src/ffsdrv-0.3` is an older release and its GUI, not modelled.

| Component | State it keeps | Operations | Correct when |
|---|---|---|---|
| Open, cleanup, close (`create.c`, `cleanup.c`, `close.c`) | `FileObject->FsContext`, the FCB counts, the VCB counts, `Vcb->FcbList` | `FFSCreate`, `FFSCleanup`, `FFSClose` | no FCB is freed while pointed to; one FCB per file; the counts agree |
| Worker queue (`dispatch.c`, `close.c`) | queued IRP contexts | `FFSQueueRequest`, `FFSDeQueueRequest`, `FFSQueueCloseRequest`, `FFSDeQueueCloseRequest` | every queued request is carried out, in any order, on a VCB that still exists |
| Volume control (`fsctl.c`) | `VCB_VOLUME_LOCKED`, `VCB_MOUNTED`, `VCB_DISMOUNT_PENDING`, `LockFile`, VPB flags | lock, unlock, dismount, verify, invalidate, purge, `FFSCheckDismount` | lock only on a quiet volume; teardown once, with nothing left on it |
| Plug and play (`pnp.c`) | - | query-remove, remove, surprise removal, cancel-remove | as above |
| Shutdown (`shutdown.c`, `flush.c`) | - | `FFSShutDown`; flushes, which return at once on a read-only volume | ends, whoever holds the volumes |
| Unload (`devctl.c`) | `FFSGlobal->VcbList`, `FFS_UNLOAD_PENDING` | `FFSPrepareToUnload` | frees only volumes nobody uses |
| Memory (`memory.c`) | lookaside lists, `VcbList` | allocate and free of IRP contexts, FCBs, CCBs, MCBs, VCBs | nothing is used after it is freed |
| Name cache (`memory.c`, `create.c`) | MCB tree, `Vcb->McbList` in LRU order, `FFSMcb->FFSFcb` | lookup, add, reap | a name resolves to its own inode; no MCB in use is reaped |
| Block map (`ffs.c`) | none (pure) | `FFSv1BlockMap`, `FFSv2BlockMap`, `FFSv1BuildBDL`, `FFSv2BuildBDL` | logical block n maps to the n-th pointer of the inode; the BDL covers the byte range exactly |
| Mount (`fsctl.c`, `init.c`) | `FFSGlobal->PartitionNumber`, `FSOffset`, `RootPartition`, `FS_VERSION` | mount, load disk label, select partition | a volume reads its own partition |
| Directory scan (`dirctl.c`) | `Ccb->CurrentByteOffset`, pattern, notify list | `FFSQueryDirectory`, `FFSNotifyChangeDirectory` | each entry reported once |
| Reads (`read.c`, `block.c`) | associated IRPs | `FFSRead`, `FFSReadWriteBlocks` | one completion per master IRP |
| Byte-range locks, share access, fast I/O (`lock.c`, `fastio.c`, `cmcb.c`, parts of `create.c`, `cleanup.c`) | `FileLockAnchor`, `IsFastIoPossible`, `ShareAccess` of the FCB | lock, unlock, fast reads and queries, and the checks before them | fast I/O asks while a lock exists; locks go with their handle; open handles share as they said |
| Writes, allocation, deletion (`write.c`, parts of `ffs.c`, `fileinfo.c`) | - | dead in this build: `FFS_READ_ONLY` (`ffsdrv.h:41`) makes every volume `VCB_READ_ONLY` (`memory.c:1541-1570`) | - |

They interact by direct calls within one request, through the resources
`FFSGlobal->Resource`, `Vcb->MainResource` and `Fcb->MainResource` between
requests, through the counts that one handler raises and another one tests, and
through the worker queue. The hard behaviours: handlers of different file
objects interleave; a purge, a dismount or a removal runs against open handles
and queued closes; a few reads and writes are made outside the resource that
protects them; a create can fail after it counted its open. `hazards` in
`PROJECT.json` lists each at its line.

## 2. Plan

Done:

1. `FFSVolume`, `MCFFSVolume`, `FFSVolumeProofs`: the lifetime of handles, FCBs
   and the VCB (section 3).
2. `FFSBlockMap`, `FFSReadInode`, `MCFFSReadInode`, `FFSBlockMapProofs`,
   `FFSReadInodeProofs`: block map and block descriptor list, against what FFS puts
   on disk (section 4).
3. `FFSDirTree`, `FFSPathLookup`, `FFSNameCache`, `MCFFSNameCache`,
   `FFSNameCacheProofs`: the MCB tree, its reaping and the path lookup, shown to
   implement a lookup that knows only the directories on disk (section 5).
4. `FFSDirectory`, `MCFFSDirectory`, `FFSDirectoryProofs`: directory enumeration
   (section 6).
5. `FFSRequest`, `MCFFSRequest`, `FFSRequestProofs`: the way of an IRP through the
   dispatcher, the worker queue, the block transfer and the exception handler
   (section 7).
6. `FFSMount`, `MCFFSMount`, `FFSMountProofs`: the disk label and the selected
   partition (section 8).
7. `FFSFileLock`, `MCFFSFileLock`, `FFSFileLockProofs`: byte-range locks, share
   access and fast I/O of one file (section 9).

Every safety invariant that a passing run checks is a theorem, and so are the three
action properties and the refinement of `FFSPathLookup`; only liveness stays with TLC.
Each of these modules has an inductive invariant `IInv` in its
proofs module, written as named parts, checked with TLC on the module's run first
and then proved: it holds initially, and one lemma per action (or per part and
action) shows that the action keeps it.

Left:

8. An abstract specification of reference-counted files that `FFSVolume`
   implements.
9. CCBs as a part of `FFSVolume`.

## 3. FFSVolume: one mounted volume and its handles

### State

`Vcb`, `Vpb` are records of the C fields the handlers test. An FCB is a member
of `Fcbs` (addresses the lookaside list hands out); `FcbList`, `FFSMcb`,
`FFSFcb`, `OpenHandleCount`, `ReferenceCount` and `NonCachedOpenCount` are its
fields. A file object is a member of `FileObjects` with its `FsContext`, its
`FO_CACHE_SUPPORTED` flag (`Cached`) and the position `pc` of the thread that
serves it. `pnp`, `vfy`, `inv`, `shd` (and `unl`, which runs in one step) are the
system's own requests. `VcbMain` and `Global` are the exclusive holders of
`Vcb->MainResource` and `FFSGlobal->Resource` between steps; `Busy` records the
shared holders; `Todo` is the local list of `FFSPurgeVolume`; `Loaded` the
values `FFSCreateVolume` has read and not written. `VcbInList`, `VcbFreed` and
`Undefined` say what became of the VCB. Files stand for MCB nodes: a file has at
most one MCB here; the name cache is `FFSNameCache`.

### Steps

A handler that runs under the exclusive `Vcb->MainResource` without waiting is
one step. A handler is cut where it waits for a resource, where it hands over to
a worker, and where it reads or writes shared state without the resource:

- **create**: `Create` (the unlocked test of `VCB_VOLUME_LOCKED`) and then one
  of `CreateFile`, `CreateFileFails` (fails after counting), `CreateLeavesFcb`
  (fails and leaves a new FCB), `CreateRefused`, `CreateOpensNothing` (a debug
  build out of memory succeeds without an FCB), or, for the volume,
  `CreateVolumeLoad` and `CreateVolumeStore`, an unprotected increment whose
  outcomes are `RacyInc`.
- **cleanup, close**: `CleanupNow`/`CloseNow`, or `CleanupPend`/`ClosePend`,
  `DeQueue`, `WorkerAcquire` (holds the VCB, waits for the FCB), then
  `CleanupWorker`/`CloseWorker`. The last close of a dismounting volume goes on
  with `CloseRemovesVcb`, `CloseFreesVcb`.
- **volume control**: `LockVolume`, `UnlockVolume`; `DismountVolume`,
  `DismountPurged`; `VerifyVolume`, `VerifyReturns`/`VerifyFails`,
  `VerifyPurged`; `InvalidateVolumes` to `InvalidateFree`; all of them share
  `BeginPurge`/`PurgeFcb` (FFSPurgeVolume, one FCB per step) and
  `CheckDismountGlobal`/`CheckDismount`/`CheckDismountFree`.
- **PnP, unload**: `QueryRemove...`, `Remove...`, `CancelRemove`,
  `PrepareToUnload`; **shutdown**: `ShutDown`, `ShutDownVolume`.

After `FFSFreeVcb` the code may still run on freed memory; a step that does
sets `Undefined`, and the system stops there: nothing is claimed afterwards.

`Requests` says which requests the environment issues in a run. Two members are
not requests but circumstances: `"overwrite"` (creates that fail after they were
counted) and `"nothing"` (creates that succeed without an FCB).

External code (marked so in `map`): an ERESOURCE lets no new sharer in while a
thread waits for it exclusively (`VcbWanted`, `FcbWanted`); the I/O manager
routes a request through `Vpb->DeviceObject` (`Routed`).

### Runs

All runs use two file objects; a hazard of this code needs at most two handles
and one system thread. `MaxULong` is the width of a ULONG (wrap-around is
modelled, and reached in `handles`), `MaxCount` bounds how high a count may be
when an open or a purge starts. It is at least the number of file objects, so
that every handle can be open at once; what it cuts off is more failing opens or
leaked purge references on top of the ones a run already has. `handles` has a
file and a directory, `teardown` two ordinary files that compete for one FCB
address. File objects, FCBs and ordinary files are symmetric, except in
`progress`, which checks liveness.

| Run | Question | Result |
|---|---|---|
| `handles` | Opens of a file, a directory and the volume, late failures, reads, locks: types, `SingleFcbPerFile`, `OpenFileHandleCountIsSum`, `LockOwnerIsOpen`, `LockTakenOnlyWhenQuiet` | holds |
| `teardown` | Handles against dismount, removal, verify, invalidate, unload: `FcbNeverDangling`, `CountsCover` | holds |
| `progress` | Queued cleanups and closes (`QueuedRequestsEnd`), verify, invalidate and shutdown (`SystemRequestEnds`) end | holds |
| `freed` | No queued cleanup or close on a freed VCB | violated: forced dismount, `fsctl.c:1319` |

`NoOpenFileOnLockedVolume`, which is what `FFSLockVcb` refuses a lock for, is in the
module too and refuted by TLC: a create that passed the test of
`VCB_VOLUME_LOCKED` (`create.c:1849`), a lock granted, and then the file opened,
since nothing is tested again under `Vcb->MainResource`. Four more statements
about counts, made by comments of `ffsdrv.h`, are refuted in a few steps: `NonCachedOpenCountIsOfHandles`
(`cleanup.c:158` lowers the count for directories that never raised it),
`OpenHandleCountIsOfHandles` (an overwrite refused at `create.c:1595` stays
counted), `ReferenceCountIsOfFileObjects` (a purge keeps its reference,
`fsctl.c:1358`) and `VcbReferenceCountIsOfFileObjects` (unlocked `++` at
`create.c:1792`). No run repeats them; to see one, put it as the INVARIANT of a
copy of `handles.cfg` or `teardown.cfg` (the last two need `MaxCount` 3). `IInv`,
the inductive invariant below, is proved and no longer among the invariants of
`teardown`, which has its two most important parts.

`LockOwnerIsOpen` is checked without `"nothing"`: a file object without an FCB
may take the volume lock and its cleanup does not look for one (`cleanup.c:83`).
Deadlock is not checked: a volume that is torn down, or whose system stopped at
`Undefined`, has no next step.

### Fairness

`EndIo` is weakly fair: a read or a query ends. What a thread does once it was
started (`HandleProceeds`, `PurgeProceeds`, `PnpProceeds`, `VerifyProceeds`,
`InvalidateProceeds`, `ShutDownVolume`) is strongly fair: it waits only for ERESOURCEs, whose
waiters are queued and so cannot be passed over for ever. Nothing makes a new
request arrive, and nothing is assumed of the disk driver below
a removal (`QueryRemoveLower`); the synchronous requests that a verify and a shutdown
send to the disk while they hold the volume return.

### Proofs

`FFSVolumeProofs` proves, for any numbers of file objects, files and FCBs (the
file objects finite), any `Requests` and any bounds with `MaxCount < MaxULong`:

- `TypeCorrect`: `Spec => []TypeOK`.
- `Invariance`: `Spec => []IInv`. `FcbNeverDangling` alone is not inductive:
  that `FFSClose` frees no FCB somebody points to follows from
  `ReferenceCount = 1` only if the count is at least the number of file objects
  on the FCB, cleaned up ones included, plus one for a purge that has it
  on its list (`CountsCover`); that needs `ContextFollowsPc` (who points to an
  FCB), `SingleFcbPerFile` (a create finds the FCB of its own file) and
  `FreedFcbsUncounted` (a new FCB starts from zero). Each action is shown to
  preserve the conjuncts it can disturb; the rest share lemmas on steps that
  leave handles or counts alone. Cardinality facts come from
  `FiniteSetTheorems`.
- `FcbLifetime`, `CountsAreCover`, `OneFcbPerFile`: from `Invariance`.
- `LockIsExclusive`: `Spec => LockTakenOnlyWhenQuiet`, an action property: a
  lock is granted only when every FCB's `OpenHandleCount` is 0, which by
  `CountsCover` means that no handle is open on any.

The second part of the module builds on `Invariance`:

- `TrustedCount`: `Spec => []OpenFileHandleCountIsSum`. The sum is stated as the
  cardinality of `CountedOpens`, the pairs of an FCB and a number below its
  `OpenHandleCount`: a step adds or removes pairs of one FCB, which is a set
  operation, where a sum over a set would need induction. A handler is shown to
  change `Vcb->OpenFileHandleCount` exactly with the FCB's count, and an FCB that
  leaves the list to have no opens (`CountsCover` and the test of
  `ReferenceCount`).
- `LockEndsWithHandle`: `Spec => []LockOwnerIsOpen` if `"nothing" \notin Requests`.
  Inductive with `HasContext`: a file object past its create and before its cleanup
  has an `FsContext`, so `FFSCleanup` looks for its lock. The hypothesis is needed:
  with `"nothing"` TLC finds a lock that outlives its handle (`cleanup.c:83`).

Only model-checked: the liveness properties (fairness and ENABLED are out
of the prover's reach).

### Not modelled in FFSVolume

CCBs (so not what follows when one cannot be allocated, `create.c:1543`), cache-map
and oplock-like calls, directory notification, the contents of
files, the stream file's own close inside `FFSFreeVcb` (it lowers a count nobody
reads any more), and what the other modules are about.
A lookup that dereferences a null MCB (`create.c:221`) stops the system; it
is in `FFSNameCache`.

## 4. FFSBlockMap and FFSReadInode: from a range of a file to the disk

### State and steps

`FFSBlockMap` has no state. Its first part says what FFS puts on disk: a file is
the function `Address` from block indices to fragments (0 for a hole), and a
pointer of an inode or of an indirect block is the tree of pointers it leads to.
The rest is the code: the geometry of `FFSInitializeVcb` (`dwData`, `dwMeta`,
with shift counts modulo the width of a ULONG), `FFSDataBlocks`,
`FFSTotalBlocks`, the walk of `FFSv1GetBlock`/`FFSv2GetBlock`, and
`FFSv1BlockMap`/`FFSv2BlockMap`. `v` tells the UFS1 and UFS2 functions apart,
which differ only in `PointerBits` and `IndexBits`. An inode has three indirect
pointers and a walk at most three levels, so the loops and recursions of the code
are written out: `DataOfPointer` and `DataOfLayer` are one turn of the outer and
the inner loop of `FFSDataBlocks`, `TotalOfPointer` and `TotalOfLayer` those of
`FFSTotalBlocks`, `Down` is one call of `FFSv1GetBlock`/`FFSv2GetBlock`. A word that is not a pointer of the file (read past the end
of a block of pointers, or through a null pointer) is `Stray`: any value.

`FFSReadInode` is one call of `FFSv1ReadInode`/`FFSv2ReadInode` after another on
a file nobody writes. `BeyondEnd`, `StartBDL` and `NoMemory` are the tests of the
range; `FirstBlock`, `MiddleBlock` and `LastBlock` are the branches of the loop
of `FFSv*BuildBDL`, one block per step; `NoBlock` (a hole or an index out of
range), `PointersUnread` (a block of pointers could not be allocated or read)
and `AllBlocks` end it; `ReadExtents` reads the extents and answers with the size
of the range. `end` records why the building stopped. Reading the extents is not
modelled beyond success or failure; who calls, and how it clips the range to the
file size before, is not either: the ranges start before, in and after the file.

### Runs

Blocks of 16 bytes and 4 fragments, 2 direct pointers: 4 pointers per block for
UFS1, 2 for UFS2, so all levels appear in files of at most 86 blocks. A word has
16 bits, more than any count needs. On disk, three blocks of a file follow each
other, then there is a gap, so extents are merged and split. Ranges start at
block boundaries, inside blocks and under the triple-indirect pointer, and lie
within a block or span up to five. `Files` are the dense UFS1 files of every
length, the dense UFS2 files up to the double-indirect level (one of them in a
partition that does not start its slice), and files with holes in the first,
in direct and in indirect blocks.

| Run | Question | Result |
|---|---|---|
| `readinode` | `TypeOK`, `BdlIsContiguous`, `BdlReadsFile`, `OnlyHolesShortenARead`, `BlockCountsAgree` | holds |

A UFS1 file in a partition that does not start its slice breaks `BdlReadsFile`
(`ffs.c:835` leaves `FSOffset` out), and `ReadsWithinTheAllocation`, what
`ffs.c:1560` asserts, does not hold (`read.c:506` takes sectors for blocks): TLC
refutes both in a few steps, and no run repeats it.

Left out of `ReadableFiles` on purpose, since `BdlReadsFile` fails there: UFS2
files with a triple-indirect block (`ffs.c:642` divides by the pointers of UFS1)
and holes as large as a whole block of pointers (`ffs.c:587` follows a null
pointer). Both are in `hazards`. `OnlyHolesShortenARead` says when the answer is
larger than what was described, not that it never is: `read.c:563` answers with
the whole size although the building stopped at a hole.

There is no liveness to check (a bounded loop).

### Proofs

For any block size (16 bytes or more), any number of direct pointers, any word
width, any files and any ranges:

- `FFSBlockMapProofs!BlockMapIsRight`: `FFSv1BlockMap` and `FFSv2BlockMap` return
  the block that FFS put at index `n`, or none if `n` is past the blocks of the
  file, when the layer that maps `n` is `Walkable` (its counts and shifts fit a
  ULONG, and it is not the triple-indirect one of UFS2) and the blocks of pointers
  over `n` are allocated. Going down, the pointer and the index left always stand
  for the same block (`On`); that is what the wrong divisor of `ffs.c:645` breaks
  one level down.
- `FFSReadInodeProofs!Invariance`: `Spec => []IInv`. `Building` relates the loop
  index to the bytes described (`Offset + dwBytes = i * BlockSize` between two
  blocks), `Chained` the extents to each other and to `dwBytes`; neither is
  inductive without the other, since the length of the last block is what is left.
  `TypeCorrect` and `FillsTheBuffer` (`BdlIsContiguous`) follow.
- `FFSReadInodeProofs!ReadsTheFile`: `Spec => []BdlReadsFile` if all files are
  `ReadableFile`s: UFS1 only on a volume that starts the disk, layers walkable up
  to the last block, and no hole as large as what a block of pointers maps. These
  are the hazards named above and nothing else; the files of `readinode` satisfy
  it, those of `SecondPartition` do not. The step that merges a block
  into the last extent needs `Chained`: the bytes added are the next ones of the
  buffer.

- `FFSReadInodeProofs!NoBlockIsHidden`: `Spec => []OnlyHolesShortenARead` if all
  files are `ReadableFile`s and `CountableFile`s: all counts of the VCB fit a word,
  or the file has no more sectors (`di_blocks` is a number of sectors) than the
  pointers whose counts fit have blocks. `FFSDataBlocks` takes sectors for blocks
  and so is too large, but it never admits an index past the pointers that are
  counted (`DataBlocksAtMost`): a layer of pointers takes off at least what it adds.
  With `Ended`, which remembers why the building stopped, a block that is not found
  is a hole of the file.
- `FFSBlockMapProofs!CountsOfADenseFile`, `FFSReadInodeProofs!AssertedCountsAgree`:
  `Spec => []BlockCountsAgree` if the data blocks of files without holes are below
  pointers whose counts fit a word. `Whole(v, i, m)` is what the first `m` blocks
  below pointer `i` take, themselves and the blocks of pointers over them
  (`Rows`: one for each `Leaves(v, l)` of them, rounded up). Both functions of the
  code are shown to go down the layers with `Whole` as what relates what is left to
  what was counted (`TotalToCome`, `DataToCome`), and the blocks of pointers that
  FFS allocates to be as many, by a bijection with numbers for each row. That the
  data blocks of such a file are `0 .. n - 1` is induction: `Descent` has it by
  counting (a set that has with each number the one before it, mapped to itself by
  subtracting one, cannot lack a number below one it has).

`PowerAssumption` states arithmetic of powers of two, which the prover's SMT solver
does not know; TLC evaluates it.

## 5. FFSNameCache: what a name leads to

### State and steps

`FFSDirTree` is the disk: directories as sequences of entries, names compared
through `Fold` (the driver compares names without case), and `Resolve`, the inode
a path leads to. `FFSPathLookup` is the abstract specification: a create asks a
question, a file object is then open on the inode `Resolve` finds, or on nothing
if the code refuses it or was hindered by a failed read, a failed allocation or a
share conflict. It has no cache.

`FFSNameCache` is the code. `mcb` is the tree under `Vcb->McbTree`, `McbList` the
list in LRU order, `McbAllocated` the count in `FFSGlobal` that other volumes
share (`others`). An FCB is `hasFcb` and `refs` of its MCB. A create holds
`Vcb->MainResource` throughout, so one is followed at a time: `pc`, `request` and
`look` (the locals of the lookup) are its thread.

- `CreateFile` begins; `SearchHit`, `ScanFile`, `ScanMiss`, `ScanFound` and
  `EndOfPath` are one component of `FFSv1LookupFileName`; `ScanFound` includes
  `FFSAllocateMcb` with its reaping (`Reaped`, one step of a recursive function per
  MCB of the list) and `FFSAddMcbNode`.
- `Refuse`, `Open`, `OpenHindered`, `LoadFails`, `NullMcb` are what
  `FFSCreateFile` makes of a lookup; `Dissect`, `DissectNext`, `CreateRefused`,
  `NoParentFcb` take a name that was not found apart to reach its parent, which
  may be given an FCB before the create is refused.
- `Close` is cleanup and close of a handle in one step (`FFSVolume` has them
  apart); `OtherVolume` is the effect of other volumes on the common count.

### Run

A disk with a root, a directory, two files and a `..` entry; the directory holds
two names that differ in case only, of which the lookup must find the first. Three
MCBs beside the root, a limit of two MCBs (`MaxDepth` 1, `McbsPerLevel` 2 for the 16 of
`MCB_NUM_SHIFT`), two handles: a lookup of two components
may have to reap in its middle, and a relative open may start anywhere in the
tree. Handles and MCBs are symmetric.

| Run | Question | Result |
|---|---|---|
| `namecache` | `TypeOK`, `ListIsTree`, `HeldIsKept`, `FullFileNameIsOnDisk`, `CountsAgree`, `ReapingMakesRoom` and the refinement `OpensWhatIsOnDisk` | holds (291,202 states) |

What the abstract specification leaves open is where the code is of two minds: a
name that ends in a backslash and leads to a file is found when the file is
cached and refused when it is not. A name below a file may bring the system down
(`create.c:221`); `NullMcb` restarts it with an empty cache, and the abstract
specification allows that for such names only (`Fault`). A debug build that
cannot allocate an FCB answers success with nothing open; that is one of the
hindered outcomes.

### Proofs

`FFSNameCacheProofs` proves the five invariants of `namecache`, `ReapingMakesRoom`
and the refinement, for every disk, every finite memory for MCBs, any handles, names
and wishes and any limit. `DiskAssumption` and `CacheAssumption` are all it assumes:
inode numbers of directories are not 0, directory entries in use neither
(`FFSv1ScanDir` skips those that are), names are compared through a function,
and there is one name at least. A disk may hold cycles, as `..` makes them.

`IInv` says, beside what the invariants do:

- `Rooted`: going up from anywhere ends at the root, as "every set of MCBs without
  the root has one whose parent is outside of it". Reaping an MCB without children
  and adding one below another keep that with no talk of paths or depths.
- `IsOnDisk`: the inode of an MCB is the one that the directory of its parent gives
  for its name, whatever spelling that name has (`FindSame`).
- `HandlesCount`: an open handle is on an MCB that is there and has an FCB, and the
  FCB is counted once for each handle on it.
- `Forward` and `Backward`, the two rounds of a create: in the first, the MCB that the
  lookup has reached caches the inode where the components before it lead on the disk
  (`Prefix`), and a lookup that gave up is `Excused`, that is, `FFSPathLookup` allows
  that nothing is opened; the second begins with nothing but `Excused` and keeps it.
  That a lookup may fall over a null pointer only below a file is the fourth
  conjunct of `Forward`.

Lookup, path and walk are recursive functions. That such a function exists and has
its type is `Recursion`, and what holds of all of its values is reached by `Ascent`:
a set of numbers that has 0, and with each number below n the next, has all up to n.
Both follow from facts about finite sets, with no theorem that takes an operator.
`ReapedIsPassed` is the invariant of the walk along `McbList`, which is what makes
`ScanFound` one step; `LeafToReap` finds in any tree that is not wholly pinned an
MCB that can go, which `CacheIsBounded` needs. `FullNamesAreRight` climbs the other
way: from the root, the set of MCBs whose full name is known to be right grows by one
with each step until it is all of them, which `Rooted` allows.

`CacheIsInvisible` maps each action: `CreateFile` is `Ask`, `NullMcb` is `Fault`,
`Close` is `Close`, whatever ends a create otherwise is `Answer`, whatever fails is
`Hinder`, and the rest are stutters.

### Not modelled

Double backslashes and names without a leading one, `FILE_OPEN_BY_FILE_ID` (left
unimplemented in the source), `OpenTargetDirectory` and `DeleteOnClose` (refused
on a read-only volume), share modes beyond "not shared" (`FFSFileLock` has them),
and overwrites, which `FFSVolume` has.

## 6. FFSDirectory: one handle's enumeration

### State and steps

`dir` is the directory on disk, a sequence of entries with their `d_reclen` and
the room they take in the caller's buffer, and `at`, the offsets they start at
(each where the one before it ends, which `WellFormed` demands). `pattern` and `current` are
`DirectorySearchPattern` and `CurrentByteOffset` of the CCB; `query` holds the
locals of each `FFSQueryDirectory` under way. Queries hold the directory's
resource shared only, so two IRPs on an asynchronous handle run side by side on
one CCB, and every read or write of it is a step: `TestPattern`,
`AllocatePattern`, `FillPattern`, `Start`, then one entry per step (`PassOver`,
`Return`, `Refuse`, `Blank`, `ReadFails`), `Finish` and `Complete`. How a query is
queued to a worker before that is in `FFSRequest`.

`given`, `since`, `calm` and `torn` are history. `torn` says that the pattern was
used before it was filled in or made twice, which two first queries at once can
do; nothing is claimed of names then. `calm` says that no two queries overlapped
since the scan began.

### Run

Two queries, a directory with a free entry, a match at the very end and entries
of the least size, and one that ends in zeros; requests with a buffer for one to
three entries, single or not, restarted or not, by index or not.

| Run | Question | Result |
|---|---|---|
| `directory` | `TypeOK`, `PositionIsAnEntry`, `NothingSkipped`, `BufferIsChained`, `EndIsTheEnd`, `EachOnce` | holds (2,006,993 states) |

Deadlock is checked: a handle can always be queried again.

### Abstractions

`DirectoryAssumption` says that directories are `WellFormed`, as FFS writes them
(`dir.h:67`; the driver believes the disk): no entry in use has `d_reclen` 0, on
which the loop would not end; entries are at least 12 bytes and fill the directory,
or zeros enough for one more follow them. It matters for `dwSize`, a difference of
ULONGs (`dirctl.c:585`), which wraps when less than 10 bytes are left; `DirEnd` wraps
with it, at `ULongs` values (a CONSTANT; 65536 in the run). With 1 to 9 bytes after
the last entry, which FFS does not leave, the loop would read on behind it: for a
directory with 4 bytes there TLC, in a copy of the run without the assumption,
refutes `PositionIsAnEntry`. `DirectoryAssumption` also says that a caller's buffer has
some room, which `FFSQueryDirectory` leaves to the I/O manager. `PatternAssumption`
keeps the two model values of the pattern apart from names.
Indices that callers give are those the driver gave them (or 0, from
`FileNamesInformation`). A buffer too small for one entry, an inode that cannot
be loaded and an information class not supported all end with
`STATUS_NO_MORE_FILES` or `STATUS_NO_SUCH_FILE`: the code has no status of its
own for them, and `EndIsTheEnd` says so. The write of `DeOffset` under the shared
lock, `FFSIsDirectoryEmpty` and `FFSNotifyReportChange` (used by write paths) are
not modelled.

### Proofs

`FFSDirectoryProofs` proves all six properties of the run for any number of queries,
any requests, any directories as FFS writes them (`WellFormed`) and any `ULongs` that
their sizes fit. `IInv` is:

- `Shape`, `Placed`: a query before its scan has written none of its loop's locals;
  `current`, `base` and where the loop stands are boundaries of entries, and a scan
  starts before the end (`Within`). So at least 12 bytes are left, and `dwSize` does
  not wrap (lemma `NoWrap`); that the loop reads only at entries follows from its
  bound (`DirEnd`) and `WellFormed` (lemmas `Limits` and `Layout`).
- `Chaining`: while a query scans, its buffer is a chain whose last entry, the only
  one at `dwTemp`, leads to `UsedLength`. `BufferIsChained` alone says nothing of
  buffers that are being filled.
- `Together`, as long as the pattern is not `torn`: only one query makes the pattern,
  and nothing is passed before it is made (`NoPatternYet`); every wanted entry
  before `current`, before where any query stands, and before any entry in a buffer
  has been returned (`AllCovered`), since a query may start at `current` or at an
  index a caller got and move `current` anywhere; a scan that has found nothing has
  passed nothing wanted (`NothingPassed`), and one that reports the end had nothing
  left (`Exhausted`).
- `InTurn`, as long as no two queries overlap (`calm`): what was returned since the
  scan began lies before `current`, before the base of the query that scans and
  before all that is in its buffer.

`ReadsWholeEntries`, `NoEntryIsLost`, `BuffersCanBeWalked`, `NoMoreFiles`, `NoEntryTwice`
(an action property) and `TypeCorrect` follow.

## 7. FFSRequest: from the dispatcher to the completion

### State and steps

An IRP has a status, whether its `Information` is the length asked for, the count
of associated IRPs and how often it was completed; a context (`FFS_IRP_CONTEXT`)
has its IRP, `IsSynchronous` and `ExceptionInProgress`, and is memory that is used
again; `of` tells whose it is. `thread` is where the request's thread stands,
`transfer` and `part` the `FFS_RW_CONTEXT` and its associated IRPs, `package` the
IRPs FsRtl or the hard-error thread has.

- `Issue` is `FFSBuildRequest`; `LeaveEarly`, `Proceed`, `Acquire`, `Denied`,
  `Lock`, `Notify` are the beginnings of the handlers; `Copied`, `Fails`,
  `WouldBlock`, `Prepare`, `Starve`, `Send`, `GiveAway`, `Wake` what they do with
  the resource held; `Measure` is `FFSReadVolume` of the stream file, which sets
  `Irp->IoStatus.Information` after `FFSReadWriteBlocks` has returned (`read.c:401`); `Finally` their finally blocks, `Dequeue` the worker.
- `PartReturns` and `PartCounts` are the completion routines, for any order of
  the blocks and beside the thread that is still sending; `PartEnds` is the I/O
  manager, which completes the master with the last.
- `Raise`, `ReadFinally`, `Handle` are an exception, the finally block of
  `FFSRead` and `FFSExceptionHandler`.

### Runs and fairness

Two IRPs of any kind, two contexts, transfers of up to two blocks: two requests
compete for the resource and for contexts, and with two blocks a completion can
come first, last, or during the sending of the other.

| Run | Question | Result |
|---|---|---|
| `request` | `TypeOK`, `CompletedIsReleased`, `NeverLost`, `FailureIsReported`, `ContextIsItsOwn`, `TransferOutlivesParts`, `RequestEnds` | holds (232,280 states) |
| `strayhandler` | `ContextIsItsOwn` when the uninitialised `bCompleteRequest` of `FFSRead` may hold anything | violated: `read.c:1123` |

`Leftovers` is what that variable may hold; the passing run takes `{FALSE}`, so
that everything else is checked for what it does. Each IRP is issued once, so the
runs stop and deadlock is not checked. Threads are strongly fair (`Run`): they
wait for an ERESOURCE, which queues its waiters, and exclusive holders let go
(`WriterLeaves`). The disk driver answers (weak fairness of `Disk`). Nothing makes
FsRtl complete what it was given.

`starved` requests are those for which a pool allocation failed in the middle
(`block.c:224`, `dirctl.c:1083`): the first report the status the IRP came with, or
are forgotten, and the properties leave them out, saying so.

### Proofs

`FFSRequestProofs` proves the run's invariants, for any number of IRPs, contexts (at
least one: `RequestAssumption`) and blocks, all under the hypothesis
`Leftovers = {FALSE}`. The hypothesis is what `strayhandler` shows to be needed: the
code does not give the variable a value. `IInv` says of each request that its thread,
its context, its transfer and its parts agree (`Good`): `Own` (a running request has
its own context, which names its IRP until it is given away), `Waits` (a transfer of the
stream file is waited for, so that its IRP is not given away), `Untouched` (nothing was
asked of the disk before `Prepare`), `CountsRight` (`Blocks` and `IrpCount` are the
numbers of parts whose routine has not counted them, or that are not completed),
`Phases`, `Once`, `Kept` and `Status` (who will complete it, when, and with what). The
properties speak of what can be seen from outside; none is inductive without the
counts.

`TypeCorrect`, `ContextOwned`, `CompletedOnce`, `NothingLost`, `FailuresReported` and
`TransferCovers` follow. `RequestEnds` is liveness and stays with TLC.

### Not modelled

Exceptions the filter does not accept, which stop the system; a
`FFSReadVolume` that leaves before it has an IRP, which no caller causes. Reads of
the stream file (kind `stream`) are synchronous in `Issue`: they come from the cache
manager, as paging I/O that is waited for, and no handle reaches `FFSReadVolume`
without a CCB. It is an assumption about the environment that the code depends on:
were one asynchronous, `Measure` would write an IRP that is given away and may be
completed (`read.c:401`), and TLC refutes `CompletedIsReleased` and
`FailureIsReported` of a copy of `Issue` that allows it. `FFSCleanup` and `FFSClose` go another way through the queue, which
`FFSVolume` has.

## 8. FFSMount: which partition a volume is

### State and steps

`disk` is the label of each slice; `PartitionNumber`, `RootPartition` and
`FSOffset` are fields of `FFSGlobal`, one for all volumes; `mount` holds the
locals of the one mount under way (`FFSGlobal->Resource` is exclusive) and `vcb`
what was mounted. `FFSMountVolume` begins; each index of the loop of
`FFSLoadDiskLabel` is `FoundPartition`, `NoMagic` or `OtherPartition` with
`TakeRoot`; it ends in `Mounted`, `MountFails` or `MountStops` (a null superblock
is read, or one is freed twice; the system starts again).
`FFSSelectBSDPartition` takes no lock and may come between any two of these steps;
`FFSFreeVcb` is the end of a volume. `last`, `seen` and `hindered` are history.

### Run

Two slices with any of five labels of three partitions: the root first, last or
between, swap partitions, both UFS versions, one never formatted. Selections are
any of the three or none.

| Run | Question | Result |
|---|---|---|
| `mount` | `MountsASelection`, `ReadsItsPartition` | holds (2,449,514 states) |

`RootInPlaceOfMissing` is the comment at `fsctl.c:236`: the root replaces a selected
partition that is not there. TLC refutes it, as an INVARIANT of a copy of
`mount.cfg`: the loop replaces the partition when it passes its index
(`fsctl.c:237`), and a root behind it is not known by then, so the volume is mounted
from the superblock at offset 0.

`MountsASelection` and `ReadsItsPartition` speak of mounts whose superblocks could
be read (`clean`) and whose selections have a choice (`HasChoice`): the partition
itself, or a root before it. `ReadsItsPartition` ends with the next mount or
selection, since `FSOffset[PartitionNumber]` is common to all volumes: after it,
every UFS2 volume mounted before is read elsewhere (`fsctl.c:1503`). UFS1 reads
never add the offset (`ffs.c:835`). The version of a volume is that of the last
FFS partition of its label (`fsctl.c:203`), whichever is mounted.

### Proofs

`FFSMountProofs` proves both properties and `TypeOK` for any slices, labels, numbers of
partitions and selections; `LabelAssumption` says that `NoVolume` is no volume. `IInv`
follows the loop of `FFSLoadDiskLabel`: `FSOffset` of the partitions passed is that of
the label (`OffsetsFollow`), `RootPartition` and the locals beside it are the last
root passed (`RootIsLast`), a number ahead of the loop is one that was selected
(`AheadIsSeen`), the superblock is of a selection (`SuperIsChosen`), and while
nothing is selected `PartitionNumber` belongs to the superblock (`NumberIsSuper`). The
two properties only speak of finished mounts, so they say nothing of what the loop
must keep for them.

## 9. FFSFileLock: byte-range locks, share access and fast I/O of one file

### State and steps

`object` is each file object on the file: the access it was opened with and lets
others have (`share`), whether it is unbuffered, whether it has a cache map, which
processes have a handle to it (`holders`), and how far its cleanup is (`at`).
`OpenHandleCount`, `ReferenceCount`, `IsFastIoPossible` and `ShareAccess` are fields
of the FCB; `locks` and `waiting` are `Fcb->FileLockAnchor`; `op` is what a thread of
each process is doing. `late` and `reset` are history: locks that were asked for
before their handle was closed and granted afterwards, and that `IsFastIoPossible`
was reset beside a lock.

- `Open`, `Refused`, `OpenFailsLate` are `FFSCreateFile` on an existing file, with
  `IoCheckShareAccess` or `IoSetShareAccess` and the mark that an unbuffered open
  leaves, also when it is refused (`create.c:1480`).
- `LockControl` and `FastIoLock` mark the file and then ask FsRtl; `Granted`,
  `NotGranted`, `Waits`, `SendIrp` are its answers. `FFSLockControl` and
  `FFSFastIoLock` hold no resource of the file, so anything may come between the mark
  and the answer. `UnlockControl`, `FastIoUnlock` and `CloseHandle`
  (`FFSFastIoUnlockAll`, for a process that closes its last handle while another has
  one) drop locks.
- `ReadFile`, `CopyRead` (FsRtlCopyRead, as `FFSFastIoRead`), `FastIoQuery` and `Done`
  are reads and queries, which hold `Fcb->MainResource` shared.
- `CloseLastHandle`, `Cleanup`, `CleanupLooks`, `CleanupEnds` are `FFSCleanup`, cut where
  locks may come in between: after the locks are dropped and after the look for locks
  left (`cleanup.c:208`). `Close` is `FFSClose`; the last one frees the FCB.

FsRtl's lock package, the share access of the I/O manager and what FsRtlCopyRead tests
before it copies are external, and marked so in `map`.

### Runs

Two file objects, two processes, one byte and one kind of access, since
`IoCheckShareAccess` treats each kind apart and locks conflict byte by byte; opens that
share it or not, cached or not, and one for the attributes only, which takes no part
in sharing. `MaxLocks` = 2 locks held, waited for or asked for are what a conflict
needs. `MaxCount` = 2 and `MaxShares` = 3 bound the counts when an open begins: one more
than the handles, so that counters left too high by an open that failed late or a
cleanup that was not the last are met by a later open. File objects and processes
are symmetric.

| Run | Question | Result |
|---|---|---|
| `filelock` | `TypeOK`, `OpenFilesShare`, `LocksAreOfHandles`, `LockedIsQuestionable` | holds (662,481 states) |
| `fastread` | The comment at `lock.c:80`: fast reads are checked against the locks of others | violated: `fastio.c:99` |

`fastread` shows that the check is called and its answer lost: a conflict is answered
with `FastIoIsQuestionable`, 2, in a BOOLEAN. The properties of `filelock` leave out
what the code does not keep, and say so: locks granted after their handle was closed,
of which the cleanup knows nothing (they stay until the FCB is freed), and the time
after a cleanup that overlooked a lock, or after an unbuffered open, until the next lock
marks the file again.

### Proofs

`FFSFileLockProofs` proves the four invariants of `filelock` for any number of file
objects (finitely many open at a time, as follows from the steps), processes, bytes,
modes and any bounds. `IInv` adds to them:

- `CountsCover`: `OpenHandleCount` is at least the number of handles, and
  `ReferenceCount` is it and the file objects still to be closed. Equality does not
  hold: opens that fail late stay counted.
- `ShareCovers`: for each mode the counters are at least the numbers of handles that
  use it and share it, and the handles that do *not* share it fit between `open` and
  `sharers`. `IoCheckShareAccess` compares `sharers` with `open`; that stale counts in
  both cannot make it overlook a handle is this inequality, and `OpenFilesShare` rests
  on it.
- `AskingIsOpen`, `WaitingIsForLocks`, `MarkedWhenAsked`, `NoLocksIsRight`: what holds
  between the mark and the answer of FsRtl, and between the look of a cleanup for
  locks and its store.

### Counters

The share counters only grow while a handle is open (`cleanup.c:311` removes those of
the last handle only, and nothing those of an open that failed late), so opens may be
refused that nobody objects to; `OpenFilesShare` says that none is admitted wrongly.

Each file object is opened again and again, but handles may stay open and counts at
their bound, so deadlock is not checked. There is no liveness: a lock may wait for ever
for a handle that stays open.

### Not modelled

Lock keys (an unlock by key drops some of a process's own locks, as any other), fast
writes (refused on a read-only volume, `fastio.c:103`), the purge of cached data when
only unbuffered handles are left, and the calls of `FsRtlExitFileSystem` on the early
exits of `fastio.c` that have not called `FsRtlEnterFileSystem`.

## 10. Not modelled

- **Writes**: `write.c`, and the parts of `create.c`, `fileinfo.c`, `ffs.c`,
  `memory.c`, `dirctl.c` and `cleanup.c` that only run on a volume that is not
  read-only. `FFS_READ_ONLY` is defined (`ffsdrv.h:41`), every volume is
  `VCB_READ_ONLY` (`memory.c:1541-1570`) and every handler refuses first.
- **Flush** (`flush.c`): there is nothing dirty to flush; each function returns at
  once on a read-only volume. Shutdown is in `FFSVolume`.
- **`cmcb.c`**: the callbacks of the cache manager, which take and release one
  resource each.
- **`fileinfo.c`, `volinfo.c`**: the layout of answers; how the request runs is in
  `FFSRequest`.
- **`debug.c`, `misc.c`, `init.c`**: text, names, registry parameters.
- **`ffsdrv-0.3`, the mount manager tool, `ntifs.h`**: an older release of this
  driver and its front end, which the files at the top replace. They are more than
  half of the lines of the repository, which is why the share of the source that
  the modules translate is small.
