----------------------------- MODULE FFSFileLock -----------------------------
(* One file and its FCB: the file objects open on it with the access they   *)
(* share, the byte-range locks of processes, and the fast I/O that passes   *)
(* the driver's dispatch by (lock.c, fastio.c, and the parts of create.c,   *)
(* cleanup.c, close.c and read.c that share this state).  The I/O manager,  *)
(* FsRtl's lock package and the cache manager are external.                 *)
EXTENDS Naturals, FiniteSets

CONSTANTS
  FileObjects,
  Processes,    \* one thread of each has an operation in progress
  NoObject,     \* the file object of no operation
  Bytes,        \* the bytes that locks and reads range over
  Modes,        \* the kinds of access that are shared or not
  OpenKinds,    \* what opens ask for: an access, a share access, and caching
  LockKinds,    \* whether locks asked for are exclusive
  MaxCount,     \* bound: no open is tried above this Fcb->ReferenceCount
  MaxShares,    \* bound: or this Fcb->ShareAccess.OpenCount
  MaxLocks      \* bound: the locks that are asked for, waited for or held

ASSUME FileLockAssumption ==
  /\ "read" \in Modes
  /\ OpenKinds \subseteq [access : SUBSET Modes, share : SUBSET Modes, uncached : BOOLEAN]
  /\ LockKinds \subseteq BOOLEAN
  /\ NoObject \notin FileObjects /\ {MaxCount, MaxShares, MaxLocks} \subseteq Nat

VARIABLES
  object,            \* the file objects, with the handles that processes have
  OpenHandleCount, ReferenceCount, IsFastIoPossible,    \* of the FCB
  ShareAccess,       \* of the FCB: how many files are open, use and share a mode
  locks, waiting,    \* Fcb->FileLockAnchor: granted, and IRPs that wait
  op,                \* what a thread of the process is doing
  late,              \* history: locks asked for on a handle that was closed meanwhile
  reset              \* history: IsFastIoPossible was reset beside a lock

vars == <<object, OpenHandleCount, ReferenceCount, IsFastIoPossible, ShareAccess,
          locks, waiting, op, late, reset>>

FastIoIsNotPossible == 0
FastIoIsPossible == 1
FastIoIsQuestionable == 2

Ranges == SUBSET Bytes \ {{}}

Locks == [obj : FileObjects, process : Processes, bytes : Ranges, exclusive : BOOLEAN]

(* A file object, in the terms of its handles and of FFSCleanup *)
ObjectRecord ==
  [at : {"none", "open", "closing", "unlocked", "nolocks", "locks", "cleaned"},
   access : SUBSET Modes, share : SUBSET Modes, uncached : BOOLEAN,
   PrivateCacheMap : BOOLEAN, holders : SUBSET Processes]

(* SHARE_ACCESS *)
ShareRecord == [open : Nat, users : [Modes -> Nat], sharers : [Modes -> Nat]]

OpRecord ==
  [at : {"idle", "fastlock", "lock", "sharing"}, obj : FileObjects \cup {NoObject},
   bytes : SUBSET Bytes, exclusive : BOOLEAN]

TypeOK ==
  /\ object \in [FileObjects -> ObjectRecord]
  /\ ReferenceCount \in 0 .. MaxCount + 1 /\ OpenHandleCount \in 0 .. ReferenceCount
  /\ IsFastIoPossible \in {FastIoIsNotPossible, FastIoIsPossible, FastIoIsQuestionable}
  /\ ShareAccess \in ShareRecord
  /\ locks \subseteq Locks /\ waiting \subseteq Locks /\ late \subseteq locks \cup waiting
  /\ op \in [Processes -> OpRecord]
  /\ reset \in BOOLEAN

NotOpen == [at |-> "none", access |-> {}, share |-> {}, uncached |-> FALSE,
            PrivateCacheMap |-> FALSE, holders |-> {}]
NoOp == [at |-> "idle", obj |-> NoObject, bytes |-> {}, exclusive |-> FALSE]
NobodyOpen == [open |-> 0, users |-> [m \in Modes |-> 0], sharers |-> [m \in Modes |-> 0]]

Init ==
  /\ object = [o \in FileObjects |-> NotOpen]
  /\ OpenHandleCount = 0 /\ ReferenceCount = 0
  /\ IsFastIoPossible = FastIoIsNotPossible
  /\ ShareAccess = NobodyOpen
  /\ locks = {} /\ waiting = {} /\ late = {} /\ reset = FALSE
  /\ op = [p \in Processes |-> NoOp]
-----------------------------------------------------------------------------
(* Vcb->MainResource and Fcb->MainResource: a cleanup holds both exclusive  *)
(* until it ends, an open the first and a close both within one step here;  *)
(* reads, fast or not, and queries hold the second shared.                  *)
Cleaning == \E o \in FileObjects : object[o].at \in {"unlocked", "nolocks", "locks"}
Shared == \E p \in Processes : op[p].at = "sharing"

Becomes(o, s) == object' = [object EXCEPT ![o].at = s]

CanUse(p, o) == op[p].at = "idle" /\ object[o].at = "open" /\ p \in object[o].holders

AsksFor(p, o, by, b, e) ==
  op' = [op EXCEPT ![p] = [at |-> by, obj |-> o, bytes |-> b, exclusive |-> e]]

Asking == { p \in Processes : op[p].at \in {"fastlock", "lock"} }

LockOf(p) == [obj |-> op[p].obj, process |-> p, bytes |-> op[p].bytes, exclusive |-> op[p].exclusive]
-----------------------------------------------------------------------------
(* Sharing: IoCheckShareAccess, IoSetShareAccess, IoRemoveShareAccess       *)

Sharable(a, s) ==
  a # {} =>
    /\ \A m \in a : ShareAccess.sharers[m] = ShareAccess.open
    /\ \A m \in Modes \ s : ShareAccess.users[m] = 0

One(b) == IF b THEN 1 ELSE 0

Sharing(before, a, s) ==
  IF a = {} THEN before
  ELSE [open |-> before.open + 1,
        users |-> [m \in Modes |-> before.users[m] + One(m \in a)],
        sharers |-> [m \in Modes |-> before.sharers[m] + One(m \in s)]]

NotSharing(a, s) ==
  IF a = {} THEN ShareAccess
  ELSE [open |-> ShareAccess.open - 1,
        users |-> [m \in Modes |-> ShareAccess.users[m] - One(m \in a)],
        sharers |-> [m \in Modes |-> ShareAccess.sharers[m] - One(m \in s)]]
-----------------------------------------------------------------------------
(* FFSCreateFile on an existing file, under Vcb->MainResource: the FCB is   *)
(* taken from the MCB, or made when no file object refers to one.           *)

(* Mistaken: off by one. *)
FirstOpen_OneOff == OpenHandleCount <= 1
(* The first open sets what is shared; others are checked against it. *)
FirstOpen == OpenHandleCount = 0

Admitted(a, s) == FirstOpen \/ Sharable(a, s)

ShareAccessAfter(a, s) == Sharing(IF FirstOpen THEN NobodyOpen ELSE ShareAccess, a, s)

(* A lock is held, or a request for one has marked the file already. *)
LockedOrAbout == locks # {} \/ Asking # {}

(* FO_NO_INTERMEDIATE_BUFFERING declares fast I/O possible, locks or not,   *)
(* and before the access is checked.                                        *)
MarkedByOpen(uncached) ==
  /\ IsFastIoPossible' = IF uncached THEN FastIoIsPossible ELSE IsFastIoPossible
  /\ reset' = (reset \/ (uncached /\ LockedOrAbout))

CanOpen == ~Cleaning /\ ReferenceCount < MaxCount /\ ShareAccess.open < MaxShares

(* Mistaken: no reference. *)
CountOpen_NoReference ==
  /\ OpenHandleCount' = OpenHandleCount + 1
  /\ UNCHANGED ReferenceCount
CountOpen ==
  /\ OpenHandleCount' = OpenHandleCount + 1
  /\ ReferenceCount' = ReferenceCount + 1

Open(p, o, a, s, uncached) ==
  /\ object[o].at = "none" /\ CanOpen /\ Admitted(a, s)
  /\ MarkedByOpen(uncached)
  /\ ShareAccess' = ShareAccessAfter(a, s)
  /\ CountOpen
  /\ object' = [object EXCEPT ![o] =
       [at |-> "open", access |-> a, share |-> s, uncached |-> uncached,
        PrivateCacheMap |-> FALSE, holders |-> {p}]]
  /\ UNCHANGED <<locks, waiting, op, late>>

(* STATUS_SHARING_VIOLATION *)
Refused(a, s, uncached) ==
  /\ CanOpen /\ ~Admitted(a, s)
  /\ MarkedByOpen(uncached)
  /\ UNCHANGED <<object, OpenHandleCount, ReferenceCount, ShareAccess, locks, waiting, op, late>>

(* An open for writing that meets a mapped image, or an overwrite on a      *)
(* read-only volume, fails when all of it has been counted.                 *)
OpenFailsLate(a, s, uncached) ==
  /\ CanOpen /\ Admitted(a, s)
  /\ MarkedByOpen(uncached)
  /\ ShareAccess' = ShareAccessAfter(a, s)
  /\ CountOpen
  /\ UNCHANGED <<object, locks, waiting, op, late>>

(* DuplicateHandle, or a process that inherits it *)
Duplicate(p, q, o) ==
  /\ object[o].at = "open" /\ p \in object[o].holders
  /\ object' = [object EXCEPT ![o].holders = @ \cup {q}]
  /\ UNCHANGED <<OpenHandleCount, ReferenceCount, IsFastIoPossible, ShareAccess,
                 locks, waiting, op, late, reset>>
-----------------------------------------------------------------------------
(* FsRtl's locks: an exclusive lock overlaps no other. *)

Compatible(l, k) == l.bytes \cap k.bytes = {} \/ (~l.exclusive /\ ~k.exclusive)

Grantable(l, held) == \A k \in held : Compatible(l, k)

(* Locks go, and waiting ones are granted as far as they can be. *)
Release(S) ==
  LET left == locks \ S
      asking == waiting \ S
  IN \E granted \in SUBSET asking :
       /\ \A l \in granted : Grantable(l, (left \cup granted) \ {l})
       /\ \A l \in asking \ granted : ~Grantable(l, left \cup granted)
       /\ locks' = left \cup granted
       /\ waiting' = asking \ granted
       /\ late' = late \ S

Own(o, p) == { l \in locks : l.obj = o /\ l.process = p }
OwnOrWaiting(o, p) == { l \in locks \cup waiting : l.obj = o /\ l.process = p }

(* Another's exclusive lock on what is read *)
ReadConflict(p, o, b) ==
  \E l \in locks : l.exclusive /\ l.bytes \cap b # {} /\ <<l.obj, l.process>> # <<o, p>>

(* FFSLockControl and FFSFastIoLock mark the file first. *)
Questionable ==
  /\ IsFastIoPossible' = FastIoIsQuestionable
  /\ reset' = (reset /\ \E o \in FileObjects : object[o].at = "nolocks")

CanLock(p, o) ==
  /\ CanUse(p, o) /\ object[o].access # {}
  /\ Cardinality(Asking) + Cardinality(locks \cup waiting) < MaxLocks

unlocked == <<locks, waiting, late>>

LockControl(p, o, b, e) ==
  /\ CanLock(p, o)
  /\ Questionable
  /\ AsksFor(p, o, "lock", b, e)
  /\ UNCHANGED <<object, OpenHandleCount, ReferenceCount, ShareAccess, unlocked>>

FastIoLock(p, o, b, e) ==
  /\ CanLock(p, o)
  /\ Questionable
  /\ AsksFor(p, o, "fastlock", b, e)
  /\ UNCHANGED <<object, OpenHandleCount, ReferenceCount, ShareAccess, unlocked>>

IsLate(l) == ~(object[l.obj].at \in {"open", "closing"} /\ l.process \in object[l.obj].holders)

(* FsRtlProcessFileLock or FsRtlFastLock grants it, also when the handle    *)
(* has been closed in the meantime: neither function looks for that.        *)
Granted(p) ==
  /\ p \in Asking /\ Grantable(LockOf(p), locks)
  /\ locks' = locks \cup {LockOf(p)}
  /\ late' = IF IsLate(LockOf(p)) THEN late \cup {LockOf(p)} ELSE late
  /\ reset' = (reset \/ \E o \in FileObjects : object[o].at = "nolocks")
  /\ op' = [op EXCEPT ![p] = NoOp]
  /\ UNCHANGED <<object, OpenHandleCount, ReferenceCount, IsFastIoPossible, ShareAccess, waiting>>

(* FailImmediately; or FsRtl knows that the file object is cleaned up *)
NotGranted(p) ==
  /\ p \in Asking
  /\ ~Grantable(LockOf(p), locks) \/ object[op[p].obj].at = "cleaned"
  /\ op' = [op EXCEPT ![p] = NoOp]
  /\ UNCHANGED <<object, OpenHandleCount, ReferenceCount, IsFastIoPossible, ShareAccess,
                 unlocked, reset>>

(* The IRP waits for the lock. *)
Waits(p) ==
  /\ op[p].at = "lock" /\ ~Grantable(LockOf(p), locks)
  /\ waiting' = waiting \cup {LockOf(p)}
  /\ late' = IF IsLate(LockOf(p)) THEN late \cup {LockOf(p)} ELSE late
  /\ op' = [op EXCEPT ![p] = NoOp]
  /\ UNCHANGED <<object, OpenHandleCount, ReferenceCount, IsFastIoPossible, ShareAccess, locks, reset>>

(* FFSFastIoLock would have to wait: FALSE, and the IRP is sent. *)
SendIrp(p) ==
  /\ op[p].at = "fastlock" /\ ~Grantable(LockOf(p), locks)
  /\ Questionable
  /\ op' = [op EXCEPT ![p].at = "lock"]
  /\ UNCHANGED <<object, OpenHandleCount, ReferenceCount, ShareAccess, unlocked>>

(* Some of its own locks, or all, by IRP or by fast I/O *)
Unlocks(p, o) ==
  /\ CanUse(p, o) /\ Own(o, p) # {}
  /\ \E S \in SUBSET Own(o, p) \cup {OwnOrWaiting(o, p)} : S # {} /\ Release(S)
  /\ UNCHANGED <<object, OpenHandleCount, ReferenceCount, ShareAccess, op>>

UnlockControl(p, o) == Unlocks(p, o) /\ Questionable

FastIoUnlock(p, o) == Unlocks(p, o) /\ UNCHANGED <<IsFastIoPossible, reset>>
-----------------------------------------------------------------------------
(* Reads *)

(* Holds Fcb->MainResource shared *)
Shares(p) == op' = [op EXCEPT ![p].at = "sharing"]

CanRead(p, o) == CanUse(p, o) /\ "read" \in object[o].access /\ ~Cleaning

(* FFSReadFile.  Where a lock conflicts it returns                          *)
(* STATUS_FILE_LOCK_CONFLICT; a cached read makes the cache map.            *)
ReadFile(p, o, b) ==
  /\ CanRead(p, o) /\ ~ReadConflict(p, o, b)
  /\ object' = [object EXCEPT ![o].PrivateCacheMap = @ \/ ~object[o].uncached]
  /\ Shares(p)
  /\ UNCHANGED <<OpenHandleCount, ReferenceCount, IsFastIoPossible, ShareAccess, unlocked, reset>>

(* FFSFastIoCheckIfPossible: bPossible of a read.  On a conflict it is      *)
(* FastIoIsQuestionable, which is not FALSE.                                *)
CheckIfPossible(p, o, b) ==
  IF ReadConflict(p, o, b) THEN FastIoIsQuestionable ELSE FastIoIsPossible

(* What FsRtlCopyRead, as FastIoRead, looks at once it has the resource *)
FastReadPossible(p, o, b) ==
  /\ object[o].PrivateCacheMap
  /\ IsFastIoPossible # FastIoIsNotPossible
  /\ IsFastIoPossible = FastIoIsQuestionable => CheckIfPossible(p, o, b) # FastIoIsNotPossible

CopyRead(p, o, b) ==
  /\ CanRead(p, o) /\ FastReadPossible(p, o, b)
  /\ Shares(p)
  /\ UNCHANGED <<object, OpenHandleCount, ReferenceCount, IsFastIoPossible, ShareAccess,
                 unlocked, reset>>

(* FFSFastIoQueryBasicInfo, FFSFastIoQueryStandardInfo and                  *)
(* FFSFastIoQueryNetworkOpenInfo, with Wait or with the resource at hand    *)
FastIoQuery(p, o) ==
  /\ CanUse(p, o) /\ ~Cleaning
  /\ Shares(p)
  /\ UNCHANGED <<object, OpenHandleCount, ReferenceCount, IsFastIoPossible, ShareAccess,
                 unlocked, reset>>

Done(p) ==
  /\ op[p].at = "sharing"
  /\ op' = [op EXCEPT ![p] = NoOp]
  /\ UNCHANGED <<object, OpenHandleCount, ReferenceCount, IsFastIoPossible, ShareAccess,
                 unlocked, reset>>
-----------------------------------------------------------------------------
(* The I/O manager drops the locks of a process with its last handle, by    *)
(* FFSFastIoUnlockAll, where another process has one.                       *)
CloseHandle(p, o) ==
  /\ object[o].at = "open" /\ p \in object[o].holders /\ object[o].holders # {p}
  /\ Release(OwnOrWaiting(o, p))
  /\ object' = [object EXCEPT ![o].holders = @ \ {p}]
  /\ UNCHANGED <<OpenHandleCount, ReferenceCount, IsFastIoPossible, ShareAccess, op, reset>>

(* The last handle of all: holders keeps who closed it, the requestor. *)
CloseLastHandle(p, o) ==
  /\ object[o].at = "open" /\ object[o].holders = {p}
  /\ Becomes(o, "closing")
  /\ UNCHANGED <<OpenHandleCount, ReferenceCount, IsFastIoPossible, ShareAccess,
                 unlocked, op, reset>>

(* Mistaken: only the last handle on the file drops its locks. *)
DroppedByCleanup_LastOnly(o) ==
  UNION { OwnOrWaiting(o, p) : p \in { q \in object[o].holders : OpenHandleCount = 1 } }
(* FFSCleanup: FsRtlFastUnlockAll *)
DroppedByCleanup(o) == UNION { OwnOrWaiting(o, p) : p \in object[o].holders }

Cleanup(o) ==
  /\ object[o].at = "closing" /\ ~Cleaning /\ ~Shared
  /\ OpenHandleCount' = OpenHandleCount - 1
  /\ Release(DroppedByCleanup(o))
  /\ Becomes(o, "unlocked")
  /\ UNCHANGED <<ReferenceCount, IsFastIoPossible, ShareAccess, op, reset>>

(* Mistaken: not looked for. *)
AnyLockLeft_NotAsked == FALSE
(* FsRtlGetNextFileLock: is there a lock of another left? *)
AnyLockLeft == locks # {}

CleanupLooks(o) ==
  /\ object[o].at = "unlocked"
  /\ Becomes(o, IF AnyLockLeft THEN "locks" ELSE "nolocks")
  /\ UNCHANGED <<OpenHandleCount, ReferenceCount, IsFastIoPossible, ShareAccess,
                 unlocked, op, reset>>

(* It keeps the share counters of all but the last handle. *)
CleanupEnds(o) ==
  /\ object[o].at \in {"locks", "nolocks"}
  /\ IsFastIoPossible' = IF object[o].at = "nolocks" THEN FastIoIsPossible ELSE IsFastIoPossible
  /\ reset' = \/ reset
               \/ (object[o].at = "nolocks" /\ Asking # {})
  /\ ShareAccess' = IF OpenHandleCount = 0 THEN NotSharing(object[o].access, object[o].share)
                    ELSE ShareAccess
  /\ object' = [object EXCEPT ![o] = [NotOpen EXCEPT !.at = "cleaned"]]
  /\ UNCHANGED <<OpenHandleCount, ReferenceCount, unlocked, op>>

(* FFSClose, when nothing refers to the file object any more.  The last     *)
(* one frees the FCB, and FsRtlUninitializeFileLock what locks are left.    *)
LastReference == ReferenceCount = 1

Close(o) ==
  /\ object[o].at = "cleaned" /\ ~Cleaning /\ ~Shared
  /\ \A p \in Processes : op[p].obj # o
  /\ \A l \in waiting : l.obj # o
  /\ ReferenceCount' = ReferenceCount - 1
  /\ object' = [object EXCEPT ![o] = NotOpen]
  /\ IF LastReference
     THEN /\ IsFastIoPossible' = FastIoIsNotPossible
          /\ ShareAccess' = NobodyOpen
          /\ locks' = {} /\ waiting' = {} /\ late' = {} /\ reset' = FALSE
     ELSE UNCHANGED <<IsFastIoPossible, ShareAccess, unlocked, reset>>
  /\ UNCHANGED <<OpenHandleCount, op>>
-----------------------------------------------------------------------------
Opens(p, o) ==
  \E k \in OpenKinds :
    \/ Open(p, o, k.access, k.share, k.uncached)
    \/ Refused(k.access, k.share, k.uncached)
    \/ OpenFailsLate(k.access, k.share, k.uncached)

Asks(p, o) ==
  \/ \E b \in Ranges, e \in LockKinds : LockControl(p, o, b, e) \/ FastIoLock(p, o, b, e)
  \/ UnlockControl(p, o) \/ FastIoUnlock(p, o)
  \/ \E b \in Ranges : ReadFile(p, o, b) \/ CopyRead(p, o, b)
  \/ FastIoQuery(p, o)

Next ==
  \/ \E p \in Processes, o \in FileObjects :
       \/ Opens(p, o) \/ Asks(p, o) \/ CloseHandle(p, o) \/ CloseLastHandle(p, o)
       \/ \E q \in Processes : Duplicate(p, q, o)
  \/ \E p \in Processes : Granted(p) \/ NotGranted(p) \/ Waits(p) \/ SendIrp(p) \/ Done(p)
  \/ \E o \in FileObjects : Cleanup(o) \/ CleanupLooks(o) \/ CleanupEnds(o) \/ Close(o)

Spec == Init /\ [][Next]_vars
-----------------------------------------------------------------------------
(* Two handles that are open at a time agree with what each other lets      *)
(* others do, although FFSCreateFile and FFSCleanup keep the counters of    *)
(* Fcb->ShareAccess too high and start them again at the first open.        *)
OpenFilesShare ==
  \A o, q \in FileObjects :
    /\ o # q /\ object[o].at \in {"open", "closing"} /\ object[q].at \in {"open", "closing"}
    /\ object[q].access # {}
    => object[o].access \subseteq object[q].share

(* Locks go with the handle that holds them, whichever process closes it    *)
(* last: but for those that were on their way when it was closed, the owner *)
(* of a lock, granted or waited for, has its handle still, or the cleanup   *)
(* that FFSCleanup runs is to drop them.                                    *)
LocksAreOfHandles ==
  \A l \in (locks \cup waiting) \ late :
    object[l.obj].at \in {"open", "closing"} /\ l.process \in object[l.obj].holders

(* While the file has byte-range locks, FsRtl is told to ask before it does *)
(* fast I/O (lock.c, FFSLockControl), through every cleanup that looks for  *)
(* locks left by others; but for a lock that FFSCleanup overlooks because   *)
(* it comes between its look and its store, and for an uncached open.       *)
LockedIsQuestionable ==
  locks # {} /\ ~reset => IsFastIoPossible = FastIoIsQuestionable

(* lock.c says that the file is marked "so that the FastIoCheckIfPossible   *)
(* function is called to check the locks for any fast I/O read/write        *)
(* operation": fast I/O never starts to read what another has locked.  The  *)
(* code does not keep it.                                                   *)
FastReadsRespectLocks ==
  \A p \in Processes, o \in FileObjects, b \in Ranges :
    CanRead(p, o) /\ FastReadPossible(p, o, b) => ~ReadConflict(p, o, b)
=============================================================================
