------------------------------ MODULE FFSVolume ------------------------------
(***************************************************************************)
(* One mounted FFS volume and the file objects opened on it: how IRP_MJ_   *)
(* CREATE, CLEANUP and CLOSE move the counts of the volume control block   *)
(* (VCB) and of the file control blocks (FCBs), what the volume-wide       *)
(* requests (lock, unlock, dismount, verify, invalidate, PnP removal,      *)
(* driver unload) do to them, and who holds which ERESOURCE meanwhile.     *)
(*                                                                         *)
(* A handler body that runs under the exclusive Vcb->MainResource and does *)
(* not wait is one step.  A handler is cut where it waits, or where the    *)
(* code reads or writes without the resource.                              *)
(***************************************************************************)
EXTENDS Integers, FiniteSets

CONSTANTS
  FileObjects,   \* file objects the I/O manager may have open on the volume
  Files,         \* MCB nodes: the files and directories of the volume
  Dirs,          \* those that are directories
  Fcbs,          \* addresses the FCB lookaside list can hand out
  VolumeObject,  \* FsContext of a file object opened on the volume itself
  NoObject,      \* the null pointer; nobody
  MaxULong,      \* largest ULONG
  MaxCount,      \* bound: no open, and no purge, starts with a count that reached it
  Requests       \* the kinds of requests the environment may issue

AllRequests == { "read", "query", "volume", "lock", "overwrite", "dismount",
                 "remove", "verify", "invalidate", "unload", "shutdown", "nothing" }

ASSUME ConstantsAssumption ==
  /\ IsFiniteSet(FileObjects)
  /\ Dirs \subseteq Files
  /\ NoObject \notin FileObjects \cup Files \cup Fcbs
  /\ VolumeObject \notin Fcbs \cup {NoObject}
  /\ FileObjects \cap {"pnp", "vfy", "inv", "unl", "shd"} = {}
  /\ NoObject \notin {"pnp", "vfy", "inv", "unl", "shd"}
  /\ MaxULong \in Nat /\ MaxCount \in Nat /\ MaxCount < MaxULong
  /\ Requests \subseteq AllRequests

(* The system threads: plug and play, IRP_MN_VERIFY_VOLUME,                *)
(* FSCTL_INVALIDATE_VOLUMES, IOCTL_PREPARE_TO_UNLOAD and IRP_MJ_SHUTDOWN.  *)
SysThreads == { "pnp", "vfy", "inv", "unl", "shd" }
Threads == FileObjects \cup SysThreads

VARIABLES
  pc,                 \* where the thread serving a file object, or a system thread, is
  FsContext,          \* FileObject->FsContext (IrpContext->Fcb once a close is delayed)
  Cached,             \* FO_CACHE_SUPPORTED of a file object
  Busy,               \* resource a read or query on a file object holds shared
  FcbList,            \* Vcb->FcbList: the FCBs that exist
  FFSMcb,             \* Fcb->FFSMcb
  FFSFcb,             \* Mcb->FFSFcb
  OpenHandleCount,    \* Fcb->OpenHandleCount
  ReferenceCount,     \* Fcb->ReferenceCount
  NonCachedOpenCount, \* Fcb->NonCachedOpenCount
  Vcb,                \* counts, flags and LockFile of the VCB
  Vpb,                \* VPB_MOUNTED, VPB_LOCKED and whether DeviceObject is the volume's
  VcbMain,            \* thread that keeps Vcb->MainResource exclusively across steps
  Global,             \* thread that holds FFSGlobal->Resource
  Todo,               \* FFSPurgeVolume's local list: FCBs still to purge
  Loaded,             \* counts read by FFSCreateVolume and not yet written back
  VcbInList,          \* Vcb->Next is linked into FFSGlobal->VcbList
  VcbFreed,           \* FFSFreeVcb has run
  Undefined           \* a thread used the VCB after FFSFreeVcb, unlinked it twice, or
                      \* followed a null pointer

fcbVars  == <<FcbList, FFSMcb, FFSFcb, OpenHandleCount, ReferenceCount, NonCachedOpenCount>>
foVars   == <<FsContext, Cached>>
lifeVars == <<VcbInList, VcbFreed, Undefined>>
vars == <<pc, foVars, Busy, fcbVars, Vcb, Vpb, VcbMain, Global, Todo, Loaded, lifeVars>>

(***************************************************************************)
(* Program counters.                                                       *)
(***************************************************************************)
CheckPcs == { "ckGlobal", "ckVcb", "ckFree" }                  \* FFSCheckDismount
OpenPcs == { "open", "cleanupQ", "cleanupA", "cleanupW", "dmPurge" } \cup CheckPcs
CleanPcs == { "clean", "closeQ", "closeA", "closeW" }          \* cleaned up, not closed
FilePcs == { "none", "opening", "volStore", "clGlobal", "clFree" } \cup OpenPcs \cup CleanPcs
SysPcs == { "idle", "qrPurge", "qrFail", "qrLower", "srLower", "srPurge", "vfVcb",
            "vfPurge", "ivVcb", "ivPurge", "ivCheck", "ivFree", "sdVcb" } \cup CheckPcs

(* File objects whose handle on x is open; those cleaned up but not closed.*)
Handles(x) == { f \in FileObjects : FsContext[f] = x /\ pc[f] \in OpenPcs }
Cleaned(x) == { f \in FileObjects : FsContext[f] = x /\ pc[f] \in CleanPcs }

(* ULONG arithmetic of the ++ and -- operators. *)
Inc(n) == IF n = MaxULong THEN 0 ELSE n + 1
Dec_Signed(n) == n - 1                       \* mistaken: a LONG
Dec(n) == IF n = 0 THEN MaxULong ELSE n - 1

Goto(t, label) == pc' = [pc EXCEPT ![t] = label]

(* Every step of a handler uses the VCB: after FFSFreeVcb that is a use of *)
(* freed memory and of deleted resources, and nothing is promised any more.*)
TouchVcb == /\ Undefined' = VcbFreed
            /\ UNCHANGED <<VcbInList, VcbFreed>>

Init ==
  /\ pc = [t \in Threads |-> IF t \in FileObjects THEN "none" ELSE "idle"]
  /\ FsContext = [f \in FileObjects |-> NoObject]
  /\ Cached = [f \in FileObjects |-> FALSE]
  /\ Busy = [f \in FileObjects |-> "no"]
  /\ FcbList = {}
  /\ FFSMcb = [x \in Fcbs |-> NoObject]
  /\ FFSFcb = [p \in Files |-> NoObject]
  /\ OpenHandleCount = [x \in Fcbs |-> 0]
  /\ ReferenceCount = [x \in Fcbs |-> 0]
  /\ NonCachedOpenCount = [x \in Fcbs |-> 0]
  /\ Vcb = [ OpenFileHandleCount |-> 0, ReferenceCount |-> 0, OpenHandleCount |-> 0,
             VOLUME_LOCKED |-> FALSE, MOUNTED |-> TRUE, DISMOUNT_PENDING |-> FALSE,
             LockFile |-> NoObject ]
  /\ Vpb = [MOUNTED |-> TRUE, LOCKED |-> FALSE, DeviceObject |-> TRUE]
  /\ VcbMain = NoObject
  /\ Global = NoObject
  /\ Todo = {}
  /\ Loaded = [f \in FileObjects |-> [ref |-> 0, open |-> 0]]
  /\ VcbInList = TRUE
  /\ VcbFreed = FALSE
  /\ Undefined = FALSE

(* The I/O manager sends a request on an open file object, and a PnP       *)
(* request, to the driver by way of Vpb->DeviceObject: none arrives once   *)
(* that is null. *)
Routed == Vpb.DeviceObject

(***************************************************************************)
(* The resources.  Vcb->MainResource is held exclusively by VcbMain or by  *)
(* the step that runs, and shared by volume queries; Fcb->MainResource is  *)
(* held shared by reads and file queries.                                  *)
(***************************************************************************)
VcbFree == /\ VcbMain = NoObject
           /\ \A f \in FileObjects : Busy[f] # "vcb"
FcbFree(x) == \A f \in FileObjects : ~(Busy[f] = "fcb" /\ FsContext[f] = x)

(* An ERESOURCE lets no new sharer in while a thread waits for it          *)
(* exclusively.  A purge waits for the last FCB on its list at the latest. *)
VcbWanted ==
  \E t \in Threads : pc[t] \in {"cleanupA", "closeA", "ckVcb", "vfVcb", "ivVcb", "ivCheck", "sdVcb"}
FcbWanted(x) ==
  \/ Todo = {x}
  \/ \E f \in FileObjects : pc[f] \in {"cleanupW", "closeW"} /\ FsContext[f] = x

-----------------------------------------------------------------------------
(* IRP_MJ_CREATE *)

(* FFSCreate tests VCB_VOLUME_LOCKED with no resource held; the I/O        *)
(* manager sends creates to this volume while VPB_MOUNTED is set.          *)
Create(f) ==
  /\ pc[f] = "none"
  /\ Vpb.MOUNTED
  /\ ~Vcb.VOLUME_LOCKED
  /\ Goto(f, "opening")
  /\ TouchVcb
  /\ UNCHANGED <<foVars, Busy, fcbVars, Vcb, Vpb, VcbMain, Global, Todo, Loaded>>

(* Refused before any FCB is touched: bad name, name collision, directory  *)
(* checks, share access; FFSCreateVolume refuses with no resource held. *)
CreateRefused(f) ==
  /\ pc[f] = "opening"
  /\ VcbFree \/ "volume" \in Requests
  /\ Goto(f, "none")
  /\ TouchVcb
  /\ UNCHANGED <<foVars, Busy, fcbVars, Vcb, Vpb, VcbMain, Global, Todo, Loaded>>

(* FFSv1AllocateFcb / FFSv2AllocateFcb; the memory of a free FCB is kept   *)
(* zeroed here, which the allocation does. *)
AllocateFcb(p, x) ==
  /\ FcbList' = FcbList \cup {x}
  /\ FFSMcb' = [FFSMcb EXCEPT ![x] = p]
  /\ FFSFcb' = [FFSFcb EXCEPT ![p] = x]

(* Mistaken: Mcb->FFSFcb is not looked at. *)
FcbOf_AlwaysNew(p, x) == p \in Files /\ x \in Fcbs \ FcbList

(* Mcb->FFSFcb when there is one, otherwise a new FCB. *)
FcbOf(p, x) ==
  \/ FFSFcb[p] = x /\ x \in Fcbs
  \/ FFSFcb[p] = NoObject /\ x \in Fcbs \ FcbList

(* A create that fails but leaves a new FCB behind with both counts 0: the *)
(* parent's, for a name that does not exist, or the file's own, for        *)
(* FILE_DELETE_ON_CLOSE on a read-only volume. *)
CreateLeavesFcb(f, p, x) ==
  /\ pc[f] = "opening"
  /\ VcbFree
  /\ FFSFcb[p] = NoObject /\ x \in Fcbs \ FcbList
  /\ AllocateFcb(p, x)
  /\ Goto(f, "none")
  /\ TouchVcb
  /\ UNCHANGED <<foVars, Busy, OpenHandleCount, ReferenceCount, NonCachedOpenCount,
                 Vcb, Vpb, VcbMain, Global, Todo, Loaded>>

(* Mistaken: the reference on the FCB is not counted. *)
CountOpen_NoReference(p, x, nocache) ==
  /\ FcbOf(p, x)
  /\ OpenHandleCount[x] < MaxCount
  /\ Vcb.OpenFileHandleCount < MaxCount
  /\ AllocateFcb(p, x)
  /\ OpenHandleCount' = [OpenHandleCount EXCEPT ![x] = Inc(@)]
  /\ NonCachedOpenCount' = IF nocache THEN [NonCachedOpenCount EXCEPT ![x] = Inc(@)]
                                      ELSE NonCachedOpenCount
  /\ Vcb' = [Vcb EXCEPT !.OpenFileHandleCount = Inc(@), !.ReferenceCount = Inc(@)]
  /\ UNCHANGED ReferenceCount

(* The counts an open raises, in the FCB and in the VCB. *)
CountOpen(p, x, nocache) ==
  /\ FcbOf(p, x)
  /\ OpenHandleCount[x] < MaxCount
  /\ ReferenceCount[x] < MaxCount
  /\ Vcb.OpenFileHandleCount < MaxCount
  /\ AllocateFcb(p, x)
  /\ OpenHandleCount' = [OpenHandleCount EXCEPT ![x] = Inc(@)]
  /\ ReferenceCount' = [ReferenceCount EXCEPT ![x] = Inc(@)]
  /\ NonCachedOpenCount' = IF nocache THEN [NonCachedOpenCount EXCEPT ![x] = Inc(@)]
                                      ELSE NonCachedOpenCount
  /\ Vcb' = [Vcb EXCEPT !.OpenFileHandleCount = Inc(@), !.ReferenceCount = Inc(@)]

(* FFSCreateFile opens p; nocache is FO_NO_INTERMEDIATE_BUFFERING. *)
CreateFile(f, p, x, nocache) ==
  /\ pc[f] = "opening"
  /\ VcbFree
  /\ CountOpen(p, x, nocache)
  /\ FsContext' = [FsContext EXCEPT ![f] = x]
  /\ Cached' = [Cached EXCEPT ![f] = p \notin Dirs /\ ~nocache]
  /\ Goto(f, "open")
  /\ TouchVcb
  /\ UNCHANGED <<Busy, Vpb, VcbMain, Global, Todo, Loaded>>

(* FFSCreateFile leaves with an error after it has counted the open: an    *)
(* image section that cannot be flushed, or a supersede or overwrite of a  *)
(* file on a read-only volume.  The I/O manager sends no cleanup and no    *)
(* close for a create that failed. *)
CreateFileFails(f, p, x, nocache) ==
  /\ "overwrite" \in Requests
  /\ pc[f] = "opening"
  /\ p \notin Dirs
  /\ VcbFree
  /\ CountOpen(p, x, nocache)
  /\ Goto(f, "none")
  /\ TouchVcb
  /\ UNCHANGED <<foVars, Busy, Vpb, VcbMain, Global, Todo, Loaded>>

(* FFSCreateFile succeeds without an FCB: Status is still that of the      *)
(* lookup when FFSv1AllocateFcb or FFSv2AllocateFcb returns NULL, because  *)
(* the name it keeps in a debug build cannot be allocated.  FsContext      *)
(* stays null on a file object that is open. *)
CreateOpensNothing(f) ==
  /\ "nothing" \in Requests
  /\ pc[f] = "opening"
  /\ VcbFree
  /\ Goto(f, "open")
  /\ TouchVcb
  /\ UNCHANGED <<foVars, Busy, fcbVars, Vcb, Vpb, VcbMain, Global, Todo, Loaded>>

(* FFSCreateVolume raises two counts with no resource held: it reads them  *)
(* here ... *)
CreateVolumeLoad(f) ==
  /\ "volume" \in Requests
  /\ pc[f] = "opening"
  /\ Loaded' = [Loaded EXCEPT ![f] = [ref |-> Vcb.ReferenceCount, open |-> Vcb.OpenHandleCount]]
  /\ Goto(f, "volStore")
  /\ TouchVcb
  /\ UNCHANGED <<foVars, Busy, fcbVars, Vcb, Vpb, VcbMain, Global, Todo>>

(* What a count can be after an unlocked ++ that read `old`, if it is      *)
(* `now` when the write arrives: the other update is overwritten, both are *)
(* kept, or the other update's write comes last. *)
RacyInc(old, now) == { Inc(old), Inc(now) } \cup (IF now = old THEN {} ELSE {now})

(* ... and writes them here. *)
CreateVolumeStore(f) ==
  /\ pc[f] = "volStore"
  /\ \E ref \in RacyInc(Loaded[f].ref, Vcb.ReferenceCount),
        open \in RacyInc(Loaded[f].open, Vcb.OpenHandleCount) :
       Vcb' = [Vcb EXCEPT !.ReferenceCount = ref, !.OpenHandleCount = open]
  /\ Loaded' = [Loaded EXCEPT ![f] = [ref |-> 0, open |-> 0]]
  /\ FsContext' = [FsContext EXCEPT ![f] = VolumeObject]
  /\ Goto(f, "open")
  /\ TouchVcb
  /\ UNCHANGED <<Cached, Busy, fcbVars, Vpb, VcbMain, Global, Todo>>

-----------------------------------------------------------------------------
(* Reads and queries *)

(* FFSReadFile, FFSQueryInformation and read-ahead take Fcb->MainResource  *)
(* shared. *)
StartRead(f) ==
  /\ "read" \in Requests
  /\ Routed /\ pc[f] = "open" /\ Busy[f] = "no" /\ FsContext[f] \in Fcbs
  /\ ~FcbWanted(FsContext[f])
  /\ Busy' = [Busy EXCEPT ![f] = "fcb"]
  /\ TouchVcb
  /\ UNCHANGED <<pc, foVars, fcbVars, Vcb, Vpb, VcbMain, Global, Todo, Loaded>>

(* FFSQueryVolumeInformation and the volume read take Vcb->MainResource    *)
(* shared. *)
StartQuery(f) ==
  /\ "query" \in Requests
  /\ Routed /\ pc[f] = "open" /\ Busy[f] = "no"
  /\ VcbMain = NoObject /\ ~VcbWanted
  /\ Busy' = [Busy EXCEPT ![f] = "vcb"]
  /\ TouchVcb
  /\ UNCHANGED <<pc, foVars, fcbVars, Vcb, Vpb, VcbMain, Global, Todo, Loaded>>

EndIo(f) ==
  /\ Busy[f] # "no"
  /\ Busy' = [Busy EXCEPT ![f] = "no"]
  /\ TouchVcb
  /\ UNCHANGED <<pc, foVars, fcbVars, Vcb, Vpb, VcbMain, Global, Todo, Loaded>>

-----------------------------------------------------------------------------
(* IRP_MJ_CLEANUP: the last handle of a file object is closed. *)

(* Mistaken: the lock is left to an explicit unlock. *)
CleanupOfVolume_KeepsLock(f) ==
  /\ f \in FileObjects
  /\ Vcb' = [Vcb EXCEPT !.OpenHandleCount = Dec(@)]
  /\ UNCHANGED <<OpenHandleCount, NonCachedOpenCount, Vpb>>

(* The part of FFSCleanup under the resources, on the volume itself: a     *)
(* lock this file object took is released. *)
CleanupOfVolume(f) ==
  LET unlocks == Vcb.VOLUME_LOCKED /\ Vcb.LockFile = f
  IN  /\ Vcb' = [Vcb EXCEPT !.OpenHandleCount = Dec(@),
                   !.VOLUME_LOCKED = @ /\ ~unlocks,
                   !.LockFile = IF unlocks THEN NoObject ELSE @]
      /\ Vpb' = [Vpb EXCEPT !.LOCKED = @ /\ ~unlocks]
      /\ UNCHANGED <<OpenHandleCount, NonCachedOpenCount>>

(* Mistaken: the VCB's count of open files is only lowered with the last   *)
(* handle. *)
CleanupOfFile_LastOnly(f, x) ==
  /\ OpenHandleCount' = [OpenHandleCount EXCEPT ![x] = Dec(@)]
  /\ NonCachedOpenCount' = IF Cached[f] THEN NonCachedOpenCount
                           ELSE [NonCachedOpenCount EXCEPT ![x] = Dec(@)]
  /\ Vcb' = [Vcb EXCEPT !.OpenFileHandleCount =
               IF OpenHandleCount[x] = 1 THEN Dec(@) ELSE @]
  /\ UNCHANGED Vpb

(* On a file: every handle without FO_CACHE_SUPPORTED counts as not cached.*)
CleanupOfFile(f, x) ==
  /\ OpenHandleCount' = [OpenHandleCount EXCEPT ![x] = Dec(@)]
  /\ NonCachedOpenCount' = IF Cached[f] THEN NonCachedOpenCount
                           ELSE [NonCachedOpenCount EXCEPT ![x] = Dec(@)]
  /\ Vcb' = [Vcb EXCEPT !.OpenFileHandleCount = Dec(@)]
  /\ UNCHANGED Vpb

CleanupBody(f) ==
  \/ FsContext[f] = NoObject /\ UNCHANGED <<OpenHandleCount, NonCachedOpenCount, Vcb, Vpb>>
  \/ FsContext[f] = VolumeObject /\ CleanupOfVolume(f)
  \/ \E x \in Fcbs : FsContext[f] = x /\ CleanupOfFile(f, x)

Cleanup(f) ==
  /\ CleanupBody(f)
  /\ Goto(f, "clean")
  /\ TouchVcb
  /\ UNCHANGED <<foVars, Busy, FcbList, FFSMcb, FFSFcb, ReferenceCount, Global, Todo, Loaded>>

(* IsSynchronous is FALSE at first: both resources are only tried. *)
CleanupNow(f) ==
  /\ Routed /\ pc[f] = "open"
  /\ VcbFree /\ FcbFree(FsContext[f])
  /\ Cleanup(f)
  /\ UNCHANGED VcbMain

(* Mistaken: Vcb->MainResource is kept when the request is queued because  *)
(* the FCB is busy. *)
CleanupPend_KeepsVcb(f) ==
  /\ Routed /\ pc[f] = "open"
  /\ VcbFree /\ ~FcbFree(FsContext[f])
  /\ VcbMain' = f
  /\ Goto(f, "cleanupQ")
  /\ TouchVcb
  /\ UNCHANGED <<foVars, Busy, fcbVars, Vcb, Vpb, Global, Todo, Loaded>>

(* One of them was taken: FFSQueueRequest hands the request to a worker. *)
CleanupPend(f) ==
  /\ Routed /\ pc[f] = "open"
  /\ Goto(f, "cleanupQ")
  /\ TouchVcb
  /\ UNCHANGED <<foVars, Busy, fcbVars, Vcb, Vpb, VcbMain, Global, Todo, Loaded>>

(* FFSDeQueueRequest and FFSDeQueueCloseRequest: the worker starts, and    *)
(* waits for Vcb->MainResource. *)
DeQueue(f) ==
  /\ \/ pc[f] = "cleanupQ" /\ Goto(f, "cleanupA")
     \/ pc[f] = "closeQ" /\ Goto(f, "closeA")
  /\ TouchVcb
  /\ UNCHANGED <<foVars, Busy, fcbVars, Vcb, Vpb, VcbMain, Global, Todo, Loaded>>

(* The worker has Vcb->MainResource and waits for Fcb->MainResource. *)
WorkerAcquire(f) ==
  /\ \/ pc[f] = "cleanupA" /\ Goto(f, "cleanupW")
     \/ pc[f] = "closeA" /\ Goto(f, "closeW")
  /\ VcbFree
  /\ VcbMain' = f
  /\ TouchVcb
  /\ UNCHANGED <<foVars, Busy, fcbVars, Vcb, Vpb, Global, Todo, Loaded>>

CleanupWorker(f) ==
  /\ pc[f] = "cleanupW"
  /\ FcbFree(FsContext[f])
  /\ Cleanup(f)
  /\ VcbMain' = NoObject

-----------------------------------------------------------------------------
(* IRP_MJ_CLOSE: the last reference to a file object is gone. *)

(* FFSFreeFcb, with the RemoveEntryList before it. *)
FreeFcb(x) ==
  /\ FcbList' = FcbList \ {x}
  /\ FFSFcb' = [FFSFcb EXCEPT ![FFSMcb[x]] = NoObject]
  /\ FFSMcb' = [FFSMcb EXCEPT ![x] = NoObject]
  /\ NonCachedOpenCount' = [NonCachedOpenCount EXCEPT ![x] = 0]

(* FFSClose frees the FCB with its last reference. *)
LastClose(x) == ReferenceCount[x] = 1

(* The file object's reference on the VCB; the last one on a dismounting   *)
(* volume tears it down. *)
ReleaseVcb(f) ==
  /\ Vcb' = [Vcb EXCEPT !.ReferenceCount = Dec(@)]
  /\ Goto(f, IF Dec(Vcb.ReferenceCount) = 0 /\ Vcb.DISMOUNT_PENDING
             THEN "clGlobal" ELSE "none")

(* The file object's reference on its FCB. *)
ReleaseFcb(x) ==
  /\ ReferenceCount' = [ReferenceCount EXCEPT ![x] = Dec(@)]
  /\ IF LastClose(x) THEN FreeFcb(x)
     ELSE UNCHANGED <<FcbList, FFSMcb, FFSFcb, NonCachedOpenCount>>

(* The part of FFSClose under the resources.  Without an FCB there is      *)
(* nothing to do, except that a delayed close does not test for it and     *)
(* reads through the null pointer. *)
CloseBody(f) ==
  /\ \/ /\ FsContext[f] = NoObject
        /\ Goto(f, "none")
        /\ Undefined' = (VcbFreed \/ pc[f] = "closeW")
        /\ UNCHANGED <<fcbVars, Vcb, VcbInList, VcbFreed>>
     \/ /\ FsContext[f] = VolumeObject
        /\ ReleaseVcb(f)
        /\ TouchVcb
        /\ UNCHANGED fcbVars
     \/ \E x \in Fcbs :
          /\ FsContext[f] = x
          /\ ReleaseVcb(f)
          /\ ReleaseFcb(x)
          /\ TouchVcb
          /\ UNCHANGED OpenHandleCount
  /\ FsContext' = [FsContext EXCEPT ![f] = NoObject]
  /\ Cached' = [Cached EXCEPT ![f] = FALSE]
  /\ UNCHANGED <<Busy, Vpb, Global, Todo, Loaded>>

CloseNow(f) ==
  /\ Routed /\ pc[f] = "clean" /\ Busy[f] = "no"
  /\ VcbFree /\ FcbFree(FsContext[f])
  /\ CloseBody(f)
  /\ UNCHANGED VcbMain

(* FFSQueueCloseRequest *)
ClosePend(f) ==
  /\ Routed /\ pc[f] = "clean" /\ Busy[f] = "no"
  /\ Goto(f, "closeQ")
  /\ TouchVcb
  /\ UNCHANGED <<foVars, Busy, fcbVars, Vcb, Vpb, VcbMain, Global, Todo, Loaded>>

CloseWorker(f) ==
  /\ pc[f] = "closeW"
  /\ FcbFree(FsContext[f])
  /\ CloseBody(f)
  /\ VcbMain' = NoObject

(* FFSRemoveVcb: unlinking twice corrupts FFSGlobal->VcbList. *)
RemoveVcb ==
  /\ VcbInList' = FALSE
  /\ Undefined' = (VcbFreed \/ ~VcbInList)
  /\ UNCHANGED VcbFreed

(* FFSFreeVcb *)
FreeVcb ==
  /\ VcbFreed' = TRUE
  /\ Undefined' = VcbFreed
  /\ UNCHANGED VcbInList

(* FFSClose found the last reference of a dismounting volume, and has      *)
(* released Vcb->MainResource. *)
CloseRemovesVcb(f) ==
  /\ pc[f] = "clGlobal"
  /\ Global = NoObject
  /\ RemoveVcb
  /\ Vpb' = [Vpb EXCEPT !.MOUNTED = FALSE]
  /\ Goto(f, "clFree")
  /\ UNCHANGED <<foVars, Busy, fcbVars, Vcb, VcbMain, Global, Todo, Loaded>>

CloseFreesVcb(f) ==
  /\ pc[f] = "clFree"
  /\ FreeVcb
  /\ Goto(f, "none")
  /\ UNCHANGED <<foVars, Busy, fcbVars, Vcb, Vpb, VcbMain, Global, Todo, Loaded>>

-----------------------------------------------------------------------------
(* Locking and unlocking the volume *)

(* FFSIsHandleCountZero *)
IsHandleCountZero == \A x \in FcbList : OpenHandleCount[x] = 0

(* Mistaken: the FCBs are not looked at. *)
CanLock_VcbCountOnly(FileObject) ==
  /\ ~Vcb.VOLUME_LOCKED
  /\ Vcb.OpenFileHandleCount <= IF FileObject = NoObject THEN 0 ELSE 1

(* The conditions FFSLockVcb tests; FileObject is NULL for a PnP request. *)
CanLock(FileObject) ==
  /\ ~Vcb.VOLUME_LOCKED
  /\ Vcb.OpenFileHandleCount <= IF FileObject = NoObject THEN 0 ELSE 1
  /\ IsHandleCountZero

LockVcb(FileObject) ==
  /\ Vcb' = [Vcb EXCEPT !.VOLUME_LOCKED = TRUE, !.LockFile = FileObject]
  /\ Vpb' = [Vpb EXCEPT !.LOCKED = TRUE]

(* FFSUnlockVcb; LockFile keeps its value. *)
UnlockVcb(FileObject) ==
  /\ Vcb.VOLUME_LOCKED
  /\ Vcb.LockFile = FileObject
  /\ Vcb' = [Vcb EXCEPT !.VOLUME_LOCKED = FALSE]
  /\ Vpb' = [Vpb EXCEPT !.LOCKED = FALSE]

(* FSCTL_LOCK_VOLUME, on any open handle. *)
LockVolume(f) ==
  /\ "lock" \in Requests
  /\ Routed /\ pc[f] = "open"
  /\ VcbFree
  /\ CanLock(f)
  /\ LockVcb(f)
  /\ TouchVcb
  /\ UNCHANGED <<pc, foVars, Busy, fcbVars, VcbMain, Global, Todo, Loaded>>

(* FSCTL_UNLOCK_VOLUME *)
UnlockVolume(f) ==
  /\ "lock" \in Requests
  /\ Routed /\ pc[f] = "open"
  /\ VcbFree
  /\ FsContext[f] = VolumeObject
  /\ UnlockVcb(f)
  /\ TouchVcb
  /\ UNCHANGED <<pc, foVars, Busy, fcbVars, VcbMain, Global, Todo, Loaded>>

-----------------------------------------------------------------------------
(* FFSPurgeVolume, run by the thread that holds Vcb->MainResource *)

(* Bound: a request that will purge is issued only while no count has      *)
(* reached MaxCount. *)
PurgeInBound == \A x \in FcbList : ReferenceCount[x] < MaxCount

(* Every FCB of the list is referenced and put on a local list, except     *)
(* those whose list entry cannot be allocated: these keep the reference.   *)
(* (Bound: the counts do not overflow here.) *)
BeginPurge(t) ==
  /\ \A x \in FcbList : ReferenceCount[x] < MaxULong
  /\ VcbMain' = t
  /\ Todo' \in SUBSET FcbList
  /\ ReferenceCount' = [x \in Fcbs |-> IF x \in FcbList THEN Inc(ReferenceCount[x])
                                                        ELSE ReferenceCount[x]]
  /\ UNCHANGED <<FcbList, FFSMcb, FFSFcb, OpenHandleCount, NonCachedOpenCount>>

(* Mistaken: file objects cleaned up but not closed are forgotten. *)
PurgedForGood_NoHandles(x) == OpenHandleCount[x] = 0

(* An FCB nobody has open or references is freed.  The others keep the     *)
(* reference the purge took. *)
PurgedForGood(x) == OpenHandleCount[x] = 0 /\ ReferenceCount[x] = 1

PurgeFcb(x) ==
  /\ x \in Todo
  /\ FcbFree(x)
  /\ Todo' = Todo \ {x}
  /\ IF PurgedForGood(x)
     THEN /\ FreeFcb(x)
          /\ ReferenceCount' = [ReferenceCount EXCEPT ![x] = 0]
     ELSE UNCHANGED <<FcbList, FFSMcb, FFSFcb, ReferenceCount, NonCachedOpenCount>>
  /\ TouchVcb
  /\ UNCHANGED <<pc, foVars, Busy, OpenHandleCount, Vcb, Vpb, VcbMain, Global, Loaded>>

PurgeDone(t) == VcbMain = t /\ Todo = {}

-----------------------------------------------------------------------------
(* FFSCheckDismount *)

(* Vpb->ReferenceCount, kept by the I/O manager, is down to its clean      *)
(* count: no file object is left.  The file object of a close that tears   *)
(* the volume down may be gone already, since its IRP is completed first.  *)
VpbIdle == \A f \in FileObjects : pc[f] \in {"none", "clGlobal", "clFree"}
VpbInUse == \E f \in FileObjects : pc[f] # "none"

TearDown ==
  /\ Vpb' = [MOUNTED |-> FALSE, LOCKED |-> FALSE, DeviceObject |-> FALSE]
  /\ Vcb' = [Vcb EXCEPT !.DISMOUNT_PENDING = TRUE]
  /\ RemoveVcb

(* Called with bForce = TRUE: FFSGlobal->Resource first ... *)
CheckDismountGlobal(t) ==
  /\ pc[t] = "ckGlobal"
  /\ Global = NoObject
  /\ Global' = t
  /\ Goto(t, "ckVcb")
  /\ TouchVcb
  /\ UNCHANGED <<foVars, Busy, fcbVars, Vcb, Vpb, VcbMain, Todo, Loaded>>

(* ... then Vcb->MainResource; both are released at the end. *)
CheckDismount(t) ==
  /\ pc[t] = "ckVcb"
  /\ VcbFree
  /\ TearDown
  /\ Global' = NoObject
  /\ Goto(t, "ckFree")
  /\ UNCHANGED <<foVars, Busy, fcbVars, VcbMain, Todo, Loaded>>

(* FFSFreeVcb runs after the resources are released. *)
CheckDismountFree(t) ==
  /\ pc[t] = "ckFree"
  /\ FreeVcb
  /\ Goto(t, IF t \in FileObjects THEN "open" ELSE "idle")
  /\ UNCHANGED <<foVars, Busy, fcbVars, Vcb, Vpb, VcbMain, Global, Todo, Loaded>>

(* FSCTL_DISMOUNT_VOLUME on any open handle: FFSDismountVolume. *)
DismountVolume(f) ==
  /\ "dismount" \in Requests
  /\ Routed /\ pc[f] = "open"
  /\ VcbFree
  /\ ~Vcb.DISMOUNT_PENDING
  /\ PurgeInBound
  /\ BeginPurge(f)
  /\ Goto(f, "dmPurge")
  /\ TouchVcb
  /\ UNCHANGED <<foVars, Busy, Vcb, Vpb, Global, Loaded>>

DismountPurged(f) ==
  /\ pc[f] = "dmPurge"
  /\ PurgeDone(f)
  /\ VcbMain' = NoObject
  /\ Goto(f, "ckGlobal")
  /\ TouchVcb
  /\ UNCHANGED <<foVars, Busy, fcbVars, Vcb, Vpb, Global, Todo, Loaded>>

-----------------------------------------------------------------------------
(* Plug and play *)

(* FFSPnpQueryRemove locks the volume if it can, and purges it either way. *)
QueryRemove ==
  /\ "remove" \in Requests
  /\ pc["pnp"] = "idle" /\ Vpb.MOUNTED
  /\ PurgeInBound
  /\ VcbFree
  /\ \/ CanLock(NoObject) /\ LockVcb(NoObject) /\ Goto("pnp", "qrPurge")
     \/ ~CanLock(NoObject) /\ UNCHANGED <<Vcb, Vpb>> /\ Goto("pnp", "qrFail")
  /\ BeginPurge("pnp")
  /\ TouchVcb
  /\ UNCHANGED <<foVars, Busy, Global, Loaded>>

(* Without the lock the request fails here; with it the disk is asked. *)
QueryRemovePurged ==
  /\ PurgeDone("pnp")
  /\ \/ pc["pnp"] = "qrPurge" /\ Goto("pnp", "qrLower")
     \/ pc["pnp"] = "qrFail" /\ Goto("pnp", "idle")
  /\ VcbMain' = NoObject
  /\ TouchVcb
  /\ UNCHANGED <<foVars, Busy, fcbVars, Vcb, Vpb, Global, Todo, Loaded>>

(* The disk driver agrees, and the volume is dismounted; or it refuses,    *)
(* and the volume stays locked until IRP_MN_CANCEL_REMOVE_DEVICE. *)
QueryRemoveLower ==
  /\ pc["pnp"] = "qrLower"
  /\ \E answer \in {"ckGlobal", "idle"} : Goto("pnp", answer)
  /\ TouchVcb
  /\ UNCHANGED <<foVars, Busy, fcbVars, Vcb, Vpb, VcbMain, Global, Todo, Loaded>>

(* FFSPnpCancelRemove *)
CancelRemove ==
  /\ "remove" \in Requests
  /\ Routed /\ pc["pnp"] = "idle"
  /\ VcbFree
  /\ UnlockVcb(NoObject)
  /\ TouchVcb
  /\ UNCHANGED <<pc, foVars, Busy, fcbVars, VcbMain, Global, Todo, Loaded>>

(* FFSPnpRemove and FFSPnpSurpriseRemove: whether the lock was granted is  *)
(* not looked at. *)
Remove ==
  /\ "remove" \in Requests
  /\ pc["pnp"] = "idle" /\ Vpb.MOUNTED
  /\ PurgeInBound
  /\ VcbFree
  /\ IF CanLock(NoObject) THEN LockVcb(NoObject) ELSE UNCHANGED <<Vcb, Vpb>>
  /\ Goto("pnp", "srLower")
  /\ TouchVcb
  /\ UNCHANGED <<foVars, Busy, fcbVars, VcbMain, Global, Todo, Loaded>>

RemovePurges ==
  /\ pc["pnp"] = "srLower"
  /\ VcbFree
  /\ BeginPurge("pnp")
  /\ Goto("pnp", "srPurge")
  /\ TouchVcb
  /\ UNCHANGED <<foVars, Busy, Vcb, Vpb, Global, Loaded>>

RemovePurged ==
  /\ pc["pnp"] = "srPurge"
  /\ PurgeDone("pnp")
  /\ VcbMain' = NoObject
  /\ Goto("pnp", "ckGlobal")
  /\ TouchVcb
  /\ UNCHANGED <<foVars, Busy, fcbVars, Vcb, Vpb, Global, Todo, Loaded>>

-----------------------------------------------------------------------------
(* IRP_MN_VERIFY_VOLUME: FFSVerifyVolume, under FFSGlobal->Resource and    *)
(* Vcb->MainResource *)

VerifyVolume ==
  /\ "verify" \in Requests
  /\ pc["vfy"] = "idle" /\ Vpb.MOUNTED
  /\ PurgeInBound
  /\ Global = NoObject
  /\ Global' = "vfy"
  /\ Goto("vfy", "vfVcb")
  /\ TouchVcb
  /\ UNCHANGED <<foVars, Busy, fcbVars, Vcb, Vpb, VcbMain, Todo, Loaded>>

(* No verify needed, not mounted, or the superblock is still the same. *)
VerifyReturns ==
  /\ pc["vfy"] = "vfVcb"
  /\ VcbFree
  /\ Global' = NoObject
  /\ Goto("vfy", "idle")
  /\ TouchVcb
  /\ UNCHANGED <<foVars, Busy, fcbVars, Vcb, Vpb, VcbMain, Todo, Loaded>>

(* The superblock differs. *)
VerifyFails ==
  /\ pc["vfy"] = "vfVcb"
  /\ VcbFree
  /\ Vcb.MOUNTED
  /\ BeginPurge("vfy")
  /\ Goto("vfy", "vfPurge")
  /\ TouchVcb
  /\ UNCHANGED <<foVars, Busy, Vcb, Vpb, Global, Loaded>>

(* Mistaken: Vcb->MainResource is not released. *)
VerifyPurged_KeepsVcb ==
  /\ pc["vfy"] = "vfPurge"
  /\ PurgeDone("vfy")
  /\ Vcb' = [Vcb EXCEPT !.DISMOUNT_PENDING = TRUE]
  /\ Global' = NoObject
  /\ Goto("vfy", "idle")
  /\ TouchVcb
  /\ UNCHANGED <<foVars, Busy, fcbVars, Vpb, VcbMain, Todo, Loaded>>

VerifyPurged ==
  /\ pc["vfy"] = "vfPurge"
  /\ PurgeDone("vfy")
  /\ Vcb' = [Vcb EXCEPT !.DISMOUNT_PENDING = TRUE]
  /\ VcbMain' = NoObject
  /\ Global' = NoObject
  /\ Goto("vfy", "idle")
  /\ TouchVcb
  /\ UNCHANGED <<foVars, Busy, fcbVars, Vpb, Todo, Loaded>>

-----------------------------------------------------------------------------
(* FSCTL_INVALIDATE_VOLUMES: FFSInvalidateVolumes, under FFSGlobal->       *)
(* Resource throughout *)

InvalidateVolumes ==
  /\ "invalidate" \in Requests
  /\ pc["inv"] = "idle" /\ VcbInList
  /\ PurgeInBound
  /\ Global = NoObject
  /\ Global' = "inv"
  /\ Goto("inv", "ivVcb")
  /\ TouchVcb
  /\ UNCHANGED <<foVars, Busy, fcbVars, Vcb, Vpb, VcbMain, Todo, Loaded>>

InvalidatePurges ==
  /\ pc["inv"] = "ivVcb"
  /\ VcbFree
  /\ BeginPurge("inv")
  /\ Goto("inv", "ivPurge")
  /\ TouchVcb
  /\ UNCHANGED <<foVars, Busy, Vcb, Vpb, Global, Loaded>>

InvalidatePurged ==
  /\ pc["inv"] = "ivPurge"
  /\ PurgeDone("inv")
  /\ Vcb' = [Vcb EXCEPT !.MOUNTED = FALSE]
  /\ VcbMain' = NoObject
  /\ Goto("inv", "ivCheck")
  /\ TouchVcb
  /\ UNCHANGED <<foVars, Busy, fcbVars, Vpb, Global, Todo, Loaded>>

(* FFSCheckDismount with bForce = FALSE. *)
InvalidateCheck ==
  /\ pc["inv"] = "ivCheck"
  /\ VcbFree
  /\ \/ VpbIdle /\ TearDown /\ Goto("inv", "ivFree") /\ UNCHANGED Global
     \/ VpbInUse /\ UNCHANGED <<Vcb, Vpb>> /\ Goto("inv", "idle") /\ Global' = NoObject
        /\ TouchVcb
  /\ UNCHANGED <<foVars, Busy, fcbVars, VcbMain, Todo, Loaded>>

InvalidateFree ==
  /\ pc["inv"] = "ivFree"
  /\ FreeVcb
  /\ Global' = NoObject
  /\ Goto("inv", "idle")
  /\ UNCHANGED <<foVars, Busy, fcbVars, Vcb, Vpb, VcbMain, Todo, Loaded>>

-----------------------------------------------------------------------------
(* IOCTL_PREPARE_TO_UNLOAD: FFSPrepareToUnload frees a volume whose last   *)
(* reference is gone; it takes FFSGlobal->Resource only. *)
PrepareToUnload ==
  /\ "unload" \in Requests
  /\ Global = NoObject
  /\ VcbInList
  /\ Vcb.ReferenceCount = 0 /\ Vcb.DISMOUNT_PENDING
  /\ VcbInList' = FALSE
  /\ VcbFreed' = TRUE
  /\ Undefined' = VcbFreed
  /\ Vpb' = [Vpb EXCEPT !.MOUNTED = FALSE]
  /\ UNCHANGED <<pc, foVars, Busy, fcbVars, Vcb, VcbMain, Global, Todo, Loaded>>

-----------------------------------------------------------------------------
(* IRP_MJ_SHUTDOWN: FFSShutDown takes FFSGlobal->Resource and each volume's *)
(* Vcb->MainResource in turn.  Nothing is flushed on a VCB_READ_ONLY volume *)
(* (FFSFlushFiles, FFSFlushVolume); the disk is told (FFSDiskShutDown).     *)
ShutDown ==
  /\ "shutdown" \in Requests
  /\ pc["shd"] = "idle" /\ VcbInList
  /\ Global = NoObject
  /\ Global' = "shd"
  /\ Goto("shd", "sdVcb")
  /\ TouchVcb
  /\ UNCHANGED <<foVars, Busy, fcbVars, Vcb, Vpb, VcbMain, Todo, Loaded>>

ShutDownVolume ==
  /\ pc["shd"] = "sdVcb"
  /\ VcbFree
  /\ Global' = NoObject
  /\ Goto("shd", "idle")
  /\ TouchVcb
  /\ UNCHANGED <<foVars, Busy, fcbVars, Vcb, Vpb, VcbMain, Todo, Loaded>>

-----------------------------------------------------------------------------
OpenStep(f) ==
  \/ Create(f) \/ CreateRefused(f) \/ CreateOpensNothing(f)
  \/ CreateVolumeLoad(f) \/ CreateVolumeStore(f)
  \/ \E p \in Files, x \in Fcbs :
       \/ CreateLeavesFcb(f, p, x)
       \/ \E nocache \in BOOLEAN : CreateFile(f, p, x, nocache) \/ CreateFileFails(f, p, x, nocache)

CloseStep(f) ==
  \/ CleanupNow(f) \/ CleanupPend(f) \/ DeQueue(f) \/ WorkerAcquire(f) \/ CleanupWorker(f)
  \/ CloseNow(f) \/ ClosePend(f) \/ CloseWorker(f) \/ CloseRemovesVcb(f) \/ CloseFreesVcb(f)

HandleStep(f) ==
  \/ StartRead(f) \/ StartQuery(f) \/ EndIo(f) \/ LockVolume(f) \/ UnlockVolume(f)
  \/ DismountVolume(f) \/ DismountPurged(f)

CheckStep(t) == CheckDismountGlobal(t) \/ CheckDismount(t) \/ CheckDismountFree(t)

SystemStep ==
  \/ QueryRemove \/ QueryRemovePurged \/ QueryRemoveLower \/ CancelRemove
  \/ Remove \/ RemovePurges \/ RemovePurged
  \/ VerifyVolume \/ VerifyReturns \/ VerifyFails \/ VerifyPurged
  \/ InvalidateVolumes \/ InvalidatePurges \/ InvalidatePurged
  \/ InvalidateCheck \/ InvalidateFree
  \/ PrepareToUnload \/ ShutDown \/ ShutDownVolume

(* Once a freed VCB has been used there is no next step to speak of. *)
Next ==
  /\ ~Undefined
  /\ \/ \E f \in FileObjects : OpenStep(f) \/ CloseStep(f) \/ HandleStep(f)
     \/ \E t \in Threads : CheckStep(t)
     \/ \E x \in Fcbs : PurgeFcb(x)
     \/ SystemStep

Spec == Init /\ [][Next]_vars

(***************************************************************************)
(* An ERESOURCE queues its waiters, so a thread that waits while the       *)
(* resource is free again and again gets it: strong fairness for whatever  *)
(* a thread does after it was started.  A read or a query ends: weak       *)
(* fairness.  Nothing makes a new request arrive.                          *)
(***************************************************************************)
HandleProceeds(f) ==
  \/ DeQueue(f) \/ WorkerAcquire(f) \/ CleanupWorker(f) \/ CloseWorker(f)
  \/ CloseRemovesVcb(f) \/ CloseFreesVcb(f) \/ DismountPurged(f) \/ CheckStep(f)

PurgeProceeds == \E x \in Fcbs : PurgeFcb(x)
PnpProceeds == QueryRemovePurged \/ RemovePurges \/ RemovePurged \/ CheckStep("pnp")
VerifyProceeds == VerifyReturns \/ VerifyFails \/ VerifyPurged
InvalidateProceeds == \/ InvalidatePurges \/ InvalidatePurged
                      \/ InvalidateCheck \/ InvalidateFree

Fairness ==
  /\ \A f \in FileObjects : WF_vars(EndIo(f)) /\ SF_vars(HandleProceeds(f))
  /\ SF_vars(PurgeProceeds) /\ SF_vars(PnpProceeds)
  /\ SF_vars(VerifyProceeds) /\ SF_vars(InvalidateProceeds) /\ SF_vars(ShutDownVolume)

FairSpec == Spec /\ Fairness

-----------------------------------------------------------------------------
(* Properties *)

Ulong == 0 .. MaxULong

(* Every variable keeps its type; the counts stay ULONGs. *)
TypeOK ==
  /\ pc \in [Threads -> FilePcs \cup SysPcs]
  /\ FsContext \in [FileObjects -> Fcbs \cup {VolumeObject, NoObject}]
  /\ Cached \in [FileObjects -> BOOLEAN]
  /\ Busy \in [FileObjects -> {"no", "fcb", "vcb"}]
  /\ FcbList \subseteq Fcbs
  /\ FFSMcb \in [Fcbs -> Files \cup {NoObject}]
  /\ FFSFcb \in [Files -> Fcbs \cup {NoObject}]
  /\ OpenHandleCount \in [Fcbs -> Ulong]
  /\ ReferenceCount \in [Fcbs -> Ulong]
  /\ NonCachedOpenCount \in [Fcbs -> Ulong]
  /\ Vcb \in [ OpenFileHandleCount : Ulong, ReferenceCount : Ulong, OpenHandleCount : Ulong,
               VOLUME_LOCKED : BOOLEAN, MOUNTED : BOOLEAN, DISMOUNT_PENDING : BOOLEAN,
               LockFile : FileObjects \cup {NoObject} ]
  /\ Vpb \in [MOUNTED : BOOLEAN, LOCKED : BOOLEAN, DeviceObject : BOOLEAN]
  /\ VcbMain \in Threads \cup {NoObject}
  /\ Global \in Threads \cup {NoObject}
  /\ Todo \subseteq Fcbs
  /\ Loaded \in [FileObjects -> [ref : Ulong, open : Ulong]]
  /\ VcbInList \in BOOLEAN /\ VcbFreed \in BOOLEAN /\ Undefined \in BOOLEAN

(* No FCB is freed under a file object that still points to it (until its  *)
(* close, queued to a worker or not, is over) or under a purge that has it *)
(* on its list. *)
FcbNeverDangling ==
  /\ \A f \in FileObjects : FsContext[f] \in Fcbs => FsContext[f] \in FcbList
  /\ Todo \subseteq FcbList

(* "There is a single instance of the FCB for every open file": Vcb->      *)
(* FcbList, Fcb->FFSMcb and Mcb->FFSFcb describe one bijection. *)
SingleFcbPerFile ==
  /\ \A x \in Fcbs : IF x \in FcbList THEN FFSMcb[x] \in Files /\ FFSFcb[FFSMcb[x]] = x
                                       ELSE FFSMcb[x] = NoObject
  /\ \A p \in Files : FFSFcb[p] # NoObject => FFSFcb[p] \in FcbList /\ FFSMcb[FFSFcb[p]] = p

(* The counts of an FCB are never short: each open handle is counted, and  *)
(* each file object not yet closed and a running purge hold a reference of *)
(* their own.  (They can be too high: the violation runs show how.) *)
CountsCover ==
  \A x \in FcbList :
    /\ OpenHandleCount[x] >= Cardinality(Handles(x))
    /\ ReferenceCount[x] >= OpenHandleCount[x] + Cardinality(Cleaned(x))
                              + (IF x \in Todo THEN 1 ELSE 0)

(* FsContext is set exactly while the handle is open or the close is still *)
(* to come (a create that opened nothing leaves it null). *)
ContextFollowsPc ==
  \A f \in FileObjects :
    IF pc[f] \in OpenPcs \cup CleanPcs THEN FsContext[f] \in FcbList \cup {VolumeObject, NoObject}
                                    ELSE FsContext[f] = NoObject

(* An FCB is given back to the lookaside list with no open and no          *)
(* reference counted on it. *)
FreedFcbsUncounted ==
  \A x \in Fcbs \ FcbList : OpenHandleCount[x] = 0 /\ ReferenceCount[x] = 0

(* The inductive invariant behind FcbNeverDangling: every pointer to an    *)
(* FCB, from a file object, an MCB or a purge, is matched by the counts    *)
(* that FFSClose and FFSPurgeVolume look at before they free it. *)
IInv ==
  /\ TypeOK
  /\ ContextFollowsPc
  /\ Todo \subseteq FcbList
  /\ SingleFcbPerFile
  /\ FreedFcbsUncounted
  /\ CountsCover

(* The opens that the OpenHandleCounts of the FCBs count, as many of each  *)
(* FCB as it says. *)
CountedOpens == { c \in FcbList \X Ulong : c[2] < OpenHandleCount[c[1]] }

(* Vcb->OpenFileHandleCount, which FFSLockVcb trusts, stays the sum of the *)
(* OpenHandleCounts of the FCBs that exist, whatever create, cleanup,      *)
(* close and purge do in whichever order. *)
OpenFileHandleCountIsSum == Vcb.OpenFileHandleCount = Cardinality(CountedOpens)

(* A volume lock taken through a handle does not outlive the handle: its   *)
(* owner is open on the volume itself, so its cleanup releases the lock;   *)
(* and the VPB says so too until a teardown clears it. *)
LockOwnerIsOpen ==
  Vcb.VOLUME_LOCKED =>
    /\ Vcb.LockFile \in FileObjects =>
         pc[Vcb.LockFile] \in OpenPcs /\ FsContext[Vcb.LockFile] = VolumeObject
    /\ VcbInList => Vpb.LOCKED

(* No step locks a volume on which a file or directory is open, and none   *)
(* hands a held lock to another owner. *)
LockTakenOnlyWhenQuiet ==
  [][ /\ (~Vcb.VOLUME_LOCKED /\ Vcb'.VOLUME_LOCKED) => \A x \in Fcbs : Handles(x) = {}
      /\ (Vcb.VOLUME_LOCKED /\ Vcb'.VOLUME_LOCKED) => Vcb'.LockFile = Vcb.LockFile ]_vars

(* A cleanup or a close handed to a worker thread is carried out, the      *)
(* teardown by the last close included, readers, queries, purges and a     *)
(* verify notwithstanding: Vcb->MainResource, Fcb->MainResource and        *)
(* FFSGlobal->Resource never deadlock under it. *)
QueuedRequestsEnd ==
  \A f \in FileObjects :
    /\ pc[f] \in {"cleanupQ", "cleanupA", "cleanupW"} ~> pc[f] = "clean" \/ Undefined
    /\ pc[f] \in {"closeQ", "closeA", "closeW", "clGlobal", "clFree"}
         ~> pc[f] = "none" \/ Undefined

(* A verify and an invalidate, which hold FFSGlobal->Resource while they   *)
(* wait for the VCB and for every FCB in turn, and a shutdown, which waits *)
(* for the VCB, end. *)
SystemRequestEnds ==
  \A t \in {"vfy", "inv", "shd"} : pc[t] # "idle" ~> pc[t] = "idle" \/ Undefined

(* The statements below are the source's own, and the code does not keep   *)
(* them.                                                                   *)

(* ffsdrv.h: NonCachedOpenCount is incremented on create and decremented   *)
(* on cleanup "But only for Files with FO_NO_INTERMEDIATE_BUFFERING flag": *)
(* it never exceeds the handles that are open. *)
NonCachedOpenCountIsOfHandles ==
  \A x \in FcbList : NonCachedOpenCount[x] <= OpenHandleCount[x]

(* ffsdrv.h: OpenHandleCount is "Incremented on IRP_MJ_CREATE, decremented *)
(* on IRP_MJ_CLEANUP": when no request is in progress it is the number of  *)
(* open handles. *)
OpenHandleCountIsOfHandles ==
  \A x \in FcbList : OpenHandleCount[x] = Cardinality(Handles(x))

(* ffsdrv.h: ReferenceCount is "Incremented on IRP_MJ_CREATE, decremented  *)
(* on IRP_MJ_CLOSE": with no purge running it is the number of file        *)
(* objects not closed. *)
ReferenceCountIsOfFileObjects ==
  VcbMain = NoObject =>
    \A x \in FcbList : ReferenceCount[x] = Cardinality(Handles(x) \cup Cleaned(x))

(* ffsdrv.h: Vcb->ReferenceCount is "Incremented on IRP_MJ_CREATE,         *)
(* decremented on IRP_MJ_CLOSE for both files on this volume and open      *)
(* instances of the volume itself": it is the number of file objects that  *)
(* are open, or cleaned up and not closed. *)
VcbReferenceCountIsOfFileObjects ==
  Vcb.ReferenceCount = Cardinality({ f \in FileObjects : FsContext[f] # NoObject })

(* FFSLockVolume refuses a volume with the words "There are still opened   *)
(* files.": a locked volume has no open file. *)
NoOpenFileOnLockedVolume ==
  Vcb.VOLUME_LOCKED => \A x \in Fcbs : Handles(x) = {}

(* FFSCleanup and FFSClose assert that the device extension is a VCB       *)
(* (Vcb->Identifier.Type == FFSVCB): a VCB is not freed while a cleanup or *)
(* a close is on its way through a worker thread. *)
QueuedRequestKeepsVcb ==
  VcbFreed => \A f \in FileObjects :
    pc[f] \notin {"cleanupQ", "cleanupA", "cleanupW", "closeQ", "closeA", "closeW"}
=============================================================================
