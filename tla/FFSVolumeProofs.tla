--------------------------- MODULE FFSVolumeProofs ---------------------------
(* Theorems about FFSVolume, for every set of file objects, files and FCB  *)
(* addresses and every ULONG width.                                        *)
EXTENDS FFSVolume, FiniteSetTheorems, TLAPS

-----------------------------------------------------------------------------
(* ULONG arithmetic *)

(* ++ and -- stay in ULONG. *)
LEMMA UlongClosed ==
  ASSUME NEW n \in Ulong
  PROVE  Inc(n) \in Ulong /\ Dec(n) \in Ulong
BY ConstantsAssumption DEF Ulong, Inc, Dec

(* They are + and - 1 off the ends. *)
LEMMA IncDec ==
  ASSUME NEW n \in Ulong
  PROVE  /\ n < MaxULong => Inc(n) = n + 1
         /\ n > 0 => Dec(n) = n - 1
BY ConstantsAssumption DEF Ulong, Inc, Dec

-----------------------------------------------------------------------------
(* Type correctness *)

(* A step that moves one thread on and does nothing else keeps the types. *)
LEMMA GotoType ==
  ASSUME TypeOK, NEW t, NEW label \in FilePcs \cup SysPcs, Goto(t, label), TouchVcb,
         UNCHANGED <<foVars, Busy, fcbVars, Vcb, Vpb, VcbMain, Global, Todo, Loaded>>
  PROVE  TypeOK'
<1>1. pc' \in [Threads -> FilePcs \cup SysPcs]
  BY DEF TypeOK, Goto
<1>2. VcbInList' \in BOOLEAN /\ VcbFreed' \in BOOLEAN /\ Undefined' \in BOOLEAN
  BY DEF TypeOK, TouchVcb
<1>. QED BY <1>1, <1>2 DEF TypeOK, foVars, fcbVars

LEMMA OpenStepType ==
  ASSUME TypeOK, NEW f \in FileObjects, OpenStep(f)
  PROVE  TypeOK'
<1> USE DEF FilePcs, OpenPcs, CleanPcs, CheckPcs, TouchVcb, fcbVars, foVars, lifeVars
<1>1. CASE Create(f)
  BY <1>1, GotoType DEF Create
<1>2. CASE CreateRefused(f)
  BY <1>2, GotoType DEF CreateRefused
<1>3. CASE CreateOpensNothing(f)
  BY <1>3, GotoType DEF CreateOpensNothing
<1>4. CASE CreateVolumeLoad(f)
  <2>1. Loaded' \in [FileObjects -> [ref : Ulong, open : Ulong]]
    BY <1>4 DEF TypeOK, CreateVolumeLoad
  <2>2. pc' \in [Threads -> FilePcs \cup SysPcs]
    BY <1>4 DEF TypeOK, CreateVolumeLoad, Goto
  <2>. QED BY <1>4, <2>1, <2>2 DEF TypeOK, CreateVolumeLoad
<1>5. CASE CreateVolumeStore(f)
  <2>1. PICK ref \in RacyInc(Loaded[f].ref, Vcb.ReferenceCount),
             open \in RacyInc(Loaded[f].open, Vcb.OpenHandleCount) :
          Vcb' = [Vcb EXCEPT !.ReferenceCount = ref, !.OpenHandleCount = open]
    BY <1>5 DEF CreateVolumeStore
  <2>2. /\ Loaded[f].ref \in Ulong /\ Loaded[f].open \in Ulong
        /\ Vcb.ReferenceCount \in Ulong /\ Vcb.OpenHandleCount \in Ulong
    BY DEF TypeOK
  <2>3. ref \in Ulong /\ open \in Ulong
    BY <2>1, <2>2, UlongClosed DEF RacyInc
  <2>4. 0 \in Ulong
    BY ConstantsAssumption DEF Ulong
  <2>. QED BY <1>5, <2>1, <2>3, <2>4 DEF TypeOK, CreateVolumeStore, Goto
<1>6. ASSUME NEW p \in Files, NEW x \in Fcbs, CreateLeavesFcb(f, p, x)
      PROVE  TypeOK'
  <2>1. /\ FcbList' \subseteq Fcbs
        /\ FFSMcb' \in [Fcbs -> Files \cup {NoObject}]
        /\ FFSFcb' \in [Files -> Fcbs \cup {NoObject}]
    BY <1>6 DEF TypeOK, CreateLeavesFcb, AllocateFcb
  <2>2. pc' \in [Threads -> FilePcs \cup SysPcs]
    BY <1>6 DEF TypeOK, CreateLeavesFcb, Goto
  <2>. QED BY <1>6, <2>1, <2>2 DEF TypeOK, CreateLeavesFcb
<1>7. ASSUME NEW p \in Files, NEW x \in Fcbs, NEW nocache \in BOOLEAN, CreateFile(f, p, x, nocache)
      PROVE  TypeOK'
  BY <1>7, UlongClosed DEF TypeOK, CreateFile, CountOpen, AllocateFcb, Goto
<1>8. ASSUME NEW p \in Files, NEW x \in Fcbs, NEW nocache \in BOOLEAN, CreateFileFails(f, p, x, nocache)
      PROVE  TypeOK'
  BY <1>8, UlongClosed DEF TypeOK, CreateFileFails, CountOpen, AllocateFcb, Goto
<1>. QED BY <1>1, <1>2, <1>3, <1>4, <1>5, <1>6, <1>7, <1>8 DEF OpenStep

(* FFSFreeFcb leaves the FCB list and the pointers well typed. *)
LEMMA FreeFcbType ==
  ASSUME TypeOK, NEW x \in Fcbs, FreeFcb(x)
  PROVE  /\ FcbList' \subseteq Fcbs
         /\ FFSMcb' \in [Fcbs -> Files \cup {NoObject}]
         /\ FFSFcb' \in [Files -> Fcbs \cup {NoObject}]
         /\ NonCachedOpenCount' \in [Fcbs -> Ulong]
<1>1. 0 \in Ulong
  BY ConstantsAssumption DEF Ulong
<1>2. NonCachedOpenCount' \in [Fcbs -> Ulong]
  BY <1>1 DEF FreeFcb, TypeOK
<1>. QED BY <1>2 DEF FreeFcb, TypeOK

LEMMA CloseStepType ==
  ASSUME TypeOK, NEW f \in FileObjects, CloseStep(f)
  PROVE  TypeOK'
<1> USE DEF FilePcs, OpenPcs, CleanPcs, CheckPcs, TouchVcb, fcbVars, foVars, lifeVars, Threads
<1>0. ASSUME CleanupBody(f)
      PROVE  /\ OpenHandleCount' \in [Fcbs -> Ulong]
             /\ NonCachedOpenCount' \in [Fcbs -> Ulong]
             /\ Vcb' \in [ OpenFileHandleCount : Ulong, ReferenceCount : Ulong,
                          OpenHandleCount : Ulong, VOLUME_LOCKED : BOOLEAN, MOUNTED : BOOLEAN,
                          DISMOUNT_PENDING : BOOLEAN, LockFile : FileObjects \cup {NoObject} ]
             /\ Vpb' \in [MOUNTED : BOOLEAN, LOCKED : BOOLEAN, DeviceObject : BOOLEAN]
  <2>1. CASE FsContext[f] = NoObject /\ UNCHANGED <<OpenHandleCount, NonCachedOpenCount, Vcb, Vpb>>
    BY <2>1 DEF TypeOK
  <2>2. CASE CleanupOfVolume(f)
    BY <2>2, UlongClosed DEF TypeOK, CleanupOfVolume
  <2>3. ASSUME NEW x \in Fcbs, CleanupOfFile(f, x)
        PROVE  /\ OpenHandleCount' \in [Fcbs -> Ulong]
               /\ NonCachedOpenCount' \in [Fcbs -> Ulong]
               /\ Vcb' \in [ OpenFileHandleCount : Ulong, ReferenceCount : Ulong,
                            OpenHandleCount : Ulong, VOLUME_LOCKED : BOOLEAN, MOUNTED : BOOLEAN,
                            DISMOUNT_PENDING : BOOLEAN, LockFile : FileObjects \cup {NoObject} ]
               /\ Vpb' \in [MOUNTED : BOOLEAN, LOCKED : BOOLEAN, DeviceObject : BOOLEAN]
    BY <2>3, UlongClosed DEF TypeOK, CleanupOfFile
  <2>. QED BY <1>0, <2>1, <2>2, <2>3 DEF CleanupBody
<1>1. ASSUME Cleanup(f), VcbMain' \in Threads \cup {NoObject}
      PROVE  TypeOK'
  BY <1>0, <1>1 DEF TypeOK, Cleanup, Goto
<1>2. CASE CleanupNow(f)
  BY <1>1, <1>2 DEF TypeOK, CleanupNow
<1>3. CASE CleanupWorker(f)
  BY <1>1, <1>3 DEF CleanupWorker
<1>4. CASE CleanupPend(f)
  BY <1>4, GotoType DEF CleanupPend
<1>5. CASE DeQueue(f)
  BY <1>5, GotoType DEF DeQueue
<1>6. CASE WorkerAcquire(f)
  BY <1>6 DEF TypeOK, WorkerAcquire, Goto
<1>7. ASSUME CloseBody(f), VcbMain' \in Threads \cup {NoObject}
      PROVE  TypeOK'
  <2>1. /\ FsContext' = [FsContext EXCEPT ![f] = NoObject]
        /\ Cached' = [Cached EXCEPT ![f] = FALSE]
        /\ UNCHANGED <<Busy, Vpb, Global, Todo, Loaded>>
    BY <1>7 DEF CloseBody
  <2>2. ASSUME ReleaseVcb(f)
        PROVE  /\ pc' \in [Threads -> FilePcs \cup SysPcs]
               /\ Vcb' \in [ OpenFileHandleCount : Ulong, ReferenceCount : Ulong,
                            OpenHandleCount : Ulong, VOLUME_LOCKED : BOOLEAN, MOUNTED : BOOLEAN,
                            DISMOUNT_PENDING : BOOLEAN, LockFile : FileObjects \cup {NoObject} ]
    BY <2>2, UlongClosed DEF TypeOK, ReleaseVcb, Goto
  <2>3. CASE FsContext[f] = NoObject
    <3>1. /\ Goto(f, "none")
          /\ Undefined' = (VcbFreed \/ pc[f] = "closeW")
          /\ UNCHANGED <<fcbVars, Vcb, VcbInList, VcbFreed>>
      BY <1>7, <2>3, ConstantsAssumption DEF CloseBody
    <3>2. Undefined' \in BOOLEAN /\ VcbInList' \in BOOLEAN /\ VcbFreed' \in BOOLEAN
      BY <3>1 DEF TypeOK
    <3>3. pc' \in [Threads -> FilePcs \cup SysPcs]
      BY <3>1 DEF TypeOK, Goto
    <3>4. /\ FsContext' \in [FileObjects -> Fcbs \cup {VolumeObject, NoObject}]
          /\ Cached' \in [FileObjects -> BOOLEAN]
      BY <2>1 DEF TypeOK
    <3>. QED BY <1>7, <2>1, <3>1, <3>2, <3>3, <3>4 DEF TypeOK
  <2>4. CASE FsContext[f] = VolumeObject
    <3>1. ReleaseVcb(f) /\ TouchVcb /\ UNCHANGED fcbVars
      BY <1>7, <2>4, ConstantsAssumption DEF CloseBody
    <3>. QED BY <1>7, <2>1, <2>2, <3>1 DEF TypeOK
  <2>5. ASSUME NEW x \in Fcbs, FsContext[f] = x
        PROVE  TypeOK'
    <3>1. ReleaseVcb(f) /\ ReleaseFcb(x) /\ TouchVcb /\ UNCHANGED OpenHandleCount
      BY <1>7, <2>5, ConstantsAssumption DEF CloseBody
    <3>2. /\ FcbList' \subseteq Fcbs
          /\ FFSMcb' \in [Fcbs -> Files \cup {NoObject}]
          /\ FFSFcb' \in [Files -> Fcbs \cup {NoObject}]
          /\ NonCachedOpenCount' \in [Fcbs -> Ulong]
          /\ ReferenceCount' \in [Fcbs -> Ulong]
      <4>1. ReferenceCount' \in [Fcbs -> Ulong]
        BY <3>1, UlongClosed DEF TypeOK, ReleaseFcb
      <4>2. CASE LastClose(x)
        <5>1. FreeFcb(x)
          BY <3>1, <4>2 DEF ReleaseFcb
        <5>. QED BY <4>1, <5>1, FreeFcbType
      <4>3. CASE ~LastClose(x)
        BY <3>1, <4>1, <4>3 DEF ReleaseFcb, TypeOK
      <4>. QED BY <4>2, <4>3
    <3>. QED BY <1>7, <2>1, <2>2, <3>1, <3>2 DEF TypeOK
  <2>. QED BY <2>3, <2>4, <2>5 DEF TypeOK
<1>8. CASE CloseNow(f)
  BY <1>7, <1>8 DEF TypeOK, CloseNow
<1>9. CASE CloseWorker(f)
  BY <1>7, <1>9 DEF CloseWorker
<1>10. CASE ClosePend(f)
  BY <1>10, GotoType DEF ClosePend
<1>11. CASE CloseRemovesVcb(f)
  BY <1>11 DEF TypeOK, CloseRemovesVcb, RemoveVcb, Goto
<1>12. CASE CloseFreesVcb(f)
  BY <1>12 DEF TypeOK, CloseFreesVcb, FreeVcb, Goto
<1>. QED BY <1>2, <1>3, <1>4, <1>5, <1>6, <1>8, <1>9, <1>10, <1>11, <1>12 DEF CloseStep

(* So does the start of a purge. *)
LEMMA BeginPurgeType ==
  ASSUME TypeOK, NEW t \in Threads, BeginPurge(t)
  PROVE  /\ VcbMain' \in Threads \cup {NoObject}
         /\ Todo' \subseteq Fcbs
         /\ ReferenceCount' \in [Fcbs -> Ulong]
         /\ UNCHANGED <<FcbList, FFSMcb, FFSFcb, OpenHandleCount, NonCachedOpenCount>>
BY UlongClosed DEF TypeOK, BeginPurge

LEMMA HandleStepType ==
  ASSUME TypeOK, NEW f \in FileObjects, HandleStep(f)
  PROVE  TypeOK'
<1> USE DEF FilePcs, OpenPcs, CleanPcs, CheckPcs, TouchVcb, fcbVars, foVars, lifeVars, Threads
<1>1. CASE StartRead(f)
  BY <1>1 DEF TypeOK, StartRead
<1>2. CASE StartQuery(f)
  BY <1>2 DEF TypeOK, StartQuery
<1>3. CASE EndIo(f)
  BY <1>3 DEF TypeOK, EndIo
<1>4. CASE LockVolume(f)
  BY <1>4 DEF TypeOK, LockVolume, LockVcb
<1>5. CASE UnlockVolume(f)
  BY <1>5 DEF TypeOK, UnlockVolume, UnlockVcb
<1>6. CASE DismountVolume(f)
  BY <1>6, BeginPurgeType DEF TypeOK, DismountVolume, Goto
<1>7. CASE DismountPurged(f)
  BY <1>7 DEF TypeOK, DismountPurged, Goto
<1>. QED BY <1>1, <1>2, <1>3, <1>4, <1>5, <1>6, <1>7 DEF HandleStep

LEMMA CheckStepType ==
  ASSUME TypeOK, NEW t \in Threads, CheckStep(t)
  PROVE  TypeOK'
<1> USE DEF FilePcs, OpenPcs, CleanPcs, CheckPcs, SysPcs, TouchVcb, fcbVars, foVars, lifeVars
<1>1. CASE CheckDismountGlobal(t)
  BY <1>1 DEF TypeOK, CheckDismountGlobal, Goto
<1>2. CASE CheckDismount(t)
  BY <1>2 DEF TypeOK, CheckDismount, TearDown, RemoveVcb, Goto
<1>3. CASE CheckDismountFree(t)
  BY <1>3 DEF TypeOK, CheckDismountFree, FreeVcb, Goto
<1>. QED BY <1>1, <1>2, <1>3 DEF CheckStep

LEMMA PurgeFcbType ==
  ASSUME TypeOK, NEW x \in Fcbs, PurgeFcb(x)
  PROVE  TypeOK'
<1> USE DEF TouchVcb, fcbVars, foVars, lifeVars
<1>1. 0 \in Ulong
  BY ConstantsAssumption DEF Ulong
<1>2. CASE PurgedForGood(x)
  <2>1. FreeFcb(x) /\ ReferenceCount' = [ReferenceCount EXCEPT ![x] = 0]
    BY <1>2 DEF PurgeFcb
  <2>2. ReferenceCount' \in [Fcbs -> Ulong]
    BY <1>1, <2>1 DEF TypeOK
  <2>. QED BY <2>1, <2>2, FreeFcbType DEF TypeOK, PurgeFcb
<1>3. CASE ~PurgedForGood(x)
  BY <1>3 DEF TypeOK, PurgeFcb
<1>. QED BY <1>2, <1>3

(* So does FFSLockVcb. *)
LEMMA LockVcbType ==
  ASSUME TypeOK, NEW owner \in FileObjects \cup {NoObject},
         LockVcb(owner) \/ UNCHANGED <<Vcb, Vpb>>
  PROVE  /\ Vcb' \in [ OpenFileHandleCount : Ulong, ReferenceCount : Ulong,
                      OpenHandleCount : Ulong, VOLUME_LOCKED : BOOLEAN, MOUNTED : BOOLEAN,
                      DISMOUNT_PENDING : BOOLEAN, LockFile : FileObjects \cup {NoObject} ]
         /\ Vpb' \in [MOUNTED : BOOLEAN, LOCKED : BOOLEAN, DeviceObject : BOOLEAN]
BY DEF TypeOK, LockVcb

LEMMA SystemStepType ==
  ASSUME TypeOK, SystemStep
  PROVE  TypeOK'
<1> USE DEF FilePcs, OpenPcs, CleanPcs, CheckPcs, SysPcs, TouchVcb, fcbVars, foVars, lifeVars,
            Threads, SysThreads
<1>1. CASE QueryRemove
  <2>1. LockVcb(NoObject) \/ UNCHANGED <<Vcb, Vpb>>
    BY <1>1 DEF QueryRemove
  <2>2. pc' \in [Threads -> FilePcs \cup SysPcs]
    BY <1>1 DEF TypeOK, QueryRemove, Goto
  <2>3. BeginPurge("pnp") /\ TouchVcb /\ UNCHANGED <<foVars, Busy, Global, Loaded>>
    BY <1>1 DEF QueryRemove
  <2>. QED BY <2>1, <2>2, <2>3, LockVcbType, BeginPurgeType DEF TypeOK
<1>2. CASE QueryRemovePurged
  BY <1>2 DEF TypeOK, QueryRemovePurged, Goto
<1>3. CASE QueryRemoveLower
  BY <1>3, GotoType DEF QueryRemoveLower
<1>4. CASE CancelRemove
  BY <1>4, ZenonT(30) DEF TypeOK, CancelRemove, UnlockVcb
<1>5. CASE Remove
  <2>1. LockVcb(NoObject) \/ UNCHANGED <<Vcb, Vpb>>
    BY <1>5 DEF Remove
  <2>2. pc' \in [Threads -> FilePcs \cup SysPcs]
    BY <1>5 DEF TypeOK, Remove, Goto
  <2>3. TouchVcb /\ UNCHANGED <<foVars, Busy, fcbVars, VcbMain, Global, Todo, Loaded>>
    BY <1>5 DEF Remove
  <2>. QED BY <2>1, <2>2, <2>3, LockVcbType DEF TypeOK
<1>6. CASE RemovePurges
  BY <1>6, BeginPurgeType DEF TypeOK, RemovePurges, Goto
<1>7. CASE RemovePurged
  BY <1>7 DEF TypeOK, RemovePurged, Goto
<1>8. CASE VerifyVolume
  BY <1>8 DEF TypeOK, VerifyVolume, Goto
<1>9. CASE VerifyReturns
  BY <1>9 DEF TypeOK, VerifyReturns, Goto
<1>10. CASE VerifyFails
  BY <1>10, BeginPurgeType DEF TypeOK, VerifyFails, Goto
<1>11. CASE VerifyPurged
  BY <1>11 DEF TypeOK, VerifyPurged, Goto
<1>12. CASE InvalidateVolumes
  BY <1>12 DEF TypeOK, InvalidateVolumes, Goto
<1>13. CASE InvalidatePurges
  BY <1>13, BeginPurgeType DEF TypeOK, InvalidatePurges, Goto
<1>14. CASE InvalidatePurged
  BY <1>14 DEF TypeOK, InvalidatePurged, Goto
<1>15. CASE InvalidateCheck
  <2>1. UNCHANGED <<foVars, Busy, fcbVars, VcbMain, Todo, Loaded>>
    BY <1>15 DEF InvalidateCheck
  <2>2. CASE TearDown /\ Goto("inv", "ivFree") /\ UNCHANGED Global
    BY <2>1, <2>2 DEF TypeOK, TearDown, RemoveVcb, Goto
  <2>3. CASE /\ UNCHANGED <<Vcb, Vpb>> /\ Goto("inv", "idle")
             /\ Global' = NoObject /\ TouchVcb
    BY <2>1, <2>3 DEF TypeOK, Goto
  <2>. QED BY <1>15, <2>2, <2>3 DEF InvalidateCheck
<1>16. CASE InvalidateFree
  BY <1>16 DEF TypeOK, InvalidateFree, FreeVcb, Goto
<1>17. CASE PrepareToUnload
  BY <1>17, ZenonT(30) DEF TypeOK, PrepareToUnload
<1>18. CASE ShutDown
  BY <1>18 DEF TypeOK, ShutDown, Goto
<1>19. CASE ShutDownVolume
  BY <1>19 DEF TypeOK, ShutDownVolume, Goto
<1>. QED BY <1>1, <1>2, <1>3, <1>4, <1>5, <1>6, <1>7, <1>8, <1>9, <1>10, <1>11, <1>12, <1>13,
            <1>14, <1>15, <1>16, <1>17, <1>18, <1>19 DEF SystemStep

(* FFSVolume: every variable keeps its type, and the counts stay ULONGs.   *)
THEOREM TypeCorrect == Spec => []TypeOK
<1>1. Init => TypeOK
  <2>1. 0 \in Ulong
    BY ConstantsAssumption DEF Ulong
  <2>2. "none" \in FilePcs /\ "idle" \in SysPcs
    BY DEF FilePcs, SysPcs
  <2> SUFFICES ASSUME Init PROVE TypeOK
    OBVIOUS
  <2>3. pc \in [Threads -> FilePcs \cup SysPcs]
    BY <2>2 DEF Init
  <2>4. Vcb \in [ OpenFileHandleCount : Ulong, ReferenceCount : Ulong, OpenHandleCount : Ulong,
                 VOLUME_LOCKED : BOOLEAN, MOUNTED : BOOLEAN, DISMOUNT_PENDING : BOOLEAN,
                 LockFile : FileObjects \cup {NoObject} ]
    BY <2>1 DEF Init
  <2>5. Loaded \in [FileObjects -> [ref : Ulong, open : Ulong]]
    BY <2>1 DEF Init
  <2>. QED BY <2>1, <2>3, <2>4, <2>5 DEF Init, TypeOK
<1>2. TypeOK /\ [Next]_vars => TypeOK'
  <2> SUFFICES ASSUME TypeOK, [Next]_vars PROVE TypeOK'
    OBVIOUS
  <2>1. CASE UNCHANGED vars
    BY <2>1 DEF TypeOK, vars, foVars, fcbVars, lifeVars
  <2>2. ASSUME NEW f \in FileObjects, OpenStep(f) \/ CloseStep(f) \/ HandleStep(f)
        PROVE  TypeOK'
    BY <2>2, OpenStepType, CloseStepType, HandleStepType
  <2>. QED BY <2>1, <2>2, CheckStepType, PurgeFcbType, SystemStepType DEF Next
<1>. QED BY <1>1, <1>2, PTL DEF Spec

-----------------------------------------------------------------------------
(* No FCB is freed under a pointer *)

(* The sets the counts are compared with are finite. *)
LEMMA HandlesFinite ==
  ASSUME NEW x
  PROVE  /\ IsFiniteSet(Handles(x)) /\ Cardinality(Handles(x)) \in Nat
         /\ IsFiniteSet(Cleaned(x)) /\ Cardinality(Cleaned(x)) \in Nat
<1>1. Handles(x) \subseteq FileObjects /\ Cleaned(x) \subseteq FileObjects
  BY DEF Handles, Cleaned
<1>. QED BY <1>1, ConstantsAssumption, FS_Subset, FS_CardinalityType

(* What a step that neither opens, cleans up nor closes a file does to the *)
(* file objects. *)
KeepsHandles ==
  \A f \in FileObjects, x \in Fcbs :
    /\ FsContext'[f] = x <=> FsContext[f] = x
    /\ FsContext[f] = x => /\ pc'[f] \in OpenPcs <=> pc[f] \in OpenPcs
                           /\ pc'[f] \in CleanPcs <=> pc[f] \in CleanPcs

(* Such a step keeps the invariant if it leaves the FCBs alone. *)
LEMMA Quiet ==
  ASSUME IInv, TypeOK', ContextFollowsPc', KeepsHandles, Todo' \subseteq Todo,
         UNCHANGED <<FcbList, FFSMcb, FFSFcb, OpenHandleCount, ReferenceCount>>
  PROVE  IInv'
<1>1. ASSUME NEW x \in Fcbs
      PROVE  Handles(x)' = Handles(x) /\ Cleaned(x)' = Cleaned(x)
  BY DEF KeepsHandles, Handles, Cleaned
<1>2. SingleFcbPerFile' /\ FreedFcbsUncounted' /\ (Todo \subseteq FcbList)'
  BY DEF IInv, SingleFcbPerFile, FreedFcbsUncounted
<1>3. CountsCover'
  <2> SUFFICES ASSUME NEW x \in FcbList
               PROVE  /\ OpenHandleCount[x] >= Cardinality(Handles(x)')
                      /\ ReferenceCount[x] >= OpenHandleCount[x] + Cardinality(Cleaned(x)')
                                                + (IF x \in Todo' THEN 1 ELSE 0)
    BY DEF CountsCover
  <2>1. x \in Fcbs /\ OpenHandleCount[x] \in Nat /\ ReferenceCount[x] \in Nat
    BY ConstantsAssumption DEF IInv, TypeOK, Ulong
  <2>2. /\ OpenHandleCount[x] >= Cardinality(Handles(x))
        /\ ReferenceCount[x] >= OpenHandleCount[x] + Cardinality(Cleaned(x))
                                  + (IF x \in Todo THEN 1 ELSE 0)
    BY DEF IInv, CountsCover
  <2>. QED BY <1>1, <2>1, <2>2, HandlesFinite
<1>. QED BY <1>2, <1>3 DEF IInv

(* A thread that goes on without opening, cleaning up or closing. *)
LEMMA QuietGoto ==
  ASSUME IInv, TypeOK', NEW t, NEW label, Goto(t, label), Todo' \subseteq Todo,
         t \in FileObjects => /\ label \in OpenPcs <=> pc[t] \in OpenPcs
                              /\ label \in CleanPcs <=> pc[t] \in CleanPcs,
         UNCHANGED <<FsContext, FcbList, FFSMcb, FFSFcb, OpenHandleCount, ReferenceCount>>
  PROVE  IInv'
<1>1. ASSUME NEW f \in FileObjects
      PROVE  /\ pc'[f] \in OpenPcs <=> pc[f] \in OpenPcs
             /\ pc'[f] \in CleanPcs <=> pc[f] \in CleanPcs
  <2>1. pc \in [Threads -> FilePcs \cup SysPcs] /\ f \in Threads
    BY DEF IInv, TypeOK, Threads
  <2>2. pc' = [pc EXCEPT ![t] = label]
    BY DEF Goto
  <2>3. CASE f = t
    <3>1. pc'[f] = label
      BY <2>1, <2>2, <2>3
    <3>. QED BY <2>3, <3>1
  <2>4. CASE f # t
    <3>1. pc'[f] = pc[f]
      BY <2>1, <2>2, <2>4
    <3>. QED BY <3>1
  <2>. QED BY <2>3, <2>4
<1>2. ContextFollowsPc'
  BY <1>1 DEF IInv, ContextFollowsPc
<1>3. KeepsHandles
  BY <1>1 DEF KeepsHandles
<1>. QED BY <1>2, <1>3, Quiet

(* A step that moves no thread. *)
LEMMA QuietStay ==
  ASSUME IInv, TypeOK', Todo' \subseteq Todo,
         UNCHANGED <<pc, FsContext, FcbList, FFSMcb, FFSFcb, OpenHandleCount, ReferenceCount>>
  PROVE  IInv'
<1>1. ContextFollowsPc'
  BY DEF IInv, ContextFollowsPc
<1>2. KeepsHandles
  BY DEF KeepsHandles
<1>. QED BY <1>1, <1>2, Quiet

(* The counts cover what there is for an FCB that is not allocated, too:   *)
(* nothing. *)
Covered(x) ==
  /\ OpenHandleCount[x] >= Cardinality(Handles(x))
  /\ ReferenceCount[x] >= OpenHandleCount[x] + Cardinality(Cleaned(x))
                            + (IF x \in Todo THEN 1 ELSE 0)

LEMMA AllCovered ==
  ASSUME IInv, NEW x \in Fcbs
  PROVE  /\ Covered(x)
         /\ OpenHandleCount[x] \in Nat /\ ReferenceCount[x] \in Nat
         /\ x \notin FcbList => Handles(x) = {} /\ Cleaned(x) = {} /\ x \notin Todo
<1>1. OpenHandleCount[x] \in Nat /\ ReferenceCount[x] \in Nat
  BY ConstantsAssumption DEF IInv, TypeOK, Ulong
<1>2. CASE x \in FcbList
  BY <1>1, <1>2 DEF IInv, CountsCover, Covered
<1>3. CASE x \notin FcbList
  <2>1. Handles(x) = {} /\ Cleaned(x) = {}
    BY <1>3, ConstantsAssumption DEF IInv, ContextFollowsPc, Handles, Cleaned
  <2>2. x \notin Todo /\ OpenHandleCount[x] = 0 /\ ReferenceCount[x] = 0
    BY <1>3 DEF IInv, FreedFcbsUncounted
  <2>. QED BY <1>1, <1>3, <2>1, <2>2, FS_EmptySet DEF Covered
<1>. QED BY <1>2, <1>3

(* Allocating an FCB, or finding the one the MCB has, keeps the bijection. *)
LEMMA AllocateKeepsBijection ==
  ASSUME IInv, NEW p \in Files, NEW x \in Fcbs, FcbOf(p, x), AllocateFcb(p, x)
  PROVE  SingleFcbPerFile'
<1>1. /\ FFSMcb \in [Fcbs -> Files \cup {NoObject}]
      /\ FFSFcb \in [Files -> Fcbs \cup {NoObject}]
      /\ SingleFcbPerFile
      /\ NoObject \notin Files \cup Fcbs
  BY ConstantsAssumption DEF IInv, TypeOK
<1>2. CASE FFSFcb[p] = x
  <2>1. x \in FcbList /\ FFSMcb[x] = p
    BY <1>1, <1>2 DEF SingleFcbPerFile
  <2>2. FcbList' = FcbList /\ FFSMcb' = FFSMcb /\ FFSFcb' = FFSFcb
    BY <1>1, <1>2, <2>1 DEF AllocateFcb
  <2>. QED BY <1>1, <2>2 DEF SingleFcbPerFile
<1>3. CASE FFSFcb[p] = NoObject /\ x \in Fcbs \ FcbList
  BY <1>1, <1>3 DEF AllocateFcb, SingleFcbPerFile
<1>. QED BY <1>2, <1>3 DEF FcbOf

(* What FreeFcb does to the bijection. *)
LEMMA FreeKeepsBijection ==
  ASSUME IInv, NEW x \in FcbList, FreeFcb(x)
  PROVE  SingleFcbPerFile'
<1>1. /\ FFSMcb \in [Fcbs -> Files \cup {NoObject}]
      /\ FFSFcb \in [Files -> Fcbs \cup {NoObject}]
      /\ FcbList \subseteq Fcbs
      /\ SingleFcbPerFile
      /\ NoObject \notin Files \cup Fcbs
  BY ConstantsAssumption DEF IInv, TypeOK
<1>2. FFSMcb[x] \in Files /\ FFSFcb[FFSMcb[x]] = x
  BY <1>1 DEF SingleFcbPerFile
<1>. QED BY <1>1, <1>2 DEF FreeFcb, SingleFcbPerFile

(* The counts of one open. *)
LEMMA OpenCounts ==
  ASSUME IInv, NEW p \in Files, NEW x \in Fcbs, NEW nocache, CountOpen(p, x, nocache)
  PROVE  /\ SingleFcbPerFile' /\ FcbList' = FcbList \cup {x}
         /\ FreedFcbsUncounted'
         /\ OpenHandleCount'[x] = OpenHandleCount[x] + 1
         /\ ReferenceCount'[x] = ReferenceCount[x] + 1
         /\ \A y \in Fcbs \ {x} : /\ OpenHandleCount'[y] = OpenHandleCount[y]
                                  /\ ReferenceCount'[y] = ReferenceCount[y]
<1>1. /\ OpenHandleCount \in [Fcbs -> Ulong] /\ ReferenceCount \in [Fcbs -> Ulong]
      /\ OpenHandleCount[x] < MaxULong /\ ReferenceCount[x] < MaxULong
  BY ConstantsAssumption DEF IInv, TypeOK, CountOpen, Ulong
<1>2. /\ OpenHandleCount' = [OpenHandleCount EXCEPT ![x] = OpenHandleCount[x] + 1]
      /\ ReferenceCount' = [ReferenceCount EXCEPT ![x] = ReferenceCount[x] + 1]
  BY <1>1, IncDec DEF CountOpen
<1>3. SingleFcbPerFile' /\ FcbList' = FcbList \cup {x}
  BY AllocateKeepsBijection DEF CountOpen, AllocateFcb
<1>. QED BY <1>1, <1>2, <1>3 DEF FreedFcbsUncounted, IInv

(* CountsCover of the next state, from the next state's Covered. *)
LEMMA CoverNext ==
  ASSUME TypeOK', \A y \in FcbList' : Covered(y)'
  PROVE  CountsCover'
BY DEF CountsCover, Covered

LEMMA CreateFileStep ==
  ASSUME IInv, TypeOK', NEW f \in FileObjects, NEW p \in Files, NEW x \in Fcbs, NEW nocache,
         CreateFile(f, p, x, nocache)
  PROVE  IInv'
<1>1. /\ pc[f] = "opening" /\ CountOpen(p, x, nocache)
      /\ FsContext' = [FsContext EXCEPT ![f] = x]
      /\ pc' = [pc EXCEPT ![f] = "open"]
      /\ Todo' = Todo
  BY DEF CreateFile, Goto
<1>2. /\ pc \in [Threads -> FilePcs \cup SysPcs] /\ FileObjects \subseteq Threads
      /\ FsContext \in [FileObjects -> Fcbs \cup {VolumeObject, NoObject}]
      /\ Todo \subseteq FcbList
  BY DEF IInv, TypeOK, Threads
<1>3. "opening" \notin OpenPcs \cup CleanPcs /\ "open" \in OpenPcs /\ "open" \notin CleanPcs
  BY DEF OpenPcs, CleanPcs, CheckPcs
<1>4. FsContext[f] = NoObject
  BY <1>1, <1>3 DEF IInv, ContextFollowsPc
<1>5. ContextFollowsPc'
  BY <1>1, <1>2, <1>3, OpenCounts DEF IInv, ContextFollowsPc
<1>6. Handles(x)' = Handles(x) \cup {f} /\ Cleaned(x)' = Cleaned(x) /\ f \notin Handles(x)
  BY <1>1, <1>2, <1>3, <1>4 DEF Handles, Cleaned
<1>7. ASSUME NEW y \in Fcbs \ {x}
      PROVE  Handles(y)' = Handles(y) /\ Cleaned(y)' = Cleaned(y)
  BY <1>1, <1>2, <1>3, <1>4, ConstantsAssumption DEF Handles, Cleaned
<1>8. Covered(x)'
  <2>1. Cardinality(Handles(x)') = Cardinality(Handles(x)) + 1
    BY <1>6, HandlesFinite, FS_AddElement
  <2>2. (x \in Todo') = (x \in Todo)
    BY <1>1
  <2>. QED BY <1>1, <1>6, <2>1, <2>2, OpenCounts, AllCovered, HandlesFinite DEF Covered
<1>9. ASSUME NEW y \in FcbList' PROVE Covered(y)'
  <2>1. CASE y = x
    BY <1>8, <2>1
  <2>2. CASE y # x
    <3>1. y \in Fcbs \ {x} /\ Covered(y)
      BY <1>1, <2>2, OpenCounts, AllCovered DEF IInv, TypeOK
    <3>. QED BY <1>1, <1>7, <3>1, OpenCounts DEF Covered
  <2>. QED BY <2>1, <2>2
<1>. QED BY <1>1, <1>2, <1>5, <1>9, OpenCounts, CoverNext DEF IInv

LEMMA CreateFileFailsStep ==
  ASSUME IInv, TypeOK', NEW f \in FileObjects, NEW p \in Files, NEW x \in Fcbs, NEW nocache,
         CreateFileFails(f, p, x, nocache)
  PROVE  IInv'
<1>1. /\ pc[f] = "opening" /\ CountOpen(p, x, nocache)
      /\ FsContext' = FsContext
      /\ pc' = [pc EXCEPT ![f] = "none"]
      /\ Todo' = Todo
  BY DEF CreateFileFails, Goto, foVars
<1>2. /\ pc \in [Threads -> FilePcs \cup SysPcs] /\ FileObjects \subseteq Threads
      /\ Todo \subseteq FcbList
  BY DEF IInv, TypeOK, Threads
<1>3. {"opening", "none"} \cap (OpenPcs \cup CleanPcs) = {}
  BY DEF OpenPcs, CleanPcs, CheckPcs
<1>4. ContextFollowsPc'
  BY <1>1, <1>2, <1>3, OpenCounts DEF IInv, ContextFollowsPc
<1>5. ASSUME NEW y \in Fcbs
      PROVE  Handles(y)' = Handles(y) /\ Cleaned(y)' = Cleaned(y)
  BY <1>1, <1>2, <1>3 DEF Handles, Cleaned
<1>6. ASSUME NEW y \in FcbList' PROVE Covered(y)'
  <2>1. y \in Fcbs /\ Covered(y) /\ OpenHandleCount[y] \in Nat /\ ReferenceCount[y] \in Nat
    BY <1>1, OpenCounts, AllCovered DEF IInv, TypeOK
  <2>2. CASE y = x
    <3>1. (x \in Todo') = (x \in Todo)
      BY <1>1
    <3>. QED BY <1>1, <1>5, <2>1, <2>2, <3>1, OpenCounts, HandlesFinite DEF Covered
  <2>3. CASE y # x
    BY <1>1, <1>5, <2>1, <2>3, OpenCounts DEF Covered
  <2>. QED BY <2>2, <2>3
<1>. QED BY <1>1, <1>2, <1>4, <1>6, OpenCounts, CoverNext DEF IInv

LEMMA CreateLeavesFcbStep ==
  ASSUME IInv, TypeOK', NEW f \in FileObjects, NEW p \in Files, NEW x \in Fcbs,
         CreateLeavesFcb(f, p, x)
  PROVE  IInv'
<1>1. /\ pc[f] = "opening" /\ FcbOf(p, x) /\ AllocateFcb(p, x) /\ x \notin FcbList
      /\ UNCHANGED <<FsContext, OpenHandleCount, ReferenceCount, Todo>>
      /\ pc' = [pc EXCEPT ![f] = "none"]
  BY DEF CreateLeavesFcb, Goto, FcbOf, foVars
<1>2. /\ pc \in [Threads -> FilePcs \cup SysPcs] /\ FileObjects \subseteq Threads
      /\ Todo \subseteq FcbList
  BY DEF IInv, TypeOK, Threads
<1>3. {"opening", "none"} \cap (OpenPcs \cup CleanPcs) = {}
  BY DEF OpenPcs, CleanPcs, CheckPcs
<1>4. SingleFcbPerFile' /\ FcbList' = FcbList \cup {x}
  BY <1>1, AllocateKeepsBijection DEF AllocateFcb
<1>5. ContextFollowsPc' /\ FreedFcbsUncounted'
  BY <1>1, <1>2, <1>3, <1>4 DEF IInv, ContextFollowsPc, FreedFcbsUncounted
<1>6. ASSUME NEW y \in FcbList' PROVE Covered(y)'
  <2>1. y \in Fcbs /\ Covered(y)
    BY <1>4, AllCovered DEF IInv, TypeOK
  <2>2. Handles(y)' = Handles(y) /\ Cleaned(y)' = Cleaned(y)
    BY <1>1, <1>2, <1>3 DEF Handles, Cleaned
  <2>. QED BY <1>1, <2>1, <2>2 DEF Covered
<1>. QED BY <1>1, <1>2, <1>4, <1>5, <1>6, CoverNext DEF IInv

(* A handle that is no file's, or a create that opened nothing, may change *)
(* its label and its FsContext as it likes. *)
LEMMA QuietNoFile ==
  ASSUME IInv, TypeOK', NEW f \in FileObjects, NEW label, NEW context, context \notin Fcbs,
         FsContext[f] \notin Fcbs, Goto(f, label),
         FsContext' = [FsContext EXCEPT ![f] = context],
         label \in OpenPcs \cup CleanPcs => context \in {VolumeObject, NoObject},
         label \notin OpenPcs \cup CleanPcs => context = NoObject,
         UNCHANGED <<Todo, FcbList, FFSMcb, FFSFcb, OpenHandleCount, ReferenceCount>>
  PROVE  IInv'
<1>1. /\ pc' = [pc EXCEPT ![f] = label]
      /\ pc \in [Threads -> FilePcs \cup SysPcs] /\ FileObjects \subseteq Threads
      /\ FsContext \in [FileObjects -> Fcbs \cup {VolumeObject, NoObject}]
  BY DEF Goto, IInv, TypeOK, Threads
<1>2. /\ pc'[f] = label /\ FsContext'[f] = context
      /\ \A g \in FileObjects \ {f} : pc'[g] = pc[g] /\ FsContext'[g] = FsContext[g]
  BY <1>1
<1>3. ContextFollowsPc'
  <2> SUFFICES ASSUME NEW g \in FileObjects
               PROVE  IF pc'[g] \in OpenPcs \cup CleanPcs
                      THEN FsContext'[g] \in FcbList \cup {VolumeObject, NoObject}
                      ELSE FsContext'[g] = NoObject
    BY DEF ContextFollowsPc
  <2>1. CASE g = f
    BY <1>2, <2>1
  <2>2. CASE g # f
    BY <1>2, <2>2 DEF IInv, ContextFollowsPc
  <2>. QED BY <2>1, <2>2
<1>4. KeepsHandles
  <2> SUFFICES ASSUME NEW g \in FileObjects, NEW x \in Fcbs
               PROVE  /\ FsContext'[g] = x <=> FsContext[g] = x
                      /\ FsContext[g] = x => /\ pc'[g] \in OpenPcs <=> pc[g] \in OpenPcs
                                             /\ pc'[g] \in CleanPcs <=> pc[g] \in CleanPcs
    BY DEF KeepsHandles
  <2>1. CASE g = f
    <3>1. FsContext'[g] # x /\ FsContext[g] # x
      BY <1>2, <2>1
    <3>. QED BY <3>1
  <2>2. CASE g # f
    BY <1>2, <2>2
  <2>. QED BY <2>1, <2>2
<1>. QED BY <1>3, <1>4, Quiet

(* A cleanup moves a file object from the open handles of its FCB to those *)
(* that wait for their close, and lowers one count. *)
LEMMA CleanupStep ==
  ASSUME IInv, TypeOK', NEW f \in FileObjects, pc[f] \in OpenPcs, Cleanup(f)
  PROVE  IInv'
<1>1. /\ CleanupBody(f)
      /\ pc' = [pc EXCEPT ![f] = "clean"] /\ Goto(f, "clean")
      /\ UNCHANGED <<FsContext, FcbList, FFSMcb, FFSFcb, ReferenceCount, Todo>>
  BY DEF Cleanup, Goto, foVars
<1>2. /\ pc \in [Threads -> FilePcs \cup SysPcs] /\ FileObjects \subseteq Threads
      /\ FsContext \in [FileObjects -> Fcbs \cup {VolumeObject, NoObject}]
      /\ VolumeObject \notin Fcbs /\ NoObject \notin Fcbs
  BY ConstantsAssumption DEF IInv, TypeOK, Threads
<1>3. /\ "clean" \in CleanPcs /\ "clean" \notin OpenPcs /\ pc[f] \notin CleanPcs
  BY DEF OpenPcs, CleanPcs, CheckPcs
<1>4. CASE FsContext[f] \notin Fcbs
  <2>1. UNCHANGED OpenHandleCount
    BY <1>1, <1>4 DEF CleanupBody, CleanupOfVolume
  <2>2. FsContext' = [FsContext EXCEPT ![f] = FsContext[f]]
    BY <1>1, <1>2
  <2>3. FsContext[f] \in {VolumeObject, NoObject}
    BY <1>2, <1>4
  <2>. QED BY <1>1, <1>3, <1>4, <2>1, <2>2, <2>3, QuietNoFile
<1>5. ASSUME NEW x \in Fcbs, FsContext[f] = x
      PROVE  IInv'
  <2>1. OpenHandleCount' = [OpenHandleCount EXCEPT ![x] = Dec(OpenHandleCount[x])]
    BY <1>1, <1>2, <1>5 DEF CleanupBody, CleanupOfFile
  <2>2. ContextFollowsPc'
    BY <1>1, <1>2, <1>3 DEF IInv, ContextFollowsPc
  <2>3. x \in FcbList
    BY <1>2, <1>5 DEF IInv, ContextFollowsPc
  <2>4. SingleFcbPerFile' /\ FreedFcbsUncounted' /\ (Todo \subseteq FcbList)'
    BY <1>1, <2>1, <2>3 DEF IInv, TypeOK, SingleFcbPerFile, FreedFcbsUncounted
  <2>5. /\ Handles(x)' = Handles(x) \ {f} /\ f \in Handles(x)
        /\ Cleaned(x)' = Cleaned(x) \cup {f} /\ f \notin Cleaned(x)
    BY <1>1, <1>2, <1>3, <1>5 DEF Handles, Cleaned
  <2>6. ASSUME NEW y \in Fcbs \ {x}
        PROVE  Handles(y)' = Handles(y) /\ Cleaned(y)' = Cleaned(y)
    BY <1>1, <1>2, <1>3, <1>5 DEF Handles, Cleaned
  <2>7. Covered(x)'
    <3>1. /\ Cardinality(Handles(x)') = Cardinality(Handles(x)) - 1
          /\ Cardinality(Cleaned(x)') = Cardinality(Cleaned(x)) + 1
          /\ Cardinality(Handles(x)) \in Nat /\ Cardinality(Handles(x)') \in Nat
      <4>1. /\ Cardinality(Handles(x) \ {f}) = Cardinality(Handles(x)) - 1
            /\ IsFiniteSet(Handles(x) \ {f})
        BY <2>5, HandlesFinite, FS_RemoveElement
      <4>2. Cardinality(Cleaned(x) \cup {f}) = Cardinality(Cleaned(x)) + 1
        BY <2>5, HandlesFinite, FS_AddElement
      <4>3. Cardinality(Handles(x) \ {f}) \in Nat
        BY <4>1, FS_CardinalityType
      <4>. QED BY <2>5, <4>1, <4>2, <4>3, HandlesFinite
    <3>2. /\ Covered(x) /\ OpenHandleCount[x] \in Ulong
          /\ OpenHandleCount[x] \in Nat /\ ReferenceCount[x] \in Nat
      BY AllCovered DEF IInv, TypeOK
    <3>3. OpenHandleCount[x] > 0
      BY <3>1, <3>2 DEF Covered
    <3>4. OpenHandleCount'[x] = OpenHandleCount[x] - 1
      BY <2>1, <3>2, <3>3, IncDec DEF IInv, TypeOK
    <3>5. (x \in Todo') = (x \in Todo) /\ ReferenceCount'[x] = ReferenceCount[x]
      BY <1>1
    <3>. QED BY <3>1, <3>2, <3>3, <3>4, <3>5, HandlesFinite DEF Covered
  <2>8. ASSUME NEW y \in FcbList' PROVE Covered(y)'
    <3>1. CASE y = x
      BY <2>7, <3>1
    <3>2. CASE y # x
      <4>1. y \in Fcbs \ {x} /\ Covered(y)
        BY <1>1, <3>2, AllCovered DEF IInv, TypeOK
      <4>2. OpenHandleCount'[y] = OpenHandleCount[y]
        BY <2>1, <4>1 DEF IInv, TypeOK
      <4>. QED BY <1>1, <2>6, <4>1, <4>2 DEF Covered
    <3>. QED BY <3>1, <3>2
  <2>. QED BY <2>2, <2>4, <2>8, CoverNext DEF IInv
<1>. QED BY <1>4, <1>5

(* A file object that points to an FCB is one of its handles, or cleaned   *)
(* up and not closed. *)
LEMMA PointerIsCounted ==
  ASSUME IInv, NEW x \in Fcbs, NEW g \in FileObjects, FsContext[g] = x
  PROVE  g \in Handles(x) \cup Cleaned(x) /\ x \in FcbList
BY ConstantsAssumption DEF IInv, ContextFollowsPc, Handles, Cleaned

(* A close takes one file object and one reference from its FCB, and frees *)
(* the FCB only when nobody else points to it. *)
LEMMA CloseStepOfFile ==
  ASSUME IInv, TypeOK', NEW f \in FileObjects, NEW x \in Fcbs, FsContext[f] = x,
         pc[f] \in CleanPcs, ReleaseVcb(f), ReleaseFcb(x),
         FsContext' = [FsContext EXCEPT ![f] = NoObject],
         UNCHANGED <<OpenHandleCount, Todo>>
  PROVE  IInv'
<1>1. /\ pc \in [Threads -> FilePcs \cup SysPcs] /\ FileObjects \subseteq Threads
      /\ FsContext \in [FileObjects -> Fcbs \cup {VolumeObject, NoObject}]
      /\ ReferenceCount \in [Fcbs -> Ulong]
      /\ FcbList \subseteq Fcbs /\ Todo \subseteq FcbList
      /\ VolumeObject \notin Fcbs /\ NoObject \notin Fcbs
  BY ConstantsAssumption DEF IInv, TypeOK, Threads
<1>2. /\ FsContext'[f] = NoObject
      /\ \A g \in FileObjects \ {f} : pc'[g] = pc[g] /\ FsContext'[g] = FsContext[g]
  BY <1>1 DEF ReleaseVcb, Goto
<1>3. pc'[f] \notin OpenPcs \cup CleanPcs /\ pc[f] \notin OpenPcs
  <2>1. pc'[f] \in {"none", "clGlobal"}
    BY <1>1 DEF ReleaseVcb, Goto
  <2>. QED BY <2>1 DEF OpenPcs, CleanPcs, CheckPcs
<1>4. /\ Handles(x)' = Handles(x)
      /\ Cleaned(x)' = Cleaned(x) \ {f} /\ f \in Cleaned(x)
  BY <1>1, <1>2, <1>3 DEF Handles, Cleaned
<1>5. ASSUME NEW y \in Fcbs \ {x}
      PROVE  Handles(y)' = Handles(y) /\ Cleaned(y)' = Cleaned(y)
  BY <1>1, <1>2, <1>3 DEF Handles, Cleaned
<1>6. /\ Cardinality(Cleaned(x) \ {f}) = Cardinality(Cleaned(x)) - 1
      /\ Cardinality(Cleaned(x) \ {f}) \in Nat
  <2>1. /\ Cardinality(Cleaned(x) \ {f}) = Cardinality(Cleaned(x)) - 1
        /\ IsFiniteSet(Cleaned(x) \ {f})
    BY <1>4, HandlesFinite, FS_RemoveElement
  <2>. QED BY <2>1, FS_CardinalityType
<1>7. /\ Covered(x) /\ OpenHandleCount[x] \in Nat /\ ReferenceCount[x] \in Nat
      /\ x \in FcbList
  BY AllCovered, PointerIsCounted
<1>8. ReferenceCount[x] > 0
  BY <1>6, <1>7, HandlesFinite DEF Covered
<1>9. /\ ReferenceCount'[x] = ReferenceCount[x] - 1
      /\ \A y \in Fcbs \ {x} : ReferenceCount'[y] = ReferenceCount[y]
  BY <1>1, <1>8, IncDec DEF ReleaseFcb
<1>10. Covered(x)'
  <2>1. (x \in Todo') = (x \in Todo) /\ OpenHandleCount'[x] = OpenHandleCount[x]
    OBVIOUS
  <2>. QED BY <1>4, <1>6, <1>7, <1>9, <2>1, HandlesFinite DEF Covered
<1>11. FcbList' \subseteq FcbList
  BY DEF ReleaseFcb, FreeFcb
<1>12. ASSUME NEW y \in FcbList' PROVE Covered(y)'
  <2>1. CASE y = x
    BY <1>10, <2>1
  <2>2. CASE y # x
    <3>1. y \in Fcbs \ {x} /\ Covered(y)
      BY <1>1, <1>11, <2>2, AllCovered
    <3>. QED BY <1>5, <1>9, <3>1 DEF Covered
  <2>. QED BY <2>1, <2>2
<1>13. CASE ~LastClose(x)
  <2>1. UNCHANGED <<FcbList, FFSMcb, FFSFcb>>
    BY <1>13 DEF ReleaseFcb
  <2>2. ContextFollowsPc'
    BY <1>2, <1>3, <2>1 DEF IInv, ContextFollowsPc
  <2>3. SingleFcbPerFile' /\ FreedFcbsUncounted'
    BY <1>7, <1>9, <2>1 DEF IInv, SingleFcbPerFile, FreedFcbsUncounted
  <2>. QED BY <1>1, <1>12, <2>1, <2>2, <2>3, CoverNext DEF IInv
<1>14. CASE LastClose(x)
  <2>1. FreeFcb(x) /\ FcbList' = FcbList \ {x} /\ ReferenceCount[x] = 1
    BY <1>14 DEF ReleaseFcb, FreeFcb, LastClose
  <2>2. /\ Cardinality(Handles(x)) = 0 /\ Cardinality(Cleaned(x) \ {f}) = 0
        /\ OpenHandleCount[x] = 0 /\ x \notin Todo
    BY <1>6, <1>7, <2>1, HandlesFinite DEF Covered
  <2>3. Handles(x) = {} /\ Cleaned(x) \ {f} = {}
    <3>1. IsFiniteSet(Cleaned(x) \ {f})
      BY HandlesFinite, FS_Subset, Cleaned(x) \ {f} \subseteq Cleaned(x)
    <3>. QED BY <2>2, <3>1, HandlesFinite, FS_EmptySet
  <2>4. ASSUME NEW g \in FileObjects \ {f} PROVE FsContext[g] # x
    BY <2>3, PointerIsCounted
  <2>5. ContextFollowsPc'
    BY <1>1, <1>2, <1>3, <2>1, <2>4 DEF IInv, ContextFollowsPc
  <2>6. FreedFcbsUncounted'
    BY <1>9, <2>1, <2>2 DEF IInv, FreedFcbsUncounted
  <2>7. SingleFcbPerFile'
    BY <1>7, <2>1, FreeKeepsBijection
  <2>. QED BY <1>1, <1>12, <2>1, <2>2, <2>5, <2>6, <2>7, CoverNext DEF IInv
<1>. QED BY <1>13, <1>14

LEMMA CloseBodyStep ==
  ASSUME IInv, TypeOK', NEW f \in FileObjects, pc[f] \in CleanPcs, CloseBody(f)
  PROVE  IInv'
<1>1. /\ FsContext' = [FsContext EXCEPT ![f] = NoObject] /\ Todo' = Todo
      /\ FsContext[f] \in Fcbs \cup {VolumeObject, NoObject}
      /\ VolumeObject \notin Fcbs /\ NoObject \notin Fcbs /\ VolumeObject # NoObject
  BY ConstantsAssumption DEF CloseBody, IInv, TypeOK
<1>2. CASE FsContext[f] \in Fcbs
  BY <1>1, <1>2, CloseStepOfFile DEF CloseBody
<1>3. CASE FsContext[f] \notin Fcbs
  <2>1. PICK label \in {"none", "clGlobal"} : Goto(f, label)
    BY <1>3 DEF CloseBody, ReleaseVcb
  <2>2. label \notin OpenPcs \cup CleanPcs
    BY <2>1 DEF OpenPcs, CleanPcs, CheckPcs
  <2>3. UNCHANGED <<FcbList, FFSMcb, FFSFcb, OpenHandleCount, ReferenceCount>>
    BY <1>3 DEF CloseBody, fcbVars
  <2>. QED BY <1>1, <1>3, <2>1, <2>2, <2>3, QuietNoFile
<1>. QED BY <1>2, <1>3

(* A purge takes a reference of its own on every FCB of the list. *)
LEMMA BeginPurgeStep ==
  ASSUME IInv, TypeOK', NEW t \in Threads, BeginPurge(t), ContextFollowsPc', KeepsHandles
  PROVE  IInv'
<1>1. ASSUME NEW x \in Fcbs
      PROVE  Handles(x)' = Handles(x) /\ Cleaned(x)' = Cleaned(x)
  BY DEF KeepsHandles, Handles, Cleaned
<1>2. /\ UNCHANGED <<FcbList, FFSMcb, FFSFcb, OpenHandleCount>> /\ Todo' \subseteq FcbList
      /\ FcbList \subseteq Fcbs
  BY DEF BeginPurge, IInv, TypeOK
<1>3. /\ \A x \in FcbList : ReferenceCount'[x] = ReferenceCount[x] + 1
      /\ \A x \in Fcbs \ FcbList : ReferenceCount'[x] = ReferenceCount[x]
  BY <1>2, IncDec DEF BeginPurge, IInv, TypeOK
<1>4. SingleFcbPerFile' /\ FreedFcbsUncounted' /\ (Todo \subseteq FcbList)'
  BY <1>2, <1>3 DEF IInv, SingleFcbPerFile, FreedFcbsUncounted
<1>5. ASSUME NEW x \in FcbList' PROVE Covered(x)'
  <2>1. /\ x \in Fcbs /\ Covered(x) /\ OpenHandleCount[x] \in Nat /\ ReferenceCount[x] \in Nat
        /\ x \in FcbList /\ ReferenceCount'[x] = ReferenceCount[x] + 1
    BY <1>2, <1>3, AllCovered
  <2>. QED BY <1>1, <1>2, <2>1, HandlesFinite DEF Covered
<1>. QED BY <1>4, <1>5, CoverNext DEF IInv

(* A purge frees an FCB only when its own reference is the last one. *)
LEMMA PurgeFcbStep ==
  ASSUME IInv, TypeOK', NEW x \in Fcbs, PurgeFcb(x)
  PROVE  IInv'
<1>1. /\ x \in Todo /\ x \in FcbList /\ Todo' = Todo \ {x}
      /\ UNCHANGED <<pc, FsContext, OpenHandleCount>>
  BY DEF PurgeFcb, IInv, foVars
<1>2. CASE ~PurgedForGood(x)
  BY <1>1, <1>2, QuietStay DEF PurgeFcb
<1>3. CASE PurgedForGood(x)
  <2>1. /\ FreeFcb(x) /\ FcbList' = FcbList \ {x}
        /\ ReferenceCount' = [ReferenceCount EXCEPT ![x] = 0]
        /\ OpenHandleCount[x] = 0 /\ ReferenceCount[x] = 1
    BY <1>3 DEF PurgeFcb, FreeFcb, PurgedForGood
  <2>2. Handles(x) = {} /\ Cleaned(x) = {}
    <3>1. Cardinality(Handles(x)) = 0 /\ Cardinality(Cleaned(x)) = 0
      BY <1>1, <2>1, AllCovered, HandlesFinite DEF Covered
    <3>. QED BY <3>1, HandlesFinite, FS_EmptySet
  <2>3. \A g \in FileObjects : FsContext[g] # x
    BY <2>2, PointerIsCounted
  <2>4. ContextFollowsPc' /\ (Todo \subseteq FcbList)'
    BY <1>1, <2>1, <2>3 DEF IInv, ContextFollowsPc
  <2>5. /\ ReferenceCount \in [Fcbs -> Ulong]
        /\ ReferenceCount'[x] = 0
        /\ \A y \in Fcbs \ {x} : ReferenceCount'[y] = ReferenceCount[y]
    BY <2>1 DEF IInv, TypeOK
  <2>6. SingleFcbPerFile' /\ FreedFcbsUncounted'
    BY <1>1, <2>1, <2>5, FreeKeepsBijection DEF IInv, FreedFcbsUncounted
  <2>7. ASSUME NEW y \in FcbList' PROVE Covered(y)'
    <3>1. y \in Fcbs \ {x} /\ Covered(y)
      BY <2>1, AllCovered DEF IInv, TypeOK
    <3>2. Handles(y)' = Handles(y) /\ Cleaned(y)' = Cleaned(y)
      BY <1>1 DEF Handles, Cleaned
    <3>3. (y \in Todo') = (y \in Todo)
      BY <1>1, <3>1
    <3>. QED BY <1>1, <2>5, <3>1, <3>2, <3>3 DEF Covered
  <2>. QED BY <2>4, <2>6, <2>7, CoverNext DEF IInv
<1>. QED BY <1>2, <1>3

LEMMA OpenStepInv ==
  ASSUME IInv, TypeOK', NEW f \in FileObjects, OpenStep(f)
  PROVE  IInv'
<1> USE DEF OpenPcs, CleanPcs, CheckPcs
<1>0. FsContext[f] \notin Fcbs \/ pc[f] \in OpenPcs \cup CleanPcs
  BY ConstantsAssumption DEF IInv, ContextFollowsPc
<1>1. CASE Create(f)
  BY <1>1, QuietGoto DEF Create, foVars, fcbVars
<1>2. CASE CreateRefused(f)
  BY <1>2, QuietGoto DEF CreateRefused, foVars, fcbVars
<1>3. CASE CreateVolumeLoad(f)
  BY <1>3, QuietGoto DEF CreateVolumeLoad, foVars, fcbVars
<1>4. CASE CreateOpensNothing(f)
  <2>1. /\ Goto(f, "open") /\ pc[f] = "opening"
        /\ UNCHANGED <<FsContext, Todo, FcbList, FFSMcb, FFSFcb, OpenHandleCount, ReferenceCount>>
    BY <1>4 DEF CreateOpensNothing, foVars, fcbVars
  <2>2. FsContext' = [FsContext EXCEPT ![f] = NoObject]
    BY <2>1 DEF IInv, TypeOK, ContextFollowsPc
  <2>. QED BY <1>0, <2>1, <2>2, QuietNoFile, ConstantsAssumption
<1>5. CASE CreateVolumeStore(f)
  <2>1. /\ Goto(f, "open") /\ pc[f] = "volStore"
        /\ FsContext' = [FsContext EXCEPT ![f] = VolumeObject]
        /\ UNCHANGED <<Todo, FcbList, FFSMcb, FFSFcb, OpenHandleCount, ReferenceCount>>
    BY <1>5 DEF CreateVolumeStore, fcbVars
  <2>. QED BY <1>0, <2>1, QuietNoFile, ConstantsAssumption
<1>. QED BY <1>1, <1>2, <1>3, <1>4, <1>5, CreateLeavesFcbStep, CreateFileStep, CreateFileFailsStep
         DEF OpenStep

LEMMA CloseStepInv ==
  ASSUME IInv, TypeOK', NEW f \in FileObjects, CloseStep(f)
  PROVE  IInv'
<1> USE DEF OpenPcs, CleanPcs, CheckPcs
<1>1. CASE CleanupNow(f)
  BY <1>1, CleanupStep DEF CleanupNow
<1>2. CASE CleanupWorker(f)
  BY <1>2, CleanupStep DEF CleanupWorker
<1>3. CASE CleanupPend(f)
  BY <1>3, QuietGoto DEF CleanupPend, foVars, fcbVars
<1>4. CASE DeQueue(f)
  BY <1>4, QuietGoto DEF DeQueue, foVars, fcbVars
<1>5. CASE WorkerAcquire(f)
  BY <1>5, QuietGoto DEF WorkerAcquire, foVars, fcbVars
<1>6. CASE CloseNow(f)
  BY <1>6, CloseBodyStep DEF CloseNow
<1>7. CASE CloseWorker(f)
  BY <1>7, CloseBodyStep DEF CloseWorker
<1>8. CASE ClosePend(f)
  BY <1>8, QuietGoto DEF ClosePend, foVars, fcbVars
<1>9. CASE CloseRemovesVcb(f)
  BY <1>9, QuietGoto DEF CloseRemovesVcb, foVars, fcbVars
<1>10. CASE CloseFreesVcb(f)
  BY <1>10, QuietGoto DEF CloseFreesVcb, foVars, fcbVars
<1>. QED BY <1>1, <1>2, <1>3, <1>4, <1>5, <1>6, <1>7, <1>8, <1>9, <1>10 DEF CloseStep

(* A thread that starts a purge and goes on. *)
LEMMA PurgeGoto ==
  ASSUME IInv, TypeOK', NEW t \in Threads, NEW label, BeginPurge(t), Goto(t, label),
         UNCHANGED FsContext,
         t \in FileObjects => /\ label \in OpenPcs <=> pc[t] \in OpenPcs
                              /\ label \in CleanPcs <=> pc[t] \in CleanPcs
  PROVE  IInv'
<1>1. ASSUME NEW f \in FileObjects
      PROVE  /\ pc'[f] \in OpenPcs <=> pc[f] \in OpenPcs
             /\ pc'[f] \in CleanPcs <=> pc[f] \in CleanPcs
  <2>1. pc \in [Threads -> FilePcs \cup SysPcs] /\ f \in Threads
    BY DEF IInv, TypeOK, Threads
  <2>2. CASE f = t
    BY <2>1, <2>2 DEF Goto
  <2>3. CASE f # t
    <3>1. pc'[f] = pc[f]
      BY <2>1, <2>3 DEF Goto
    <3>. QED BY <3>1
  <2>. QED BY <2>2, <2>3
<1>2. ContextFollowsPc' /\ KeepsHandles
  BY <1>1 DEF IInv, ContextFollowsPc, KeepsHandles, BeginPurge
<1>. QED BY <1>2, BeginPurgeStep

LEMMA HandleStepInv ==
  ASSUME IInv, TypeOK', NEW f \in FileObjects, HandleStep(f)
  PROVE  IInv'
<1>1. CASE StartRead(f)
  BY <1>1, QuietStay DEF StartRead, foVars, fcbVars
<1>2. CASE StartQuery(f)
  BY <1>2, QuietStay DEF StartQuery, foVars, fcbVars
<1>3. CASE EndIo(f)
  BY <1>3, QuietStay DEF EndIo, foVars, fcbVars
<1>4. CASE LockVolume(f)
  BY <1>4, QuietStay DEF LockVolume, foVars, fcbVars
<1>5. CASE UnlockVolume(f)
  BY <1>5, QuietStay DEF UnlockVolume, foVars, fcbVars
<1>6. CASE DismountVolume(f)
  <2>1. {pc[f], "dmPurge"} \subseteq OpenPcs /\ {pc[f], "dmPurge"} \cap CleanPcs = {}
    BY <1>6 DEF DismountVolume, OpenPcs, CleanPcs, CheckPcs
  <2>2. BeginPurge(f) /\ Goto(f, "dmPurge") /\ UNCHANGED FsContext /\ f \in Threads
    BY <1>6 DEF DismountVolume, foVars, Threads
  <2>. QED BY <2>1, <2>2, PurgeGoto
<1>7. CASE DismountPurged(f)
  BY <1>7, QuietGoto DEF DismountPurged, foVars, fcbVars, OpenPcs, CleanPcs, CheckPcs
<1>. QED BY <1>1, <1>2, <1>3, <1>4, <1>5, <1>6, <1>7 DEF HandleStep

LEMMA CheckStepInv ==
  ASSUME IInv, TypeOK', NEW t \in Threads, CheckStep(t)
  PROVE  IInv'
<1> USE DEF OpenPcs, CleanPcs, CheckPcs
<1>1. CASE CheckDismountGlobal(t)
  BY <1>1, QuietGoto DEF CheckDismountGlobal, foVars, fcbVars
<1>2. CASE CheckDismount(t)
  BY <1>2, QuietGoto DEF CheckDismount, foVars, fcbVars
<1>3. CASE CheckDismountFree(t)
  BY <1>3, QuietGoto DEF CheckDismountFree, foVars, fcbVars
<1>. QED BY <1>1, <1>2, <1>3 DEF CheckStep

LEMMA SystemStepInv ==
  ASSUME IInv, TypeOK', SystemStep
  PROVE  IInv'
<1>0. /\ SysThreads \subseteq Threads /\ SysThreads \cap FileObjects = {}
      /\ {"pnp", "vfy", "inv", "shd"} \subseteq SysThreads
  BY ConstantsAssumption DEF Threads, SysThreads
<1> USE DEF foVars, fcbVars
<1>1. CASE QueryRemove
  <2>1. PICK label \in {"qrPurge", "qrFail"} : Goto("pnp", label)
    BY <1>1 DEF QueryRemove
  <2>. QED BY <1>0, <1>1, <2>1, PurgeGoto DEF QueryRemove
<1>2. CASE QueryRemovePurged
  BY <1>0, <1>2, QuietGoto DEF QueryRemovePurged
<1>3. CASE QueryRemoveLower
  BY <1>0, <1>3, QuietGoto DEF QueryRemoveLower
<1>4. CASE CancelRemove
  BY <1>4, QuietStay DEF CancelRemove
<1>5. CASE Remove
  BY <1>0, <1>5, QuietGoto DEF Remove
<1>6. CASE RemovePurges
  BY <1>0, <1>6, PurgeGoto DEF RemovePurges
<1>7. CASE RemovePurged
  BY <1>0, <1>7, QuietGoto DEF RemovePurged
<1>8. CASE VerifyVolume
  BY <1>0, <1>8, QuietGoto DEF VerifyVolume
<1>9. CASE VerifyReturns
  BY <1>0, <1>9, QuietGoto DEF VerifyReturns
<1>10. CASE VerifyFails
  BY <1>0, <1>10, PurgeGoto DEF VerifyFails
<1>11. CASE VerifyPurged
  BY <1>0, <1>11, QuietGoto DEF VerifyPurged
<1>12. CASE InvalidateVolumes
  BY <1>0, <1>12, QuietGoto DEF InvalidateVolumes
<1>13. CASE InvalidatePurges
  BY <1>0, <1>13, PurgeGoto DEF InvalidatePurges
<1>14. CASE InvalidatePurged
  BY <1>0, <1>14, QuietGoto DEF InvalidatePurged
<1>15. CASE InvalidateCheck
  <2>1. PICK label \in {"ivFree", "idle"} : Goto("inv", label)
    BY <1>15 DEF InvalidateCheck
  <2>. QED BY <1>0, <1>15, <2>1, QuietGoto DEF InvalidateCheck
<1>16. CASE InvalidateFree
  BY <1>0, <1>16, QuietGoto DEF InvalidateFree
<1>17. CASE PrepareToUnload
  BY <1>17, QuietStay DEF PrepareToUnload
<1>18. CASE ShutDown
  BY <1>0, <1>18, QuietGoto DEF ShutDown
<1>19. CASE ShutDownVolume
  BY <1>0, <1>19, QuietGoto DEF ShutDownVolume
<1>. QED BY <1>1, <1>2, <1>3, <1>4, <1>5, <1>6, <1>7, <1>8, <1>9, <1>10, <1>11, <1>12, <1>13,
            <1>14, <1>15, <1>16, <1>17, <1>18, <1>19 DEF SystemStep

(* FFSVolume: whatever requests interleave on the volume, the counts cover *)
(* every pointer to an FCB, and the FCBs and the MCBs point to each other. *)
THEOREM Invariance == Spec => []IInv
<1>1. TypeOK /\ Init => IInv
  <2> SUFFICES ASSUME TypeOK, Init PROVE IInv
    OBVIOUS
  <2>1. \A f \in FileObjects : pc[f] = "none" /\ FsContext[f] = NoObject
    BY DEF Init, Threads
  <2>2. ContextFollowsPc
    BY <2>1 DEF ContextFollowsPc, OpenPcs, CleanPcs, CheckPcs
  <2>3. SingleFcbPerFile /\ FreedFcbsUncounted /\ CountsCover /\ Todo \subseteq FcbList
    BY DEF Init, SingleFcbPerFile, FreedFcbsUncounted, CountsCover
  <2>. QED BY <2>2, <2>3 DEF IInv
<1>2. IInv /\ TypeOK' /\ [Next]_vars => IInv'
  <2> SUFFICES ASSUME IInv, TypeOK', [Next]_vars PROVE IInv'
    OBVIOUS
  <2>1. CASE UNCHANGED vars
    BY <2>1, QuietStay DEF vars, foVars, fcbVars, lifeVars
  <2>2. ASSUME NEW f \in FileObjects, OpenStep(f) \/ CloseStep(f) \/ HandleStep(f)
        PROVE  IInv'
    BY <2>2, OpenStepInv, CloseStepInv, HandleStepInv
  <2>. QED BY <2>1, <2>2, CheckStepInv, PurgeFcbStep, SystemStepInv DEF Next
<1>. QED BY <1>1, <1>2, TypeCorrect, PTL DEF Spec

(* FFSVolume: neither FFSClose nor FFSPurgeVolume frees an FCB that a file *)
(* object or a purge still points to, with any number of file objects. *)
THEOREM FcbLifetime == Spec => []FcbNeverDangling
<1>1. IInv => FcbNeverDangling
  BY ConstantsAssumption DEF IInv, ContextFollowsPc, FcbNeverDangling
<1>. QED BY <1>1, Invariance, PTL

(* FFSVolume: the counts of an FCB are never short of what they count. *)
THEOREM CountsAreCover == Spec => []CountsCover
<1>1. IInv => CountsCover
  BY DEF IInv
<1>. QED BY <1>1, Invariance, PTL

(* FFSVolume: two file objects on one file always share one FCB. *)
THEOREM OneFcbPerFile == Spec => []SingleFcbPerFile
<1>1. IInv => SingleFcbPerFile
  BY DEF IInv
<1>. QED BY <1>1, Invariance, PTL

-----------------------------------------------------------------------------
(* The volume lock *)

(* What the counts say when FFSLockVcb grants the lock. *)
LEMMA CanLockMeansQuiet ==
  ASSUME IInv, NEW owner, CanLock(owner), NEW x \in Fcbs
  PROVE  Handles(x) = {}
<1>1. CASE x \in FcbList
  <2>1. Cardinality(Handles(x)) = 0
    BY <1>1, AllCovered, HandlesFinite DEF CanLock, IsHandleCountZero, Covered
  <2>. QED BY <2>1, HandlesFinite, FS_EmptySet
<1>2. CASE x \notin FcbList
  BY <1>2, AllCovered
<1>. QED BY <1>1, <1>2

(* A step takes the lock as FFSLockVcb does, keeps it or releases it. *)
LockStep ==
  \/ \E owner \in FileObjects \cup {NoObject} : CanLock(owner) /\ LockVcb(owner)
  \/ /\ Vcb'.VOLUME_LOCKED = Vcb.VOLUME_LOCKED
     /\ Vcb'.LockFile = Vcb.LockFile
  \/ ~Vcb'.VOLUME_LOCKED

LEMMA HandleLockStep ==
  ASSUME TypeOK, NEW f \in FileObjects, OpenStep(f) \/ CloseStep(f) \/ HandleStep(f)
  PROVE  LockStep
<1>0. Vcb \in [ OpenFileHandleCount : Ulong, ReferenceCount : Ulong, OpenHandleCount : Ulong,
                VOLUME_LOCKED : BOOLEAN, MOUNTED : BOOLEAN, DISMOUNT_PENDING : BOOLEAN,
                LockFile : FileObjects \cup {NoObject} ]
  BY DEF TypeOK
<1> USE <1>0 DEF LockStep
<1>1. CASE OpenStep(f)
  <2>1. CASE CreateVolumeStore(f)
    BY <2>1 DEF CreateVolumeStore
  <2>2. ASSUME NEW p, NEW x, NEW nocache, CountOpen(p, x, nocache)
        PROVE  LockStep
    BY <2>2 DEF CountOpen
  <2>. QED BY <1>1, <2>1, <2>2 DEF OpenStep, Create, CreateRefused, CreateOpensNothing,
           CreateVolumeLoad, CreateLeavesFcb, CreateFile, CreateFileFails
<1>2. CASE CloseStep(f)
  <2>1. ASSUME CleanupBody(f) PROVE LockStep
    BY <2>1 DEF CleanupBody, CleanupOfVolume, CleanupOfFile
  <2>2. ASSUME CloseBody(f) PROVE LockStep
    BY <2>2 DEF CloseBody, ReleaseVcb
  <2>. QED BY <1>2, <2>1, <2>2 DEF CloseStep, CleanupNow, CleanupWorker, Cleanup, CleanupPend,
           DeQueue, WorkerAcquire, CloseNow, CloseWorker, ClosePend, CloseRemovesVcb, CloseFreesVcb
<1>3. CASE HandleStep(f)
  BY <1>3 DEF HandleStep, StartRead, StartQuery, EndIo, LockVolume, UnlockVolume, UnlockVcb,
     DismountVolume, DismountPurged
<1>. QED BY <1>1, <1>2, <1>3

LEMMA SystemLockStep ==
  ASSUME TypeOK, SystemStep \/ (\E t \in Threads : CheckStep(t)) \/ (\E x \in Fcbs : PurgeFcb(x))
  PROVE  LockStep
<1>0. Vcb \in [ OpenFileHandleCount : Ulong, ReferenceCount : Ulong, OpenHandleCount : Ulong,
                VOLUME_LOCKED : BOOLEAN, MOUNTED : BOOLEAN, DISMOUNT_PENDING : BOOLEAN,
                LockFile : FileObjects \cup {NoObject} ]
  BY DEF TypeOK
<1> USE <1>0 DEF LockStep
<1>1. CASE SystemStep
  <2>1. ASSUME TearDown PROVE LockStep
    BY <2>1 DEF TearDown
  <2>2. CASE InvalidateCheck
    BY <2>1, <2>2 DEF InvalidateCheck
  <2>3. CASE QueryRemove \/ Remove
    BY <2>3 DEF QueryRemove, Remove
  <2>. QED BY <1>1, <2>2, <2>3 DEF SystemStep, QueryRemovePurged, QueryRemoveLower, CancelRemove,
           UnlockVcb, RemovePurges, RemovePurged, VerifyVolume, VerifyReturns, VerifyFails,
           VerifyPurged, InvalidateVolumes, InvalidatePurges, InvalidatePurged, InvalidateFree,
           PrepareToUnload, ShutDown, ShutDownVolume
<1>2. ASSUME NEW t \in Threads, CheckStep(t) PROVE LockStep
  BY <1>2 DEF CheckStep, CheckDismountGlobal, CheckDismount, TearDown, CheckDismountFree
<1>3. ASSUME NEW x \in Fcbs, PurgeFcb(x) PROVE LockStep
  BY <1>3 DEF PurgeFcb
<1>. QED BY <1>1, <1>2, <1>3

(* FFSVolume: FFSLockVcb never locks a volume while a file object has a    *)
(* file open on it, and never takes the lock away from its owner. *)
THEOREM LockIsExclusive == Spec => LockTakenOnlyWhenQuiet
<1>1. IInv /\ [Next]_vars =>
        [ /\ (~Vcb.VOLUME_LOCKED /\ Vcb'.VOLUME_LOCKED) => \A x \in Fcbs : Handles(x) = {}
          /\ (Vcb.VOLUME_LOCKED /\ Vcb'.VOLUME_LOCKED) => Vcb'.LockFile = Vcb.LockFile ]_vars
  <2> SUFFICES ASSUME IInv, Next
               PROVE  /\ ~Vcb.VOLUME_LOCKED /\ Vcb'.VOLUME_LOCKED
                           => \A x \in Fcbs : Handles(x) = {}
                      /\ Vcb.VOLUME_LOCKED /\ Vcb'.VOLUME_LOCKED => Vcb'.LockFile = Vcb.LockFile
    OBVIOUS
  <2>1. LockStep
    BY HandleLockStep, SystemLockStep DEF IInv, Next
  <2>. QED BY <2>1, CanLockMeansQuiet DEF LockStep, CanLock
<1>. QED BY <1>1, Invariance, PTL DEF Spec, LockTakenOnlyWhenQuiet

-----------------------------------------------------------------------------
(* Vcb->OpenFileHandleCount and the FCBs *)

SumInv == IsFiniteSet(CountedOpens) /\ OpenFileHandleCountIsSum

(* FCBs that come or go with nobody counted on them, and no other change *)
LEMMA SumKept ==
  ASSUME SumInv, \A x \in (FcbList \ FcbList') \cup (FcbList' \ FcbList) : OpenHandleCount[x] = 0,
         UNCHANGED <<OpenHandleCount, Vcb.OpenFileHandleCount>>
  PROVE  SumInv'
<1>1. CountedOpens' = CountedOpens
  <2>1. ASSUME NEW x \in FcbList, x \notin FcbList' PROVE \A n \in Ulong : ~ (n < OpenHandleCount[x])
    BY <2>1 DEF Ulong
  <2>2. ASSUME NEW x \in FcbList', x \notin FcbList PROVE \A n \in Ulong : ~ (n < OpenHandleCount[x])
    BY <2>2 DEF Ulong
  <2>. QED BY <2>1, <2>2 DEF CountedOpens
<1>. QED BY <1>1 DEF SumInv, OpenFileHandleCountIsSum

(* One open more, on an FCB that may be new *)
LEMMA SumCountOpen ==
  ASSUME IInv, TypeOK', SumInv, NEW p \in Files, NEW x \in Fcbs, NEW nocache, CountOpen(p, x, nocache)
  PROVE  SumInv'
<1> DEFINE c == <<x, OpenHandleCount[x]>>
<1>1. /\ FcbList' = FcbList \cup {x} /\ OpenHandleCount'[x] = OpenHandleCount[x] + 1
      /\ \A y \in Fcbs \ {x} : OpenHandleCount'[y] = OpenHandleCount[y]
  BY OpenCounts
<1>2. OpenHandleCount[x] \in Ulong /\ OpenHandleCount[x] \in Nat /\ FcbList \subseteq Fcbs
  BY ConstantsAssumption DEF IInv, TypeOK, Ulong
<1>3. x \notin FcbList => OpenHandleCount[x] = 0 BY DEF IInv, FreedFcbsUncounted
<1>4. c \notin CountedOpens BY <1>2 DEF CountedOpens
<1>5. CountedOpens' = CountedOpens \cup {c}
  <2>1. ASSUME NEW y \in Fcbs, NEW n \in Ulong
        PROVE  <<y, n>> \in CountedOpens' <=> <<y, n>> \in CountedOpens \/ <<y, n>> = c
    <3>1. n \in Nat BY ConstantsAssumption DEF Ulong
    <3>2. CASE y = x BY <1>1, <1>2, <1>3, <3>1, <3>2 DEF CountedOpens
    <3>3. CASE y # x BY <1>1, <3>3 DEF CountedOpens
    <3>. QED BY <3>2, <3>3
  <2>2. CountedOpens \subseteq Fcbs \X Ulong /\ CountedOpens' \subseteq Fcbs \X Ulong /\ c \in Fcbs \X Ulong
    BY <1>1, <1>2 DEF CountedOpens, Ulong
  <2>. QED BY <2>1, <2>2
<1>6. Cardinality(CountedOpens) \in Nat BY FS_CardinalityType DEF SumInv
<1>7. IsFiniteSet(CountedOpens') /\ Cardinality(CountedOpens') = Cardinality(CountedOpens) + 1
  BY <1>4, <1>5, FS_AddElement DEF SumInv
<1>8. Vcb'.OpenFileHandleCount = Vcb.OpenFileHandleCount + 1
  BY IncDec, ConstantsAssumption DEF CountOpen, IInv, TypeOK, Ulong
<1>. QED BY <1>7, <1>8 DEF SumInv, OpenFileHandleCountIsSum

(* One open less: the handle that is cleaned up is counted. *)
LEMMA SumCleanup ==
  ASSUME IInv, TypeOK', SumInv, NEW f \in FileObjects, pc[f] \in OpenPcs, NEW x \in Fcbs,
         FsContext[f] = x, CleanupOfFile(f, x), UNCHANGED FcbList
  PROVE  SumInv'
<1> DEFINE c == <<x, OpenHandleCount[x] - 1>>
<1>1. x \in FcbList BY PointerIsCounted
<1>2. OpenHandleCount[x] \in Ulong /\ FcbList \subseteq Fcbs /\ OpenHandleCount \in [Fcbs -> Ulong]
  BY DEF IInv, TypeOK
<1>3. OpenHandleCount[x] \in Nat /\ OpenHandleCount[x] > 0
  <2>1. f \in Handles(x) BY DEF Handles
  <2>2. Cardinality(Handles(x)) # 0 BY <2>1, HandlesFinite, FS_EmptySet
  <2>. QED BY <2>2, AllCovered, HandlesFinite DEF Covered
<1>4. /\ OpenHandleCount'[x] = OpenHandleCount[x] - 1
      /\ \A y \in Fcbs \ {x} : OpenHandleCount'[y] = OpenHandleCount[y]
  BY <1>2, <1>3, IncDec DEF CleanupOfFile
<1>5. c \in CountedOpens BY <1>1, <1>2, <1>3, ConstantsAssumption DEF CountedOpens, Ulong
<1>6. CountedOpens' = CountedOpens \ {c}
  <2>1. ASSUME NEW y \in Fcbs, NEW n \in Ulong
        PROVE  <<y, n>> \in CountedOpens' <=> <<y, n>> \in CountedOpens /\ <<y, n>> # c
    <3>1. n \in Nat BY ConstantsAssumption DEF Ulong
    <3>2. CASE y = x BY <1>3, <1>4, <3>1, <3>2 DEF CountedOpens
    <3>3. CASE y # x BY <1>4, <3>3 DEF CountedOpens
    <3>. QED BY <3>2, <3>3
  <2>2. CountedOpens \subseteq Fcbs \X Ulong /\ CountedOpens' \subseteq Fcbs \X Ulong
    BY <1>2 DEF CountedOpens, Ulong
  <2>. QED BY <2>1, <2>2
<1>7. /\ Cardinality(CountedOpens) \in Nat /\ IsFiniteSet(CountedOpens')
      /\ Cardinality(CountedOpens') = Cardinality(CountedOpens) - 1
      /\ Cardinality(CountedOpens') \in Nat
  BY <1>5, <1>6, FS_RemoveElement, FS_CardinalityType DEF SumInv
<1>8. Vcb'.OpenFileHandleCount = Vcb.OpenFileHandleCount - 1
  <2>1. Vcb.OpenFileHandleCount \in Ulong /\ Vcb.OpenFileHandleCount > 0
    BY <1>7 DEF SumInv, OpenFileHandleCountIsSum, IInv, TypeOK
  <2>. QED BY <2>1, IncDec DEF CleanupOfFile, IInv, TypeOK
<1>. QED BY <1>7, <1>8 DEF SumInv, OpenFileHandleCountIsSum

LEMMA SumStep ==
  ASSUME IInv, TypeOK', SumInv, Next
  PROVE  SumInv'
<1>0. /\ TypeOK /\ FreedFcbsUncounted
      /\ \A x \in FcbList : OpenHandleCount[x] \in Nat
  BY ConstantsAssumption DEF IInv, TypeOK, Ulong
<1>1. CASE UNCHANGED <<FcbList, OpenHandleCount, Vcb.OpenFileHandleCount>>
  BY <1>1, SumKept
<1>2. ASSUME NEW f \in FileObjects, OpenStep(f) PROVE SumInv'
  <2>1. CASE \E p \in Files, x \in Fcbs : CreateLeavesFcb(f, p, x)
    BY <1>0, <2>1, SumKept DEF CreateLeavesFcb, AllocateFcb, FreedFcbsUncounted
  <2>2. CASE \E p \in Files, x \in Fcbs, nocache \in BOOLEAN :
               CreateFile(f, p, x, nocache) \/ CreateFileFails(f, p, x, nocache)
    BY <2>2, SumCountOpen DEF CreateFile, CreateFileFails
  <2>3. CASE CreateVolumeStore(f)
    BY <1>0, <1>1, <2>3 DEF CreateVolumeStore, fcbVars, TypeOK
  <2>. QED BY <1>1, <1>2, <2>1, <2>2, <2>3
           DEF OpenStep, Create, CreateRefused, CreateOpensNothing, CreateVolumeLoad, fcbVars
<1>3. ASSUME NEW f \in FileObjects, CloseStep(f) PROVE SumInv'
  <2>1. ASSUME Cleanup(f), pc[f] \in OpenPcs PROVE SumInv'
    <3>1. UNCHANGED FcbList BY <2>1 DEF Cleanup
    <3>2. CASE FsContext[f] \in Fcbs /\ CleanupOfFile(f, FsContext[f])
      BY <2>1, <3>1, <3>2, SumCleanup
    <3>3. CASE CleanupOfVolume(f)
      BY <1>0, <1>1, <3>1, <3>3 DEF CleanupOfVolume, TypeOK
    <3>. QED BY <1>1, <2>1, <3>1, <3>2, <3>3 DEF Cleanup, CleanupBody
  <2>2. CASE CleanupNow(f) \/ CleanupWorker(f)
    BY <2>1, <2>2 DEF CleanupNow, CleanupWorker, OpenPcs
  <2>3. ASSUME CloseBody(f), pc[f] \in CleanPcs PROVE SumInv'
    <3>1. UNCHANGED <<OpenHandleCount, Vcb.OpenFileHandleCount>>
      BY <1>0, <2>3 DEF CloseBody, ReleaseVcb, fcbVars, TypeOK
    <3>2. ASSUME NEW x \in FcbList, x \notin FcbList' PROVE OpenHandleCount[x] = 0
      <4>1. FsContext[f] = x /\ LastClose(x) /\ x \in Fcbs
        BY <1>0, <2>3, <3>2 DEF CloseBody, ReleaseFcb, FreeFcb, fcbVars, TypeOK
      <4>2. f \in Cleaned(x) BY <2>3, <4>1 DEF Cleaned
      <4>3. Cardinality(Cleaned(x)) # 0 /\ Cardinality(Cleaned(x)) \in Nat
        BY <4>2, HandlesFinite, FS_EmptySet
      <4>. QED BY <4>1, <4>3, AllCovered DEF Covered, LastClose
    <3>3. FcbList' \subseteq FcbList
      BY <2>3 DEF CloseBody, ReleaseFcb, FreeFcb, fcbVars
    <3>. QED BY <3>1, <3>2, <3>3, SumKept
  <2>4. CASE CloseNow(f) \/ CloseWorker(f)
    BY <2>3, <2>4 DEF CloseNow, CloseWorker, CleanPcs
  <2>. QED BY <1>1, <1>3, <2>2, <2>4
           DEF CloseStep, CleanupPend, DeQueue, WorkerAcquire, ClosePend, CloseRemovesVcb,
               CloseFreesVcb, fcbVars
<1>4. ASSUME NEW f \in FileObjects, HandleStep(f) PROVE SumInv'
  <2>1. UNCHANGED <<FcbList, OpenHandleCount, Vcb.OpenFileHandleCount>>
    BY <1>0, <1>4 DEF HandleStep, StartRead, StartQuery, EndIo, LockVolume, LockVcb, UnlockVolume,
       UnlockVcb, DismountVolume, BeginPurge, DismountPurged, fcbVars, TypeOK
  <2>. QED BY <1>1, <2>1
<1>5. ASSUME NEW t \in Threads, CheckStep(t) PROVE SumInv'
  <2>1. UNCHANGED <<FcbList, OpenHandleCount, Vcb.OpenFileHandleCount>>
    BY <1>0, <1>5 DEF CheckStep, CheckDismountGlobal, CheckDismount, TearDown, CheckDismountFree,
       fcbVars, TypeOK
  <2>. QED BY <1>1, <2>1
<1>6. ASSUME NEW x \in Fcbs, PurgeFcb(x) PROVE SumInv'
  <2>1. UNCHANGED <<OpenHandleCount, Vcb>> BY <1>6 DEF PurgeFcb
  <2>2. FcbList' = FcbList \/ (FcbList' = FcbList \ {x} /\ OpenHandleCount[x] = 0)
    BY <1>6 DEF PurgeFcb, PurgedForGood, FreeFcb
  <2>. QED BY <2>1, <2>2, SumKept
<1>7. CASE SystemStep
  <2>1. UNCHANGED <<FcbList, OpenHandleCount>>
    BY <1>7 DEF SystemStep, QueryRemove, QueryRemovePurged, QueryRemoveLower, CancelRemove, Remove,
       RemovePurges, RemovePurged, VerifyVolume, VerifyReturns, VerifyFails, VerifyPurged,
       InvalidateVolumes, InvalidatePurges, InvalidatePurged, InvalidateCheck, InvalidateFree,
       PrepareToUnload, ShutDown, ShutDownVolume, BeginPurge, fcbVars
  <2>2. ASSUME NEW owner, LockVcb(owner) \/ UnlockVcb(owner)
        PROVE  UNCHANGED Vcb.OpenFileHandleCount
    BY <1>0, <2>2, ZenonT(30) DEF LockVcb, UnlockVcb, TypeOK
  <2>3. CASE InvalidateCheck \/ VerifyPurged \/ InvalidatePurged
    BY <1>0, <1>1, <2>1, <2>3 DEF InvalidateCheck, TearDown, VerifyPurged, InvalidatePurged, TypeOK
  <2>4. CASE QueryRemove \/ Remove \/ CancelRemove
    BY <1>1, <2>1, <2>2, <2>4 DEF QueryRemove, Remove, CancelRemove
  <2>. QED BY <1>1, <1>7, <2>1, <2>3, <2>4
           DEF SystemStep, QueryRemovePurged, QueryRemoveLower, RemovePurges, RemovePurged,
               VerifyVolume, VerifyReturns, VerifyFails, InvalidateVolumes, InvalidatePurges,
               InvalidateFree, PrepareToUnload, ShutDown, ShutDownVolume
<1>. QED BY <1>2, <1>3, <1>4, <1>5, <1>6, <1>7 DEF Next

(* FFSVolume: Vcb->OpenFileHandleCount is the sum of what the FCBs count,   *)
(* with any number of files, opens that fail late and purges: FFSLockVcb   *)
(* may trust it as much as it may trust them.                              *)
THEOREM TrustedCount == Spec => []OpenFileHandleCountIsSum
<1>1. Init => SumInv
  <2> SUFFICES ASSUME Init PROVE SumInv
    OBVIOUS
  <2>1. CountedOpens = {} BY DEF Init, CountedOpens
  <2>. QED BY <2>1, FS_EmptySet DEF Init, SumInv, OpenFileHandleCountIsSum
<1>2. IInv /\ IInv' /\ SumInv /\ [Next]_vars => SumInv'
  <2> SUFFICES ASSUME IInv, IInv', SumInv, [Next]_vars PROVE SumInv'
    OBVIOUS
  <2>1. CASE UNCHANGED vars
    BY <2>1, SumKept DEF vars, fcbVars
  <2>. QED BY <2>1, SumStep DEF IInv
<1>3. SumInv => OpenFileHandleCountIsSum BY DEF SumInv
<1>. QED BY <1>1, <1>2, <1>3, Invariance, PTL DEF Spec

-----------------------------------------------------------------------------
(* The owner of the volume lock *)

(* Every handle has an FCB or the volume, where no create opens nothing. *)
HasContext ==
  \A f \in FileObjects : pc[f] \in OpenPcs \cup CleanPcs => FsContext[f] # NoObject

OwnerInv == IInv /\ HasContext /\ LockOwnerIsOpen

(* A step that neither opens, cleans up nor closes a handle, nor locks. *)
LEMMA OwnerKept ==
  ASSUME HasContext, LockOwnerIsOpen, UNCHANGED FsContext,
         \A f \in FileObjects :
           /\ pc'[f] \in OpenPcs \cup CleanPcs => pc[f] \in OpenPcs \cup CleanPcs
           /\ pc[f] \in OpenPcs => pc'[f] \in OpenPcs,
         Vcb'.VOLUME_LOCKED => Vcb.VOLUME_LOCKED /\ Vcb'.LockFile = Vcb.LockFile,
         VcbInList' /\ Vcb'.VOLUME_LOCKED => VcbInList /\ Vpb'.LOCKED = Vpb.LOCKED
  PROVE  HasContext' /\ LockOwnerIsOpen'
<1>1. HasContext' BY DEF HasContext
<1>2. LockOwnerIsOpen' BY DEF LockOwnerIsOpen
<1>. QED BY <1>1, <1>2

(* FFSLockVcb grants the lock to nobody, for PnP, or to a handle on the     *)
(* volume: no file is open. *)
LEMMA OwnerTakes ==
  ASSUME OwnerInv, TypeOK', NEW owner \in FileObjects \cup {NoObject},
         CanLock(owner), LockVcb(owner),
         owner \in FileObjects => pc[owner] = "open",
         UNCHANGED FsContext, \A f \in FileObjects : pc'[f] = pc[f]
  PROVE  HasContext' /\ LockOwnerIsOpen'
<1>1. HasContext' BY DEF OwnerInv, HasContext
<1>2. Vcb'.LockFile = owner /\ Vpb'.LOCKED
  BY DEF LockVcb, OwnerInv, IInv, TypeOK
<1>3. ASSUME owner \in FileObjects PROVE FsContext[owner] = VolumeObject
  <2>1. pc[owner] \in OpenPcs BY <1>3 DEF OpenPcs
  <2>2. FsContext[owner] # NoObject BY <1>3, <2>1 DEF OwnerInv, HasContext
  <2>3. ASSUME FsContext[owner] \in Fcbs PROVE FALSE
    <3>1. owner \in Handles(FsContext[owner]) BY <1>3, <2>1 DEF Handles
    <3>. QED BY <2>3, <3>1, CanLockMeansQuiet DEF OwnerInv
  <2>. QED BY <1>3, <2>2, <2>3 DEF OwnerInv, IInv, TypeOK
<1>4. LockOwnerIsOpen' BY <1>2, <1>3 DEF LockOwnerIsOpen, OpenPcs
<1>. QED BY <1>1, <1>4

LEMMA OwnerOpenStep ==
  ASSUME "nothing" \notin Requests, OwnerInv, TypeOK', NEW f \in FileObjects, OpenStep(f)
  PROVE  HasContext' /\ LockOwnerIsOpen'
<1>0. TypeOK /\ HasContext /\ LockOwnerIsOpen BY DEF OwnerInv, IInv
<1>1. pc[f] \in {"none", "opening", "volStore"}
  BY DEF OpenStep, Create, CreateRefused, CreateOpensNothing, CreateVolumeLoad, CreateVolumeStore,
     CreateLeavesFcb, CreateFile, CreateFileFails
<1>2. pc[f] \notin OpenPcs \cup CleanPcs BY <1>1 DEF OpenPcs, CleanPcs, CheckPcs
<1>3. VcbInList' = VcbInList /\ Vpb' = Vpb /\ Vcb'.VOLUME_LOCKED = Vcb.VOLUME_LOCKED
      /\ Vcb'.LockFile = Vcb.LockFile
  <2>1. ASSUME NEW p, NEW x, NEW nocache, CountOpen(p, x, nocache)
        PROVE  Vcb'.VOLUME_LOCKED = Vcb.VOLUME_LOCKED /\ Vcb'.LockFile = Vcb.LockFile
    BY <1>0, <2>1 DEF CountOpen, TypeOK
  <2>2. CASE CreateVolumeStore(f) BY <1>0, <2>2 DEF CreateVolumeStore, TouchVcb, TypeOK
  <2>. QED BY <2>1, <2>2 DEF OpenStep, Create, CreateRefused, CreateOpensNothing,
           CreateVolumeLoad, CreateLeavesFcb, CreateFile, CreateFileFails, TouchVcb
<1>4. \/ UNCHANGED FsContext /\ \E label \in {"none", "opening", "volStore"} : Goto(f, label)
      \/ \E x \in Fcbs \cup {VolumeObject} : FsContext' = [FsContext EXCEPT ![f] = x] /\ Goto(f, "open")
  <2>1. CASE CreateVolumeStore(f) BY <2>1 DEF CreateVolumeStore
  <2>2. ASSUME NEW p \in Files, NEW x \in Fcbs, NEW nocache \in BOOLEAN, CreateFile(f, p, x, nocache)
        PROVE  FsContext' = [FsContext EXCEPT ![f] = x] /\ Goto(f, "open")
    BY <2>2 DEF CreateFile
  <2>. QED BY <2>1, <2>2 DEF OpenStep, Create, CreateRefused, CreateOpensNothing,
           CreateVolumeLoad, CreateLeavesFcb, CreateFileFails, foVars
<1>5. \A g \in FileObjects : g # f => pc'[g] = pc[g] /\ FsContext'[g] = FsContext[g]
  BY <1>0, <1>4 DEF Goto, TypeOK, Threads
<1>6. pc'[f] \in OpenPcs \cup CleanPcs => FsContext'[f] # NoObject
  <2>1. CASE \E label \in {"none", "opening", "volStore"} : Goto(f, label)
    BY <1>0, <2>1 DEF Goto, TypeOK, Threads, OpenPcs, CleanPcs, CheckPcs
  <2>2. CASE \E x \in Fcbs \cup {VolumeObject} : FsContext' = [FsContext EXCEPT ![f] = x]
    BY <1>0, <2>2, ConstantsAssumption DEF TypeOK
  <2>. QED BY <1>4, <2>1, <2>2
<1>7. HasContext' BY <1>0, <1>5, <1>6 DEF HasContext
<1>8. LockOwnerIsOpen' BY <1>0, <1>2, <1>3, <1>5 DEF LockOwnerIsOpen
<1>. QED BY <1>7, <1>8

LEMMA OwnerCloseStep ==
  ASSUME OwnerInv, TypeOK', NEW f \in FileObjects, CloseStep(f)
  PROVE  HasContext' /\ LockOwnerIsOpen'
<1>0. TypeOK /\ HasContext /\ LockOwnerIsOpen BY DEF OwnerInv, IInv
<1>1. ASSUME Cleanup(f), pc[f] \in OpenPcs PROVE HasContext' /\ LockOwnerIsOpen'
  <2>1. /\ pc'[f] = "clean" /\ UNCHANGED FsContext
        /\ \A g \in FileObjects : g # f => pc'[g] = pc[g]
    BY <1>0, <1>1 DEF Cleanup, Goto, TypeOK, Threads, foVars
  <2>2. HasContext' BY <1>0, <1>1, <2>1 DEF HasContext
  <2>3. VcbInList' = VcbInList BY <1>1 DEF Cleanup, TouchVcb
  <2>4. CASE CleanupOfVolume(f)
    <3>1. /\ Vcb'.VOLUME_LOCKED => Vcb.VOLUME_LOCKED /\ Vcb.LockFile # f
          /\ Vcb'.VOLUME_LOCKED => Vcb'.LockFile = Vcb.LockFile
          /\ Vcb'.VOLUME_LOCKED => Vpb'.LOCKED = Vpb.LOCKED
      BY <1>0, <2>4 DEF CleanupOfVolume, TypeOK
    <3>. QED BY <1>0, <2>1, <2>2, <2>3, <3>1 DEF LockOwnerIsOpen
  <2>5. CASE FsContext[f] # VolumeObject
    <3>1. /\ Vcb'.VOLUME_LOCKED = Vcb.VOLUME_LOCKED /\ Vcb'.LockFile = Vcb.LockFile
          /\ Vpb' = Vpb
      BY <1>0, <1>1, <2>5 DEF Cleanup, CleanupBody, CleanupOfFile, TypeOK
    <3>. QED BY <1>0, <2>1, <2>2, <2>3, <2>5, <3>1 DEF LockOwnerIsOpen
  <2>. QED BY <1>1, <2>4, <2>5, ConstantsAssumption DEF Cleanup, CleanupBody
<1>2. CASE CleanupNow(f) BY <1>1, <1>2 DEF CleanupNow, OpenPcs
<1>3. CASE CleanupWorker(f) BY <1>1, <1>3 DEF CleanupWorker, OpenPcs
<1>4. CASE CleanupPend(f) \/ DeQueue(f) \/ WorkerAcquire(f) \/ ClosePend(f)
  <2>1. UNCHANGED <<FsContext, Vcb, Vpb, VcbInList>>
    BY <1>4 DEF CleanupPend, DeQueue, WorkerAcquire, ClosePend, foVars, TouchVcb
  <2>2. \A g \in FileObjects : g # f => pc'[g] = pc[g]
    BY <1>0, <1>4 DEF CleanupPend, DeQueue, WorkerAcquire, ClosePend, Goto, TypeOK, Threads
  <2>3. (pc[f] \in OpenPcs /\ pc'[f] \in OpenPcs) \/ (pc[f] \in CleanPcs /\ pc[f] \notin OpenPcs)
    BY <1>0, <1>4 DEF CleanupPend, DeQueue, WorkerAcquire, ClosePend, Goto, TypeOK, Threads,
       OpenPcs, CleanPcs, CheckPcs
  <2>. QED BY <1>0, <2>1, <2>2, <2>3, OwnerKept
<1>5. ASSUME CloseBody(f), pc[f] \in CleanPcs PROVE HasContext' /\ LockOwnerIsOpen'
  <2>1. \A g \in FileObjects : g # f => pc'[g] = pc[g] /\ FsContext'[g] = FsContext[g]
    BY <1>0, <1>5 DEF CloseBody, ReleaseVcb, Goto, TypeOK, Threads
  <2>2. pc'[f] \in {"none", "clGlobal"}
    BY <1>0, <1>5 DEF CloseBody, ReleaseVcb, Goto, TypeOK, Threads
  <2>3. VcbInList' = VcbInList /\ Vpb' = Vpb /\ Vcb'.VOLUME_LOCKED = Vcb.VOLUME_LOCKED
        /\ Vcb'.LockFile = Vcb.LockFile
    BY <1>0, <1>5 DEF CloseBody, ReleaseVcb, TouchVcb, TypeOK
  <2>4. pc[f] \notin OpenPcs /\ pc'[f] \notin OpenPcs \cup CleanPcs
    BY <1>5, <2>2 DEF OpenPcs, CleanPcs, CheckPcs
  <2>5. HasContext' BY <1>0, <2>1, <2>4 DEF HasContext
  <2>6. LockOwnerIsOpen' BY <1>0, <2>1, <2>3, <2>4 DEF LockOwnerIsOpen
  <2>. QED BY <2>5, <2>6
<1>6. CASE CloseNow(f) \/ CloseWorker(f) BY <1>5, <1>6 DEF CloseNow, CloseWorker, CleanPcs
<1>7. CASE CloseRemovesVcb(f) \/ CloseFreesVcb(f)
  <2>1. UNCHANGED <<FsContext, Vcb>> /\ (VcbInList' => VcbInList /\ Vpb' = Vpb)
    BY <1>7 DEF CloseRemovesVcb, CloseFreesVcb, RemoveVcb, FreeVcb, foVars
  <2>2. \A g \in FileObjects : g # f => pc'[g] = pc[g]
    BY <1>0, <1>7 DEF CloseRemovesVcb, CloseFreesVcb, Goto, TypeOK, Threads
  <2>3. pc[f] \notin OpenPcs /\ pc'[f] \notin OpenPcs \cup CleanPcs
    BY <1>0, <1>7 DEF CloseRemovesVcb, CloseFreesVcb, Goto, TypeOK, Threads, OpenPcs, CleanPcs, CheckPcs
  <2>. QED BY <1>0, <2>1, <2>2, <2>3, OwnerKept
<1>. QED BY <1>2, <1>3, <1>4, <1>6, <1>7 DEF CloseStep

LEMMA OwnerHandleStep ==
  ASSUME OwnerInv, TypeOK', NEW f \in FileObjects, HandleStep(f)
  PROVE  HasContext' /\ LockOwnerIsOpen'
<1>0. TypeOK /\ HasContext /\ LockOwnerIsOpen BY DEF OwnerInv, IInv
<1>1. CASE LockVolume(f)
  BY <1>1, OwnerTakes DEF LockVolume, foVars
<1>2. CASE UnlockVolume(f)
  <2>1. UNCHANGED <<FsContext, pc>> /\ ~ Vcb'.VOLUME_LOCKED
    BY <1>0, <1>2 DEF UnlockVolume, UnlockVcb, foVars, TypeOK
  <2>. QED BY <1>0, <2>1, OwnerKept
<1>3. CASE StartRead(f) \/ StartQuery(f) \/ EndIo(f)
  <2>1. UNCHANGED <<FsContext, pc, Vcb, Vpb, VcbInList>>
    BY <1>3 DEF StartRead, StartQuery, EndIo, foVars, TouchVcb
  <2>. QED BY <1>0, <2>1, OwnerKept
<1>4. CASE DismountVolume(f) \/ DismountPurged(f)
  <2>1. UNCHANGED <<FsContext, Vcb, Vpb, VcbInList>>
    BY <1>4 DEF DismountVolume, DismountPurged, foVars, TouchVcb
  <2>2. /\ pc[f] \in OpenPcs /\ pc'[f] \in OpenPcs
        /\ \A g \in FileObjects : g # f => pc'[g] = pc[g]
    BY <1>0, <1>4 DEF DismountVolume, DismountPurged, Goto, TypeOK, Threads, OpenPcs, CheckPcs
  <2>. QED BY <1>0, <2>1, <2>2, OwnerKept
<1>. QED BY <1>1, <1>2, <1>3, <1>4 DEF HandleStep

LEMMA OwnerCheckStep ==
  ASSUME OwnerInv, TypeOK', NEW t \in Threads, CheckStep(t)
  PROVE  HasContext' /\ LockOwnerIsOpen'
<1>0. TypeOK /\ HasContext /\ LockOwnerIsOpen BY DEF OwnerInv, IInv
<1>1. UNCHANGED FsContext
      /\ Vcb'.VOLUME_LOCKED = Vcb.VOLUME_LOCKED /\ Vcb'.LockFile = Vcb.LockFile
      /\ (VcbInList' => VcbInList /\ Vpb' = Vpb)
  BY <1>0 DEF CheckStep, CheckDismountGlobal, CheckDismount, CheckDismountFree, TearDown, RemoveVcb,
     FreeVcb, TouchVcb, foVars, TypeOK
<1>2. \A g \in FileObjects : g # t => pc'[g] = pc[g]
  BY <1>0 DEF CheckStep, CheckDismountGlobal, CheckDismount, CheckDismountFree, Goto, TypeOK, Threads
<1>3. t \in FileObjects => pc[t] \in OpenPcs /\ pc'[t] \in OpenPcs
  BY <1>0 DEF CheckStep, CheckDismountGlobal, CheckDismount, CheckDismountFree, Goto, TypeOK, Threads,
     OpenPcs, CheckPcs
<1>. QED BY <1>0, <1>1, <1>2, <1>3, OwnerKept

LEMMA OwnerSystemStep ==
  ASSUME OwnerInv, TypeOK', SystemStep \/ \E x \in Fcbs : PurgeFcb(x)
  PROVE  HasContext' /\ LockOwnerIsOpen'
<1>0. TypeOK /\ HasContext /\ LockOwnerIsOpen BY DEF OwnerInv, IInv
<1>1. FsContext' = FsContext
  BY DEF SystemStep, PurgeFcb, QueryRemove, QueryRemovePurged, QueryRemoveLower, CancelRemove, Remove,
     RemovePurges, RemovePurged, VerifyVolume, VerifyReturns, VerifyFails, VerifyPurged,
     InvalidateVolumes, InvalidatePurges, InvalidatePurged, InvalidateCheck, InvalidateFree,
     PrepareToUnload, ShutDown, ShutDownVolume, foVars
<1>2. \A f \in FileObjects : pc'[f] = pc[f]
  <2>1. pc' = pc \/ \E t \in SysThreads : \E label : Goto(t, label)
    BY DEF SystemStep, PurgeFcb, QueryRemove, QueryRemovePurged, QueryRemoveLower, CancelRemove, Remove,
       RemovePurges, RemovePurged, VerifyVolume, VerifyReturns, VerifyFails, VerifyPurged,
       InvalidateVolumes, InvalidatePurges, InvalidatePurged, InvalidateCheck, InvalidateFree,
       PrepareToUnload, ShutDown, ShutDownVolume, SysThreads
  <2>2. ASSUME NEW t \in SysThreads, NEW label, Goto(t, label)
        PROVE  \A f \in FileObjects : pc'[f] = pc[f]
    BY <1>0, <2>2, ConstantsAssumption DEF Goto, TypeOK, Threads, SysThreads
  <2>. QED BY <2>1, <2>2
<1>3. CASE \E owner \in {NoObject} : CanLock(owner) /\ LockVcb(owner)
  BY <1>1, <1>2, <1>3, OwnerTakes, ConstantsAssumption
<1>4. CASE /\ Vcb'.VOLUME_LOCKED => Vcb.VOLUME_LOCKED /\ Vcb'.LockFile = Vcb.LockFile
           /\ VcbInList' /\ Vcb'.VOLUME_LOCKED => VcbInList /\ Vpb'.LOCKED = Vpb.LOCKED
  BY <1>0, <1>1, <1>2, <1>4, OwnerKept
<1>5. CASE QueryRemove \/ Remove
  BY <1>3, <1>4, <1>5 DEF QueryRemove, Remove, TouchVcb
<1>6. CASE CancelRemove
  <2>1. ~ Vcb'.VOLUME_LOCKED BY <1>0, <1>6 DEF CancelRemove, UnlockVcb, TypeOK
  <2>. QED BY <1>4, <2>1
<1>7. CASE InvalidateCheck
  BY <1>0, <1>4, <1>7 DEF InvalidateCheck, TearDown, RemoveVcb, TouchVcb, TypeOK
<1>8. CASE VerifyPurged \/ InvalidatePurged
  BY <1>0, <1>4, <1>8 DEF VerifyPurged, InvalidatePurged, TouchVcb, TypeOK
<1>9. CASE PrepareToUnload BY <1>4, <1>9 DEF PrepareToUnload
<1>10. CASE InvalidateFree BY <1>4, <1>10 DEF InvalidateFree, FreeVcb
<1>11. ASSUME UNCHANGED <<Vcb, Vpb>>, TouchVcb PROVE HasContext' /\ LockOwnerIsOpen'
  BY <1>4, <1>11 DEF TouchVcb
<1>. QED BY <1>5, <1>6, <1>7, <1>8, <1>9, <1>10, <1>11
         DEF SystemStep, PurgeFcb, QueryRemovePurged, QueryRemoveLower, RemovePurges, RemovePurged,
             VerifyVolume, VerifyReturns, VerifyFails, InvalidateVolumes, InvalidatePurges,
             ShutDown, ShutDownVolume

(* FFSVolume: a volume lock does not outlive the handle it was taken        *)
(* through, where every create that succeeds opens a file or the volume:   *)
(* FFSCleanup releases no lock through a handle that opened nothing.       *)
THEOREM LockEndsWithHandle ==
  ASSUME "nothing" \notin Requests
  PROVE  Spec => []LockOwnerIsOpen
<1>1. Init => HasContext /\ LockOwnerIsOpen
  <2> SUFFICES ASSUME Init PROVE HasContext /\ LockOwnerIsOpen
    OBVIOUS
  <2>1. \A f \in FileObjects : pc[f] = "none" BY DEF Init, Threads
  <2>. QED BY <2>1 DEF Init, HasContext, LockOwnerIsOpen, OpenPcs, CleanPcs, CheckPcs
<1>2. IInv /\ IInv' /\ HasContext /\ LockOwnerIsOpen /\ [Next]_vars
        => HasContext' /\ LockOwnerIsOpen'
  <2> SUFFICES ASSUME IInv, IInv', HasContext, LockOwnerIsOpen, [Next]_vars
               PROVE  HasContext' /\ LockOwnerIsOpen'
    OBVIOUS
  <2>0. OwnerInv /\ TypeOK' BY DEF OwnerInv, IInv
  <2>1. CASE UNCHANGED vars BY <2>1, OwnerKept DEF vars, foVars, lifeVars
  <2>2. CASE Next
    BY <2>0, <2>2, OwnerOpenStep, OwnerCloseStep, OwnerHandleStep, OwnerCheckStep, OwnerSystemStep
       DEF Next
  <2>. QED BY <2>1, <2>2
<1>. QED BY <1>1, <1>2, Invariance, PTL DEF Spec
=============================================================================
