--------------------------- MODULE FFSMountProofs ---------------------------
(* Theorems about FFSMount, for every set of slices and labels, every       *)
(* number of partitions and every selection.                                *)
EXTENDS FFSMount, TLAPS

-----------------------------------------------------------------------------
(* The inductive invariant *)

Under == mount # NoMount

(* Every superblock that was looked for could be read, and each selection   *)
(* made meanwhile has a partition to stand for it.                          *)
GoodMount == ~hindered /\ \A n \in seen : HasChoice(mount.of, n)

(* FFSOffset follows the label as far as the loop has come. *)
OffsetsFollow ==
  Under => \A j \in Index :
    (j < mount.i /\ Part(mount.of, j).fs = "ffs") => FSOffset[j] = OffsetOf(mount.of, j)

(* RootPartition and the locals beside it are the last root passed. *)
RootIsLast ==
  (Under /\ ~hindered) =>
    IF mount.rootVersion = 0 THEN RootsBefore(mount.of, mount.i) = {}
    ELSE /\ RootPartition \in RootsBefore(mount.of, mount.i)
         /\ \A r \in RootsBefore(mount.of, mount.i) : r <= RootPartition
         /\ mount.rootOffset = OffsetOf(mount.of, RootPartition)

(* The place of a partition is taken at the partition, and only of one that *)
(* was selected, if it is a good mount, and is not FFS.                     *)
TurnsToRoot ==
  (Under /\ mount.pc = "root") =>
    /\ mount.i < MaxPartitions /\ Part(mount.of, mount.i).fs = "other"
    /\ GoodMount => mount.i \in seen

(* A number ahead of the loop is one that was selected. *)
AheadIsSeen == (Under /\ GoodMount) => (PartitionNumber \in seen \/ PartitionNumber < mount.i)

(* Vcb->ffs_super_block, once set, is of a selection. *)
SuperIsChosen ==
  (Under /\ GoodMount /\ mount.super # NoSuper) =>
    \E n \in seen : mount.super.at = OffsetOf(mount.of, Choice(mount.of, n))

(* While nothing is selected, PartitionNumber is the selection until the    *)
(* superblock is set, and its partition afterwards.                         *)
NumberIsSuper ==
  (Under /\ GoodMount /\ last = mount.of /\ mount.super # NoSuper) =>
    /\ PartitionNumber \in Index /\ PartitionNumber < mount.i
    /\ Part(mount.of, PartitionNumber).fs = "ffs"
    /\ mount.super.at = OffsetOf(mount.of, PartitionNumber)

(* The volume under way is not mounted, and no other was begun after it. *)
OneAtATime == Under => vcb[mount.of] = NoSuper /\ last \in {NoVolume, mount.of}

LoopInv ==
  /\ OffsetsFollow /\ RootIsLast /\ TurnsToRoot /\ AheadIsSeen
  /\ SuperIsChosen /\ NumberIsSuper /\ OneAtATime

IInv ==
  /\ TypeOK
  /\ LoopInv
  /\ MountsASelection /\ ReadsItsPartition
-----------------------------------------------------------------------------
(* Lemmas *)

(* What is assumed of the numbers alone. *)
LEMMA Bounds ==
  /\ MaxPartitions \in Nat /\ MaxPartitions > 0 /\ 0 \in Index
  /\ Numbers \subseteq Nat /\ NoVolume \notin Volumes
BY LabelAssumption DEF Index

(* The types of what a label says of a partition. *)
LEMMA PartType ==
  ASSUME TypeOK, NEW v \in Volumes, NEW i \in Index
  PROVE  /\ Part(v, i).fs \in {"ffs", "other"} /\ Part(v, i).root \in BOOLEAN
         /\ Part(v, i).magic \in 0 .. 2 /\ OffsetOf(v, i) \in Nat
<1>1. disk[v] \in Labels
  BY DEF TypeOK
<1>. QED BY <1>1, LabelAssumption DEF Part, OffsetOf, Index

(* A superblock FFSLoadSuper returned is one. *)
LEMMA SuperType ==
  ASSUME NEW v, NEW o \in Nat, NEW n \in 0 .. 2
  PROVE  Super(v, o, n) \in Superblock /\ Super(v, o, n).at = o
BY DEF Super, Superblock

(* The mount under way, and the partition it is at. *)
LEMMA LoopType ==
  ASSUME TypeOK, mount # NoMount
  PROVE  mount \in Loop /\ mount.of \in Volumes /\ mount.i \in Nat /\ mount.i <= MaxPartitions
BY LabelAssumption DEF TypeOK, Loop

LEMMA HereType ==
  ASSUME TypeOK, Testing
  PROVE  /\ mount \in Loop /\ mount.of \in Volumes /\ mount.i \in Index
         /\ mount.i + 1 \in 0 .. MaxPartitions
         /\ Here.fs \in {"ffs", "other"} /\ Here.root \in BOOLEAN
         /\ Here.magic \in 0 .. 2 /\ Offset \in Nat
<1>1. mount \in Loop /\ mount.of \in Volumes /\ mount.i \in Nat
  BY LoopType DEF Testing
<1>2. mount.i \in Index /\ mount.i + 1 \in 0 .. MaxPartitions
  BY <1>1, LabelAssumption DEF Testing, Index
<1>. QED BY <1>1, <1>2, PartType DEF Here, Offset

(* What the step to the root does to the locals. *)
LEMMA TakeRootStep ==
  ASSUME TypeOK, TurnsToRoot, TakeRoot
  PROVE  /\ mount.i \in Index /\ mount.i + 1 \in 0 .. MaxPartitions
         /\ \E sb \in Superblock \cup {NoSuper} :
              /\ mount' = [mount EXCEPT !.i = @ + 1, !.pc = "test", !.loaded = sb, !.super = sb]
              /\ hindered' = (hindered \/ sb = NoSuper)
              /\ sb # NoSuper => sb.at = mount.rootOffset
<1>1. /\ mount \in Loop /\ mount.i \in Nat /\ mount.i < MaxPartitions
      /\ mount.rootOffset \in Nat /\ mount.rootVersion \in 0 .. 2
  BY LoopType DEF TakeRoot, TurnsToRoot, Under, Loop
<1>2. mount.i \in Index /\ mount.i + 1 \in 0 .. MaxPartitions
  BY <1>1, Bounds DEF Index
<1>3. PICK n \in IF mount.rootVersion = 0 THEN 1 .. 2 ELSE {mount.rootVersion} :
        \E sb \in {NoSuper, Super(mount.of, mount.rootOffset, n)} :
          /\ mount' = [mount EXCEPT !.i = @ + 1, !.pc = "test", !.loaded = sb, !.super = sb]
          /\ hindered' = (hindered \/ sb = NoSuper)
  BY DEF TakeRoot
<1>4. n \in 0 .. 2
  BY <1>1, <1>3
<1>5. Super(mount.of, mount.rootOffset, n) \in Superblock
      /\ Super(mount.of, mount.rootOffset, n).at = mount.rootOffset
  BY <1>1, <1>4, SuperType
<1>. QED BY <1>2, <1>3, <1>5

-----------------------------------------------------------------------------
(* Type correctness *)

LEMMA InitType == ASSUME Init PROVE TypeOK
BY Bounds DEF Init, TypeOK

LEMMA NextType ==
  ASSUME TypeOK, TurnsToRoot, [Next]_vars
  PROVE  TypeOK'
<1> USE DEF globals, history
<1>1. ASSUME NEW v \in Volumes, FFSMountVolume(v)
      PROVE  TypeOK'
  <2>1. mount' \in Loop
    BY <1>1, Bounds DEF FFSMountVolume, Loop
  <2>. QED BY <1>1, <2>1 DEF TypeOK, FFSMountVolume
<1>2. ASSUME NEW v \in Volumes, FFSFreeVcb(v)
      PROVE  TypeOK'
  BY <1>2 DEF TypeOK, FFSFreeVcb
<1>3. CASE FoundPartition
  <2>1. Super(mount.of, Offset, Here.magic) \in Superblock
    BY <1>3, HereType, SuperType DEF FoundPartition
  <2>2. mount' \in Loop
    BY <1>3, <2>1, HereType DEF FoundPartition, Loop
  <2>3. FSOffset' \in [Index -> Nat] /\ RootPartition' \in Index
    BY <1>3, HereType DEF FoundPartition, TypeOK
  <2>. QED BY <1>3, <2>2, <2>3 DEF FoundPartition, TypeOK
<1>4. CASE NoMagic
  <2>1. PICK sb \in {NoSuper, Super(mount.of, Offset, 2)} :
               mount' = [mount EXCEPT !.i = @ + 1, !.loaded = sb]
    BY <1>4 DEF NoMagic
  <2>2. mount' \in Loop
    <3>1. sb \in Superblock \cup {NoSuper}
      BY <1>4, HereType, SuperType DEF NoMagic
    <3>. QED BY <1>4, <2>1, <3>1, HereType DEF NoMagic, Loop
  <2>3. FSOffset' \in [Index -> Nat]
    BY <1>4, HereType DEF NoMagic, TypeOK
  <2>4. hindered' \in BOOLEAN
    BY <1>4 DEF NoMagic, TypeOK
  <2>. QED BY <1>4, <2>2, <2>3, <2>4 DEF NoMagic, TypeOK
<1>5. CASE OtherPartition
  BY <1>5, HereType DEF OtherPartition, TypeOK, Loop
<1>6. CASE TakeRoot
  <2>1. PICK sb \in Superblock \cup {NoSuper} :
          /\ mount' = [mount EXCEPT !.i = @ + 1, !.pc = "test", !.loaded = sb, !.super = sb]
          /\ hindered' = (hindered \/ sb = NoSuper)
    BY <1>6, TakeRootStep
  <2>2. mount' \in Loop
    BY <1>6, <2>1, TakeRootStep, LoopType DEF TakeRoot, Loop
  <2>3. PartitionNumber' \in Nat
    BY <1>6 DEF TakeRoot, Replacing, TypeOK, Index
  <2>4. hindered' \in BOOLEAN
    BY <2>1 DEF TypeOK
  <2>. QED BY <1>6, <2>2, <2>3, <2>4 DEF TakeRoot, TypeOK
<1>7. CASE Mounted
  <2>1. [super |-> mount.super, version |-> mount.version, seen |-> seen, clean |-> ~hindered] \in Vcb
    BY <1>7, LoopType DEF Mounted, AtEnd, Loop, Vcb, TypeOK
  <2>. QED BY <1>7, <2>1, LoopType DEF Mounted, TypeOK
<1>8. CASE MountFails
  BY <1>8 DEF MountFails, TypeOK
<1>9. CASE MountStops
  BY <1>9, Bounds DEF MountStops, TypeOK, Index
<1>10. ASSUME NEW n \in Numbers, FFSSelectBSDPartition(n)
       PROVE  TypeOK'
  BY <1>10, Bounds DEF FFSSelectBSDPartition, TypeOK
<1>11. CASE UNCHANGED vars
  BY <1>11 DEF vars, TypeOK
<1>. QED BY <1>1, <1>2, <1>3, <1>4, <1>5, <1>6, <1>7, <1>8, <1>9, <1>10, <1>11 DEF Next
-----------------------------------------------------------------------------
(* The loop over the label *)

(* Ahead of partition n nothing but that partition may be a further root. *)
LEMMA RootsGrow ==
  ASSUME NEW v, NEW n \in Index
  PROVE  RootsBefore(v, n + 1) =
           IF Sound(v, n) /\ Part(v, n).root THEN RootsBefore(v, n) \cup {n} ELSE RootsBefore(v, n)
BY Bounds DEF RootsBefore, Index

(* The root that takes the place of n is the last one before it. *)
LEMMA ChoiceIsLast ==
  ASSUME NEW v, NEW n \in Index, Part(v, n).fs = "other",
         NEW r \in RootsBefore(v, n), \A q \in RootsBefore(v, n) : q <= r
  PROVE  Choice(v, n) = r
<1>1. ASSUME NEW c \in RootsBefore(v, n), \A q \in RootsBefore(v, n) : q <= c
      PROVE  c = r
  <2>1. c <= r /\ r <= c
    BY <1>1
  <2>. QED BY <2>1, Bounds DEF RootsBefore, Index
<1>2. Choice(v, n) = CHOOSE i \in RootsBefore(v, n) : \A q \in RootsBefore(v, n) : q <= i
  BY DEF Choice, Sound
<1>. QED BY <1>1, <1>2

(* No step changes a label. *)
LEMMA LabelsStay ==
  ASSUME [Next]_vars
  PROVE  disk' = disk
BY DEF Next, vars, FFSMountVolume, FFSFreeVcb, FoundPartition, NoMagic, OtherPartition, TakeRoot,
       Mounted, MountFails, MountStops, FFSSelectBSDPartition

LEMMA LabelsStayAll ==
  ASSUME disk' = disk
  PROVE  /\ \A v, i : Part(v, i)' = Part(v, i) /\ OffsetOf(v, i)' = OffsetOf(v, i) /\ Sound(v, i)' = Sound(v, i)
         /\ \A v, n : /\ RootsBefore(v, n)' = RootsBefore(v, n) /\ Choice(v, n)' = Choice(v, n)
                      /\ HasChoice(v, n)' = HasChoice(v, n)
BY DEF Part, OffsetOf, Sound, RootsBefore, Choice, HasChoice
-----------------------------------------------------------------------------
(* What each step does to the invariant *)

(* A step to the next partition, or to the root, that says no more of the   *)
(* selections than the last.                                                *)
LEMMA GoodStays ==
  ASSUME disk' = disk, mount'.of = mount.of, seen \subseteq seen', hindered => hindered', GoodMount'
  PROVE  GoodMount
BY LabelsStayAll DEF GoodMount

(* What is said of mounted volumes outlives a step that touches none, while *)
(* a mount is under way after it.                                           *)
LEMMA MountedStay ==
  ASSUME MountsASelection, disk' = disk, vcb' = vcb
  PROVE  MountsASelection'
BY LabelsStayAll DEF MountsASelection

LEMMA FoundPartitionInv ==
  ASSUME IInv, FoundPartition, TypeOK'
  PROVE  IInv'
<1> USE DEF IInv, LoopInv, Under, globals, history
<1>1. /\ mount \in Loop /\ mount.i \in Index /\ mount.i \in Nat /\ mount # NoMount
      /\ mount.pc = "test" /\ Here.magic \in 1 .. 2 /\ Offset \in Nat
  BY HereType DEF FoundPartition, Testing, Index
<1>2. disk' = disk /\ vcb' = vcb /\ seen' = seen /\ hindered' = hindered /\ last' = last
      /\ PartitionNumber' = PartitionNumber
  BY DEF FoundPartition
<1>3. Super(mount.of, Offset, Here.magic).at = Offset
  BY <1>1, SuperType
<1>4. /\ mount'.of = mount.of /\ mount'.i = mount.i + 1 /\ mount'.pc = "test"
      /\ mount'.rootVersion = (IF Here.root THEN Here.magic ELSE mount.rootVersion)
      /\ mount'.rootOffset = (IF Here.root THEN Offset ELSE mount.rootOffset)
      /\ mount'.super = (IF Selected THEN Super(mount.of, Offset, Here.magic) ELSE mount.super)
  BY <1>1 DEF FoundPartition, Loop
<1>5. Sound(mount.of, mount.i) /\ Here = Part(mount.of, mount.i) /\ Offset = OffsetOf(mount.of, mount.i)
  BY DEF FoundPartition, Sound, Here, Offset
<1>6. GoodMount' => GoodMount
  BY <1>2, <1>4, GoodStays
<1>7. OffsetsFollow'
  BY <1>1, <1>2, <1>4, <1>5, LabelsStayAll DEF OffsetsFollow, FoundPartition, TypeOK, Index
<1>8. RootIsLast'
  <2>1. RootsBefore(mount.of, mount.i + 1) =
          IF Here.root THEN RootsBefore(mount.of, mount.i) \cup {mount.i}
          ELSE RootsBefore(mount.of, mount.i)
    BY <1>1, <1>5, RootsGrow
  <2>2. \A r \in RootsBefore(mount.of, mount.i) : r <= mount.i
    BY <1>1, Bounds DEF RootsBefore, Index
  <2>3. CASE Here.root
    BY <2>1, <2>2, <2>3, <1>1, <1>2, <1>4, <1>5, LabelsStayAll DEF RootIsLast, FoundPartition
  <2>4. CASE ~Here.root
    BY <2>1, <2>4, <1>1, <1>2, <1>4, LabelsStayAll DEF RootIsLast, FoundPartition
  <2>. QED BY <2>3, <2>4
<1>9. TurnsToRoot'
  BY <1>4 DEF TurnsToRoot
<1>10. AheadIsSeen'
  BY <1>1, <1>2, <1>4, <1>6 DEF AheadIsSeen, TypeOK
<1>11. SuperIsChosen'
  <2>1. CASE Selected
    <3>1. GoodMount => PartitionNumber \in seen
      BY <2>1, <1>1 DEF AheadIsSeen, Selected, TypeOK
    <3>2. Choice(mount.of, PartitionNumber) = PartitionNumber
      BY <2>1, <1>1, <1>5 DEF Choice, Selected
    <3>. QED BY <2>1, <3>1, <3>2, <1>2, <1>3, <1>4, <1>5, <1>6, LabelsStayAll DEF SuperIsChosen, Selected
  <2>2. CASE ~Selected
    BY <2>2, <1>1, <1>2, <1>4, <1>6, LabelsStayAll DEF SuperIsChosen
  <2>. QED BY <2>1, <2>2
<1>12. NumberIsSuper'
  <2>1. CASE Selected
    BY <2>1, <1>1, <1>2, <1>3, <1>4, <1>5, LabelsStayAll DEF NumberIsSuper, Selected, Sound
  <2>2. CASE ~Selected
    BY <2>2, <1>1, <1>2, <1>4, <1>6, LabelsStayAll DEF NumberIsSuper, TypeOK
  <2>. QED BY <2>1, <2>2
<1>13. OneAtATime'
  BY <1>1, <1>2, <1>4 DEF OneAtATime
<1>14. MountsASelection' /\ ReadsItsPartition'
  <2>1. mount' # NoMount
    BY <1>1, <1>4, Bounds DEF NoMount, Loop
  <2>. QED BY <2>1, <1>2, MountedStay DEF ReadsItsPartition
<1>. QED BY <1>7, <1>8, <1>9, <1>10, <1>11, <1>12, <1>13, <1>14

LEMMA NoMagicInv ==
  ASSUME IInv, NoMagic, TypeOK'
  PROVE  IInv'
<1> USE DEF IInv, LoopInv, Under, globals, history
<1>1. /\ mount \in Loop /\ mount.i \in Index /\ mount.i \in Nat /\ mount # NoMount
      /\ mount.pc = "test" /\ Offset \in Nat /\ Here.magic \in 0 .. 2
  BY HereType DEF NoMagic, Testing, Index
<1>2. disk' = disk /\ vcb' = vcb /\ seen' = seen /\ last' = last
      /\ PartitionNumber' = PartitionNumber /\ RootPartition' = RootPartition
  BY DEF NoMagic
<1>3. /\ hindered => hindered'
      /\ Here.magic # 0 => hindered'
      /\ mount'.of = mount.of /\ mount'.i = mount.i + 1 /\ mount'.pc = "test"
      /\ mount'.rootVersion = mount.rootVersion /\ mount'.rootOffset = mount.rootOffset
      /\ mount'.super = mount.super
  BY <1>1 DEF NoMagic, Loop
<1>4. GoodMount' => GoodMount
  BY <1>2, <1>3, GoodStays
<1>5. OffsetsFollow'
  BY <1>1, <1>2, <1>3, LabelsStayAll DEF OffsetsFollow, NoMagic, TypeOK, Index, Offset
<1>6. RootIsLast'
  <2>1. ~hindered' => RootsBefore(mount.of, mount.i + 1) = RootsBefore(mount.of, mount.i)
    BY <1>1, <1>3, RootsGrow DEF Sound, Here
  <2>. QED BY <2>1, <1>1, <1>2, <1>3, LabelsStayAll DEF RootIsLast
<1>7. TurnsToRoot' /\ OneAtATime'
  BY <1>1, <1>2, <1>3 DEF TurnsToRoot, OneAtATime
<1>8. AheadIsSeen'
  <2>1. CASE Selected
    BY <2>1, <1>1, <1>2, <1>3, <1>4 DEF AheadIsSeen, TypeOK
  <2>2. CASE ~Selected
    BY <2>2, <1>1, <1>2, <1>3, <1>4 DEF AheadIsSeen, TypeOK
  <2>. QED BY <2>1, <2>2
<1>9. SuperIsChosen' /\ NumberIsSuper'
  BY <1>1, <1>2, <1>3, <1>4, LabelsStayAll DEF SuperIsChosen, NumberIsSuper, TypeOK
<1>10. MountsASelection' /\ ReadsItsPartition'
  <2>1. mount' # NoMount
    BY <1>1, <1>3, Bounds DEF NoMount, Loop
  <2>. QED BY <2>1, <1>2, MountedStay DEF ReadsItsPartition
<1>. QED BY <1>5, <1>6, <1>7, <1>8, <1>9, <1>10

LEMMA OtherPartitionInv ==
  ASSUME IInv, OtherPartition, TypeOK'
  PROVE  IInv'
<1> USE DEF IInv, LoopInv, Under, globals, history
<1>1. /\ mount \in Loop /\ mount.i \in Index /\ mount.i \in Nat /\ mount # NoMount
      /\ mount.pc = "test" /\ Here.fs = "other" /\ mount.i < MaxPartitions
  BY HereType DEF OtherPartition, Testing, Index
<1>2. disk' = disk /\ vcb' = vcb /\ seen' = seen /\ last' = last /\ hindered' = hindered
      /\ PartitionNumber' = PartitionNumber /\ RootPartition' = RootPartition /\ FSOffset' = FSOffset
  BY DEF OtherPartition
<1>3. CASE Selected
  <2>1. /\ mount'.of = mount.of /\ mount'.i = mount.i /\ mount'.pc = "root"
        /\ mount'.rootVersion = mount.rootVersion /\ mount'.rootOffset = mount.rootOffset
        /\ mount'.super = mount.super
    BY <1>1, <1>3 DEF OtherPartition, Loop
  <2>2. GoodMount' => GoodMount
    BY <1>2, <2>1, GoodStays
  <2>3. OffsetsFollow' /\ RootIsLast' /\ AheadIsSeen' /\ OneAtATime'
    BY <1>1, <1>2, <2>1, <2>2, LabelsStayAll
    DEF OffsetsFollow, RootIsLast, AheadIsSeen, OneAtATime
  <2>4. SuperIsChosen' /\ NumberIsSuper'
    BY <1>1, <1>2, <2>1, <2>2, LabelsStayAll DEF SuperIsChosen, NumberIsSuper
  <2>5. TurnsToRoot'
    BY <1>1, <1>2, <1>3, <2>1, <2>2, LabelsStayAll DEF TurnsToRoot, AheadIsSeen, Selected, Here, TypeOK
  <2>6. mount' # NoMount
    BY <1>1, <2>1, Bounds DEF NoMount, Loop
  <2>. QED BY <2>3, <2>4, <2>5, <2>6, <1>2, MountedStay DEF ReadsItsPartition
<1>4. CASE ~Selected
  <2>1. /\ mount'.of = mount.of /\ mount'.i = mount.i + 1 /\ mount'.pc = "test"
        /\ mount'.rootVersion = mount.rootVersion /\ mount'.rootOffset = mount.rootOffset
        /\ mount'.super = mount.super
    BY <1>1, <1>4 DEF OtherPartition, Loop
  <2>2. GoodMount' => GoodMount
    BY <1>2, <2>1, GoodStays
  <2>3. OffsetsFollow'
    BY <1>1, <1>2, <2>1, LabelsStayAll DEF OffsetsFollow, Here, Index
  <2>4. RootIsLast'
    <3>1. RootsBefore(mount.of, mount.i + 1) = RootsBefore(mount.of, mount.i)
      BY <1>1, RootsGrow DEF Sound, Here
    <3>. QED BY <3>1, <1>1, <1>2, <2>1, LabelsStayAll DEF RootIsLast
  <2>5. AheadIsSeen' /\ OneAtATime' /\ TurnsToRoot'
    BY <1>1, <1>2, <2>1, <2>2 DEF AheadIsSeen, OneAtATime, TurnsToRoot, TypeOK
  <2>6. SuperIsChosen'
    BY <1>1, <1>2, <2>1, <2>2, LabelsStayAll DEF SuperIsChosen
  <2>8. NumberIsSuper'
    BY <1>1, <1>2, <2>1, <2>2, LabelsStayAll DEF NumberIsSuper, TypeOK
  <2>7. mount' # NoMount
    BY <1>1, <2>1, Bounds DEF NoMount, Loop
  <2>. QED BY <2>3, <2>4, <2>5, <2>6, <2>7, <2>8, <1>2, MountedStay DEF ReadsItsPartition
<1>. QED BY <1>3, <1>4

LEMMA TakeRootInv ==
  ASSUME IInv, TakeRoot, TypeOK'
  PROVE  IInv'
<1> USE DEF IInv, LoopInv, Under, globals, history
<1>1. /\ mount \in Loop /\ mount # NoMount /\ mount.pc = "root"
      /\ mount.i \in Index /\ mount.i \in Nat /\ Part(mount.of, mount.i).fs = "other"
  BY LoopType, TakeRootStep DEF TakeRoot, TurnsToRoot, Index
<1>2. disk' = disk /\ vcb' = vcb /\ seen' = seen /\ last' = last /\ FSOffset' = FSOffset
      /\ PartitionNumber' = RootPartition /\ RootPartition' = RootPartition
  BY DEF TakeRoot, Replacing
<1>3. /\ hindered => hindered'
      /\ mount'.of = mount.of /\ mount'.i = mount.i + 1 /\ mount'.pc = "test"
      /\ mount'.rootVersion = mount.rootVersion /\ mount'.rootOffset = mount.rootOffset
      /\ mount'.super # NoSuper => mount'.super.at = mount.rootOffset
  BY <1>1, TakeRootStep DEF Loop
<1>4. GoodMount' => GoodMount
  BY <1>2, <1>3, GoodStays
<1>5. RootsBefore(mount.of, mount.i + 1) = RootsBefore(mount.of, mount.i)
  BY <1>1, RootsGrow DEF Sound
(* A good mount has passed a root, and it is the choice for this partition. *)
<1>6. GoodMount =>
        /\ mount.i \in seen /\ RootPartition \in RootsBefore(mount.of, mount.i)
        /\ Choice(mount.of, mount.i) = RootPartition
        /\ mount.rootOffset = OffsetOf(mount.of, RootPartition)
  <2>1. SUFFICES ASSUME GoodMount
                 PROVE  /\ mount.i \in seen /\ RootPartition \in RootsBefore(mount.of, mount.i)
                        /\ Choice(mount.of, mount.i) = RootPartition
                        /\ mount.rootOffset = OffsetOf(mount.of, RootPartition)
    OBVIOUS
  <2>2. mount.i \in seen /\ ~hindered
    BY <1>1, <2>1 DEF TurnsToRoot, GoodMount
  <2>3. RootsBefore(mount.of, mount.i) # {}
    BY <1>1, <2>1, <2>2 DEF GoodMount, HasChoice, Sound
  <2>4. /\ RootPartition \in RootsBefore(mount.of, mount.i)
        /\ \A r \in RootsBefore(mount.of, mount.i) : r <= RootPartition
        /\ mount.rootOffset = OffsetOf(mount.of, RootPartition)
    BY <1>1, <2>2, <2>3 DEF RootIsLast
  <2>. QED BY <1>1, <2>2, <2>4, ChoiceIsLast
<1>7. OffsetsFollow'
  BY <1>1, <1>2, <1>3, LabelsStayAll DEF OffsetsFollow, Index
<1>8. RootIsLast'
  BY <1>1, <1>2, <1>3, <1>5, LabelsStayAll DEF RootIsLast
<1>9. TurnsToRoot' /\ OneAtATime'
  BY <1>1, <1>2, <1>3 DEF TurnsToRoot, OneAtATime
<1>10. GoodMount => RootPartition \in Index /\ RootPartition < mount.i /\ Part(mount.of, RootPartition).fs = "ffs"
  BY <1>6 DEF RootsBefore, Sound
<1>11. AheadIsSeen'
  BY <1>1, <1>2, <1>3, <1>4, <1>10 DEF AheadIsSeen, Index
<1>12. SuperIsChosen'
  BY <1>2, <1>3, <1>4, <1>6, LabelsStayAll DEF SuperIsChosen
<1>13. NumberIsSuper'
  BY <1>1, <1>2, <1>3, <1>4, <1>6, <1>10, LabelsStayAll DEF NumberIsSuper, Index
<1>14. MountsASelection' /\ ReadsItsPartition'
  <2>1. mount' # NoMount
    BY <1>1, <1>3, Bounds DEF NoMount, Loop
  <2>. QED BY <2>1, <1>2, MountedStay DEF ReadsItsPartition
<1>. QED BY <1>7, <1>8, <1>9, <1>11, <1>12, <1>13, <1>14

LEMMA FFSMountVolumeInv ==
  ASSUME IInv, NEW v \in Volumes, FFSMountVolume(v), TypeOK'
  PROVE  IInv'
<1> USE DEF IInv, LoopInv, Under, globals
<1>1. /\ mount' \in Loop /\ mount'.of = v /\ mount'.i = 0 /\ mount'.pc = "test"
      /\ mount'.rootVersion = 0 /\ mount'.super = NoSuper
  BY Bounds DEF FFSMountVolume, Loop
<1>2. disk' = disk /\ vcb' = vcb /\ vcb[v] = NoSuper /\ seen' = {PartitionNumber} /\ last' = v
      /\ PartitionNumber' = PartitionNumber
  BY DEF FFSMountVolume
<1>3. OffsetsFollow'
  BY <1>1 DEF OffsetsFollow, Index
<1>4. RootIsLast'
  BY <1>1 DEF RootIsLast, RootsBefore, Index
<1>5. TurnsToRoot' /\ AheadIsSeen' /\ SuperIsChosen' /\ NumberIsSuper' /\ OneAtATime'
  BY <1>1, <1>2 DEF TurnsToRoot, AheadIsSeen, SuperIsChosen, NumberIsSuper, OneAtATime
<1>6. mount' # NoMount
  BY <1>1, Bounds DEF NoMount
<1>. QED BY <1>2, <1>3, <1>4, <1>5, <1>6, MountedStay DEF ReadsItsPartition

LEMMA MountedInv ==
  ASSUME IInv, Mounted, TypeOK'
  PROVE  IInv'
<1> USE DEF IInv, LoopInv, Under, globals, history
<1>1. /\ mount \in Loop /\ mount # NoMount /\ mount.of \in Volumes /\ mount.super # NoSuper
      /\ mount.i = MaxPartitions
  BY LoopType DEF Mounted, AtEnd
<1>2. disk' = disk /\ last' = last /\ PartitionNumber' = PartitionNumber /\ FSOffset' = FSOffset
      /\ mount' = NoMount
  BY DEF Mounted
<1>3. /\ vcb'[mount.of].super = mount.super /\ vcb'[mount.of].clean = ~hindered
      /\ vcb'[mount.of].seen = seen
      /\ \A v \in Volumes : v # mount.of => vcb'[v] = vcb[v]
  BY <1>1 DEF Mounted, TypeOK
<1>4. LoopInv'
  BY <1>2 DEF OffsetsFollow, RootIsLast, TurnsToRoot, AheadIsSeen, SuperIsChosen, NumberIsSuper, OneAtATime
<1>5. MountsASelection'
  <2>1. SUFFICES ASSUME NEW v \in Volumes, vcb'[v] # NoSuper, vcb'[v].clean,
                        \A n \in vcb'[v].seen : HasChoice(v, n)
                 PROVE  \E n \in vcb'[v].seen : vcb'[v].super.at = OffsetOf(v, Choice(v, n))
    BY <1>2, LabelsStayAll DEF MountsASelection
  <2>2. CASE v = mount.of
    BY <2>1, <2>2, <1>1, <1>3 DEF SuperIsChosen, GoodMount
  <2>3. CASE v # mount.of
    BY <2>1, <2>3, <1>3 DEF MountsASelection
  <2>. QED BY <2>2, <2>3
<1>6. ReadsItsPartition'
  <2>1. SUFFICES ASSUME NEW v \in Volumes, vcb'[v] # NoSuper, last' = v, vcb'[v].clean,
                        \A n \in vcb'[v].seen : HasChoice(v, n), vcb'[v].version = 2
                 PROVE  FSOffset[PartitionNumber] = vcb'[v].super.at
    BY <1>2, LabelsStayAll DEF ReadsItsPartition, Base
  <2>2. v = mount.of
    BY <1>1, <1>2, <2>1, Bounds DEF OneAtATime
  <2>3. GoodMount
    BY <1>3, <2>1, <2>2 DEF GoodMount
  <2>. QED BY <1>1, <1>2, <1>3, <2>1, <2>2, <2>3 DEF NumberIsSuper, OffsetsFollow
<1>. QED BY <1>4, <1>5, <1>6

LEMMA FFSSelectBSDPartitionInv ==
  ASSUME IInv, NEW n \in Numbers, FFSSelectBSDPartition(n), TypeOK'
  PROVE  IInv'
<1> USE DEF IInv, LoopInv, Under
<1>1. disk' = disk /\ vcb' = vcb /\ mount' = mount /\ last' = NoVolume /\ hindered' = hindered
      /\ FSOffset' = FSOffset /\ RootPartition' = RootPartition /\ PartitionNumber' = n
      /\ (mount # NoMount => seen' = seen \cup {n})
  BY DEF FFSSelectBSDPartition
<1>2. Under => (GoodMount' => GoodMount)
  BY <1>1, GoodStays
<1>3. OffsetsFollow' /\ RootIsLast' /\ TurnsToRoot'
  BY <1>1, <1>2, LabelsStayAll DEF OffsetsFollow, RootIsLast, TurnsToRoot
<1>4. AheadIsSeen' /\ SuperIsChosen'
  BY <1>1, <1>2, LabelsStayAll DEF AheadIsSeen, SuperIsChosen
<1>5. mount # NoMount => mount.of # NoVolume
  BY LoopType, Bounds
<1>6. NumberIsSuper' /\ OneAtATime'
  BY <1>1, <1>5 DEF NumberIsSuper, OneAtATime
<1>7. MountsASelection' /\ ReadsItsPartition'
  BY <1>1, Bounds, MountedStay DEF ReadsItsPartition
<1>. QED BY <1>3, <1>4, <1>6, <1>7

(* FFSFreeVcb, a mount that fails, and one that stops the system *)
LEMMA OtherStepsInv ==
  ASSUME IInv, TypeOK', MountFails \/ MountStops \/ \E v \in Volumes : FFSFreeVcb(v)
  PROVE  IInv'
<1> USE DEF IInv, LoopInv, Under, globals, history
<1>1. CASE MountFails
  <2>1. disk' = disk /\ vcb' = vcb /\ mount' = NoMount /\ last' = last /\ mount # NoMount
    BY <1>1 DEF MountFails
  <2>2. LoopInv'
    BY <2>1 DEF OffsetsFollow, RootIsLast, TurnsToRoot, AheadIsSeen, SuperIsChosen, NumberIsSuper, OneAtATime
  <2>3. ReadsItsPartition'
    BY <2>1, Bounds DEF ReadsItsPartition, OneAtATime
  <2>. QED BY <2>1, <2>2, <2>3, MountedStay
<1>2. CASE MountStops
  <2>1. mount' = NoMount /\ \A v \in Volumes : vcb'[v] = NoSuper
    BY <1>2 DEF MountStops
  <2>. QED BY <2>1 DEF OffsetsFollow, RootIsLast, TurnsToRoot, AheadIsSeen, SuperIsChosen,
         NumberIsSuper, OneAtATime, MountsASelection, ReadsItsPartition
<1>3. ASSUME NEW v \in Volumes, FFSFreeVcb(v)
      PROVE  IInv'
  <2>1. /\ disk' = disk /\ mount' = mount /\ last' = last /\ seen' = seen /\ hindered' = hindered
        /\ PartitionNumber' = PartitionNumber /\ RootPartition' = RootPartition /\ FSOffset' = FSOffset
        /\ \A w \in Volumes : vcb'[w] # NoSuper => vcb'[w] = vcb[w]
    BY <1>3 DEF FFSFreeVcb, TypeOK
  <2>2. OffsetsFollow' /\ RootIsLast' /\ TurnsToRoot' /\ AheadIsSeen'
    BY <2>1, LabelsStayAll DEF OffsetsFollow, RootIsLast, TurnsToRoot, AheadIsSeen, GoodMount
  <2>3. SuperIsChosen' /\ NumberIsSuper'
    BY <2>1, LabelsStayAll DEF SuperIsChosen, NumberIsSuper, GoodMount
  <2>4. OneAtATime'
    BY <2>1, LoopType DEF OneAtATime
  <2>5. MountsASelection' /\ ReadsItsPartition'
    BY <2>1, LabelsStayAll DEF MountsASelection, ReadsItsPartition, Base
  <2>. QED BY <2>2, <2>3, <2>4, <2>5
<1>. QED BY <1>1, <1>2, <1>3

LEMMA StutterInv ==
  ASSUME IInv, UNCHANGED vars
  PROVE  IInv'
<1>1. IInv' = IInv
  BY LabelsStayAll DEF vars, IInv, LoopInv, Under, TypeOK, OffsetsFollow, RootIsLast, TurnsToRoot, AheadIsSeen,
     SuperIsChosen, NumberIsSuper, OneAtATime, MountsASelection, ReadsItsPartition, GoodMount, Base
<1>. QED BY <1>1

LEMMA InitInv == ASSUME Init PROVE IInv
BY InitType DEF Init, IInv, LoopInv, Under, OffsetsFollow, RootIsLast, TurnsToRoot, AheadIsSeen,
  SuperIsChosen, NumberIsSuper, OneAtATime, MountsASelection, ReadsItsPartition

LEMMA NextInv ==
  ASSUME IInv, [Next]_vars
  PROVE  IInv'
<1>1. TypeOK'
  BY NextType DEF IInv, LoopInv
<1>. QED BY <1>1, FoundPartitionInv, NoMagicInv, OtherPartitionInv, TakeRootInv, FFSMountVolumeInv,
       MountedInv, FFSSelectBSDPartitionInv, OtherStepsInv, StutterInv DEF Next

-----------------------------------------------------------------------------
(* Theorems *)

(* The inductive invariant: the locals of the loop over the label and the   *)
(* fields of FFSGlobal describe one and the same partition at every step.   *)
THEOREM Invariance == Spec => []IInv
BY InitInv, NextInv, PTL DEF Spec

(* The disk label's numbers, and with them FFSOffset and the superblock's   *)
(* place, stay in range, whatever is selected and mounted (src/fsctl.c:180).*)
THEOREM TypeCorrect == Spec => []TypeOK
<1>1. IInv => TypeOK
  BY DEF IInv
<1>. QED BY <1>1, Invariance, PTL

(* A volume comes from a partition that was selected while it was mounted,  *)
(* or from the last root before one that is not FFS, for every label and    *)
(* every order of mounts and selections (src/fsctl.c:180-250, 1503).        *)
THEOREM MountIsOfSelection == Spec => []MountsASelection
<1>1. IInv => MountsASelection
  BY DEF IInv
<1>. QED BY <1>1, Invariance, PTL

(* The volume that was mounted last is read at its own superblock's         *)
(* partition until something is selected (src/ffs.c:333, 476, 972).         *)
THEOREM LastMountIsRead == Spec => []ReadsItsPartition
<1>1. IInv => ReadsItsPartition
  BY DEF IInv
<1>. QED BY <1>1, Invariance, PTL
=============================================================================
