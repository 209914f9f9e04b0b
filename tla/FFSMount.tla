------------------------------ MODULE FFSMount ------------------------------
(* Mounting a slice: FFSMountVolume and FFSLoadDiskLabel, which goes        *)
(* through the BSD partitions of the disk label for the one selected.       *)
(* PartitionNumber, RootPartition and FSOffset are fields of FFSGlobal,     *)
(* shared by all volumes.  Mounts exclude each other (FFSGlobal->Resource); *)
(* FFSSelectBSDPartition takes no lock, and reads on mounted volumes use    *)
(* the fields with no lock either.                                          *)
EXTENDS Integers

CONSTANTS
  Volumes,         \* slices: target devices that hold a disk label
  Labels,          \* what may be on them: [start, parts]
  MaxPartitions,   \* MAXPARTITIONS
  Numbers,         \* what is ever selected
  NoVolume, NoSuper

ASSUME LabelAssumption ==
  /\ MaxPartitions \in Nat \ {0} /\ Numbers \subseteq Nat /\ NoVolume \notin Volumes
  /\ \A l \in Labels : l.start \in Nat /\ \A i \in 0 .. MaxPartitions - 1 :
       LET p == l.parts[i] IN
         /\ p.fs \in {"ffs", "other"} /\ p.root \in BOOLEAN
         /\ p.magic \in 0 .. 2 /\ p.offset \in Nat /\ p.offset >= l.start

VARIABLES
  disk,              \* [Volumes -> Labels]
  PartitionNumber, RootPartition, FSOffset,
  vcb,               \* [Volumes -> the volume mounted there, or NoSuper]
  mount,             \* the mount under way: locals of FFSLoadDiskLabel
  last,              \* history: the volume whose mount began last, if nothing was selected since
  seen,              \* history: what was selected while it was mounted
  hindered           \* history: a superblock could not be read meanwhile

globals == <<PartitionNumber, RootPartition, FSOffset>>
history == <<last, seen, hindered>>
vars == <<disk, PartitionNumber, RootPartition, FSOffset, vcb, mount, last, seen, hindered>>

Index == 0 .. MaxPartitions - 1

(* A superblock in memory: the offset of its partition, and its magic.      *)
Superblock == [at : Nat, magic : 0 .. 2]

(* super is Vcb->ffs_super_block, version Vcb->FSVersion, 0 when not set.   *)
Vcb == [super : Superblock \cup {NoSuper}, version : 0 .. 2, seen : SUBSET Nat, clean : BOOLEAN]

(* loaded is FFSSb, and rootVersion is 0 until RootFS_VERSION is set.       *)
Loop == [of : Volumes, i : 0 .. MaxPartitions, pc : {"test", "root"},
         loaded : Superblock \cup {NoSuper}, rootVersion : 0 .. 2, rootOffset : Nat,
         super : Superblock \cup {NoSuper}, version : 0 .. 2]
NoMount == [of |-> NoVolume]

TypeOK ==
  /\ disk \in [Volumes -> Labels]
  /\ PartitionNumber \in Nat /\ RootPartition \in Index /\ FSOffset \in [Index -> Nat]
  /\ vcb \in [Volumes -> Vcb \cup {NoSuper}]
  /\ \A v \in Volumes : vcb[v] # NoSuper => vcb[v].super # NoSuper
  /\ mount = NoMount \/ mount \in Loop
  /\ last \in Volumes \cup {NoVolume} /\ seen \subseteq Nat /\ hindered \in BOOLEAN
-----------------------------------------------------------------------------
Part(v, i) == disk[v].parts[i]

(* Of a partition, from the start of the slice *)
OffsetOf(v, i) == Part(v, i).offset - disk[v].start

(* FFSLoadSuper where a UFS-n superblock of a partition at o would be *)
Super(v, o, n) ==
  [at |-> o,
   magic |-> IF \E i \in Index : OffsetOf(v, i) = o /\ Part(v, i).fs = "ffs" /\ Part(v, i).magic = n
             THEN n ELSE 0]

(* DriverEntry; the registry may select a partition. *)
Init ==
  /\ disk \in [Volumes -> Labels]
  /\ PartitionNumber \in Numbers /\ RootPartition = 0 /\ FSOffset = [i \in Index |-> 0]
  /\ vcb = [v \in Volumes |-> NoSuper] /\ mount = NoMount
  /\ last = NoVolume /\ seen = {} /\ hindered = FALSE

(* FFSMountVolume takes the resource, and finds a disk label. *)
FFSMountVolume(v) ==
  /\ mount = NoMount /\ vcb[v] = NoSuper
  /\ mount' = [of |-> v, i |-> 0, pc |-> "test", loaded |-> NoSuper, rootVersion |-> 0,
               rootOffset |-> 0, super |-> NoSuper, version |-> 0]
  /\ last' = v /\ seen' = {PartitionNumber} /\ hindered' = FALSE
  /\ UNCHANGED <<disk, globals, vcb>>

Testing == mount # NoMount /\ mount.pc = "test" /\ mount.i < MaxPartitions
Here == Part(mount.of, mount.i)
Offset == OffsetOf(mount.of, mount.i)

(* Mistaken: whatever partition is found is taken. *)
Selected_Any == TRUE
Selected == mount.i = PartitionNumber

(* An FFS partition with a superblock of either kind in it *)
FoundPartition ==
  /\ Testing /\ Here.fs = "ffs" /\ Here.magic # 0
  /\ FSOffset' = [FSOffset EXCEPT ![mount.i] = Offset]
  /\ LET sb == Super(mount.of, Offset, Here.magic) IN
       mount' = [mount EXCEPT
         !.i = @ + 1, !.loaded = sb, !.version = Here.magic,
         !.rootVersion = IF Here.root THEN Here.magic ELSE @,
         !.rootOffset = IF Here.root THEN Offset ELSE @,
         !.super = IF Selected THEN sb ELSE @]
  /\ RootPartition' = IF Here.root THEN mount.i ELSE RootPartition
  /\ UNCHANGED <<disk, PartitionNumber, vcb, history>>

(* No magic there, or a superblock cannot be read: FFSSb is what was read   *)
(* where a UFS2 superblock would be.                                        *)
NoMagic ==
  /\ Testing /\ Here.fs = "ffs"
  /\ FSOffset' = [FSOffset EXCEPT ![mount.i] = Offset]
  /\ \E sb \in {NoSuper, Super(mount.of, Offset, 2)} :
       /\ sb # NoSuper => sb.magic = 0
       /\ mount' = [mount EXCEPT !.i = @ + 1, !.loaded = sb]
       /\ hindered' = (hindered \/ sb = NoSuper \/ Here.magic # 0)
  /\ UNCHANGED <<disk, PartitionNumber, RootPartition, vcb, last, seen>>

OtherPartition ==
  /\ Testing /\ Here.fs = "other"
  /\ mount' = IF Selected THEN [mount EXCEPT !.pc = "root"] ELSE [mount EXCEPT !.i = @ + 1]
  /\ UNCHANGED <<disk, globals, vcb, history>>

(* Mistaken: the number stays. *)
Replacing_Not == PartitionNumber
(* The number of the partition that takes the place of the selected one *)
Replacing == RootPartition

(* The selected partition is not FFS: its place is taken by the root, with  *)
(* RootFS_VERSION unset and FSRootOffset zero if none was found yet.        *)
TakeRoot ==
  /\ mount # NoMount /\ mount.pc = "root"
  /\ \E n \in IF mount.rootVersion = 0 THEN 1 .. 2 ELSE {mount.rootVersion} :
     \E sb \in {NoSuper, Super(mount.of, mount.rootOffset, n)} :
       /\ mount' = [mount EXCEPT !.i = @ + 1, !.pc = "test", !.loaded = sb, !.super = sb]
       /\ hindered' = (hindered \/ sb = NoSuper)
  /\ PartitionNumber' = Replacing
  /\ UNCHANGED <<disk, RootPartition, FSOffset, vcb, last, seen>>

AtEnd == mount # NoMount /\ mount.pc = "test" /\ mount.i = MaxPartitions

Mounted ==
  /\ AtEnd /\ mount.loaded # NoSuper /\ mount.super # NoSuper
  /\ vcb' = [vcb EXCEPT ![mount.of] =
       [super |-> mount.super, version |-> mount.version, seen |-> seen, clean |-> ~hindered]]
  /\ mount' = NoMount
  /\ UNCHANGED <<disk, globals, history>>

(* The label or the last superblock is unreadable. *)
MountFails ==
  /\ mount # NoMount /\ (mount.i = 0 \/ (AtEnd /\ mount.loaded = NoSuper))
  /\ mount' = NoMount
  /\ UNCHANGED <<disk, globals, vcb, history>>

(* Vcb->ffs_super_block is null, and read; or FFSInitializeVcb fails and    *)
(* frees it, and FFSMountVolume frees it again.  The system stops.          *)
MountStops ==
  /\ AtEnd /\ mount.loaded # NoSuper
  /\ PartitionNumber' \in Numbers /\ RootPartition' = 0 /\ FSOffset' = [i \in Index |-> 0]
  /\ vcb' = [v \in Volumes |-> NoSuper] /\ mount' = NoMount
  /\ last' = NoVolume /\ seen' = {} /\ hindered' = FALSE
  /\ UNCHANGED disk

(* IOCTL_SELECT_BSD_PARTITION, at any time *)
FFSSelectBSDPartition(n) ==
  /\ PartitionNumber' = n
  /\ IF mount = NoMount THEN last' = NoVolume /\ UNCHANGED seen
     ELSE last' = NoVolume /\ seen' = seen \cup {n}
  /\ UNCHANGED <<disk, RootPartition, FSOffset, vcb, mount, hindered>>

(* FFSFreeVcb, when FFSVolume comes to it *)
FFSFreeVcb(v) ==
  /\ vcb[v] # NoSuper
  /\ vcb' = [vcb EXCEPT ![v] = NoSuper]
  /\ UNCHANGED <<disk, globals, mount, history>>

Next ==
  \/ \E v \in Volumes : FFSMountVolume(v) \/ FFSFreeVcb(v)
  \/ FoundPartition \/ NoMagic \/ OtherPartition \/ TakeRoot
  \/ Mounted \/ MountFails \/ MountStops
  \/ \E n \in Numbers : FFSSelectBSDPartition(n)

Spec == Init /\ [][Next]_vars
-----------------------------------------------------------------------------
(* Properties *)

Sound(v, i) == Part(v, i).fs = "ffs" /\ Part(v, i).magic # 0
RootsBefore(v, n) == { i \in Index : i < n /\ Sound(v, i) /\ Part(v, i).root }

(* The partition to mount for a selection: itself, or the root before it *)
Choice(v, n) ==
  IF n \in Index /\ Sound(v, n) THEN n
  ELSE CHOOSE i \in RootsBefore(v, n) : \A r \in RootsBefore(v, n) : r <= i
HasChoice(v, n) ==
  n \in Index /\ (Sound(v, n) \/ (Part(v, n).fs = "other" /\ RootsBefore(v, n) # {}))

(* The code that reads a mounted volume adds this to its addresses: nothing *)
(* for UFS1 (src/ffs.c:296, 835), the offset of the partition selected for  *)
(* UFS2 (src/ffs.c:333, 476, 972).                                          *)
Base(v) == IF vcb[v].version = 1 THEN 0 ELSE FSOffset[PartitionNumber]

(* A volume is mounted from the partition that was selected, or from the    *)
(* root before it when that is not FFS, also when other partitions are      *)
(* selected and other disks mounted meanwhile: then from one of those that  *)
(* were selected.  Nothing is said when superblocks could not be read or    *)
(* one of the selected partitions had no root before it                     *)
(* (src/fsctl.c:180-250, 1503).                                             *)
MountsASelection ==
  \A v \in Volumes :
    (vcb[v] # NoSuper /\ vcb[v].clean /\ \A n \in vcb[v].seen : HasChoice(v, n)) =>
      \E n \in vcb[v].seen : vcb[v].super.at = OffsetOf(v, Choice(v, n))

(* A UFS2 volume is read where its own superblock was, whatever was mounted *)
(* or selected before it, until another is mounted or selected: then every  *)
(* volume already mounted is read elsewhere (src/ffs.c:333, 476, 972).      *)
ReadsItsPartition ==
  \A v \in Volumes :
    (/\ vcb[v] # NoSuper /\ last = v /\ mount = NoMount
     /\ vcb[v].clean /\ \A n \in vcb[v].seen : HasChoice(v, n)
     /\ vcb[v].version = 2) =>
      Base(v) = vcb[v].super.at

(* "If the selected BSD partition is not on the disk, it is replaced by the *)
(* root partition" (src/fsctl.c:236, in Korean): no other is mounted, where *)
(* one root partition is on the disk and the selection does not change.     *)
RootInPlaceOfMissing ==
  \A v \in Volumes :
    (vcb[v] # NoSuper /\ vcb[v].clean) =>
      \A n \in Index, r \in Index :
        (/\ vcb[v].seen = {n} /\ Part(v, n).fs = "other"
         /\ { i \in Index : Sound(v, i) /\ Part(v, i).root } = {r}) =>
          vcb[v].super.at = OffsetOf(v, r)
=============================================================================
