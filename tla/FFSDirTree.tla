----------------------------- MODULE FFSDirTree -----------------------------
(* The directory tree of a read-only FFS disk, and where a path leads in it. *)
EXTENDS Naturals, Sequences, SequencesExt

CONSTANTS
  Names,     \* names of one path component, in every spelling that is used
  Fold,      \* [Names -> Names], the upcased form that comparisons go by
  RootIno,   \* FFS_ROOT_INO
  Dir,       \* directories: [inodes -> Seq([name, ino]), ino # 0], as stored
  Paths      \* the paths that are asked for

Entry == [name : Names, ino : Nat]

Inodes == {RootIno} \cup UNION { { Dir[d][e].ino : e \in 1 .. Len(Dir[d]) } : d \in DOMAIN Dir }

ASSUME DiskAssumption ==
  /\ Fold \in [Names -> Names]
  /\ DOMAIN Dir \subseteq Nat \ {0} /\ RootIno \in DOMAIN Dir
  /\ \A d \in DOMAIN Dir : Dir[d] \in Seq(Entry)
  /\ \A d \in DOMAIN Dir : \A e \in 1 .. Len(Dir[d]) : Dir[d][e].ino # 0
  /\ Paths \subseteq Seq(Names)

NoIno == 0

SameName(a, b) == Fold[a] = Fold[b]

(* The entries of a directory that carry a name, and the inode of the first *)
Matches(d, n) == { e \in 1 .. Len(Dir[d]) : SameName(Dir[d][e].name, n) }
FirstMatch(d, n) == CHOOSE e \in Matches(d, n) : \A x \in Matches(d, n) : e <= x
Find(d, n) == IF Matches(d, n) = {} THEN NoIno ELSE Dir[d][FirstMatch(d, n)].ino

IsDir(ino) == ino \in DOMAIN Dir

(* The inode a path leads to from a directory: NoIno when there is none. *)
Resolve(start, path) ==
  LET at[k \in 0 .. Len(path)] ==
        IF k = 0 THEN start
        ELSE IF IsDir(at[k - 1]) THEN Find(at[k - 1], path[k]) ELSE NoIno
  IN at[Len(path)]
=============================================================================
