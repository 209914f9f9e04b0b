---------------------------- MODULE FFSDirectory ----------------------------
(* Enumeration of a directory: FFSQueryDirectory and FFSProcessDirEntry.    *)
(* Queries on one file object share its CCB, of which they write the search *)
(* pattern and the position; they hold the directory's MainResource, but    *)
(* only shared, so queries of an asynchronous handle run side by side.      *)
EXTENDS Integers, Sequences, FiniteSets, SequencesExt

CONSTANTS
  Queries,        \* the IRPs
  Directories,    \* contents of the directory: [entries, at, size]
  Requests,       \* what callers ask for
  NoPattern, Raw, \* DirectorySearchPattern.Buffer null, and not filled in yet
  ULongs          \* how many values a ULONG has

(* An entry has d_ino, a name, its d_reclen and the room it takes in the    *)
(* buffer, InfoLength + NameLength - 2.  at[i] is the offset of the i-th    *)
(* entry, where the one before it ends; the last is where they all end.     *)
(* "All DIRBLKSIZ bytes in a directory block are claimed by the directory   *)
(* entries" (src/dir.h:67): they end where the directory does, and each has *)
(* 12 bytes or more.  Or zeros follow, enough for an entry, which stand as  *)
(* one of no length.  A size fits a ULONG (MAXDIRSIZE).                     *)
WellFormed(d) ==
  /\ Len(d.entries) \in Nat /\ DOMAIN d.entries = 1 .. Len(d.entries) /\ d.size \in 0 .. ULongs - 1
  /\ d.at \in [1 .. Len(d.entries) + 1 -> Nat] /\ d.at[1] = 0 /\ d.at[Len(d.entries) + 1] <= d.size
  /\ \A i \in DOMAIN d.entries :
       /\ d.entries[i].ino \in Nat /\ d.entries[i].need \in Nat \ {0}
       /\ d.entries[i].reclen \in Nat \ (1 .. 11)
       /\ d.entries[i].reclen = 0 => d.entries[i].ino = 0 /\ i = Len(d.entries)
       /\ d.at[i + 1] = d.at[i] + d.entries[i].reclen
       /\ \A j \in i + 1 .. Len(d.entries) + 1 : d.at[i] + d.entries[i].reclen <= d.at[j]
  /\ \/ d.at[Len(d.entries) + 1] = d.size
     \/ /\ Len(d.entries) > 0 /\ d.entries[Len(d.entries)].reclen = 0
        /\ d.at[Len(d.entries) + 1] + 12 <= d.size

(* The I/O manager sends no buffer that the shortest entry does not fit.    *)
ASSUME DirectoryAssumption ==
  /\ ULongs \in Nat
  /\ \A d \in Directories : WellFormed(d)
  /\ Requests # {}
  /\ \A r \in Requests : {r.restart, r.single, r.byIndex} \subseteq BOOLEAN /\ r.room \in Nat \ {0}

(* No name is one of these. *)
ASSUME PatternAssumption ==
  /\ NoPattern # Raw
  /\ \A p \in {NoPattern, Raw} :
       /\ p # "*" /\ \A r \in Requests : r.name # p
       /\ \A d \in Directories : \A i \in DOMAIN d.entries : d.entries[i].name # p

VARIABLES
  dir,      \* the directory, on disk
  pattern,  \* Ccb->DirectorySearchPattern
  current,  \* Ccb->CurrentByteOffset
  query,    \* [Queries -> the locals of FFSQueryDirectory]
  given,    \* history: the offsets of the entries some query has put in its buffer
  since,    \* history: those that callers got since a scan began
  calm,     \* history: no two queries overlapped since it began
  torn      \* history: the pattern was used half-made, or made twice

vars == <<dir, pattern, current, query, given, since, calm, torn>>
-----------------------------------------------------------------------------
(* The directory *)

Entries == dir.entries

At == dir.at
EntryAt(o) == Entries[CHOOSE i \in DOMAIN Entries : At[i] = o]
Offsets == { At[i] : i \in DOMAIN Entries }
Boundaries == Offsets \cup {At[Len(Entries) + 1]}

(* FsRtlIsNameInExpression or RtlCompareUnicodeString: a pattern that is    *)
(* not filled in matches anything or nothing.                               *)
Matches(p, n) == p = "*" \/ p = n
MayMatch(p, n) == IF p = Raw THEN BOOLEAN ELSE {Matches(p, n)}

(* The entries that a query for p has to return *)
Wanted(p) == { o \in Offsets : EntryAt(o).ino # 0 /\ Matches(p, EntryAt(o).name) }

(* Mistaken: the least that an entry takes is kept free. *)
DirEnd_LeastEntry(base) == (dir.size - base - 12) % ULongs
(* dwSize, a difference of ULONGs, which wraps for less than 10 bytes:      *)
(* sizeof(FFS_DIR_ENTRY) - FFS_NAME_LEN + 1 is 10.                          *)
DirEnd(base) == (dir.size - base - 10) % ULongs
-----------------------------------------------------------------------------
(* Queries *)

(* An entry of the buffer: its offset on disk, where it starts in the       *)
(* buffer and its NextEntryOffset.                                          *)
Item == [on : Nat, in : Nat, next : Nat]

(* base is FileIndex, bytes dwBytes, run bRun, used UsedLength, temp dwTemp. *)
Query == [pc : {"idle", "entered", "unnamed", "unfilled", "named", "scan", "done"},
          r : Requests, index : Nat, first : BOOLEAN, base : Nat, bytes : Nat,
          run : BOOLEAN, used : Nat, temp : Nat, out : Seq(Item),
          status : {"unset", "success", "none", "end", "error"}]

Asked(r, i) == [pc |-> "entered", r |-> r, index |-> i, first |-> FALSE, base |-> 0, bytes |-> 0,
                run |-> TRUE, used |-> 0, temp |-> 0, out |-> <<>>, status |-> "unset"]
Idle == [Asked(CHOOSE r \in Requests : TRUE, 0) EXCEPT !.pc = "idle"]

Busy == { q \in Queries : query[q].pc # "idle" }
Held(q) == { query[q].out[i].on : i \in DOMAIN query[q].out }

TypeOK ==
  /\ dir \in Directories
  /\ pattern \in {NoPattern, Raw, "*"} \cup { r.name : r \in Requests }
  /\ current \in Nat
  /\ query \in [Queries -> Query]
  /\ given \subseteq Offsets /\ since \subseteq Offsets
  /\ {calm, torn} \subseteq BOOLEAN

(* The CCB is zeroed when the file object is opened. *)
Init ==
  /\ dir \in Directories
  /\ pattern = NoPattern /\ current = 0
  /\ query = [q \in Queries |-> Idle]
  /\ given = {} /\ since = {} /\ calm = TRUE /\ torn = FALSE

Goes(q, loc) == query' = [query EXCEPT ![q] = loc]
Leaves(q, loc, s) == Goes(q, [loc EXCEPT !.pc = "done", !.status = s])
-----------------------------------------------------------------------------
(* The query gets the resource, shared.  A caller that gives an index has   *)
(* it from an entry, or zero from FileNamesInformation, which has none.     *)
Enter(q) ==
  /\ query[q].pc = "idle"
  /\ \E r \in Requests : \E i \in IF r.byIndex THEN given \cup {0} ELSE {0} : Goes(q, Asked(r, i))
  /\ calm' = (calm /\ Busy = {})
  /\ UNCHANGED <<dir, pattern, current, given, since, torn>>

(* Is there a pattern?  Then a name given now is not looked at. *)
TestPattern(q) ==
  /\ query[q].pc = "entered"
  /\ Goes(q, IF pattern # NoPattern THEN [query[q] EXCEPT !.pc = "named"]
             ELSE [query[q] EXCEPT !.pc = "unnamed", !.first = TRUE])
  /\ UNCHANGED <<dir, pattern, current, given, since, calm, torn>>

(* A buffer for the pattern, in place of one another query put there *)
AllocatePattern(q) ==
  /\ query[q].pc = "unnamed"
  /\ \/ pattern' = Raw /\ Goes(q, [query[q] EXCEPT !.pc = "unfilled"])
     \/ pattern' = NoPattern /\ Leaves(q, query[q], "error")
  /\ torn' = (torn \/ pattern # NoPattern)
  /\ UNCHANGED <<dir, current, given, since, calm>>

(* RtlUpcaseUnicodeString, or * where the caller gave no name *)
FillPattern(q) ==
  /\ query[q].pc = "unfilled"
  /\ \/ pattern' = query[q].r.name /\ Goes(q, [query[q] EXCEPT !.pc = "named"])
     \/ pattern' = pattern /\ Leaves(q, query[q], "error")
  /\ UNCHANGED <<dir, current, given, since, calm, torn>>

FileIndex(q) ==
  IF query[q].r.byIndex THEN query[q].index
  ELSE IF query[q].r.restart \/ query[q].first THEN 0 ELSE current

Anew(q) == query[q].r.byIndex \/ query[q].r.restart \/ query[q].first

(* Where the scan starts; there is no pool, or nothing left, or it starts. *)
Start(q) ==
  /\ query[q].pc = "named"
  /\ LET loc == [query[q] EXCEPT !.base = FileIndex(q), !.index = 0] IN
       \/ Leaves(q, loc, "error")
       \/ loc.base >= dir.size /\ Leaves(q, loc, "end")
       \/ loc.base < dir.size /\ Goes(q, [loc EXCEPT !.pc = "scan"])
  /\ since' = IF Anew(q) THEN {} ELSE since
  /\ calm' = IF Anew(q) THEN Busy = {q} ELSE calm
  /\ UNCHANGED <<dir, pattern, current, given, torn>>
-----------------------------------------------------------------------------
(* The loop *)

Here(q) == query[q].base + query[q].bytes

More(q) == query[q].run /\ query[q].used < query[q].r.room /\ query[q].bytes < DirEnd(query[q].base)

Reads(q) == query[q].pc = "scan" /\ More(q)

Past(q) == Here(q) + EntryAt(Here(q)).reclen

(* Mistaken: an entry that is refused is passed too. *)
Position_Always(q, run) == Past(q)
(* Mistaken: the position stays on the entry that was returned. *)
Position_Stays(q, run) == IF run THEN Here(q) ELSE current
(* Mistaken: entries are taken to be packed. *)
Position_Packed(q, run) == IF run THEN Here(q) + 12 ELSE current
(* Ccb->CurrentByteOffset when the entry has been dealt with *)
Position(q, run) == IF run THEN Past(q) ELSE current

Advanced(q) == [query[q] EXCEPT !.bytes = @ + EntryAt(Here(q)).reclen]

(* FFSReadInode fails, or there is no pool for the name. *)
ReadFails(q) ==
  /\ Reads(q)
  /\ Leaves(q, query[q], "error")
  /\ UNCHANGED <<dir, pattern, current, given, since, calm, torn>>

(* Zeros, which no entry is: the query leaves with the status of the read. *)
Blank(q) ==
  /\ Reads(q) /\ EntryAt(Here(q)).ino = 0 /\ EntryAt(Here(q)).reclen = 0
  /\ Leaves(q, query[q], "success")
  /\ UNCHANGED <<dir, pattern, current, given, since, calm, torn>>

(* A free entry, or one that does not match *)
PassOver(q) ==
  /\ Reads(q) /\ EntryAt(Here(q)).reclen > 0
  /\ EntryAt(Here(q)).ino # 0 => FALSE \in MayMatch(pattern, EntryAt(Here(q)).name)
  /\ current' = Position(q, TRUE)
  /\ Goes(q, Advanced(q))
  /\ torn' = (torn \/ pattern = Raw)
  /\ UNCHANGED <<dir, pattern, given, since, calm>>

Found(q) == /\ Reads(q) /\ EntryAt(Here(q)).ino # 0
            /\ TRUE \in MayMatch(pattern, EntryAt(Here(q)).name)

(* Mistaken: the difference is taken the wrong way round. *)
NextEntryOffset_Backwards(q) == query[q].used - (query[q].used + EntryAt(Here(q)).need)
NextEntryOffset(q) == IF query[q].r.single THEN 0 ELSE EntryAt(Here(q)).need

(* FFSProcessDirEntry puts the entry in the buffer. *)
Return(q) ==
  /\ Found(q)
  /\ query[q].used + EntryAt(Here(q)).need <= query[q].r.room
  /\ LET item == [on |-> Here(q), in |-> query[q].used, next |-> NextEntryOffset(q)]
         loc  == [Advanced(q) EXCEPT !.out = Append(@, item), !.temp = query[q].used,
                                     !.used = @ + EntryAt(Here(q)).need]
     IN  IF query[q].r.single THEN Leaves(q, loc, "success") ELSE Goes(q, loc)
  /\ current' = Position(q, TRUE)
  /\ torn' = (torn \/ pattern = Raw)
  /\ UNCHANGED <<dir, pattern, given, since, calm>>

(* It does not: no room, or the inode cannot be loaded. *)
Refuse(q) ==
  /\ Found(q)
  /\ current' = Position(q, FALSE)
  /\ Goes(q, [query[q] EXCEPT !.run = FALSE])
  /\ torn' = (torn \/ pattern = Raw)
  /\ UNCHANGED <<dir, pattern, given, since, calm>>

(* Mistaken: the chain is left as it is. *)
Ended_AsItIs(q) == query[q].out
(* The buffer with zero written at dwTemp *)
Ended(q) == [ i \in DOMAIN query[q].out |->
                IF query[q].out[i].in = query[q].temp THEN [query[q].out[i] EXCEPT !.next = 0]
                ELSE query[q].out[i] ]

Finish(q) ==
  /\ query[q].pc = "scan" /\ ~ More(q)
  /\ Leaves(q, [query[q] EXCEPT !.out = Ended(q)],
            IF query[q].used > 0 THEN "success" ELSE IF query[q].first THEN "none" ELSE "end")
  /\ UNCHANGED <<dir, pattern, current, given, since, calm, torn>>

(* The resource is released and the IRP completed. *)
Complete(q) ==
  /\ query[q].pc = "done"
  /\ Goes(q, Idle)
  /\ given' = given \cup Held(q)
  /\ since' = IF query[q].status = "success" THEN since \cup Held(q) ELSE since
  /\ UNCHANGED <<dir, pattern, current, calm, torn>>

Step(q) ==
  \/ TestPattern(q) \/ AllocatePattern(q) \/ FillPattern(q) \/ Start(q)
  \/ ReadFails(q) \/ Blank(q) \/ PassOver(q) \/ Return(q) \/ Refuse(q) \/ Finish(q) \/ Complete(q)

Next == \E q \in Queries : Enter(q) \/ Step(q)

Spec == Init /\ [][Next]_vars
-----------------------------------------------------------------------------
(* Properties *)

(* However queries interleave, Ccb->CurrentByteOffset and the FileIndex a   *)
(* query runs from are where an entry starts or the last one ends, and what *)
(* the loop reads is an entry: never one from its middle, and nothing       *)
(* behind the last one, which a dwSize that has wrapped would let it read.  *)
PositionIsAnEntry ==
  /\ current \in Boundaries
  /\ \A q \in Busy : /\ query[q].base \in Boundaries /\ Here(q) \in Boundaries
                     /\ Reads(q) => Here(q) \in Offsets

(* Every entry before the position that matches is in some buffer: queries  *)
(* that overlap may return an entry twice, but none is lost between them.   *)
(* An entry is lost only in the buffer of a query that then failed, or when *)
(* the pattern was used before it was filled in (the shared resource does   *)
(* not protect the CCB it is in).                                           *)
NothingSkipped ==
  ~ torn => \A o \in Wanted(pattern) :
              o < current => o \in given \cup UNION { Held(q) : q \in Queries }

(* What a query returns with success can be walked: entries in the order of *)
(* the disk, each NextEntryOffset leads to the next one, and that of the    *)
(* last is zero.  A query that met zeros on disk leaves without ending the  *)
(* chain.                                                                   *)
BufferIsChained ==
  \A q \in Queries : LET out == query[q].out IN
    query[q].pc = "done" /\ query[q].status = "success" =>
      /\ \A i \in 1 .. Len(out) - 1 : out[i].on < out[i + 1].on /\ out[i].in + out[i].next = out[i + 1].in
      /\ out # <<>> => \/ out[Len(out)].next = 0
                       \/ Here(q) \in Offsets /\ EntryAt(Here(q)).reclen = 0

(* STATUS_NO_SUCH_FILE and STATUS_NO_MORE_FILES are true: nothing that      *)
(* matches is left from where the query began, unless an entry was refused, *)
(* for which the code has no status of its own.                             *)
EndIsTheEnd ==
  ~ torn => \A q \in Queries :
    query[q].status \in {"none", "end"} =>
      ~ query[q].run \/ \A o \in Wanted(pattern) : o < query[q].base

(* Queries made one after another return no entry twice in a scan, also     *)
(* when buffers were too small, reads failed, or the scan was restarted     *)
(* with a buffer that held nothing.                                         *)
EachOnce ==
  [][\A q \in Queries : Complete(q) /\ calm => Held(q) \cap since = {}]_vars
=============================================================================
