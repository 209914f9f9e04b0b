------------------------- MODULE FFSDirectoryProofs -------------------------
(* Theorems about FFSDirectory, for every directory as FFS writes it (its   *)
(* entries fill it, or zeros follow them), any requests, any number of      *)
(* queries and any width of a ULONG that directory sizes fit.               *)
EXTENDS FFSDirectory, TLAPS

-----------------------------------------------------------------------------
(* The inductive invariant *)

(* A query that has not yet begun to scan *)
Early == {"idle", "entered", "unnamed", "unfilled", "named"}

(* An entry in use *)
InUse(o) == EntryAt(o).ino # 0

(* What some query has put, or given, in a buffer *)
Out == given \cup UNION { Held(q) : q \in Queries }

(* What of q's locals is still as the query found it, and where its index   *)
(* is from                                                                  *)
Shape(q) ==
  /\ query[q].pc = "idle" => query[q] = Idle
  /\ query[q].pc \in Early =>
       query[q].base = 0 /\ query[q].bytes = 0 /\ query[q].used = 0 /\ query[q].out = <<>> /\ query[q].run
  /\ query[q].status # "unset" => query[q].pc = "done"
  /\ query[q].index \in given \cup {0}

(* A scan has something to read. *)
Within(q) == query[q].pc = "scan" => query[q].base < dir.size

Placed(q) ==
  /\ query[q].base \in Boundaries /\ Here(q) \in Boundaries
  /\ Held(q) \subseteq Offsets /\ Within(q)

(* The buffer of a query that scans: a chain whose last entry is at dwTemp, *)
(* the only one there, and leads to where it is used up to.                 *)
Chain(q) ==
  LET out == query[q].out IN
    \A i \in 1 .. Len(out) - 1 : out[i].on < out[i + 1].on /\ out[i].in + out[i].next = out[i + 1].in

Chaining(q) ==
  LET out == query[q].out IN
    query[q].pc = "scan" =>
      /\ Chain(q)
      /\ \A i \in 1 .. Len(out) - 1 : out[i].in < query[q].temp
      /\ IF out = <<>> THEN query[q].used = 0
         ELSE /\ out[Len(out)].in = query[q].temp /\ out[Len(out)].next > 0
              /\ query[q].used = query[q].temp + out[Len(out)].next
              /\ out[Len(out)].on < Here(q)
      /\ query[q].r.single => out = <<>>

Chained(q) ==
  LET out == query[q].out IN
    query[q].pc = "done" /\ query[q].status = "success" =>
      /\ Chain(q)
      /\ out # <<>> => \/ out[Len(out)].next = 0
                       \/ Here(q) \in Offsets /\ EntryAt(Here(q)).reclen = 0

(* Nothing has been passed, and what found nothing had nothing to find. *)
NothingReturned ==
  /\ current = 0 /\ given = {}
  /\ \A q \in Queries :
       /\ query[q].base = 0 /\ query[q].bytes = 0 /\ query[q].out = <<>> /\ query[q].run
       /\ query[q].status \in {"none", "end"} => \A o \in Offsets : ~ InUse(o)

(* So it is before there is a pattern; and only one query makes it. *)
NoPatternYet ==
  /\ pattern = NoPattern => \A q \in Queries : query[q].pc \in {"idle", "entered", "unnamed", "done"}
  /\ \A q \in Queries : query[q].pc = "unfilled" => pattern = Raw
  /\ \A p, q \in Queries : query[p].pc = "unfilled" /\ query[q].pc = "unfilled" => p = q
  /\ pattern \in {NoPattern, Raw} => NothingReturned

(* No entry wanted that lies before b is missing. *)
Covered(b) == \A o \in Wanted(pattern) : o < b => o \in Out

AllCovered ==
  /\ Covered(current)
  /\ \A q \in Queries : Covered(Here(q))
  /\ \A o \in Out : Covered(o)

(* A scan that has found nothing has passed nothing. *)
NothingPassed(q) ==
  query[q].pc = "scan" /\ query[q].used = 0 /\ query[q].run =>
    \A o \in Wanted(pattern) : o < query[q].base \/ Here(q) <= o

(* Nothing is left. *)
Exhausted(q) ==
  query[q].status \in {"none", "end"} =>
    ~ query[q].run \/ \A o \in Wanted(pattern) : o < query[q].base

Together ==
  ~ torn => NoPatternYet /\ AllCovered /\ \A q \in Queries : NothingPassed(q) /\ Exhausted(q)

(* One query after another moves forward. *)
Alone == \A p, q \in Busy : p = q

Forward(q) ==
  /\ query[q].pc = "scan" => \A s \in since : s < query[q].base
  /\ \A o \in Held(q) : o < Here(q) /\ \A s \in since : s < o
  /\ query[q].out # <<>> => current = Here(q)

InTurn == calm => Alone /\ (\A s \in since : s < current) /\ \A q \in Busy : Forward(q)

IInv ==
  /\ TypeOK
  /\ current \in Boundaries
  /\ \A q \in Queries : Shape(q) /\ Placed(q) /\ Chaining(q) /\ Chained(q)
  /\ Together
  /\ InTurn
-----------------------------------------------------------------------------
(* The directory *)

(* The entry at an offset is the one that starts there. *)
LEMMA EntryOf ==
  ASSUME NEW o \in Offsets
  PROVE  \E i \in DOMAIN Entries : At[i] = o /\ EntryAt(o) = Entries[i]
<1>1. \E i \in DOMAIN Entries : At[i] = o  BY DEF Offsets
<1> QED  BY <1>1 DEF EntryAt

(* Nothing starts inside an entry, the next one starts where it ends, and   *)
(* the loop reaches every entry that is in use.                             *)
LEMMA Layout ==
  ASSUME dir \in Directories, NEW o \in Offsets
  PROVE  /\ o \in Nat /\ EntryAt(o).ino \in Nat /\ EntryAt(o).reclen \in Nat
         /\ EntryAt(o).need \in Nat /\ EntryAt(o).need > 0
         /\ o + EntryAt(o).reclen \in Boundaries
         /\ \A p \in Offsets : p <= o \/ o + EntryAt(o).reclen <= p
         /\ InUse(o) => EntryAt(o).reclen > 0 /\ o < dir.size - 10
<1> DEFINE n == Len(dir.entries)
<1>1. WellFormed(dir)  BY DirectoryAssumption
<1>2. PICK i \in DOMAIN Entries : At[i] = o /\ EntryAt(o) = Entries[i]  BY EntryOf
<1>3. n \in Nat /\ DOMAIN Entries = 1 .. n /\ dir.size \in Nat /\ At \in [1 .. n + 1 -> Nat] /\ At[n + 1] <= dir.size
  BY <1>1 DEF WellFormed, Entries, At
<1>4. /\ Entries[i].ino \in Nat /\ Entries[i].need \in Nat \ {0} /\ Entries[i].reclen \in Nat \ (1 .. 11)
      /\ Entries[i].reclen = 0 => Entries[i].ino = 0 /\ i = n
      /\ At[i + 1] = At[i] + Entries[i].reclen
      /\ \A j \in i + 1 .. n + 1 : At[i] + Entries[i].reclen <= At[j]
  BY <1>1 DEF WellFormed, Entries, At
<1> HIDE DEF n
<1>5. \A p \in Offsets : p <= o \/ o + EntryAt(o).reclen <= p
  <2>1. SUFFICES ASSUME NEW j \in DOMAIN Entries  PROVE At[j] <= o \/ o + Entries[i].reclen <= At[j]
    BY <1>2 DEF Offsets
  <2>2. CASE j < i
    <3>1. Entries[j].reclen \in Nat /\ \A k \in j + 1 .. n + 1 : At[j] + Entries[j].reclen <= At[k]
      BY <1>1 DEF WellFormed, Entries, At, n
    <3>2. i \in j + 1 .. n + 1  BY <1>3, <2>2
    <3>3. At[j] \in Nat /\ At[i] \in Nat  BY <1>3
    <3> QED  BY <3>1, <3>2, <3>3, <1>2
  <2>3. CASE j = i  BY <2>3, <1>2, <1>3
  <2>4. CASE j > i
    <3>1. j \in i + 1 .. n + 1  BY <1>3, <2>4
    <3> QED  BY <3>1, <1>4, <1>2
  <2> QED  BY <2>2, <2>3, <2>4, <1>3
<1>6. o + EntryAt(o).reclen \in Boundaries
  <2>1. CASE i = n  BY <2>1, <1>2, <1>3, <1>4 DEF Boundaries, Entries, n
  <2>2. CASE i < n
    <3>1. i + 1 \in DOMAIN Entries  BY <2>2, <1>3
    <3> QED  BY <3>1, <1>2, <1>4 DEF Boundaries, Offsets
  <2> QED  BY <2>1, <2>2, <1>3
<1>7. ASSUME InUse(o)  PROVE EntryAt(o).reclen > 0 /\ o < dir.size - 10
  <2>1. Entries[i].reclen >= 12  BY <1>7, <1>2, <1>4 DEF InUse
  <2>2. At[i] + Entries[i].reclen <= At[n + 1]  BY <1>3, <1>4
  <2>3. o \in Nat /\ At[n + 1] \in Nat /\ At[n + 1] <= dir.size /\ dir.size \in Nat  BY <1>2, <1>3
  <2>4. Entries[i].reclen \in Nat /\ EntryAt(o).reclen = Entries[i].reclen  BY <1>2, <1>4
  <2>5. o + Entries[i].reclen <= At[n + 1]  BY <2>2, <1>2
  <2> QED  BY <2>1, <2>3, <2>4, <2>5
<1>8. /\ o \in Nat /\ EntryAt(o).ino \in Nat /\ EntryAt(o).reclen \in Nat
      /\ EntryAt(o).need \in Nat /\ EntryAt(o).need > 0
  <2>1. o \in Nat  BY <1>2, <1>3
  <2>2. EntryAt(o).ino \in Nat /\ EntryAt(o).reclen \in Nat /\ EntryAt(o).need \in Nat \ {0}
    BY <1>2, <1>4
  <2> QED  BY <2>1, <2>2
<1> QED  BY <1>5, <1>6, <1>7, <1>8

(* Where a scan may begin there is an entry, or zeros enough for one, and   *)
(* what begins far enough from the end is an entry.                         *)
LEMMA Limits ==
  ASSUME dir \in Directories
  PROVE  /\ dir.size \in Nat /\ 0 \in Boundaries /\ Boundaries \subseteq Nat
         /\ \A b \in Boundaries : b < dir.size => b \in Offsets /\ b + 12 <= dir.size
<1> DEFINE n == Len(dir.entries)
<1>1. WellFormed(dir)  BY DirectoryAssumption
<1>3. /\ n \in Nat /\ DOMAIN Entries = 1 .. n /\ dir.size \in Nat
      /\ At \in [1 .. n + 1 -> Nat] /\ At[1] = 0
  BY <1>1 DEF WellFormed, Entries, At
<1>4. \/ At[n + 1] = dir.size
      \/ n > 0 /\ Entries[n].reclen = 0 /\ At[n + 1] + 12 <= dir.size
  BY <1>1 DEF WellFormed, Entries, At
<1>5. Boundaries = Offsets \cup {At[n + 1]}  BY DEF Boundaries, Entries
<1> HIDE DEF n
<1>6. 0 \in Boundaries
  <2>1. CASE n = 0  BY <2>1, <1>3, <1>5
  <2>2. CASE n > 0
    <3>1. 1 \in DOMAIN Entries  BY <2>2, <1>3
    <3> QED  BY <3>1, <1>3, <1>5 DEF Offsets
  <2> QED  BY <2>1, <2>2, <1>3
<1>7. Boundaries \subseteq Nat
  <2>1. \A i \in DOMAIN Entries : At[i] \in Nat  BY <1>3
  <2> QED  BY <2>1, <1>3, <1>5 DEF Offsets
<1>8. At[n + 1] < dir.size => At[n + 1] \in Offsets /\ At[n + 1] + 12 <= dir.size
  <2>1. SUFFICES ASSUME At[n + 1] < dir.size
                 PROVE  At[n + 1] \in Offsets /\ At[n + 1] + 12 <= dir.size
    OBVIOUS
  <2>2. At[n + 1] \in Nat  BY <1>3
  <2>3. n > 0 /\ Entries[n].reclen = 0 /\ At[n + 1] + 12 <= dir.size  BY <2>1, <2>2, <1>3, <1>4
  <2>4. n \in DOMAIN Entries  BY <2>3, <1>3
  <2>5. At[n + 1] = At[n] + Entries[n].reclen  BY <2>4, <1>1 DEF WellFormed, Entries, At
  <2>6. At[n] \in Nat  BY <2>4, <1>3
  <2> QED  BY <2>3, <2>4, <2>5, <2>6 DEF Offsets
<1>9. ASSUME NEW o \in Offsets, o < dir.size
      PROVE  o + 12 <= dir.size
  <2>1. PICK i \in DOMAIN Entries : At[i] = o  BY DEF Offsets
  <2>2. /\ Entries[i].reclen \in Nat \ (1 .. 11) /\ (Entries[i].reclen = 0 => i = n)
        /\ At[i + 1] = At[i] + Entries[i].reclen
        /\ \A j \in i + 1 .. n + 1 : At[i] + Entries[i].reclen <= At[j]
    BY <1>1 DEF WellFormed, Entries, At, n
  <2>3. At[i] \in Nat /\ At[n + 1] \in Nat /\ At[n + 1] <= dir.size /\ n + 1 \in i + 1 .. n + 1
    <3>1. i \in 1 .. n /\ n \in Nat  BY <1>3
    <3>2. i \in 1 .. n + 1 /\ n + 1 \in 1 .. n + 1 /\ n + 1 \in i + 1 .. n + 1  BY <3>1
    <3>3. At[n + 1] <= dir.size  BY <1>1 DEF WellFormed, At, Entries, n
    <3> QED  BY <1>3, <3>2, <3>3
  <2>4. At[i] + Entries[i].reclen <= At[n + 1]  BY <2>2, <2>3
  <2>5. CASE Entries[i].reclen >= 12
    <3>1. /\ Entries[i].reclen \in Nat /\ At[i] \in Nat /\ At[n + 1] \in Nat /\ dir.size \in Nat
          /\ At[n + 1] <= dir.size /\ At[i] + Entries[i].reclen <= At[n + 1]
      BY <1>3, <2>2, <2>3, <2>4
    <3> QED  BY <2>1, <2>5, <3>1
  <2>6. CASE Entries[i].reclen = 0
    <3>1. At[n + 1] = o  BY <2>1, <2>2, <2>3, <2>6
    <3> QED  BY <3>1, <1>8, <1>9
  <2> QED  BY <2>2, <2>5, <2>6
<1> QED  BY <1>3, <1>5, <1>6, <1>7, <1>8, <1>9

(* Where a scan may begin dwSize does not wrap: what the loop has to do     *)
(* with is at least an entry away from the end.                             *)
LEMMA NoWrap ==
  ASSUME dir \in Directories, NEW b \in Boundaries, b < dir.size
  PROVE  DirEnd(b) = dir.size - b - 10
<1>1. b \in Nat /\ dir.size \in Nat /\ b + 12 <= dir.size  BY Limits
<1>2. ULongs \in Nat /\ dir.size < ULongs  BY DirectoryAssumption DEF WellFormed
<1> DEFINE left == dir.size - b - 10
<1>3. left \in Nat /\ left < ULongs  BY <1>1, <1>2
<1> HIDE DEF left
<1>4. left % ULongs = left  BY <1>2, <1>3
<1> QED  BY <1>4 DEF DirEnd, left
-----------------------------------------------------------------------------
(* What the steps do to the locals of the query that takes them *)

(* The locals of the loop are those of m. *)
SameScan(l, m) ==
  /\ l.base = m.base /\ l.bytes = m.bytes /\ (l.run <=> m.run)
  /\ l.used = m.used /\ l.temp = m.temp /\ l.out = m.out

SameRequest(l, m) == l.r = m.r /\ l.index = m.index

(* A step writes only the locals of its query. *)
LEMMA OneQuery ==
  ASSUME query \in [Queries -> Query], NEW q \in Queries, NEW loc, Goes(q, loc)
  PROVE  /\ query'[q] = loc
         /\ \A p \in Queries : p # q => query'[p] = query[p]
         /\ loc \in Query => query' \in [Queries -> Query]
BY DEF Goes

LEMMA AskedIs ==
  ASSUME NEW r \in Requests, NEW i \in Nat
  PROVE  /\ Asked(r, i) \in Query /\ Asked(r, i).pc = "entered" /\ Asked(r, i).index = i
         /\ Asked(r, i).base = 0 /\ Asked(r, i).bytes = 0 /\ Asked(r, i).used = 0 /\ Asked(r, i).out = <<>>
         /\ Asked(r, i).run /\ Asked(r, i).status = "unset"
<1>1. <<>> \in Seq(Item)  OBVIOUS
<1> QED  BY <1>1 DEF Asked, Query

LEMMA IdleIs ==
  /\ Idle \in Query /\ Idle.pc = "idle" /\ Idle.index = 0
  /\ Idle.base = 0 /\ Idle.bytes = 0 /\ Idle.used = 0 /\ Idle.out = <<>>
  /\ Idle.run /\ Idle.status = "unset"
<1> DEFINE r == CHOOSE r \in Requests : TRUE
<1>1. r \in Requests  BY DirectoryAssumption
<1>2. Idle = [Asked(r, 0) EXCEPT !.pc = "idle"]  BY DEF Idle
<1> HIDE DEF r
<1>3. <<>> \in Seq(Item)  OBVIOUS
<1> QED  BY <1>1, <1>2, <1>3 DEF Asked, Query

(* A step of q leaves the directory and the other queries. *)
Only(q) ==
  /\ dir' = dir
  /\ query' \in [Queries -> Query]
  /\ \A p \in Queries : p # q => query'[p] = query[p]

(* A query that leaves *)
LEMMA Leaving ==
  ASSUME query \in [Queries -> Query], dir' = dir, NEW q \in Queries,
         NEW l \in Query, NEW s \in {"success", "none", "end", "error"}, Leaves(q, l, s)
  PROVE  /\ Only(q) /\ SameScan(query'[q], l) /\ SameRequest(query'[q], l)
         /\ query'[q].pc = "done" /\ query'[q].status = s
<1> DEFINE m == [l EXCEPT !.pc = "done", !.status = s]
<1>1. m \in Query /\ m.pc = "done" /\ m.status = s /\ SameScan(m, l) /\ SameRequest(m, l)
  BY DEF Query, SameScan, SameRequest
<1>2. Goes(q, m)  BY DEF Leaves
<1> HIDE DEF m
<1> QED  BY <1>1, <1>2, OneQuery DEF Only

(* One that goes on *)
LEMMA GoingOn ==
  ASSUME query \in [Queries -> Query], dir' = dir, NEW q \in Queries,
         NEW c \in {"unfilled", "named"}, Goes(q, [query[q] EXCEPT !.pc = c])
  PROVE  /\ Only(q) /\ SameScan(query'[q], query[q]) /\ SameRequest(query'[q], query[q])
         /\ query'[q].pc = c /\ query'[q].status = query[q].status
<1> DEFINE l == query[q]
           m == [l EXCEPT !.pc = c]
<1>0. l \in Query  OBVIOUS
<1>1. m \in Query /\ m.pc = c /\ m.status = l.status /\ SameScan(m, l) /\ SameRequest(m, l)
  BY <1>0 DEF Query, SameScan, SameRequest
<1> HIDE DEF m
<1>2. Goes(q, m)  BY DEF m
<1> QED  BY <1>1, <1>2, OneQuery DEF Only

LEMMA Naming ==
  ASSUME query \in [Queries -> Query], dir' = dir, NEW q \in Queries,
         Goes(q, [query[q] EXCEPT !.pc = "unnamed", !.first = TRUE])
  PROVE  /\ Only(q) /\ SameScan(query'[q], query[q]) /\ SameRequest(query'[q], query[q])
         /\ query'[q].pc = "unnamed" /\ query'[q].status = query[q].status
<1> DEFINE l == query[q]
           m == [l EXCEPT !.pc = "unnamed", !.first = TRUE]
<1>0. l \in Query  OBVIOUS
<1>1. m \in Query /\ m.pc = "unnamed" /\ m.status = l.status /\ SameScan(m, l) /\ SameRequest(m, l)
  BY <1>0 DEF Query, SameScan, SameRequest
<1> HIDE DEF m
<1>2. Goes(q, m)  BY DEF m
<1> QED  BY <1>1, <1>2, OneQuery DEF Only

(* One whose scan starts *)
Begun(l, b) == [l EXCEPT !.base = b, !.index = 0]
Scans(l) == [l EXCEPT !.pc = "scan"]

LEMMA Starting ==
  ASSUME NEW l \in Query, NEW b \in Nat
  PROVE  /\ Begun(l, b) \in Query /\ Begun(l, b).base = b /\ Begun(l, b).index = 0
         /\ Begun(l, b).r = l.r /\ Begun(l, b).bytes = l.bytes /\ (Begun(l, b).run <=> l.run)
         /\ Begun(l, b).used = l.used /\ Begun(l, b).temp = l.temp /\ Begun(l, b).out = l.out
         /\ Begun(l, b).status = l.status
BY DEF Begun, Query

LEMMA Scanning ==
  ASSUME NEW l \in Query
  PROVE  /\ Scans(l) \in Query /\ Scans(l).pc = "scan" /\ Scans(l).status = l.status
         /\ SameScan(Scans(l), l) /\ SameRequest(Scans(l), l)
BY DEF Scans, Query, SameScan, SameRequest

LEMMA Advancing ==
  ASSUME NEW l \in Query, NEW n \in Nat, NEW m, m = [l EXCEPT !.bytes = @ + n]
  PROVE  /\ m \in Query /\ m.pc = l.pc /\ m.status = l.status /\ SameRequest(m, l)
         /\ m.base = l.base /\ m.bytes = l.bytes + n /\ (m.run <=> l.run)
         /\ m.used = l.used /\ m.temp = l.temp /\ m.out = l.out
BY SMTT(30) DEF Query, SameRequest

(* The entry goes into the buffer. *)
Filled(l, item, n) == [l EXCEPT !.out = Append(@, item), !.temp = l.used, !.used = @ + n]

LEMMA Filling ==
  ASSUME NEW l \in Query, NEW item \in Item, NEW n \in Nat
  PROVE  LET m == Filled(l, item, n) IN
         /\ m \in Query /\ m.pc = l.pc /\ m.status = l.status /\ SameRequest(m, l)
         /\ m.base = l.base /\ m.bytes = l.bytes /\ (m.run <=> l.run)
         /\ m.used = l.used + n /\ m.temp = l.used /\ m.out = Append(l.out, item)
<1> DEFINE o == Append(l.out, item)
           m == Filled(l, item, n)
<1>1. l.out \in Seq(Item) /\ l.used \in Nat  BY DEF Query
<1>2. o \in Seq(Item)  BY <1>1
<1>3. m = [l EXCEPT !.out = o, !.temp = l.used, !.used = @ + n]  BY DEF Query, Filled
<1> HIDE DEF o, m
<1>4. l.used + n \in Nat  BY <1>1
<1>5. m \in Query  BY <1>1, <1>2, <1>3, <1>4 DEF Query
<1>6. /\ m.pc = l.pc /\ m.status = l.status /\ SameRequest(m, l)
      /\ m.base = l.base /\ m.bytes = l.bytes /\ (m.run <=> l.run)
      /\ m.used = l.used + n /\ m.temp = l.used /\ m.out = o
  BY <1>3 DEF Query, SameRequest
<1> QED  BY <1>5, <1>6 DEF o, m

LEMMA Refusing ==
  ASSUME NEW l \in Query, NEW m, m = [l EXCEPT !.run = FALSE]
  PROVE  /\ m \in Query /\ m.pc = l.pc /\ m.status = l.status /\ SameRequest(m, l)
         /\ m.base = l.base /\ m.bytes = l.bytes /\ ~ m.run
         /\ m.used = l.used /\ m.temp = l.temp /\ m.out = l.out
BY DEF Query, SameRequest

LEMMA Rewriting ==
  ASSUME NEW l \in Query, NEW o \in Seq(Item), NEW m, m = [l EXCEPT !.out = o]
  PROVE  /\ m \in Query /\ m.pc = l.pc /\ m.status = l.status /\ SameRequest(m, l)
         /\ m.base = l.base /\ m.bytes = l.bytes /\ (m.run <=> l.run)
         /\ m.used = l.used /\ m.temp = l.temp /\ m.out = o
BY DEF Query, SameRequest

LEMMA EnterEffect ==
  ASSUME TypeOK, NEW q \in Queries, Enter(q)
  PROVE  LET m == query'[q] IN
           /\ Only(q)
           /\ m.pc = "entered" /\ m.status = "unset" /\ m.index \in given \cup {0}
           /\ m.base = 0 /\ m.bytes = 0 /\ m.used = 0 /\ m.out = <<>> /\ m.run
<1>1. PICK r \in Requests, i \in given \cup {0} : Goes(q, Asked(r, i))  BY DEF Enter
<1>2. given \cup {0} \subseteq Nat  BY Limits DEF TypeOK, Boundaries
<1>3. i \in Nat  BY <1>2
<1> QED  BY <1>1, <1>3, OneQuery, AskedIs DEF TypeOK, Only, Enter

LEMMA TestPatternEffect ==
  ASSUME TypeOK, NEW q \in Queries, TestPattern(q)
  PROVE  LET m == query'[q] IN
           /\ Only(q) /\ SameScan(m, query[q]) /\ SameRequest(m, query[q])
           /\ m.status = query[q].status
           /\ m.pc = IF pattern # NoPattern THEN "named" ELSE "unnamed"
<1>1. query[q] \in Query /\ query \in [Queries -> Query]  BY DEF TypeOK
<1>2. CASE pattern # NoPattern
  BY <1>1, <1>2, GoingOn, OneQuery DEF TestPattern, Only
<1>3. CASE pattern = NoPattern
  BY <1>1, <1>3, Naming, OneQuery DEF TestPattern, Only
<1> QED  BY <1>2, <1>3

LEMMA AllocatePatternEffect ==
  ASSUME TypeOK, NEW q \in Queries, AllocatePattern(q)
  PROVE  LET m == query'[q] IN
           /\ Only(q) /\ SameScan(m, query[q]) /\ SameRequest(m, query[q])
           /\ \/ m.pc = "unfilled" /\ m.status = query[q].status /\ pattern' = Raw
              \/ m.pc = "done" /\ m.status = "error" /\ pattern' = NoPattern
<1>1. query[q] \in Query /\ query \in [Queries -> Query]  BY DEF TypeOK
<1> QED  BY <1>1, GoingOn, Leaving, OneQuery DEF AllocatePattern, Leaves, Only

LEMMA FillPatternEffect ==
  ASSUME TypeOK, NEW q \in Queries, FillPattern(q)
  PROVE  LET m == query'[q] IN
           /\ Only(q) /\ SameScan(m, query[q]) /\ SameRequest(m, query[q])
           /\ \/ m.pc = "named" /\ m.status = query[q].status /\ pattern' = query[q].r.name
              \/ m.pc = "done" /\ m.status = "error" /\ pattern' = pattern
<1>1. query[q] \in Query /\ query \in [Queries -> Query]  BY DEF TypeOK
<1> QED  BY <1>1, GoingOn, Leaving, OneQuery DEF FillPattern, Leaves, Only

LEMMA StartEffect ==
  ASSUME TypeOK, NEW q \in Queries, Start(q)
  PROVE  LET m == query'[q] IN
           /\ Only(q) /\ m.r = query[q].r /\ m.index = 0
           /\ m.base = FileIndex(q) /\ m.bytes = query[q].bytes /\ (m.run <=> query[q].run)
           /\ m.used = query[q].used /\ m.temp = query[q].temp /\ m.out = query[q].out
           /\ \/ m.pc = "done" /\ m.status = "error"
              \/ m.pc = "done" /\ m.status = "end" /\ m.base >= dir.size
              \/ m.pc = "scan" /\ m.status = query[q].status /\ m.base < dir.size
<1>1. query[q] \in Query /\ query \in [Queries -> Query] /\ current \in Nat  BY DEF TypeOK
<1>2. FileIndex(q) \in Nat  BY <1>1 DEF FileIndex, Query
<1> DEFINE loc == Begun(query[q], FileIndex(q))
           scn == Scans(loc)
<1>3. \/ Leaves(q, loc, "error")
      \/ loc.base >= dir.size /\ Leaves(q, loc, "end")
      \/ loc.base < dir.size /\ Goes(q, scn)
  BY DEF Start, Begun, Scans
<1>4. dir' = dir  BY DEF Start
<1>7. /\ loc \in Query
      /\ loc.base = FileIndex(q) /\ loc.index = 0 /\ loc.r = query[q].r /\ loc.bytes = query[q].bytes
      /\ (loc.run <=> query[q].run) /\ loc.used = query[q].used /\ loc.temp = query[q].temp
      /\ loc.out = query[q].out /\ loc.status = query[q].status
      /\ scn \in Query /\ scn.pc = "scan" /\ SameScan(scn, loc) /\ SameRequest(scn, loc)
      /\ scn.status = loc.status
  BY <1>1, <1>2, Starting, Scanning
<1> HIDE DEF loc, scn
<1>8. CASE Leaves(q, loc, "error")
  BY <1>1, <1>4, <1>7, <1>8, Leaving DEF SameScan, SameRequest
<1>9. CASE loc.base >= dir.size /\ Leaves(q, loc, "end")
  BY <1>1, <1>4, <1>7, <1>9, Leaving DEF SameScan, SameRequest
<1>10. CASE loc.base < dir.size /\ Goes(q, scn)
  <2>1. query'[q] = scn /\ Only(q)  BY <1>1, <1>4, <1>7, <1>10, OneQuery DEF Only
  <2> QED  BY <1>7, <1>10, <2>1 DEF SameScan, SameRequest
<1> QED  BY <1>3, <1>8, <1>9, <1>10

(* The loop reads where an entry starts. *)
LEMMA ReadsAnEntry ==
  ASSUME TypeOK, NEW q \in Queries, Placed(q), Reads(q)
  PROVE  Here(q) \in Offsets
<1>1. query[q] \in Query /\ dir \in Directories  BY DEF TypeOK
<1>2. query[q].base \in Nat /\ query[q].bytes \in Nat  BY <1>1 DEF Query
<1>3. query[q].bytes < dir.size - query[q].base - 10  BY <1>1, NoWrap DEF Reads, More, Placed, Within
<1>4. Here(q) < dir.size  BY <1>1, <1>2, <1>3, Limits DEF Here
<1> QED  BY <1>1, <1>4, Limits DEF Placed

LEMMA ReadFailsEffect ==
  ASSUME TypeOK, NEW q \in Queries, ReadFails(q)
  PROVE  LET m == query'[q] IN
           /\ Only(q) /\ SameScan(m, query[q]) /\ SameRequest(m, query[q])
           /\ m.pc = "done" /\ m.status = "error"
<1>1. query[q] \in Query /\ query \in [Queries -> Query]  BY DEF TypeOK
<1> QED  BY <1>1, Leaving, OneQuery DEF ReadFails, Leaves, Only

LEMMA BlankEffect ==
  ASSUME TypeOK, NEW q \in Queries, Blank(q)
  PROVE  LET m == query'[q] IN
           /\ Only(q) /\ SameScan(m, query[q]) /\ SameRequest(m, query[q])
           /\ m.pc = "done" /\ m.status = "success"
<1>1. query[q] \in Query /\ query \in [Queries -> Query]  BY DEF TypeOK
<1> QED  BY <1>1, Leaving, OneQuery DEF Blank, Leaves, Only

LEMMA PassOverEffect ==
  ASSUME TypeOK, NEW q \in Queries, Placed(q), PassOver(q)
  PROVE  LET m == query'[q] IN
           /\ Only(q) /\ SameRequest(m, query[q])
           /\ m.base = query[q].base /\ m.bytes = query[q].bytes + EntryAt(Here(q)).reclen
           /\ (m.run <=> query[q].run)
           /\ m.used = query[q].used /\ m.temp = query[q].temp /\ m.out = query[q].out
           /\ m.pc = "scan" /\ m.status = query[q].status
           /\ current' = Past(q)
<1>1. query[q] \in Query /\ query \in [Queries -> Query] /\ dir \in Directories  BY DEF TypeOK
<1>2. Here(q) \in Offsets  BY ReadsAnEntry DEF PassOver
<1>3. EntryAt(Here(q)).reclen \in Nat  BY <1>1, <1>2, Layout
<1>4. /\ Advanced(q) \in Query /\ Advanced(q).pc = query[q].pc /\ Advanced(q).status = query[q].status
      /\ SameRequest(Advanced(q), query[q])
      /\ Advanced(q).base = query[q].base /\ Advanced(q).bytes = query[q].bytes + EntryAt(Here(q)).reclen
      /\ (Advanced(q).run <=> query[q].run)
      /\ Advanced(q).used = query[q].used /\ Advanced(q).temp = query[q].temp
      /\ Advanced(q).out = query[q].out
  BY <1>1, <1>3, Advancing DEF Advanced
<1>5. Goes(q, Advanced(q)) /\ dir' = dir /\ query[q].pc = "scan" /\ current' = Past(q)
  BY DEF PassOver, Reads, Position
<1>6. query'[q] = Advanced(q) /\ Only(q)  BY <1>1, <1>4, <1>5, OneQuery DEF Only
<1> QED  BY <1>4, <1>5, <1>6

LEMMA RefuseEffect ==
  ASSUME TypeOK, NEW q \in Queries, Refuse(q)
  PROVE  LET m == query'[q] IN
           /\ Only(q) /\ SameRequest(m, query[q])
           /\ m.base = query[q].base /\ m.bytes = query[q].bytes /\ ~ m.run
           /\ m.used = query[q].used /\ m.temp = query[q].temp /\ m.out = query[q].out
           /\ m.pc = "scan" /\ m.status = query[q].status
           /\ current' = current
<1>1. query[q] \in Query /\ query \in [Queries -> Query]  BY DEF TypeOK
<1> DEFINE m == [query[q] EXCEPT !.run = FALSE]
<1>2. Goes(q, m) /\ dir' = dir /\ query[q].pc = "scan" /\ current' = current
  BY DEF Refuse, Found, Reads, Position
<1>3. m = [query[q] EXCEPT !.run = FALSE]  OBVIOUS
<1> HIDE DEF m
<1>4. /\ m \in Query /\ m.pc = query[q].pc /\ m.status = query[q].status /\ SameRequest(m, query[q])
      /\ m.base = query[q].base /\ m.bytes = query[q].bytes /\ ~ m.run
      /\ m.used = query[q].used /\ m.temp = query[q].temp /\ m.out = query[q].out
  BY <1>1, <1>3, Refusing
<1>5. query'[q] = m /\ Only(q)  BY <1>1, <1>2, <1>4, OneQuery DEF Only
<1> QED  BY <1>2, <1>4, <1>5

(* What Return appends to the buffer *)
NewItem(q) == [on |-> Here(q), in |-> query[q].used, next |-> NextEntryOffset(q)]

LEMMA ReturnEffect ==
  ASSUME TypeOK, NEW q \in Queries, Placed(q), Return(q)
  PROVE  LET m == query'[q] IN
           /\ Only(q) /\ SameRequest(m, query[q]) /\ NewItem(q) \in Item
           /\ m.base = query[q].base /\ m.bytes = query[q].bytes + EntryAt(Here(q)).reclen
           /\ (m.run <=> query[q].run)
           /\ m.used = query[q].used + EntryAt(Here(q)).need /\ m.temp = query[q].used
           /\ m.out = Append(query[q].out, NewItem(q))
           /\ IF query[q].r.single THEN m.pc = "done" /\ m.status = "success"
              ELSE m.pc = "scan" /\ m.status = query[q].status
           /\ current' = Past(q)
<1> DEFINE loc == Filled(Advanced(q), NewItem(q), EntryAt(Here(q)).need)
<1>1. query[q] \in Query /\ query \in [Queries -> Query] /\ dir \in Directories  BY DEF TypeOK
<1>2. Here(q) \in Offsets /\ query[q].pc = "scan"  BY ReadsAnEntry DEF Return, Found, Reads
<1>3. EntryAt(Here(q)).reclen \in Nat /\ EntryAt(Here(q)).need \in Nat /\ Here(q) \in Nat
  BY <1>1, <1>2, Layout
<1>4. /\ Advanced(q) \in Query /\ Advanced(q).pc = "scan" /\ Advanced(q).status = query[q].status
      /\ SameRequest(Advanced(q), query[q])
      /\ Advanced(q).base = query[q].base /\ Advanced(q).bytes = query[q].bytes + EntryAt(Here(q)).reclen
      /\ (Advanced(q).run <=> query[q].run)
      /\ Advanced(q).used = query[q].used /\ Advanced(q).temp = query[q].temp
      /\ Advanced(q).out = query[q].out
  BY <1>1, <1>2, <1>3, Advancing DEF Advanced
<1>5. NewItem(q) \in Item
  <2>1. NextEntryOffset(q) \in Nat  BY <1>3 DEF NextEntryOffset
  <2>2. query[q].used \in Nat  BY <1>1 DEF Query
  <2> QED  BY <2>1, <2>2, <1>3 DEF NewItem, Item
<1>7. /\ IF query[q].r.single THEN Leaves(q, loc, "success") ELSE Goes(q, loc)
      /\ dir' = dir /\ current' = Past(q)
  BY <1>4 DEF Return, NewItem, Position, Filled
<1> HIDE DEF loc
<1>6. /\ loc \in Query /\ loc.pc = "scan" /\ loc.status = query[q].status
      /\ SameRequest(loc, query[q])
      /\ loc.base = query[q].base /\ loc.bytes = query[q].bytes + EntryAt(Here(q)).reclen
      /\ (loc.run <=> query[q].run)
      /\ loc.used = query[q].used + EntryAt(Here(q)).need /\ loc.temp = query[q].used
      /\ loc.out = Append(query[q].out, NewItem(q))
  <2>1. /\ loc \in Query /\ loc.pc = Advanced(q).pc /\ loc.status = Advanced(q).status
        /\ SameRequest(loc, Advanced(q))
        /\ loc.base = Advanced(q).base /\ loc.bytes = Advanced(q).bytes /\ (loc.run <=> Advanced(q).run)
        /\ loc.used = Advanced(q).used + EntryAt(Here(q)).need /\ loc.temp = Advanced(q).used
        /\ loc.out = Append(Advanced(q).out, NewItem(q))
    BY <1>3, <1>4, <1>5, Filling DEF loc
  <2> QED  BY <2>1, <1>4 DEF SameRequest
<1>8. CASE query[q].r.single
  BY <1>1, <1>5, <1>6, <1>7, <1>8, Leaving DEF SameScan, SameRequest
<1>9. CASE ~ query[q].r.single
  BY <1>1, <1>5, <1>6, <1>7, <1>9, OneQuery DEF Only
<1> QED  BY <1>8, <1>9

(* The offsets stay, and the last NextEntryOffset becomes zero. *)
LEMMA EndedIs ==
  ASSUME NEW q \in Queries, query[q] \in Query
  PROVE  LET out == query[q].out IN
           /\ Ended(q) \in Seq(Item) /\ Len(Ended(q)) = Len(out) /\ DOMAIN Ended(q) = DOMAIN out
           /\ \A i \in DOMAIN out :
                /\ Ended(q)[i].on = out[i].on /\ Ended(q)[i].in = out[i].in
                /\ Ended(q)[i].next = IF out[i].in = query[q].temp THEN 0 ELSE out[i].next
<1> DEFINE out == query[q].out
<1>1. out \in Seq(Item)  BY DEF Query
<1>2. \A i \in DOMAIN out : out[i] \in Item  BY <1>1
<1>3. /\ DOMAIN Ended(q) = DOMAIN out
      /\ \A i \in DOMAIN out : Ended(q)[i] = IF out[i].in = query[q].temp THEN [out[i] EXCEPT !.next = 0] ELSE out[i]
  BY DEF Ended
<1>4. \A i \in DOMAIN out :
        /\ Ended(q)[i] \in Item
        /\ Ended(q)[i].on = out[i].on /\ Ended(q)[i].in = out[i].in
        /\ Ended(q)[i].next = IF out[i].in = query[q].temp THEN 0 ELSE out[i].next
  <2>1. SUFFICES ASSUME NEW i \in DOMAIN out
                 PROVE  /\ Ended(q)[i] \in Item
                        /\ Ended(q)[i].on = out[i].on /\ Ended(q)[i].in = out[i].in
                        /\ Ended(q)[i].next = IF out[i].in = query[q].temp THEN 0 ELSE out[i].next
    OBVIOUS
  <2>2. [out[i] EXCEPT !.next = 0] \in Item /\ [out[i] EXCEPT !.next = 0].on = out[i].on
        /\ [out[i] EXCEPT !.next = 0].in = out[i].in /\ [out[i] EXCEPT !.next = 0].next = 0
    BY <1>2 DEF Item
  <2> HIDE DEF out
  <2> QED  BY <1>2, <1>3, <2>2
<1>5. Len(out) \in Nat /\ DOMAIN out = 1 .. Len(out)  BY <1>1
<1>6. Ended(q) \in [1 .. Len(out) -> Item]
  <2>1. Ended(q) = [i \in 1 .. Len(out) |-> Ended(q)[i]]  BY <1>5 DEF Ended
  <2> QED  BY <2>1, <1>4, <1>5
<1>7. Ended(q) \in Seq(Item)  BY <1>5, <1>6
<1>8. Len(Ended(q)) = Len(out)  BY <1>3, <1>5, <1>7
<1> QED  BY <1>3, <1>4, <1>7, <1>8

LEMMA FinishEffect ==
  ASSUME TypeOK, NEW q \in Queries, Finish(q)
  PROVE  LET m == query'[q] IN
           /\ Only(q) /\ SameRequest(m, query[q])
           /\ m.base = query[q].base /\ m.bytes = query[q].bytes /\ (m.run <=> query[q].run)
           /\ m.used = query[q].used /\ m.temp = query[q].temp /\ m.out = Ended(q)
           /\ m.pc = "done" /\ m.status \in {"success", "none", "end"}
           /\ m.status \in {"none", "end"} => ~ query[q].used > 0
<1> DEFINE loc == [query[q] EXCEPT !.out = Ended(q)]
           s == IF query[q].used > 0 THEN "success" ELSE IF query[q].first THEN "none" ELSE "end"
<1>1. query[q] \in Query /\ query \in [Queries -> Query]  BY DEF TypeOK
<1>2. Leaves(q, loc, s) /\ dir' = dir  BY DEF Finish
<1>3. s \in {"success", "none", "end"} /\ (s \in {"none", "end"} => ~ query[q].used > 0)  OBVIOUS
<1>4. /\ loc \in Query /\ SameRequest(loc, query[q])
      /\ loc.base = query[q].base /\ loc.bytes = query[q].bytes /\ (loc.run <=> query[q].run)
      /\ loc.used = query[q].used /\ loc.temp = query[q].temp /\ loc.out = Ended(q)
  <2>1. loc = [query[q] EXCEPT !.out = Ended(q)]  OBVIOUS
  <2> HIDE DEF loc
  <2>2. Ended(q) \in Seq(Item)  BY <1>1, EndedIs
  <2> QED  BY <1>1, <2>1, <2>2, Rewriting
<1> HIDE DEF loc, s
<1> QED  BY <1>1, <1>2, <1>3, <1>4, Leaving DEF SameScan, SameRequest

LEMMA CompleteEffect ==
  ASSUME TypeOK, NEW q \in Queries, Complete(q)
  PROVE  Only(q) /\ query'[q] = Idle
BY OneQuery, IdleIs DEF TypeOK, Complete, Only
-----------------------------------------------------------------------------
(* What a step leaves alone *)

LEMMA OneAtATime ==
  ASSUME TypeOK, NEW q \in Queries, Placed(q), Enter(q) \/ Step(q)
  PROVE  Only(q)
BY EnterEffect, TestPatternEffect, AllocatePatternEffect, FillPatternEffect, StartEffect, ReadFailsEffect,
   BlankEffect, PassOverEffect, ReturnEffect, RefuseEffect, FinishEffect, CompleteEffect DEF Step

LEMMA Frame ==
  ASSUME NEW q \in Queries, Only(q)
  PROVE  /\ Offsets' = Offsets /\ Boundaries' = Boundaries /\ \A o : EntryAt(o)' = EntryAt(o)
         /\ \A p \in Queries : p # q => Here(p)' = Here(p) /\ Held(p)' = Held(p)
BY DEF Only, Offsets, Boundaries, EntryAt, Entries, At, Here, Held

LEMMA GivenGrows ==
  ASSUME NEW q \in Queries, Enter(q) \/ Step(q)
  PROVE  given \subseteq given'
BY DEF Enter, Step, TestPattern, AllocatePattern, FillPattern, Start, ReadFails, Blank, PassOver, Return,
       Refuse, Finish, Complete

(* The entries in the buffer after each kind of step *)
LEMMA HeldSame ==
  ASSUME NEW q \in Queries, query'[q].out = query[q].out
  PROVE  Held(q)' = Held(q)
BY DEF Held

LEMMA HeldNone ==
  ASSUME NEW q \in Queries, query'[q].out = <<>>
  PROVE  Held(q)' = {}
BY DEF Held

LEMMA HeldMore ==
  ASSUME NEW q \in Queries, query[q] \in Query, NEW item \in Item, query'[q].out = Append(query[q].out, item)
  PROVE  Held(q)' = Held(q) \cup {item.on}
<1> DEFINE out == query[q].out
           new == query'[q].out
<1>1. out \in Seq(Item)  BY DEF Query
<1>2. /\ Len(out) \in Nat /\ DOMAIN out = 1 .. Len(out) /\ DOMAIN new = 1 .. Len(out) + 1
      /\ \A i \in 1 .. Len(out) : new[i] = out[i]
      /\ new[Len(out) + 1] = item
  BY <1>1
<1>3. Held(q) = { out[i].on : i \in DOMAIN out } /\ Held(q)' = { new[i].on : i \in DOMAIN new }
  BY DEF Held
<1> HIDE DEF out, new
<1>4. \A i \in DOMAIN new : new[i].on \in Held(q) \cup {item.on}
  <2>1. TAKE i \in DOMAIN new
  <2>2. CASE i = Len(out) + 1  BY <2>2, <1>2
  <2>3. CASE i # Len(out) + 1
    <3>1. i \in DOMAIN out /\ new[i] = out[i]  BY <2>3, <1>2
    <3> QED  BY <3>1, <1>3
  <2> QED  BY <2>2, <2>3
<1>5. \A i \in DOMAIN out : out[i].on \in Held(q)'
  <2>1. \A i \in DOMAIN out : i \in DOMAIN new /\ new[i] = out[i]  BY <1>2
  <2> QED  BY <2>1, <1>3
<1>6. item.on \in Held(q)'
  <2>1. Len(out) + 1 \in DOMAIN new  BY <1>2
  <2> QED  BY <2>1, <1>2, <1>3
<1> QED  BY <1>3, <1>4, <1>5, <1>6

LEMMA HeldEnded ==
  ASSUME NEW q \in Queries, query[q] \in Query, query'[q].out = Ended(q)
  PROVE  Held(q)' = Held(q)
<1>1. DOMAIN query'[q].out = DOMAIN query[q].out /\ \A i \in DOMAIN query[q].out : query'[q].out[i].on = query[q].out[i].on
  BY EndedIs
<1> QED  BY <1>1 DEF Held

(* Where the loop stands *)
LEMMA HereSame ==
  ASSUME NEW q \in Queries, query'[q].base = query[q].base, query'[q].bytes = query[q].bytes
  PROVE  Here(q)' = Here(q)
BY DEF Here

LEMMA HerePast ==
  ASSUME TypeOK, NEW q \in Queries, NEW n \in Nat,
         query'[q].base = query[q].base, query'[q].bytes = query[q].bytes + n
  PROVE  Here(q)' = Here(q) + n
BY DEF Here, TypeOK, Query

-----------------------------------------------------------------------------
(* The locals and their places *)

LEMMA ShapeStep ==
  ASSUME TypeOK, \A p \in Queries : Shape(p) /\ Placed(p), NEW q \in Queries, Enter(q) \/ Step(q)
  PROVE  \A p \in Queries : Shape(p)'
<1>1. given \subseteq given'  BY GivenGrows
<1>2. Only(q)  BY OneAtATime
<1>3. ASSUME NEW p \in Queries, p # q  PROVE Shape(p)'
  BY <1>1, <1>2, <1>3 DEF Shape, Only
<1>4. Shape(q)'
  <2>1. CASE Enter(q)  BY <2>1, <1>1, EnterEffect DEF Shape, Early
  <2>2. CASE TestPattern(q)
    <3>1. query[q].pc = "entered"  BY <2>2 DEF TestPattern
    <3> QED  BY <2>2, <3>1, <1>1, TestPatternEffect DEF Shape, Early, SameScan, SameRequest
  <2>3. CASE AllocatePattern(q)
    <3>1. query[q].pc = "unnamed"  BY <2>3 DEF AllocatePattern
    <3> QED  BY <2>3, <3>1, <1>1, AllocatePatternEffect DEF Shape, Early, SameScan, SameRequest
  <2>4. CASE FillPattern(q)
    <3>1. query[q].pc = "unfilled"  BY <2>4 DEF FillPattern
    <3> QED  BY <2>4, <3>1, <1>1, FillPatternEffect DEF Shape, Early, SameScan, SameRequest
  <2>5. CASE Start(q)
    <3>1. query[q].pc = "named"  BY <2>5 DEF Start
    <3> QED  BY <2>5, <3>1, <1>1, StartEffect DEF Shape, Early
  <2>6. CASE ReadFails(q)  BY <2>6, <1>1, ReadFailsEffect DEF Shape, Early, SameRequest
  <2>7. CASE Blank(q)  BY <2>7, <1>1, BlankEffect DEF Shape, Early, SameRequest
  <2>8. CASE PassOver(q)
    <3>1. query[q].pc = "scan"  BY <2>8 DEF PassOver, Reads
    <3> QED  BY <2>8, <3>1, <1>1, PassOverEffect DEF Shape, Early, SameRequest
  <2>9. CASE Return(q)
    <3>1. query[q].pc = "scan"  BY <2>9 DEF Return, Found, Reads
    <3> QED  BY <2>9, <3>1, <1>1, ReturnEffect DEF Shape, Early, SameRequest
  <2>10. CASE Refuse(q)
    <3>1. query[q].pc = "scan"  BY <2>10 DEF Refuse, Found, Reads
    <3> QED  BY <2>10, <3>1, <1>1, RefuseEffect DEF Shape, Early, SameRequest
  <2>11. CASE Finish(q)
    <3>1. query[q].pc = "scan"  BY <2>11 DEF Finish
    <3> QED  BY <2>11, <3>1, <1>1, FinishEffect DEF Shape, Early, SameRequest
  <2>12. CASE Complete(q)  BY <2>12, IdleIs, CompleteEffect DEF Shape, Early
  <2> QED  BY <2>1, <2>2, <2>3, <2>4, <2>5, <2>6, <2>7, <2>8, <2>9, <2>10, <2>11, <2>12 DEF Step
<1> QED  BY <1>3, <1>4

LEMMA StartsAtABoundary ==
  ASSUME TypeOK, NEW q \in Queries, Shape(q), current \in Boundaries
  PROVE  FileIndex(q) \in Boundaries
<1>1. Offsets \subseteq Boundaries  BY DEF Boundaries
<1> QED  BY <1>1, Limits DEF TypeOK, Shape, FileIndex

(* Only Start begins a scan, and where there is something to read. *)
LEMMA WithinStep ==
  ASSUME TypeOK, NEW q \in Queries, Placed(q), Enter(q) \/ Step(q)
  PROVE  Within(q)'
<1>1. dir' = dir  BY OneAtATime DEF Only
<1>2. ASSUME query'[q].pc # "scan"  PROVE Within(q)'
  BY <1>2 DEF Within
<1>3. ASSUME query[q].pc = "scan", query'[q].base = query[q].base  PROVE Within(q)'
  BY <1>1, <1>3 DEF Placed, Within
<1>4. CASE Enter(q)  BY <1>2, <1>4, EnterEffect
<1>5. CASE TestPattern(q)  BY <1>2, <1>5, TestPatternEffect
<1>6. CASE AllocatePattern(q)  BY <1>2, <1>6, AllocatePatternEffect
<1>7. CASE FillPattern(q)  BY <1>2, <1>7, FillPatternEffect
<1>8. CASE Start(q)  BY <1>1, <1>8, StartEffect DEF Within
<1>9. CASE ReadFails(q)  BY <1>2, <1>9, ReadFailsEffect
<1>10. CASE Blank(q)  BY <1>2, <1>10, BlankEffect
<1>11. CASE PassOver(q)  BY <1>3, <1>11, PassOverEffect DEF PassOver, Reads
<1>12. CASE Return(q)  BY <1>3, <1>12, ReturnEffect DEF Return, Found, Reads
<1>13. CASE Refuse(q)  BY <1>3, <1>13, RefuseEffect DEF Refuse, Found, Reads
<1>14. CASE Finish(q)  BY <1>2, <1>14, FinishEffect
<1>15. CASE Complete(q)  BY <1>2, <1>15, CompleteEffect, IdleIs
<1> QED
  BY <1>4, <1>5, <1>6, <1>7, <1>8, <1>9, <1>10, <1>11, <1>12, <1>13, <1>14, <1>15 DEF Step

LEMMA PlacedStep ==
  ASSUME TypeOK, \A p \in Queries : Shape(p) /\ Placed(p), current \in Boundaries,
         NEW q \in Queries, Enter(q) \/ Step(q)
  PROVE  (\A p \in Queries : Placed(p)') /\ current' \in Boundaries'
<1>1. Only(q)  BY OneAtATime
<1>2. Offsets' = Offsets /\ Boundaries' = Boundaries  BY <1>1, Frame
<1>3. ASSUME NEW p \in Queries, p # q  PROVE Placed(p)'
  BY <1>1, <1>2, <1>3, Frame DEF Placed, Within, Only
<1>4. query[q] \in Query /\ dir \in Directories  BY DEF TypeOK
<1>5. 0 \in Boundaries  BY <1>4, Limits
<1>6. Within(q)'  BY WithinStep DEF Placed
<1>7. ASSUME SameScan(query'[q], query[q])  PROVE Placed(q)'
  BY <1>2, <1>7, <1>6, HereSame, HeldSame DEF Placed, SameScan
<1>8. ASSUME Here(q) \in Offsets
      PROVE  Past(q) \in Boundaries /\ EntryAt(Here(q)).reclen \in Nat
  BY <1>4, <1>8, Layout DEF Past
<1>9. CASE Enter(q)
  <2>1. query'[q].base = 0 /\ query'[q].bytes = 0 /\ query'[q].out = <<>>  BY <1>9, EnterEffect
  <2>2. Here(q)' = 0 /\ Held(q)' = {}  BY <2>1, HeldNone DEF Here
  <2>3. Placed(q)'  BY <1>2, <1>6, <1>5, <2>1, <2>2 DEF Placed
  <2> QED  BY <1>2, <1>3, <1>9, <2>3 DEF Enter
<1>10. CASE TestPattern(q)
  BY <1>2, <1>3, <1>7, <1>10, TestPatternEffect DEF TestPattern
<1>11. CASE AllocatePattern(q)
  BY <1>2, <1>3, <1>7, <1>11, AllocatePatternEffect DEF AllocatePattern
<1>12. CASE FillPattern(q)
  BY <1>2, <1>3, <1>7, <1>12, FillPatternEffect DEF FillPattern
<1>13. CASE Start(q)
  <2>1. query[q].bytes = 0 /\ query[q].out = <<>>  BY <1>13 DEF Start, Shape, Early
  <2>2. query'[q].base = FileIndex(q) /\ query'[q].bytes = 0 /\ query'[q].out = <<>>
    BY <1>13, <2>1, StartEffect
  <2>3. FileIndex(q) \in Boundaries  BY StartsAtABoundary
  <2>4. Here(q)' = FileIndex(q)  BY <1>4, <2>2, <2>3, Limits DEF Here
  <2>5. Placed(q)'  BY <1>2, <1>6, <2>2, <2>3, <2>4, HeldNone DEF Placed
  <2> QED  BY <1>2, <1>3, <1>13, <2>5 DEF Start
<1>14. CASE ReadFails(q)
  BY <1>2, <1>3, <1>7, <1>14, ReadFailsEffect DEF ReadFails
<1>15. CASE Blank(q)
  BY <1>2, <1>3, <1>7, <1>15, BlankEffect DEF Blank
<1>16. CASE PassOver(q)
  <2>1. Here(q) \in Offsets  BY <1>16, ReadsAnEntry DEF PassOver
  <2>2. Here(q)' = Past(q)  BY <1>8, <1>16, <2>1, PassOverEffect, HerePast DEF Past
  <2>3. Placed(q)'  BY <1>2, <1>6, <1>8, <1>16, <2>1, <2>2, PassOverEffect, HeldSame DEF Placed
  <2> QED  BY <1>2, <1>3, <1>8, <1>16, <2>1, <2>3, PassOverEffect
<1>17. CASE Return(q)
  <2>1. Here(q) \in Offsets  BY <1>17, ReadsAnEntry DEF Return, Found
  <2>2. Here(q)' = Past(q)  BY <1>8, <1>17, <2>1, ReturnEffect, HerePast DEF Past
  <2>3. Held(q)' = Held(q) \cup {Here(q)}  BY <1>4, <1>17, ReturnEffect, HeldMore DEF NewItem
  <2>4. Placed(q)'  BY <1>2, <1>6, <1>8, <1>17, <2>1, <2>2, <2>3, ReturnEffect DEF Placed
  <2> QED  BY <1>2, <1>3, <1>8, <1>17, <2>1, <2>4, ReturnEffect
<1>18. CASE Refuse(q)
  <2>1. Placed(q)'  BY <1>2, <1>6, <1>18, RefuseEffect, HereSame, HeldSame DEF Placed
  <2> QED  BY <1>2, <1>3, <1>18, <2>1, RefuseEffect
<1>19. CASE Finish(q)
  <2>1. Placed(q)'  BY <1>2, <1>6, <1>4, <1>19, FinishEffect, HereSame, HeldEnded DEF Placed
  <2> QED  BY <1>2, <1>3, <1>19, <2>1 DEF Finish
<1>20. CASE Complete(q)
  <2>1. query'[q].base = 0 /\ query'[q].bytes = 0 /\ query'[q].out = <<>>  BY <1>20, IdleIs, CompleteEffect
  <2>2. Here(q)' = 0 /\ Held(q)' = {}  BY <2>1, HeldNone DEF Here
  <2>3. Placed(q)'  BY <1>2, <1>6, <1>5, <2>1, <2>2 DEF Placed
  <2> QED  BY <1>2, <1>3, <1>20, <2>3 DEF Complete
<1> QED
  BY <1>9, <1>10, <1>11, <1>12, <1>13, <1>14, <1>15, <1>16, <1>17, <1>18, <1>19, <1>20 DEF Step

LEMMA TypeStep ==
  ASSUME TypeOK, \A p \in Queries : Placed(p), current \in Boundaries, current' \in Boundaries',
         NEW q \in Queries, Enter(q) \/ Step(q)
  PROVE  TypeOK'
<1>1. Only(q)  BY OneAtATime
<1>2. Offsets' = Offsets /\ Boundaries' = Boundaries  BY <1>1, Frame
<1>3. current' \in Nat  BY <1>2, Limits DEF TypeOK
<1>4. dir' \in Directories /\ query' \in [Queries -> Query]  BY <1>1 DEF TypeOK, Only
<1>5. pattern' \in {NoPattern, Raw, "*"} \cup { r.name : r \in Requests }
  <2>1. CASE FillPattern(q)
    <3>1. query[q].r \in Requests  BY DEF TypeOK, Query
    <3> QED  BY <2>1, <3>1 DEF FillPattern, TypeOK
  <2>2. CASE AllocatePattern(q)  BY <2>2 DEF AllocatePattern
  <2>3. CASE ~ FillPattern(q) /\ ~ AllocatePattern(q)
    BY <2>3 DEF TypeOK, Enter, Step, TestPattern, Start, ReadFails, Blank, PassOver, Return, Refuse, Finish, Complete
  <2> QED  BY <2>1, <2>2, <2>3
<1>6. given' \subseteq Offsets /\ since' \subseteq Offsets
  BY DEF TypeOK, Placed, Enter, Step, TestPattern, AllocatePattern, FillPattern, Start, ReadFails, Blank, PassOver,
         Return, Refuse, Finish, Complete
<1>7. calm' \in BOOLEAN
  <2>1. CASE Enter(q)  BY <2>1 DEF Enter
  <2>2. CASE Start(q)  BY <2>2 DEF Start, TypeOK
  <2>3. CASE ~ Enter(q) /\ ~ Start(q)
    <3>1. calm' = calm
      BY <2>3 DEF Step, TestPattern, AllocatePattern, FillPattern, ReadFails, Blank, PassOver, Return, Refuse,
                  Finish, Complete
    <3> QED  BY <3>1 DEF TypeOK
  <2> QED  BY <2>1, <2>2, <2>3
<1>8. torn' \in BOOLEAN
  <2>1. CASE AllocatePattern(q)  BY <2>1 DEF AllocatePattern
  <2>2. CASE PassOver(q) \/ Return(q) \/ Refuse(q)  BY <2>2 DEF PassOver, Return, Refuse
  <2>3. CASE ~ (AllocatePattern(q) \/ PassOver(q) \/ Return(q) \/ Refuse(q))
    <3>1. torn' = torn
      BY <2>3 DEF Enter, Step, TestPattern, FillPattern, Start, ReadFails, Blank, Finish, Complete
    <3> QED  BY <3>1 DEF TypeOK
  <2> QED  BY <2>1, <2>2, <2>3
<1> QED  BY <1>2, <1>3, <1>4, <1>5, <1>6, <1>7, <1>8 DEF TypeOK

-----------------------------------------------------------------------------
(* The buffer *)

(* An entry appended to a chain that leads to it extends the chain. *)
LEMMA ChainGrows ==
  ASSUME TypeOK, NEW q \in Queries, Placed(q), Chaining(q), Return(q), ~ query[q].r.single
  PROVE  Chaining(q)'
<1> DEFINE out == query[q].out
           n == Len(out)
           item == NewItem(q)
           new == query'[q].out
<1>1. query[q] \in Query /\ dir \in Directories  BY DEF TypeOK
<1>2. Here(q) \in Offsets /\ InUse(Here(q)) /\ query[q].pc = "scan"
  BY ReadsAnEntry DEF Return, Found, Reads, InUse
<1>3. /\ EntryAt(Here(q)).reclen \in Nat /\ EntryAt(Here(q)).reclen > 0
      /\ EntryAt(Here(q)).need \in Nat /\ EntryAt(Here(q)).need > 0 /\ Here(q) \in Nat
  BY <1>1, <1>2, Layout
<1>4. /\ query'[q].used = query[q].used + EntryAt(Here(q)).need /\ query'[q].temp = query[q].used
      /\ new = Append(out, item) /\ query'[q].r = query[q].r
      /\ item \in Item
  BY ReturnEffect DEF SameRequest
<1>5. item.on = Here(q) /\ item.in = query[q].used /\ item.next = EntryAt(Here(q)).need
  BY DEF NewItem, NextEntryOffset
<1>6. Here(q)' = Here(q) + EntryAt(Here(q)).reclen  BY <1>3, ReturnEffect, HerePast
<1>7. out \in Seq(Item) /\ n \in Nat /\ query[q].used \in Nat /\ query[q].temp \in Nat  BY <1>1 DEF Query
<1>8. /\ Len(new) = n + 1 /\ new # <<>> /\ new[n + 1] = item
      /\ \A i \in 1 .. n : new[i] = out[i] /\ out[i] \in Item
  BY <1>4, <1>7
<1>9. /\ \A i \in 1 .. n - 1 : /\ out[i].on < out[i + 1].on /\ out[i].in + out[i].next = out[i + 1].in
                              /\ out[i].in < query[q].temp
      /\ n = 0 => query[q].used = 0
      /\ n > 0 => /\ out[n].in = query[q].temp /\ out[n].next > 0
                  /\ query[q].used = query[q].temp + out[n].next /\ out[n].on < Here(q)
  <2>1. n = 0 <=> out = <<>>  BY <1>7
  <2> QED  BY <1>2, <1>7, <2>1 DEF Chaining, Chain
<1> HIDE DEF out, n, item, new
<1>10. \A i \in 1 .. n : /\ new[i].on < new[i + 1].on /\ new[i].in + new[i].next = new[i + 1].in
                         /\ new[i].in < query[q].used
  <2>1. TAKE i \in 1 .. n
  <2>2. out[i].on \in Nat /\ out[i].in \in Nat /\ out[i].next \in Nat  BY <1>8 DEF Item
  <2>5. n > 0  BY <1>7
  <2>6. out[n].in \in Nat /\ out[n].next \in Nat
    <3>1. n \in 1 .. n  BY <1>7, <2>5
    <3> QED  BY <3>1, <1>8 DEF Item
  <2>3. CASE i = n
    BY <1>3, <1>5, <1>7, <1>8, <1>9, <2>2, <2>3, <2>5
  <2>4. CASE i # n
    <3>1. i \in 1 .. n - 1 /\ i + 1 \in 1 .. n  BY <2>4, <1>7
    <3>2. new[i] = out[i] /\ new[i + 1] = out[i + 1]  BY <3>1, <1>8
    <3>3. out[i].in < query[q].temp /\ query[q].temp < query[q].used
      BY <3>1, <1>7, <1>9, <2>5, <2>6
    <3> QED  BY <3>1, <3>2, <3>3, <1>7, <1>9, <2>2, SMTT(30)
  <2> QED  BY <2>3, <2>4
<1>11. /\ new[n + 1].in = query[q].used /\ new[n + 1].next > 0
       /\ query'[q].used = query[q].used + new[n + 1].next /\ new[n + 1].on < Here(q)'
  BY <1>3, <1>4, <1>5, <1>6, <1>8
<1>12. Len(new) - 1 = n  BY <1>7, <1>8
<1> QED  BY <1>4, <1>8, <1>10, <1>11, <1>12 DEF Chaining, Chain, new

LEMMA ChainEnds ==
  ASSUME TypeOK, NEW q \in Queries, Chaining(q), Finish(q)
  PROVE  Chain(q)' /\ LET out == query'[q].out IN out # <<>> => out[Len(out)].next = 0
<1> DEFINE out == query[q].out
           n == Len(out)
           new == query'[q].out
<1>1. query[q] \in Query /\ query[q].pc = "scan"  BY DEF TypeOK, Finish
<1>2. out \in Seq(Item) /\ n \in Nat /\ query[q].temp \in Nat  BY <1>1 DEF Query
<1>3. \A i \in 1 .. n : out[i].in \in Nat
  <2>1. \A i \in 1 .. n : out[i] \in Item  BY <1>2
  <2> HIDE DEF out, n
  <2> QED  BY <2>1 DEF Item
<1>4. /\ Len(new) = n /\ (new # <<>> => n > 0)
      /\ \A i \in 1 .. n : /\ new[i].on = out[i].on /\ new[i].in = out[i].in
                          /\ new[i].next = IF out[i].in = query[q].temp THEN 0 ELSE out[i].next
  <2>1. new = Ended(q)  BY FinishEffect
  <2>2. /\ Ended(q) \in Seq(Item) /\ Len(Ended(q)) = n
        /\ \A i \in 1 .. n : /\ Ended(q)[i].on = out[i].on /\ Ended(q)[i].in = out[i].in
                            /\ Ended(q)[i].next = IF out[i].in = query[q].temp THEN 0 ELSE out[i].next
    BY <1>1, <1>2, EndedIs
  <2> QED  BY <2>1, <2>2, <1>2
<1>5. /\ \A i \in 1 .. n - 1 : /\ out[i].on < out[i + 1].on /\ out[i].in + out[i].next = out[i + 1].in
                              /\ out[i].in < query[q].temp
      /\ n > 0 => out[n].in = query[q].temp
  <2>1. n = 0 <=> out = <<>>  BY <1>2
  <2> QED  BY <1>1, <1>2, <2>1 DEF Chaining, Chain
<1> HIDE DEF out, n, new
<1>6. \A i \in 1 .. n - 1 : new[i].on < new[i + 1].on /\ new[i].in + new[i].next = new[i + 1].in
  <2>1. TAKE i \in 1 .. n - 1
  <2>2. i \in 1 .. n /\ i + 1 \in 1 .. n  BY <1>2
  <2>3. out[i].in # query[q].temp  BY <1>2, <1>3, <1>5, <2>2
  <2> QED  BY <1>4, <1>5, <2>2, <2>3
<1>7. new # <<>> => new[n].next = 0
  <2>1. SUFFICES ASSUME new # <<>>  PROVE new[n].next = 0
    OBVIOUS
  <2>2. n \in 1 .. n  BY <2>1, <1>2, <1>4
  <2> QED  BY <2>1, <2>2, <1>4, <1>5
<1> QED  BY <1>4, <1>6, <1>7 DEF Chain, new

LEMMA BufferStep ==
  ASSUME TypeOK, \A p \in Queries : Shape(p) /\ Placed(p) /\ Chaining(p) /\ Chained(p),
         NEW q \in Queries, Enter(q) \/ Step(q)
  PROVE  \A p \in Queries : Chaining(p)' /\ Chained(p)'
<1>1. Only(q)  BY OneAtATime
<1>2. Offsets' = Offsets /\ \A o : EntryAt(o)' = EntryAt(o)  BY <1>1, Frame
<1>3. ASSUME NEW p \in Queries, p # q  PROVE Chaining(p)' /\ Chained(p)'
  <2>1. query'[p] = query[p] /\ Here(p)' = Here(p)  BY <1>1, <1>3, Frame DEF Only
  <2>2. Chain(p)' = Chain(p)  BY <2>1 DEF Chain
  <2>3. EntryAt(Here(p))' = EntryAt(Here(p))  BY <1>1, <2>1 DEF Only, EntryAt, Entries, At
  <2> QED  BY <1>2, <1>3, <2>1, <2>2, <2>3 DEF Chaining, Chained
<1>4. ASSUME query'[q].pc \notin {"scan", "done"} \/ (query'[q].pc = "done" /\ query'[q].status # "success")
      PROVE  Chaining(q)' /\ Chained(q)'
  BY <1>4 DEF Chaining, Chained
<1>5. query[q] \in Query /\ dir \in Directories  BY DEF TypeOK
<1>6. Chaining(q)' /\ Chained(q)'
  <2>1. CASE Enter(q)  BY <2>1, <1>4, EnterEffect
  <2>2. CASE TestPattern(q)  BY <2>2, <1>4, TestPatternEffect
  <2>3. CASE AllocatePattern(q)  BY <2>3, <1>4, AllocatePatternEffect
  <2>4. CASE FillPattern(q)  BY <2>4, <1>4, FillPatternEffect
  <2>5. CASE Start(q)
    <3>0. query[q].pc = "named"  BY <2>5 DEF Start
    <3>1. query'[q].out = <<>> /\ query'[q].used = 0  BY <2>5, <3>0, StartEffect DEF Shape, Early
    <3>2. query'[q].pc = "scan" \/ (query'[q].pc = "done" /\ query'[q].status # "success")
      BY <2>5, StartEffect
    <3>3. Len(query'[q].out) = 0  BY <3>1
    <3> QED  BY <3>1, <3>2, <3>3 DEF Chaining, Chained, Chain
  <2>6. CASE ReadFails(q)  BY <2>6, <1>4, ReadFailsEffect
  <2>7. CASE Blank(q)
    <3>1. /\ query'[q].out = query[q].out /\ query'[q].pc = "done" /\ Here(q)' = Here(q)
          /\ query[q].pc = "scan"
      BY <2>7, BlankEffect, HereSame DEF SameScan, Blank, Reads
    <3>2. Chain(q)  BY <3>1 DEF Chaining
    <3>3. Chain(q)'  BY <3>1, <3>2 DEF Chain
    <3>4. Here(q)' \in Offsets'  BY <2>7, <3>1, <1>2, ReadsAnEntry DEF Blank
    <3>5. EntryAt(Here(q))'.reclen = 0
      <4>1. EntryAt(Here(q))' = EntryAt(Here(q))  BY <1>1, <3>1 DEF Only, EntryAt, Entries, At
      <4> QED  BY <4>1, <2>7 DEF Blank
    <3> QED  BY <3>1, <3>3, <3>4, <3>5 DEF Chaining, Chained
  <2>8. CASE PassOver(q)
    <3>1. Here(q) \in Offsets /\ query[q].pc = "scan"  BY <2>8, ReadsAnEntry DEF PassOver, Reads
    <3>2. EntryAt(Here(q)).reclen \in Nat /\ Here(q) \in Nat  BY <3>1, <1>5, Layout
    <3>3. Here(q)' = Here(q) + EntryAt(Here(q)).reclen  BY <2>8, <3>2, PassOverEffect, HerePast
    <3>4. /\ query'[q].used = query[q].used /\ query'[q].temp = query[q].temp /\ query'[q].out = query[q].out
          /\ query'[q].pc = "scan" /\ query'[q].r = query[q].r
      BY <2>8, PassOverEffect DEF SameRequest
    <3>5. query[q].out # <<>> => query[q].out[Len(query[q].out)].on \in Nat
      <4>1. query[q].out \in Seq(Item)  BY <1>5 DEF Query
      <4>2. query[q].out # <<>> => query[q].out[Len(query[q].out)] \in Item  BY <4>1
      <4> QED  BY <4>2 DEF Item
    <3>6. query[q].out # <<>> => query[q].out[Len(query[q].out)].on < Here(q)'
      BY <3>1, <3>2, <3>3, <3>5 DEF Chaining
    <3>7. Chain(q)'  BY <3>1, <3>4 DEF Chaining, Chain
    <3> QED  BY <3>1, <3>4, <3>6, <3>7 DEF Chaining, Chained
  <2>9. CASE Return(q)
    <3>1. CASE ~ query[q].r.single
      <4>1. query'[q].pc = "scan"  BY <2>9, <3>1, ReturnEffect
      <4> QED  BY <2>9, <3>1, <4>1, ChainGrows DEF Chained
    <3>2. CASE query[q].r.single
      <4>1. query[q].pc = "scan" /\ query[q].out = <<>>  BY <2>9, <3>2 DEF Return, Found, Reads, Chaining
      <4>2. query'[q].pc = "done" /\ query'[q].out = Append(<<>>, NewItem(q))
        BY <2>9, <3>2, <4>1, ReturnEffect
      <4>3. NewItem(q).next = 0  BY <3>2 DEF NewItem, NextEntryOffset
      <4>4. Len(query'[q].out) = 1 /\ query'[q].out[1] = NewItem(q)  BY <4>2
      <4> QED  BY <4>2, <4>3, <4>4 DEF Chaining, Chained, Chain
    <3> QED  BY <3>1, <3>2
  <2>10. CASE Refuse(q)
    <3>1. /\ query'[q].used = query[q].used /\ query'[q].temp = query[q].temp /\ query'[q].out = query[q].out
          /\ query'[q].pc = "scan" /\ query[q].pc = "scan" /\ query'[q].r = query[q].r /\ Here(q)' = Here(q)
      BY <2>10, RefuseEffect, HereSame DEF SameRequest, Refuse, Found, Reads
    <3>2. Chain(q)'  BY <3>1 DEF Chaining, Chain
    <3> QED  BY <3>1, <3>2 DEF Chaining, Chained
  <2>11. CASE Finish(q)
    <3>1. query'[q].pc = "done"  BY <2>11, FinishEffect
    <3> QED  BY <2>11, <3>1, ChainEnds DEF Chaining, Chained
  <2>12. CASE Complete(q)  BY <2>12, <1>4, IdleIs, CompleteEffect
  <2> QED  BY <2>1, <2>2, <2>3, <2>4, <2>5, <2>6, <2>7, <2>8, <2>9, <2>10, <2>11, <2>12 DEF Step
<1> QED  BY <1>3, <1>6

-----------------------------------------------------------------------------
(* The pattern *)

LEMMA NamesArePatterns ==
  ASSUME TypeOK, NEW q \in Queries
  PROVE  query[q].r.name \notin {NoPattern, Raw}
<1>1. query[q].r \in Requests  BY DEF TypeOK, Query
<1> QED  BY <1>1, PatternAssumption

LEMMA TornStays ==
  ASSUME TypeOK, NEW q \in Queries, Enter(q) \/ Step(q), ~ torn'
  PROVE  ~ torn
BY DEF Enter, Step, TestPattern, AllocatePattern, FillPattern, Start, ReadFails, Blank, PassOver, Return,
       Refuse, Finish, Complete

(* While nothing has been returned the step of a query that does not read   *)
(* an entry changes none of that.                                           *)
LEMMA StillNothing ==
  ASSUME TypeOK, \A p \in Queries : Shape(p) /\ Placed(p) /\ Chaining(p), NothingReturned,
         NEW q \in Queries, Enter(q) \/ Step(q), ~ (PassOver(q) \/ Return(q) \/ Refuse(q))
  PROVE  NothingReturned'
<1>1. Only(q)  BY OneAtATime
<1>2. Offsets' = Offsets /\ (\A o : InUse(o)' <=> InUse(o))  BY <1>1, Frame DEF InUse, Only, EntryAt, Entries, At
<1>3. dir \in Directories /\ query[q] \in Query  BY DEF TypeOK
<1>4. \A o \in Offsets : InUse(o) => dir.size > 10
  <2>1. \A o \in Offsets : o \in Nat /\ (InUse(o) => o < dir.size - 10)  BY <1>3, Layout
  <2>2. dir.size \in Nat  BY <1>3, Limits
  <2> QED  BY <2>1, <2>2
<1>5. current' = 0 /\ given' = {}
  <2>1. Held(q) = {}  BY DEF NothingReturned, Held
  <2> QED
    BY <2>1 DEF NothingReturned, Enter, Step, TestPattern, AllocatePattern, FillPattern, Start, ReadFails, Blank,
                Finish, Complete
<1>6. /\ query'[q].base = 0 /\ query'[q].bytes = 0 /\ query'[q].out = <<>> /\ query'[q].run
      /\ query'[q].status \in {"none", "end"} => \A o \in Offsets : ~ InUse(o)
  <2>0. /\ query[q].base = 0 /\ query[q].bytes = 0 /\ query[q].out = <<>> /\ query[q].run
        /\ query[q].status \in {"none", "end"} => \A o \in Offsets : ~ InUse(o)
    BY DEF NothingReturned
  <2>1. CASE Enter(q)  BY <2>1, EnterEffect
  <2>2. CASE TestPattern(q)  BY <2>0, <2>2, TestPatternEffect DEF SameScan
  <2>3. CASE AllocatePattern(q)  BY <2>0, <2>3, AllocatePatternEffect DEF SameScan
  <2>4. CASE FillPattern(q)  BY <2>0, <2>4, FillPatternEffect DEF SameScan
  <2>5. CASE Start(q)
    <3>1. FileIndex(q) = 0  BY DEF FileIndex, Shape, NothingReturned
    <3>2. /\ query'[q].base = 0 /\ query'[q].bytes = 0 /\ query'[q].out = <<>> /\ query'[q].run
          /\ \/ query'[q].status \in {"error", query[q].status}
             \/ query'[q].status = "end" /\ 0 >= dir.size
      BY <2>0, <2>5, <3>1, StartEffect
    <3>3. dir.size \in Nat  BY <1>3, Limits
    <3> QED  BY <2>0, <3>2, <3>3, <1>4
  <2>6. CASE ReadFails(q)  BY <2>0, <2>6, ReadFailsEffect DEF SameScan
  <2>7. CASE Blank(q)  BY <2>0, <2>7, BlankEffect DEF SameScan
  <2>8. CASE Finish(q)
    <3>1. Ended(q) = <<>>
      <4>1. Ended(q) \in Seq(Item) /\ Len(Ended(q)) = Len(query[q].out)  BY <1>3, EndedIs
      <4> QED  BY <4>1, <2>0
    <3>2. query[q].used = 0  BY <2>0, <2>8 DEF Chaining, Finish
    <3>3. query[q].r.room > 0 /\ query[q].r.room \in Nat
      <4>1. query[q].r \in Requests  BY <1>3 DEF Query
      <4> QED  BY <4>1, DirectoryAssumption
    <3>4. DirEnd(0) = dir.size - 0 - 10  BY <1>3, <2>0, <2>8, NoWrap DEF Placed, Within, Finish
    <3>5. ~ (0 < DirEnd(0))  BY <2>0, <2>8, <3>2, <3>3 DEF Finish, More
    <3>6. dir.size \in Nat  BY <1>3, Limits
    <3>7. \A o \in Offsets : ~ InUse(o)  BY <1>4, <3>4, <3>5, <3>6
    <3> QED  BY <2>0, <2>8, <3>1, <3>7, FinishEffect
  <2>9. CASE Complete(q)  BY <2>9, CompleteEffect, IdleIs
  <2> QED  BY <2>1, <2>2, <2>3, <2>4, <2>5, <2>6, <2>7, <2>8, <2>9 DEF Step
<1>7. ASSUME NEW p \in Queries
      PROVE  /\ query'[p].base = 0 /\ query'[p].bytes = 0 /\ query'[p].out = <<>> /\ query'[p].run
             /\ query'[p].status \in {"none", "end"} => \A o \in Offsets : ~ InUse(o)
  <2>1. CASE p = q  BY <2>1, <1>6
  <2>2. CASE p # q
    <3>1. query'[p] = query[p]  BY <2>2, <1>1 DEF Only
    <3> QED  BY <3>1 DEF NothingReturned
  <2> QED  BY <2>1, <2>2
<1> QED  BY <1>2, <1>5, <1>7 DEF NothingReturned

LEMMA NoPatternStep ==
  ASSUME TypeOK, \A p \in Queries : Shape(p) /\ Placed(p) /\ Chaining(p), NoPatternYet,
         NEW q \in Queries, Enter(q) \/ Step(q), ~ torn'
  PROVE  NoPatternYet'
<1> DEFINE Unmade == {"idle", "entered", "unnamed", "done"}
<1>1. Only(q)  BY OneAtATime
<1>2. \A p \in Queries : p # q => query'[p] = query[p]  BY <1>1 DEF Only
<1>3. CASE Enter(q)
  <2>1. query'[q].pc = "entered" /\ pattern' = pattern  BY <1>3, EnterEffect DEF Enter
  <2>2. pattern' \in {NoPattern, Raw} => NothingReturned'
    <3>1. ~ (PassOver(q) \/ Return(q) \/ Refuse(q))  BY <1>3 DEF Enter, PassOver, Return, Refuse, Found, Reads
    <3> QED  BY <2>1, <3>1, StillNothing DEF NoPatternYet
  <2> QED  BY <1>2, <2>1, <2>2 DEF NoPatternYet
<1>4. CASE TestPattern(q)
  <2>1. pattern' = pattern /\ query'[q].pc = IF pattern # NoPattern THEN "named" ELSE "unnamed"
    BY <1>4, TestPatternEffect DEF TestPattern
  <2>2. pattern' \in {NoPattern, Raw} => NothingReturned'
    <3>1. ~ (PassOver(q) \/ Return(q) \/ Refuse(q))  BY <1>4 DEF TestPattern, PassOver, Return, Refuse, Found, Reads
    <3> QED  BY <2>1, <3>1, StillNothing DEF NoPatternYet
  <2> QED  BY <1>2, <2>1, <2>2 DEF NoPatternYet
<1>5. CASE AllocatePattern(q)
  <2>1. pattern = NoPattern  BY <1>5 DEF AllocatePattern
  <2>2. \/ query'[q].pc = "unfilled" /\ pattern' = Raw
        \/ query'[q].pc = "done" /\ pattern' = NoPattern
    BY <1>5, AllocatePatternEffect
  <2>3. NothingReturned'
    <3>1. ~ (PassOver(q) \/ Return(q) \/ Refuse(q))
      BY <1>5 DEF AllocatePattern, PassOver, Return, Refuse, Found, Reads
    <3> QED  BY <2>1, <3>1, StillNothing DEF NoPatternYet
  <2>4. \A p \in Queries : query[p].pc \in Unmade  BY <2>1 DEF NoPatternYet
  <2> QED  BY <1>2, <2>2, <2>3, <2>4, PatternAssumption DEF NoPatternYet
<1>6. CASE FillPattern(q)
  <2>0. query[q].pc = "unfilled" /\ pattern = Raw  BY <1>6 DEF FillPattern, NoPatternYet
  <2>1. CASE query'[q].pc = "named" /\ pattern' = query[q].r.name
    <3>1. pattern' \notin {NoPattern, Raw}  BY <2>1, NamesArePatterns
    <3>2. \A p \in Queries : query'[p].pc # "unfilled"  BY <1>2, <2>0, <2>1 DEF NoPatternYet
    <3> QED  BY <3>1, <3>2 DEF NoPatternYet
  <2>2. CASE query'[q].pc = "done" /\ pattern' = pattern
    <3>1. NothingReturned'
      <4>1. ~ (PassOver(q) \/ Return(q) \/ Refuse(q))
        BY <1>6 DEF FillPattern, PassOver, Return, Refuse, Found, Reads
      <4> QED  BY <2>0, <4>1, StillNothing DEF NoPatternYet
    <3> QED  BY <1>2, <2>0, <2>2, <3>1, PatternAssumption DEF NoPatternYet
  <2> QED  BY <1>6, <2>1, <2>2, FillPatternEffect
<1>7. ASSUME query[q].pc \in {"named", "scan"}, query'[q].pc \in {"scan", "done"}, pattern' = pattern,
             pattern \in {NoPattern, Raw} => NothingReturned'
      PROVE  NoPatternYet'
  <2>1. pattern # NoPattern  BY <1>7 DEF NoPatternYet
  <2> QED  BY <1>2, <1>7, <2>1 DEF NoPatternYet
<1>8. CASE Start(q)
  <2>1. ~ (PassOver(q) \/ Return(q) \/ Refuse(q))  BY <1>8 DEF Start, PassOver, Return, Refuse, Found, Reads
  <2>2. query[q].pc = "named" /\ pattern' = pattern  BY <1>8 DEF Start
  <2> QED  BY <1>7, <1>8, <2>1, <2>2, StartEffect, StillNothing DEF NoPatternYet
<1>9. CASE PassOver(q) \/ Return(q) \/ Refuse(q)
  <2>1. query[q].pc = "scan" /\ pattern' = pattern /\ pattern # Raw
    BY <1>9 DEF PassOver, Return, Refuse, Found, Reads
  <2>2. query'[q].pc \in {"scan", "done"}  BY <1>9, PassOverEffect, ReturnEffect, RefuseEffect
  <2>3. pattern # NoPattern  BY <2>1 DEF NoPatternYet
  <2> QED  BY <1>7, <2>1, <2>2, <2>3
<1>10. CASE (ReadFails(q) \/ Blank(q) \/ Finish(q)) /\ ~ (PassOver(q) \/ Return(q) \/ Refuse(q))
  <2>1. query[q].pc = "scan" /\ pattern' = pattern  BY <1>10 DEF ReadFails, Blank, Finish, Reads
  <2>2. query'[q].pc = "done"  BY <1>10, ReadFailsEffect, BlankEffect, FinishEffect
  <2> QED  BY <1>7, <1>10, <2>1, <2>2, StillNothing DEF NoPatternYet
<1>11. CASE Complete(q)
  <2>1. query'[q].pc = "idle" /\ pattern' = pattern  BY <1>11, CompleteEffect, IdleIs DEF Complete
  <2>2. ~ (PassOver(q) \/ Return(q) \/ Refuse(q))  BY <1>11 DEF Complete, PassOver, Return, Refuse, Found, Reads
  <2> QED  BY <1>2, <2>1, <2>2, StillNothing DEF NoPatternYet
<1> QED  BY <1>3, <1>4, <1>5, <1>6, <1>8, <1>9, <1>10, <1>11 DEF Step

-----------------------------------------------------------------------------
(* What is covered *)

(* Where nothing has been returned all that follows holds. *)
LEMMA NothingIsCovered ==
  ASSUME TypeOK, NEW q \in Queries, Only(q), NothingReturned'
  PROVE  AllCovered' /\ \A p \in Queries : NothingPassed(p)' /\ Exhausted(p)'
<1>1. Offsets' = Offsets /\ \A o \in Offsets : o \in Nat
  BY Frame, Limits DEF TypeOK, Boundaries
<1>2. Wanted(pattern)' \subseteq Offsets' /\ \A o \in Wanted(pattern)' : InUse(o)'
  BY DEF Wanted, InUse
<1>3. \A p \in Queries : Here(p)' = 0 /\ Held(p)' = {}  BY HeldNone DEF NothingReturned, Here
<1>4. Out' = {}  BY <1>3 DEF Out, NothingReturned
<1>5. AllCovered'  BY <1>1, <1>2, <1>3, <1>4 DEF AllCovered, Covered, NothingReturned
<1>6. ASSUME NEW p \in Queries  PROVE NothingPassed(p)' /\ Exhausted(p)'
  <2>1. \A o \in Wanted(pattern)' : 0 <= o  BY <1>1, <1>2
  <2>2. NothingPassed(p)'  BY <1>3, <2>1 DEF NothingPassed
  <2>3. Exhausted(p)'  BY <1>2, <1>6 DEF Exhausted, NothingReturned
  <2> QED  BY <2>2, <2>3
<1> QED  BY <1>5, <1>6

(* Only Return puts an entry in a buffer, and none is forgotten. *)
LEMMA OutStep ==
  ASSUME TypeOK, \A p \in Queries : Shape(p) /\ Placed(p), NEW q \in Queries, Enter(q) \/ Step(q)
  PROVE  /\ Out \subseteq Out'
         /\ Return(q) => Out' = Out \cup {Here(q)}
         /\ ~ Return(q) => Out' = Out
<1>1. Only(q)  BY OneAtATime
<1>2. \A p \in Queries : p # q => Held(p)' = Held(p)  BY <1>1, Frame
<1>3. query[q] \in Query  BY DEF TypeOK
<1>4. CASE Return(q)
  <2>1. Held(q)' = Held(q) \cup {Here(q)} /\ given' = given
    BY <1>3, <1>4, ReturnEffect, HeldMore DEF NewItem, Return
  <2>2. Out' = Out \cup {Here(q)}  BY <1>2, <2>1 DEF Out
  <2> QED  BY <1>4, <2>2
<1>5. CASE ~ Return(q)
  <2>1. (given \cup Held(q))' = given \cup Held(q)
    <3>1. CASE Enter(q)
      <4>1. Held(q) = {}
        <5>1. query[q].out = <<>>  BY <3>1 DEF Enter, Shape, Early
        <5> QED  BY <5>1 DEF Held
      <4>2. Held(q)' = {}  BY <3>1, EnterEffect, HeldNone
      <4> QED  BY <3>1, <4>1, <4>2 DEF Enter
    <3>2. CASE TestPattern(q)  BY <3>2, TestPatternEffect, HeldSame DEF SameScan, TestPattern
    <3>3. CASE AllocatePattern(q)  BY <3>3, AllocatePatternEffect, HeldSame DEF SameScan, AllocatePattern
    <3>4. CASE FillPattern(q)  BY <3>4, FillPatternEffect, HeldSame DEF SameScan, FillPattern
    <3>5. CASE Start(q)  BY <3>5, StartEffect, HeldSame DEF Start
    <3>6. CASE ReadFails(q)  BY <3>6, ReadFailsEffect, HeldSame DEF SameScan, ReadFails
    <3>7. CASE Blank(q)  BY <3>7, BlankEffect, HeldSame DEF SameScan, Blank
    <3>8. CASE PassOver(q)  BY <3>8, PassOverEffect, HeldSame DEF PassOver
    <3>9. CASE Refuse(q)  BY <3>9, RefuseEffect, HeldSame DEF Refuse
    <3>10. CASE Finish(q)  BY <1>3, <3>10, FinishEffect, HeldEnded DEF Finish
    <3>11. CASE Complete(q)
      <4>1. Held(q)' = {}  BY <3>11, CompleteEffect, IdleIs, HeldNone
      <4> QED  BY <3>11, <4>1 DEF Complete
    <3> QED
      BY <1>5, <3>1, <3>2, <3>3, <3>4, <3>5, <3>6, <3>7, <3>8, <3>9, <3>10, <3>11 DEF Step
  <2>2. \A p \in Queries : Held(p)' \subseteq Out  BY <1>2, <2>1 DEF Out
  <2>3. \A p \in Queries : Held(p) \subseteq Out'  BY <1>2, <2>1 DEF Out
  <2>4. given' \subseteq Out /\ given \subseteq Out'  BY <2>1 DEF Out
  <2>5. Out' = Out  BY <2>2, <2>3, <2>4 DEF Out
  <2> QED  BY <1>5, <2>5
<1> QED  BY <1>4, <1>5

(* An entry passed over is not wanted, and one returned is not missing. *)
LEMMA PassedIsCovered ==
  ASSUME TypeOK, \A p \in Queries : Shape(p) /\ Placed(p), NEW q \in Queries, PassOver(q) \/ Return(q),
         ~ torn', Covered(Here(q))
  PROVE  /\ \A o \in Wanted(pattern) : o < Past(q) => o \in Out'
         /\ PassOver(q) => Here(q) \notin Wanted(pattern)
         /\ \A o \in Wanted(pattern) : o < Here(q) \/ o = Here(q) \/ Past(q) <= o
<1>1. Here(q) \in Offsets /\ dir \in Directories
  BY ReadsAnEntry DEF PassOver, Return, Found, TypeOK
<1>2. \A o \in Offsets : o \in Nat  BY <1>1, Limits DEF Boundaries
<1>3. \A o \in Wanted(pattern) : o < Here(q) \/ o = Here(q) \/ Past(q) <= o
  BY <1>1, <1>2, Layout DEF Past, Wanted
<1>4. PassOver(q) => Here(q) \notin Wanted(pattern)
  <2>1. SUFFICES ASSUME PassOver(q), EntryAt(Here(q)).ino # 0  PROVE ~ Matches(pattern, EntryAt(Here(q)).name)
    BY DEF Wanted
  <2>2. pattern # Raw  BY <2>1 DEF PassOver
  <2>3. FALSE \in MayMatch(pattern, EntryAt(Here(q)).name)  BY <2>1 DEF PassOver
  <2>4. MayMatch(pattern, EntryAt(Here(q)).name) = {Matches(pattern, EntryAt(Here(q)).name)}
    BY <2>2 DEF MayMatch
  <2> QED  BY <2>3, <2>4, Zenon
<1>5. Out \subseteq Out' /\ (Return(q) => Here(q) \in Out')  BY OutStep DEF Step
<1>6. ASSUME NEW o \in Wanted(pattern), o < Past(q)  PROVE o \in Out'
  <2>1. CASE o < Here(q)  BY <2>1, <1>5, <1>6 DEF Covered
  <2>2. CASE o = Here(q)  BY <2>2, <1>4, <1>5, <1>6
  <2>3. CASE Past(q) <= o
    <3>1. o \in Nat /\ Past(q) \in Nat  BY <1>1, <1>2, <1>6, Layout DEF Past, Wanted
    <3> QED  BY <2>3, <3>1, <1>6
  <2> QED  BY <2>1, <2>2, <2>3, <1>3
<1> QED  BY <1>3, <1>4, <1>6

(* While the pattern stays, what is covered stays so, and what the step     *)
(* moves to is covered.                                                     *)
LEMMA CoveredStep ==
  ASSUME TypeOK, \A p \in Queries : Shape(p) /\ Placed(p), AllCovered, NEW q \in Queries, Enter(q) \/ Step(q),
         ~ torn', pattern' = pattern
  PROVE  AllCovered'
<1>1. Only(q)  BY OneAtATime
<1>2. Wanted(pattern)' = Wanted(pattern)  BY <1>1 DEF Wanted, Offsets, EntryAt, Entries, At, Matches, Only
<1> DEFINE Kept(b) == \A o \in Wanted(pattern) : o < b => o \in Out'
<1>3. Out \subseteq Out' /\ (Return(q) => Out' = Out \cup {Here(q)}) /\ (~ Return(q) => Out' = Out)
  BY OutStep
<1>4. \A b : Covered(b) => Kept(b)  BY <1>3 DEF Covered
<1>5. Kept(0)
  <2>1. \A o \in Wanted(pattern) : o \in Nat  BY Limits DEF TypeOK, Wanted, Boundaries
  <2> QED  BY <2>1
<1>6. PassOver(q) \/ Return(q) => Kept(Past(q))  BY PassedIsCovered DEF AllCovered
<1>7. Kept(current) /\ (\A p \in Queries : Kept(Here(p))) /\ \A o \in Out : Kept(o)
  BY <1>4 DEF AllCovered
<1> HIDE DEF Kept
<1>8. Kept(current')
  <2>1. PassOver(q) \/ Return(q) => current' = Past(q)  BY PassOverEffect, ReturnEffect
  <2>2. ~ (PassOver(q) \/ Return(q)) => current' = current
    BY RefuseEffect
       DEF Enter, Step, TestPattern, AllocatePattern, FillPattern, Start, ReadFails, Blank, Finish, Complete
  <2> QED  BY <1>6, <1>7, <2>1, <2>2
<1>9. Kept(Here(q)')
  <2>1. CASE Enter(q)
    <3>1. Here(q)' = 0  BY <2>1, EnterEffect DEF Here
    <3> QED  BY <1>5, <3>1
  <2>2. CASE TestPattern(q)  BY <1>7, <2>2, TestPatternEffect, HereSame DEF SameScan
  <2>3. CASE AllocatePattern(q)  BY <1>7, <2>3, AllocatePatternEffect, HereSame DEF SameScan
  <2>4. CASE FillPattern(q)  BY <1>7, <2>4, FillPatternEffect, HereSame DEF SameScan
  <2>5. CASE Start(q)
    <3>1. query[q].bytes = 0  BY <2>5 DEF Start, Shape, Early
    <3>2. FileIndex(q) \in {query[q].index, 0, current} /\ query[q].index \in given \cup {0}
      BY DEF FileIndex, Shape
    <3>3. FileIndex(q) \in Nat
      <4>1. query[q] \in Query /\ current \in Nat  BY DEF TypeOK
      <4> QED  BY <4>1 DEF FileIndex, Query
    <3>4. Here(q)' = FileIndex(q)  BY <2>5, <3>1, <3>3, StartEffect DEF Here
    <3>5. given \subseteq Out  BY DEF Out
    <3> QED  BY <1>5, <1>7, <3>2, <3>4, <3>5
  <2>6. CASE ReadFails(q)  BY <1>7, <2>6, ReadFailsEffect, HereSame DEF SameScan
  <2>7. CASE Blank(q)  BY <1>7, <2>7, BlankEffect, HereSame DEF SameScan
  <2>8. CASE PassOver(q) \/ Return(q)
    <3>1. Here(q) \in Offsets  BY <2>8, ReadsAnEntry DEF PassOver, Return, Found
    <3>2. EntryAt(Here(q)).reclen \in Nat  BY <3>1, Layout DEF TypeOK
    <3>3. Here(q)' = Past(q)  BY <2>8, <3>2, PassOverEffect, ReturnEffect, HerePast DEF Past
    <3> QED  BY <1>6, <2>8, <3>3
  <2>9. CASE Refuse(q)  BY <1>7, <2>9, RefuseEffect, HereSame
  <2>10. CASE Finish(q)  BY <1>7, <2>10, FinishEffect, HereSame
  <2>11. CASE Complete(q)
    <3>1. Here(q)' = 0  BY <2>11, CompleteEffect, IdleIs DEF Here
    <3> QED  BY <1>5, <3>1
  <2> QED  BY <2>1, <2>2, <2>3, <2>4, <2>5, <2>6, <2>7, <2>8, <2>9, <2>10, <2>11 DEF Step
<1>10. \A p \in Queries : Kept(Here(p)')
  <2>1. \A p \in Queries : p # q => Here(p)' = Here(p)  BY <1>1, Frame
  <2> QED  BY <1>7, <1>9, <2>1
<1>11. \A o \in Out' : Kept(o)
  <2>1. Out' \subseteq Out \cup {Here(q)}  BY <1>3
  <2> QED  BY <1>7, <2>1
<1>12. Covered(current)'  BY <1>2, <1>8 DEF Covered, Kept
<1>13. \A p \in Queries : Covered(Here(p))'  BY <1>2, <1>10 DEF Covered, Kept
<1>14. \A o \in Out' : \A w \in Wanted(pattern)' : w < o => w \in Out'  BY <1>2, <1>11 DEF Kept
<1>15. (\A o \in Out : Covered(o))'  BY <1>14 DEF Covered
<1> QED  BY <1>12, <1>13, <1>15 DEF AllCovered

LEMMA PassedStep ==
  ASSUME TypeOK, \A p \in Queries : Shape(p) /\ Placed(p) /\ NothingPassed(p), AllCovered,
         NEW q \in Queries, Enter(q) \/ Step(q), ~ torn', pattern' = pattern
  PROVE  \A p \in Queries : NothingPassed(p)'
<1>1. Only(q)  BY OneAtATime
<1>2. Wanted(pattern)' = Wanted(pattern)  BY <1>1 DEF Wanted, Offsets, EntryAt, Entries, At, Matches, Only
<1>3. ASSUME NEW p \in Queries, p # q  PROVE NothingPassed(p)'
  <2>1. query'[p] = query[p] /\ Here(p)' = Here(p)  BY <1>1, <1>3, Frame DEF Only
  <2> QED  BY <1>2, <2>1 DEF NothingPassed
<1>4. ASSUME query'[q].pc # "scan"  PROVE NothingPassed(q)'
  BY <1>4 DEF NothingPassed
<1>5. \A o \in Wanted(pattern) : o \in Nat  BY Limits DEF TypeOK, Wanted, Boundaries
<1>6. NothingPassed(q)'
  <2>1. CASE Enter(q)  BY <2>1, <1>4, EnterEffect
  <2>2. CASE TestPattern(q)  BY <2>2, <1>4, TestPatternEffect
  <2>3. CASE AllocatePattern(q)  BY <2>3, <1>4, AllocatePatternEffect
  <2>4. CASE FillPattern(q)  BY <2>4, <1>4, FillPatternEffect
  <2>5. CASE Start(q)
    <3>1. query[q].bytes = 0  BY <2>5 DEF Start, Shape, Early
    <3>2. query'[q].base \in Nat /\ query'[q].bytes = 0  BY <1>1, <2>5, <3>1, StartEffect DEF Only, Query
    <3>3. Here(q)' = query'[q].base  BY <3>2 DEF Here
    <3> QED  BY <1>2, <1>5, <3>2, <3>3 DEF NothingPassed
  <2>6. CASE ReadFails(q)  BY <2>6, <1>4, ReadFailsEffect
  <2>7. CASE Blank(q)  BY <2>7, <1>4, BlankEffect
  <2>8. CASE PassOver(q)
    <3>1. Here(q) \in Offsets /\ query[q].pc = "scan"  BY <2>8, ReadsAnEntry DEF PassOver, Reads
    <3>2. EntryAt(Here(q)).reclen \in Nat  BY <3>1, Layout DEF TypeOK
    <3>3. Here(q)' = Past(q)  BY <2>8, <3>2, PassOverEffect, HerePast DEF Past
    <3>4. /\ query'[q].used = query[q].used /\ query'[q].base = query[q].base
          /\ (query'[q].run <=> query[q].run)
      BY <2>8, PassOverEffect
    <3>5. Covered(Here(q))  BY DEF AllCovered
    <3>6. \A o \in Wanted(pattern) : o < Here(q) \/ Past(q) <= o  BY <2>8, <3>5, PassedIsCovered
    <3>7. Here(q) \in Nat  BY <3>1, Layout DEF TypeOK
    <3>8. query[q].used = 0 /\ query[q].run =>
            \A o \in Wanted(pattern) : o < query[q].base \/ Past(q) <= o
      BY <1>5, <3>1, <3>6, <3>7 DEF NothingPassed
    <3> QED  BY <1>2, <3>3, <3>4, <3>8 DEF NothingPassed
  <2>9. CASE Return(q)
    <3>1. Here(q) \in Offsets  BY <2>9, ReadsAnEntry DEF Return, Found
    <3>2. EntryAt(Here(q)).need \in Nat /\ EntryAt(Here(q)).need > 0 /\ query[q].used \in Nat
      BY <3>1, Layout DEF TypeOK, Query
    <3>3. query'[q].used # 0  BY <2>9, <3>2, ReturnEffect
    <3> QED  BY <3>3 DEF NothingPassed
  <2>10. CASE Refuse(q)  BY <2>10, RefuseEffect DEF NothingPassed
  <2>11. CASE Finish(q)  BY <2>11, <1>4, FinishEffect
  <2>12. CASE Complete(q)  BY <2>12, <1>4, CompleteEffect, IdleIs
  <2> QED  BY <2>1, <2>2, <2>3, <2>4, <2>5, <2>6, <2>7, <2>8, <2>9, <2>10, <2>11, <2>12 DEF Step
<1> QED  BY <1>3, <1>6

LEMMA ExhaustedStep ==
  ASSUME TypeOK, \A p \in Queries : Shape(p) /\ Placed(p) /\ NothingPassed(p) /\ Exhausted(p),
         NEW q \in Queries, Enter(q) \/ Step(q), pattern' = pattern
  PROVE  \A p \in Queries : Exhausted(p)'
<1>1. Only(q)  BY OneAtATime
<1>2. Wanted(pattern)' = Wanted(pattern)  BY <1>1 DEF Wanted, Offsets, EntryAt, Entries, At, Matches, Only
<1>3. ASSUME NEW p \in Queries, p # q  PROVE Exhausted(p)'
  BY <1>1, <1>2, <1>3 DEF Exhausted, Only
<1>4. ASSUME query'[q].status \notin {"none", "end"}  PROVE Exhausted(q)'
  BY <1>4 DEF Exhausted
<1>5. dir.size \in Nat /\ \A o \in Wanted(pattern) : o \in Nat /\ o < dir.size - 10
  BY Limits, Layout DEF TypeOK, Wanted, InUse
<1>6. query[q].pc # "done" => query[q].status = "unset"  BY DEF Shape
<1>7. Exhausted(q)'
  <2>1. CASE Enter(q)  BY <2>1, <1>4, EnterEffect
  <2>2. CASE TestPattern(q)  BY <2>2, <1>4, <1>6, TestPatternEffect DEF TestPattern
  <2>3. CASE AllocatePattern(q)  BY <2>3, <1>4, <1>6, AllocatePatternEffect DEF AllocatePattern
  <2>4. CASE FillPattern(q)  BY <2>4, <1>4, <1>6, FillPatternEffect DEF FillPattern
  <2>5. CASE Start(q)
    <3>1. query'[q].status \in {"none", "end"} => query'[q].base >= dir.size
      BY <2>5, <1>6, StartEffect DEF Start
    <3>2. query'[q].base \in Nat  BY <1>1 DEF Only, Query
    <3>3. query'[q].status \in {"none", "end"} => \A o \in Wanted(pattern) : o < query'[q].base
      BY <1>5, <3>1, <3>2
    <3> QED  BY <1>2, <3>3 DEF Exhausted
  <2>6. CASE ReadFails(q)  BY <2>6, <1>4, ReadFailsEffect
  <2>7. CASE Blank(q)  BY <2>7, <1>4, BlankEffect
  <2>8. CASE PassOver(q)  BY <2>8, <1>4, <1>6, PassOverEffect DEF PassOver, Reads
  <2>9. CASE Return(q)  BY <2>9, <1>4, <1>6, ReturnEffect DEF Return, Found, Reads
  <2>10. CASE Refuse(q)  BY <2>10, <1>4, <1>6, RefuseEffect DEF Refuse, Found, Reads
  <2>11. CASE Finish(q)
    <3>1. SUFFICES ASSUME query'[q].status \in {"none", "end"}, query'[q].run
                   PROVE  \A o \in Wanted(pattern) : o < query'[q].base
      BY <1>2 DEF Exhausted
    <3>2. query[q].used = 0 /\ query[q].run /\ query'[q].base = query[q].base
      BY <2>11, <3>1, FinishEffect DEF TypeOK, Query
    <3>3. query[q].r.room > 0 /\ query[q].r.room \in Nat
      <4>1. query[q].r \in Requests  BY DEF TypeOK, Query
      <4> QED  BY <4>1, DirectoryAssumption
    <3>4. ~ (query[q].bytes < dir.size - query[q].base - 10)
      <4>1. DirEnd(query[q].base) = dir.size - query[q].base - 10
        BY <2>11, NoWrap DEF TypeOK, Placed, Within, Finish
      <4> QED  BY <4>1, <2>11, <3>2, <3>3 DEF Finish, More
    <3>5. query[q].bytes \in Nat /\ query[q].base \in Nat  BY DEF TypeOK, Query
    <3>6. Here(q) >= dir.size - 10  BY <1>5, <3>4, <3>5 DEF Here
    <3>7. \A o \in Wanted(pattern) : o < query[q].base \/ Here(q) <= o
      BY <2>11, <3>2 DEF NothingPassed, Finish
    <3>8. Here(q) \in Nat  BY <3>5 DEF Here
    <3> QED  BY <1>5, <3>2, <3>6, <3>7, <3>8
  <2>12. CASE Complete(q)  BY <2>12, <1>4, CompleteEffect, IdleIs
  <2> QED  BY <2>1, <2>2, <2>3, <2>4, <2>5, <2>6, <2>7, <2>8, <2>9, <2>10, <2>11, <2>12 DEF Step
<1> QED  BY <1>3, <1>7

LEMMA TogetherStep ==
  ASSUME TypeOK, \A p \in Queries : Shape(p) /\ Placed(p) /\ Chaining(p), Together,
         NEW q \in Queries, Enter(q) \/ Step(q)
  PROVE  Together'
<1>1. SUFFICES ASSUME ~ torn'
               PROVE  NoPatternYet' /\ AllCovered' /\ \A p \in Queries : NothingPassed(p)' /\ Exhausted(p)'
  BY DEF Together
<1>2. NoPatternYet /\ AllCovered /\ \A p \in Queries : NothingPassed(p) /\ Exhausted(p)
  BY <1>1, TornStays DEF Together
<1>3. Only(q)  BY OneAtATime
<1>4. NoPatternYet'  BY <1>1, <1>2, NoPatternStep
<1>5. CASE pattern' \in {NoPattern, Raw}
  <2>1. NothingReturned'  BY <1>4, <1>5 DEF NoPatternYet
  <2> QED  BY <1>3, <1>4, <2>1, NothingIsCovered
<1>6. CASE pattern' = pattern
  BY <1>1, <1>2, <1>4, <1>6, CoveredStep, PassedStep, ExhaustedStep
<1>7. CASE pattern' \notin {NoPattern, Raw} /\ pattern' # pattern
  <2>1. FillPattern(q)
    BY <1>7 DEF Enter, Step, TestPattern, AllocatePattern, Start, ReadFails, Blank, PassOver, Return, Refuse,
                Finish, Complete
  <2>2. NothingReturned  BY <1>2, <2>1 DEF NoPatternYet, FillPattern
  <2>3. ~ (PassOver(q) \/ Return(q) \/ Refuse(q))  BY <2>1 DEF FillPattern, PassOver, Return, Refuse, Found, Reads
  <2>4. NothingReturned'  BY <2>2, <2>3, StillNothing
  <2> QED  BY <1>3, <1>4, <2>4, NothingIsCovered
<1> QED  BY <1>5, <1>6, <1>7

-----------------------------------------------------------------------------
(* One query after another *)

LEMMA ForwardStep ==
  ASSUME TypeOK, \A p \in Queries : Shape(p) /\ Placed(p) /\ Chaining(p), InTurn, calm,
         NEW q \in Busy, Busy = {q}, calm', Step(q)
  PROVE  (\A s \in since' : s < current') /\ (q \in Busy' => Forward(q)')
<1>1. Only(q)  BY OneAtATime DEF Busy
<1>2. \A s \in since : s \in Nat /\ s < current  BY Limits DEF TypeOK, InTurn, Boundaries
<1>3. Forward(q)  BY DEF InTurn
<1>4. q \in Queries /\ query[q] \in Query /\ dir \in Directories /\ current \in Nat  BY DEF Busy, TypeOK
<1>5. \A o \in Held(q) : o \in Nat  BY Limits DEF TypeOK, Placed, Boundaries, Busy
<1>6. ASSUME query[q].pc \in Early, query'[q].out = <<>>, query'[q].pc # "scan", since' = since,
             current' = current
      PROVE  (\A s \in since' : s < current') /\ Forward(q)'
  <2>1. Held(q)' = {}  BY <1>4, <1>6, HeldNone
  <2> QED  BY <1>2, <1>6, <2>1 DEF Forward
<1>7. ASSUME query[q].pc = "scan", Here(q)' = Here(q), query'[q].base = query[q].base, Held(q)' = Held(q),
             query'[q].out # <<>> => query[q].out # <<>>,
             since' = since, current' = current
      PROVE  (\A s \in since' : s < current') /\ Forward(q)'
  BY <1>2, <1>3, <1>7 DEF Forward
<1>8. ASSUME query[q].pc \in Early  PROVE query[q].out = <<>>
  BY <1>4, <1>8 DEF Shape
<1>9. CASE TestPattern(q)
  BY <1>4, <1>6, <1>8, <1>9, TestPatternEffect DEF TestPattern, Early, SameScan
<1>10. CASE AllocatePattern(q)
  BY <1>4, <1>6, <1>8, <1>10, AllocatePatternEffect DEF AllocatePattern, Early, SameScan
<1>11. CASE FillPattern(q)
  BY <1>4, <1>6, <1>8, <1>11, FillPatternEffect DEF FillPattern, Early, SameScan
<1>12. CASE Start(q)
  <2>1. query[q].out = <<>> /\ current' = current  BY <1>8, <1>12 DEF Start, Early
  <2>2. query'[q].out = <<>> /\ query'[q].base = FileIndex(q)  BY <1>4, <1>12, <2>1, StartEffect
  <2>3. \A s \in since' : s \in since /\ FileIndex(q) = current  BY <1>12 DEF Start, Anew, FileIndex
  <2>4. Held(q)' = {}  BY <1>4, <2>2, HeldNone
  <2> QED  BY <1>2, <2>1, <2>2, <2>3, <2>4 DEF Forward
<1>13. CASE ReadFails(q)
  <2>1. /\ query[q].pc = "scan" /\ query'[q].base = query[q].base /\ query'[q].bytes = query[q].bytes
        /\ query'[q].out = query[q].out /\ since' = since /\ current' = current
    BY <1>4, <1>13, ReadFailsEffect DEF ReadFails, Reads, SameScan
  <2> QED  BY <1>4, <1>7, <2>1, HereSame, HeldSame
<1>14. CASE Blank(q)
  <2>1. /\ query[q].pc = "scan" /\ query'[q].base = query[q].base /\ query'[q].bytes = query[q].bytes
        /\ query'[q].out = query[q].out /\ since' = since /\ current' = current
    BY <1>4, <1>14, BlankEffect DEF Blank, Reads, SameScan
  <2> QED  BY <1>4, <1>7, <2>1, HereSame, HeldSame
<1>15. ASSUME PassOver(q) \/ Return(q)
       PROVE  /\ query[q].pc = "scan" /\ Here(q) \in Offsets /\ Here(q)' = Past(q) /\ current' = Past(q)
              /\ Here(q) \in Nat /\ Past(q) \in Nat /\ Here(q) <= Past(q) /\ since' = since
              /\ \A s \in since : s < Here(q)
  <2>1. Here(q) \in Offsets /\ query[q].pc = "scan" /\ since' = since
    BY <1>4, <1>15, ReadsAnEntry DEF PassOver, Return, Found, Reads
  <2>2. EntryAt(Here(q)).reclen \in Nat /\ Here(q) \in Nat  BY <1>4, <2>1, Layout
  <2>3. Here(q)' = Past(q) /\ current' = Past(q)
    BY <1>4, <1>15, <2>2, PassOverEffect, ReturnEffect, HerePast DEF Past
  <2>4. \A s \in since : s < query[q].base  BY <1>3, <2>1 DEF Forward
  <2>5. query[q].base \in Nat /\ query[q].bytes \in Nat  BY <1>4 DEF Query
  <2>6. \A s \in since : s < Here(q)  BY <1>2, <2>4, <2>5 DEF Here
  <2> QED  BY <2>1, <2>2, <2>3, <2>6 DEF Past
<1>16. CASE PassOver(q)
  <2>1. query'[q].out = query[q].out /\ query'[q].base = query[q].base  BY <1>4, <1>16, PassOverEffect
  <2>2. Held(q)' = Held(q)  BY <1>4, <2>1, HeldSame
  <2>3. \A o \in Held(q) : o < Past(q)  BY <1>3, <1>5, <1>15, <1>16 DEF Forward
  <2>4. \A s \in since : s < Past(q)  BY <1>2, <1>15, <1>16
  <2>5. Forward(q)'  BY <1>3, <1>15, <1>16, <2>1, <2>2, <2>3 DEF Forward
  <2> QED  BY <1>15, <1>16, <2>4, <2>5
<1>17. CASE Return(q)
  <2>1. query'[q].base = query[q].base  BY <1>4, <1>17, ReturnEffect
  <2>2. Held(q)' = Held(q) \cup {Here(q)}  BY <1>4, <1>17, ReturnEffect, HeldMore DEF NewItem
  <2>3. Here(q) < Past(q)
    <3>1. InUse(Here(q))  BY <1>17 DEF Return, Found, InUse
    <3>2. EntryAt(Here(q)).reclen \in Nat /\ EntryAt(Here(q)).reclen > 0  BY <1>4, <1>15, <1>17, <3>1, Layout
    <3> QED  BY <1>15, <1>17, <3>2 DEF Past
  <2>4. \A o \in Held(q) : o < Past(q)  BY <1>3, <1>5, <1>15, <1>17 DEF Forward
  <2>5. \A s \in since : s < Past(q)  BY <1>2, <1>15, <1>17
  <2>6. Forward(q)'  BY <1>3, <1>15, <1>17, <2>1, <2>2, <2>3, <2>4 DEF Forward
  <2> QED  BY <1>15, <1>17, <2>5, <2>6
<1>18. CASE Refuse(q)
  <2>1. /\ query[q].pc = "scan" /\ query'[q].base = query[q].base /\ query'[q].bytes = query[q].bytes
        /\ query'[q].out = query[q].out /\ since' = since /\ current' = current
    BY <1>4, <1>18, RefuseEffect DEF Refuse, Found, Reads
  <2> QED  BY <1>4, <1>7, <2>1, HereSame, HeldSame
<1>19. CASE Finish(q)
  <2>1. /\ query[q].pc = "scan" /\ query'[q].base = query[q].base /\ query'[q].bytes = query[q].bytes
        /\ query'[q].out = Ended(q) /\ since' = since /\ current' = current
    BY <1>4, <1>19, FinishEffect DEF Finish
  <2>2. query[q].out = <<>> => Ended(q) = <<>>
    <3>1. Ended(q) \in Seq(Item) /\ Len(Ended(q)) = Len(query[q].out)  BY <1>4, EndedIs
    <3> QED  BY <3>1
  <2> QED  BY <1>4, <1>7, <2>1, <2>2, HereSame, HeldEnded
<1>20. CASE Complete(q)
  <2>1. q \notin Busy'  BY <1>4, <1>20, CompleteEffect, IdleIs DEF Busy
  <2>2. current' = current /\ since' \subseteq since \cup Held(q)  BY <1>20 DEF Complete
  <2>3. \A o \in Held(q) : o < current
    <3>1. Held(q) # {} => query[q].out # <<>>  BY DEF Held
    <3> QED  BY <1>3, <3>1 DEF Forward
  <2> QED  BY <1>2, <2>1, <2>2, <2>3
<1> QED
  BY <1>9, <1>10, <1>11, <1>12, <1>13, <1>14, <1>16, <1>17, <1>18, <1>19, <1>20 DEF Step

LEMMA InTurnStep ==
  ASSUME TypeOK, \A p \in Queries : Shape(p) /\ Placed(p) /\ Chaining(p), InTurn,
         NEW q \in Queries, Enter(q) \/ Step(q)
  PROVE  InTurn'
<1>1. SUFFICES ASSUME calm'  PROVE Alone' /\ (\A s \in since' : s < current') /\ \A p \in Busy' : Forward(p)'
  BY DEF InTurn
<1>2. Only(q)  BY OneAtATime
<1>3. \A p \in Queries : p # q => (p \in Busy' <=> p \in Busy)  BY <1>2 DEF Busy, Only
<1>4. CASE Enter(q)
  <2>1. calm /\ Busy = {} /\ since' = since /\ current' = current  BY <1>1, <1>4 DEF Enter
  <2>2. Busy' \subseteq {q}  BY <1>3, <2>1 DEF Busy
  <2>3. query'[q].out = <<>> /\ query'[q].pc = "entered"  BY <1>4, EnterEffect
  <2>4. Forward(q)'  BY <2>3, HeldNone DEF Forward
  <2> QED  BY <2>1, <2>2, <2>4 DEF Alone, InTurn
<1>5. CASE Start(q) /\ Anew(q)
  <2>1. Busy = {q} /\ since' = {}  BY <1>1, <1>5 DEF Start
  <2>2. Busy' \subseteq {q}  BY <1>3, <2>1 DEF Busy
  <2>3. query[q].out = <<>>  BY <1>5 DEF Start, Shape, Early
  <2>4. query'[q].out = <<>>  BY <1>5, <2>3, StartEffect
  <2>5. Forward(q)'  BY <2>1, <2>4, HeldNone DEF Forward
  <2> QED  BY <2>1, <2>2, <2>5 DEF Alone
<1>6. CASE Step(q) /\ ~ (Start(q) /\ Anew(q))
  <2>1. calm
    BY <1>1, <1>6 DEF Step, TestPattern, AllocatePattern, FillPattern, Start, ReadFails, Blank, PassOver, Return,
                      Refuse, Finish, Complete
  <2>2. q \in Busy
    BY <1>6 DEF Busy, Step, TestPattern, AllocatePattern, FillPattern, Start, ReadFails, Blank, PassOver, Return,
                Refuse, Finish, Complete, Found, Reads
  <2>3. Busy = {q}  BY <2>1, <2>2 DEF InTurn, Alone
  <2>4. Busy' \subseteq {q}  BY <1>3, <2>3 DEF Busy
  <2>5. (\A s \in since' : s < current') /\ (q \in Busy' => Forward(q)')
    BY <1>1, <1>6, <2>1, <2>2, <2>3, ForwardStep
  <2> QED  BY <2>4, <2>5 DEF Alone
<1> QED  BY <1>4, <1>5, <1>6

-----------------------------------------------------------------------------
(* Theorems *)

LEMMA IInvInit == Init => IInv
<1> SUFFICES ASSUME Init  PROVE IInv
  OBVIOUS
<1>1. dir \in Directories /\ pattern = NoPattern /\ current = 0 /\ given = {} /\ since = {} /\ calm = TRUE /\ torn = FALSE
  BY DEF Init
<1>2. query \in [Queries -> Query] /\ \A p \in Queries : query[p] = Idle  BY IdleIs DEF Init
<1>3. \A p \in Queries :
        /\ query[p].pc = "idle" /\ query[p].index = 0 /\ query[p].base = 0 /\ query[p].bytes = 0
        /\ query[p].used = 0 /\ query[p].out = <<>> /\ query[p].run /\ query[p].status = "unset"
  BY <1>2, IdleIs
<1>4. \A p \in Queries : Here(p) = 0 /\ Held(p) = {}  BY <1>3 DEF Here, Held
<1>5. 0 \in Boundaries /\ Boundaries \subseteq Nat  BY <1>1, Limits
<1>6. TypeOK  BY <1>1, <1>2 DEF TypeOK
<1>7. \A p \in Queries : Shape(p)  BY <1>2, <1>3 DEF Shape, Early
<1>8. \A p \in Queries : Placed(p)  BY <1>3, <1>4, <1>5 DEF Placed, Within
<1>9. \A p \in Queries : Chaining(p) /\ Chained(p)  BY <1>3 DEF Chaining, Chained
<1>10. NoPatternYet  BY <1>1, <1>3 DEF NoPatternYet, NothingReturned
<1>11. AllCovered
  <2>1. \A o \in Wanted(pattern) : o \in Nat  BY <1>5 DEF Wanted, Boundaries
  <2>2. Covered(0)  BY <2>1 DEF Covered
  <2>3. Out = {}  BY <1>1, <1>4 DEF Out
  <2> QED  BY <1>1, <1>4, <2>2, <2>3 DEF AllCovered
<1>12. \A p \in Queries : NothingPassed(p) /\ Exhausted(p)  BY <1>3 DEF NothingPassed, Exhausted
<1>13. InTurn
  <2>1. Busy = {}  BY <1>3 DEF Busy
  <2> QED  BY <1>1, <2>1 DEF InTurn, Alone
<1> QED  BY <1>1, <1>5, <1>6, <1>7, <1>8, <1>9, <1>10, <1>11, <1>12, <1>13 DEF IInv, Together

LEMMA IInvNext == IInv /\ [Next]_vars => IInv'
<1> SUFFICES ASSUME IInv, [Next]_vars  PROVE IInv'
  OBVIOUS
<1>1. CASE UNCHANGED vars
  <2>1. /\ dir' = dir /\ pattern' = pattern /\ current' = current /\ query' = query
        /\ given' = given /\ since' = since /\ calm' = calm /\ torn' = torn
    BY <1>1 DEF vars
  <2>2. /\ Offsets' = Offsets /\ Boundaries' = Boundaries /\ Wanted(pattern)' = Wanted(pattern)
        /\ Busy' = Busy /\ Out' = Out /\ (\A o : InUse(o)' <=> InUse(o))
        /\ \A p \in Queries : Here(p)' = Here(p) /\ Held(p)' = Held(p) /\ EntryAt(Here(p))' = EntryAt(Here(p))
    BY <2>1 DEF Offsets, Boundaries, EntryAt, Entries, At, Here, Held, Out, InUse, Busy, Wanted, Matches
  <2>3. TypeOK' /\ current' \in Boundaries'  BY <2>1, <2>2 DEF IInv, TypeOK
  <2>4. \A p \in Queries : Shape(p)' /\ Placed(p)'  BY <2>1, <2>2 DEF IInv, Shape, Placed, Within
  <2>5. \A p \in Queries : Chaining(p)' /\ Chained(p)'  BY <2>1, <2>2 DEF IInv, Chaining, Chained, Chain
  <2>6. Together'
    <3>1. NoPatternYet => NoPatternYet'  BY <2>1, <2>2 DEF NoPatternYet, NothingReturned
    <3>2. AllCovered => AllCovered'  BY <2>1, <2>2 DEF AllCovered, Covered
    <3>3. \A p \in Queries : (NothingPassed(p) => NothingPassed(p)') /\ (Exhausted(p) => Exhausted(p)')
      BY <2>1, <2>2 DEF NothingPassed, Exhausted
    <3> QED  BY <2>1, <3>1, <3>2, <3>3 DEF IInv, Together
  <2>7. InTurn'
    <3>1. \A p \in Busy : Forward(p) => Forward(p)'  BY <2>1, <2>2 DEF Forward, Busy
    <3> QED  BY <2>1, <2>2, <3>1 DEF IInv, InTurn, Alone
  <2> QED  BY <2>3, <2>4, <2>5, <2>6, <2>7 DEF IInv
<1>2. CASE Next
  <2>1. PICK q \in Queries : Enter(q) \/ Step(q)  BY <1>2 DEF Next
  <2>2. /\ TypeOK /\ current \in Boundaries /\ Together /\ InTurn
        /\ \A p \in Queries : Shape(p) /\ Placed(p) /\ Chaining(p) /\ Chained(p)
    BY DEF IInv
  <2>3. \A p \in Queries : Shape(p)'  BY <2>1, <2>2, ShapeStep
  <2>4. (\A p \in Queries : Placed(p)') /\ current' \in Boundaries'  BY <2>1, <2>2, PlacedStep
  <2>5. TypeOK'  BY <2>1, <2>2, <2>4, TypeStep
  <2>6. \A p \in Queries : Chaining(p)' /\ Chained(p)'  BY <2>1, <2>2, BufferStep
  <2>7. Together'  BY <2>1, <2>2, TogetherStep
  <2>8. InTurn'  BY <2>1, <2>2, InTurnStep
  <2> QED  BY <2>3, <2>4, <2>5, <2>6, <2>7, <2>8 DEF IInv
<1> QED  BY <1>1, <1>2

(* Every reachable state satisfies the inductive invariant: what the parts  *)
(* of it say of FFSQueryDirectory holds between any two of its steps.       *)
THEOREM Invariance == Spec => []IInv
<1>1. Init => IInv  BY IInvInit
<1>2. IInv /\ [Next]_vars => IInv'  BY IInvNext
<1> QED  BY <1>1, <1>2, PTL DEF Spec

(* The locals of FFSQueryDirectory and the CCB keep their types; what has   *)
(* been returned are entries of the directory.                              *)
THEOREM TypeCorrect == Spec => []TypeOK
<1>1. IInv => TypeOK  BY DEF IInv
<1> QED  BY <1>1, Invariance, PTL

(* In a directory whose entries fill it, or are followed by zeros enough    *)
(* for one more, no query reads anything but entries: the position and the  *)
(* FileIndex of every query are where an entry starts or the last one ends, *)
(* dwSize does not wrap, and the loop stops before the end.  (With 1 to 9   *)
(* bytes behind the last entry, which FFS does not leave, it wraps.)        *)
THEOREM ReadsWholeEntries == Spec => []PositionIsAnEntry
<1>1. IInv => PositionIsAnEntry
  BY ReadsAnEntry DEF IInv, Placed, PositionIsAnEntry, Busy
<1> QED  BY <1>1, Invariance, PTL

(* However queries overlap, no entry that matches is passed without being   *)
(* put in a buffer, as long as the pattern is made once and used whole.     *)
THEOREM NoEntryIsLost == Spec => []NothingSkipped
<1>1. IInv => NothingSkipped
  <2>1. SUFFICES ASSUME IInv, ~ torn, NEW o \in Wanted(pattern), o < current
                 PROVE  o \in given \cup UNION { Held(q) : q \in Queries }
    BY DEF NothingSkipped
  <2>2. Covered(current)  BY <2>1 DEF IInv, Together, AllCovered
  <2> QED  BY <2>1, <2>2 DEF Covered, Out
<1> QED  BY <1>1, Invariance, PTL

(* The buffer of a query that succeeds is a chain in the order of the disk, *)
(* ended but for one that met zeros.                                        *)
THEOREM BuffersCanBeWalked == Spec => []BufferIsChained
<1>1. IInv => BufferIsChained  BY DEF IInv, Chained, Chain, BufferIsChained
<1> QED  BY <1>1, Invariance, PTL

(* STATUS_NO_SUCH_FILE and STATUS_NO_MORE_FILES are returned where nothing  *)
(* that matches is left.                                                    *)
THEOREM NoMoreFiles == Spec => []EndIsTheEnd
<1>1. IInv => EndIsTheEnd  BY DEF IInv, Together, Exhausted, EndIsTheEnd
<1> QED  BY <1>1, Invariance, PTL

(* Queries made one after another return no entry twice in a scan.          *)
THEOREM NoEntryTwice == Spec => EachOnce
<1>1. IInv /\ [Next]_vars => [\A q \in Queries : Complete(q) /\ calm => Held(q) \cap since = {}]_vars
  <2>1. SUFFICES ASSUME IInv, NEW q \in Queries, Complete(q), calm  PROVE Held(q) \cap since = {}
    OBVIOUS
  <2>2. q \in Busy  BY <2>1 DEF Complete, Busy
  <2>3. \A o \in Held(q) : \A s \in since : s < o  BY <2>1, <2>2 DEF IInv, InTurn, Forward
  <2>4. \A s \in since : s \in Nat  BY <2>1, Limits DEF IInv, TypeOK, Boundaries
  <2> QED  BY <2>3, <2>4
<1> QED  BY <1>1, Invariance, PTL DEF Spec, EachOnce
=============================================================================
