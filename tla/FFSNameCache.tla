---------------------------- MODULE FFSNameCache ----------------------------
(* The name cache of a mounted volume: the tree of MCBs under Vcb->McbTree, *)
(* the list Vcb->McbList that FFSAllocateMcb reaps in LRU order, the lookup *)
(* of a path through it (FFSv1LookupFileName, FFSv2LookupFileName), and the *)
(* part of FFSCreateFile and FFSClose that pins MCBs with FCBs.  A create   *)
(* and a close run under Vcb->MainResource from begin to end, so one        *)
(* request is followed at a time; other volumes share only McbAllocated.    *)
EXTENDS FFSDirTree, FiniteSets

CONSTANTS
  McbIds,        \* the memory for MCBs of this volume
  RootMcb,       \* Vcb->McbTree
  NoMcb,
  NoRequest,
  Handles,       \* file objects
  MaxDepth,      \* FFSGlobal->MaxDepth
  McbsPerLevel,  \* 1 << MCB_NUM_SHIFT
  MaxOthers,     \* bound on the MCBs of other volumes
  Wishes,        \* what creates ask for
  WildNames      \* the names with wild cards in them

ASSUME CacheAssumption ==
  /\ IsFiniteSet(McbIds) /\ RootMcb \in McbIds /\ NoMcb \notin McbIds
  /\ MaxDepth \in Nat \ {0} /\ McbsPerLevel \in Nat \ {0} /\ MaxOthers \in Nat
  /\ Names # {} /\ WildNames \subseteq Names
  /\ Wishes \subseteq {"any", "directory", "file", "new"}
  /\ NoRequest \notin [to : Handles, start : Inodes, path : Paths, slash : BOOLEAN,
                       want : {"any", "directory", "file", "new"}]

VARIABLES
  mcb,            \* the MCBs of the volume: [live ids -> FFS_MCB]
  McbList,        \* Vcb->McbList, least recently used first
  McbAllocated,   \* FFSGlobal->McbAllocated
  others,         \* the MCBs of other volumes
  handle,         \* [Handles -> the MCB of the open file, or NoMcb]
  pc,             \* where the create under way stands
  request,        \* its file object, name and wishes
  look,           \* the locals of the lookup under way
  hindered        \* history: a read or an allocation failed, or a file is not shared

cacheVars == <<mcb, McbList, McbAllocated, others>>
vars == <<mcb, McbList, McbAllocated, others, handle, pc, request, look, hindered>>

Node == [name : Names, inode : Nat, parent : McbIds \cup {NoMcb},
         child : Seq(McbIds), isDir : BOOLEAN, hasFcb : BOOLEAN, refs : Nat]

Request == [to : Handles, from : McbIds, path : Seq(Names), slash : BOOLEAN,
            want : {"any", "directory", "file", "new"}]

(* parent and found are ParentMcb and Mcb, k and last delimit the part of   *)
(* the path that is looked up, and dissecting tells the second round.       *)
Look == [parent : McbIds, found : McbIds \cup {NoMcb}, k : Nat, last : Nat,
         success : BOOLEAN, dissecting : BOOLEAN]

TypeOK ==
  /\ DOMAIN mcb \subseteq McbIds /\ \A m \in DOMAIN mcb : mcb[m] \in Node
  /\ McbList \in Seq(McbIds)
  /\ McbAllocated \in Nat /\ others \in 0 .. MaxOthers
  /\ handle \in [Handles -> McbIds \cup {NoMcb}]
  /\ pc \in {"idle", "search", "looked", "parent"}
  /\ pc # "idle" => request \in Request /\ look \in Look
-----------------------------------------------------------------------------
(* MCBs *)

Live == DOMAIN mcb
RootNode == [name |-> CHOOSE n \in Names : TRUE, inode |-> RootIno, parent |-> NoMcb,
             child |-> <<>>, isDir |-> TRUE, hasFcb |-> FALSE, refs |-> 0]
OnlyTheRoot == [m \in {RootMcb} |-> RootNode]

(* FFSSearchMcb: the child that carries the name, in any spelling *)
Cached(p, n) == { c \in ToSet(mcb[p].child) : SameName(mcb[c].name, n) }

(* FFSRefreshMcb: m becomes the most recently used. *)
Refreshed(list, m) == Append(RemoveFirst(list, m), m)

(* FFSDeleteMcbNode and FFSFreeMcb *)
(* Mistaken: the parent keeps the child. *)
Deleted_StaysChained(tree, m) == [ x \in DOMAIN tree \ {m} |-> tree[x] ]
Deleted(tree, m) ==
  [ x \in DOMAIN tree \ {m} |->
      IF x = tree[m].parent THEN [tree[x] EXCEPT !.child = RemoveFirst(@, m)] ELSE tree[x] ]

Limit == MaxDepth * McbsPerLevel

(* Mistaken: it reaps only what is above the limit by more than MaxDepth. *)
Extra_TooFew(allocated) == IF allocated > Limit + MaxDepth THEN allocated - Limit ELSE 0
(* How many MCBs FFSAllocateMcb sets out to reap. *)
Extra(allocated) == IF allocated > Limit THEN allocated - Limit + MaxDepth ELSE 0

(* Mistaken: an MCB in use is taken. *)
Reapable_InUse(tree, m) ==
  tree[m].inode # RootIno /\ tree[m].child = <<>> /\ ~tree[m].hasFcb

(* The parent of the name that is added is marked MCB_IN_USE meanwhile. *)
Reapable(tree, m) ==
  /\ tree[m].inode # RootIno
  /\ tree[m].child = <<>>
  /\ ~tree[m].hasFcb
  /\ m # look.parent

(* One step of the walk along the list that frees what it can until Extra  *)
(* are freed, and the whole walk *)
ReapOne(s, m) ==
  IF s.extra > 0 /\ Reapable(s.tree, m)
  THEN [tree |-> Deleted(s.tree, m), list |-> RemoveFirst(s.list, m), extra |-> s.extra - 1]
  ELSE s

Reaped ==
  LET walk[k \in 0 .. Len(McbList)] ==
        IF k = 0 THEN [tree |-> mcb, list |-> McbList, extra |-> Extra(McbAllocated)]
        ELSE ReapOne(walk[k - 1], McbList[k])
  IN walk[Len(McbList)]

(* Mistaken: what is freed still counts. *)
Freed_StillCounted == 0
Freed == Cardinality(Live) - Cardinality(DOMAIN Reaped.tree)

(* FFSAddMcbNode: the new MCB goes to the end of its parent's children. *)
Added(tree, p, m, n, ino) ==
  [ x \in DOMAIN tree \cup {m} |->
      IF x = m THEN [name |-> n, inode |-> ino, parent |-> p, child |-> <<>>,
                     isDir |-> IsDir(ino), hasFcb |-> FALSE, refs |-> 0]
      ELSE IF x = p THEN [tree[x] EXCEPT !.child = Append(@, m)] ELSE tree[x] ]
-----------------------------------------------------------------------------
(* A create begins, and looks up its path *)

Init ==
  /\ mcb = OnlyTheRoot /\ McbList = <<>>
  /\ McbAllocated = 1 /\ others = 0
  /\ handle = [h \in Handles |-> NoMcb]
  /\ pc = "idle" /\ request = NoRequest /\ look = NoRequest /\ hindered = FALSE

Start(p, k, last, dissecting) ==
  [parent |-> p, found |-> NoMcb, k |-> k, last |-> last,
   success |-> FALSE, dissecting |-> dissecting]

(* Full names start at the root, relative ones at an open file object. *)
Origins == {RootMcb} \cup { handle[h] : h \in { x \in Handles : handle[x] # NoMcb } }

(* The name \ is the root itself, the empty relative name nothing. *)
CreateFile(r) ==
  /\ pc = "idle" /\ handle[r.to] = NoMcb /\ r.from \in Origins
  /\ r.path = <<>> => (r.slash <=> r.from = RootMcb)
  /\ request' = r
  /\ IF r.path = <<>>
     THEN /\ pc' = "looked"
          /\ look' = [Start(r.from, 1, 0, FALSE) EXCEPT
                        !.success = r.slash, !.found = IF r.slash THEN RootMcb ELSE NoMcb]
     ELSE pc' = "search" /\ look' = Start(r.from, 1, Len(r.path), FALSE)
  /\ UNCHANGED <<cacheVars, handle, hindered>>

Component == request.path[look.k]

(* Mistaken: what follows a file is overlooked. *)
More_Overlooked == FALSE

(* Something of the name follows the component that is looked up. *)
More == ~look.dissecting /\ (look.k < look.last \/ request.slash)

(* A lookup ends without success; what it met may have hindered it. *)
GiveUp(hinder) ==
  /\ pc' = "looked" /\ look' = [look EXCEPT !.success = FALSE]
  /\ hindered' = (hindered \/ hinder)

(* The cache knows the name: a file must be the last component. *)
SearchHit ==
  /\ pc = "search" /\ look.k <= look.last
  /\ \E c \in Cached(look.parent, Component) :
       /\ McbList' = Refreshed(McbList, c)
       /\ look' = [look EXCEPT !.parent = c, !.found = c, !.k = @ + 1,
                               !.success = mcb[c].isDir \/ ~More]
       /\ pc' = IF mcb[c].isDir THEN "search" ELSE "looked"
  /\ UNCHANGED <<mcb, McbAllocated, others, handle, request>> /\ UNCHANGED hindered

EndOfPath ==
  /\ pc = "search" /\ look.k > look.last
  /\ pc' = "looked"
  /\ UNCHANGED <<cacheVars, handle, request, look>> /\ UNCHANGED hindered

(* The cache does not know it: the inode of the parent is read. *)
Missed == pc = "search" /\ look.k <= look.last /\ Cached(look.parent, Component) = {}
OnDisk == Find(mcb[look.parent].inode, Component)

(* Below a file there is nothing, but for the last component the status of *)
(* the file before it stays. *)
ScanFile ==
  /\ Missed /\ ~IsDir(mcb[look.parent].inode)
  /\ \/ GiveUp(TRUE)
     \/ /\ pc' = "looked" /\ UNCHANGED hindered
        /\ look' = [look EXCEPT !.found = NoMcb, !.success = @ /\ ~More]
  /\ UNCHANGED <<cacheVars, handle, request>>

(* FFSv1ScanDir finds no entry, or an inode or the directory is unreadable. *)
ScanMiss ==
  /\ Missed /\ IsDir(mcb[look.parent].inode)
  /\ \/ GiveUp(TRUE)
     \/ OnDisk = NoIno /\ GiveUp(FALSE)
  /\ UNCHANGED <<cacheVars, handle, request>>

(* It finds one, and an MCB is made for it, if there is memory. *)
ScanFound ==
  /\ Missed /\ IsDir(mcb[look.parent].inode) /\ OnDisk # NoIno
  /\ \/ \E new \in McbIds \ DOMAIN Reaped.tree :
           /\ mcb' = Added(Reaped.tree, look.parent, new, Component, OnDisk)
           /\ McbList' = Append(Reaped.list, new)
           /\ McbAllocated' = McbAllocated - Freed + 1
           /\ look' = [look EXCEPT !.parent = new, !.found = new, !.k = @ + 1, !.success = TRUE]
           /\ UNCHANGED <<pc, hindered>>
     \/ /\ mcb' = Reaped.tree /\ McbList' = Reaped.list
        /\ McbAllocated' = McbAllocated - Freed
        /\ GiveUp(TRUE)
  /\ UNCHANGED <<others, handle, request>>
-----------------------------------------------------------------------------
(* What FFSCreateFile makes of the lookup *)

Complete == pc' = "idle" /\ request' = NoRequest /\ look' = NoRequest /\ hindered' = FALSE

(* The lookup succeeded and there is no MCB: its inode is loaded all the   *)
(* same, through a null pointer.  FFSExceptionFilter passes the exception  *)
(* on, the system stops, and starts again with nothing cached or open.     *)
NullMcb ==
  /\ pc = "looked" /\ look.success /\ look.found = NoMcb
  /\ Complete
  /\ mcb' = OnlyTheRoot /\ McbList' = <<>>
  /\ McbAllocated' = 1 /\ others' = 0
  /\ handle' = [h \in Handles |-> NoMcb]

(* The inode the lookup found is loaded last, which may fail. *)
LoadFails ==
  /\ pc = "looked" /\ look.success /\ look.found # NoMcb
  /\ look' = [look EXCEPT !.success = FALSE] /\ hindered' = TRUE
  /\ UNCHANGED <<cacheVars, handle, pc, request>>

Found == pc = "looked" /\ look.success /\ look.found # NoMcb /\ ~look.dissecting

Collides ==
  request.want = "new" \/ (request.want = "file" /\ mcb[look.found].isDir)

Refuse ==
  /\ Found /\ Collides
  /\ Complete
  /\ UNCHANGED <<cacheVars, handle>>

(* Openit: the FCB of the MCB is taken or allocated, and counted. *)
Open ==
  /\ Found /\ ~Collides
  /\ mcb' = [mcb EXCEPT ![look.found].hasFcb = TRUE, ![look.found].refs = @ + 1]
  /\ handle' = [handle EXCEPT ![request.to] = look.found]
  /\ Complete
  /\ UNCHANGED <<McbList, McbAllocated, others>>

(* The file is open for others who do not share it, or its FCB cannot be   *)
(* allocated, which the create does not report. *)
OpenHindered ==
  /\ Found /\ ~Collides
  /\ IF hindered
     THEN Complete /\ UNCHANGED <<cacheVars, handle>>
     ELSE /\ ~mcb[look.found].hasFcb \/ mcb[look.found].refs > 0
          /\ hindered' = TRUE
          /\ UNCHANGED <<cacheVars, handle, pc, request, look>>
-----------------------------------------------------------------------------
(* A name that was not found is taken apart to reach its parent *)

NotFound == pc = "looked" /\ ~look.success /\ ~look.dissecting

(* A trailing backslash is for directories, and cannot be all there is. *)
BadName ==
  \/ request.slash /\ request.want # "directory"
  \/ request.slash /\ request.path = <<>>

Dissect ==
  /\ NotFound
  /\ IF BadName THEN Complete
     ELSE /\ pc' = IF Len(request.path) <= 1 THEN "parent" ELSE "search"
          /\ look' = Start(request.from, 1, 1, TRUE)
          /\ UNCHANGED request /\ UNCHANGED hindered
  /\ UNCHANGED <<cacheVars, handle>>

(* One component of the path, looked up by itself *)
DissectNext ==
  /\ pc = "looked" /\ look.dissecting
  /\ IF ~look.success THEN Complete
     ELSE /\ pc' = IF look.last + 1 = Len(request.path) THEN "parent" ELSE "search"
          /\ look' = Start(look.found, look.last + 1, look.last + 1, TRUE)
          /\ UNCHANGED request /\ UNCHANGED hindered
  /\ UNCHANGED <<cacheVars, handle>>

NoWildCards == request.path # <<>> => Last(request.path) \notin WildNames

(* Mistaken: the count for the time of the create is taken back, and never  *)
(* was given.                                                               *)
ParentFcb_NeverCounted ==
  [mcb EXCEPT ![look.parent].hasFcb = TRUE, ![look.parent].refs = @ - 1]

(* The parent is given an FCB, counted while the create lasts and left     *)
(* behind with the count of before. *)
ParentFcb == [mcb EXCEPT ![look.parent].hasFcb = TRUE]

(* Nothing is created on a read-only volume. *)
CreateRefused ==
  /\ pc = "parent"
  /\ mcb' = IF NoWildCards /\ ~mcb[look.parent].hasFcb THEN ParentFcb ELSE mcb
  /\ Complete
  /\ UNCHANGED <<McbList, McbAllocated, others, handle>>

NoParentFcb ==
  /\ pc = "parent" /\ NoWildCards /\ ~mcb[look.parent].hasFcb
  /\ Complete
  /\ UNCHANGED <<cacheVars, handle>>
-----------------------------------------------------------------------------
(* FFSClose frees an FCB with the last file object that refers to it. *)
Close(h) ==
  /\ pc = "idle" /\ handle[h] # NoMcb
  /\ mcb' = [mcb EXCEPT ![handle[h]].refs = @ - 1,
                        ![handle[h]].hasFcb = mcb[handle[h]].refs > 1]
  /\ handle' = [handle EXCEPT ![h] = NoMcb]
  /\ UNCHANGED <<McbList, McbAllocated, others, pc, request, look>> /\ UNCHANGED hindered

(* Lookups on other volumes add to the common count and reap their own. *)
OtherVolume ==
  /\ others' \in 0 .. MaxOthers /\ others' # others
  /\ McbAllocated' = McbAllocated - others + others'
  /\ UNCHANGED <<mcb, McbList, handle, pc, request, look>> /\ UNCHANGED hindered

Requests == [to : Handles, from : Origins, path : Paths, slash : BOOLEAN, want : Wishes]

Next ==
  \/ \E r \in Requests : CreateFile(r)
  \/ SearchHit \/ EndOfPath \/ ScanFile \/ ScanMiss \/ ScanFound
  \/ NullMcb \/ LoadFails \/ Refuse \/ Open \/ OpenHindered
  \/ Dissect \/ DissectNext \/ CreateRefused \/ NoParentFcb
  \/ \E h \in Handles : Close(h)
  \/ OtherVolume

Spec == Init /\ [][Next]_vars
-----------------------------------------------------------------------------
(* Properties *)

(* The tree and the list hold the same MCBs: every MCB but the root stands  *)
(* once in McbList and once among the children of its parent, and every     *)
(* child is there, knows its parent and has a name of its own, in whatever  *)
(* spelling, whatever was reaped between (src/memory.c:1197-1323,           *)
(* src/create.c:112-186).                                                   *)
ListIsTree ==
  /\ ToSet(McbList) = Live \ {RootMcb} /\ Len(McbList) = Cardinality(Live) - 1
  /\ \A m \in Live : IsInjective(mcb[m].child)
  /\ \A m \in Live : \A c \in ToSet(mcb[m].child) : c \in Live /\ mcb[c].parent = m
  /\ \A m \in Live : \A c, d \in ToSet(mcb[m].child) :
       SameName(mcb[c].name, mcb[d].name) => c = d
  /\ \A m \in Live \ {RootMcb} :
       mcb[m].parent \in Live /\ m \in ToSet(mcb[mcb[m].parent].child)

(* Nothing that is in use is reaped: the MCB of an open file, the directory *)
(* a create has reached and what it found stay, and so do all the parents   *)
(* of them (src/memory.c:897-906, src/create.c:184-186).                    *)
HasItsParents(S) == \A x \in S \cap Live : mcb[x].parent # NoMcb => mcb[x].parent \in S
Ancestors(m) == { x \in McbIds : \A S \in SUBSET McbIds : m \in S /\ HasItsParents(S) => x \in S }

Held ==
  ({ handle[h] : h \in Handles } \cup (IF pc = "idle" THEN {} ELSE {look.parent, look.found}))
    \ {NoMcb}

HeldIsKept == \A m \in Held : Ancestors(m) \subseteq Live

(* FFSGetFullFileName of any MCB names, on the disk, the inode of the MCB,  *)
(* although names keep the spelling of whoever asked first and .. entries   *)
(* are cached like any other (src/memory.c:1100-1156).                      *)
FullFileName_Reversed(m) ==
  LET name[k \in 0 .. Cardinality(McbIds)] ==
        [x \in Live |->
           IF mcb[x].inode = RootIno \/ mcb[x].parent \notin Live \/ k = 0 THEN <<>>
           ELSE <<mcb[x].name>> \o name[k - 1][mcb[x].parent]]
  IN name[Cardinality(McbIds)][m]
FullFileName(m) ==
  LET name[k \in 0 .. Cardinality(McbIds)] ==
        [x \in Live |->
           IF mcb[x].inode = RootIno \/ mcb[x].parent \notin Live \/ k = 0 THEN <<>>
           ELSE Append(name[k - 1][mcb[x].parent], mcb[x].name)]
  IN name[Cardinality(McbIds)][m]

FullFileNameIsOnDisk == \A m \in Live : Resolve(RootIno, FullFileName(m)) = mcb[m].inode

(* The counts by which memory is freed agree with what is there:            *)
(* McbAllocated, by which FFSAllocateMcb decides to reap, is the number of  *)
(* MCBs, and between requests an FCB is referred to by the file objects on  *)
(* it and by nothing else, although failed creates count their parents      *)
(* (src/memory.c:959-967, 1033-1041, src/create.c:1113, 1680-1683).         *)
CountsAgree ==
  /\ McbAllocated = Cardinality(Live) + others
  /\ pc = "idle" =>
       \A m \in Live : mcb[m].refs = Cardinality({ h \in Handles : handle[h] = m })

(* The cache does not grow past the limit while an MCB could go: an         *)
(* allocation above the limit reaps at least one MCB unless every one is    *)
(* pinned, by an FCB, by the create under way or by the inode of the root,  *)
(* in itself or below (src/memory.c:877-911).                               *)
Pins(m) == mcb[m].hasFcb \/ mcb[m].inode = RootIno \/ (pc # "idle" /\ m = look.parent)
Pinned == UNION { Ancestors(m) : m \in { x \in Live : Pins(x) } }

ReapingMakesRoom ==
  [][(McbAllocated > Limit /\ others' = others /\ Live \ Pinned # {}) =>
       McbAllocated' <= McbAllocated]_vars

(* The cache cannot be seen: whatever earlier lookups left in it, a create  *)
(* opens the file that the directories on disk lead to (src/create.c:38-231, *)
(* 770-1360).                                                               *)
Lookup == INSTANCE FFSPathLookup WITH
  NoQuestion <- NoRequest,
  question <- IF pc = "idle" THEN NoRequest
              ELSE [to |-> request.to, start |-> mcb[request.from].inode, path |-> request.path,
                    slash |-> request.slash, want |-> request.want],
  file <- [h \in Handles |-> IF handle[h] = NoMcb THEN NoIno ELSE mcb[handle[h]].inode]

OpensWhatIsOnDisk == Lookup!Spec
=============================================================================
