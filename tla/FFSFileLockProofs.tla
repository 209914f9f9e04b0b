-------------------------- MODULE FFSFileLockProofs --------------------------
(* Theorems about FFSFileLock, for every number of file objects, processes  *)
(* and bytes, every kind of open and every bound.                           *)
EXTENDS FFSFileLock, FiniteSetTheorems, TLAPS

-----------------------------------------------------------------------------
(* The inductive invariant *)

(* File objects with a handle, and those that FFSCleanup has come to *)
Handles == { o \in FileObjects : object[o].at \in {"open", "closing"} }
Closed == { o \in FileObjects : object[o].at \in {"unlocked", "nolocks", "locks", "cleaned"} }

(* Those whose access has not been taken out of Fcb->ShareAccess, and which *)
(* of them use, share, or do not share a mode                               *)
Sharers ==
  { o \in FileObjects : /\ object[o].at \in {"open", "closing", "unlocked", "nolocks", "locks"}
                        /\ object[o].access # {} }
Using(m) == { o \in Sharers : m \in object[o].access }
Lending(m) == { o \in Sharers : m \in object[o].share }
Keeping(m) == { o \in Sharers : m \notin object[o].share }

(* Fcb->OpenHandleCount is never short of the handles, and ReferenceCount   *)
(* is it and the file objects to close; creates that fail late keep both    *)
(* too high.                                                                *)
CountsCover ==
  /\ IsFiniteSet(Handles) /\ IsFiniteSet(Closed) /\ IsFiniteSet(Sharers)
  /\ Cardinality(Handles) <= OpenHandleCount
  /\ ReferenceCount = OpenHandleCount + Cardinality(Closed)

(* Fcb->ShareAccess may count who has gone, but misses nobody. *)
ShareCovers ==
  \A m \in Modes :
    /\ Cardinality(Using(m)) <= ShareAccess.users[m]
    /\ Cardinality(Lending(m)) <= ShareAccess.sharers[m]
    /\ ShareAccess.sharers[m] + Cardinality(Keeping(m)) <= ShareAccess.open

(* Who asks for a lock has a file object for it. *)
AskingIsOpen ==
  \A p \in Asking :
    /\ op[p].obj \in FileObjects /\ object[op[p].obj].at # "none" /\ op[p].bytes \in Ranges

(* Nobody waits where nothing is locked. *)
WaitingIsForLocks == locks = {} => waiting = {}

(* The file is marked from the moment that a lock is asked for. *)
MarkedWhenAsked == (locks # {} \/ Asking # {}) /\ ~reset => IsFastIoPossible = FastIoIsQuestionable

(* A cleanup that found no lock is right about it, or its store is noted. *)
NoLocksIsRight == (\E o \in FileObjects : object[o].at = "nolocks") /\ ~reset => locks = {}

LockInv ==
  /\ AskingIsOpen /\ WaitingIsForLocks /\ MarkedWhenAsked /\ NoLocksIsRight /\ LocksAreOfHandles

IInv == TypeOK /\ CountsCover /\ ShareCovers /\ OpenFilesShare /\ LockInv
-----------------------------------------------------------------------------
(* Lemmas on sets that one member enters or leaves *)

LEMMA OneMore ==
  ASSUME NEW S, IsFiniteSet(S), NEW x
  PROVE  /\ Cardinality(S) \in Nat
         /\ IsFiniteSet(S \cup {x}) /\ IsFiniteSet(S \ {x})
         /\ Cardinality(S \cup {x}) = IF x \in S THEN Cardinality(S) ELSE Cardinality(S) + 1
         /\ Cardinality(S \ {x}) = IF x \in S THEN Cardinality(S) - 1 ELSE Cardinality(S)
         /\ Cardinality(S) = 0 <=> S = {}
BY FS_AddElement, FS_RemoveElement, FS_CardinalityType, FS_EmptySet

LEMMA MaybeOneMore ==
  ASSUME NEW S, IsFiniteSet(S), NEW x, x \notin S, NEW b \in BOOLEAN, NEW T,
         T = IF b THEN S \cup {x} ELSE S \ {x}
  PROVE  /\ Cardinality(S) \in Nat
         /\ Cardinality(T) = Cardinality(S) + (IF b THEN 1 ELSE 0)
<1>1. Cardinality(S) \in Nat BY OneMore
<1>2. CASE b BY <1>2, OneMore
<1>3. CASE ~ b
  <2>1. T = S BY <1>3
  <2> QED BY <1>1, <1>3, <2>1
<1> QED BY <1>2, <1>3

LEMMA MaybeOneLess ==
  ASSUME NEW S, IsFiniteSet(S), NEW x, NEW b \in BOOLEAN, x \in S <=> b, NEW T, T = S \ {x}
  PROVE  /\ Cardinality(S) \in Nat /\ Cardinality(T) \in Nat
         /\ Cardinality(T) = Cardinality(S) - (IF b THEN 1 ELSE 0)
<1>1. IsFiniteSet(T) /\ Cardinality(S) \in Nat BY OneMore
<1>2. Cardinality(T) \in Nat BY <1>1, FS_CardinalityType
<1>3. CASE b BY <1>1, <1>2, <1>3, OneMore
<1>4. CASE ~ b
  <2>1. T = S BY <1>4
  <2>2. Cardinality(T) = Cardinality(S) BY <2>1
  <2> QED BY <1>1, <1>4, <2>2
<1> QED BY <1>1, <1>2, <1>3, <1>4

HandleStates == {"open", "closing"}
ClosedStates == {"unlocked", "nolocks", "locks", "cleaned"}
SharerStates == {"open", "closing", "unlocked", "nolocks", "locks"}

LEMMA OneObject ==
  ASSUME TypeOK, NEW o \in FileObjects, NEW r \in ObjectRecord,
         object' = [object EXCEPT ![o] = r]
  PROVE  /\ object' \in [FileObjects -> ObjectRecord]
         /\ object'[o] = r
         /\ \A q \in FileObjects : q # o => object'[q] = object[q]
BY DEF TypeOK

(* Where a step of one file object leaves the sets *)
LEMMA SetsMove ==
  ASSUME TypeOK, NEW o \in FileObjects, NEW r \in ObjectRecord,
         object' = [object EXCEPT ![o] = r]
  PROVE  /\ Handles' = IF r.at \in HandleStates THEN Handles \cup {o} ELSE Handles \ {o}
         /\ Closed' = IF r.at \in ClosedStates THEN Closed \cup {o} ELSE Closed \ {o}
         /\ Sharers' = IF r.at \in SharerStates /\ r.access # {} THEN Sharers \cup {o}
                       ELSE Sharers \ {o}
         /\ \A m \in Modes :
              /\ Using(m)' = IF r.at \in SharerStates /\ m \in r.access
                             THEN Using(m) \cup {o} ELSE Using(m) \ {o}
              /\ Lending(m)' = IF r.at \in SharerStates /\ r.access # {} /\ m \in r.share
                               THEN Lending(m) \cup {o} ELSE Lending(m) \ {o}
              /\ Keeping(m)' = IF r.at \in SharerStates /\ r.access # {} /\ m \notin r.share
                               THEN Keeping(m) \cup {o} ELSE Keeping(m) \ {o}
<1>1. object'[o] = r /\ \A q \in FileObjects : q # o => object'[q] = object[q]
  BY OneObject
<1>2. Handles' = IF r.at \in HandleStates THEN Handles \cup {o} ELSE Handles \ {o}
  BY <1>1 DEF Handles, HandleStates
<1>3. Closed' = IF r.at \in ClosedStates THEN Closed \cup {o} ELSE Closed \ {o}
  BY <1>1 DEF Closed, ClosedStates
<1>4. Sharers' = IF r.at \in SharerStates /\ r.access # {} THEN Sharers \cup {o}
                 ELSE Sharers \ {o}
  BY <1>1 DEF Sharers, SharerStates
<1>5. ASSUME NEW m \in Modes
      PROVE  /\ Using(m)' = IF r.at \in SharerStates /\ m \in r.access
                            THEN Using(m) \cup {o} ELSE Using(m) \ {o}
             /\ Lending(m)' = IF r.at \in SharerStates /\ r.access # {} /\ m \in r.share
                              THEN Lending(m) \cup {o} ELSE Lending(m) \ {o}
             /\ Keeping(m)' = IF r.at \in SharerStates /\ r.access # {} /\ m \notin r.share
                              THEN Keeping(m) \cup {o} ELSE Keeping(m) \ {o}
  <2>1. Using(m)' = IF r.at \in SharerStates /\ m \in r.access
                    THEN Using(m) \cup {o} ELSE Using(m) \ {o}
    BY <1>1 DEF Using, Sharers, SharerStates
  <2>2. Lending(m)' = IF r.at \in SharerStates /\ r.access # {} /\ m \in r.share
                      THEN Lending(m) \cup {o} ELSE Lending(m) \ {o}
    BY <1>1, <1>4 DEF Lending, Sharers
  <2>3. Keeping(m)' = IF r.at \in SharerStates /\ r.access # {} /\ m \notin r.share
                      THEN Keeping(m) \cup {o} ELSE Keeping(m) \ {o}
    BY <1>1, <1>4 DEF Keeping, Sharers
  <2> QED BY <2>1, <2>2, <2>3
<1> QED BY <1>2, <1>3, <1>4, <1>5

LEMMA FiniteParts ==
  ASSUME CountsCover, NEW m \in Modes
  PROVE  IsFiniteSet(Using(m)) /\ IsFiniteSet(Lending(m)) /\ IsFiniteSet(Keeping(m))
BY FS_Subset DEF CountsCover, Using, Lending, Keeping

(* Where an object stands, for the sets above, and what it shares *)
Alike(r, s) ==
  /\ r.access = s.access /\ r.share = s.share
  /\ r.at \in HandleStates <=> s.at \in HandleStates
  /\ r.at \in ClosedStates <=> s.at \in ClosedStates
  /\ r.at \in SharerStates <=> s.at \in SharerStates

SharingInv == CountsCover /\ ShareCovers /\ OpenFilesShare

LEMMA SharingKept ==
  ASSUME SharingInv, UNCHANGED <<OpenHandleCount, ReferenceCount, ShareAccess>>,
         \A q \in FileObjects : Alike(object'[q], object[q])
  PROVE  SharingInv'
<1>1. Handles' = Handles BY DEF Handles, Alike, HandleStates
<1>2. Closed' = Closed BY DEF Closed, Alike, ClosedStates
<1>3. Sharers' = Sharers BY DEF Sharers, Alike, SharerStates
<1>4. \A m \in Modes : Using(m)' = Using(m) /\ Lending(m)' = Lending(m) /\ Keeping(m)' = Keeping(m)
  BY <1>3 DEF Using, Lending, Keeping, Sharers, Alike
<1>5. CountsCover' BY <1>1, <1>2, <1>3 DEF CountsCover, SharingInv
<1>6. ShareCovers' BY <1>4 DEF ShareCovers, SharingInv
<1>7. OpenFilesShare' BY DEF OpenFilesShare, SharingInv, Alike, HandleStates
<1> QED BY <1>5, <1>6, <1>7 DEF SharingInv
-----------------------------------------------------------------------------
(* Opens.  What was admitted agrees with everyone who shares the file. *)

LEMMA FirstHasNobody ==
  ASSUME TypeOK, SharingInv, ~ Cleaning, FirstOpen
  PROVE  Handles = {} /\ Sharers = {}
<1>1. IsFiniteSet(Handles) /\ Cardinality(Handles) <= 0
  BY DEF SharingInv, CountsCover, FirstOpen
<1>2. Cardinality(Handles) = 0 BY <1>1, FS_CardinalityType
<1>3. Handles = {} BY <1>1, <1>2, FS_EmptySet
<1> QED BY <1>3 DEF Sharers, Handles, Cleaning

LEMMA AdmittedAgrees ==
  ASSUME TypeOK, SharingInv, ~ Cleaning, NEW a \in SUBSET Modes, NEW s \in SUBSET Modes,
         Admitted(a, s), a # {}
  PROVE  \A q \in Sharers : a \subseteq object[q].share /\ object[q].access \subseteq s
<1>1. CASE FirstOpen BY <1>1, FirstHasNobody
<1>2. CASE Sharable(a, s)
  <2>1. ASSUME NEW m \in a PROVE Keeping(m) = {}
    <3>1. ShareAccess.sharers[m] = ShareAccess.open BY <1>2 DEF Sharable
    <3>2. ShareAccess.sharers[m] \in Nat BY DEF TypeOK, ShareRecord
    <3>3. Cardinality(Keeping(m)) \in Nat BY FiniteParts, OneMore DEF SharingInv
    <3>4. Cardinality(Keeping(m)) = 0 BY <3>1, <3>2, <3>3 DEF SharingInv, ShareCovers
    <3> QED BY <3>4, FiniteParts, OneMore DEF SharingInv
  <2>2. ASSUME NEW m \in Modes \ s PROVE Using(m) = {}
    <3>1. ShareAccess.users[m] = 0 BY <1>2 DEF Sharable
    <3>2. Cardinality(Using(m)) \in Nat BY FiniteParts, OneMore DEF SharingInv
    <3>3. Cardinality(Using(m)) = 0 BY <3>1, <3>2 DEF SharingInv, ShareCovers
    <3> QED BY <3>3, FiniteParts, OneMore DEF SharingInv
  <2>3. \A q \in Sharers : object[q].access \subseteq Modes
    BY DEF Sharers, TypeOK, ObjectRecord
  <2> QED BY <2>1, <2>2, <2>3 DEF Keeping, Using
<1> QED BY <1>1, <1>2 DEF Admitted

(* The counters after an open, of a file or one that fails late: they are   *)
(* those of nobody or the old ones, with one more.                          *)
LEMMA CountersAfterOpen ==
  ASSUME TypeOK, SharingInv, ~ Cleaning, NEW a \in SUBSET Modes, NEW s \in SUBSET Modes,
         ShareAccess' = ShareAccessAfter(a, s)
  PROVE  /\ ShareAccess' \in ShareRecord
         /\ \A m \in Modes :
              /\ Cardinality(Using(m)) + (IF m \in a THEN 1 ELSE 0) <= ShareAccess'.users[m]
              /\ Cardinality(Lending(m)) + (IF a # {} /\ m \in s THEN 1 ELSE 0)
                   <= ShareAccess'.sharers[m]
              /\ ShareAccess'.sharers[m] + Cardinality(Keeping(m))
                   + (IF a # {} /\ m \notin s THEN 1 ELSE 0) <= ShareAccess'.open
<1> DEFINE before == IF FirstOpen THEN NobodyOpen ELSE ShareAccess
<1>1. before \in ShareRecord BY DEF TypeOK, ShareRecord, NobodyOpen
<1>2. ASSUME NEW m \in Modes
      PROVE  /\ Cardinality(Using(m)) \in Nat /\ Cardinality(Lending(m)) \in Nat
             /\ Cardinality(Keeping(m)) \in Nat
             /\ Cardinality(Using(m)) <= before.users[m]
             /\ Cardinality(Lending(m)) <= before.sharers[m]
             /\ before.sharers[m] + Cardinality(Keeping(m)) <= before.open
  <2>1. Cardinality(Using(m)) \in Nat /\ Cardinality(Lending(m)) \in Nat
        /\ Cardinality(Keeping(m)) \in Nat
    BY FiniteParts, OneMore DEF SharingInv
  <2>2. CASE FirstOpen
    <3>1. Using(m) = {} /\ Lending(m) = {} /\ Keeping(m) = {}
      BY <2>2, FirstHasNobody DEF Using, Lending, Keeping
    <3>2. Cardinality(Using(m)) = 0 /\ Cardinality(Lending(m)) = 0 /\ Cardinality(Keeping(m)) = 0
      BY <3>1, FS_EmptySet
    <3>3. before.users[m] = 0 /\ before.sharers[m] = 0 /\ before.open = 0
      BY <2>2 DEF NobodyOpen
    <3> QED BY <2>1, <3>2, <3>3
  <2>3. CASE ~ FirstOpen
    <3>1. before = ShareAccess BY <2>3
    <3> QED BY <2>1, <3>1 DEF SharingInv, ShareCovers
  <2> QED BY <2>2, <2>3
<1>3. ShareAccess' = Sharing(before, a, s) BY DEF ShareAccessAfter
<1> HIDE DEF before
<1>4. ShareAccess' \in ShareRecord
  BY <1>1, <1>3 DEF Sharing, One, ShareRecord
<1>5. ASSUME NEW m \in Modes
      PROVE  /\ ShareAccess'.users[m] = before.users[m] + (IF m \in a THEN 1 ELSE 0)
             /\ ShareAccess'.sharers[m] = before.sharers[m] + (IF a # {} /\ m \in s THEN 1 ELSE 0)
             /\ ShareAccess'.open = before.open + (IF a # {} THEN 1 ELSE 0)
  BY <1>1, <1>3 DEF Sharing, One, ShareRecord
<1>6. \A m \in Modes : before.users[m] \in Nat /\ before.sharers[m] \in Nat /\ before.open \in Nat
  BY <1>1 DEF ShareRecord
<1>7. ASSUME NEW m \in Modes
      PROVE  /\ Cardinality(Using(m)) + (IF m \in a THEN 1 ELSE 0) <= ShareAccess'.users[m]
             /\ Cardinality(Lending(m)) + (IF a # {} /\ m \in s THEN 1 ELSE 0)
                  <= ShareAccess'.sharers[m]
             /\ ShareAccess'.sharers[m] + Cardinality(Keeping(m))
                  + (IF a # {} /\ m \notin s THEN 1 ELSE 0) <= ShareAccess'.open
  BY <1>2, <1>5, <1>6
<1> QED BY <1>4, <1>7

LEMMA OpenShares ==
  ASSUME TypeOK, SharingInv, NEW p \in Processes, NEW o \in FileObjects,
         NEW a \in SUBSET Modes, NEW s \in SUBSET Modes, NEW uncached \in BOOLEAN,
         Open(p, o, a, s, uncached)
  PROVE  TypeOK' /\ SharingInv'
<1> DEFINE r == [at |-> "open", access |-> a, share |-> s, uncached |-> uncached,
                 PrivateCacheMap |-> FALSE, holders |-> {p}]
<1>1. r \in ObjectRecord BY DEF ObjectRecord
<1>2. object' = [object EXCEPT ![o] = r] BY DEF Open
<1>3. r.at = "open" /\ r.access = a /\ r.share = s OBVIOUS
<1> HIDE DEF r
<1>4. /\ object' \in [FileObjects -> ObjectRecord] /\ object'[o] = r
      /\ \A q \in FileObjects : q # o => object'[q] = object[q]
  BY <1>1, <1>2, OneObject
<1>5. ~ Cleaning /\ object[o].at = "none" /\ Admitted(a, s) BY DEF Open, CanOpen
<1>6. o \notin Handles /\ o \notin Closed /\ o \notin Sharers BY <1>5 DEF Handles, Closed, Sharers
<1>7. /\ Handles' = Handles \cup {o} /\ Closed' = Closed
      /\ Sharers' = IF a # {} THEN Sharers \cup {o} ELSE Sharers
  <2>1. Handles' = Handles \cup {o}
    BY <1>1, <1>2, <1>3, SetsMove DEF HandleStates
  <2>2. Closed' = Closed \ {o}
    BY <1>1, <1>2, <1>3, SetsMove DEF ClosedStates
  <2>3. Sharers' = IF a # {} THEN Sharers \cup {o} ELSE Sharers \ {o}
    BY <1>1, <1>2, <1>3, SetsMove DEF SharerStates
  <2> QED BY <1>6, <2>1, <2>2, <2>3
<1>8. CountOpen BY DEF Open
<1>9. TypeOK'
  <2>1. ReferenceCount' \in 0 .. MaxCount + 1 /\ OpenHandleCount' \in 0 .. ReferenceCount'
    BY <1>8, FileLockAssumption DEF Open, CanOpen, CountOpen, TypeOK
  <2>2. IsFastIoPossible' \in {FastIoIsNotPossible, FastIoIsPossible, FastIoIsQuestionable}
        /\ reset' \in BOOLEAN
    BY DEF Open, MarkedByOpen, TypeOK
  <2>3. ShareAccess' \in ShareRecord BY <1>5, CountersAfterOpen DEF Open
  <2>4. UNCHANGED <<locks, waiting, op, late>> BY DEF Open
  <2> QED BY <1>4, <2>1, <2>2, <2>3, <2>4 DEF TypeOK
<1>10. CountsCover'
  <2>1. IsFiniteSet(Handles') /\ Cardinality(Handles') = Cardinality(Handles) + 1
        /\ Cardinality(Handles) \in Nat
    BY <1>6, <1>7, OneMore DEF SharingInv, CountsCover
  <2>2. IsFiniteSet(Sharers') BY <1>7, OneMore DEF SharingInv, CountsCover
  <2>3. Cardinality(Closed) \in Nat BY OneMore DEF SharingInv, CountsCover
  <2> QED BY <1>7, <1>8, <2>1, <2>2, <2>3 DEF CountOpen, CountsCover, SharingInv, TypeOK
<1>11. ShareCovers'
  <2> SUFFICES ASSUME NEW m \in Modes
               PROVE  /\ Cardinality(Using(m)') <= ShareAccess'.users[m]
                      /\ Cardinality(Lending(m)') <= ShareAccess'.sharers[m]
                      /\ ShareAccess'.sharers[m] + Cardinality(Keeping(m)') <= ShareAccess'.open
    BY DEF ShareCovers
  <2>1. o \notin Using(m) /\ o \notin Lending(m) /\ o \notin Keeping(m)
    BY <1>6 DEF Using, Lending, Keeping
  <2>2. /\ Using(m)' = IF m \in a THEN Using(m) \cup {o} ELSE Using(m) \ {o}
        /\ Lending(m)' = IF a # {} /\ m \in s THEN Lending(m) \cup {o} ELSE Lending(m) \ {o}
        /\ Keeping(m)' = IF a # {} /\ m \notin s THEN Keeping(m) \cup {o} ELSE Keeping(m) \ {o}
    BY <1>1, <1>2, <1>3, SetsMove DEF SharerStates
  <2>3. /\ Cardinality(Using(m)') = Cardinality(Using(m)) + (IF m \in a THEN 1 ELSE 0)
        /\ Cardinality(Lending(m)') = Cardinality(Lending(m)) + (IF a # {} /\ m \in s THEN 1 ELSE 0)
        /\ Cardinality(Keeping(m)') = Cardinality(Keeping(m)) + (IF a # {} /\ m \notin s THEN 1 ELSE 0)
        /\ Cardinality(Using(m)) \in Nat /\ Cardinality(Lending(m)) \in Nat
        /\ Cardinality(Keeping(m)) \in Nat
    <3>1. IsFiniteSet(Using(m)) /\ IsFiniteSet(Lending(m)) /\ IsFiniteSet(Keeping(m))
      BY FiniteParts DEF SharingInv
    <3>2. Cardinality(Using(m)') = Cardinality(Using(m)) + (IF m \in a THEN 1 ELSE 0)
          /\ Cardinality(Using(m)) \in Nat
      BY <2>1, <2>2, <3>1, MaybeOneMore, ZenonT(30)
    <3>3. Cardinality(Lending(m)') = Cardinality(Lending(m)) + (IF a # {} /\ m \in s THEN 1 ELSE 0)
          /\ Cardinality(Lending(m)) \in Nat
      BY <2>1, <2>2, <3>1, MaybeOneMore
    <3>4. Cardinality(Keeping(m)') = Cardinality(Keeping(m)) + (IF a # {} /\ m \notin s THEN 1 ELSE 0)
          /\ Cardinality(Keeping(m)) \in Nat
      BY <2>1, <2>2, <3>1, MaybeOneMore
    <3> QED BY <3>2, <3>3, <3>4
  <2>4. /\ Cardinality(Using(m)) + (IF m \in a THEN 1 ELSE 0) <= ShareAccess'.users[m]
        /\ Cardinality(Lending(m)) + (IF a # {} /\ m \in s THEN 1 ELSE 0) <= ShareAccess'.sharers[m]
        /\ ShareAccess'.sharers[m] + Cardinality(Keeping(m))
             + (IF a # {} /\ m \notin s THEN 1 ELSE 0) <= ShareAccess'.open
    BY <1>5, CountersAfterOpen DEF Open
  <2>5. ShareAccess'.sharers[m] \in Nat /\ ShareAccess'.open \in Nat
    BY <1>9 DEF TypeOK, ShareRecord
  <2> QED BY <2>3, <2>4, <2>5
<1>12. OpenFilesShare'
  <2> SUFFICES ASSUME NEW q \in FileObjects, NEW k \in FileObjects, q # k,
                      object'[q].at \in HandleStates, object'[k].at \in HandleStates,
                      object'[k].access # {}
               PROVE  object'[q].access \subseteq object'[k].share
    BY DEF OpenFilesShare, HandleStates
  <2>1. \A j \in FileObjects : j # o /\ object[j].at \in HandleStates /\ object[j].access # {} =>
          j \in Sharers
    BY DEF HandleStates, Sharers
  <2>2. CASE q = o /\ a # {}
    <3>1. k # o /\ object'[k] = object[k] BY <1>4, <2>2
    <3>2. k \in Sharers BY <2>1, <3>1
    <3>3. a \subseteq object[k].share BY <1>5, <2>2, <3>2, AdmittedAgrees
    <3> QED BY <1>3, <1>4, <2>2, <3>1, <3>3
  <2>3. CASE q = o /\ a = {} BY <1>3, <1>4, <2>3
  <2>4. CASE k = o /\ object[q].access # {}
    BY <1>3, <1>4, <1>5, <2>1, <2>4, AdmittedAgrees
  <2>5. CASE k = o /\ object[q].access = {} BY <1>4, <2>5
  <2>6. CASE q # o /\ k # o
    BY <1>4, <2>6 DEF SharingInv, OpenFilesShare, HandleStates
  <2> QED BY <2>2, <2>3, <2>4, <2>5, <2>6
<1> QED BY <1>9, <1>10, <1>11, <1>12 DEF SharingInv

LEMMA LateShares ==
  ASSUME TypeOK, SharingInv, NEW a \in SUBSET Modes, NEW s \in SUBSET Modes,
         NEW uncached \in BOOLEAN, OpenFailsLate(a, s, uncached)
  PROVE  TypeOK' /\ SharingInv'
<1>1. ~ Cleaning /\ CountOpen /\ ReferenceCount < MaxCount BY DEF OpenFailsLate, CanOpen
<1>2. object' = object BY DEF OpenFailsLate
<1>3. /\ Handles' = Handles /\ Closed' = Closed /\ Sharers' = Sharers
      /\ \A m \in Modes : Using(m)' = Using(m) /\ Lending(m)' = Lending(m) /\ Keeping(m)' = Keeping(m)
  BY <1>2 DEF Handles, Closed, Sharers, Using, Lending, Keeping
<1>4. TypeOK'
  <2>1. ReferenceCount' \in 0 .. MaxCount + 1 /\ OpenHandleCount' \in 0 .. ReferenceCount'
    BY <1>1, FileLockAssumption DEF CountOpen, TypeOK
  <2>2. IsFastIoPossible' \in {FastIoIsNotPossible, FastIoIsPossible, FastIoIsQuestionable}
        /\ reset' \in BOOLEAN
    BY DEF OpenFailsLate, MarkedByOpen, TypeOK
  <2>3. ShareAccess' \in ShareRecord BY <1>1, CountersAfterOpen DEF OpenFailsLate
  <2>4. UNCHANGED <<object, locks, waiting, op, late>> BY DEF OpenFailsLate
  <2> QED BY <2>1, <2>2, <2>3, <2>4 DEF TypeOK
<1>5. CountsCover'
  <2>1. Cardinality(Handles) \in Nat /\ Cardinality(Closed) \in Nat
    BY OneMore DEF SharingInv, CountsCover
  <2> QED BY <1>1, <1>3, <2>1 DEF CountOpen, CountsCover, SharingInv, TypeOK
<1>6. ShareCovers'
  <2> SUFFICES ASSUME NEW m \in Modes
               PROVE  /\ Cardinality(Using(m)) <= ShareAccess'.users[m]
                      /\ Cardinality(Lending(m)) <= ShareAccess'.sharers[m]
                      /\ ShareAccess'.sharers[m] + Cardinality(Keeping(m)) <= ShareAccess'.open
    BY <1>3 DEF ShareCovers
  <2>1. Cardinality(Using(m)) \in Nat /\ Cardinality(Lending(m)) \in Nat
        /\ Cardinality(Keeping(m)) \in Nat
    BY FiniteParts, OneMore DEF SharingInv
  <2>2. ShareAccess'.users[m] \in Nat /\ ShareAccess'.sharers[m] \in Nat /\ ShareAccess'.open \in Nat
    BY <1>4 DEF TypeOK, ShareRecord
  <2>3. /\ Cardinality(Using(m)) + (IF m \in a THEN 1 ELSE 0) <= ShareAccess'.users[m]
        /\ Cardinality(Lending(m)) + (IF a # {} /\ m \in s THEN 1 ELSE 0) <= ShareAccess'.sharers[m]
        /\ ShareAccess'.sharers[m] + Cardinality(Keeping(m))
             + (IF a # {} /\ m \notin s THEN 1 ELSE 0) <= ShareAccess'.open
    BY <1>1, CountersAfterOpen DEF OpenFailsLate
  <2> QED BY <2>1, <2>2, <2>3
<1>7. OpenFilesShare' BY <1>2 DEF OpenFilesShare, SharingInv
<1> QED BY <1>4, <1>5, <1>6, <1>7 DEF SharingInv
-----------------------------------------------------------------------------
(* Locks that are released *)

LEMMA Released ==
  ASSUME TypeOK, NEW S, Release(S)
  PROVE  /\ locks' \subseteq Locks /\ waiting' \subseteq Locks /\ late' \subseteq locks' \cup waiting'
         /\ locks' \cup waiting' = (locks \cup waiting) \ S /\ late' = late \ S
         /\ locks' = {} => waiting' = {}
<1> DEFINE left == locks \ S
           asking == waiting \ S
<1>1. PICK granted \in SUBSET asking :
        /\ \A l \in asking \ granted : ~ Grantable(l, left \cup granted)
        /\ locks' = left \cup granted /\ waiting' = asking \ granted /\ late' = late \ S
  BY DEF Release
<1>2. locks' \cup waiting' = (locks \cup waiting) \ S BY <1>1
<1>3. ASSUME locks' = {} PROVE waiting' = {}
  <2>1. \A l \in asking \ granted : ~ Grantable(l, {}) BY <1>1, <1>3
  <2> QED BY <1>1, <2>1 DEF Grantable
<1> QED BY <1>1, <1>2, <1>3 DEF TypeOK

LEMMA LockTyped ==
  ASSUME TypeOK, NEW p \in Processes, op[p].obj \in FileObjects, op[p].bytes \in Ranges
  PROVE  LockOf(p) \in Locks
BY DEF LockOf, Locks, TypeOK, OpRecord

LEMMA OpTyped ==
  ASSUME TypeOK, NEW p \in Processes
  PROVE  /\ NoOp \in OpRecord
         /\ [op EXCEPT ![p] = NoOp] \in [Processes -> OpRecord]
         /\ \A s \in {"idle", "fastlock", "lock", "sharing"} :
              [op EXCEPT ![p].at = s] \in [Processes -> OpRecord]
<1>1. NoOp \in OpRecord BY DEF NoOp, OpRecord
<1>2. [op EXCEPT ![p] = NoOp] \in [Processes -> OpRecord] BY <1>1 DEF TypeOK
<1>3. ASSUME NEW s \in {"idle", "fastlock", "lock", "sharing"}
      PROVE  [op EXCEPT ![p].at = s] \in [Processes -> OpRecord]
  <2>1. op \in [Processes -> OpRecord] BY DEF TypeOK
  <2>2. [op[p] EXCEPT !.at = s] \in OpRecord BY <2>1 DEF OpRecord
  <2>3. [op EXCEPT ![p].at = s] = [op EXCEPT ![p] = [op[p] EXCEPT !.at = s]] OBVIOUS
  <2> QED BY <2>1, <2>2, <2>3
<1> QED BY <1>1, <1>2, <1>3
-----------------------------------------------------------------------------
(* Cleanup and close *)

LEMMA BecomesOne ==
  ASSUME TypeOK, NEW o \in FileObjects,
         NEW s \in {"none", "open", "closing", "unlocked", "nolocks", "locks", "cleaned"},
         Becomes(o, s)
  PROVE  /\ [object[o] EXCEPT !.at = s] \in ObjectRecord
         /\ object' = [object EXCEPT ![o] = [object[o] EXCEPT !.at = s]]
         /\ [object[o] EXCEPT !.at = s].at = s
         /\ [object[o] EXCEPT !.at = s].access = object[o].access
         /\ [object[o] EXCEPT !.at = s].share = object[o].share
         /\ [object[o] EXCEPT !.at = s].holders = object[o].holders
<1>1. object[o] \in ObjectRecord BY DEF TypeOK
<1> QED BY <1>1 DEF ObjectRecord, Becomes

(* The handle is counted out, and the file object is one to close. *)
LEMMA CleanupShares ==
  ASSUME TypeOK, SharingInv, NEW o \in FileObjects, Cleanup(o)
  PROVE  TypeOK' /\ SharingInv'
<1> DEFINE r == [object[o] EXCEPT !.at = "unlocked"]
<1>1. Becomes(o, "unlocked") /\ object[o].at = "closing" /\ OpenHandleCount' = OpenHandleCount - 1
  BY DEF Cleanup
<1>2. /\ r \in ObjectRecord /\ object' = [object EXCEPT ![o] = r]
      /\ r.at = "unlocked" /\ r.access = object[o].access /\ r.share = object[o].share
  BY <1>1, BecomesOne
<1> HIDE DEF r
<1>3. /\ object' \in [FileObjects -> ObjectRecord] /\ object'[o] = r
      /\ \A q \in FileObjects : q # o => object'[q] = object[q]
  BY <1>2, OneObject
<1>4. o \in Handles /\ o \notin Closed BY <1>1 DEF Handles, Closed
<1>5. Handles' = Handles \ {o}
  BY <1>2, SetsMove DEF HandleStates
<1>6. Closed' = Closed \cup {o}
  BY <1>2, SetsMove DEF ClosedStates
<1>7. /\ Sharers' = Sharers
      /\ \A m \in Modes : Using(m)' = Using(m) /\ Lending(m)' = Lending(m) /\ Keeping(m)' = Keeping(m)
  <2>1. Sharers' = Sharers
    BY <1>1, <1>2, <1>3 DEF Sharers
  <2> QED BY <1>2, <1>3, <2>1 DEF Using, Lending, Keeping, Sharers
<1>8. /\ IsFiniteSet(Handles') /\ IsFiniteSet(Closed') /\ Cardinality(Handles) \in Nat
      /\ Cardinality(Handles') = Cardinality(Handles) - 1 /\ Cardinality(Handles') \in Nat
      /\ Cardinality(Closed) \in Nat /\ Cardinality(Closed') = Cardinality(Closed) + 1
  <2>1. IsFiniteSet(Handles) /\ IsFiniteSet(Closed) BY DEF SharingInv, CountsCover
  <2>2. IsFiniteSet(Handles') /\ Cardinality(Handles') = Cardinality(Handles) - 1
    BY <1>4, <1>5, <2>1, OneMore
  <2>3. IsFiniteSet(Closed') /\ Cardinality(Closed') = Cardinality(Closed) + 1
    BY <1>4, <1>6, <2>1, OneMore
  <2> QED BY <2>1, <2>2, <2>3, FS_CardinalityType
<1>9. UNCHANGED <<ReferenceCount, IsFastIoPossible, ShareAccess, op, reset>> BY DEF Cleanup
<1>10. CountsCover'
  BY <1>1, <1>7, <1>8, <1>9 DEF CountsCover, SharingInv, TypeOK
<1>11. TypeOK'
  <2>1. OpenHandleCount' \in 0 .. ReferenceCount'
    BY <1>1, <1>8, <1>9 DEF CountsCover, SharingInv, TypeOK
  <2>2. locks' \subseteq Locks /\ waiting' \subseteq Locks /\ late' \subseteq locks' \cup waiting'
    BY Released DEF Cleanup
  <2> QED BY <1>3, <1>9, <2>1, <2>2 DEF TypeOK
<1>12. ShareCovers' BY <1>7, <1>9 DEF ShareCovers, SharingInv
<1>13. OpenFilesShare'
  BY <1>2, <1>3 DEF OpenFilesShare, SharingInv
<1> QED BY <1>10, <1>11, <1>12, <1>13 DEF SharingInv

(* The file object leaves who shares; the counters only when no handle is.  *)
LEMMA CleanupEndsShares ==
  ASSUME TypeOK, SharingInv, NEW o \in FileObjects, CleanupEnds(o)
  PROVE  TypeOK' /\ SharingInv'
<1> DEFINE r == [NotOpen EXCEPT !.at = "cleaned"]
           a == object[o].access
           s == object[o].share
<1>1. /\ r \in ObjectRecord /\ r.at = "cleaned" /\ r.access = {} /\ r.share = {}
      /\ object' = [object EXCEPT ![o] = r]
  BY DEF CleanupEnds, NotOpen, ObjectRecord
<1> HIDE DEF r
<1>2. object[o].at \in {"locks", "nolocks"} BY DEF CleanupEnds
<1>3. /\ object' \in [FileObjects -> ObjectRecord] /\ object'[o] = r
      /\ \A q \in FileObjects : q # o => object'[q] = object[q]
  BY <1>1, OneObject
<1>4. a \subseteq Modes /\ s \subseteq Modes BY DEF TypeOK, ObjectRecord
<1>5. o \notin Handles /\ o \in Closed /\ (o \in Sharers <=> a # {})
  BY <1>2 DEF Handles, Closed, Sharers
<1>6. Handles' = Handles /\ Closed' = Closed /\ Sharers' = Sharers \ {o}
  <2>1. Handles' = Handles \ {o} BY <1>1, SetsMove DEF HandleStates
  <2>2. Closed' = Closed \cup {o} BY <1>1, SetsMove DEF ClosedStates
  <2>3. Sharers' = Sharers \ {o} BY <1>1, SetsMove
  <2> QED BY <1>5, <2>1, <2>2, <2>3
<1>7. UNCHANGED <<OpenHandleCount, ReferenceCount, locks, waiting, late, op>>
  BY DEF CleanupEnds, unlocked
<1>8. CountsCover'
  <2>1. IsFiniteSet(Sharers') BY <1>6, FS_Subset DEF SharingInv, CountsCover
  <2> QED BY <1>6, <1>7, <2>1 DEF SharingInv, CountsCover
<1>9. ASSUME NEW m \in Modes
      PROVE  /\ Using(m)' = Using(m) \ {o} /\ Lending(m)' = Lending(m) \ {o}
             /\ Keeping(m)' = Keeping(m) \ {o}
             /\ o \in Using(m) <=> m \in a
             /\ o \in Lending(m) <=> a # {} /\ m \in s
             /\ o \in Keeping(m) <=> a # {} /\ m \notin s
             /\ IsFiniteSet(Using(m)) /\ IsFiniteSet(Lending(m)) /\ IsFiniteSet(Keeping(m))
  <2>1. /\ Using(m)' = Using(m) \ {o} /\ Lending(m)' = Lending(m) \ {o}
        /\ Keeping(m)' = Keeping(m) \ {o}
    BY <1>1, SetsMove
  <2>2. /\ o \in Using(m) <=> m \in a
        /\ o \in Lending(m) <=> a # {} /\ m \in s
        /\ o \in Keeping(m) <=> a # {} /\ m \notin s
    BY <1>5 DEF Using, Lending, Keeping
  <2> QED BY <2>1, <2>2, FiniteParts DEF SharingInv
<1>10. ASSUME NEW m \in Modes
       PROVE  /\ Cardinality(Using(m)') = Cardinality(Using(m)) - (IF m \in a THEN 1 ELSE 0)
              /\ Cardinality(Lending(m)')
                   = Cardinality(Lending(m)) - (IF a # {} /\ m \in s THEN 1 ELSE 0)
              /\ Cardinality(Keeping(m)')
                   = Cardinality(Keeping(m)) - (IF a # {} /\ m \notin s THEN 1 ELSE 0)
              /\ Cardinality(Using(m)) \in Nat /\ Cardinality(Using(m)') \in Nat
              /\ Cardinality(Lending(m)) \in Nat /\ Cardinality(Lending(m)') \in Nat
              /\ Cardinality(Keeping(m)) \in Nat /\ Cardinality(Keeping(m)') \in Nat
  <2>1. /\ Cardinality(Using(m)') = Cardinality(Using(m)) - (IF m \in a THEN 1 ELSE 0)
        /\ Cardinality(Using(m)) \in Nat /\ Cardinality(Using(m)') \in Nat
    BY <1>9, MaybeOneLess
  <2>2. /\ Cardinality(Lending(m)')
             = Cardinality(Lending(m)) - (IF a # {} /\ m \in s THEN 1 ELSE 0)
        /\ Cardinality(Lending(m)) \in Nat /\ Cardinality(Lending(m)') \in Nat
    BY <1>9, MaybeOneLess
  <2>3. /\ Cardinality(Keeping(m)')
             = Cardinality(Keeping(m)) - (IF a # {} /\ m \notin s THEN 1 ELSE 0)
        /\ Cardinality(Keeping(m)) \in Nat /\ Cardinality(Keeping(m)') \in Nat
    BY <1>9, MaybeOneLess
  <2> QED BY <2>1, <2>2, <2>3
<1>11. \A m \in Modes :
         /\ Cardinality(Using(m)) <= ShareAccess.users[m]
         /\ Cardinality(Lending(m)) <= ShareAccess.sharers[m]
         /\ ShareAccess.sharers[m] + Cardinality(Keeping(m)) <= ShareAccess.open
         /\ ShareAccess.users[m] \in Nat /\ ShareAccess.sharers[m] \in Nat /\ ShareAccess.open \in Nat
  BY DEF SharingInv, ShareCovers, TypeOK, ShareRecord
<1>12. ShareAccess' \in ShareRecord /\ ShareCovers'
  <2>1. CASE OpenHandleCount = 0 /\ a # {}
    <3>1. ShareAccess' = [open |-> ShareAccess.open - 1,
                          users |-> [m \in Modes |-> ShareAccess.users[m] - One(m \in a)],
                          sharers |-> [m \in Modes |-> ShareAccess.sharers[m] - One(m \in s)]]
      BY <2>1 DEF CleanupEnds, NotSharing
    <3>2. /\ ShareAccess'.open = ShareAccess.open - 1
          /\ \A m \in Modes :
               /\ ShareAccess'.users[m] = ShareAccess.users[m] - (IF m \in a THEN 1 ELSE 0)
               /\ ShareAccess'.sharers[m] = ShareAccess.sharers[m] - (IF m \in s THEN 1 ELSE 0)
      BY <3>1 DEF One
    <3>3. \A m \in Modes :
            /\ ShareAccess'.users[m] \in Nat /\ ShareAccess'.sharers[m] \in Nat
            /\ ShareAccess'.open \in Nat
            /\ Cardinality(Using(m)') <= ShareAccess'.users[m]
            /\ Cardinality(Lending(m)') <= ShareAccess'.sharers[m]
            /\ ShareAccess'.sharers[m] + Cardinality(Keeping(m)') <= ShareAccess'.open
      BY <1>10, <1>11, <2>1, <3>2
    <3>4. ShareCovers' BY <3>3 DEF ShareCovers
    <3>5. ShareAccess'.open \in Nat BY <3>3, FileLockAssumption
    <3>6. ShareAccess' = [open |-> ShareAccess'.open, users |-> ShareAccess'.users,
                          sharers |-> ShareAccess'.sharers]
          /\ ShareAccess'.users \in [Modes -> Nat] /\ ShareAccess'.sharers \in [Modes -> Nat]
      BY <3>1, <3>3
    <3>7. ShareAccess' \in ShareRecord BY <3>5, <3>6 DEF ShareRecord
    <3> QED BY <3>4, <3>7
  <2>2. CASE ~ (OpenHandleCount = 0 /\ a # {})
    <3>1. ShareAccess' = ShareAccess BY <2>2 DEF CleanupEnds, NotSharing
    <3>2. ShareAccess' \in ShareRecord BY <3>1 DEF TypeOK
    <3>3. \A m \in Modes :
            /\ Cardinality(Using(m)') <= ShareAccess'.users[m]
            /\ Cardinality(Lending(m)') <= ShareAccess'.sharers[m]
            /\ ShareAccess'.sharers[m] + Cardinality(Keeping(m)') <= ShareAccess'.open
      BY <1>10, <1>11, <3>1
    <3> QED BY <3>2, <3>3 DEF ShareCovers
  <2> QED BY <2>1, <2>2
<1>13. TypeOK'
  <2>1. IsFastIoPossible' \in {FastIoIsNotPossible, FastIoIsPossible, FastIoIsQuestionable}
        /\ reset' \in BOOLEAN
    BY DEF CleanupEnds, TypeOK
  <2> QED BY <1>3, <1>7, <1>12, <2>1 DEF TypeOK
<1>14. OpenFilesShare' BY <1>1, <1>3 DEF OpenFilesShare, SharingInv
<1> QED BY <1>8, <1>12, <1>13, <1>14 DEF SharingInv

(* The last reference is that of the only file object left. *)
LEMMA LastIsAlone ==
  ASSUME TypeOK, SharingInv, NEW o \in FileObjects, object[o].at = "cleaned", LastReference
  PROVE  \A q \in FileObjects : q # o => object[q].at = "none"
<1>1. o \in Closed /\ IsFiniteSet(Closed) /\ IsFiniteSet(Handles)
  BY DEF Closed, SharingInv, CountsCover
<1>2. /\ Cardinality(Closed) \in Nat /\ Cardinality(Handles) \in Nat
      /\ IsFiniteSet(Closed \ {o}) /\ Cardinality(Closed \ {o}) = Cardinality(Closed) - 1
  BY <1>1, OneMore
<1>3. Cardinality(Closed \ {o}) \in Nat BY <1>2, FS_CardinalityType
<1>4. Cardinality(Closed \ {o}) = 0 /\ Cardinality(Handles) = 0
  BY <1>2, <1>3 DEF SharingInv, CountsCover, LastReference, TypeOK
<1>5. Closed \ {o} = {} /\ Handles = {} BY <1>1, <1>2, <1>4, FS_EmptySet
<1>6. \A q \in FileObjects : object[q].at \in HandleStates \cup ClosedStates \cup {"none"}
  BY DEF TypeOK, ObjectRecord, HandleStates, ClosedStates
<1> QED BY <1>5, <1>6 DEF Closed, Handles, HandleStates, ClosedStates

LEMMA CloseShares ==
  ASSUME TypeOK, SharingInv, NEW o \in FileObjects, Close(o)
  PROVE  TypeOK' /\ SharingInv'
<1>1. /\ NotOpen \in ObjectRecord /\ NotOpen.at = "none" /\ NotOpen.access = {}
      /\ object' = [object EXCEPT ![o] = NotOpen]
  BY DEF Close, NotOpen, ObjectRecord
<1>2. object[o].at = "cleaned" /\ ReferenceCount' = ReferenceCount - 1 BY DEF Close
<1>3. /\ object' \in [FileObjects -> ObjectRecord] /\ object'[o] = NotOpen
      /\ \A q \in FileObjects : q # o => object'[q] = object[q]
  BY <1>1, OneObject
<1>4. o \notin Handles /\ o \in Closed /\ o \notin Sharers
  BY <1>2 DEF Handles, Closed, Sharers
<1>5. Handles' = Handles /\ Closed' = Closed \ {o}
  <2>1. Handles' = Handles \ {o} BY <1>1, SetsMove DEF HandleStates
  <2>2. Closed' = Closed \ {o} BY <1>1, SetsMove DEF ClosedStates
  <2> QED BY <1>4, <2>1, <2>2
<1>6. /\ Sharers' = Sharers
      /\ \A m \in Modes : Using(m)' = Using(m) /\ Lending(m)' = Lending(m) /\ Keeping(m)' = Keeping(m)
  <2>1. Sharers' = Sharers BY <1>1, <1>2, <1>3 DEF Sharers
  <2> QED BY <1>3, <1>4, <2>1 DEF Using, Lending, Keeping, Sharers
<1>7. UNCHANGED <<OpenHandleCount, op>> BY DEF Close
<1>8. /\ IsFiniteSet(Closed') /\ Cardinality(Closed') = Cardinality(Closed) - 1
      /\ Cardinality(Closed) \in Nat /\ Cardinality(Closed') \in Nat
  BY <1>4, <1>5, OneMore, FS_CardinalityType DEF SharingInv, CountsCover
<1>9. CountsCover'
  BY <1>2, <1>5, <1>6, <1>7, <1>8 DEF CountsCover, SharingInv, TypeOK
<1>10. ShareAccess' \in ShareRecord /\ ShareCovers'
  <2>1. CASE LastReference
    <3>1. ShareAccess' = NobodyOpen BY <2>1 DEF Close
    <3>2. Sharers = {}
      BY <1>2, <2>1, LastIsAlone DEF Sharers
    <3>3. \A m \in Modes : Using(m)' = {} /\ Lending(m)' = {} /\ Keeping(m)' = {}
      BY <1>6, <3>2 DEF Using, Lending, Keeping
    <3>4. Cardinality({}) = 0 BY FS_EmptySet
    <3>5. ShareAccess' \in ShareRecord BY <3>1 DEF NobodyOpen, ShareRecord
    <3>6. \A m \in Modes :
            ShareAccess'.users[m] = 0 /\ ShareAccess'.sharers[m] = 0 /\ ShareAccess'.open = 0
      BY <3>1 DEF NobodyOpen
    <3>7. ShareCovers' BY <3>3, <3>4, <3>6 DEF ShareCovers
    <3> QED BY <3>5, <3>7
  <2>2. CASE ~ LastReference
    <3>1. ShareAccess' = ShareAccess BY <2>2 DEF Close
    <3> QED BY <1>6, <3>1 DEF ShareCovers, SharingInv, TypeOK
  <2> QED BY <2>1, <2>2
<1>11. TypeOK'
  <2>1. ReferenceCount' \in 0 .. MaxCount + 1 /\ OpenHandleCount' \in 0 .. ReferenceCount'
    BY <1>2, <1>7, <1>8, <1>9, FileLockAssumption DEF CountsCover, TypeOK
  <2>2. /\ IsFastIoPossible' \in {FastIoIsNotPossible, FastIoIsPossible, FastIoIsQuestionable}
        /\ reset' \in BOOLEAN /\ locks' \subseteq Locks /\ waiting' \subseteq Locks
        /\ late' \subseteq locks' \cup waiting'
    <3>1. CASE LastReference BY <3>1 DEF Close
    <3>2. CASE ~ LastReference BY <3>2 DEF Close, TypeOK, unlocked
    <3> QED BY <3>1, <3>2
  <2> QED BY <1>3, <1>7, <1>10, <2>1, <2>2 DEF TypeOK
<1>12. OpenFilesShare' BY <1>1, <1>3 DEF OpenFilesShare, SharingInv
<1> QED BY <1>9, <1>10, <1>11, <1>12 DEF SharingInv
-----------------------------------------------------------------------------
(* The steps that share nothing anew *)

counters == <<OpenHandleCount, ReferenceCount, ShareAccess>>

LEMMA QuietShares ==
  ASSUME SharingInv, UNCHANGED <<object, counters>>
  PROVE  SharingInv'
<1>1. \A q \in FileObjects : Alike(object'[q], object[q]) BY DEF Alike, counters
<1> QED BY <1>1, SharingKept DEF counters

(* Asking for a lock, and what becomes of it *)
LEMMA AskingTyped ==
  ASSUME TypeOK, NEW p \in Processes, NEW o \in FileObjects, NEW b \in Ranges, NEW e \in LockKinds,
         NEW by \in {"lock", "fastlock"}, AsksFor(p, o, by, b, e), Questionable,
         UNCHANGED <<object, OpenHandleCount, ReferenceCount, ShareAccess, unlocked>>
  PROVE  TypeOK'
<1>1. [at |-> by, obj |-> o, bytes |-> b, exclusive |-> e] \in OpRecord
  BY FileLockAssumption DEF OpRecord, Ranges
<1>2. op' \in [Processes -> OpRecord] BY <1>1 DEF AsksFor, TypeOK
<1> QED BY <1>2 DEF TypeOK, Questionable, unlocked

LEMMA AnswerTyped ==
  ASSUME TypeOK, LockInv, NEW p \in Processes,
         Granted(p) \/ NotGranted(p) \/ Waits(p) \/ SendIrp(p) \/ Done(p)
  PROVE  TypeOK'
<1>1. CASE Granted(p)
  <2>1. LockOf(p) \in Locks BY <1>1, LockTyped DEF Granted, LockInv, AskingIsOpen
  <2>2. locks' \subseteq Locks /\ waiting' \subseteq Locks /\ late' \subseteq locks' \cup waiting'
        /\ reset' \in BOOLEAN
    BY <1>1, <2>1 DEF Granted, TypeOK
  <2>3. op' \in [Processes -> OpRecord] BY <1>1, OpTyped DEF Granted
  <2> QED BY <1>1, <2>2, <2>3 DEF Granted, TypeOK
<1>2. CASE NotGranted(p)
  <2>1. op' \in [Processes -> OpRecord] BY <1>2, OpTyped DEF NotGranted
  <2> QED BY <1>2, <2>1 DEF NotGranted, TypeOK, unlocked
<1>3. CASE Waits(p)
  <2>1. p \in Asking BY <1>3 DEF Waits, Asking
  <2>2. LockOf(p) \in Locks BY <2>1, LockTyped DEF LockInv, AskingIsOpen
  <2>3. waiting' \subseteq Locks /\ late' \subseteq locks' \cup waiting'
    BY <1>3, <2>2 DEF Waits, TypeOK
  <2>4. op' \in [Processes -> OpRecord] BY <1>3, OpTyped DEF Waits
  <2> QED BY <1>3, <2>3, <2>4 DEF Waits, TypeOK
<1>4. CASE SendIrp(p)
  <2>1. op' \in [Processes -> OpRecord] BY <1>4, OpTyped DEF SendIrp
  <2> QED BY <1>4, <2>1 DEF SendIrp, Questionable, TypeOK, unlocked
<1>5. CASE Done(p)
  <2>1. op' \in [Processes -> OpRecord] BY <1>5, OpTyped DEF Done
  <2> QED BY <1>5, <2>1 DEF Done, TypeOK, unlocked
<1> QED BY <1>1, <1>2, <1>3, <1>4, <1>5

LEMMA ReadTyped ==
  ASSUME TypeOK, SharingInv, NEW p \in Processes, NEW o \in FileObjects,
         \/ \E b \in Ranges : ReadFile(p, o, b) \/ CopyRead(p, o, b)
         \/ FastIoQuery(p, o)
  PROVE  TypeOK' /\ SharingInv'
<1>1. Shares(p) BY DEF ReadFile, CopyRead, FastIoQuery
<1>2. op' \in [Processes -> OpRecord] BY <1>1, OpTyped DEF Shares
<1>3. UNCHANGED <<OpenHandleCount, ReferenceCount, IsFastIoPossible, ShareAccess, locks, waiting, late, reset>>
  BY DEF ReadFile, CopyRead, FastIoQuery, unlocked
<1>4. object' \in [FileObjects -> ObjectRecord] /\ \A q \in FileObjects : Alike(object'[q], object[q])
  <2>1. CASE object' = object BY <2>1 DEF TypeOK, Alike
  <2>2. CASE \E b \in Ranges : ReadFile(p, o, b)
    <3> DEFINE c == object[o].PrivateCacheMap \/ ~ object[o].uncached
               r == [object[o] EXCEPT !.PrivateCacheMap = c]
    <3>1. object[o] \in ObjectRecord BY DEF TypeOK
    <3>2. r \in ObjectRecord BY <3>1 DEF ObjectRecord
    <3>3. object' = [object EXCEPT ![o] = r] BY <2>2 DEF ReadFile
    <3>4. r.at = object[o].at /\ r.access = object[o].access /\ r.share = object[o].share
      BY <3>1 DEF ObjectRecord
    <3> HIDE DEF r
    <3>5. /\ object' \in [FileObjects -> ObjectRecord] /\ object'[o] = r
          /\ \A q \in FileObjects : q # o => object'[q] = object[q]
      BY <3>2, <3>3, OneObject
    <3> QED BY <3>4, <3>5 DEF Alike
  <2> QED BY <2>1, <2>2 DEF CopyRead, FastIoQuery
<1>5. SharingInv' BY <1>3, <1>4, SharingKept
<1> QED BY <1>2, <1>3, <1>4, <1>5 DEF TypeOK

LEMMA HoldersTyped ==
  ASSUME TypeOK, SharingInv, NEW o \in FileObjects, NEW H \in SUBSET Processes,
         object' = [object EXCEPT ![o].holders = H], UNCHANGED counters
  PROVE  object' \in [FileObjects -> ObjectRecord] /\ SharingInv'
<1> DEFINE r == [object[o] EXCEPT !.holders = H]
<1>1. object[o] \in ObjectRecord BY DEF TypeOK
<1>2. r \in ObjectRecord BY <1>1 DEF ObjectRecord
<1>3. r.at = object[o].at /\ r.access = object[o].access /\ r.share = object[o].share
  BY <1>1 DEF ObjectRecord
<1>4. object' = [object EXCEPT ![o] = r] OBVIOUS
<1> HIDE DEF r
<1>5. /\ object' \in [FileObjects -> ObjectRecord] /\ object'[o] = r
      /\ \A q \in FileObjects : q # o => object'[q] = object[q]
  BY <1>2, <1>4, OneObject
<1>6. \A q \in FileObjects : Alike(object'[q], object[q]) BY <1>3, <1>5 DEF Alike
<1> QED BY <1>5, <1>6, SharingKept DEF counters

LEMMA BecomesTyped ==
  ASSUME TypeOK, SharingInv, NEW o \in FileObjects,
         NEW s \in {"closing", "locks", "nolocks"}, Becomes(o, s),
         object[o].at = IF s = "closing" THEN "open" ELSE "unlocked", UNCHANGED counters
  PROVE  object' \in [FileObjects -> ObjectRecord] /\ SharingInv'
<1> DEFINE r == [object[o] EXCEPT !.at = s]
<1>1. /\ r \in ObjectRecord /\ object' = [object EXCEPT ![o] = r] /\ r.at = s
      /\ r.access = object[o].access /\ r.share = object[o].share
  <2>1. s \in {"none", "open", "closing", "unlocked", "nolocks", "locks", "cleaned"} OBVIOUS
  <2> QED BY <2>1, BecomesOne, ZenonT(30)
<1> HIDE DEF r
<1>2. /\ object' \in [FileObjects -> ObjectRecord] /\ object'[o] = r
      /\ \A q \in FileObjects : q # o => object'[q] = object[q]
  BY <1>1, OneObject
<1>3. \A q \in FileObjects : Alike(object'[q], object[q])
  BY <1>1, <1>2 DEF Alike, HandleStates, ClosedStates, SharerStates
<1> QED BY <1>2, <1>3, SharingKept DEF counters

LEMMA SharingStep == IInv /\ [Next]_vars => TypeOK' /\ SharingInv'
<1> SUFFICES ASSUME IInv, [Next]_vars PROVE TypeOK' /\ SharingInv'
  OBVIOUS
<1>0. TypeOK /\ SharingInv /\ LockInv BY DEF IInv, SharingInv
<1>1. ASSUME NEW p \in Processes, NEW o \in FileObjects, Opens(p, o) PROVE TypeOK' /\ SharingInv'
  <2>1. PICK k \in OpenKinds :
          \/ Open(p, o, k.access, k.share, k.uncached)
          \/ Refused(k.access, k.share, k.uncached)
          \/ OpenFailsLate(k.access, k.share, k.uncached)
    BY <1>1 DEF Opens
  <2>2. k.access \in SUBSET Modes /\ k.share \in SUBSET Modes /\ k.uncached \in BOOLEAN
    BY FileLockAssumption
  <2>3. CASE Open(p, o, k.access, k.share, k.uncached) BY <1>0, <2>2, <2>3, OpenShares
  <2>4. CASE Refused(k.access, k.share, k.uncached)
    <3>1. SharingInv' BY <1>0, <2>4, QuietShares DEF Refused, counters
    <3> QED BY <1>0, <2>4, <3>1 DEF Refused, MarkedByOpen, TypeOK
  <2>5. CASE OpenFailsLate(k.access, k.share, k.uncached) BY <1>0, <2>2, <2>5, LateShares
  <2> QED BY <2>1, <2>3, <2>4, <2>5
<1>2. ASSUME NEW p \in Processes, NEW o \in FileObjects, Asks(p, o) PROVE TypeOK' /\ SharingInv'
  <2>1. CASE \E b \in Ranges, e \in LockKinds : LockControl(p, o, b, e) \/ FastIoLock(p, o, b, e)
    <3>1. TypeOK' BY <1>0, <2>1, AskingTyped DEF LockControl, FastIoLock
    <3>2. SharingInv' BY <1>0, <2>1, QuietShares DEF LockControl, FastIoLock, counters
    <3> QED BY <3>1, <3>2
  <2>2. CASE UnlockControl(p, o) \/ FastIoUnlock(p, o)
    <3>1. Unlocks(p, o) BY <2>2 DEF UnlockControl, FastIoUnlock
    <3>2. locks' \subseteq Locks /\ waiting' \subseteq Locks /\ late' \subseteq locks' \cup waiting'
      BY <1>0, <3>1, Released DEF Unlocks
    <3>3. SharingInv' BY <1>0, <3>1, QuietShares DEF Unlocks, counters
    <3>4. IsFastIoPossible' \in {FastIoIsNotPossible, FastIoIsPossible, FastIoIsQuestionable}
          /\ reset' \in BOOLEAN
      BY <1>0, <2>2 DEF UnlockControl, FastIoUnlock, Questionable, TypeOK
    <3> QED BY <1>0, <3>1, <3>2, <3>3, <3>4 DEF Unlocks, TypeOK
  <2>3. CASE \/ \E b \in Ranges : ReadFile(p, o, b) \/ CopyRead(p, o, b)
             \/ FastIoQuery(p, o)
    BY <1>0, <2>3, ReadTyped
  <2> QED BY <1>2, <2>1, <2>2, <2>3 DEF Asks
<1>3. ASSUME NEW p \in Processes, NEW o \in FileObjects, CloseHandle(p, o) PROVE TypeOK' /\ SharingInv'
  <2>1. object' = [object EXCEPT ![o].holders = object[o].holders \ {p}]
        /\ object[o].holders \ {p} \in SUBSET Processes
    BY <1>0, <1>3 DEF CloseHandle, TypeOK, ObjectRecord
  <2>2. object' \in [FileObjects -> ObjectRecord] /\ SharingInv'
    BY <1>0, <1>3, <2>1, HoldersTyped DEF CloseHandle, counters
  <2>3. locks' \subseteq Locks /\ waiting' \subseteq Locks /\ late' \subseteq locks' \cup waiting'
    BY <1>0, <1>3, Released DEF CloseHandle
  <2> QED BY <1>0, <1>3, <2>2, <2>3 DEF CloseHandle, TypeOK
<1>4. ASSUME NEW p \in Processes, NEW o \in FileObjects, CloseLastHandle(p, o)
      PROVE TypeOK' /\ SharingInv'
  <2>1. object' \in [FileObjects -> ObjectRecord] /\ SharingInv'
    BY <1>0, <1>4, BecomesTyped DEF CloseLastHandle, counters
  <2> QED BY <1>0, <1>4, <2>1 DEF CloseLastHandle, TypeOK, unlocked
<1>5. ASSUME NEW p \in Processes, NEW q \in Processes, NEW o \in FileObjects, Duplicate(p, q, o)
      PROVE TypeOK' /\ SharingInv'
  <2>1. object' = [object EXCEPT ![o].holders = object[o].holders \cup {q}]
        /\ object[o].holders \cup {q} \in SUBSET Processes
    BY <1>0, <1>5 DEF Duplicate, TypeOK, ObjectRecord
  <2>2. object' \in [FileObjects -> ObjectRecord] /\ SharingInv'
    BY <1>0, <1>5, <2>1, HoldersTyped DEF Duplicate, counters
  <2> QED BY <1>0, <1>5, <2>2 DEF Duplicate, TypeOK
<1>6. ASSUME NEW p \in Processes,
             Granted(p) \/ NotGranted(p) \/ Waits(p) \/ SendIrp(p) \/ Done(p)
      PROVE TypeOK' /\ SharingInv'
  <2>1. TypeOK' BY <1>0, <1>6, AnswerTyped
  <2>2. UNCHANGED <<object, counters>>
    BY <1>6 DEF Granted, NotGranted, Waits, SendIrp, Done, counters
  <2> QED BY <1>0, <2>1, <2>2, QuietShares
<1>7. ASSUME NEW o \in FileObjects, CleanupLooks(o) PROVE TypeOK' /\ SharingInv'
  <2>1. object' \in [FileObjects -> ObjectRecord] /\ SharingInv'
    BY <1>0, <1>7, BecomesTyped DEF CleanupLooks, counters
  <2> QED BY <1>0, <1>7, <2>1 DEF CleanupLooks, TypeOK, unlocked
<1>8. CASE UNCHANGED vars
  <2>1. SharingInv' BY <1>0, <1>8, QuietShares DEF vars, counters
  <2> QED BY <1>0, <1>8, <2>1 DEF vars, TypeOK
<1> QED
  BY <1>0, <1>1, <1>2, <1>3, <1>4, <1>5, <1>6, <1>7, <1>8,
     CleanupShares, CleanupEndsShares, CloseShares DEF Next
-----------------------------------------------------------------------------
(* What the steps leave of the invariant of locks *)

LEMMA SameLocks ==
  ASSUME TypeOK, LockInv, UNCHANGED unlocked,
         \A o \in FileObjects : object[o].at \in HandleStates =>
           object'[o].at \in HandleStates /\ object[o].holders \subseteq object'[o].holders
  PROVE  WaitingIsForLocks' /\ LocksAreOfHandles'
<1>1. locks' = locks /\ waiting' = waiting /\ late' = late BY DEF unlocked
<1>2. \A l \in locks \cup waiting : l.obj \in FileObjects BY DEF TypeOK, Locks
<1>3. WaitingIsForLocks' BY <1>1 DEF LockInv, WaitingIsForLocks
<1>4. LocksAreOfHandles' BY <1>1, <1>2 DEF LockInv, LocksAreOfHandles, HandleStates
<1> QED BY <1>3, <1>4

(* Where locks only go, marks stay right. *)
LEMMA FewerLocks ==
  ASSUME TypeOK, LockInv, NEW S, Release(S), UNCHANGED op,
         \A o \in FileObjects : object'[o].at = "nolocks" => object[o].at = "nolocks",
         \/ UNCHANGED <<IsFastIoPossible, reset>>
         \/ Questionable
  PROVE  WaitingIsForLocks' /\ MarkedWhenAsked' /\ NoLocksIsRight'
<1>1. WaitingIsForLocks' BY Released DEF WaitingIsForLocks
<1>2. locks' # {} => locks # {} BY Released DEF LockInv, WaitingIsForLocks
<1>3. Asking' = Asking BY DEF Asking
<1>4. MarkedWhenAsked' BY <1>2, <1>3 DEF LockInv, MarkedWhenAsked, Questionable
<1>5. NoLocksIsRight' BY <1>2 DEF LockInv, NoLocksIsRight, Questionable
<1> QED BY <1>1, <1>4, <1>5

(* Who asked still has a file object. *)
LEMMA StillOpen ==
  ASSUME LockInv, Asking' \subseteq Asking,
         \A p \in Asking' : op'[p].obj = op[p].obj /\ op'[p].bytes = op[p].bytes,
         \A o \in FileObjects : object[o].at # "none" => object'[o].at # "none"
  PROVE  AskingIsOpen'
BY DEF LockInv, AskingIsOpen

LEMMA OpensLock ==
  ASSUME IInv, NEW p \in Processes, NEW o \in FileObjects, Opens(p, o)
  PROVE  LockInv'
<1>0. TypeOK /\ LockInv BY DEF IInv
<1>1. UNCHANGED <<locks, waiting, op, late>> /\ \E u \in BOOLEAN : MarkedByOpen(u)
  BY FileLockAssumption DEF Opens, Open, Refused, OpenFailsLate
<1>2. \A q \in FileObjects :
        /\ object[q].at # "none" => object'[q] = object[q]
        /\ object'[q].at # "nolocks" \/ object'[q] = object[q]
  <2>1. PICK k \in OpenKinds :
          \/ Open(p, o, k.access, k.share, k.uncached)
          \/ Refused(k.access, k.share, k.uncached)
          \/ OpenFailsLate(k.access, k.share, k.uncached)
    BY DEF Opens
  <2>2. CASE Open(p, o, k.access, k.share, k.uncached)
    BY <1>0, <2>2 DEF Open, TypeOK
  <2>3. CASE object' = object BY <2>3
  <2> QED BY <2>1, <2>2, <2>3 DEF Refused, OpenFailsLate
<1>3. Asking' = Asking BY <1>1 DEF Asking
<1>4. AskingIsOpen' BY <1>0, <1>1, <1>2, <1>3, StillOpen
<1>5. WaitingIsForLocks' /\ LocksAreOfHandles'
  <2>1. \A q \in FileObjects : object[q].at \in HandleStates => object'[q] = object[q]
    BY <1>2 DEF HandleStates
  <2> QED BY <1>0, <1>1, <2>1, SameLocks DEF unlocked
<1>6. MarkedWhenAsked'
  BY <1>0, <1>1, <1>3 DEF LockInv, MarkedWhenAsked, MarkedByOpen, LockedOrAbout
<1>7. NoLocksIsRight'
  BY <1>0, <1>1, <1>2 DEF LockInv, NoLocksIsRight, MarkedByOpen
<1> QED BY <1>4, <1>5, <1>6, <1>7 DEF LockInv

LEMMA AsksLock ==
  ASSUME IInv, NEW p \in Processes, NEW o \in FileObjects, Asks(p, o)
  PROVE  LockInv'
<1>0. TypeOK /\ LockInv BY DEF IInv
<1>1. CASE \E b \in Ranges, e \in LockKinds : LockControl(p, o, b, e) \/ FastIoLock(p, o, b, e)
  <2>1. PICK b \in Ranges, e \in LockKinds, by \in {"lock", "fastlock"} :
          /\ CanLock(p, o) /\ Questionable /\ AsksFor(p, o, by, b, e)
          /\ UNCHANGED <<object, unlocked>>
    BY <1>1 DEF LockControl, FastIoLock
  <2>2. /\ op'[p] = [at |-> by, obj |-> o, bytes |-> b, exclusive |-> e]
        /\ \A q \in Processes : q # p => op'[q] = op[q]
    BY <1>0, <2>1 DEF AsksFor, TypeOK
  <2>3. object[o].at = "open" BY <2>1 DEF CanLock, CanUse
  <2>4. AskingIsOpen'
    <3> SUFFICES ASSUME NEW q \in Asking'
                 PROVE  op'[q].obj \in FileObjects /\ object'[op'[q].obj].at # "none"
                        /\ op'[q].bytes \in Ranges
      BY DEF AskingIsOpen
    <3>1. CASE q = p BY <2>1, <2>2, <2>3, <3>1
    <3>2. CASE q # p
      <4>1. q \in Processes /\ op'[q] = op[q] BY <2>2, <3>2 DEF Asking
      <4>2. q \in Asking BY <4>1 DEF Asking
      <4> QED BY <1>0, <2>1, <4>1, <4>2 DEF LockInv, AskingIsOpen
    <3> QED BY <3>1, <3>2
  <2>5. WaitingIsForLocks' /\ LocksAreOfHandles' BY <1>0, <2>1, SameLocks
  <2>6. MarkedWhenAsked' BY <2>1 DEF MarkedWhenAsked, Questionable
  <2>7. NoLocksIsRight'
    BY <1>0, <2>1 DEF LockInv, NoLocksIsRight, Questionable, unlocked
  <2> QED BY <2>4, <2>5, <2>6, <2>7 DEF LockInv
<1>2. CASE UnlockControl(p, o) \/ FastIoUnlock(p, o)
  <2>1. PICK S \in SUBSET Own(o, p) \cup {OwnOrWaiting(o, p)} : Release(S)
    BY <1>2 DEF UnlockControl, FastIoUnlock, Unlocks
  <2>2. UNCHANGED <<object, op>> /\ locks # {}
    BY <1>2 DEF UnlockControl, FastIoUnlock, Unlocks, Own
  <2>3. UNCHANGED <<IsFastIoPossible, reset>> \/ Questionable
    BY <1>2 DEF UnlockControl, FastIoUnlock
  <2>4. WaitingIsForLocks' /\ MarkedWhenAsked' /\ NoLocksIsRight'
    BY <1>0, <2>1, <2>2, <2>3, FewerLocks
  <2>5. AskingIsOpen' BY <1>0, <2>2 DEF LockInv, AskingIsOpen, Asking
  <2>6. LocksAreOfHandles'
    BY <1>0, <2>1, <2>2, Released DEF LockInv, LocksAreOfHandles
  <2> QED BY <2>4, <2>5, <2>6 DEF LockInv
<1>3. CASE \/ \E b \in Ranges : ReadFile(p, o, b) \/ CopyRead(p, o, b)
           \/ FastIoQuery(p, o)
  <2>1. Shares(p) /\ UNCHANGED <<IsFastIoPossible, unlocked, reset>>
    BY <1>3 DEF ReadFile, CopyRead, FastIoQuery
  <2>2. \A q \in FileObjects : object'[q].at = object[q].at /\ object'[q].holders = object[q].holders
    BY <1>0, <1>3 DEF ReadFile, CopyRead, FastIoQuery, TypeOK, ObjectRecord
  <2>3. \A q \in Processes : op'[q].at = "sharing" \/ op'[q] = op[q]
    BY <1>0, <2>1 DEF Shares, TypeOK, OpRecord
  <2>4. Asking' \subseteq Asking /\ \A q \in Asking' : op'[q] = op[q]
    BY <2>3 DEF Asking
  <2>5. AskingIsOpen' BY <1>0, <2>2, <2>4, StillOpen
  <2>6. WaitingIsForLocks' /\ LocksAreOfHandles' BY <1>0, <2>1, <2>2, SameLocks
  <2>7. MarkedWhenAsked' BY <1>0, <2>1, <2>4 DEF LockInv, MarkedWhenAsked, unlocked
  <2>8. NoLocksIsRight' BY <1>0, <2>1, <2>2 DEF LockInv, NoLocksIsRight, unlocked
  <2> QED BY <2>5, <2>6, <2>7, <2>8 DEF LockInv
<1> QED BY <1>1, <1>2, <1>3 DEF Asks

LEMMA AnswerLock ==
  ASSUME IInv, NEW p \in Processes,
         Granted(p) \/ NotGranted(p) \/ Waits(p) \/ SendIrp(p) \/ Done(p)
  PROVE  LockInv'
<1>0. TypeOK /\ LockInv BY DEF IInv
<1>1. object' = object BY DEF Granted, NotGranted, Waits, SendIrp, Done
<1>2. Asking' \subseteq Asking
      /\ \A q \in Asking' : op'[q].obj = op[q].obj /\ op'[q].bytes = op[q].bytes
  <2>1. CASE op' = [op EXCEPT ![p] = NoOp]
    <3>1. \A q \in Processes : op'[q] = op[q] \/ op'[q].at = "idle"
      BY <1>0, <2>1 DEF TypeOK, NoOp
    <3> QED BY <3>1 DEF Asking
  <2>2. CASE SendIrp(p)
    <3>1. op[p].at = "fastlock" /\ op' = [op EXCEPT ![p].at = "lock"] BY <2>2 DEF SendIrp
    <3>2. \A q \in Processes :
            /\ op'[q].obj = op[q].obj /\ op'[q].bytes = op[q].bytes
            /\ op'[q].at = op[q].at \/ (q = p /\ op[q].at = "fastlock")
      BY <1>0, <3>1 DEF TypeOK, OpRecord
    <3> QED BY <3>2 DEF Asking
  <2> QED BY <2>1, <2>2 DEF Granted, NotGranted, Waits, Done
<1>3. AskingIsOpen' BY <1>0, <1>1, <1>2, StillOpen
<1>4. ASSUME p \in Asking
      PROVE /\ LockOf(p) \in Locks /\ LockOf(p).obj \in FileObjects
            /\ ~ IsLate(LockOf(p)) => /\ object[LockOf(p).obj].at \in HandleStates
                                      /\ LockOf(p).process \in object[LockOf(p).obj].holders
  BY <1>0, <1>4, LockTyped DEF LockInv, AskingIsOpen, IsLate, HandleStates, Asking, Locks
<1>5. CASE Granted(p)
  <2>1. p \in Asking /\ locks' = locks \cup {LockOf(p)} /\ UNCHANGED <<waiting, IsFastIoPossible>>
        /\ late' = (IF IsLate(LockOf(p)) THEN late \cup {LockOf(p)} ELSE late)
        /\ reset' = (reset \/ \E o \in FileObjects : object[o].at = "nolocks")
    BY <1>5 DEF Granted
  <2>2. WaitingIsForLocks' BY <2>1 DEF WaitingIsForLocks
  <2>3. MarkedWhenAsked' BY <1>0, <2>1 DEF LockInv, MarkedWhenAsked
  <2>4. NoLocksIsRight' BY <1>1, <2>1 DEF NoLocksIsRight
  <2>5. LocksAreOfHandles'
    BY <1>0, <1>1, <1>4, <2>1 DEF LockInv, LocksAreOfHandles, HandleStates
  <2> QED BY <1>3, <2>2, <2>3, <2>4, <2>5 DEF LockInv
<1>6. CASE Waits(p)
  <2>1. p \in Asking /\ waiting' = waiting \cup {LockOf(p)} /\ UNCHANGED <<locks, IsFastIoPossible, reset>>
        /\ late' = (IF IsLate(LockOf(p)) THEN late \cup {LockOf(p)} ELSE late)
        /\ ~ Grantable(LockOf(p), locks)
    BY <1>6 DEF Waits, Asking
  <2>2. WaitingIsForLocks' BY <2>1 DEF WaitingIsForLocks, Grantable
  <2>3. MarkedWhenAsked' BY <1>0, <2>1, <1>2 DEF LockInv, MarkedWhenAsked
  <2>4. NoLocksIsRight' BY <1>0, <1>1, <2>1 DEF LockInv, NoLocksIsRight
  <2>5. LocksAreOfHandles'
    BY <1>0, <1>1, <1>4, <2>1 DEF LockInv, LocksAreOfHandles, HandleStates
  <2> QED BY <1>3, <2>2, <2>3, <2>4, <2>5 DEF LockInv
<1>7. CASE NotGranted(p) \/ SendIrp(p) \/ Done(p)
  <2>1. UNCHANGED unlocked /\ (UNCHANGED <<IsFastIoPossible, reset>> \/ Questionable)
    BY <1>7 DEF NotGranted, SendIrp, Done
  <2>2. WaitingIsForLocks' /\ LocksAreOfHandles' BY <1>0, <1>1, <2>1, SameLocks
  <2>3. MarkedWhenAsked'
    BY <1>0, <1>2, <2>1 DEF LockInv, MarkedWhenAsked, Questionable, unlocked
  <2>4. NoLocksIsRight'
    BY <1>0, <1>1, <2>1 DEF LockInv, NoLocksIsRight, Questionable, unlocked
  <2> QED BY <1>3, <2>2, <2>3, <2>4 DEF LockInv
<1> QED BY <1>5, <1>6, <1>7

LEMMA HandlesLock ==
  ASSUME IInv, NEW p \in Processes, NEW o \in FileObjects,
         \/ CloseHandle(p, o) \/ CloseLastHandle(p, o)
         \/ \E q \in Processes : Duplicate(p, q, o)
  PROVE  LockInv'
<1>0. TypeOK /\ LockInv BY DEF IInv
<1>1. op' = op /\ Asking' = Asking BY DEF CloseHandle, CloseLastHandle, Duplicate, Asking
<1>2. /\ \A q \in FileObjects : q # o => object'[q] = object[q]
      /\ object[o].at = "open" /\ object'[o].at \in HandleStates
  BY <1>0 DEF CloseHandle, CloseLastHandle, Duplicate, Becomes, TypeOK, ObjectRecord, HandleStates
<1>3. AskingIsOpen' BY <1>0, <1>1, <1>2, StillOpen DEF HandleStates
<1>4. \A q \in FileObjects : object'[q].at = "nolocks" => object[q].at = "nolocks"
  BY <1>2 DEF HandleStates
<1>5. CASE CloseHandle(p, o)
  <2>1. Release(OwnOrWaiting(o, p)) BY <1>5 DEF CloseHandle
  <2>2. WaitingIsForLocks' /\ MarkedWhenAsked' /\ NoLocksIsRight'
    BY <1>0, <1>1, <1>4, <1>5, <2>1, FewerLocks DEF CloseHandle
  <2>3. object'[o].holders = object[o].holders \ {p}
    BY <1>0, <1>5 DEF CloseHandle, TypeOK, ObjectRecord
  <2>4. LocksAreOfHandles'
    <3> SUFFICES ASSUME NEW l \in (locks' \cup waiting') \ late'
                 PROVE  object'[l.obj].at \in HandleStates /\ l.process \in object'[l.obj].holders
      BY DEF LocksAreOfHandles, HandleStates
    <3>1. l \in (locks \cup waiting) \ late /\ l \notin OwnOrWaiting(o, p)
      BY <1>0, <2>1, Released
    <3>2. l.obj \in FileObjects BY <1>0, <3>1 DEF TypeOK, Locks
    <3>3. object[l.obj].at \in HandleStates /\ l.process \in object[l.obj].holders
      BY <1>0, <3>1 DEF LockInv, LocksAreOfHandles, HandleStates
    <3>4. l.obj = o => l.process # p BY <3>1 DEF OwnOrWaiting
    <3> QED BY <1>2, <2>3, <3>2, <3>3, <3>4
  <2> QED BY <1>3, <2>2, <2>4 DEF LockInv
<1>6. CASE CloseLastHandle(p, o) \/ \E q \in Processes : Duplicate(p, q, o)
  <2>1. UNCHANGED <<IsFastIoPossible, unlocked, reset>> BY <1>6 DEF CloseLastHandle, Duplicate, unlocked
  <2>2. object[o].holders \subseteq object'[o].holders
    BY <1>0, <1>6 DEF CloseLastHandle, Duplicate, Becomes, TypeOK, ObjectRecord
  <2>3. WaitingIsForLocks' /\ LocksAreOfHandles' BY <1>0, <1>2, <2>1, <2>2, SameLocks
  <2>4. MarkedWhenAsked' BY <1>0, <1>1, <2>1 DEF LockInv, MarkedWhenAsked, unlocked
  <2>5. NoLocksIsRight' BY <1>0, <1>4, <2>1 DEF LockInv, NoLocksIsRight, unlocked
  <2> QED BY <1>3, <2>3, <2>4, <2>5 DEF LockInv
<1> QED BY <1>5, <1>6

LEMMA CleanupLock ==
  ASSUME IInv, NEW o \in FileObjects, Cleanup(o) \/ CleanupLooks(o) \/ CleanupEnds(o)
  PROVE  LockInv'
<1>0. TypeOK /\ LockInv BY DEF IInv
<1>1. op' = op /\ Asking' = Asking BY DEF Cleanup, CleanupLooks, CleanupEnds, Asking
<1>2. /\ \A q \in FileObjects : q # o => object'[q] = object[q]
      /\ object'[o].at # "none"
  BY <1>0 DEF Cleanup, CleanupLooks, CleanupEnds, Becomes, NotOpen, TypeOK, ObjectRecord
<1>3. AskingIsOpen' BY <1>0, <1>1, <1>2, StillOpen
<1>4. CASE Cleanup(o)
  <2>1. Release(DroppedByCleanup(o)) BY <1>4 DEF Cleanup
  <2>2. object'[o].at = "unlocked"
    BY <1>0, <1>4 DEF Cleanup, Becomes, TypeOK, ObjectRecord
  <2>3. WaitingIsForLocks' /\ MarkedWhenAsked' /\ NoLocksIsRight'
    BY <1>0, <1>1, <1>2, <1>4, <2>1, <2>2, FewerLocks DEF Cleanup
  <2>4. LocksAreOfHandles'
    <3> SUFFICES ASSUME NEW l \in (locks' \cup waiting') \ late'
                 PROVE  object'[l.obj].at \in HandleStates /\ l.process \in object'[l.obj].holders
      BY DEF LocksAreOfHandles, HandleStates
    <3>1. l \in (locks \cup waiting) \ late /\ l \notin DroppedByCleanup(o)
      BY <1>0, <2>1, Released
    <3>2. l.obj \in FileObjects BY <1>0, <3>1 DEF TypeOK, Locks
    <3>3. object[l.obj].at \in HandleStates /\ l.process \in object[l.obj].holders
      BY <1>0, <3>1 DEF LockInv, LocksAreOfHandles, HandleStates
    <3>4. l.obj # o BY <3>1, <3>3 DEF DroppedByCleanup, OwnOrWaiting
    <3> QED BY <1>2, <3>2, <3>3, <3>4
  <2> QED BY <1>3, <2>3, <2>4 DEF LockInv
<1>5. CASE CleanupLooks(o)
  <2>1. UNCHANGED <<IsFastIoPossible, unlocked, reset>> BY <1>5 DEF CleanupLooks
  <2>2. object[o].at = "unlocked" /\ object'[o].at = IF AnyLockLeft THEN "locks" ELSE "nolocks"
    BY <1>0, <1>5 DEF CleanupLooks, Becomes, TypeOK, ObjectRecord
  <2>3. WaitingIsForLocks' /\ LocksAreOfHandles'
    BY <1>0, <1>2, <2>1, <2>2, SameLocks DEF HandleStates
  <2>4. MarkedWhenAsked' BY <1>0, <1>1, <2>1 DEF LockInv, MarkedWhenAsked, unlocked
  <2>5. NoLocksIsRight'
    BY <1>0, <1>2, <2>1, <2>2 DEF LockInv, NoLocksIsRight, AnyLockLeft, unlocked
  <2> QED BY <1>3, <2>3, <2>4, <2>5 DEF LockInv
<1>6. CASE CleanupEnds(o)
  <2>1. UNCHANGED unlocked /\ reset' = (reset \/ (object[o].at = "nolocks" /\ Asking # {}))
        /\ object[o].at \in {"locks", "nolocks"}
        /\ IsFastIoPossible' = IF object[o].at = "nolocks" THEN FastIoIsPossible ELSE IsFastIoPossible
    BY <1>6 DEF CleanupEnds
  <2>2. object'[o].at = "cleaned"
    BY <1>0, <1>6 DEF CleanupEnds, NotOpen, TypeOK
  <2>3. WaitingIsForLocks' /\ LocksAreOfHandles'
    BY <1>0, <1>2, <2>1, SameLocks DEF HandleStates
  <2>4. NoLocksIsRight'
    BY <1>0, <1>2, <2>1, <2>2 DEF LockInv, NoLocksIsRight, unlocked
  <2>5. MarkedWhenAsked'
    <3>1. CASE object[o].at = "nolocks"
      <4>1. ~ reset' => locks = {} /\ Asking = {}
        BY <1>0, <2>1, <3>1 DEF LockInv, NoLocksIsRight
      <4> QED BY <1>1, <2>1, <4>1 DEF MarkedWhenAsked, unlocked
    <3>2. CASE object[o].at # "nolocks"
      BY <1>0, <1>1, <2>1, <3>2 DEF LockInv, MarkedWhenAsked, unlocked
    <3> QED BY <3>1, <3>2
  <2> QED BY <1>3, <2>3, <2>4, <2>5 DEF LockInv
<1> QED BY <1>4, <1>5, <1>6

LEMMA CloseLock ==
  ASSUME IInv, NEW o \in FileObjects, Close(o)
  PROVE  LockInv'
<1>0. TypeOK /\ LockInv /\ SharingInv BY DEF IInv, SharingInv
<1>1. op' = op /\ Asking' = Asking BY DEF Close, Asking
<1>2. /\ \A q \in FileObjects : q # o => object'[q] = object[q]
      /\ object[o].at = "cleaned" /\ object'[o].at = "none"
  BY <1>0 DEF Close, NotOpen, TypeOK
<1>3. \A p \in Processes : op[p].obj # o BY DEF Close
<1>4. AskingIsOpen'
  BY <1>0, <1>1, <1>2, <1>3 DEF LockInv, AskingIsOpen, Asking
<1>5. CASE LastReference
  <2>1. locks' = {} /\ waiting' = {} /\ late' = {} BY <1>5 DEF Close
  <2>2. \A q \in FileObjects : q # o => object[q].at = "none" BY <1>0, <1>2, <1>5, LastIsAlone
  <2>3. Asking = {}
    BY <1>0, <1>3, <2>2 DEF LockInv, AskingIsOpen, Asking
  <2> QED BY <1>1, <1>4, <2>1, <2>3
          DEF LockInv, WaitingIsForLocks, MarkedWhenAsked, NoLocksIsRight, LocksAreOfHandles
<1>6. CASE ~ LastReference
  <2>1. UNCHANGED <<IsFastIoPossible, unlocked, reset>> BY <1>6 DEF Close
  <2>2. WaitingIsForLocks' /\ LocksAreOfHandles'
    BY <1>0, <1>2, <2>1, SameLocks DEF HandleStates
  <2>3. MarkedWhenAsked' BY <1>0, <1>1, <2>1 DEF LockInv, MarkedWhenAsked, unlocked
  <2>4. NoLocksIsRight' BY <1>0, <1>2, <2>1 DEF LockInv, NoLocksIsRight, unlocked
  <2> QED BY <1>4, <2>2, <2>3, <2>4 DEF LockInv
<1> QED BY <1>5, <1>6

LEMMA LockStep == IInv /\ [Next]_vars => LockInv'
<1> SUFFICES ASSUME IInv, [Next]_vars PROVE LockInv'
  OBVIOUS
<1>1. CASE UNCHANGED vars
  <2>1. LockInv BY DEF IInv
  <2> QED BY <1>1, <2>1 DEF vars, LockInv, AskingIsOpen, Asking, WaitingIsForLocks,
        MarkedWhenAsked, NoLocksIsRight, LocksAreOfHandles
<1> QED BY <1>1, OpensLock, AsksLock, AnswerLock, HandlesLock, CleanupLock, CloseLock DEF Next
-----------------------------------------------------------------------------
(* Theorems *)

LEMMA Starts == Init => IInv
<1> SUFFICES ASSUME Init PROVE IInv
  OBVIOUS
<1>1. \A o \in FileObjects : object[o] = NotOpen BY DEF Init
<1>2. NotOpen \in ObjectRecord /\ NotOpen.at = "none" BY DEF NotOpen, ObjectRecord
<1>3. NoOp \in OpRecord /\ NoOp.at = "idle" BY DEF NoOp, OpRecord
<1>4. NobodyOpen \in ShareRecord BY DEF NobodyOpen, ShareRecord
<1>5. TypeOK
  <2>1. object \in [FileObjects -> ObjectRecord] BY <1>2 DEF Init
  <2>2. op \in [Processes -> OpRecord] BY <1>3 DEF Init
  <2>3. ReferenceCount \in 0 .. MaxCount + 1 /\ OpenHandleCount \in 0 .. ReferenceCount
    BY FileLockAssumption DEF Init
  <2> QED BY <1>4, <2>1, <2>2, <2>3 DEF Init, TypeOK
<1>6. Handles = {} /\ Closed = {} /\ Sharers = {}
  BY <1>1, <1>2 DEF Handles, Closed, Sharers
<1>7. IsFiniteSet({}) /\ Cardinality({}) = 0 BY FS_EmptySet
<1>8. CountsCover BY <1>6, <1>7 DEF CountsCover, Init
<1>9. ShareCovers
  <2>1. \A m \in Modes : Using(m) = {} /\ Lending(m) = {} /\ Keeping(m) = {}
    BY <1>6 DEF Using, Lending, Keeping
  <2> QED BY <1>7, <2>1 DEF ShareCovers, Init, NobodyOpen
<1>10. OpenFilesShare BY <1>1, <1>2 DEF OpenFilesShare
<1>11. Asking = {} BY <1>3 DEF Asking, Init
<1>12. LockInv
  BY <1>11 DEF Init, LockInv, AskingIsOpen, WaitingIsForLocks, MarkedWhenAsked, NoLocksIsRight,
       LocksAreOfHandles
<1> QED BY <1>5, <1>8, <1>9, <1>10, <1>12 DEF IInv

(* The inductive invariant holds in every run of FFSFileLock. *)
THEOREM Invariance == Spec => []IInv
<1>1. IInv /\ [Next]_vars => IInv' BY SharingStep, LockStep DEF IInv, SharingInv
<1> QED BY <1>1, Starts, PTL DEF Spec

(* File objects, counters and locks keep their types: Fcb->OpenHandleCount  *)
(* and Fcb->ReferenceCount never run below zero or into each other, and the *)
(* counters of Fcb->ShareAccess never wrap, whatever fails late.            *)
THEOREM TypeCorrect == Spec => []TypeOK
<1>1. IInv => TypeOK BY DEF IInv
<1> QED BY <1>1, Invariance, PTL

(* Two handles that are open at a time agree with what each other lets      *)
(* others do (create.c, FFSCreateFile; cleanup.c, FFSCleanup).              *)
THEOREM OpenHandlesAgree == Spec => []OpenFilesShare
<1>1. IInv => OpenFilesShare BY DEF IInv
<1> QED BY <1>1, Invariance, PTL

(* The owner of a lock has its handle still, or the cleanup of it is to     *)
(* come, but for locks that were on their way when it was closed            *)
(* (cleanup.c, FFSCleanup; fastio.c, FFSFastIoUnlockAll).                   *)
THEOREM LockOwners == Spec => []LocksAreOfHandles
<1>1. IInv => LocksAreOfHandles BY DEF IInv, LockInv
<1> QED BY <1>1, Invariance, PTL

(* While the file is locked, Fcb->IsFastIoPossible sends fast I/O to the    *)
(* check of locks, but for the two resets that reset notes (lock.c,         *)
(* FFSLockControl; cleanup.c, FFSCleanup).                                  *)
THEOREM MarkedWhileLocked == Spec => []LockedIsQuestionable
<1>1. IInv => LockedIsQuestionable BY DEF IInv, LockInv, MarkedWhenAsked, LockedIsQuestionable
<1> QED BY <1>1, Invariance, PTL
=============================================================================
