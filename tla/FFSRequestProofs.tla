-------------------------- MODULE FFSRequestProofs --------------------------
(* Theorems about FFSRequest, for every number of requests, contexts and    *)
(* blocks, where the uninitialised bCompleteRequest of FFSRead is false.    *)
EXTENDS FFSRequest, FiniteSetTheorems, TLAPS

-----------------------------------------------------------------------------
(* The inductive invariant, one request at a time *)

(* The blocks whose completion routine has not counted them, and those whose *)
(* associated IRPs are not completed.                                        *)
Uncounted(i) == { b \in Blocks : part[i][b] \in {"made", "sent", "noted"} }
Unended(i) == { b \in Blocks : part[i][b] \in {"made", "sent", "noted", "counted"} }
Started(i) == \E b \in Blocks : part[i][b] # "none"

(* A request of which no block has been asked for *)
Fresh(i) == thread[i].pc \in {"new", "handler", "acquire", "body", "queued", "readfinally", "unwound"}

(* The thread is through with an IRP that the disk driver completes. *)
GivenAway(i) == Is(i, "finally") /\ Mine(i).irp = NoIrp

(* A running request has its own context, which names its IRP until it is   *)
(* given away.                                                              *)
Own(i) ==
  InDriver(i) =>
    /\ Mine(i).of = i /\ Mine(i).irp \in {i, NoIrp}
    /\ Mine(i).irp = NoIrp => Is(i, "finally")

(* The thread has the IRP, and the status it will complete it with. *)
Answers(i) == thread[i].pc \in {"measure", "finally"} /\ Mine(i).irp = i

(* Only a transfer that is not waited for is left to the disk driver, and   *)
(* that of the stream file is waited for.                                   *)
Waits(i) ==
  InDriver(i) =>
    /\ irp[i].kind = "stream" => IsSynchronous(i)
    /\ Is(i, "sent") => ~ IsSynchronous(i)

(* Nothing has been asked of the disk for it, and nobody has completed it. *)
Untouched(i) ==
  Fresh(i) =>
    /\ ~ Started(i) /\ ~ transfer[i].live /\ i \notin package
    /\ irp[i].done = 0 /\ irp[i].status = "success"

(* pContext->Blocks and MasterIrp->AssociatedIrp.IrpCount are what they count. *)
CountsRight(i) ==
  /\ transfer[i].blocks = Cardinality(Uncounted(i))
  /\ (~ transfer[i].wait /\ Unended(i) # {}) => irp[i].count = Cardinality(Unended(i))

(* Where the thread is, the transfer and its parts agree. *)
Phases(i) ==
  /\ Is(i, "sending") => Made(i) # {} /\ transfer[i].wait = IsSynchronous(i)
  /\ Made(i) # {} => Is(i, "sending")
  /\ Is(i, "waiting") => transfer[i].live /\ transfer[i].wait
  /\ Is(i, "sent") => ~ transfer[i].wait
  /\ Uncounted(i) # {} => transfer[i].live
  /\ transfer[i].live => IF transfer[i].wait THEN Is(i, "sending") \/ Is(i, "waiting")
                         ELSE Uncounted(i) # {}
  /\ transfer[i].event => transfer[i].live /\ transfer[i].wait /\ Uncounted(i) = {}
  /\ Unended(i) # {} => Is(i, "sending") \/ Is(i, "sent") \/ Is(i, "waiting") \/ Is(i, "gone") \/ GivenAway(i)
  /\ transfer[i].live => Started(i)
  /\ transfer[i].wait => transfer[i].live /\ \A b \in Blocks : part[i][b] # "counted"

(* It is completed once, and by the last who has it. *)
Once(i) ==
  /\ irp[i].done \in {0, 1}
  /\ irp[i].done = 1 =>
       /\ Unended(i) = {} /\ i \notin package
       /\ Is(i, "sent") \/ Is(i, "gone") \/ GivenAway(i)
  /\ i \in package => Is(i, "gone") /\ Unended(i) = {}

(* Someone will complete it. *)
Kept(i) ==
  irp[i].done = 0 =>
    /\ Is(i, "sent") => Unended(i) # {}
    /\ GivenAway(i) => Unended(i) # {} \/ i \in starved
    /\ Is(i, "gone") => Unended(i) # {} \/ i \in starved \/ i \in package

(* The master IRP has the status of the transfer, and the request that.     *)
Status(i) ==
  /\ Started(i) => (i \in failed <=> irp[i].status = "error")
  /\ (Started(i) /\ Uncounted(i) = {}) => (irp[i].whole <=> irp[i].status = "success")
  /\ Answers(i) =>
       IF Started(i) THEN thread[i].status = irp[i].status ELSE irp[i].status = "success"
  /\ (Fresh(i) /\ i \in failed) => Is(i, "readfinally") \/ Is(i, "unwound")
  /\ (Answers(i) /\ i \in failed) => thread[i].status = "error"
  /\ (~ Started(i) /\ irp[i].done = 1 /\ i \notin starved /\ i \in failed) =>
       irp[i].status = "error" /\ ~ irp[i].whole

Good(i) ==
  Own(i) /\ Waits(i) /\ Untouched(i) /\ CountsRight(i) /\ Phases(i) /\ Once(i) /\ Kept(i) /\ Status(i)

IInv == TypeOK /\ \A i \in Irps : Good(i)
-----------------------------------------------------------------------------
(* Sets of blocks *)

LEMMA BlocksFinite ==
  ASSUME NEW S \in SUBSET Blocks
  PROVE  IsFiniteSet(S) /\ Cardinality(S) \in Nat /\ (Cardinality(S) = 0 <=> S = {})
<1>1. IsFiniteSet(Blocks)
  BY FS_Interval, RequestAssumption DEF Blocks
<1>. QED BY <1>1, FS_Subset, FS_CardinalityType, FS_EmptySet

(* One block less, in any count of them *)
LEMMA OneLess ==
  ASSUME NEW S \in SUBSET Blocks, NEW b \in S
  PROVE  /\ Cardinality(S \ {b}) = Cardinality(S) - 1 /\ Cardinality(S) > 0
         /\ Cardinality(S) = 1 <=> S \ {b} = {}
<1>1. IsFiniteSet(S) /\ Cardinality(S) \in Nat /\ Cardinality(S) # 0
  BY BlocksFinite
<1>2. Cardinality(S \ {b}) = Cardinality(S) - 1
  BY <1>1, FS_RemoveElement
<1>3. S \ {b} \in SUBSET Blocks
  OBVIOUS
<1>4. Cardinality(S \ {b}) = 0 <=> S \ {b} = {}
  BY <1>3, BlocksFinite
<1>. QED BY <1>1, <1>2, <1>4

(* The first n of them *)
LEMMA FirstBlocks ==
  ASSUME NEW n \in Blocks
  PROVE  /\ n \in Nat /\ { b \in Blocks : b <= n } = 1 .. n
         /\ Cardinality({ b \in Blocks : b <= n }) = n
<1>1. { b \in Blocks : b <= n } = 1 .. n /\ n \in Nat /\ n >= 1
  BY RequestAssumption DEF Blocks
<1>2. Cardinality(1 .. n) = n
  BY <1>1, FS_Interval
<1>. QED BY <1>1, <1>2

LEMMA OneBlock == 1 \in Blocks
BY RequestAssumption DEF Blocks

-----------------------------------------------------------------------------
(* Type correctness *)

LEMMA Types ==
  ASSUME TypeOK, NEW i \in Irps
  PROVE  /\ irp[i] \in IrpRecord /\ thread[i] \in ThreadRecord /\ transfer[i] \in TransferRecord
         /\ irp[i].kind \in Kinds /\ irp[i].status \in {"success", "error"}
         /\ irp[i].whole \in BOOLEAN /\ irp[i].count \in Nat /\ irp[i].done \in Nat
         /\ thread[i].pc \in Pcs
         /\ thread[i].ctx \in Contexts /\ thread[i].status \in {"success", "error", "pending"}
         /\ Mine(i).irp \in Irps \cup {NoIrp} /\ Mine(i).sync \in BOOLEAN
         /\ transfer[i].live \in BOOLEAN /\ transfer[i].wait \in BOOLEAN
         /\ transfer[i].blocks \in Nat /\ transfer[i].event \in BOOLEAN
<1>1. irp[i] \in IrpRecord /\ thread[i] \in ThreadRecord /\ transfer[i] \in TransferRecord
  BY DEF TypeOK
<1>2. thread[i].ctx \in Contexts
  BY <1>1 DEF ThreadRecord
<1>3. Mine(i) \in ContextRecord
  BY <1>2 DEF TypeOK, Mine
<1>. QED BY <1>1, <1>3 DEF IrpRecord, ThreadRecord, TransferRecord, ContextRecord

LEMMA NowhereType ==
  ASSUME NEW l \in Pcs
  PROVE  /\ Nowhere(l) \in ThreadRecord /\ Nowhere(l).pc = l
<1>1. (CHOOSE c \in Contexts : TRUE) \in Contexts
  BY RequestAssumption
<1>. QED BY <1>1 DEF Nowhere, ThreadRecord

(* FFSFreeIrpContext frees the one context. *)
LEMMA FreeEffect ==
  ASSUME TypeOK, NEW c \in Contexts
  PROVE  /\ Free(c) \in [Contexts -> ContextRecord]
         /\ \A d \in Contexts \ {c} : Free(c)[d] = context[d]
BY DEF TypeOK, Free, ContextRecord

(* A completion touches the one IRP. *)
LEMMA CompletedEffect ==
  ASSUME TypeOK, NEW i \in Irps, NEW s \in {"success", "error"}
  PROVE  /\ Completed(i, s) \in [Irps -> IrpRecord]
         /\ Completed(i, s)[i].status = s /\ Completed(i, s)[i].done = irp[i].done + 1
         /\ Completed(i, s)[i].whole = (irp[i].whole /\ s # "error")
         /\ Completed(i, s)[i].count = irp[i].count
         /\ \A j \in Irps \ {i} : Completed(i, s)[j] = irp[j]
<1>1. [irp[i] EXCEPT !.status = s, !.whole = @ /\ s # "error", !.done = @ + 1] \in IrpRecord
  <2>1. irp[i] \in IrpRecord
    BY Types
  <2>2. (irp[i].whole /\ s # "error") \in BOOLEAN
    OBVIOUS
  <2>3. irp[i].done + 1 \in Nat
    BY Types
  <2>. QED BY <2>1, <2>2, <2>3 DEF IrpRecord
<1>2. Completed(i, s) =
        [irp EXCEPT ![i] = [irp[i] EXCEPT !.status = s, !.whole = @ /\ s # "error", !.done = @ + 1]]
  BY DEF TypeOK, Completed
<1>. QED BY <1>1, <1>2, Types DEF TypeOK, IrpRecord

(* So does moving a thread. *)
LEMMA GoesEffect ==
  ASSUME TypeOK, NEW i \in Irps, NEW s \in {"success", "error", "pending"}, NEW l \in Pcs, Goes(i, l, s)
  PROVE  /\ thread' \in [Irps -> ThreadRecord]
         /\ thread'[i].pc = l /\ thread'[i].status = s /\ thread'[i].ctx = thread[i].ctx
         /\ \A j \in Irps \ {i} : thread'[j] = thread[j]
<1>1. [thread[i] EXCEPT !.pc = l, !.status = s] \in ThreadRecord
  BY Types DEF ThreadRecord
<1>2. thread' = [thread EXCEPT ![i] = [thread[i] EXCEPT !.pc = l, !.status = s]]
  BY DEF TypeOK, Goes
<1>. QED BY <1>1, <1>2, Types DEF TypeOK, ThreadRecord

LEMMA EndsEffect ==
  ASSUME TypeOK, NEW i \in Irps, Ends(i)
  PROVE  /\ thread' \in [Irps -> ThreadRecord] /\ thread'[i].pc = "gone"
         /\ \A j \in Irps \ {i} : thread'[j] = thread[j]
BY NowhereType DEF TypeOK, Ends, Pcs

LEMMA InitType == ASSUME Init PROVE TypeOK
<1>1. thread \in [Irps -> ThreadRecord]
  BY NowhereType DEF Init, Pcs
<1>2. irp \in [Irps -> IrpRecord]
  <2>1. \A i \in Irps : irp[i] \in IrpRecord
    BY DEF Init, IrpRecord
  <2>. QED BY <2>1 DEF Init
<1>3. context \in [Contexts -> ContextRecord] /\ transfer \in [Irps -> TransferRecord]
  BY DEF Init, ContextRecord, TransferRecord, NoTransfer
<1>. QED BY <1>1, <1>2, <1>3 DEF Init, TypeOK
-----------------------------------------------------------------------------
(* A step of one request leaves the others as they are. *)

Same(j) ==
  /\ thread'[j] = thread[j] /\ irp'[j] = irp[j] /\ part'[j] = part[j] /\ transfer'[j] = transfer[j]
  /\ j \in package' <=> j \in package
  /\ j \in failed' <=> j \in failed
  /\ j \in starved' <=> j \in starved
  /\ InDriver(j) => Mine(j)' = Mine(j)

LEMMA SetsStay ==
  ASSUME NEW i, part'[i] = part[i]
  PROVE  /\ Uncounted(i)' = Uncounted(i) /\ Unended(i)' = Unended(i) /\ Made(i)' = Made(i)
         /\ Started(i)' <=> Started(i)
BY DEF Uncounted, Unended, Made, Started

LEMMA SameIsGood ==
  ASSUME NEW j \in Irps, Good(j), Same(j)
  PROVE  Good(j)'
<1>1. /\ Uncounted(j)' = Uncounted(j) /\ Unended(j)' = Unended(j) /\ Made(j)' = Made(j)
      /\ Started(j)' <=> Started(j)
  BY SetsStay DEF Same
<1> USE DEF Good, Same, Is
<1>2. Own(j)'
  BY DEF Own, InDriver
<1>3. Waits(j)'
  BY DEF Waits, InDriver, IsSynchronous
<1>4. Untouched(j)'
  BY <1>1 DEF Untouched, Fresh
<1>5. CountsRight(j)'
  BY <1>1 DEF CountsRight
<1>6. GivenAway(j)' <=> GivenAway(j)
  BY DEF GivenAway, InDriver
<1>7. Phases(j)'
  BY <1>1, <1>6 DEF Phases, IsSynchronous, InDriver
<1>8. Once(j)' /\ Kept(j)'
  BY <1>1, <1>6 DEF Once, Kept
<1>9. Status(j)'
  BY <1>1 DEF Status, Answers, Fresh, InDriver
<1>. QED BY <1>2, <1>4, <1>5, <1>7, <1>8, <1>9, <1>3

(* The contexts of running requests are different ones. *)
LEMMA OthersKeepContext ==
  ASSUME IInv, NEW i \in Irps, NEW j \in Irps \ {i}, InDriver(i), thread'[j] = thread[j],
         \A d \in Contexts \ {thread[i].ctx} : context'[d] = context[d]
  PROVE  InDriver(j) => Mine(j)' = Mine(j)
<1>1. SUFFICES ASSUME InDriver(j)
               PROVE  Mine(j)' = Mine(j)
  OBVIOUS
<1>2. Mine(i).of = i /\ Mine(j).of = j
  BY <1>1 DEF IInv, Good, Own
<1>3. thread[j].ctx \in Contexts \ {thread[i].ctx}
  BY <1>2, Types DEF IInv, Mine
<1>. QED BY <1>3 DEF Mine

(* A step that is right for the one request that takes it is right. *)
LEMMA OneStep ==
  ASSUME IInv, NEW i \in Irps, TypeOK', Good(i)', \A j \in Irps \ {i} : Same(j)
  PROVE  IInv'
BY SameIsGood DEF IInv
-----------------------------------------------------------------------------
(* The steps before the transfer *)

(* On the way to the body and out of it without a transfer *)
LEMMA Moves ==
  ASSUME IInv, NEW i \in Irps, thread[i].pc \in {"handler", "acquire", "body"},
         NEW l \in {"acquire", "body", "finally"}, NEW s \in {"success", "error", "pending"}, Goes(i, l, s),
         UNCHANGED <<irp, context, transfer, part, package, starved, writer>>,
         holders' \subseteq Irps,
         failed' = failed \/ (failed' = failed \cup {i} /\ l = "finally" /\ s = "error")
  PROVE  IInv'
<1> USE DEF Is
<1>1. TypeOK /\ Good(i)
  BY DEF IInv
<1>2. /\ thread' \in [Irps -> ThreadRecord]
      /\ thread'[i].pc = l /\ thread'[i].status = s /\ thread'[i].ctx = thread[i].ctx
      /\ \A j \in Irps \ {i} : thread'[j] = thread[j]
  BY <1>1, GoesEffect DEF Pcs
<1>3. TypeOK'
  BY <1>1, <1>2 DEF TypeOK
<1>4. InDriver(i) /\ Fresh(i) /\ i \notin failed /\ Mine(i)' = Mine(i)
      /\ Mine(i).irp = i /\ ~ Started(i)
  BY <1>1, <1>2 DEF InDriver, Fresh, Good, Status, Answers, Mine, Own, Untouched
<1>5. /\ Uncounted(i)' = Uncounted(i) /\ Unended(i)' = Unended(i) /\ Made(i)' = Made(i)
      /\ Started(i)' <=> Started(i)
  BY SetsStay
<1>6. Unended(i) = {} /\ Uncounted(i) = {} /\ Made(i) = {}
  BY <1>4 DEF Started, Unended, Uncounted, Made
<1>7. i \in Irps /\ i # NoIrp
  BY RequestAssumption
<1>8. Own(i)' /\ Waits(i)'
  BY <1>1, <1>2, <1>4 DEF Good, Own, Waits, IsSynchronous, InDriver
<1>9. Untouched(i)'
  BY <1>1, <1>2, <1>4, <1>5 DEF Good, Untouched, Fresh
<1>10. CountsRight(i)' /\ Phases(i)'
  BY <1>1, <1>2, <1>4, <1>5, <1>6 DEF Good, CountsRight, Phases, Untouched
<1>11. Once(i)' /\ Kept(i)'
  BY <1>1, <1>2, <1>4, <1>5, <1>6, <1>7 DEF Good, Once, Kept, Untouched, GivenAway
<1>12. Status(i)'
  BY <1>1, <1>2, <1>4, <1>5, <1>7 DEF Good, Status, Answers, Fresh, Untouched
<1>13. Good(i)'
  BY <1>8, <1>9, <1>10, <1>11, <1>12 DEF Good
<1>14. ASSUME NEW j \in Irps \ {i}
       PROVE  Same(j)
  BY <1>2, <1>14 DEF Same, InDriver, Mine
<1>. QED BY <1>3, <1>13, <1>14, OneStep

LEMMA MovesSteps ==
  ASSUME IInv, NEW i \in Irps,
         LeaveEarly(i) \/ Proceed(i) \/ Acquire(i) \/ Denied(i) \/ Fails(i) \/ WouldBlock(i)
  PROVE  IInv'
<1> USE DEF Is, unmoved
<1>1. TypeOK /\ holders \subseteq Irps
  BY DEF IInv, TypeOK
<1>2. CASE LeaveEarly(i)
  BY <1>1, <1>2, Moves DEF LeaveEarly
<1>3. CASE Proceed(i)
  BY <1>1, <1>3, Moves DEF Proceed
<1>4. CASE Acquire(i)
  BY <1>1, <1>4, Moves DEF Acquire
<1>5. CASE Denied(i)
  BY <1>1, <1>5, Moves DEF Denied
<1>6. CASE Fails(i)
  BY <1>1, <1>6, Moves DEF Fails
<1>7. CASE WouldBlock(i)
  BY <1>1, <1>7, Moves DEF WouldBlock
<1>. QED BY <1>2, <1>3, <1>4, <1>5, <1>6, <1>7
(* FFSBuildRequest takes a free context, which nobody has. *)
LEMMA IssueStep ==
  ASSUME IInv, NEW i \in Irps, Issue(i)
  PROVE  IInv'
<1> USE DEF Is, unmoved
<1>1. TypeOK /\ Good(i) /\ i # NoIrp
  BY RequestAssumption DEF IInv
<1>2. PICK c \in Contexts, s \in BOOLEAN :
        /\ irp[i].kind = "stream" => s
        /\ context[c].of = NoIrp
        /\ context' = [context EXCEPT ![c] = [of |-> i, irp |-> i, sync |-> s, exception |-> FALSE]]
        /\ thread' = [thread EXCEPT ![i] = [pc |-> "handler", ctx |-> c, status |-> "error"]]
  BY DEF Issue
<1>3. /\ thread' \in [Irps -> ThreadRecord]
      /\ thread'[i].pc = "handler" /\ thread'[i].ctx = c
      /\ \A j \in Irps \ {i} : thread'[j] = thread[j]
  BY <1>1, <1>2 DEF TypeOK, ThreadRecord, Pcs
<1>4. /\ context' \in [Contexts -> ContextRecord]
      /\ context'[c].of = i /\ context'[c].irp = i /\ context'[c].sync = s
      /\ \A d \in Contexts \ {c} : context'[d] = context[d]
  BY <1>1, <1>2 DEF TypeOK, ContextRecord
<1>5. TypeOK'
  BY <1>1, <1>3, <1>4 DEF TypeOK, Issue
<1>6. Fresh(i) /\ ~ Started(i) /\ thread[i].pc = "new" /\ i \notin failed
  BY <1>1 DEF Issue, Fresh, Good, Untouched, Status, Answers
<1>7. /\ Uncounted(i)' = Uncounted(i) /\ Unended(i)' = Unended(i) /\ Made(i)' = Made(i)
      /\ Started(i)' <=> Started(i)
  BY SetsStay DEF Issue
<1>8. Unended(i) = {} /\ Uncounted(i) = {} /\ Made(i) = {}
  BY <1>6 DEF Started, Unended, Uncounted, Made
<1>9. Mine(i)'.of = i /\ Mine(i)'.irp = i /\ Mine(i)'.sync = s
  BY <1>3, <1>4 DEF Mine
<1>10. Own(i)' /\ Untouched(i)'
  BY <1>1, <1>3, <1>6, <1>7, <1>9 DEF Own, Untouched, Good, Fresh, Issue
<1>11. Waits(i)'
  BY <1>2, <1>3, <1>9 DEF Waits, IsSynchronous, Issue
<1>12. CountsRight(i)' /\ Phases(i)'
  BY <1>1, <1>3, <1>6, <1>7, <1>8 DEF Good, CountsRight, Phases, Untouched, Issue
<1>13. Once(i)' /\ Kept(i)' /\ Status(i)'
  BY <1>1, <1>3, <1>6, <1>7, <1>8, <1>9 DEF Good, Once, Kept, Untouched, GivenAway, Status, Answers, Issue, Fresh
<1>14. ASSUME NEW j \in Irps \ {i}
       PROVE  Same(j)
  <2>1. ASSUME InDriver(j)
        PROVE  Mine(j)' = Mine(j)
    <3>1. Mine(j).of = j /\ j # NoIrp
      BY <1>14, <2>1, RequestAssumption DEF IInv, Good, Own
    <3>2. thread[j].ctx \in Contexts \ {c}
      BY <1>1, <1>2, <1>14, <3>1, Types DEF Mine
    <3>. QED BY <1>3, <1>4, <1>14, <3>2 DEF Mine
  <2>. QED BY <1>3, <1>14, <2>1 DEF Same, Issue
<1>15. Good(i)'
  BY <1>10, <1>12, <1>13, <1>11 DEF Good
<1>. QED BY <1>5, <1>14, <1>15, OneStep

(* The thread lets go of a request that had no transfer: its context is     *)
(* freed, and its IRP completed, in a package, or forgotten for want of     *)
(* pool.                                                                    *)
LEMMA Leaves ==
  ASSUME IInv, NEW i \in Irps, InDriver(i), Mine(i).irp = i, Unended(i) = {}, ~ transfer[i].live,
         irp[i].done = 0, i \notin package,
         Ends(i), context' = Free(thread[i].ctx), UNCHANGED <<transfer, part, writer, failed>>,
         holders' \subseteq Irps,
         NEW s \in {"success", "error"},
         Started(i) => s = irp[i].status,
         i \in failed => s = "error" \/ package' = package \cup {i},
         starved' = starved \/ starved' = starved \cup {i},
         \/ irp' = Completed(i, s) /\ package' = package
         \/ irp' = irp /\ package' = package \cup {i}
         \/ irp' = irp /\ package' = package /\ starved' = starved \cup {i}
  PROVE  IInv'
<1> USE DEF Is
<1>1. TypeOK /\ Good(i) /\ i # NoIrp
  BY RequestAssumption DEF IInv
<1>2. /\ thread' \in [Irps -> ThreadRecord] /\ thread'[i].pc = "gone"
      /\ \A j \in Irps \ {i} : thread'[j] = thread[j]
  BY <1>1, EndsEffect
<1>3. /\ context' \in [Contexts -> ContextRecord]
      /\ \A d \in Contexts \ {thread[i].ctx} : context'[d] = context[d]
  BY <1>1, FreeEffect, Types
<1>4. irp' \in [Irps -> IrpRecord] /\ \A j \in Irps \ {i} : irp'[j] = irp[j]
  BY <1>1, CompletedEffect DEF TypeOK
<1>5. TypeOK'
  BY <1>1, <1>2, <1>3, <1>4 DEF TypeOK
<1>6. /\ Uncounted(i)' = Uncounted(i) /\ Unended(i)' = Unended(i) /\ Made(i)' = Made(i)
      /\ Started(i)' <=> Started(i)
  BY SetsStay
<1>7. Uncounted(i) = {} /\ Made(i) = {}
  BY DEF Unended, Uncounted, Made
<1>8. Own(i)' /\ Waits(i)' /\ Untouched(i)'
  BY <1>2 DEF Own, Waits, Untouched, InDriver, Fresh
<1>9. CountsRight(i)' /\ Phases(i)'
  BY <1>1, <1>2, <1>6, <1>7 DEF Good, CountsRight, Phases
<1>10. CASE irp' = Completed(i, s) /\ package' = package
  <2>1. irp'[i].status = s /\ irp'[i].done = 1 /\ irp'[i].whole = (irp[i].whole /\ s # "error")
    BY <1>1, <1>10, CompletedEffect
  <2>2. Once(i)' /\ Kept(i)'
    BY <1>2, <1>6, <1>10, <2>1 DEF Once, Kept
  <2>3. Status(i)'
    BY <1>1, <1>2, <1>6, <1>7, <1>10, <2>1 DEF Good, Status, Answers, Fresh
  <2>4. Good(i)'
    BY <1>8, <1>9, <2>2, <2>3 DEF Good
  <2>5. ASSUME NEW j \in Irps \ {i}
        PROVE  Same(j)
    BY <1>2, <1>3, <1>4, <1>10, <2>5, OthersKeepContext DEF Same
  <2>. QED BY <1>5, <2>4, <2>5, OneStep
<1>11. CASE /\ irp' = irp
            /\ package' = package \cup {i} \/ (package' = package /\ starved' = starved \cup {i})
  <2>1. Once(i)' /\ Kept(i)'
    BY <1>1, <1>2, <1>6, <1>11 DEF Good, Once, Kept, GivenAway
  <2>2. Status(i)'
    BY <1>1, <1>2, <1>6, <1>7, <1>11 DEF Good, Status, Answers, Fresh
  <2>3. Good(i)'
    BY <1>8, <1>9, <2>1, <2>2 DEF Good
  <2>4. ASSUME NEW j \in Irps \ {i}
        PROVE  Same(j)
    BY <1>2, <1>3, <1>4, <1>11, <2>4, OthersKeepContext DEF Same
  <2>. QED BY <1>5, <2>3, <2>4, OneStep
<1>. QED BY <1>10, <1>11

LEMMA LockAndNotifyStep ==
  ASSUME IInv, NEW i \in Irps, Lock(i) \/ Notify(i)
  PROVE  IInv'
<1> USE DEF Is, unmoved
<1>1. TypeOK /\ Good(i) /\ thread[i].pc \in {"handler", "acquire"} /\ i # NoIrp
  BY RequestAssumption DEF IInv, Lock, Notify
<1>2. InDriver(i) /\ Mine(i).irp = i /\ Unended(i) = {} /\ ~ transfer[i].live /\ irp[i].done = 0
      /\ i \notin package /\ i \notin failed /\ ~ Started(i)
  BY <1>1 DEF Good, Own, Untouched, InDriver, Fresh, Unended, Started, Status, Answers
<1>3. holders' \subseteq Irps
  BY <1>1 DEF TypeOK, Lock, Notify
<1>4. CASE Lock(i)
  BY <1>2, <1>3, <1>4, Leaves DEF Lock
<1>5. CASE Notify(i)
  BY <1>2, <1>3, <1>5, Leaves DEF Notify
<1>. QED BY <1>4, <1>5

(* The exception handler has found the IRP in the context. *)
LEMMA HandleStep ==
  ASSUME IInv, NEW i \in Irps, Handle(i)
  PROVE  IInv'
<1> USE DEF Is, unmoved
<1>1. TypeOK /\ Good(i) /\ thread[i].pc = "unwound" /\ i # NoIrp
  BY RequestAssumption DEF IInv, Handle
<1>2. InDriver(i) /\ Mine(i).irp = i /\ Mine(i).of = i /\ Unended(i) = {} /\ ~ transfer[i].live
      /\ irp[i].done = 0 /\ i \notin package /\ ~ Started(i)
  BY <1>1 DEF Good, Own, Untouched, InDriver, Fresh, Unended, Started
<1>3. holders' \subseteq Irps
  BY <1>1 DEF TypeOK, Handle
<1>4. \/ irp' = Completed(i, "error") /\ package' = package
      \/ irp' = irp /\ package' = package \cup {i}
  BY <1>1, <1>2 DEF Handle
<1>5. Ends(i) /\ context' = Free(thread[i].ctx) /\ UNCHANGED <<transfer, part, writer, failed, starved>>
  BY <1>1, <1>2 DEF Handle
<1>. QED BY <1>2, <1>3, <1>4, <1>5, Leaves

(* The work is done, or the cache manager raises, without a transfer; or a  *)
(* request leaves the work queue.                                           *)
LEMMA StaysInDriver ==
  ASSUME IInv, NEW i \in Irps, thread[i].pc \in {"body", "queued", "readfinally"},
         NEW l \in {"handler", "finally", "readfinally", "unwound"}, NEW s \in {"success", "error"},
         Goes(i, l, s), UNCHANGED <<transfer, part, package, starved, writer>>,
         irp' = irp \/ (irp' = [irp EXCEPT ![i].whole = TRUE] /\ l = "finally"),
         context' = context \/ context' = [context EXCEPT ![thread[i].ctx].exception = TRUE],
         holders' \subseteq Irps,
         failed' = failed \/ failed' = failed \cup {i},
         i \in failed' => l \in {"readfinally", "unwound"}
  PROVE  IInv'
<1> USE DEF Is
<1>1. TypeOK /\ Good(i) /\ i # NoIrp
  BY RequestAssumption DEF IInv
<1>2. /\ thread' \in [Irps -> ThreadRecord]
      /\ thread'[i].pc = l /\ thread'[i].status = s /\ thread'[i].ctx = thread[i].ctx
      /\ \A j \in Irps \ {i} : thread'[j] = thread[j]
  BY <1>1, GoesEffect DEF Pcs
<1>3. /\ context' \in [Contexts -> ContextRecord]
      /\ Mine(i)'.of = Mine(i).of /\ Mine(i)'.irp = Mine(i).irp /\ Mine(i)'.sync = Mine(i).sync
      /\ \A d \in Contexts \ {thread[i].ctx} : context'[d] = context[d]
  <2>1. thread[i].ctx \in Contexts /\ context[thread[i].ctx] \in ContextRecord
    BY <1>1, Types DEF TypeOK
  <2>2. [context[thread[i].ctx] EXCEPT !.exception = TRUE] \in ContextRecord
    BY <2>1 DEF ContextRecord
  <2>3. \/ context' = context
        \/ context' = [context EXCEPT ![thread[i].ctx] = [context[thread[i].ctx] EXCEPT !.exception = TRUE]]
    BY <1>1, <2>1 DEF TypeOK
  <2>4. /\ context' \in [Contexts -> ContextRecord]
        /\ \A d \in Contexts \ {thread[i].ctx} : context'[d] = context[d]
        /\ \/ context'[thread[i].ctx] = context[thread[i].ctx]
           \/ context'[thread[i].ctx] = [context[thread[i].ctx] EXCEPT !.exception = TRUE]
    BY <1>1, <2>1, <2>2, <2>3 DEF TypeOK
  <2>5. /\ context'[thread[i].ctx].of = context[thread[i].ctx].of
        /\ context'[thread[i].ctx].irp = context[thread[i].ctx].irp
        /\ context'[thread[i].ctx].sync = context[thread[i].ctx].sync
    BY <2>1, <2>4 DEF ContextRecord
  <2>. QED BY <1>2, <2>4, <2>5 DEF Mine
<1>4. /\ irp' \in [Irps -> IrpRecord] /\ irp'[i].done = irp[i].done /\ irp'[i].status = irp[i].status
      /\ irp'[i].kind = irp[i].kind
      /\ \A j \in Irps \ {i} : irp'[j] = irp[j]
  <2>1. [irp[i] EXCEPT !.whole = TRUE] \in IrpRecord /\ irp[i] \in IrpRecord
    <3>1. irp[i] \in IrpRecord
      BY <1>1, Types
    <3>. QED BY <3>1 DEF IrpRecord
  <2>2. irp' = irp \/ irp' = [irp EXCEPT ![i] = [irp[i] EXCEPT !.whole = TRUE]]
    BY <1>1 DEF TypeOK
  <2>3. /\ irp' \in [Irps -> IrpRecord] /\ \A j \in Irps \ {i} : irp'[j] = irp[j]
        /\ irp'[i] = irp[i] \/ irp'[i] = [irp[i] EXCEPT !.whole = TRUE]
    BY <1>1, <2>1, <2>2 DEF TypeOK
  <2>. QED BY <2>1, <2>3 DEF IrpRecord
<1>5. TypeOK'
  BY <1>1, <1>2, <1>3, <1>4 DEF TypeOK
<1>6. InDriver(i) /\ Fresh(i) /\ Mine(i).of = i /\ Mine(i).irp = i /\ ~ Started(i)
  BY <1>1 DEF InDriver, Fresh, Good, Own, Untouched
<1>7. /\ Uncounted(i)' = Uncounted(i) /\ Unended(i)' = Unended(i) /\ Made(i)' = Made(i)
      /\ Started(i)' <=> Started(i)
  BY SetsStay
<1>8. Unended(i) = {} /\ Uncounted(i) = {} /\ Made(i) = {}
  BY <1>6 DEF Started, Unended, Uncounted, Made
<1>9. Own(i)' /\ Untouched(i)'
  BY <1>1, <1>2, <1>3, <1>4, <1>6, <1>7 DEF Good, Own, Untouched, InDriver, Fresh
<1>10. Waits(i)'
  BY <1>1, <1>2, <1>3, <1>4, <1>6 DEF Good, Waits, IsSynchronous
<1>11. CountsRight(i)' /\ Phases(i)'
  BY <1>1, <1>2, <1>6, <1>7, <1>8 DEF Good, CountsRight, Phases, Untouched
<1>12. Once(i)' /\ Kept(i)'
  BY <1>1, <1>2, <1>3, <1>4, <1>6, <1>7, <1>8 DEF Good, Once, Kept, Untouched, GivenAway
<1>13. Status(i)'
  BY <1>1, <1>2, <1>3, <1>4, <1>6, <1>7 DEF Good, Status, Answers, Fresh, Untouched
<1>14. Good(i)'
  BY <1>9, <1>11, <1>12, <1>13, <1>10 DEF Good
<1>15. ASSUME NEW j \in Irps \ {i}
       PROVE  Same(j)
  BY <1>2, <1>3, <1>4, <1>6, <1>15, OthersKeepContext DEF Same
<1>. QED BY <1>5, <1>14, <1>15, OneStep

LEMMA StaysSteps ==
  ASSUME IInv, NEW i \in Irps, Leftovers = {FALSE},
         Copied(i) \/ Dequeue(i) \/ Raise(i) \/ ReadFinally(i)
  PROVE  IInv'
<1> USE DEF Is, unmoved
<1>1. TypeOK /\ Good(i) /\ holders \subseteq Irps
  BY DEF IInv, TypeOK
<1>2. CASE Copied(i)
  <2>1. i \notin failed
    BY <1>1, <1>2 DEF Copied, Good, Status, Answers, Fresh
  <2>. QED BY <1>1, <1>2, <2>1, StaysInDriver DEF Copied
<1>3. CASE Dequeue(i)
  <2>1. i \notin failed
    BY <1>1, <1>3 DEF Dequeue, Good, Status, Answers, Fresh
  <2>. QED BY <1>1, <1>3, <2>1, StaysInDriver DEF Dequeue
<1>4. CASE Raise(i)
  BY <1>1, <1>4, StaysInDriver DEF Raise, Cached
<1>5. CASE ReadFinally(i)
  BY <1>1, <1>5, StaysInDriver DEF ReadFinally
<1>. QED BY <1>2, <1>3, <1>4, <1>5

(* No pool for the transfer: the status is the one the IRP came with, or    *)
(* the IRP is forgotten.                                                    *)
LEMMA StarveStep ==
  ASSUME IInv, NEW i \in Irps, Starve(i)
  PROVE  IInv'
<1> USE DEF Is, unmoved
<1>1. TypeOK /\ Good(i) /\ i # NoIrp /\ thread[i].pc = "body"
  BY RequestAssumption DEF IInv, Starve
<1>2. InDriver(i) /\ Fresh(i) /\ Mine(i).of = i /\ Mine(i).irp = i /\ ~ Started(i) /\ i \notin failed
      /\ irp[i].done = 0 /\ irp[i].status = "success"
  BY <1>1 DEF InDriver, Fresh, Good, Own, Untouched, Status, Answers
<1>3. PICK l \in {"measure", "finally"}, s \in {"success", "pending"} :
        /\ Goes(i, l, s)
        /\ IF IsSynchronous(i) THEN s = "success" /\ context' = context
           ELSE context' = [context EXCEPT ![thread[i].ctx].irp = NoIrp]
        /\ l = "measure" => irp[i].kind = "stream"
  BY <1>2 DEF Starve, Returned
<1>4. /\ thread' \in [Irps -> ThreadRecord]
      /\ thread'[i].pc = l /\ thread'[i].status = s /\ thread'[i].ctx = thread[i].ctx
      /\ \A j \in Irps \ {i} : thread'[j] = thread[j]
  BY <1>1, <1>3, GoesEffect DEF Pcs
<1>5. /\ context' \in [Contexts -> ContextRecord]
      /\ Mine(i)'.of = i /\ Mine(i)'.irp \in {i, NoIrp} /\ Mine(i)'.sync = Mine(i).sync
      /\ Mine(i)'.irp = NoIrp => ~ IsSynchronous(i)
      /\ Mine(i)'.irp = i => s = "success"
      /\ \A d \in Contexts \ {thread[i].ctx} : context'[d] = context[d]
  <2>1. thread[i].ctx \in Contexts /\ context[thread[i].ctx] \in ContextRecord
    BY <1>1, Types DEF TypeOK
  <2>2. [context[thread[i].ctx] EXCEPT !.irp = NoIrp] \in ContextRecord
    BY <2>1 DEF ContextRecord
  <2>3. \/ context' = context
        \/ context' = [context EXCEPT ![thread[i].ctx] = [context[thread[i].ctx] EXCEPT !.irp = NoIrp]]
    BY <1>1, <1>3, <2>1 DEF TypeOK
  <2>4. /\ context' \in [Contexts -> ContextRecord]
        /\ \A d \in Contexts \ {thread[i].ctx} : context'[d] = context[d]
        /\ \/ context'[thread[i].ctx] = context[thread[i].ctx]
           \/ context'[thread[i].ctx] = [context[thread[i].ctx] EXCEPT !.irp = NoIrp]
    BY <1>1, <2>1, <2>2, <2>3 DEF TypeOK
  <2>5. /\ context'[thread[i].ctx].of = context[thread[i].ctx].of
        /\ context'[thread[i].ctx].sync = context[thread[i].ctx].sync
        /\ context'[thread[i].ctx].irp \in {context[thread[i].ctx].irp, NoIrp}
    BY <2>1, <2>4 DEF ContextRecord
  <2>6. /\ context' = context => IsSynchronous(i) /\ s = "success"
        /\ context' # context => ~ IsSynchronous(i) /\ context'[thread[i].ctx].irp = NoIrp
    <3>1. CASE IsSynchronous(i)
      BY <1>3, <3>1
    <3>2. CASE ~ IsSynchronous(i)
      <4>1. context' = [context EXCEPT ![thread[i].ctx] = [context[thread[i].ctx] EXCEPT !.irp = NoIrp]]
        BY <1>1, <1>3, <2>1, <3>2 DEF TypeOK
      <4>2. context'[thread[i].ctx].irp = NoIrp
        BY <1>1, <2>1, <4>1 DEF TypeOK, ContextRecord
      <4>3. context' # context
        BY <1>1, <1>2, <4>2 DEF Mine
      <4>. QED BY <3>2, <4>2, <4>3
    <3>. QED BY <3>1, <3>2
  <2>. QED BY <1>1, <1>2, <1>4, <2>4, <2>5, <2>6 DEF Mine
<1>6. TypeOK'
  BY <1>1, <1>4, <1>5 DEF TypeOK, Starve
<1>7. /\ Uncounted(i)' = Uncounted(i) /\ Unended(i)' = Unended(i) /\ Made(i)' = Made(i)
      /\ Started(i)' <=> Started(i)
  BY SetsStay DEF Starve
<1>8. Unended(i) = {} /\ Uncounted(i) = {} /\ Made(i) = {}
  BY <1>2 DEF Started, Unended, Uncounted, Made
<1>9. irp' = irp /\ transfer' = transfer /\ package' = package /\ failed' = failed
      /\ starved' = starved \cup {i} /\ part' = part
  BY DEF Starve
(* The transfer of the stream file is waited for: the thread keeps the IRP. *)
<1>10. Own(i)' /\ Untouched(i)' /\ Waits(i)'
  <2>1. l = "measure" => IsSynchronous(i)
    BY <1>1, <1>2, <1>3 DEF Good, Waits
  <2>. QED BY <1>1, <1>2, <1>3, <1>4, <1>5, <1>9, <2>1 DEF Good, Own, Waits, IsSynchronous, Untouched, InDriver, Fresh
<1>11. CountsRight(i)' /\ Phases(i)'
  BY <1>1, <1>2, <1>4, <1>7, <1>8, <1>9 DEF Good, CountsRight, Phases, Untouched
<1>12. Once(i)' /\ Kept(i)' /\ Status(i)'
  BY <1>1, <1>2, <1>3, <1>4, <1>5, <1>7, <1>8, <1>9 DEF Good, Once, Kept, Untouched, GivenAway, Status, Answers, Fresh
<1>13. Good(i)'
  BY <1>10, <1>11, <1>12 DEF Good
<1>14. ASSUME NEW j \in Irps \ {i}
       PROVE  Same(j)
  BY <1>2, <1>4, <1>5, <1>9, <1>14, OthersKeepContext DEF Same
<1>. QED BY <1>6, <1>13, <1>14, OneStep

(* The finally block: the IRP is the disk driver's, or goes to the queue,   *)
(* or is completed.                                                         *)
LEMMA FinallyStep ==
  ASSUME IInv, NEW i \in Irps, Finally(i)
  PROVE  IInv'
<1> USE DEF Is, unmoved
<1>1. TypeOK /\ Good(i) /\ i # NoIrp /\ thread[i].pc = "finally" /\ InDriver(i) /\ Mine(i).of = i
  BY RequestAssumption DEF IInv, Finally, Good, Own, InDriver
<1>2. holders' \subseteq Irps /\ UNCHANGED <<package, failed, starved, transfer, part, writer>>
  BY <1>1 DEF TypeOK, Finally
<1>3. /\ Uncounted(i)' = Uncounted(i) /\ Unended(i)' = Unended(i) /\ Made(i)' = Made(i)
      /\ Started(i)' <=> Started(i)
  BY <1>2, SetsStay
<1>4. i \notin package
  BY <1>1 DEF Good, Once
<1>5. CASE Mine(i).irp = NoIrp /\ Ends(i) /\ context' = Free(thread[i].ctx) /\ irp' = irp
  <2>1. /\ thread' \in [Irps -> ThreadRecord] /\ thread'[i].pc = "gone"
        /\ \A j \in Irps \ {i} : thread'[j] = thread[j]
    BY <1>1, <1>5, EndsEffect
  <2>2. /\ context' \in [Contexts -> ContextRecord]
        /\ \A d \in Contexts \ {thread[i].ctx} : context'[d] = context[d]
    BY <1>1, <1>5, FreeEffect, Types
  <2>3. TypeOK'
    BY <1>1, <1>2, <1>5, <2>1, <2>2 DEF TypeOK
  <2>4. GivenAway(i)
    BY <1>1, <1>5 DEF GivenAway
  <2>5. Own(i)' /\ Waits(i)' /\ Untouched(i)'
    BY <2>1 DEF Own, Waits, Untouched, InDriver, Fresh
  <2>6. CountsRight(i)' /\ Phases(i)'
    BY <1>1, <1>2, <1>3, <1>5, <2>1 DEF Good, CountsRight, Phases
  <2>7. Once(i)' /\ Kept(i)' /\ Status(i)'
    BY <1>1, <1>2, <1>3, <1>4, <1>5, <2>1, <2>4 DEF Good, Once, Kept, Status, Answers, Fresh, GivenAway
  <2>8. Good(i)'
    BY <2>5, <2>6, <2>7 DEF Good
  <2>9. ASSUME NEW j \in Irps \ {i}
        PROVE  Same(j)
    BY <1>1, <1>2, <1>5, <2>1, <2>2, <2>9, OthersKeepContext DEF Same
  <2>. QED BY <2>3, <2>8, <2>9, OneStep
<1>6. ASSUME Mine(i).irp # NoIrp
      PROVE  /\ Mine(i).irp = i /\ Unended(i) = {} /\ Uncounted(i) = {} /\ Made(i) = {}
             /\ ~ transfer[i].live /\ irp[i].done = 0
  <2>1. Mine(i).irp = i /\ ~ GivenAway(i)
    BY <1>1, <1>6 DEF Good, Own, GivenAway
  <2>2. Unended(i) = {}
    BY <1>1, <2>1 DEF Good, Phases
  <2>3. Uncounted(i) = {} /\ Made(i) = {}
    BY <2>2 DEF Unended, Uncounted, Made
  <2>. QED BY <1>1, <2>1, <2>2, <2>3 DEF Good, Phases, Once
<1>7. CASE /\ Mine(i).irp # NoIrp /\ thread[i].status = "pending"
           /\ Goes(i, "queued", "pending") /\ context' = Requeued(thread[i].ctx) /\ irp' = irp
  <2>1. /\ thread' \in [Irps -> ThreadRecord]
        /\ thread'[i].pc = "queued" /\ thread'[i].ctx = thread[i].ctx
        /\ \A j \in Irps \ {i} : thread'[j] = thread[j]
    BY <1>1, <1>7, GoesEffect DEF Pcs
  <2>2. /\ context' \in [Contexts -> ContextRecord]
        /\ Mine(i)'.of = i /\ Mine(i)'.irp = i /\ Mine(i)'.sync
        /\ \A d \in Contexts \ {thread[i].ctx} : context'[d] = context[d]
    <3>1. thread[i].ctx \in Contexts /\ context[thread[i].ctx] \in ContextRecord
      BY <1>1, Types DEF TypeOK
    <3>2. [context[thread[i].ctx] EXCEPT !.sync = TRUE] \in ContextRecord
      BY <3>1 DEF ContextRecord
    <3>3. context' = [context EXCEPT ![thread[i].ctx] = [context[thread[i].ctx] EXCEPT !.sync = TRUE]]
      BY <1>1, <1>7, <3>1 DEF TypeOK, Requeued
    <3>4. /\ context' \in [Contexts -> ContextRecord]
          /\ \A d \in Contexts \ {thread[i].ctx} : context'[d] = context[d]
          /\ context'[thread[i].ctx] = [context[thread[i].ctx] EXCEPT !.sync = TRUE]
      BY <1>1, <3>1, <3>2, <3>3 DEF TypeOK
    <3>5. /\ context'[thread[i].ctx].of = context[thread[i].ctx].of
          /\ context'[thread[i].ctx].irp = context[thread[i].ctx].irp
          /\ context'[thread[i].ctx].sync
      BY <3>1, <3>4 DEF ContextRecord
    <3>. QED BY <1>1, <1>6, <1>7, <2>1, <3>4, <3>5 DEF Mine
  <2>3. TypeOK'
    BY <1>1, <1>2, <1>7, <2>1, <2>2 DEF TypeOK
  (* A transfer would have left the status of the IRP. *)
  <2>4. ~ Started(i) /\ i \notin failed /\ irp[i].status = "success"
    BY <1>1, <1>6, <1>7, Types DEF Good, Status, Answers
  <2>5. Own(i)' /\ Waits(i)' /\ Untouched(i)'
    BY <1>2, <1>3, <1>4, <1>6, <1>7, <2>1, <2>2, <2>4 DEF Own, Waits, IsSynchronous, Untouched, InDriver, Fresh
  <2>6. CountsRight(i)' /\ Phases(i)'
    BY <1>1, <1>2, <1>3, <1>6, <1>7, <2>1 DEF Good, CountsRight, Phases
  <2>7. Once(i)' /\ Kept(i)' /\ Status(i)'
    BY <1>1, <1>2, <1>3, <1>4, <1>6, <1>7, <2>1, <2>4 DEF Good, Once, Kept, Status, Answers, Fresh, GivenAway
  <2>8. Good(i)'
    BY <2>5, <2>6, <2>7 DEF Good
  <2>9. ASSUME NEW j \in Irps \ {i}
        PROVE  Same(j)
    BY <1>1, <1>2, <1>7, <2>1, <2>2, <2>9, OthersKeepContext DEF Same
  <2>. QED BY <2>3, <2>8, <2>9, OneStep
<1>8. CASE /\ Mine(i).irp # NoIrp /\ Ends(i) /\ context' = Free(thread[i].ctx)
           /\ irp' = Completed(i, IF thread[i].status = "pending" THEN "error" ELSE thread[i].status)
  <2> DEFINE s == IF thread[i].status = "pending" THEN "error" ELSE thread[i].status
  <2>1. s \in {"success", "error"}
    BY <1>1, Types
  <2>2. Started(i) => s = irp[i].status
    BY <1>1, <1>6, <1>8, Types DEF Good, Status, Answers
  <2>3. i \in failed => s = "error"
    BY <1>1, <1>6, <1>8 DEF Good, Status, Answers
  <2>4. irp' = Completed(i, s) /\ package' = package /\ starved' = starved
    BY <1>2, <1>8
  <2> HIDE DEF s
  <2>. QED BY <1>1, <1>2, <1>4, <1>6, <1>8, <2>1, <2>2, <2>3, <2>4, Leaves
<1>. QED BY <1>5, <1>7, <1>8 DEF Finally
-----------------------------------------------------------------------------
(* The transfer *)

(* What a step does that moves neither contexts nor packages *)
LEMMA SameElsewhere ==
  ASSUME NEW i \in Irps, NEW j \in Irps \ {i},
         thread'[j] = thread[j], irp'[j] = irp[j], part'[j] = part[j], transfer'[j] = transfer[j],
         package' \in {package, package \ {i}}, failed' \in {failed, failed \cup {i}},
         starved' = starved, context' = context
  PROVE  Same(j)
BY DEF Same, Mine

(* The associated IRPs are made, and counted twice: in pContext->Blocks and *)
(* in the master IRP.                                                       *)
LEMMA PrepareStep ==
  ASSUME IInv, NEW i \in Irps, Prepare(i)
  PROVE  IInv'
<1> USE DEF Is
<1>1. TypeOK /\ Good(i) /\ thread[i].pc = "body" /\ i # NoIrp
  BY RequestAssumption DEF IInv, Prepare
<1>2. InDriver(i) /\ Fresh(i) /\ Mine(i).of = i /\ Mine(i).irp = i /\ ~ Started(i) /\ i \notin failed
      /\ irp[i].done = 0 /\ irp[i].status = "success" /\ i \notin package
  BY <1>1 DEF InDriver, Fresh, Good, Own, Untouched, Status, Answers
<1>3. PICK n \in IF irp[i].kind = "read" THEN Blocks ELSE {1} :
        /\ part' = [part EXCEPT ![i] = [b \in Blocks |-> IF b <= n THEN "made" ELSE "none"]]
        /\ transfer' = [transfer EXCEPT ![i] = [live |-> TRUE, wait |-> IsSynchronous(i),
                                                 blocks |-> n, event |-> FALSE]]
        /\ irp' = [irp EXCEPT ![i].count = IrpCount(n, IsSynchronous(i)), ![i].whole = irp[i].kind = "read"]
  BY DEF Prepare, Counted
<1>4. n \in Nat /\ n \in Blocks /\ Cardinality({ b \in Blocks : b <= n }) = n
      /\ n \in { b \in Blocks : b <= n }
  <2>1. n \in Blocks
    BY OneBlock
  <2>2. n \in Nat /\ Cardinality({ b \in Blocks : b <= n }) = n
    BY <2>1, FirstBlocks
  <2>. QED BY <2>1, <2>2
<1>5. /\ thread' \in [Irps -> ThreadRecord]
      /\ thread'[i].pc = "sending" /\ thread'[i].ctx = thread[i].ctx
      /\ \A j \in Irps \ {i} : thread'[j] = thread[j]
  BY <1>1, GoesEffect DEF Pcs, Prepare
<1>6. IsSynchronous(i) \in BOOLEAN /\ IrpCount(n, IsSynchronous(i)) \in Nat
      /\ (~ IsSynchronous(i) => IrpCount(n, IsSynchronous(i)) = n)
  BY <1>1, <1>4, Types DEF IsSynchronous, IrpCount
<1>7. /\ irp' \in [Irps -> IrpRecord] /\ irp'[i].done = 0 /\ irp'[i].status = "success"
      /\ irp'[i].kind = irp[i].kind /\ irp'[i].count = IrpCount(n, IsSynchronous(i))
      /\ \A j \in Irps \ {i} : irp'[j] = irp[j]
  <2>1. irp[i] \in IrpRecord /\ (irp[i].kind = "read") \in BOOLEAN
    BY <1>1, Types
  <2>2. [irp[i] EXCEPT !.count = IrpCount(n, IsSynchronous(i)), !.whole = irp[i].kind = "read"] \in IrpRecord
    BY <1>6, <2>1 DEF IrpRecord
  <2>3. irp' = [irp EXCEPT ![i] = [irp[i] EXCEPT !.count = IrpCount(n, IsSynchronous(i)),
                                                !.whole = irp[i].kind = "read"]]
    BY <1>1, <1>3 DEF TypeOK
  <2>4. /\ irp' \in [Irps -> IrpRecord] /\ \A j \in Irps \ {i} : irp'[j] = irp[j]
        /\ irp'[i] = [irp[i] EXCEPT !.count = IrpCount(n, IsSynchronous(i)), !.whole = irp[i].kind = "read"]
    BY <1>1, <2>2, <2>3 DEF TypeOK
  <2>. QED BY <1>2, <2>1, <2>4 DEF IrpRecord
<1>8. /\ transfer' \in [Irps -> TransferRecord]
      /\ transfer'[i].live /\ transfer'[i].wait = IsSynchronous(i)
      /\ transfer'[i].blocks = n /\ ~ transfer'[i].event
      /\ \A j \in Irps \ {i} : transfer'[j] = transfer[j]
  BY <1>1, <1>3, <1>4, <1>6 DEF TypeOK, TransferRecord
<1>9. /\ part' \in [Irps -> [Blocks -> {"none", "made", "sent", "noted", "counted", "gone"}]]
      /\ part'[i] = [b \in Blocks |-> IF b <= n THEN "made" ELSE "none"]
      /\ \A j \in Irps \ {i} : part'[j] = part[j]
  BY <1>1, <1>3 DEF TypeOK
<1>10. TypeOK'
  BY <1>1, <1>5, <1>7, <1>8, <1>9 DEF TypeOK, Prepare
<1>11. /\ Uncounted(i)' = { b \in Blocks : b <= n } /\ Unended(i)' = { b \in Blocks : b <= n }
       /\ Made(i)' = { b \in Blocks : b <= n } /\ Started(i)'
       /\ \A b \in Blocks : part'[i][b] # "counted"
  BY <1>4, <1>9 DEF Uncounted, Unended, Made, Started
<1>12. context' = context /\ package' = package /\ failed' = failed /\ starved' = starved
       /\ Mine(i)' = Mine(i) /\ IsSynchronous(i)' = IsSynchronous(i)
  BY <1>5 DEF Prepare, Mine, IsSynchronous
<1>13. Own(i)' /\ Waits(i)' /\ Untouched(i)'
  BY <1>1, <1>2, <1>5, <1>7, <1>12 DEF Good, Own, Waits, Untouched, InDriver, Fresh
<1>14. CountsRight(i)'
  BY <1>4, <1>6, <1>7, <1>8, <1>11 DEF CountsRight
<1>15. Phases(i)'
  BY <1>4, <1>5, <1>6, <1>8, <1>11, <1>12 DEF Phases
<1>16. Once(i)' /\ Kept(i)'
  BY <1>2, <1>5, <1>7, <1>11, <1>12 DEF Once, Kept, GivenAway
<1>17. Status(i)'
  BY <1>2, <1>4, <1>5, <1>7, <1>11, <1>12 DEF Status, Answers, Fresh
<1>18. Good(i)'
  BY <1>13, <1>14, <1>15, <1>16, <1>17 DEF Good
<1>19. ASSUME NEW j \in Irps \ {i}
       PROVE  Same(j)
  BY <1>5, <1>7, <1>8, <1>9, <1>12, <1>19, SameElsewhere
<1>. QED BY <1>10, <1>18, <1>19, OneStep

(* One part changes state: what becomes of the sets of them *)
LEMMA PartMoves ==
  ASSUME TypeOK, NEW i \in Irps, NEW b \in Blocks,
         NEW s \in {"none", "made", "sent", "noted", "counted", "gone"}, s # "none",
         part' = [part EXCEPT ![i][b] = s]
  PROVE  /\ part' \in [Irps -> [Blocks -> {"none", "made", "sent", "noted", "counted", "gone"}]]
         /\ part'[i][b] = s /\ \A a \in Blocks \ {b} : part'[i][a] = part[i][a]
         /\ \A j \in Irps \ {i} : part'[j] = part[j]
         /\ Started(i)'
         /\ Made(i)' = IF s = "made" THEN Made(i) \cup {b} ELSE Made(i) \ {b}
         /\ Uncounted(i)' = IF s \in {"made", "sent", "noted"} THEN Uncounted(i) \cup {b}
                            ELSE Uncounted(i) \ {b}
         /\ Unended(i)' = IF s \in {"made", "sent", "noted", "counted"} THEN Unended(i) \cup {b}
                          ELSE Unended(i) \ {b}
<1>1. part' = [part EXCEPT ![i] = [part[i] EXCEPT ![b] = s]]
  BY DEF TypeOK
<1>2. part'[i] = [part[i] EXCEPT ![b] = s]
      /\ part[i] \in [Blocks -> {"none", "made", "sent", "noted", "counted", "gone"}]
  BY <1>1 DEF TypeOK
<1>3. part'[i][b] = s /\ \A a \in Blocks \ {b} : part'[i][a] = part[i][a]
  BY <1>2
<1>4. /\ part' \in [Irps -> [Blocks -> {"none", "made", "sent", "noted", "counted", "gone"}]]
      /\ \A j \in Irps \ {i} : part'[j] = part[j]
  BY <1>1, <1>2 DEF TypeOK
<1>5. Made(i)' = IF s = "made" THEN Made(i) \cup {b} ELSE Made(i) \ {b}
  BY <1>3 DEF Made
<1>6. Uncounted(i)' = IF s \in {"made", "sent", "noted"} THEN Uncounted(i) \cup {b}
                      ELSE Uncounted(i) \ {b}
  BY <1>3 DEF Uncounted
<1>7. Unended(i)' = IF s \in {"made", "sent", "noted", "counted"} THEN Unended(i) \cup {b}
                    ELSE Unended(i) \ {b}
  BY <1>3 DEF Unended
<1>8. Started(i)'
  BY <1>3 DEF Started
<1>. QED BY <1>3, <1>4, <1>5, <1>6, <1>7, <1>8

(* The next driver has an associated IRP. *)
LEMMA PartSent ==
  ASSUME TypeOK, NEW i \in Irps, NEW b \in Blocks, part' = [part EXCEPT ![i][b] = "sent"]
  PROVE  /\ part' \in [Irps -> [Blocks -> {"none", "made", "sent", "noted", "counted", "gone"}]]
         /\ part'[i][b] = "sent" /\ \A a \in Blocks \ {b} : part'[i][a] = part[i][a]
         /\ \A j \in Irps \ {i} : part'[j] = part[j]
         /\ Started(i)' /\ Made(i)' = Made(i) \ {b}
         /\ Uncounted(i)' = Uncounted(i) \cup {b} /\ Unended(i)' = Unended(i) \cup {b}
<1>1. /\ part' \in [Irps -> [Blocks -> {"none", "made", "sent", "noted", "counted", "gone"}]]
      /\ part'[i][b] = "sent" /\ \A a \in Blocks \ {b} : part'[i][a] = part[i][a]
      /\ \A j \in Irps \ {i} : part'[j] = part[j]
      /\ Started(i)'
      /\ Made(i)' = IF "sent" = "made" THEN Made(i) \cup {b} ELSE Made(i) \ {b}
      /\ Uncounted(i)' = IF "sent" \in {"made", "sent", "noted"} THEN Uncounted(i) \cup {b}
                         ELSE Uncounted(i) \ {b}
      /\ Unended(i)' = IF "sent" \in {"made", "sent", "noted", "counted"} THEN Unended(i) \cup {b}
                       ELSE Unended(i) \ {b}
  BY PartMoves
<1>. QED BY <1>1

(* Its completion routine has written the master IRP. *)
LEMMA PartNoted ==
  ASSUME TypeOK, NEW i \in Irps, NEW b \in Blocks, part' = [part EXCEPT ![i][b] = "noted"]
  PROVE  /\ part' \in [Irps -> [Blocks -> {"none", "made", "sent", "noted", "counted", "gone"}]]
         /\ part'[i][b] = "noted" /\ \A a \in Blocks \ {b} : part'[i][a] = part[i][a]
         /\ \A j \in Irps \ {i} : part'[j] = part[j]
         /\ Started(i)' /\ Made(i)' = Made(i) \ {b}
         /\ Uncounted(i)' = Uncounted(i) \cup {b} /\ Unended(i)' = Unended(i) \cup {b}
<1>1. /\ part' \in [Irps -> [Blocks -> {"none", "made", "sent", "noted", "counted", "gone"}]]
      /\ part'[i][b] = "noted" /\ \A a \in Blocks \ {b} : part'[i][a] = part[i][a]
      /\ \A j \in Irps \ {i} : part'[j] = part[j]
      /\ Started(i)'
      /\ Made(i)' = IF "noted" = "made" THEN Made(i) \cup {b} ELSE Made(i) \ {b}
      /\ Uncounted(i)' = IF "noted" \in {"made", "sent", "noted"} THEN Uncounted(i) \cup {b}
                         ELSE Uncounted(i) \ {b}
      /\ Unended(i)' = IF "noted" \in {"made", "sent", "noted", "counted"} THEN Unended(i) \cup {b}
                       ELSE Unended(i) \ {b}
  BY PartMoves
<1>. QED BY <1>1

(* It has been taken off pContext->Blocks, and is not completed. *)
LEMMA PartCounted ==
  ASSUME TypeOK, NEW i \in Irps, NEW b \in Blocks, part' = [part EXCEPT ![i][b] = "counted"]
  PROVE  /\ part' \in [Irps -> [Blocks -> {"none", "made", "sent", "noted", "counted", "gone"}]]
         /\ part'[i][b] = "counted" /\ \A a \in Blocks \ {b} : part'[i][a] = part[i][a]
         /\ \A j \in Irps \ {i} : part'[j] = part[j]
         /\ Started(i)' /\ Made(i)' = Made(i) \ {b}
         /\ Uncounted(i)' = Uncounted(i) \ {b} /\ Unended(i)' = Unended(i) \cup {b}
<1>1. /\ part' \in [Irps -> [Blocks -> {"none", "made", "sent", "noted", "counted", "gone"}]]
      /\ part'[i][b] = "counted" /\ \A a \in Blocks \ {b} : part'[i][a] = part[i][a]
      /\ \A j \in Irps \ {i} : part'[j] = part[j]
      /\ Started(i)'
      /\ Made(i)' = IF "counted" = "made" THEN Made(i) \cup {b} ELSE Made(i) \ {b}
      /\ Uncounted(i)' = IF "counted" \in {"made", "sent", "noted"} THEN Uncounted(i) \cup {b}
                         ELSE Uncounted(i) \ {b}
      /\ Unended(i)' = IF "counted" \in {"made", "sent", "noted", "counted"} THEN Unended(i) \cup {b}
                       ELSE Unended(i) \ {b}
  BY PartMoves
<1>. QED BY <1>1

(* It is completed or, where the transfer is waited for, freed. *)
LEMMA PartGone ==
  ASSUME TypeOK, NEW i \in Irps, NEW b \in Blocks, part' = [part EXCEPT ![i][b] = "gone"]
  PROVE  /\ part' \in [Irps -> [Blocks -> {"none", "made", "sent", "noted", "counted", "gone"}]]
         /\ part'[i][b] = "gone" /\ \A a \in Blocks \ {b} : part'[i][a] = part[i][a]
         /\ \A j \in Irps \ {i} : part'[j] = part[j]
         /\ Started(i)' /\ Made(i)' = Made(i) \ {b}
         /\ Uncounted(i)' = Uncounted(i) \ {b} /\ Unended(i)' = Unended(i) \ {b}
<1>1. /\ part' \in [Irps -> [Blocks -> {"none", "made", "sent", "noted", "counted", "gone"}]]
      /\ part'[i][b] = "gone" /\ \A a \in Blocks \ {b} : part'[i][a] = part[i][a]
      /\ \A j \in Irps \ {i} : part'[j] = part[j]
      /\ Started(i)'
      /\ Made(i)' = IF "gone" = "made" THEN Made(i) \cup {b} ELSE Made(i) \ {b}
      /\ Uncounted(i)' = IF "gone" \in {"made", "sent", "noted"} THEN Uncounted(i) \cup {b}
                         ELSE Uncounted(i) \ {b}
      /\ Unended(i)' = IF "gone" \in {"made", "sent", "noted", "counted"} THEN Unended(i) \cup {b}
                       ELSE Unended(i) \ {b}
  BY PartMoves
<1>. QED BY <1>1

LEMMA SendStep ==
  ASSUME IInv, NEW i \in Irps, Send(i)
  PROVE  IInv'
<1> USE DEF Is
<1>1. TypeOK /\ Good(i) /\ thread[i].pc = "sending" /\ InDriver(i) /\ i # NoIrp
  BY RequestAssumption DEF IInv, Send, InDriver
<1>2. PICK b \in Made(i) : part' = [part EXCEPT ![i][b] = "sent"]
  BY DEF Send
<1>3. b \in Blocks /\ b \in Uncounted(i) /\ b \in Unended(i) /\ Made(i) \in SUBSET Blocks
  BY <1>2 DEF Made, Uncounted, Unended
<1>4. /\ part' \in [Irps -> [Blocks -> {"none", "made", "sent", "noted", "counted", "gone"}]]
      /\ part'[i][b] = "sent" /\ \A a \in Blocks \ {b} : part'[i][a] = part[i][a]
      /\ \A j \in Irps \ {i} : part'[j] = part[j]
      /\ Started(i)' /\ Made(i)' = Made(i) \ {b}
      /\ Uncounted(i)' = Uncounted(i) /\ Unended(i)' = Unended(i)
  <2>1. Uncounted(i) \cup {b} = Uncounted(i) /\ Unended(i) \cup {b} = Unended(i)
    BY <1>3
  <2>2. /\ part' \in [Irps -> [Blocks -> {"none", "made", "sent", "noted", "counted", "gone"}]]
        /\ part'[i][b] = "sent" /\ \A a \in Blocks \ {b} : part'[i][a] = part[i][a]
        /\ \A j \in Irps \ {i} : part'[j] = part[j]
        /\ Started(i)' /\ Made(i)' = Made(i) \ {b}
        /\ Uncounted(i)' = Uncounted(i) \cup {b} /\ Unended(i)' = Unended(i) \cup {b}
    BY <1>1, <1>2, <1>3, PartSent
  <2>. QED BY <2>1, <2>2
<1>5. Cardinality(Made(i)) > 1 <=> Made(i)' # {}
  <2>1. Cardinality(Made(i)) > 0 /\ (Cardinality(Made(i)) = 1 <=> Made(i) \ {b} = {})
    BY <1>2, <1>3, OneLess
  <2>2. Cardinality(Made(i)) \in Nat
    BY <1>3, BlocksFinite
  <2>. QED BY <1>4, <2>1, <2>2
<1>6. PICK l \in {"sending", "waiting", "sent"} :
        /\ Goes(i, l, "success")
        /\ l = IF Made(i)' # {} THEN "sending" ELSE IF IsSynchronous(i) THEN "waiting" ELSE "sent"
  BY <1>5 DEF Send
<1>7. /\ thread' \in [Irps -> ThreadRecord] /\ thread'[i].pc = l /\ thread'[i].ctx = thread[i].ctx
      /\ \A j \in Irps \ {i} : thread'[j] = thread[j]
  BY <1>1, <1>6, GoesEffect DEF Pcs
<1>8. UNCHANGED <<irp, context, transfer, holders, writer, package, failed, starved>>
      /\ Mine(i)' = Mine(i) /\ IsSynchronous(i)' = IsSynchronous(i)
  BY <1>7 DEF Send, Mine, IsSynchronous
<1>9. TypeOK'
  BY <1>1, <1>4, <1>7, <1>8 DEF TypeOK
<1>10. irp[i].done = 0 /\ i \notin package /\ Started(i)
  BY <1>1, <1>3 DEF Good, Once, GivenAway, Started, Uncounted
<1>11. Own(i)' /\ Waits(i)' /\ Untouched(i)'
  BY <1>1, <1>6, <1>7, <1>8 DEF Own, Waits, Untouched, InDriver, Fresh, Good
<1>12. CountsRight(i)'
  BY <1>1, <1>4, <1>8 DEF Good, CountsRight
<1>13. Phases(i)'
  BY <1>1, <1>3, <1>4, <1>6, <1>7, <1>8, Types DEF Good, Phases
<1>14. Once(i)' /\ Kept(i)'
  BY <1>3, <1>4, <1>7, <1>8, <1>10 DEF Once, Kept, GivenAway
<1>15. Status(i)'
  BY <1>1, <1>4, <1>7, <1>8, <1>10 DEF Good, Status, Answers, Fresh
<1>16. Good(i)'
  BY <1>11, <1>12, <1>13, <1>14, <1>15 DEF Good
<1>17. ASSUME NEW j \in Irps \ {i}
       PROVE  Same(j)
  BY <1>4, <1>7, <1>8, <1>17, SameElsewhere
<1>. QED BY <1>9, <1>16, <1>17, OneStep

(* An asynchronous transfer is the disk driver's. *)
LEMMA GiveAwayStep ==
  ASSUME IInv, NEW i \in Irps, GiveAway(i)
  PROVE  IInv'
<1> USE DEF Is, unmoved
<1>1. TypeOK /\ Good(i) /\ thread[i].pc = "sent" /\ InDriver(i) /\ i # NoIrp
  BY RequestAssumption DEF IInv, GiveAway, InDriver
<1>2. /\ thread' \in [Irps -> ThreadRecord] /\ thread'[i].pc = "finally" /\ thread'[i].ctx = thread[i].ctx
      /\ \A j \in Irps \ {i} : thread'[j] = thread[j]
  <2>1. Returned(i) = "finally"
    BY <1>1 DEF Good, Waits, Returned
  <2>. QED BY <1>1, <2>1, GoesEffect DEF Pcs, GiveAway
<1>3. /\ context' \in [Contexts -> ContextRecord]
      /\ Mine(i)'.of = i /\ Mine(i)'.irp = NoIrp /\ Mine(i)'.sync = Mine(i).sync
      /\ \A d \in Contexts \ {thread[i].ctx} : context'[d] = context[d]
  <2>1. thread[i].ctx \in Contexts /\ context[thread[i].ctx] \in ContextRecord
    BY <1>1, Types DEF TypeOK
  <2>2. [context[thread[i].ctx] EXCEPT !.irp = NoIrp] \in ContextRecord
    BY <2>1 DEF ContextRecord
  <2>3. context' = [context EXCEPT ![thread[i].ctx] = [context[thread[i].ctx] EXCEPT !.irp = NoIrp]]
    BY <1>1, <2>1 DEF TypeOK, GiveAway
  <2>4. /\ context' \in [Contexts -> ContextRecord]
        /\ \A d \in Contexts \ {thread[i].ctx} : context'[d] = context[d]
        /\ context'[thread[i].ctx] = [context[thread[i].ctx] EXCEPT !.irp = NoIrp]
    BY <1>1, <2>1, <2>2, <2>3 DEF TypeOK
  <2>5. /\ context'[thread[i].ctx].of = context[thread[i].ctx].of
        /\ context'[thread[i].ctx].irp = NoIrp
        /\ context'[thread[i].ctx].sync = context[thread[i].ctx].sync
    BY <2>1, <2>4 DEF ContextRecord
  <2>. QED BY <1>1, <1>2, <2>4, <2>5 DEF Mine, Good, Own
<1>4. UNCHANGED <<irp, transfer, part, holders, writer, package, failed, starved>>
  BY DEF GiveAway
<1>5. /\ Uncounted(i)' = Uncounted(i) /\ Unended(i)' = Unended(i) /\ Made(i)' = Made(i)
      /\ Started(i)' <=> Started(i)
  BY <1>4, SetsStay
<1>6. TypeOK'
  BY <1>1, <1>2, <1>3, <1>4 DEF TypeOK
<1>7. Own(i)' /\ Waits(i)' /\ Untouched(i)'
  BY <1>1, <1>2, <1>3, <1>4 DEF Good, Own, Waits, IsSynchronous, Untouched, InDriver, Fresh
<1>8. GivenAway(i)'
  BY <1>2, <1>3 DEF GivenAway
<1>9. CountsRight(i)' /\ Phases(i)'
  BY <1>1, <1>2, <1>4, <1>5, <1>8 DEF Good, CountsRight, Phases
<1>10. Once(i)' /\ Kept(i)'
  BY <1>1, <1>2, <1>4, <1>5, <1>8 DEF Good, Once, Kept
<1>11. Status(i)'
  BY <1>1, <1>2, <1>3, <1>4, <1>5 DEF Good, Status, Answers, Fresh
<1>12. Good(i)'
  BY <1>7, <1>9, <1>10, <1>11 DEF Good
<1>13. ASSUME NEW j \in Irps \ {i}
       PROVE  Same(j)
  BY <1>1, <1>2, <1>3, <1>4, <1>13, OthersKeepContext DEF Same
<1>. QED BY <1>6, <1>12, <1>13, OneStep

(* The last block has set the event: no completion routine is left. *)
LEMMA WakeStep ==
  ASSUME IInv, NEW i \in Irps, Wake(i)
  PROVE  IInv'
<1> USE DEF Is
<1>1. TypeOK /\ Good(i) /\ thread[i].pc = "waiting" /\ transfer[i].event /\ InDriver(i) /\ i # NoIrp
  BY RequestAssumption DEF IInv, Wake, InDriver
<1>2. /\ thread' \in [Irps -> ThreadRecord] /\ thread'[i].pc \in {"measure", "finally"}
      /\ thread'[i].ctx = thread[i].ctx
      /\ thread'[i].status = irp[i].status /\ \A j \in Irps \ {i} : thread'[j] = thread[j]
  BY <1>1, GoesEffect, Types DEF Pcs, Wake, Returned
<1>3. /\ transfer' \in [Irps -> TransferRecord] /\ transfer'[i] = NoTransfer
      /\ \A j \in Irps \ {i} : transfer'[j] = transfer[j]
  BY <1>1 DEF TypeOK, TransferRecord, NoTransfer, Wake
<1>4. UNCHANGED <<irp, context, part, holders, writer, package, failed, starved>> /\ Mine(i)' = Mine(i)
  BY <1>2 DEF Wake, Mine
<1>5. /\ Uncounted(i)' = Uncounted(i) /\ Unended(i)' = Unended(i) /\ Made(i)' = Made(i)
      /\ Started(i)' <=> Started(i)
  BY <1>4, SetsStay
<1>6. Uncounted(i) = {} /\ Unended(i) = {} /\ Made(i) = {}
  <2>1. Uncounted(i) = {} /\ \A b \in Blocks : part[i][b] # "counted"
    BY <1>1 DEF Good, Phases
  <2>. QED BY <2>1 DEF Uncounted, Unended, Made
<1>7. Cardinality({}) = 0
  BY FS_EmptySet
<1>8. TypeOK'
  BY <1>1, <1>2, <1>3, <1>4 DEF TypeOK
<1>9. Own(i)' /\ Waits(i)' /\ Untouched(i)'
  BY <1>1, <1>2, <1>4 DEF Own, Waits, IsSynchronous, Untouched, InDriver, Fresh, Good
<1>10. CountsRight(i)' /\ Phases(i)'
  BY <1>2, <1>3, <1>5, <1>6, <1>7 DEF CountsRight, Phases, NoTransfer
<1>11. Mine(i).irp = i
  BY <1>1 DEF Good, Own
<1>12. Once(i)' /\ Kept(i)'
  BY <1>1, <1>2, <1>4, <1>5, <1>6, <1>11 DEF Good, Once, Kept, GivenAway
<1>13. Started(i)
  BY <1>1 DEF Good, Phases
<1>14. Status(i)'
  BY <1>1, <1>2, <1>4, <1>5, <1>6, <1>13 DEF Good, Status, Answers, Fresh
<1>15. Good(i)'
  BY <1>9, <1>10, <1>12, <1>14 DEF Good
<1>16. ASSUME NEW j \in Irps \ {i}
       PROVE  Same(j)
  BY <1>2, <1>3, <1>4, <1>16, SameElsewhere
<1>. QED BY <1>8, <1>15, <1>16, OneStep

(* The length is set while the thread has the IRP. *)
LEMMA MeasureStep ==
  ASSUME IInv, NEW i \in Irps, Measure(i)
  PROVE  IInv'
<1> USE DEF Is, unmoved
<1>1. TypeOK /\ Good(i) /\ thread[i].pc = "measure" /\ InDriver(i) /\ i # NoIrp
  BY RequestAssumption DEF IInv, Measure, InDriver
<1>2. /\ thread' \in [Irps -> ThreadRecord] /\ thread'[i].pc = "finally" /\ thread'[i].ctx = thread[i].ctx
      /\ thread'[i].status = thread[i].status /\ \A j \in Irps \ {i} : thread'[j] = thread[j]
  BY <1>1, GoesEffect, Types DEF Pcs, Measure
<1>3. UNCHANGED <<context, transfer, part, holders, writer, package, failed, starved>> /\ Mine(i)' = Mine(i)
  BY <1>2 DEF Measure, Mine
<1>4. /\ irp' \in [Irps -> IrpRecord] /\ irp'[i].kind = irp[i].kind /\ irp'[i].status = irp[i].status
      /\ irp'[i].done = irp[i].done /\ irp'[i].count = irp[i].count
      /\ irp'[i].whole <=> irp[i].whole \/ thread[i].status # "error"
      /\ \A j \in Irps \ {i} : irp'[j] = irp[j]
  <2> DEFINE w == irp[i].whole \/ thread[i].status # "error"
  <2>1. irp[i] \in IrpRecord /\ w \in BOOLEAN
    BY <1>1, Types
  <2>2. irp' = [irp EXCEPT ![i] = [irp[i] EXCEPT !.whole = w]]
    BY <1>1 DEF TypeOK, Measure
  <2> HIDE DEF w
  <2>3. [irp[i] EXCEPT !.whole = w] \in IrpRecord
    BY <2>1 DEF IrpRecord
  <2>4. /\ irp' \in [Irps -> IrpRecord] /\ \A j \in Irps \ {i} : irp'[j] = irp[j]
        /\ irp'[i] = [irp[i] EXCEPT !.whole = w]
    BY <1>1, <2>2, <2>3 DEF TypeOK
  <2>5. irp'[i].whole = w
    BY <2>1, <2>4 DEF IrpRecord
  <2>. QED BY <2>1, <2>4, <2>5 DEF IrpRecord, w
<1>5. TypeOK'
  BY <1>1, <1>2, <1>3, <1>4 DEF TypeOK
<1>6. /\ Uncounted(i)' = Uncounted(i) /\ Unended(i)' = Unended(i) /\ Made(i)' = Made(i)
      /\ Started(i)' <=> Started(i)
  BY <1>3, SetsStay
<1>7. Mine(i).irp = i /\ Unended(i) = {} /\ irp[i].done = 0 /\ i \notin package
  BY <1>1 DEF Good, Own, Phases, Once, GivenAway
<1>8. Uncounted(i) = {} /\ Made(i) = {} /\ ~ transfer[i].live
  BY <1>1, <1>7 DEF Uncounted, Unended, Made, Good, Phases
<1>9. Own(i)' /\ Waits(i)' /\ Untouched(i)'
  BY <1>1, <1>2, <1>3, <1>4 DEF Good, Own, Waits, IsSynchronous, Untouched, InDriver, Fresh
<1>10. CountsRight(i)' /\ Phases(i)'
  BY <1>1, <1>2, <1>3, <1>4, <1>6, <1>7, <1>8 DEF Good, CountsRight, Phases
<1>11. Once(i)' /\ Kept(i)'
  BY <1>1, <1>2, <1>3, <1>4, <1>6, <1>7 DEF Once, Kept, GivenAway
(* A transfer that has not failed is whole already. *)
<1>12. Status(i)'
  <2>1. Answers(i)
    BY <1>1, <1>7 DEF Answers
  <2>. QED BY <1>1, <1>2, <1>3, <1>4, <1>6, <1>7, <1>8, <2>1, Types DEF Good, Status, Answers, Fresh
<1>13. Good(i)'
  BY <1>9, <1>10, <1>11, <1>12 DEF Good
<1>14. ASSUME NEW j \in Irps \ {i}
       PROVE  Same(j)
  BY <1>2, <1>3, <1>4, <1>14, SameElsewhere
<1>. QED BY <1>5, <1>13, <1>14, OneStep

(* Where an associated IRP is not completed, neither is its master. *)
LEMMA UnendedIsOpen ==
  ASSUME TypeOK, NEW i \in Irps, Good(i), NEW b \in Unended(i)
  PROVE  /\ irp[i].done = 0 /\ i \notin package /\ Started(i) /\ ~ Fresh(i)
         /\ ~ Answers(i)
<1>1. irp[i].done = 0 /\ i \notin package /\ Started(i)
  BY DEF Good, Once, Unended, Started
<1>2. i # NoIrp
  BY RequestAssumption
<1>. QED BY <1>1, <1>2 DEF Good, Phases, GivenAway, Is, Fresh, Answers

LEMMA PartReturnsStep ==
  ASSUME IInv, NEW i \in Irps, NEW b \in Blocks, PartReturns(i, b)
  PROVE  IInv'
<1> USE DEF Is
<1>1. TypeOK /\ Good(i)
  BY DEF IInv
<1>2. b \in Uncounted(i) /\ b \in Unended(i) /\ b \notin Made(i)
  BY DEF PartReturns, Uncounted, Unended, Made
<1>3. PICK ok \in BOOLEAN :
        irp' = Noted(i, ok) /\ failed' = IF ok THEN failed ELSE failed \cup {i}
  BY DEF PartReturns
<1>4. /\ part' \in [Irps -> [Blocks -> {"none", "made", "sent", "noted", "counted", "gone"}]]
      /\ part'[i][b] = "noted" /\ \A a \in Blocks \ {b} : part'[i][a] = part[i][a]
      /\ \A j \in Irps \ {i} : part'[j] = part[j]
      /\ Started(i)' /\ Made(i)' = Made(i) \ {b}
      /\ Uncounted(i)' = Uncounted(i) \cup {b} /\ Unended(i)' = Unended(i) \cup {b}
  BY <1>1, PartNoted DEF PartReturns
<1>5. Uncounted(i)' = Uncounted(i) /\ Unended(i)' = Unended(i) /\ Made(i)' = Made(i)
  BY <1>2, <1>4
<1>6. UNCHANGED <<context, thread, transfer, holders, writer, package, starved>>
      /\ Mine(i)' = Mine(i) /\ IsSynchronous(i)' = IsSynchronous(i)
  BY DEF PartReturns, Mine, IsSynchronous
<1>7. /\ irp' \in [Irps -> IrpRecord] /\ irp'[i].done = irp[i].done /\ irp'[i].count = irp[i].count
      /\ irp'[i].kind = irp[i].kind
      /\ \A j \in Irps \ {i} : irp'[j] = irp[j]
      /\ IF ok THEN irp'[i] = irp[i] ELSE irp'[i].status = "error" /\ ~ irp'[i].whole
  <2>1. irp[i] \in IrpRecord
    BY <1>1, Types
  <2>2. [irp[i] EXCEPT !.status = "error", !.whole = FALSE] \in IrpRecord
    BY <2>1 DEF IrpRecord
  <2>3. irp' = IF ok THEN irp ELSE [irp EXCEPT ![i] = [irp[i] EXCEPT !.status = "error", !.whole = FALSE]]
    BY <1>1, <1>3 DEF TypeOK, Noted
  <2>4. /\ irp' \in [Irps -> IrpRecord] /\ \A j \in Irps \ {i} : irp'[j] = irp[j]
        /\ irp'[i] = IF ok THEN irp[i] ELSE [irp[i] EXCEPT !.status = "error", !.whole = FALSE]
    BY <1>1, <2>2, <2>3 DEF TypeOK
  <2>. QED BY <2>1, <2>4 DEF IrpRecord
<1>8. TypeOK'
  BY <1>1, <1>3, <1>4, <1>6, <1>7 DEF TypeOK
<1>9. /\ irp[i].done = 0 /\ i \notin package /\ Started(i) /\ ~ Fresh(i)
      /\ ~ Answers(i)
  BY <1>1, <1>2, UnendedIsOpen
<1>10. Own(i)' /\ Waits(i)' /\ Untouched(i)'
  BY <1>1, <1>6, <1>7, <1>9 DEF Good, Own, Waits, Untouched, InDriver, Fresh
<1>11. CountsRight(i)'
  BY <1>1, <1>5, <1>6, <1>7 DEF Good, CountsRight
<1>12. GivenAway(i)' <=> GivenAway(i)
  BY <1>6 DEF GivenAway
<1>13. Phases(i)'
  BY <1>1, <1>4, <1>5, <1>6, <1>12 DEF Good, Phases
<1>14. Once(i)' /\ Kept(i)'
  BY <1>2, <1>5, <1>6, <1>7, <1>9 DEF Once, Kept
<1>15. Status(i)'
  BY <1>1, <1>2, <1>3, <1>5, <1>6, <1>7, <1>9 DEF Good, Status, Answers, Fresh
<1>16. Good(i)'
  BY <1>10, <1>11, <1>13, <1>14, <1>15 DEF Good
<1>17. ASSUME NEW j \in Irps \ {i}
       PROVE  Same(j)
  BY <1>3, <1>4, <1>6, <1>7, <1>17, SameElsewhere
<1>. QED BY <1>8, <1>16, <1>17, OneStep

(* InterlockedDecrement of pContext->Blocks *)
LEMMA PartCountsStep ==
  ASSUME IInv, NEW i \in Irps, NEW b \in Blocks, PartCounts(i, b)
  PROVE  IInv'
<1> USE DEF Is
<1>1. TypeOK /\ Good(i)
  BY DEF IInv
<1>2. b \in Uncounted(i) /\ b \in Unended(i) /\ b \notin Made(i)
      /\ Uncounted(i) \in SUBSET Blocks /\ Made(i) \subseteq Uncounted(i)
  BY DEF PartCounts, Uncounted, Unended, Made
<1>3. /\ transfer[i].blocks = Cardinality(Uncounted(i)) /\ transfer[i].blocks \in Nat
      /\ transfer[i].blocks > 0 /\ transfer[i].blocks - 1 = Cardinality(Uncounted(i) \ {b})
      /\ transfer[i].blocks - 1 = 0 <=> Uncounted(i) \ {b} = {}
  <2>1. transfer[i].blocks = Cardinality(Uncounted(i)) /\ transfer[i].blocks \in Nat
    BY <1>1, Types DEF Good, CountsRight
  <2>2. /\ Cardinality(Uncounted(i) \ {b}) = Cardinality(Uncounted(i)) - 1 /\ Cardinality(Uncounted(i)) > 0
        /\ Cardinality(Uncounted(i)) = 1 <=> Uncounted(i) \ {b} = {}
    BY <1>2, OneLess
  <2>. QED BY <2>1, <2>2
<1> DEFINE last == Uncounted(i) \ {b} = {}
           s == IF transfer[i].wait THEN "gone" ELSE "counted"
<1>4. Last(transfer[i].blocks - 1) <=> last
  BY <1>3 DEF Last
<1>5. /\ part'[i][b] = s /\ \A a \in Blocks \ {b} : part'[i][a] = part[i][a]
      /\ part' \in [Irps -> [Blocks -> {"none", "made", "sent", "noted", "counted", "gone"}]]
      /\ \A j \in Irps \ {i} : part'[j] = part[j]
      /\ Started(i)' /\ Made(i)' = Made(i) \ {b} /\ Uncounted(i)' = Uncounted(i) \ {b}
      /\ Unended(i)' = IF transfer[i].wait THEN Unended(i) \ {b} ELSE Unended(i) \cup {b}
  <2>1. part' = [part EXCEPT ![i][b] = s]
    BY DEF PartCounts
  <2>2. CASE transfer[i].wait
    <3>1. part' = [part EXCEPT ![i][b] = "gone"]
      BY <2>1, <2>2
    <3>2. /\ part'[i][b] = "gone" /\ \A a \in Blocks \ {b} : part'[i][a] = part[i][a]
          /\ part' \in [Irps -> [Blocks -> {"none", "made", "sent", "noted", "counted", "gone"}]]
          /\ \A j \in Irps \ {i} : part'[j] = part[j]
          /\ Started(i)' /\ Made(i)' = Made(i) \ {b} /\ Uncounted(i)' = Uncounted(i) \ {b}
          /\ Unended(i)' = Unended(i) \ {b}
      BY <1>1, <3>1, PartGone
    <3>. QED BY <2>2, <3>2
  <2>3. CASE ~ transfer[i].wait
    <3>1. part' = [part EXCEPT ![i][b] = "counted"]
      BY <2>1, <2>3
    <3>. QED BY <1>1, <2>3, <3>1, PartCounted
  <2>. QED BY <2>2, <2>3
<1>6. Made(i)' = Made(i) /\ (~ transfer[i].wait => Unended(i)' = Unended(i))
  BY <1>2, <1>5
<1>7. UNCHANGED <<context, thread, holders, writer, package, failed, starved>>
      /\ Mine(i)' = Mine(i) /\ IsSynchronous(i)' = IsSynchronous(i)
  BY DEF PartCounts, Mine, IsSynchronous
<1>8. /\ irp' \in [Irps -> IrpRecord] /\ irp'[i].done = irp[i].done /\ irp'[i].count = irp[i].count
      /\ irp'[i].kind = irp[i].kind
      /\ irp'[i].status = irp[i].status
      /\ \A j \in Irps \ {i} : irp'[j] = irp[j]
      /\ last => (irp'[i].whole <=> irp[i].status = "success")
  <2>1. irp[i] \in IrpRecord
    BY <1>1, Types
  <2>2. [irp[i] EXCEPT !.whole = irp[i].status = "success"] \in IrpRecord
    BY <2>1 DEF IrpRecord
  <2>3. irp' = IF last THEN [irp EXCEPT ![i] = [irp[i] EXCEPT !.whole = irp[i].status = "success"]] ELSE irp
    BY <1>1, <1>4 DEF TypeOK, PartCounts
  <2>4. /\ irp' \in [Irps -> IrpRecord] /\ \A j \in Irps \ {i} : irp'[j] = irp[j]
        /\ irp'[i] = IF last THEN [irp[i] EXCEPT !.whole = irp[i].status = "success"] ELSE irp[i]
    BY <1>1, <2>2, <2>3 DEF TypeOK
  <2>. QED BY <2>1, <2>4 DEF IrpRecord
<1>9. /\ transfer' \in [Irps -> TransferRecord]
      /\ \A j \in Irps \ {i} : transfer'[j] = transfer[j]
      /\ IF last /\ ~ transfer[i].wait THEN transfer'[i] = NoTransfer
         ELSE /\ transfer'[i].live = transfer[i].live /\ transfer'[i].wait = transfer[i].wait
              /\ transfer'[i].blocks = transfer[i].blocks - 1 /\ (transfer'[i].event <=> last)
  <2>1. transfer[i] \in TransferRecord /\ transfer[i].blocks - 1 \in Nat /\ last \in BOOLEAN
    BY <1>1, <1>3, Types
  <2>2. NoTransfer \in TransferRecord
        /\ [transfer[i] EXCEPT !.blocks = transfer[i].blocks - 1, !.event = last] \in TransferRecord
    BY <2>1 DEF NoTransfer, TransferRecord
  <2>3. transfer' = [transfer EXCEPT ![i] = IF last /\ ~ transfer[i].wait THEN NoTransfer
                       ELSE [transfer[i] EXCEPT !.blocks = transfer[i].blocks - 1, !.event = last]]
    <3>1. CASE last /\ ~ transfer[i].wait
      BY <1>4, <3>1 DEF PartCounts
    <3>2. CASE ~ (last /\ ~ transfer[i].wait)
      <4>1. transfer' = [transfer EXCEPT ![i] = [transfer[i] EXCEPT !.blocks = @ - 1,
                                                   !.event = Last(transfer[i].blocks - 1)]]
        BY <1>4, <3>2 DEF PartCounts
      <4>2. Last(transfer[i].blocks - 1) = last
        BY <1>4 DEF Last
      <4>. QED BY <3>2, <4>1, <4>2
    <3>. QED BY <3>1, <3>2
  <2>4. /\ transfer' \in [Irps -> TransferRecord] /\ \A j \in Irps \ {i} : transfer'[j] = transfer[j]
        /\ transfer'[i] = IF last /\ ~ transfer[i].wait THEN NoTransfer
                          ELSE [transfer[i] EXCEPT !.blocks = transfer[i].blocks - 1, !.event = last]
    BY <1>1, <2>2, <2>3 DEF TypeOK
  <2>. QED BY <2>1, <2>4 DEF TransferRecord
<1>10. TypeOK'
  BY <1>1, <1>5, <1>7, <1>8, <1>9 DEF TypeOK
<1>11. /\ irp[i].done = 0 /\ i \notin package /\ Started(i) /\ ~ Fresh(i)
       /\ ~ Answers(i)
  BY <1>1, <1>2, UnendedIsOpen
<1>12. Own(i)' /\ Waits(i)' /\ Untouched(i)'
  BY <1>1, <1>7, <1>8, <1>11 DEF Good, Own, Waits, Untouched, InDriver, Fresh
<1>13. CountsRight(i)'
  <2>1. Cardinality({}) = 0
    BY FS_EmptySet
  <2>2. transfer'[i].blocks = Cardinality(Uncounted(i)')
    BY <1>3, <1>5, <1>9, <2>1 DEF NoTransfer
  <2>3. ~ transfer'[i].wait => ~ transfer[i].wait
    BY <1>9
  <2>. QED BY <1>1, <1>6, <1>8, <2>2, <2>3 DEF Good, CountsRight
<1>14. GivenAway(i)' <=> GivenAway(i)
  BY <1>7 DEF GivenAway
<1>15. Phases(i)'
  <2>1. transfer[i].live /\ \A a \in Blocks : transfer[i].wait => part[i][a] # "counted"
    BY <1>1, <1>2 DEF Good, Phases
  <2>2. CASE last /\ ~ transfer[i].wait
    BY <1>1, <1>2, <1>5, <1>6, <1>7, <1>9, <1>14, <2>1, <2>2 DEF Good, Phases, NoTransfer
  <2>3. CASE transfer[i].wait
    <3>1. \A a \in Blocks : part'[i][a] # "counted"
      BY <1>5, <2>1, <2>3
    <3>2. Is(i, "sending") \/ Is(i, "waiting")
      BY <1>1, <2>1, <2>3 DEF Good, Phases
    <3>. QED BY <1>1, <1>2, <1>5, <1>6, <1>7, <1>9, <2>1, <2>3, <3>1, <3>2 DEF Good, Phases
  <2>4. CASE ~ last /\ ~ transfer[i].wait
    BY <1>1, <1>2, <1>5, <1>6, <1>7, <1>9, <1>14, <2>1, <2>4 DEF Good, Phases
  <2>. QED BY <2>2, <2>3, <2>4
<1>16. Once(i)' /\ Kept(i)'
  <2>1. CASE transfer[i].wait
    <3>1. Is(i, "sending") \/ Is(i, "waiting")
      BY <1>1, <1>2, <2>1 DEF Good, Phases
    <3>. QED BY <1>7, <1>8, <1>11, <3>1 DEF Once, Kept, GivenAway
  <2>2. CASE ~ transfer[i].wait
    BY <1>2, <1>6, <1>7, <1>8, <1>11, <2>2 DEF Once, Kept
  <2>. QED BY <2>1, <2>2
<1>17. Status(i)'
  BY <1>1, <1>5, <1>7, <1>8, <1>11 DEF Good, Status, Answers, Fresh
<1>18. Good(i)'
  BY <1>12, <1>13, <1>15, <1>16, <1>17 DEF Good
<1>19. ASSUME NEW j \in Irps \ {i}
       PROVE  Same(j)
  BY <1>5, <1>7, <1>8, <1>9, <1>19, SameElsewhere
<1>. QED BY <1>10, <1>18, <1>19, OneStep

(* IoCompleteRequest of an associated IRP: the last completes the master. *)
LEMMA PartEndsStep ==
  ASSUME IInv, NEW i \in Irps, NEW b \in Blocks, PartEnds(i, b)
  PROVE  IInv'
<1> USE DEF Is
<1>1. TypeOK /\ Good(i)
  BY DEF IInv
<1>2. b \notin Uncounted(i) /\ b \in Unended(i) /\ b \notin Made(i) /\ part[i][b] = "counted"
      /\ Unended(i) \in SUBSET Blocks /\ Made(i) \subseteq Unended(i)
  BY DEF PartEnds, Uncounted, Unended, Made
<1>3. ~ transfer[i].wait
  BY <1>1, <1>2 DEF Good, Phases
<1>4. /\ irp[i].count = Cardinality(Unended(i)) /\ irp[i].count \in Nat /\ irp[i].count > 0
      /\ irp[i].count - 1 = Cardinality(Unended(i) \ {b})
      /\ irp[i].count = 1 <=> Unended(i) \ {b} = {}
  <2>1. irp[i].count = Cardinality(Unended(i)) /\ irp[i].count \in Nat
    BY <1>1, <1>2, <1>3, Types DEF Good, CountsRight
  <2>2. /\ Cardinality(Unended(i) \ {b}) = Cardinality(Unended(i)) - 1 /\ Cardinality(Unended(i)) > 0
        /\ Cardinality(Unended(i)) = 1 <=> Unended(i) \ {b} = {}
    BY <1>2, OneLess
  <2>. QED BY <2>1, <2>2
<1>5. /\ part' \in [Irps -> [Blocks -> {"none", "made", "sent", "noted", "counted", "gone"}]]
      /\ part'[i][b] = "gone" /\ \A a \in Blocks \ {b} : part'[i][a] = part[i][a]
      /\ \A j \in Irps \ {i} : part'[j] = part[j]
      /\ Started(i)' /\ Made(i)' = Made(i) \ {b}
      /\ Uncounted(i)' = Uncounted(i) \ {b} /\ Unended(i)' = Unended(i) \ {b}
  BY <1>1, PartGone DEF PartEnds
<1>6. Uncounted(i)' = Uncounted(i) /\ Made(i)' = Made(i)
  BY <1>2, <1>5
<1>7. UNCHANGED <<context, thread, transfer, holders, writer, package, failed, starved>>
      /\ Mine(i)' = Mine(i) /\ IsSynchronous(i)' = IsSynchronous(i)
  BY DEF PartEnds, Mine, IsSynchronous
<1>8. /\ irp[i].done = 0 /\ i \notin package /\ Started(i) /\ ~ Fresh(i)
      /\ ~ Answers(i)
  BY <1>1, <1>2, UnendedIsOpen
<1>9. /\ irp' \in [Irps -> IrpRecord] /\ irp'[i].count = irp[i].count - 1
      /\ irp'[i].status = irp[i].status /\ irp'[i].whole = irp[i].whole
      /\ irp'[i].kind = irp[i].kind
      /\ irp'[i].done = IF Unended(i)' = {} THEN 1 ELSE 0
      /\ \A j \in Irps \ {i} : irp'[j] = irp[j]
  <2> DEFINE done == IF irp[i].count = 1 THEN irp[i].done + 1 ELSE irp[i].done
  <2>1. irp[i] \in IrpRecord /\ irp[i].count - 1 \in Nat /\ done \in Nat
    BY <1>1, <1>4, Types
  <2>2. irp' = [irp EXCEPT ![i] = [irp[i] EXCEPT !.count = irp[i].count - 1, !.done = done]]
    BY <1>1 DEF TypeOK, PartEnds
  <2>3. done = IF Unended(i)' = {} THEN 1 ELSE 0
    BY <1>4, <1>5, <1>8
  <2> HIDE DEF done
  <2>4. [irp[i] EXCEPT !.count = irp[i].count - 1, !.done = done] \in IrpRecord
    BY <2>1 DEF IrpRecord
  <2>5. /\ irp' \in [Irps -> IrpRecord] /\ \A j \in Irps \ {i} : irp'[j] = irp[j]
        /\ irp'[i] = [irp[i] EXCEPT !.count = irp[i].count - 1, !.done = done]
    BY <1>1, <2>2, <2>4 DEF TypeOK
  <2>. QED BY <2>1, <2>3, <2>5 DEF IrpRecord
<1>10. TypeOK'
  BY <1>1, <1>5, <1>7, <1>9 DEF TypeOK
<1>11. Own(i)' /\ Waits(i)' /\ Untouched(i)'
  BY <1>1, <1>7, <1>8, <1>9 DEF Good, Own, Waits, Untouched, InDriver, Fresh
<1>12. CountsRight(i)'
  BY <1>1, <1>4, <1>5, <1>6, <1>7, <1>9 DEF Good, CountsRight
<1>13. GivenAway(i)' <=> GivenAway(i)
  BY <1>7 DEF GivenAway
<1>14. Phases(i)'
  <2>1. \A a \in Blocks : part'[i][a] = "counted" => part[i][a] = "counted"
    BY <1>5
  <2>. QED BY <1>1, <1>2, <1>5, <1>6, <1>7, <1>13, <2>1 DEF Good, Phases
<1>15. Is(i, "sending") => Unended(i)' # {}
  BY <1>1, <1>2, <1>5 DEF Good, Phases
<1>16. Is(i, "sent") \/ Is(i, "gone") \/ GivenAway(i) \/ Is(i, "sending")
  BY <1>1, <1>2, <1>3 DEF Good, Phases
<1>17. Once(i)' /\ Kept(i)'
  BY <1>7, <1>8, <1>9, <1>13, <1>15, <1>16 DEF Once, Kept
<1>18. Status(i)'
  BY <1>1, <1>5, <1>6, <1>7, <1>8, <1>9 DEF Good, Status, Answers, Fresh
<1>19. Good(i)'
  BY <1>11, <1>12, <1>14, <1>17, <1>18 DEF Good
<1>20. ASSUME NEW j \in Irps \ {i}
       PROVE  Same(j)
  BY <1>5, <1>7, <1>9, <1>20, SameElsewhere
<1>. QED BY <1>10, <1>19, <1>20, OneStep

LEMMA PackageCompletesStep ==
  ASSUME IInv, NEW i \in Irps, PackageCompletes(i)
  PROVE  IInv'
<1> USE DEF Is
<1>1. TypeOK /\ Good(i) /\ i \in package
  BY DEF IInv, PackageCompletes
<1>2. thread[i].pc = "gone" /\ Unended(i) = {} /\ irp[i].done = 0
  BY <1>1 DEF Good, Once
<1>3. Uncounted(i) = {}
  BY <1>2 DEF Uncounted, Unended
<1> DEFINE s == IF i \in failed THEN "error" ELSE "success"
<1>4. /\ irp' \in [Irps -> IrpRecord] /\ irp'[i].status = s /\ irp'[i].done = 1
      /\ irp'[i].whole = (irp[i].whole /\ s # "error") /\ irp'[i].count = irp[i].count
      /\ \A j \in Irps \ {i} : irp'[j] = irp[j]
  <2>1. s \in {"success", "error"} /\ irp' = Completed(i, s)
    BY DEF PackageCompletes
  <2>2. irp[i].done + 1 = 1
    BY <1>2
  <2> HIDE DEF s
  <2>. QED BY <1>1, <2>1, <2>2, CompletedEffect
<1>5. UNCHANGED <<context, thread, transfer, part, holders, writer, failed, starved>>
      /\ package' = package \ {i} /\ Mine(i)' = Mine(i) /\ IsSynchronous(i)' = IsSynchronous(i)
  BY DEF PackageCompletes, Mine, IsSynchronous
<1>6. /\ Uncounted(i)' = Uncounted(i) /\ Unended(i)' = Unended(i) /\ Made(i)' = Made(i)
      /\ Started(i)' <=> Started(i)
  BY <1>5, SetsStay
<1>7. TypeOK'
  BY <1>1, <1>4, <1>5 DEF TypeOK
<1>8. Own(i)' /\ Waits(i)' /\ Untouched(i)'
  BY <1>2, <1>5 DEF Own, Waits, Untouched, InDriver, Fresh
<1>9. GivenAway(i)' <=> GivenAway(i)
  BY <1>5 DEF GivenAway
<1>10. CountsRight(i)' /\ Phases(i)'
  BY <1>1, <1>4, <1>5, <1>6, <1>9 DEF Good, CountsRight, Phases
<1>11. Once(i)' /\ Kept(i)'
  BY <1>2, <1>4, <1>5, <1>6 DEF Once, Kept
<1>12. Status(i)'
  <2>1. irp[i].status \in {"success", "error"}
    BY <1>1, Types
  <2>2. CASE i \in failed
    BY <1>1, <1>2, <1>3, <1>4, <1>5, <1>6, <2>2 DEF Good, Status, Answers, Fresh
  <2>3. CASE i \notin failed
    <3>1. irp'[i].status = "success" /\ (irp'[i].whole <=> irp[i].whole)
      BY <1>4, <2>3
    <3>. QED BY <1>1, <1>2, <1>3, <1>5, <1>6, <2>1, <2>3, <3>1 DEF Good, Status, Answers, Fresh
  <2>. QED BY <2>2, <2>3
<1>13. Good(i)'
  BY <1>8, <1>10, <1>11, <1>12 DEF Good
<1>14. ASSUME NEW j \in Irps \ {i}
       PROVE  Same(j)
  BY <1>4, <1>5, <1>14, SameElsewhere
<1>. QED BY <1>7, <1>13, <1>14, OneStep

(* An exclusive holder touches no request; neither does a step of nobody. *)
LEMMA NobodyStep ==
  ASSUME IInv, WriterComes \/ WriterLeaves \/ UNCHANGED vars
  PROVE  IInv'
<1>1. UNCHANGED <<irp, context, thread, transfer, part, holders, package, failed, starved>>
      /\ writer' \in BOOLEAN
  BY DEF WriterComes, WriterLeaves, vars, IInv, TypeOK
<1>2. TypeOK'
  BY <1>1 DEF IInv, TypeOK
<1>3. ASSUME NEW j \in Irps
      PROVE  Good(j)'
  <2>1. Same(j)
    BY <1>1 DEF Same, Mine
  <2>. QED BY <1>3, <2>1, SameIsGood DEF IInv
<1>. QED BY <1>2, <1>3 DEF IInv

LEMMA InitInv == ASSUME Init PROVE IInv
<1>1. TypeOK
  BY InitType
<1>2. ASSUME NEW i \in Irps
      PROVE  Good(i)
  <2>1. thread[i].pc = "new" /\ transfer[i] = NoTransfer /\ irp[i].done = 0 /\ irp[i].status = "success"
        /\ i \notin package /\ i \notin failed /\ \A b \in Blocks : part[i][b] = "none"
    BY NowhereType DEF Init, Pcs
  <2>2. Uncounted(i) = {} /\ Unended(i) = {} /\ Made(i) = {} /\ ~ Started(i)
    BY <2>1 DEF Uncounted, Unended, Made, Started
  <2>3. Cardinality({}) = 0
    BY FS_EmptySet
  <2>. QED BY <2>1, <2>2, <2>3 DEF Good, Own, Waits, Untouched, CountsRight, Phases, Once, Kept, Status, Answers,
         NoTransfer, Is, InDriver, Fresh, GivenAway
<1>. QED BY <1>1, <1>2 DEF IInv

LEMMA NextInv ==
  ASSUME IInv, [Next]_vars, Leftovers = {FALSE}
  PROVE  IInv'
<1>1. ASSUME NEW i \in Irps, Run(i)
      PROVE  IInv'
  BY <1>1, MovesSteps, StaysSteps, LockAndNotifyStep, StarveStep, FinallyStep, HandleStep,
     PrepareStep, SendStep, GiveAwayStep, WakeStep, MeasureStep DEF Run
<1>2. ASSUME NEW i \in Irps, Disk(i)
      PROVE  IInv'
  BY <1>2, PartReturnsStep, PartCountsStep, PartEndsStep DEF Disk
<1>. QED BY <1>1, <1>2, IssueStep, PackageCompletesStep, NobodyStep DEF Next

-----------------------------------------------------------------------------
(* Theorems.  They need of bCompleteRequest what FFSRead does not give it: a *)
(* value, and FALSE.                                                        *)

(* The inductive invariant: thread, context, transfer and IRP tell the same *)
(* of each request at every step.                                           *)
THEOREM Invariance ==
  ASSUME Leftovers = {FALSE}
  PROVE  Spec => []IInv
<1>1. IInv /\ [Next]_vars => IInv'
  BY NextInv
<1>. QED BY <1>1, InitInv, PTL DEF Spec

(* The counts of blocks and of associated IRPs never go below zero, however *)
(* blocks return and whoever waits (src/ffs.c, FFSReadWriteBlocks).         *)
THEOREM TypeCorrect ==
  ASSUME Leftovers = {FALSE}
  PROVE  Spec => []TypeOK
<1>1. IInv => TypeOK
  BY DEF IInv
<1>. QED BY <1>1, Invariance, PTL

(* A running or queued request keeps its FFS_IRP_CONTEXT, up to the         *)
(* exception handler (src/except.c:45).                                     *)
THEOREM ContextOwned ==
  ASSUME Leftovers = {FALSE}
  PROVE  Spec => []ContextIsItsOwn
<1>1. IInv => ContextIsItsOwn
  BY DEF IInv, Good, Own, ContextIsItsOwn
<1>. QED BY <1>1, Invariance, PTL

(* An IRP is completed at most once, and then nobody holds it: no running   *)
(* context, no package, no associated IRP, and nobody writes its length.    *)
THEOREM CompletedOnce ==
  ASSUME Leftovers = {FALSE}
  PROVE  Spec => []CompletedIsReleased
<1>1. ASSUME IInv, NEW i \in Irps
      PROVE  /\ irp[i].done <= 1
             /\ irp[i].done = 1 => (Has(i) => Is(i, "sent")) /\ i \notin package
                                /\ ~ Outstanding(i) /\ ~ Is(i, "measure")
  <2>1. Good(i) /\ irp[i].done \in {0, 1} /\ i # NoIrp
    BY <1>1, RequestAssumption DEF IInv, Good, Once
  <2>2. Outstanding(i) => Unended(i) # {}
    BY DEF Outstanding, Unended
  <2>3. Has(i) => ~ GivenAway(i) /\ ~ Is(i, "gone")
    BY <2>1 DEF Has, GivenAway, InDriver, Is
  <2>. QED BY <2>1, <2>2, <2>3 DEF Good, Once, GivenAway, Is
<1>2. IInv => CompletedIsReleased
  BY <1>1 DEF CompletedIsReleased
<1>. QED BY <1>2, Invariance, PTL

(* An IRP that is not completed is always with someone who will complete    *)
(* it, but for the two that the code forgets when there is no pool.         *)
THEOREM NothingLost ==
  ASSUME Leftovers = {FALSE}
  PROVE  Spec => []NeverLost
<1>1. ASSUME IInv, NEW i \in Irps, irp[i].done = 0
      PROVE  Is(i, "new") \/ Has(i) \/ i \in package \/ Outstanding(i) \/ i \in starved
  <2>1. Good(i) /\ thread[i].pc \in Pcs
    BY <1>1, Types DEF IInv
  <2>2. Unended(i) # {} => Outstanding(i)
    BY DEF Outstanding, Unended
  <2>3. CASE InDriver(i)
    BY <1>1, <2>1, <2>2, <2>3 DEF Good, Own, Kept, Has, GivenAway
  <2>4. CASE ~ InDriver(i)
    <3>1. Is(i, "new") \/ Is(i, "gone")
      BY <2>1, <2>4 DEF InDriver, Is, Pcs
    <3>. QED BY <1>1, <2>1, <2>2, <3>1 DEF Good, Kept
  <2>. QED BY <2>3, <2>4
<1>2. IInv => NeverLost
  BY <1>1 DEF NeverLost
<1>. QED BY <1>2, Invariance, PTL

(* The failure of a copy or of any block, in whatever order blocks return,  *)
(* is the status of the IRP, and the length is reported only without one.   *)
THEOREM FailuresReported ==
  ASSUME Leftovers = {FALSE}
  PROVE  Spec => []FailureIsReported
<1>1. ASSUME IInv, NEW i \in Irps \ starved, irp[i].done = 1
      PROVE  /\ i \in failed => irp[i].status = "error" /\ ~ irp[i].whole
             /\ (i \notin failed /\ \E b \in Blocks : part[i][b] = "gone") => irp[i].whole
  <2>1. Good(i) /\ irp[i].status \in {"success", "error"}
    BY <1>1, Types DEF IInv
  <2>2. Uncounted(i) = {}
    BY <1>1, <2>1 DEF Good, Once, Unended, Uncounted
  <2>3. (\E b \in Blocks : part[i][b] = "gone") => Started(i)
    BY DEF Started
  <2>. QED BY <1>1, <2>1, <2>2, <2>3 DEF Good, Status, Answers
<1>2. IInv => FailureIsReported
  BY <1>1 DEF FailureIsReported
<1>. QED BY <1>2, Invariance, PTL

(* The FFS_RW_CONTEXT is there as long as a completion routine may use it,  *)
(* and is freed once all are through.                                       *)
THEOREM TransferCovers ==
  ASSUME Leftovers = {FALSE}
  PROVE  Spec => []TransferOutlivesParts
<1>1. ASSUME IInv, NEW i \in Irps
      PROVE  /\ (\E b \in Blocks : part[i][b] \in {"made", "sent", "noted"}) => transfer[i].live
             /\ Is(i, "gone") /\ ~ Outstanding(i) => ~ transfer[i].live
  <2>1. Good(i)
    BY <1>1 DEF IInv
  <2>2. (\E b \in Blocks : part[i][b] \in {"made", "sent", "noted"}) => Uncounted(i) # {}
    BY DEF Uncounted
  <2>3. ~ Outstanding(i) => Uncounted(i) = {}
    BY DEF Outstanding, Uncounted
  <2>. QED BY <2>1, <2>2, <2>3 DEF Good, Phases, Is
<1>2. IInv => TransferOutlivesParts
  BY <1>1 DEF TransferOutlivesParts
<1>. QED BY <1>2, Invariance, PTL
=============================================================================
