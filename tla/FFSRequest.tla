----------------------------- MODULE FFSRequest -----------------------------
(* The way of a request through the driver: the IRP and its FFS_IRP_CONTEXT *)
(* from FFSBuildRequest to the completion, the worker queue, the transfer   *)
(* of blocks with associated IRPs (FFSReadWriteBlocks and its completion    *)
(* routines) and exceptions.  A thread runs each request; the disk driver,  *)
(* the I/O manager and the FsRtl packages run beside them.                  *)
EXTENDS Naturals, FiniteSets

CONSTANTS
  Irps, NoIrp,
  Contexts,      \* the memory for FFS_IRP_CONTEXTs
  MaxBlocks,     \* the most entries a block descriptor list has here
  Kinds,         \* the kinds of requests that are issued
  Leftovers      \* what the uninitialised bCompleteRequest of FFSRead holds

(* read is FFSReadFile; stream FFSReadVolume without CCB, dasd with one;    *)
(* query stands for FFSQueryDirectory, FFSQueryInformation and              *)
(* FFSQueryVolumeInformation; lock FFSLockControl; notify                   *)
(* FFSNotifyChangeDirectory.                                                *)
ASSUME RequestAssumption ==
  /\ Kinds \subseteq {"read", "stream", "dasd", "query", "lock", "notify"}
  /\ Leftovers \subseteq BOOLEAN /\ Leftovers # {}
  /\ MaxBlocks \in Nat \ {0} /\ NoIrp \notin Irps /\ Contexts # {}

VARIABLES
  irp,       \* the IRPs
  context,   \* the contexts; of tells whose it is, NoIrp that it is free
  thread,    \* who runs the request: where, with which context, and Status
  transfer,  \* the FFS_RW_CONTEXT of the request
  part,      \* its associated IRPs
  holders,   \* who holds the resource shared
  writer,    \* someone holds it exclusive
  package,   \* IRPs that FsRtl, or the hard error thread, will complete
  failed,    \* history: something that the request needed has failed
  starved    \* history: no pool for its transfer, or for the name to watch

vars == <<irp, context, thread, transfer, part, holders, writer, package, failed, starved>>

Blocks == 1 .. MaxBlocks

(* An IRP; done counts its completions, and whole tells whether             *)
(* IoStatus.Information is the length asked for.                            *)
IrpRecord == [kind : Kinds, status : {"success", "error"}, whole : BOOLEAN, count : Nat, done : Nat]

(* FFS_IRP_CONTEXT *)
ContextRecord == [of : Irps \cup {NoIrp}, irp : Irps \cup {NoIrp}, sync : BOOLEAN, exception : BOOLEAN]

Pcs == {"new", "handler", "acquire", "body", "sending", "sent", "waiting", "measure", "finally",
        "queued", "readfinally", "unwound", "gone"}
ThreadRecord == [pc : Pcs, ctx : Contexts, status : {"success", "error", "pending"}]

(* FFS_RW_CONTEXT *)
TransferRecord == [live : BOOLEAN, wait : BOOLEAN, blocks : Nat, event : BOOLEAN]

TypeOK ==
  /\ irp \in [Irps -> IrpRecord] /\ context \in [Contexts -> ContextRecord]
  /\ thread \in [Irps -> ThreadRecord] /\ transfer \in [Irps -> TransferRecord]
  /\ part \in [Irps -> [Blocks -> {"none", "made", "sent", "noted", "counted", "gone"}]]
  /\ holders \subseteq Irps /\ writer \in BOOLEAN /\ package \subseteq Irps
  /\ failed \subseteq Irps /\ starved \subseteq Irps

Nowhere(l) == [pc |-> l, ctx |-> CHOOSE c \in Contexts : TRUE, status |-> "error"]
NoTransfer == [live |-> FALSE, wait |-> FALSE, blocks |-> 0, event |-> FALSE]

Init ==
  /\ \E kind \in [Irps -> Kinds] :
       irp = [i \in Irps |-> [kind |-> kind[i], status |-> "success", whole |-> FALSE, count |-> 0, done |-> 0]]
  /\ context = [c \in Contexts |-> [of |-> NoIrp, irp |-> NoIrp, sync |-> FALSE, exception |-> FALSE]]
  /\ thread = [i \in Irps |-> Nowhere("new")]
  /\ transfer = [i \in Irps |-> NoTransfer]
  /\ part = [i \in Irps |-> [b \in Blocks |-> "none"]]
  /\ holders = {} /\ writer = FALSE /\ package = {} /\ failed = {} /\ starved = {}
-----------------------------------------------------------------------------
Is(i, l) == thread[i].pc = l
Mine(i) == context[thread[i].ctx]
IsSynchronous(i) == Mine(i).sync
Cached(i) == irp[i].kind \in {"read", "stream"}

(* The thread goes on at l, with Status s. *)
Goes(i, l, s) == thread' = [thread EXCEPT ![i].pc = l, ![i].status = s]

Ends(i) == thread' = [thread EXCEPT ![i] = Nowhere("gone")]

(* FFSFreeIrpContext *)
Free(c) == [context EXCEPT ![c] = [of |-> NoIrp, irp |-> NoIrp, sync |-> FALSE, exception |-> FALSE]]

(* The IRP j as FFSCompleteIrpContext or FFSCompleteRequest leaves it *)
Completed(j, s) ==
  [irp EXCEPT ![j].status = s, ![j].whole = @ /\ s # "error", ![j].done = @ + 1]

unmoved == <<transfer, part, writer>>

(* FFSBuildRequest.  The cache manager waits for its reads of the stream    *)
(* file, IRP_SYNCHRONOUS_PAGING_IO.                                         *)
Issue(i) ==
  /\ Is(i, "new")
  /\ \E c \in Contexts, s \in IF irp[i].kind \in {"stream", "lock", "notify"} THEN {TRUE} ELSE BOOLEAN :
       /\ context[c].of = NoIrp
       /\ context' = [context EXCEPT ![c] = [of |-> i, irp |-> i, sync |-> s, exception |-> FALSE]]
       /\ thread' = [thread EXCEPT ![i] = [pc |-> "handler", ctx |-> c, status |-> "error"]]
  /\ UNCHANGED <<irp, holders, package, failed, starved, unmoved>>

(* Parameters or flags that end the request, or IRP_MN_DPC, which is cleared *)
LeaveEarly(i) ==
  /\ Is(i, "handler")
  /\ \/ \E s \in {"success", "error"} : Goes(i, "finally", s)
     \/ Cached(i) /\ ~ IsSynchronous(i) /\ Goes(i, "finally", "pending")
  /\ UNCHANGED <<irp, context, holders, package, failed, starved, unmoved>>

(* A read through a volume handle takes no resource. *)
Proceed(i) ==
  /\ Is(i, "handler") /\ irp[i].kind # "lock"
  /\ Goes(i, IF irp[i].kind = "dasd" THEN "body" ELSE "acquire", "error")
  /\ UNCHANGED <<irp, context, holders, package, failed, starved, unmoved>>

Acquire(i) ==
  /\ Is(i, "acquire") /\ (Cached(i) \/ irp[i].kind = "query") /\ ~ writer
  /\ holders' = holders \cup {i}
  /\ Goes(i, "body", "error")
  /\ UNCHANGED <<irp, context, package, failed, starved, unmoved>>

(* The resource is not to be had at once.  FFSQueryDirectory does not try. *)
Denied(i) ==
  /\ Is(i, "acquire") /\ (Cached(i) \/ irp[i].kind = "query") /\ ~ IsSynchronous(i)
  /\ writer \/ irp[i].kind = "query"
  /\ Goes(i, "finally", "pending")
  /\ UNCHANGED <<irp, context, holders, package, failed, starved, unmoved>>

(* FsRtlProcessFileLock takes the IRP. *)
Lock(i) ==
  /\ Is(i, "handler") /\ irp[i].kind = "lock"
  /\ package' = package \cup {i}
  /\ context' = Free(thread[i].ctx)
  /\ Ends(i)
  /\ UNCHANGED <<irp, holders, failed, starved, unmoved>>

(* FsRtlNotifyFullChangeDirectory takes it.  Where FFSGetFullFileName fails *)
(* CompleteRequest is not set: whatever it holds, the context is freed, and *)
(* the IRP is completed or forgotten.                                       *)
Notify(i) ==
  /\ Is(i, "acquire") /\ irp[i].kind = "notify" /\ ~ writer /\ holders = {}
  /\ \/ package' = package \cup {i} /\ UNCHANGED <<irp, starved>>
     \/ /\ starved' = starved \cup {i} /\ UNCHANGED package
        /\ irp' = irp \/ irp' = Completed(i, "error")
  /\ context' = Free(thread[i].ctx)
  /\ Ends(i)
  /\ UNCHANGED <<holders, failed, unmoved>>
-----------------------------------------------------------------------------
(* While the resource is held *)

(* CcCopyRead, or the work of a query, is done. *)
Copied(i) ==
  /\ Is(i, "body") /\ irp[i].kind # "dasd"
  /\ irp' = [irp EXCEPT ![i].whole = TRUE]
  /\ Goes(i, "finally", "success")
  /\ UNCHANGED <<context, holders, package, failed, starved, unmoved>>

(* It fails, or FFSLockUserBuffer does. *)
Fails(i) ==
  /\ Is(i, "body")
  /\ failed' = failed \cup {i}
  /\ Goes(i, "finally", "error")
  /\ UNCHANGED <<irp, context, holders, package, starved, unmoved>>

WouldBlock(i) ==
  /\ Is(i, "body") /\ Cached(i) /\ ~ IsSynchronous(i)
  /\ Goes(i, "finally", "pending")
  /\ UNCHANGED <<irp, context, holders, package, failed, starved, unmoved>>

(* Mistaken: the last block is not counted. *)
Counted_OneLess(n) == n - 1
(* pContext->Blocks *)
Counted(n) == n

(* Mistaken: the master IRP waits for one IRP less than there are. *)
IrpCount_OneLess(n, sync) == IF sync THEN n + 1 ELSE n - 1
(* Mistaken: one more is counted whoever waits. *)
IrpCount_OneMore(n, sync) == n + 1
(* MasterIrp->AssociatedIrp.IrpCount *)
IrpCount(n, sync) == IF sync THEN n + 1 ELSE n

(* FFSReadWriteBlocks makes the associated IRPs, one for FFSReadVolume. *)
Prepare(i) ==
  /\ Is(i, "body") /\ (Cached(i) \/ irp[i].kind = "dasd")
  /\ \E n \in IF irp[i].kind = "read" THEN Blocks ELSE {1} :
       /\ part' = [part EXCEPT ![i] = [b \in Blocks |-> IF b <= n THEN "made" ELSE "none"]]
       /\ transfer' = [transfer EXCEPT ![i] = [live |-> TRUE, wait |-> IsSynchronous(i),
                                                blocks |-> Counted(n), event |-> FALSE]]
       /\ irp' = [irp EXCEPT ![i].count = IrpCount(n, IsSynchronous(i)), ![i].whole = irp[i].kind = "read"]
  /\ Goes(i, "sending", "success")
  /\ UNCHANGED <<context, holders, writer, package, failed, starved>>

(* What FFSReadWriteBlocks returns goes to the finally block; FFSReadVolume  *)
(* without CCB sets the length first.                                       *)
Returned(i) == IF irp[i].kind = "stream" THEN "measure" ELSE "finally"

(* It cannot: the status is that of the master IRP, which nothing has set,  *)
(* or pending, and the IRP forgotten.                                       *)
Starve(i) ==
  /\ Is(i, "body") /\ (Cached(i) \/ irp[i].kind = "dasd")
  /\ starved' = starved \cup {i}
  /\ IF IsSynchronous(i) THEN Goes(i, Returned(i), irp[i].status) /\ UNCHANGED context
     ELSE Goes(i, Returned(i), "pending") /\ context' = [context EXCEPT ![thread[i].ctx].irp = NoIrp]
  /\ UNCHANGED <<irp, holders, package, failed, unmoved>>

Made(i) == { b \in Blocks : part[i][b] = "made" }

(* IoCallDriver for the next of them *)
Send(i) ==
  /\ Is(i, "sending")
  /\ \E b \in Made(i) :
       /\ \A a \in Made(i) : b <= a
       /\ part' = [part EXCEPT ![i][b] = "sent"]
  /\ Goes(i, IF Cardinality(Made(i)) > 1 THEN "sending"
             ELSE IF IsSynchronous(i) THEN "waiting" ELSE "sent", "success")
  /\ UNCHANGED <<irp, context, transfer, holders, writer, package, failed, starved>>

(* The master IRP is no longer this thread's. *)
GiveAway(i) ==
  /\ Is(i, "sent")
  /\ context' = [context EXCEPT ![thread[i].ctx].irp = NoIrp]
  /\ Goes(i, Returned(i), "pending")
  /\ UNCHANGED <<irp, holders, package, failed, starved, unmoved>>

Wake(i) ==
  /\ Is(i, "waiting") /\ transfer[i].event
  /\ transfer' = [transfer EXCEPT ![i] = NoTransfer]
  /\ Goes(i, Returned(i), irp[i].status)
  /\ UNCHANGED <<irp, context, part, holders, writer, package, failed, starved>>

(* Unless it failed, and STATUS_PENDING is no failure, the length is set,   *)
(* through a pointer that FFSReadWriteBlocks does not clear: once the IRP   *)
(* is given away it may be completed before that.                           *)
Measure(i) ==
  /\ Is(i, "measure")
  /\ irp' = [irp EXCEPT ![i].whole = @ \/ thread[i].status # "error"]
  /\ Goes(i, "finally", thread[i].status)
  /\ UNCHANGED <<context, holders, package, failed, starved, unmoved>>
-----------------------------------------------------------------------------
(* The finally blocks, and the worker queue *)

(* Mistaken: the context still may not block. *)
Requeued_StillAsync(c) == context
(* Mistaken: the context is freed with the request on the queue. *)
Requeued_Freed(c) == Free(c)
(* FFSQueueRequest *)
Requeued(c) == [context EXCEPT ![c].sync = TRUE]

Finally(i) ==
  /\ Is(i, "finally")
  /\ holders' = holders \ {i}
  /\ LET c == thread[i].ctx
         s == thread[i].status
     IN \/ /\ Mine(i).irp = NoIrp
           /\ Ends(i) /\ context' = Free(c) /\ UNCHANGED irp
        \/ /\ Mine(i).irp # NoIrp /\ s = "pending"
           /\ Goes(i, "queued", s) /\ context' = Requeued(c) /\ UNCHANGED irp
        \/ /\ Mine(i).irp # NoIrp
           /\ Ends(i) /\ context' = Free(c)
           /\ irp' = Completed(i, IF s = "pending" THEN "error" ELSE s)
  /\ UNCHANGED <<package, failed, starved, unmoved>>

(* FFSDeQueueRequest dispatches the request again. *)
Dequeue(i) ==
  /\ Is(i, "queued")
  /\ Goes(i, "handler", "error")
  /\ UNCHANGED <<irp, context, holders, package, failed, starved, unmoved>>

(* The cache manager raises.  FFSExceptionFilter marks the context and the  *)
(* handler's finally block only lets go of the resource.                    *)
Raise(i) ==
  /\ Is(i, "body") /\ (Cached(i) \/ irp[i].kind = "query")
  /\ context' = [context EXCEPT ![thread[i].ctx].exception = TRUE]
  /\ holders' = holders \ {i}
  /\ failed' = failed \cup {i}
  /\ Goes(i, IF Cached(i) THEN "readfinally" ELSE "unwound", "error")
  /\ UNCHANGED <<irp, package, starved, unmoved>>

(* The finally block of FFSRead tests bCompleteRequest, which is set only   *)
(* after FFSReadFile has returned, and Status, which is not set either.     *)
ReadFinally(i) ==
  /\ Is(i, "readfinally")
  /\ \E left \in Leftovers, s \in {"success", "error"} :
       IF left THEN irp' = Completed(i, s) /\ context' = Free(thread[i].ctx)
       ELSE UNCHANGED <<irp, context>>
  /\ Goes(i, "unwound", "error")
  /\ UNCHANGED <<holders, package, failed, starved, unmoved>>

(* FFSExceptionHandler: a context that is free is left alone; else its IRP  *)
(* is completed, or an error that the user can mend gets a pop-up.          *)
Handle(i) ==
  /\ Is(i, "unwound")
  /\ Ends(i)
  /\ LET j == Mine(i).irp IN
       IF Mine(i).of = NoIrp THEN UNCHANGED <<irp, context, package>>
       ELSE /\ context' = Free(thread[i].ctx)
            /\ \/ j = NoIrp /\ UNCHANGED <<irp, package>>
               \/ j # NoIrp /\ irp' = Completed(j, "error") /\ UNCHANGED package
               \/ j # NoIrp /\ package' = package \cup {j} /\ UNCHANGED irp
  /\ UNCHANGED <<holders, failed, starved, unmoved>>
-----------------------------------------------------------------------------
(* The other parties *)

(* Mistaken: the status of each associated IRP is taken over. *)
Noted_Always(i, ok) ==
  [irp EXCEPT ![i].status = IF ok THEN "success" ELSE "error", ![i].whole = @ /\ ok]
(* A failure is taken over by the master IRP. *)
Noted(i, ok) == IF ok THEN irp ELSE [irp EXCEPT ![i].status = "error", ![i].whole = FALSE]

(* The disk driver is through with an associated IRP, and its completion    *)
(* routine starts.                                                          *)
PartReturns(i, b) ==
  /\ part[i][b] = "sent"
  /\ part' = [part EXCEPT ![i][b] = "noted"]
  /\ \E ok \in BOOLEAN :
       /\ irp' = Noted(i, ok)
       /\ failed' = IF ok THEN failed ELSE failed \cup {i}
  /\ UNCHANGED <<context, thread, transfer, holders, writer, package, starved>>

(* Mistaken: with one block left the context is given up. *)
Last_TooSoon(blocks) == blocks <= 1
Last(blocks) == blocks = 0

(* InterlockedDecrement, and what the last one does *)
PartCounts(i, b) ==
  /\ part[i][b] = "noted"
  /\ LET t == transfer[i]
         last == Last(t.blocks - 1)
     IN /\ transfer' = [transfer EXCEPT ![i] =
             IF last /\ ~ t.wait THEN NoTransfer
             ELSE [t EXCEPT !.blocks = @ - 1, !.event = last]]
        /\ irp' = IF last THEN [irp EXCEPT ![i].whole = irp[i].status = "success"] ELSE irp
        /\ part' = [part EXCEPT ![i][b] = IF t.wait THEN "gone" ELSE "counted"]
  /\ UNCHANGED <<context, thread, holders, writer, package, failed, starved>>

(* IoCompleteRequest goes on: the last associated IRP completes the master. *)
PartEnds(i, b) ==
  /\ part[i][b] = "counted"
  /\ part' = [part EXCEPT ![i][b] = "gone"]
  /\ irp' = [irp EXCEPT ![i].count = @ - 1, ![i].done = IF irp[i].count = 1 THEN @ + 1 ELSE @]
  /\ UNCHANGED <<context, thread, transfer, holders, writer, package, failed, starved>>

PackageCompletes(i) ==
  /\ i \in package
  /\ package' = package \ {i}
  /\ irp' = Completed(i, IF i \in failed THEN "error" ELSE "success")
  /\ UNCHANGED <<context, thread, transfer, part, holders, writer, failed, starved>>

WriterComes ==
  /\ ~ writer /\ holders = {}
  /\ writer' = TRUE
  /\ UNCHANGED <<irp, context, thread, transfer, part, holders, package, failed, starved>>
WriterLeaves ==
  /\ writer
  /\ writer' = FALSE
  /\ UNCHANGED <<irp, context, thread, transfer, part, holders, package, failed, starved>>

Run(i) ==
  \/ LeaveEarly(i) \/ Proceed(i) \/ Acquire(i) \/ Denied(i) \/ Lock(i) \/ Notify(i)
  \/ Copied(i) \/ Fails(i) \/ WouldBlock(i) \/ Prepare(i) \/ Starve(i) \/ Send(i) \/ GiveAway(i) \/ Wake(i)
  \/ Measure(i)
  \/ Finally(i) \/ Dequeue(i) \/ Raise(i) \/ ReadFinally(i) \/ Handle(i)
Disk(i) == \E b \in Blocks : PartReturns(i, b) \/ PartCounts(i, b) \/ PartEnds(i, b)

Next ==
  \/ \E i \in Irps : Issue(i) \/ Run(i) \/ Disk(i) \/ PackageCompletes(i)
  \/ WriterComes \/ WriterLeaves

(* Threads and the disk driver go on; an exclusive holder lets go, and who  *)
(* waits for the resource again and again gets it.                          *)
Spec ==
  /\ Init /\ [][Next]_vars
  /\ \A i \in Irps : SF_vars(Run(i)) /\ WF_vars(Disk(i))
  /\ WF_vars(WriterLeaves)
-----------------------------------------------------------------------------
(* Properties *)

InDriver(i) == thread[i].pc \in {"handler", "acquire", "body", "sending", "sent", "waiting", "measure",
                                 "finally", "queued", "readfinally", "unwound"}
Outstanding(i) == \E b \in Blocks : part[i][b] \in {"made", "sent", "noted", "counted"}
Has(i) == InDriver(i) /\ Mine(i).of = i /\ Mine(i).irp = i

(* An IRP that is completed is out of everyone's hands, and is completed    *)
(* once: no context names it but that of the thread that is about to clear  *)
(* the pointer, no package holds it, no associated IRP is left that would   *)
(* write its status, and no thread that would write its length.             *)
CompletedIsReleased ==
  \A i \in Irps :
    /\ irp[i].done <= 1
    /\ irp[i].done = 1 => (Has(i) => Is(i, "sent")) /\ i \notin package
                       /\ ~ Outstanding(i) /\ ~ Is(i, "measure")

(* An IRP that is not completed is in someone's hands: the thread's or the  *)
(* work queue's through its context, the disk driver's or a package's.      *)
(* Two are forgotten: that of an asynchronous transfer for which there is   *)
(* no pool, and that of a notification for which there is no name.          *)
NeverLost ==
  \A i \in Irps : irp[i].done = 0 =>
    Is(i, "new") \/ Has(i) \/ i \in package \/ Outstanding(i) \/ i \in starved

(* A failed copy, or the failure of any one block, whatever the order in    *)
(* which blocks return, makes the request fail, and a transfer that did not *)
(* fail is reported whole.  A transfer for which there is no pool is not    *)
(* covered: the code reports the status the IRP came with.                  *)
FailureIsReported ==
  \A i \in Irps \ starved : irp[i].done = 1 =>
    /\ i \in failed => irp[i].status = "error" /\ ~ irp[i].whole
    /\ (i \notin failed /\ \E b \in Blocks : part[i][b] = "gone") => irp[i].whole

(* While a request runs or is queued its context is not given to another.   *)
(* The exception handler may find it freed, and sees that it is: "Check     *)
(* IrpContext is valid or not" (src/except.c:45).                           *)
ContextIsItsOwn ==
  \A i \in Irps : InDriver(i) =>
    Mine(i).of = i \/ (Is(i, "unwound") /\ Mine(i).of = NoIrp)

(* The FFS_RW_CONTEXT outlives the completion routines that use it, and is  *)
(* freed when they and the thread are through.                              *)
TransferOutlivesParts ==
  \A i \in Irps :
    /\ (\E b \in Blocks : part[i][b] \in {"made", "sent", "noted"}) => transfer[i].live
    /\ Is(i, "gone") /\ ~ Outstanding(i) => ~ transfer[i].live

(* Every request that reads or queries is completed, given to a package or  *)
(* forgotten for want of pool: a request is requeued at most once, as the   *)
(* worker may block.                                                        *)
RequestEnds ==
  \A i \in Irps : ~ Is(i, "new") ~> irp[i].done > 0 \/ i \in package \/ i \in starved
=============================================================================
