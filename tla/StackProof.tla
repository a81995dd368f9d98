------------------------------ MODULE StackProof ------------------------------
(***************************************************************************)
(* The whole stack, with a caller who may do anything at any moment, for   *)
(* every block table, cluster table, size of the ring and first medium:    *)
(* the layers keep their types and bounds above one another, and MiniFee   *)
(* works only for the current job of MiniNvm.                              *)
(***************************************************************************)
EXTENDS Stack, MiniFeeProof

\* The ring and the current job have their types.
RingOK == /\ current \in Nvm!Current
          /\ queue \in [Nvm!Slot -> Nvm!Entry]
          /\ head \in Nvm!Slot

\* StackServesCurrent in terms of the job of MiniFee.
Serves ==
  initialized /\ status = "BUSY" =>
    /\ current.valid
    /\ job.kind = current.op
    /\ current.op \in {"READ", "WRITE"} => job.blockNumber = current.block

\* What every step of the stack preserves.
StackInv == FeeInv /\ RingOK /\ Serves

\* The memory MiniNvm shares with MiniFee has its types.
MemoryTyped == /\ dataBuf \in [DataIdx -> Cell]
               /\ ram \in [Block -> [DataIdx -> Cell]]
               /\ dirty \in [Block -> BOOLEAN]

----------------------------------------------------------------------------
(* MiniFee below a caller who changes the memory at will                   *)

\* The assumptions on the tables, named once for the provers.
LEMMA Tables == /\ BlockCount \in Nat \ {0} /\ DataCells \in [Block -> 0 .. MaxDataCells]
                /\ MaxDataCells \in Nat \ {0} /\ Zero \in Cell /\ Value \subseteq Cell
  BY BlockAssumption, ValueAssumption DEF Cell

\* As long as its types are kept, the memory may change.
LEMMA MemoryOK ==
  ASSUME FeeInv, UNCHANGED below, MemoryTyped'
  PROVE  FeeInv'
  BY DEF below, flsVars, feeVars, MemoryTyped, FeeInv, TypeOK, FlsOK, FlsTypeOK, OpInBounds,
         BusyIffOp, CursorOK, RestWhenNotBusy, DriverBusyOnlyForWaiter, InFind

\* A request that MiniFee takes: it is busy with just this job.
Taken(kind) == status' = "BUSY" /\ job'.kind = kind

\* A job that is accepted leaves MiniFee busy with it, whatever the caller has
\* done to the memory.
LEMMA JobTaken ==
  ASSUME FeeInv, MemoryTyped'
  PROVE  /\ MiniFee_ReadAll => FeeInv' /\ Taken("READALL")
         /\ \A S \in SUBSET Block : MiniFee_WriteAll(S) => FeeInv' /\ Taken("WRITEALL")
         /\ \A b \in Block : /\ MiniFee_Read(b) => FeeInv' /\ Taken("READ") /\ job'.blockNumber = b
                             /\ MiniFee_Write(b) => FeeInv' /\ Taken("WRITE") /\ job'.blockNumber = b
<1> DEFINE Accepted(new) ==
      /\ new \in Job /\ StartJob(new)
      /\ \/ \E ret \in State, type \in {"READ", "WRITE"} : StartFindAddr(ret, type)
         \/ dir.valid /\ \E st \in State : Directly(st)
<1>1. NoJob \in Job
  BY Tables DEF NoJob, Job, Kind, Block
<1>2. ASSUME NEW new, Accepted(new) PROVE FeeInv' /\ status' = "BUSY" /\ job' = new
  BY <1>2, StartJobOK DEF MemoryTyped, StartJob, ResetJob, FeeInv, TypeOK, FlsOK
<1> HIDE DEF Accepted
<1>3. MiniFee_ReadAll => FeeInv' /\ Taken("READALL")
  <2>1. MiniFee_ReadAll => Accepted([NoJob EXCEPT !.kind = "READALL"])
    BY <1>1 DEF MiniFee_ReadAll, Job, Kind, State, Accepted
  <2>2. QED
    BY <1>2, <2>1 DEF Taken, NoJob
<1>4. ASSUME NEW S \in SUBSET Block, MiniFee_WriteAll(S) PROVE FeeInv' /\ Taken("WRITEALL")
  <2>1. Accepted([NoJob EXCEPT !.kind = "WRITEALL", !.counted = S])
    BY <1>1, <1>4 DEF MiniFee_WriteAll, Appendable, Job, Kind, State, Accepted
  <2>2. FeeInv' /\ status' = "BUSY" /\ job' = [NoJob EXCEPT !.kind = "WRITEALL", !.counted = S]
    BY <1>2, <2>1
  <2>3. QED
    BY <2>2 DEF Taken, NoJob
<1>5. ASSUME NEW b \in Block, MiniFee_Read(b)
      PROVE  FeeInv' /\ Taken("READ") /\ job'.blockNumber = b
  <2>1. Accepted([NoJob EXCEPT !.kind = "READ", !.blockNumber = b])
    BY <1>1, <1>5 DEF MiniFee_Read, Job, Kind, State, Accepted
  <2>2. FeeInv' /\ status' = "BUSY" /\ job' = [NoJob EXCEPT !.kind = "READ", !.blockNumber = b]
    BY <1>2, <2>1
  <2>3. QED
    BY <2>2 DEF Taken, NoJob
<1>6. ASSUME NEW b \in Block, MiniFee_Write(b)
      PROVE  FeeInv' /\ Taken("WRITE") /\ job'.blockNumber = b
  <2>1. Accepted([NoJob EXCEPT !.kind = "WRITE", !.blockNumber = b])
    BY <1>1, <1>6 DEF MiniFee_Write, Appendable, Job, Kind, State, Accepted
  <2>2. FeeInv' /\ status' = "BUSY" /\ job' = [NoJob EXCEPT !.kind = "WRITE", !.blockNumber = b]
    BY <1>2, <2>1
  <2>3. QED
    BY <2>2 DEF Taken, NoJob
<1>7. QED
  BY <1>3, <1>4, <1>5, <1>6

\* MiniFee_Init establishes the invariant of MiniFee on any medium.
LEMMA InitAgainOK ==
  ASSUME NEW image \in [Addr -> Cell], MiniFee_Init(image), MemoryTyped'
  PROVE  FeeInv' /\ status' = "IDLE"
<1>1. FlsOK'
  BY NoOpType, CellTypes
  DEF MiniFee_Init, ResetContext, Fls_Reinit, FlsOK, FlsTypeOK, OpInBounds, BusyIffOp
<1>2. job' \in Job /\ dir' \in Dir /\ find' \in Find /\ mig' \in Mig
  BY ZeroIndex, BlockAssumption, ClusterAssumption
  DEF MiniFee_Init, ResetContext, NoJob, NoDir, NoFind, NoMig, Job, Dir, Find, Mig,
      Kind, State, FindSub, Cluster
<1>3. QED
  BY <1>1, <1>2
  DEF MiniFee_Init, ResetContext, Fls_Reinit, FeeInv, TypeOK, FlsOK, State, MemoryTyped,
      RestWhenNotBusy, CursorOK, NoFind, DriverBusyOnlyForWaiter

\* A step of the main function serves the job that is in progress: it is busy after it
\* only if it was before, with the same job.
LEMMA MainKeepsJob ==
  ASSUME FeeInv, MiniFee_MainFunction, status' = "BUSY"
  PROVE  status = "BUSY" /\ job'.kind = job.kind /\ job'.blockNumber = job.blockNumber
<1>1. job \in Job /\ (state # "IDLE" => status = "BUSY")
  BY DEF FeeInv, TypeOK, RestWhenNotBusy
<1>2. state # "IDLE"
  BY DEF MiniFee_MainFunction, HandleFlsWait, JobDone, JobError, FindStart,
         FindReadClusterHdrDone, DecideBlank, DecideReuse, DecideScan, FindFreshErase,
         FindFreshActivate, FindWriteHdrWrite, FindFreshActivateDone, FindMetricsRead,
         FindMetricsEval, FindMetricsDone, FindMigratePrepare, FindMigrateEraseDst,
         FindMigrateRead, FindMigrateWrite, FindMigrateActivate, FindMigrateSwitch, FindDone,
         HandleReadByDir, HandleReadVerifyCopy, HandleReadAllFill, HandleWriteMainLoopProc,
         HandleWriteAllAppend, InFind
<1>3. CASE FindMigrateRead
  BY <1>1, <1>2, <1>3 DEF FindMigrateRead, Job
<1>4. CASE HandleReadAllFill
  BY <1>1, <1>2, <1>4 DEF HandleReadAllFill, Job
<1>5. CASE HandleWriteAllAppend
  BY <1>1, <1>2, <1>5 DEF HandleWriteAllAppend, Job
<1>6. CASE UNCHANGED job
  BY <1>1, <1>2, <1>6
<1>7. QED
  BY <1>3, <1>4, <1>5, <1>6
  DEF MiniFee_MainFunction, HandleFlsWait, JobDone, JobError, FindStart,
      FindReadClusterHdrDone, DecideBlank, DecideReuse, DecideScan, FindFreshErase,
      FindFreshActivate, FindWriteHdrWrite, FindFreshActivateDone, FindMetricsRead,
      FindMetricsEval, FindMetricsDone, FindMigratePrepare, FindMigrateEraseDst,
      FindMigrateWrite, FindMigrateActivate, FindMigrateSwitch, FindDone,
      HandleReadByDir, HandleReadVerifyCopy, HandleWriteMainLoopProc

----------------------------------------------------------------------------
(* MiniNvm                                                                 *)

\* The memory of MiniNvm keeps its types under every call that MiniFee hears
\* nothing of.
LEMMA CallsTyped ==
  ASSUME MemoryTyped, Nvm!Call
  PROVE  MemoryTyped'
<1>1. ASSUME NEW b \in Block, NEW v \in Value, NEW len
      PROVE  Nvm!Padded(b, v, len) \in [DataIdx -> Cell]
  BY Tables DEF Nvm!Padded, Nvm!DataIdx, DataIdx, MemoryTyped
<1>2. ASSUME NEW b \in Block, NEW v \in Value, Nvm!MiniNvm_WriteBlock(b, v)
      PROVE  MemoryTyped'
  BY <1>2, Tables DEF Nvm!MiniNvm_WriteBlock, Nvm!Enqueue, Nvm!DataIdx, DataIdx, MemoryTyped
<1>3. ASSUME NEW b \in Block, NEW v \in Value, NEW len, Nvm!MiniNvm_WriteRam(b, v, len)
      PROVE  MemoryTyped'
  BY <1>1, <1>3 DEF Nvm!MiniNvm_WriteRam, MemoryTyped
<1>4. ASSUME NEW b \in Block,
             Nvm!MiniNvm_ReadBlock(b) \/ \E v \in Value : Nvm!MiniNvm_WriteBlockRefused(b, v)
      PROVE  MemoryTyped'
  BY <1>4 DEF Nvm!MiniNvm_ReadBlock, Nvm!Enqueue, Nvm!MiniNvm_WriteBlockRefused, MemoryTyped
<1>5. QED
  BY <1>2, <1>3, <1>4 DEF Nvm!Call, Nvm!Block, Block

\* The invariant of MiniFee holds of the memory too.
LEMMA MemoryIsTyped == FeeInv => MemoryTyped
  BY DEF FeeInv, TypeOK, MemoryTyped

----------------------------------------------------------------------------
(* Every step of the stack keeps the invariant                             *)

\* Calls that MiniFee hears nothing of.
LEMMA QuietOK == StackInv /\ Quiet => StackInv'
<1> SUFFICES ASSUME StackInv, Quiet PROVE StackInv'
  OBVIOUS
<1>1. FeeInv'
  BY MemoryIsTyped, CallsTyped, MemoryOK DEF StackInv, Quiet
<1>2. UNCHANGED <<initialized, current, head>> /\ queue' \in [Nvm!Slot -> Nvm!Entry]
  BY DEF StackInv, RingOK, Quiet, Nvm!Call, Nvm!MiniNvm_ReadBlock, Nvm!MiniNvm_WriteBlock,
         Nvm!Enqueue, Nvm!MiniNvm_WriteBlockRefused, Nvm!MiniNvm_WriteRam, Nvm!nvmVars,
         Nvm!queueVars, Nvm!Entry, Nvm!Single
<1>3. QED
  BY <1>1, <1>2 DEF StackInv, RingOK, Serves, Quiet, below, feeVars

\* A job for all blocks: MiniFee is free, or the current job would not be over.
LEMMA BulkOK == StackInv /\ (ReadAll \/ WriteAll) => StackInv'
<1> SUFFICES ASSUME StackInv, ReadAll \/ WriteAll PROVE StackInv'
  OBVIOUS
<1>1. /\ initialized /\ ~current.valid /\ current \in Nvm!Current
      /\ UNCHANGED <<initialized, queue, head>>
  BY DEF StackInv, RingOK, ReadAll, WriteAll, Nvm!MiniNvm_ReadAll, Nvm!MiniNvm_WriteAll,
         Nvm!NoJobs, Nvm!queueVars
<1>2. status # "BUSY"
  BY <1>1 DEF StackInv, Serves
<1>3. MemoryTyped'
  <2>1. \A b \in Block : Nvm!Padded(b, Zero, 0) \in [DataIdx -> Cell]
    BY MemoryIsTyped, Tables DEF Nvm!Padded, Nvm!DataIdx, DataIdx, MemoryTyped, StackInv
  <2>2. QED
    BY <2>1, MemoryIsTyped
    DEF StackInv, MemoryTyped, ReadAll, WriteAll, Nvm!MiniNvm_ReadAll, Nvm!MiniNvm_WriteAll,
        Nvm!Block, Block
<1>4. CASE ReadAll
  <2>1. current' = [current EXCEPT !.valid = TRUE, !.op = "READALL"]
    BY <1>2, <1>4 DEF ReadAll, Nvm!MiniNvm_ReadAll, Nvm!StartBulk
  <2>2. FeeInv' /\ Taken("READALL")
    BY <1>2, <1>3, <1>4, JobTaken DEF ReadAll, StackInv
  <2>3. QED
    BY <1>1, <2>1, <2>2
    DEF StackInv, RingOK, Serves, Taken, Nvm!Current, Nvm!Bulk, Nvm!Single
<1>5. CASE WriteAll /\ Nvm!Offered # {}
  <2>1. current' = [current EXCEPT !.valid = TRUE, !.op = "WRITEALL"]
    BY <1>2, <1>5 DEF WriteAll, Nvm!MiniNvm_WriteAll, Nvm!StartBulk
  <2>2. Nvm!Offered \in SUBSET Block
    BY DEF Nvm!Offered, Nvm!Block, Block
  <2>3. FeeInv' /\ Taken("WRITEALL")
    BY <1>2, <1>3, <1>5, <2>2, JobTaken DEF WriteAll, StackInv
  <2>4. QED
    BY <1>1, <2>1, <2>3
    DEF StackInv, RingOK, Serves, Taken, Nvm!Current, Nvm!Bulk, Nvm!Single
<1>6. CASE WriteAll /\ Nvm!Offered = {}
  <2>1. UNCHANGED <<current, below>>
    BY <1>6 DEF WriteAll, Nvm!MiniNvm_WriteAll
  <2>2. FeeInv'
    BY <1>3, <2>1, MemoryOK DEF StackInv
  <2>3. QED
    BY <1>1, <1>2, <2>1, <2>2 DEF StackInv, RingOK, Serves, below, feeVars
<1>7. QED
  BY <1>4, <1>5, <1>6

\* The next request of the ring goes to MiniFee, which is free.
LEMMA StartNextOK == StackInv /\ StartNext => StackInv'
<1> SUFFICES ASSUME StackInv, StartNext PROVE StackInv'
  OBVIOUS
<1> DEFINE entry == queue[head]
<1>1. /\ initialized /\ ~current.valid /\ UNCHANGED <<initialized, queue, dataBuf, ram, dirty>>
      /\ head' = Nvm!After(head)
  BY DEF StartNext, Nvm!StartCurrent, Nvm!memory
<1>2. status # "BUSY"
  BY <1>1 DEF StackInv, Serves
<1>3. /\ entry.op \in {"READ", "WRITE"} /\ entry.block \in Block
      /\ current' = [valid |-> TRUE, op |-> entry.op, block |-> entry.block]
  BY <1>2 DEF StackInv, RingOK, Nvm!Entry, Nvm!Single, StartNext, Nvm!StartCurrent,
              Nvm!Block, Block
<1>4. RingOK'
  <2>1. head' \in Nvm!Slot
    BY <1>1, RingAssumption DEF StackInv, RingOK, Nvm!After, Nvm!Slot
  <2>2. current' \in Nvm!Current
    BY <1>3 DEF Nvm!Current, Nvm!Single, Nvm!Bulk, Nvm!Block, Block
  <2>3. QED
    BY <1>1, <2>1, <2>2 DEF StackInv, RingOK
<1>5. MemoryTyped'
  BY <1>1, MemoryIsTyped DEF StackInv, MemoryTyped
<1>6. CASE ~HasData(entry.block)
  <2>1. UNCHANGED below
    BY <1>6 DEF StartNext
  <2>2. FeeInv'
    BY <1>5, <2>1, MemoryOK DEF StackInv
  <2>3. QED
    BY <1>2, <1>4, <2>1, <2>2 DEF StackInv, Serves, below, feeVars
<1>7. CASE HasData(entry.block)
  <2>1. IF entry.op = "READ" THEN MiniFee_Read(entry.block) ELSE MiniFee_Write(entry.block)
    BY <1>2, <1>7 DEF StartNext
  <2>2. FeeInv' /\ Taken(entry.op) /\ job'.blockNumber = entry.block
    BY <1>3, <1>5, <2>1, JobTaken DEF StackInv
  <2>3. QED
    BY <1>3, <1>4, <2>2 DEF StackInv, Serves, Taken
<1>8. QED
  BY <1>6, <1>7

\* A job that is cancelled is cancelled in MiniFee too, if MiniFee is at it.
LEMMA CancelJobsOK == StackInv /\ CancelJobs => StackInv'
<1> SUFFICES ASSUME StackInv, CancelJobs PROVE StackInv'
  OBVIOUS
<1>1. /\ initialized /\ UNCHANGED <<initialized, queue, dataBuf, ram, dirty>> /\ head' = 0
      /\ current' = [current EXCEPT !.valid = FALSE]
  BY DEF CancelJobs, Nvm!MiniNvm_CancelJobs, Nvm!ClearQueue, Nvm!memory
<1>2. RingOK'
  <2>1. 0 \in Nvm!Slot
    BY RingAssumption DEF Nvm!Slot
  <2>2. QED
    BY <1>1, <2>1 DEF StackInv, RingOK, Nvm!Current
<1>3. CASE current.valid /\ status = "BUSY"
  <2>1. MiniFee_Cancel
    BY <1>3 DEF CancelJobs
  <2>2. FeeInv' /\ status' = "NOT_OK"
    BY <2>1, CancelOK DEF StackInv, MiniFee_Cancel
  <2>3. QED
    BY <1>2, <2>2 DEF StackInv, Serves
<1>4. CASE ~(current.valid /\ status = "BUSY")
  <2>1. UNCHANGED below
    BY <1>4 DEF CancelJobs
  <2>2. FeeInv'
    BY <1>1, <2>1, MemoryIsTyped, MemoryOK DEF StackInv, MemoryTyped
  <2>3. status' # "BUSY"
    BY <1>1, <1>4, <2>1 DEF StackInv, Serves, below, feeVars
  <2>4. QED
    BY <1>2, <2>2, <2>3 DEF StackInv, Serves
<1>5. QED
  BY <1>3, <1>4

\* A deinitialization leaves MiniFee to its job; a start takes the job from it.
LEMMA StopOK == StackInv /\ (DeInit \/ Start) => StackInv'
<1> SUFFICES ASSUME StackInv, DeInit \/ Start PROVE StackInv'
  OBVIOUS
<1>1. /\ current' = [current EXCEPT !.valid = FALSE] /\ head' = 0 /\ queue' = queue
      /\ dirty' = [b \in Block |-> FALSE]
  BY DEF DeInit, Start, Nvm!MiniNvm_DeInit, Nvm!MiniNvm_Init, Nvm!ResetNvm, Nvm!ClearQueue,
         Nvm!Block, Block
<1>2. RingOK'
  <2>1. 0 \in Nvm!Slot
    BY RingAssumption DEF Nvm!Slot
  <2>2. QED
    BY <1>1, <2>1 DEF StackInv, RingOK, Nvm!Current
<1>3. MemoryTyped'
  <2>1. \/ UNCHANGED <<dataBuf, ram>>
        \/ /\ dataBuf' = [i \in DataIdx |-> Zero]
           /\ ram' = [b \in Block |-> [i \in DataIdx |-> Zero]]
    BY DEF DeInit, Start, Nvm!MiniNvm_DeInit, Nvm!MiniNvm_Init, Nvm!Block, Block,
           Nvm!DataIdx, DataIdx
  <2>2. dirty' \in [Block -> BOOLEAN]
    BY <1>1
  <2>3. QED
    BY <2>1, <2>2, MemoryIsTyped, Tables DEF StackInv, MemoryTyped
<1>4. CASE DeInit
  <2>1. FeeInv'
    BY <1>3, <1>4, MemoryOK DEF DeInit, StackInv
  <2>2. ~initialized'
    BY <1>4 DEF DeInit, Nvm!MiniNvm_DeInit, Nvm!ResetNvm
  <2>3. QED
    BY <1>2, <2>1, <2>2 DEF StackInv, Serves
<1>5. CASE Start
  <2>1. flash \in [Addr -> Cell]
    BY DEF StackInv, FeeInv, TypeOK, FlsTypeOK
  <2>2. FeeInv' /\ status' = "IDLE"
    BY <1>3, <1>5, <2>1, InitAgainOK DEF Start
  <2>3. QED
    BY <1>2, <2>2 DEF StackInv, Serves
<1>6. QED
  BY <1>4, <1>5

\* The end of the current job is taken when MiniFee is not busy any more.
LEMMA EndCurrentOK == StackInv /\ Nvm!EndCurrent /\ UNCHANGED below => StackInv'
<1> SUFFICES ASSUME StackInv, Nvm!EndCurrent, UNCHANGED below PROVE StackInv'
  OBVIOUS
<1>1. /\ status # "BUSY" /\ current' = [current EXCEPT !.valid = FALSE]
      /\ UNCHANGED <<initialized, queue, head, dataBuf, ram>>
  BY DEF Nvm!EndCurrent, Nvm!HandleCurrentResult, Nvm!FinishReadAll, Nvm!FinishWriteAll,
         Nvm!Finished, Nvm!queueVars
<1>2. dirty' \in [Block -> BOOLEAN]
  BY MemoryIsTyped
  DEF StackInv, MemoryTyped, Nvm!EndCurrent, Nvm!HandleCurrentResult, Nvm!FinishReadAll,
      Nvm!FinishWriteAll, Nvm!Block, Block
<1>3. FeeInv'
  BY <1>1, <1>2, MemoryIsTyped, MemoryOK DEF StackInv, MemoryTyped
<1>4. RingOK'
  BY <1>1 DEF StackInv, RingOK, Nvm!Current
<1>5. QED
  BY <1>1, <1>3, <1>4 DEF StackInv, Serves, below, feeVars

\* MiniFee and the driver go on with the job.
LEMMA WorkOK == StackInv /\ (FeeMain \/ FlsMain) => StackInv'
<1> SUFFICES ASSUME StackInv, FeeMain \/ FlsMain PROVE StackInv'
  OBVIOUS
<1>1. FeeInv'
  BY NextOK DEF StackInv, FeeMain, FlsMain, Next
<1>2. UNCHANGED nvmVars
  BY DEF FeeMain, FlsMain
<1>3. status' = "BUSY" => status = "BUSY" /\ job'.kind = job.kind
                         /\ job'.blockNumber = job.blockNumber
  BY MainKeepsJob DEF StackInv, FeeMain, FlsMain, Driver, feeVars
<1>4. QED
  BY <1>1, <1>2, <1>3 DEF StackInv, RingOK, Serves, nvmVars

----------------------------------------------------------------------------
(* The theorems                                                            *)

\* The first start finds any medium.
LEMMA StackInitOK == StackInit => StackInv
<1> SUFFICES ASSUME StackInit PROVE StackInv
  OBVIOUS
<1>1. PICK image \in Media : InitOn(image)
  BY DEF StackInit
<1>2. image \in [Addr -> Cell]
  BY MediaAssumption
<1>3. FlsOK
  BY <1>1, <1>2, NoOpType, CellTypes
  DEF InitOn, FlsInit, FlsOK, FlsTypeOK, OpInBounds, BusyIffOp
<1>4. job \in Job /\ dir \in Dir /\ find \in Find /\ mig \in Mig
  BY <1>1, ZeroIndex, BlockAssumption, ClusterAssumption
  DEF InitOn, NoJob, NoDir, NoFind, NoMig, Job, Dir, Find, Mig, Kind, State, FindSub, Cluster
<1>5. Payload(Zero) \in [DataIdx -> Cell]
  BY PayloadType, ValueAssumption
<1>6. FeeInv
  BY <1>1, <1>3, <1>4, <1>5
  DEF InitOn, FlsInit, FeeInv, TypeOK, FlsOK, State, RestWhenNotBusy, CursorOK, NoFind,
      DriverBusyOnlyForWaiter
<1>7. RingOK
  <2>1. 0 \in Nvm!Slot /\ 0 \in Nvm!Block
    BY RingAssumption, Tables DEF Nvm!Slot, Nvm!Block
  <2>2. QED
    BY <2>1 DEF StackInit, RingOK, Nvm!NvmInit, Nvm!Current, Nvm!Entry, Nvm!Single, Nvm!Bulk
<1>8. QED
  BY <1>1, <1>6, <1>7 DEF StackInv, Serves, InitOn

\* Every step of the stack keeps the invariant.
LEMMA StackNextOK == StackInv /\ [StackNext]_stackVars => StackInv'
<1> SUFFICES ASSUME StackInv, [StackNext]_stackVars PROVE StackInv'
  OBVIOUS
<1>1. CASE UNCHANGED stackVars
  <2>1. FeeInv'
    BY <1>1, NextOK DEF StackInv, stackVars
  <2>2. QED
    BY <1>1, <2>1 DEF StackInv, RingOK, Serves, stackVars, nvmVars, vars, feeVars
<1>2. QED
  BY <1>1, QuietOK, BulkOK, StartNextOK, CancelJobsOK, StopOK, EndCurrentOK, WorkOK
  DEF StackNext, NvmMain

\* The invariant holds in every reachable state of the stack.
THEOREM StackInvariant == StackSpec => []StackInv
  BY StackInitOK, StackNextOK, PTL DEF StackSpec

\* While MiniNvm is in service MiniFee is busy only with its current job: whatever the
\* caller does, no job of a cancelled or deinitialized MiniNvm is taken for an answer
\* to a later request, and no job of MiniNvm is ever refused.
THEOREM StackServes == StackSpec => []StackServesCurrent
<1>1. StackInv => StackServesCurrent
  BY DEF StackInv, Serves, StackServesCurrent, Abstract!FeeServesCurrent, Abstract!Single, JobAsked
<1>2. QED
  BY <1>1, StackInvariant, PTL

\* Neither the types and table bounds of MiniFee nor the bounds of the flash jobs
\* depend on what the caller does to the buffers in use.
THEOREM StackInBounds == StackSpec => [](TypeOK /\ OpInBounds /\ DriverBusyOnlyForWaiter)
<1>1. StackInv => TypeOK /\ OpInBounds /\ DriverBusyOnlyForWaiter
  BY DEF StackInv, FeeInv, FlsOK
<1>2. QED
  BY <1>1, StackInvariant, PTL

===============================================================================
