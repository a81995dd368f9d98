------------------------------ MODULE NvmOnStore ------------------------------
(***************************************************************************)
(* MiniNvm above what MiniFee promises (BlockStore), with a caller who may *)
(* call anything at any moment.  Each function of MiniNvm that calls       *)
(* MiniFee is joined with what the call does there.                        *)
(***************************************************************************)
EXTENDS NvmSafety

VARIABLES late, left

feeVars == <<store, late, left, status, job>>
vars == <<nvmVars, memory, feeVars>>

Fee == INSTANCE BlockStore

\* A job for MiniFee, which refuses it while BUSY.
Ask(op, b) == IF status # "BUSY" THEN Fee!Accept(op, b) ELSE UNCHANGED feeVars

ReadAll == MiniNvm_ReadAll /\ Ask("READALL", 0)

WriteAll ==
  /\ MiniNvm_WriteAll
  /\ IF Offered # {} THEN Ask("WRITEALL", 0) ELSE UNCHANGED feeVars

\* MiniFee has nothing to do for an empty block.
StartNext ==
  LET entry == queue[head]
  IN  /\ StartCurrent
      /\ IF DataCells[entry.block] # 0 THEN Ask(entry.op, entry.block)
         ELSE UNCHANGED feeVars

\* Mutant: MiniFee is left to its job.
CancelJobs_KeepsJob == MiniNvm_CancelJobs /\ UNCHANGED feeVars

CancelJobs ==
  /\ MiniNvm_CancelJobs
  /\ IF current.valid /\ status = "BUSY" THEN Fee!Cancel ELSE UNCHANGED feeVars

Init == MiniNvm_Init /\ Fee!Reset

\* A bulk write is no longer asked for any block; what the flash has begun to
\* store of it may still land.
DeInit ==
  /\ MiniNvm_DeInit
  /\ UNCHANGED <<store, status, job>>
  /\ left' = left \cap Fee!Asked'
  /\ \/ UNCHANGED late
     \/ /\ job.kind = "WRITEALL" /\ late = store
        /\ \E S \in SUBSET Fee!Targets : late' = Fee!Replaced(S)

Main == \/ StartNext
        \/ EndCurrent /\ UNCHANGED feeVars

FeeWorks == Fee!Work /\ UNCHANGED nvmVars

Calls == \/ Call /\ UNCHANGED feeVars
         \/ ReadAll \/ WriteAll

NvmNext == Calls \/ CancelJobs \/ Init \/ DeInit \/ Main \/ FeeWorks

NvmSpec == NvmInit /\ Fee!Init /\ [][NvmNext]_vars

----------------------------------------------------------------------------
(* Refinement: MiniNvm implements RequestQueue                             *)

\* The requests in the ring, oldest first, and the job in progress.
Waiting == [i \in 1 .. count |-> queue[(head + i - 1) % QueueSize]]

Serving == IF ~current.valid THEN [op |-> "NONE", block |-> 0]
           ELSE [op |-> current.op,
                 block |-> IF current.op \in Bulk THEN 0 ELSE current.block]

Requests == INSTANCE RequestQueue WITH waiting <- Waiting, serving <- Serving

\* The ring of requests with its indices, and the current job, are a queue whose
\* requests are served in order and answered once.
ImplementsRequestQueue == Requests!Spec
=============================================================================
