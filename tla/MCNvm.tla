-------------------------------- MODULE MCNvm --------------------------------
(***************************************************************************)
(* MiniNvm with a caller of bounded energy: so many requests and stops     *)
(* (cancellations, initializations, deinitializations).                    *)
(***************************************************************************)
EXTENDS NvmOnStore

CONSTANTS MaxCalls, MaxStops

VARIABLES
  budget,    \* what is left of each
  given,     \* history variable: the data of the single write that is pending
  newest,    \* history variable: the data of the last write that was accepted
  touched    \* history variable: the blocks whose RAM buffer was written to
             \* while a request of them was pending

mcVars == <<vars, budget, given, newest, touched>>

\* Every block takes one data cell.
OneCell == [b \in 0 .. BlockCount - 1 |-> 1]
\* The last block is empty.
LastEmpty == [b \in 0 .. BlockCount - 1 |-> IF b = BlockCount - 1 THEN 0 ELSE 1]
\* A table that MiniNvm_ValidateConfig accepts.
MCDescriptor == [b \in 0 .. BlockCount - 1 |-> [blockId |-> b + 1, miniFeeBlockId |-> b,
                                               dataCells |-> DataCells[b],
                                               hasRam |-> TRUE]]
\* The clusters are below BlockStore.
NoCluster == [k \in 0 .. 0 |-> 1]

MCInit ==
  /\ NvmInit /\ Fee!Init
  /\ budget = [calls |-> MaxCalls, stops |-> MaxStops]
  /\ given = [b \in Block |-> Zeros(b)]
  /\ touched = {}
  /\ newest = given

Spend(what) == budget[what] > 0 /\ budget' = [budget EXCEPT ![what] = @ - 1]

Accepted(b) == count' = count + 1 /\ queue'[tail] = [op |-> "WRITE", block |-> b]

Given == given' = [b \in Block |-> IF Accepted(b) THEN DataOf(b, dataBuf')
                                  ELSE IF blockResult'[b] = "PENDING" THEN given[b] ELSE Zeros(b)]

MCMain == Main /\ UNCHANGED <<budget, newest, touched>> /\ Given
MCFeeWorks == FeeWorks /\ UNCHANGED <<budget, newest, touched>> /\ Given

MCStop ==
  /\ CancelJobs \/ Init \/ DeInit
  /\ Spend("stops")
  /\ UNCHANGED <<newest, touched>> /\ Given

MCWriteBlock(b, v) ==
  /\ MiniNvm_WriteBlock(b, v) \/ MiniNvm_WriteBlockSame(b, v)
  /\ newest' = [newest EXCEPT ![b] = [i \in 0 .. DataCells[b] - 1 |-> v]]
  /\ touched' = touched \ {b}
  /\ UNCHANGED feeVars

MCWriteRam(b, v, len) ==
  /\ MiniNvm_WriteRam(b, v, len)
  /\ newest' = [newest EXCEPT ![b] = DataOf(b, ram'[b])]
  /\ touched' = IF IsBlockPending(b) THEN touched \cup {b} ELSE touched \ {b}
  /\ UNCHANGED feeVars

MCWriteAll == WriteAll /\ touched' = touched \ Offered /\ UNCHANGED newest

MCNoWrite ==
  /\ \/ \E b \in Block : MiniNvm_ReadBlock(b) /\ UNCHANGED feeVars
     \/ \E b \in Block, v \in Value : MiniNvm_WriteBlockRefused(b, v) /\ UNCHANGED feeVars
     \/ ReadAll
  /\ UNCHANGED <<newest, touched>>

MCCall ==
  /\ Spend("calls")
  /\ \/ \E b \in Block, v \in Value : MCWriteBlock(b, v)
     \/ \E b \in Block, v \in Value : \E len \in 0 .. DataCells[b] : MCWriteRam(b, v, len)
     \/ MCWriteAll \/ MCNoWrite
  /\ Given

MCNext == MCCall \/ MCStop \/ MCMain \/ MCFeeWorks

MCSpec == MCInit /\ [][MCNext]_mcVars

MCLiveSpec == MCSpec /\ WF_mcVars(MCMain) /\ WF_mcVars(MCFeeWorks)

----------------------------------------------------------------------------
(* Properties that need the history variables                              *)

Cleared(b) == current.valid /\ ~current'.valid /\ initialized' /\ dirty[b] /\ ~dirty'[b]

\* A WriteAll clears the dirty flag of a block only if what its RAM buffer held
\* is stored, for all blocks that nobody wrote to during the job.
BulkWriteSaves ==
  [][\A b \in Block :
       current.op = "WRITEALL" /\ Cleared(b) /\ multiResult' # "IDLE" /\ b \notin touched
         => DataOf(b, ram[b]) = store[b]]_mcVars

\* SDD 5.5: the dirty flag of a block is cleared once it was written back, and a
\* change made through WriteRam is saved by WriteAll.  The end of a write clears
\* the flag of a block only if what was written to the block last is stored.
ClearsOnlySaved ==
  [][\A b \in Block : Cleared(b) /\ multiResult' # "IDLE" => store[b] = newest[b]]_mcVars

\* MiniNvm.c:633 (a write of what the RAM buffer holds changes nothing), SDD 5.5
\* (the dirty flag is kept for a retry): a block that is not dirty and has no
\* request pending is stored as it was last written, unless its RAM buffer was
\* written to while a request of it was pending.
CleanMeansStored ==
  \A b \in Block \ touched :
    initialized /\ ~IsBlockPending(b) /\ ~dirty[b] => store[b] = newest[b]

\* MiniNvm.h: the data of a single write is a snapshot of the moment it was
\* queued.  A write that ends OK has stored the data it was given.
SnapshotStored ==
  [][\A b \in Block :
       CurrentIs("WRITE") /\ current.block = b
       /\ blockResult[b] = "PENDING" /\ blockResult'[b] = "OK"
         => store[b] = given[b]]_mcVars
=============================================================================
