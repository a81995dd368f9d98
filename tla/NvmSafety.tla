------------------------------ MODULE NvmSafety ------------------------------
(***************************************************************************)
(* What must hold of MiniNvm.                                              *)
(***************************************************************************)
EXTENDS MiniNvm

VARIABLES store, job   \* of the layer below: what is durable, the job in progress

CurrentIs(op) == current.valid /\ current.op = op

\* A block's result is PENDING exactly while one request of it waits in the
\* ring or is the current job, never two; the overall result exactly while a job
\* for all blocks is current.  No answer is missing, none comes twice.
PendingIffWaiting ==
  /\ \A b \in Block :
       blockResult[b] = "PENDING" <=>
         \/ current.valid /\ current.op \in Single /\ current.block = b
         \/ \E i \in Queued : queue[i].block = b
  /\ \A i, j \in Queued : queue[i].block = queue[j].block => i = j
  /\ current.valid => \A i \in Queued : queue[i].block # current.block
  /\ multiResult = "PENDING" <=> current.valid /\ current.op \in Bulk

\* While the module is in service MiniFee is busy only with the current job: the
\* status it reports is an answer to that job, and no start is ever refused.
FeeServesCurrent ==
  initialized /\ status = "BUSY" =>
    /\ current.valid
    /\ job.kind = current.op
    /\ current.op \in Single => job.blockNumber = current.block

\* MiniNvm_ReadAll that ends OK has loaded the RAM buffers: those that nobody
\* marked dirty hold what is stored.
BulkReadLoads ==
  [][CurrentIs("READALL") /\ multiResult' = "OK" =>
       \A b \in Block : ~dirty[b] => DataOf(b, ram[b]) = store[b]]_<<nvmVars, memory, status, store, job>>

----------------------------------------------------------------------------
(* Liveness                                                                *)

\* Every accepted request is answered.
EveryRequestAnswered ==
  /\ \A b \in Block : blockResult[b] = "PENDING" ~> blockResult[b] # "PENDING"
  /\ multiResult = "PENDING" ~> multiResult # "PENDING"
=============================================================================
