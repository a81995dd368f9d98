------------------------------- MODULE MiniNvm -------------------------------
(***************************************************************************)
(* The block manager (MiniNvm.c): a ring of single-block requests, one job *)
(* at a time in MiniFee, and jobs for all blocks that bypass the ring.     *)
(* Blocks have their MiniFee numbers, one below the MiniNvm ones.          *)
(*                                                                         *)
(* The module is a component: of the layer below it reads status, what     *)
(* MiniFee_GetStatus returns, and it shares dataBuf (DataBuf, the one      *)
(* buffer of all single-block requests), ram (the RAM buffers) and dirty   *)
(* (the dirty flags), where MiniFee and its callbacks read and write.  An  *)
(* action that calls MiniFee says what MiniNvm does about it; the modules  *)
(* that set MiniNvm on a layer (NvmOnStore, Stack) join it with the action *)
(* of that layer.                                                          *)
(***************************************************************************)
EXTENDS FeeFormat

CONSTANTS
  QueueSize,        \* MININVM_QUEUE_SIZE
  BlockDescriptor   \* MiniNvm_BlockDescriptor, one record for each block

ASSUME QueueAssumption == QueueSize \in Nat \ {0}

ASSUME DescriptorAssumption ==
  BlockDescriptor \in [Block -> [blockId : Nat, miniFeeBlockId : Nat, dataCells : Nat,
                                hasRam : BOOLEAN]]

VARIABLES
  initialized,
  current,             \* CurrentValid, CurrentOperation, CurrentBlockId
  queue, head, tail, count,
  blockResult, multiResult,
  target,              \* target[b]: where the caller wants block b read to
  status,              \* of MiniFee
  dataBuf, ram, dirty

queueVars == <<queue, head, tail, count>>
resultVars == <<blockResult, multiResult>>
nvmVars == <<initialized, current, queueVars, resultVars, target>>
memory == <<dataBuf, ram, dirty>>

Slot   == 0 .. QueueSize - 1
Single == {"READ", "WRITE"}
Bulk   == {"READALL", "WRITEALL"}
Result == {"IDLE", "PENDING", "OK", "NOT_OK"}
Data   == [DataIdx -> Cell]

Entry   == [op : Single, block : Block]
Current == [valid : BOOLEAN, op : Single \cup Bulk, block : Block]

\* Every variable holds a value of its C type, every index stays in its array.
NvmTypeOK ==
  /\ initialized \in BOOLEAN
  /\ current \in Current
  /\ queue \in [Slot -> Entry]
  /\ head \in Slot /\ tail \in Slot /\ count \in 0 .. QueueSize
  /\ blockResult \in [Block -> Result]
  /\ multiResult \in Result
  /\ target \in [Block -> Data]
  /\ dataBuf \in Data /\ ram \in [Block -> Data] /\ dirty \in [Block -> BOOLEAN]
  /\ status \in {"IDLE", "BUSY", "OK", "NOT_OK"}

----------------------------------------------------------------------------
(* Helpers                                                                 *)

\* Mutant: an index past the end is not taken back to the front.
After_NoWrap(i) == i + 1

After(i) == IF i + 1 >= QueueSize THEN 0 ELSE i + 1

\* The slots in use.
Queued == {(head + i) % QueueSize : i \in 0 .. count - 1}

\* MiniNvm_ValidateConfig: the descriptors agree with the block table of MiniFee.
ValidateConfig ==
  \A b \in Block : /\ BlockDescriptor[b].blockId = b + 1
                   /\ BlockDescriptor[b].miniFeeBlockId = b
                   /\ BlockDescriptor[b].dataCells = DataCells[b]
                   /\ BlockDescriptor[b].hasRam

\* MiniNvm_WriteAllCallback: the blocks for which it returns a pointer.
Offered == {b \in Block : dirty[b]}

\* MiniNvm_IsBlockPending
IsBlockPending(b) ==
  \/ current.valid /\ (current.op \in Bulk \/ current.block = b)
  \/ \E i \in Queued : queue[i].block = b

\* len cells of v and then zeros.
Padded(b, v, len) ==
  [i \in DataIdx |-> IF i < len THEN v ELSE IF i < DataCells[b] THEN Zero ELSE ram[b][i]]

\* MiniNvm_Enqueue, when there is room; the data of a write goes to DataBuf at once.
Enqueue(op, b) ==
  /\ count < QueueSize
  /\ queue' = [queue EXCEPT ![tail] = [op |-> op, block |-> b]]
  /\ tail' = After(tail)
  /\ count' = count + 1
  /\ blockResult' = [blockResult EXCEPT ![b] = "PENDING"]
  /\ UNCHANGED <<initialized, current, head, multiResult, target, ram>>

\* Mutant: the head stays where it was.
ClearQueue_KeepsHead == tail' = 0 /\ count' = 0 /\ UNCHANGED <<queue, head>>

ClearQueue == head' = 0 /\ tail' = 0 /\ count' = 0 /\ UNCHANGED queue

----------------------------------------------------------------------------
(* API                                                                     *)

MiniNvm_ReadBlock(b) ==
  /\ initialized
  /\ ~IsBlockPending(b)
  /\ Enqueue("READ", b)
  /\ UNCHANGED <<dataBuf, dirty>>

\* A write of what the RAM buffer holds already is accepted and dropped.
IsChange(b, v) == \E i \in 0 .. DataCells[b] - 1 : ram[b][i] # v

MiniNvm_WriteBlockSame(b, v) ==
  /\ initialized
  /\ ~IsBlockPending(b)
  /\ ~IsChange(b, v)
  /\ UNCHANGED <<nvmVars, memory>>

\* The RAM buffer itself is left as it was.
MiniNvm_WriteBlock(b, v) ==
  /\ initialized
  /\ ~IsBlockPending(b)
  /\ IsChange(b, v)
  /\ Enqueue("WRITE", b)
  /\ dirty' = [dirty EXCEPT ![b] = TRUE]
  /\ dataBuf' = [i \in DataIdx |-> IF i < DataCells[b] THEN v ELSE dataBuf[i]]

\* The queue is full: E_NOT_OK, but the block is dirty all the same.
MiniNvm_WriteBlockRefused(b, v) ==
  /\ initialized
  /\ ~IsBlockPending(b)
  /\ IsChange(b, v)
  /\ count >= QueueSize
  /\ dirty' = [dirty EXCEPT ![b] = TRUE]
  /\ UNCHANGED <<nvmVars, dataBuf, ram>>

\* ReadAll and WriteAll hand their job to MiniFee themselves, which takes it
\* unless it is BUSY.
StartBulk(op) ==
  LET taken == status # "BUSY"
  IN  /\ current' = [current EXCEPT !.valid = taken, !.op = op]
      /\ multiResult' = IF taken THEN "PENDING" ELSE "NOT_OK"

NoJobs == ~current.valid /\ count = 0

MiniNvm_ReadAll ==
  /\ initialized
  /\ NoJobs
  /\ ram' = [b \in Block |-> Padded(b, Zero, 0)]
  /\ UNCHANGED <<initialized, queueVars, blockResult, target, dataBuf, dirty>>
  /\ StartBulk("READALL")

MiniNvm_WriteAll ==
  /\ initialized
  /\ NoJobs
  /\ UNCHANGED <<initialized, queueVars, blockResult, target, dataBuf, ram, dirty>>
  /\ IF Offered # {} THEN StartBulk("WRITEALL")
     ELSE multiResult' = "OK" /\ UNCHANGED current

\* Neither asks whether the module is initialized or a job in progress.
MiniNvm_WriteRam(b, v, len) ==
  /\ Padded(b, v, len) # ram[b]
  /\ ram' = [ram EXCEPT ![b] = Padded(b, v, len)]
  /\ dirty' = [dirty EXCEPT ![b] = TRUE]
  /\ UNCHANGED <<nvmVars, dataBuf>>

\* The results a failed or cancelled current job leaves.
Failed(b) ==
  /\ current.valid
  /\ CASE current.op = "READALL"  -> TRUE
       [] current.op = "WRITEALL" -> dirty[b]
       [] OTHER                   -> b = current.block

\* Mutant: the requests that wait get no answer.
MiniNvm_CancelJobs_Silent ==
  /\ initialized
  /\ current' = [current EXCEPT !.valid = FALSE]
  /\ blockResult' = [b \in Block |-> IF Failed(b) THEN "NOT_OK" ELSE blockResult[b]]
  /\ multiResult' = IF NoJobs THEN multiResult ELSE "NOT_OK"
  /\ ClearQueue
  /\ UNCHANGED <<initialized, target, memory>>

\* With no job it only takes head and tail back to the front (and answers E_OK).
\* The job that MiniFee may be at for the current one is cancelled with it.
MiniNvm_CancelJobs ==
  /\ initialized
  /\ current' = [current EXCEPT !.valid = FALSE]
  /\ blockResult' = [b \in Block |-> IF Failed(b) \/ \E i \in Queued : queue[i].block = b
                                     THEN "NOT_OK" ELSE blockResult[b]]
  /\ multiResult' = IF NoJobs THEN multiResult ELSE "NOT_OK"
  /\ ClearQueue
  /\ UNCHANGED <<initialized, target, memory>>

\* MiniNvm_Init and MiniNvm_DeInit, what they share.
ResetNvm(init) ==
  /\ initialized' = init
  /\ current' = [current EXCEPT !.valid = FALSE]
  /\ ClearQueue
  /\ multiResult' = "IDLE"
  /\ blockResult' = [b \in Block |-> "IDLE"]
  /\ dirty' = [b \in Block |-> FALSE]

\* MiniNvm_Init resets MiniFee too.  Called again it finds the memory as it is,
\* at a start of the program the memory is zero.
MiniNvm_Init ==
  /\ ResetNvm(ValidateConfig)
  /\ \/ UNCHANGED <<target, dataBuf, ram>>
     \/ /\ dataBuf' = [i \in DataIdx |-> Zero]
        /\ ram' = [b \in Block |-> [i \in DataIdx |-> Zero]]
        /\ target' = ram'

\* MiniFee is left to its job.
MiniNvm_DeInit == ResetNvm(FALSE) /\ UNCHANGED <<target, dataBuf, ram>>

----------------------------------------------------------------------------
(* MiniNvm_MainFunction                                                    *)

\* MiniNvm_StartCurrent: the oldest request goes to MiniFee, which takes it
\* unless it is BUSY.
StartCurrent ==
  LET entry == queue[head]
      taken == status # "BUSY"
  IN
  /\ initialized
  /\ ~current.valid
  /\ count # 0
  /\ head' = After(head)
  /\ count' = count - 1
  /\ current' = [valid |-> taken, op |-> entry.op, block |-> entry.block]
  /\ blockResult' = IF taken THEN blockResult
                    ELSE [blockResult EXCEPT ![entry.block] = "NOT_OK"]
  /\ UNCHANGED <<initialized, queue, tail, multiResult, target, memory>>

\* Mutant: a job that has ended has succeeded.
Answer_AnyEnd == IF status # "IDLE" THEN "OK" ELSE "NOT_OK"

Answer == IF status = "OK" THEN "OK" ELSE "NOT_OK"

\* Mutant: only a success ends the job.
Finished_OkOnly ==
  /\ initialized
  /\ current.valid
  /\ status = "OK"
  /\ current' = [current EXCEPT !.valid = FALSE]
  /\ UNCHANGED <<initialized, queueVars, dataBuf, ram>>

Finished ==
  /\ initialized
  /\ current.valid
  /\ status # "BUSY"
  /\ current' = [current EXCEPT !.valid = FALSE]
  /\ UNCHANGED <<initialized, queueVars, dataBuf, ram>>

\* MiniNvm_HandleCurrentResult, MiniNvm_FinishCurrent
HandleCurrentResult ==
  LET b == current.block
  IN
  /\ Finished
  /\ current.op \in Single
  /\ blockResult' = [blockResult EXCEPT ![b] = Answer]
  /\ dirty' = [dirty EXCEPT ![b] = @ /\ ~(current.op = "WRITE" /\ status = "OK")]
  /\ target' = IF current.op = "READ" /\ status = "OK"
               THEN [target EXCEPT ![b] = [i \in DataIdx |-> IF i < DataCells[b]
                                                             THEN dataBuf[i] ELSE @[i]]]
               ELSE target
  /\ UNCHANGED multiResult

FinishReadAll ==
  /\ Finished
  /\ current.op = "READALL"
  /\ blockResult' = [b \in Block |-> Answer]
  /\ multiResult' = Answer
  /\ UNCHANGED <<target, dirty>>

\* Mutant: the dirty flags of a job that failed are cleared.
FinishWriteAll_ClearsAlways ==
  /\ Finished
  /\ current.op = "WRITEALL"
  /\ blockResult' = [b \in Block |-> IF dirty[b] THEN Answer ELSE blockResult[b]]
  /\ dirty' = [b \in Block |-> FALSE]
  /\ multiResult' = Answer
  /\ UNCHANGED target

FinishWriteAll ==
  /\ Finished
  /\ current.op = "WRITEALL"
  /\ blockResult' = [b \in Block |-> IF dirty[b] THEN Answer ELSE blockResult[b]]
  /\ dirty' = [b \in Block |-> dirty[b] /\ status # "OK"]
  /\ multiResult' = Answer
  /\ UNCHANGED target

\* MiniNvm_MainFunction when a job is current.
EndCurrent == HandleCurrentResult \/ FinishReadAll \/ FinishWriteAll

----------------------------------------------------------------------------

\* The calls of the caller that MiniFee hears nothing of.
Call ==
  \/ \E b \in Block : MiniNvm_ReadBlock(b)
  \/ \E b \in Block, v \in Value : MiniNvm_WriteBlock(b, v)
  \/ \E b \in Block, v \in Value : MiniNvm_WriteBlockRefused(b, v)
  \/ \E b \in Block, v \in Value : \E len \in 0 .. DataCells[b] : MiniNvm_WriteRam(b, v, len)

NvmInit ==
  /\ initialized = ValidateConfig
  /\ current = [valid |-> FALSE, op |-> "READ", block |-> 0]
  /\ queue = [i \in Slot |-> [op |-> "READ", block |-> 0]]
  /\ head = 0 /\ tail = 0 /\ count = 0
  /\ blockResult = [b \in Block |-> "IDLE"]
  /\ multiResult = "IDLE"
  /\ target = [b \in Block |-> [i \in DataIdx |-> Zero]]
=============================================================================
