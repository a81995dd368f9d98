------------------------------ MODULE NvmProof ------------------------------
(***************************************************************************)
(* Proofs about MiniNvm above the abstract store, for every block table    *)
(* and every size of the ring: its types, that each request is answered    *)
(* once, and that MiniFee is busy only with the current job.               *)
(***************************************************************************)
EXTENDS NvmOnStore, TLAPS

\* Where the next request goes: behind the last one, around the end of the ring.
TailBehind == tail = IF head + count < QueueSize THEN head + count
                     ELSE head + count - QueueSize

\* What the layer below keeps is of its type.
StoreOK == /\ \A b \in Block : store[b] \in Content(b) /\ late[b] \in Content(b)
           /\ job.blockNumber \in Block

\* Slot x is in use, without a remainder.
InUse(x) == x \in Slot /\ IF x >= head THEN x - head < count
                          ELSE x + QueueSize - head < count

USE BlockAssumption, ClusterAssumption, ValueAssumption, QueueAssumption

----------------------------------------------------------------------------
(* The ring                                                                *)

\* The remainder that the indices of the ring take.
LEMMA Around ==
  \A h, i \in Slot : (h + i) % QueueSize = IF h + i < QueueSize THEN h + i
                                           ELSE h + i - QueueSize
  BY DEF Slot

\* The slots in use, told without a remainder.
LEMMA QueuedSlots ==
  ASSUME head \in Slot, count \in 0 .. QueueSize
  PROVE  Queued = {x \in Slot : InUse(x)}
<1>1. \A i \in 0 .. count - 1 : i \in Slot
  BY DEF Slot
<1>2. ASSUME NEW x \in Queued PROVE x \in Slot /\ InUse(x)
  <2>1. PICK i \in 0 .. count - 1 : x = (head + i) % QueueSize
    BY DEF Queued
  <2>2. x = IF head + i < QueueSize THEN head + i ELSE head + i - QueueSize
    BY <1>1, <2>1, Around
  <2>3. QED
    BY <2>1, <2>2 DEF InUse, Slot
<1>3. ASSUME NEW x \in Slot, InUse(x) PROVE x \in Queued
  <2> DEFINE i == IF x >= head THEN x - head ELSE x + QueueSize - head
  <2>1. i \in 0 .. count - 1 /\ i \in Slot
    BY <1>3 DEF InUse, Slot
  <2>2. x = IF head + i < QueueSize THEN head + i ELSE head + i - QueueSize
    BY DEF Slot
  <2>3. (head + i) % QueueSize = IF head + i < QueueSize THEN head + i
                                 ELSE head + i - QueueSize
    <3> HIDE DEF i
    <3>1. QED
      BY <2>1, Around
  <2>4. QED
    BY <2>1, <2>2, <2>3 DEF Queued
<1>4. QED
  BY <1>2, <1>3

----------------------------------------------------------------------------
(* Buffers                                                                 *)

\* Everything a buffer may hold is a cell.
LEMMA BufferTypes ==
  /\ Zero \in Cell /\ Value \subseteq Cell
  /\ \A b \in Block : DataCells[b] \in Nat /\ DataCells[b] <= MaxDataCells
  /\ 0 \in Block
  BY DEF Cell, Block

\* The content of a block is as many cells as the block has.
LEMMA ContentTypes ==
  /\ \A b \in Block : Zeros(b) \in Content(b)
  /\ \A b \in Block, buf \in Data : DataOf(b, buf) \in Content(b)
  BY BufferTypes DEF Zeros, Content, DataOf, Data, DataIdx

\* A write to a RAM buffer leaves a buffer.
LEMMA PaddedType ==
  ASSUME NvmTypeOK, NEW b \in Block, NEW v \in Cell, NEW len \in Nat
  PROVE  Padded(b, v, len) \in Data
<1>1. ram[b] \in Data
  BY DEF NvmTypeOK
<1>2. QED
  BY <1>1, BufferTypes DEF Padded, Data

\* A delivery leaves a buffer.
LEMMA OverwriteType ==
  ASSUME StoreOK, NEW b \in Block, NEW buf \in Data
  PROVE  Fee!Overwrite(buf, b) \in Data
<1>1. store[b] \in Content(b)
  BY DEF StoreOK
<1>2. QED
  BY <1>1, BufferTypes DEF Fee!Overwrite, Fee!DataIdx, Data, DataIdx, Content

\* What a write job puts into the store are contents.
LEMMA ReplacedType ==
  ASSUME StoreOK, NvmTypeOK, NEW S
  PROVE  \A b \in Block : Fee!Replaced(S)[b] \in Content(b)
<1> SUFFICES ASSUME NEW b \in Block PROVE Fee!Replaced(S)[b] \in Content(b)
  OBVIOUS
<1>1. store[b] \in Content(b)
  BY DEF StoreOK
<1>2. Fee!NewData(b) \in Content(b)
  BY ContentTypes DEF Fee!NewData, Fee!DataOf, DataOf, NvmTypeOK
<1>3. QED
  BY <1>1, <1>2 DEF Fee!Replaced, Fee!Block, Block

\* The place after one in the ring is in the ring.
LEMMA AfterType == \A i \in Slot : After(i) \in Slot
  BY DEF After, Slot

----------------------------------------------------------------------------
(* Types                                                                   *)

\* What the type steps establish of the next state.
Typed == NvmTypeOK /\ TailBehind /\ StoreOK

\* The queue of requests, emptied.
LEMMA ClearQueueType ==
  Typed /\ ClearQueue =>
    /\ queue' \in [Slot -> Entry] /\ head' \in Slot /\ tail' \in Slot
    /\ count' \in 0 .. QueueSize /\ TailBehind'
  BY DEF Typed, NvmTypeOK, ClearQueue, TailBehind, Slot

\* A request put at the end of the ring.
LEMMA EnqueueType ==
  ASSUME Typed, NEW op \in Single, NEW b \in Block, Enqueue(op, b),
         dataBuf' \in Data, dirty' \in [Block -> BOOLEAN], UNCHANGED feeVars
  PROVE  Typed'
<1>1. /\ queue' \in [Slot -> Entry] /\ tail' \in Slot /\ count' \in 0 .. QueueSize
      /\ TailBehind'
  <2>1. [op |-> op, block |-> b] \in Entry
    BY DEF Entry
  <2>2. QED
    BY <2>1, AfterType DEF Typed, NvmTypeOK, TailBehind, Enqueue, After, Slot
<1>2. blockResult' \in [Block -> Result]
  BY DEF Typed, NvmTypeOK, Enqueue, Result
<1>3. NvmTypeOK'
  BY <1>1, <1>2 DEF Typed, NvmTypeOK, Enqueue, feeVars
<1>4. QED
  BY <1>1, <1>3 DEF Typed, StoreOK, feeVars

\* What a call of the layer below leaves of its type.
LEMMA AskType ==
  ASSUME Typed, NEW op, NEW b \in Block, Ask(op, b)
  PROVE  status' \in {"IDLE", "BUSY", "OK", "NOT_OK"} /\ UNCHANGED <<store, late>>
         /\ job'.blockNumber \in Block
  BY DEF Typed, NvmTypeOK, StoreOK, Ask, feeVars, Fee!Accept

\* A call of the caller keeps the types.
LEMMA CallsTyped == Typed /\ Calls => Typed'
<1> SUFFICES ASSUME Typed, Calls PROVE Typed'
  OBVIOUS
<1>1. CASE \E b \in Block : MiniNvm_ReadBlock(b) /\ UNCHANGED feeVars
  <2>1. PICK b \in Block : MiniNvm_ReadBlock(b) /\ UNCHANGED feeVars
    BY <1>1
  <2>2. dataBuf' \in Data /\ dirty' \in [Block -> BOOLEAN]
    BY <2>1 DEF MiniNvm_ReadBlock, Typed, NvmTypeOK
  <2>3. QED
    BY <2>1, <2>2, EnqueueType DEF MiniNvm_ReadBlock, Single
<1>2. CASE \E b \in Block, v \in Value : MiniNvm_WriteBlock(b, v) /\ UNCHANGED feeVars
  <2>1. PICK b \in Block, v \in Value : MiniNvm_WriteBlock(b, v) /\ UNCHANGED feeVars
    BY <1>2
  <2>2. dataBuf' \in Data /\ dirty' \in [Block -> BOOLEAN]
    BY <2>1, BufferTypes DEF MiniNvm_WriteBlock, Typed, NvmTypeOK, Data
  <2>3. QED
    BY <2>1, <2>2, EnqueueType DEF MiniNvm_WriteBlock, Single
<1>3. CASE \E b \in Block, v \in Value : MiniNvm_WriteBlockRefused(b, v) /\ UNCHANGED feeVars
  <2>1. PICK b \in Block, v \in Value : MiniNvm_WriteBlockRefused(b, v) /\ UNCHANGED feeVars
    BY <1>3
  <2>2. QED
    BY <2>1 DEF MiniNvm_WriteBlockRefused, Typed, NvmTypeOK, TailBehind, StoreOK,
                nvmVars, queueVars, resultVars, feeVars
<1>4. CASE \E b \in Block, v \in Value : \E len \in 0 .. DataCells[b] :
             MiniNvm_WriteRam(b, v, len) /\ UNCHANGED feeVars
  <2>1. PICK b \in Block, v \in Value : \E len \in 0 .. DataCells[b] :
               MiniNvm_WriteRam(b, v, len) /\ UNCHANGED feeVars
    BY <1>4
  <2> PICK len \in 0 .. DataCells[b] : MiniNvm_WriteRam(b, v, len) /\ UNCHANGED feeVars
    BY <2>1
  <2>2. Padded(b, v, len) \in Data
    BY BufferTypes, PaddedType DEF Typed
  <2>3. QED
    BY <2>2 DEF MiniNvm_WriteRam, Typed, NvmTypeOK, TailBehind, StoreOK,
                      nvmVars, queueVars, resultVars, feeVars
<1>5. CASE ReadAll
  <2>1. \A b \in Block : Padded(b, Zero, 0) \in Data
    BY BufferTypes, PaddedType DEF Typed
  <2>2. ram' \in [Block -> Data]
    BY <1>5, <2>1 DEF ReadAll, MiniNvm_ReadAll
  <2>3. /\ status' \in {"IDLE", "BUSY", "OK", "NOT_OK"} /\ UNCHANGED <<store, late>>
        /\ job'.blockNumber \in Block
    BY <1>5, AskType, BufferTypes DEF ReadAll
  <2>4. current' \in Current /\ multiResult' \in Result
    BY <1>5 DEF ReadAll, MiniNvm_ReadAll, StartBulk, Typed, NvmTypeOK, Current, Result, Bulk
  <2>5. QED
    BY <1>5, <2>2, <2>3, <2>4 DEF ReadAll, MiniNvm_ReadAll, Typed, NvmTypeOK, TailBehind,
                                  StoreOK, queueVars
<1>6. CASE WriteAll
  <2>1. /\ status' \in {"IDLE", "BUSY", "OK", "NOT_OK"} /\ UNCHANGED <<store, late>>
        /\ job'.blockNumber \in Block
    BY <1>6, AskType, BufferTypes DEF WriteAll, Typed, NvmTypeOK, StoreOK, feeVars
  <2>2. current' \in Current /\ multiResult' \in Result
    BY <1>6 DEF WriteAll, MiniNvm_WriteAll, StartBulk, Typed, NvmTypeOK, Current, Result, Bulk
  <2>3. QED
    BY <1>6, <2>1, <2>2 DEF WriteAll, MiniNvm_WriteAll, Typed, NvmTypeOK, TailBehind,
                            StoreOK, queueVars
<1>7. QED
  BY <1>1, <1>2, <1>3, <1>4, <1>5, <1>6 DEF Calls, Call

\* A cancellation, an initialization or a deinitialization keeps the types.
LEMMA StopsTyped == Typed /\ (CancelJobs \/ Init \/ DeInit) => Typed'
<1> SUFFICES ASSUME Typed, CancelJobs \/ Init \/ DeInit PROVE Typed'
  OBVIOUS
<1>1. CASE CancelJobs
  <2>1. /\ current' \in Current
        /\ blockResult' \in [Block -> Result] /\ multiResult' \in Result
    BY <1>1 DEF CancelJobs, MiniNvm_CancelJobs, Typed, NvmTypeOK, Current, Result
  <2>2. StoreOK' /\ status' \in {"IDLE", "BUSY", "OK", "NOT_OK"}
    <3>1. CASE UNCHANGED feeVars
      BY <3>1 DEF Typed, NvmTypeOK, StoreOK, feeVars
    <3>2. CASE Fee!Cancel
      BY <3>2, ReplacedType, BufferTypes DEF Typed, StoreOK, Fee!Cancel, Fee!NoneYet
    <3>3. QED
      BY <1>1, <3>1, <3>2 DEF CancelJobs
  <2>3. QED
    BY <1>1, <2>1, <2>2, ClearQueueType
    DEF CancelJobs, MiniNvm_CancelJobs, memory, Typed, NvmTypeOK
<1>2. CASE Init
  <2>1. ResetNvm(ValidateConfig) /\ ValidateConfig \in BOOLEAN
    BY <1>2 DEF Init, MiniNvm_Init, ValidateConfig
  <2>2. /\ current' \in Current /\ dirty' \in [Block -> BOOLEAN]
        /\ blockResult' \in [Block -> Result] /\ multiResult' \in Result
    BY <2>1 DEF ResetNvm, Typed, NvmTypeOK, Current, Result
  <2>3. StoreOK' /\ status' \in {"IDLE", "BUSY", "OK", "NOT_OK"}
    BY <1>2, BufferTypes DEF Init, Fee!Reset, Fee!NoneYet, Typed, StoreOK
  <2>4. target' \in [Block -> Data] /\ dataBuf' \in Data /\ ram' \in [Block -> Data]
    BY <1>2, BufferTypes DEF Init, MiniNvm_Init, Typed, NvmTypeOK, Data
  <2>5. ClearQueue /\ initialized' \in BOOLEAN
    BY <2>1 DEF ResetNvm
  <2>6. QED
    BY <2>2, <2>3, <2>4, <2>5, ClearQueueType DEF Typed, NvmTypeOK
<1>3. CASE DeInit
  <2>1. ResetNvm(FALSE) /\ UNCHANGED <<target, dataBuf, ram>>
    BY <1>3 DEF DeInit, MiniNvm_DeInit
  <2>2. /\ current' \in Current /\ dirty' \in [Block -> BOOLEAN]
        /\ blockResult' \in [Block -> Result] /\ multiResult' \in Result
    BY <2>1 DEF ResetNvm, Typed, NvmTypeOK, Current, Result
  <2>3. StoreOK' /\ status' \in {"IDLE", "BUSY", "OK", "NOT_OK"}
    BY <1>3, ReplacedType DEF DeInit, Typed, NvmTypeOK, StoreOK
  <2>4. ClearQueue /\ initialized' \in BOOLEAN
    BY <2>1 DEF ResetNvm
  <2>5. QED
    BY <2>1, <2>2, <2>3, <2>4, ClearQueueType DEF Typed, NvmTypeOK
<1>4. QED
  BY <1>1, <1>2, <1>3

\* The main function keeps the types.
LEMMA MainTyped == Typed /\ Main => Typed'
<1> SUFFICES ASSUME Typed, Main PROVE Typed'
  OBVIOUS
<1>1. CASE StartNext
  <2> DEFINE entry == queue[head]
  <2>1. entry \in Entry
    BY DEF Typed, NvmTypeOK
  <2>2. head' \in Slot /\ count' \in 0 .. QueueSize /\ TailBehind'
    BY <1>1, AfterType DEF StartNext, StartCurrent, Typed, NvmTypeOK, TailBehind, After, Slot
  <2>3. current' \in Current /\ blockResult' \in [Block -> Result]
    BY <1>1, <2>1 DEF StartNext, StartCurrent, Typed, NvmTypeOK, Current, Entry, Result
  <2>4. StoreOK' /\ status' \in {"IDLE", "BUSY", "OK", "NOT_OK"}
    <3>1. CASE UNCHANGED feeVars
      BY <3>1 DEF Typed, NvmTypeOK, StoreOK, feeVars
    <3>2. CASE Ask(entry.op, entry.block)
      BY <2>1, <3>2, AskType DEF Entry, Typed, StoreOK
    <3>3. QED
      BY <1>1, <3>1, <3>2 DEF StartNext
  <2>5. QED
    BY <1>1, <2>2, <2>3, <2>4 DEF StartNext, StartCurrent, memory, Typed, NvmTypeOK
<1>2. CASE EndCurrent /\ UNCHANGED feeVars
  <2>1. Finished
    BY <1>2 DEF EndCurrent, HandleCurrentResult, FinishReadAll, FinishWriteAll
  <2>2. current' \in Current
    BY <2>1 DEF Finished, Typed, NvmTypeOK, Current
  <2>3. Answer \in Result
    BY DEF Answer, Result
  <2>4. /\ blockResult' \in [Block -> Result] /\ multiResult' \in Result
        /\ dirty' \in [Block -> BOOLEAN] /\ target' \in [Block -> Data]
    <3>1. CASE HandleCurrentResult
      <4>1. \A b \in Block : [i \in DataIdx |-> IF i < DataCells[b] THEN dataBuf[i]
                                                ELSE target[b][i]] \in Data
        BY DEF Typed, NvmTypeOK, Data
      <4>2. target' \in [Block -> Data]
        BY <3>1, <4>1 DEF HandleCurrentResult, Typed, NvmTypeOK
      <4>3. blockResult' \in [Block -> Result] /\ multiResult' \in Result
        BY <2>3, <3>1 DEF HandleCurrentResult, Typed, NvmTypeOK
      <4>4. dirty' \in [Block -> BOOLEAN]
        BY <3>1, Zenon DEF HandleCurrentResult, Typed, NvmTypeOK
      <4>5. QED
        BY <4>2, <4>3, <4>4
    <3>2. CASE FinishReadAll
      BY <2>3, <3>2 DEF FinishReadAll, Typed, NvmTypeOK
    <3>3. CASE FinishWriteAll
      BY <2>3, <3>3 DEF FinishWriteAll, Typed, NvmTypeOK
    <3>4. QED
      BY <1>2, <3>1, <3>2, <3>3 DEF EndCurrent
  <2>5. QED
    BY <1>2, <2>1, <2>2, <2>4 DEF Finished, Typed, NvmTypeOK, TailBehind, StoreOK,
                                  queueVars, feeVars
<1>3. QED
  BY <1>1, <1>2 DEF Main

\* What MiniFee does by itself keeps the types.
LEMMA FeeWorksTyped == Typed /\ FeeWorks => Typed'
<1> SUFFICES ASSUME Typed, FeeWorks PROVE Typed'
  OBVIOUS
<1>1. /\ dataBuf' \in Data /\ ram' \in [Block -> Data] /\ dirty' = dirty
      /\ status' \in {"IDLE", "BUSY", "OK", "NOT_OK"} /\ StoreOK'
  <2>1. CASE Fee!Persist
    BY <2>1, ReplacedType DEF Fee!Persist, Fee!caller, Typed, NvmTypeOK, StoreOK
  <2>2. CASE Fee!DeliverOne
    BY <2>2, OverwriteType DEF Fee!DeliverOne, Typed, NvmTypeOK, StoreOK
  <2>3. CASE Fee!DeliverSome
    <3>1. PICK b \in left : ram' = [ram EXCEPT ![b] = Fee!Overwrite(@, b)]
      BY <2>3 DEF Fee!DeliverSome
    <3>2. ram' \in [Block -> Data]
      BY <3>1, OverwriteType DEF Typed, NvmTypeOK
    <3>3. QED
      BY <2>3, <3>2 DEF Fee!DeliverSome, Typed, NvmTypeOK, StoreOK
  <2>4. CASE Fee!EndOk \/ Fee!EndNotOk
    BY <2>4, BufferTypes DEF Fee!EndOk, Fee!EndNotOk, Fee!NoneYet, Fee!caller,
                             Typed, NvmTypeOK, StoreOK
  <2>5. CASE Fee!Land
    BY <2>5 DEF Fee!Land, Fee!caller, Typed, NvmTypeOK, StoreOK
  <2>6. QED
    BY <2>1, <2>2, <2>3, <2>4, <2>5 DEF FeeWorks, Fee!Work
<1>2. QED
  BY <1>1 DEF FeeWorks, Typed, NvmTypeOK, TailBehind, nvmVars, queueVars, resultVars

\* Every step keeps the types.
LEMMA TypedStep == Typed /\ [NvmNext]_vars => Typed'
<1>1. Typed /\ UNCHANGED vars => Typed'
  BY DEF vars, nvmVars, memory, feeVars, queueVars, resultVars,
         Typed, NvmTypeOK, TailBehind, StoreOK
<1>2. QED
  BY <1>1, CallsTyped, StopsTyped, MainTyped, FeeWorksTyped DEF NvmNext

----------------------------------------------------------------------------
(* One answer for each request                                             *)

\* A job for all blocks is alone in the module.
BulkAlone == current.valid /\ current.op \in Bulk => count = 0

\* A request of block b is in the ring.
InRing(b) == \E x \in Slot : InUse(x) /\ queue[x].block = b

\* PendingIffWaiting with the slots in use told without a remainder.
PendingIff ==
  /\ \A b \in Block :
       blockResult[b] = "PENDING" <=>
         \/ current.valid /\ current.op \in Single /\ current.block = b
         \/ InRing(b)
  /\ \A x, y \in Slot : InUse(x) /\ InUse(y) /\ queue[x].block = queue[y].block => x = y
  /\ current.valid => ~InRing(current.block)
  /\ multiResult = "PENDING" <=> current.valid /\ current.op \in Bulk

\* The invariant says the same whether slots are told with a remainder or without.
LEMMA PendingForms == Typed => (PendingIffWaiting <=> PendingIff)
<1> SUFFICES ASSUME Typed PROVE PendingIffWaiting <=> PendingIff
  OBVIOUS
<1>1. Queued = {x \in Slot : InUse(x)}
  BY QueuedSlots DEF Typed, NvmTypeOK
<1>2. QED
  BY <1>1 DEF PendingIffWaiting, PendingIff, InRing

\* A request that joins the ring is the only one of its block.
LEMMA EnqueuePending ==
  ASSUME Typed, Typed', PendingIff, NEW op \in Single, NEW b \in Block,
         ~IsBlockPending(b), Enqueue(op, b)
  PROVE  PendingIff'
<1>1. Queued = {x \in Slot : InUse(x)}
  BY QueuedSlots DEF Typed, NvmTypeOK
<1>2. ~InRing(b) /\ ~(current.valid /\ (current.op \in Bulk \/ current.block = b))
  BY <1>1 DEF IsBlockPending, InRing
<1> /\ head \in Slot /\ tail \in Slot /\ count \in 0 .. QueueSize - 1
    /\ head' = head /\ count' = count + 1
    /\ TailBehind
  BY DEF Typed, NvmTypeOK, Enqueue
<1>3. \A x \in Slot : InUse(x)' <=> InUse(x) \/ x = tail
  BY DEF TailBehind, InUse, Slot
<1>4. ~InUse(tail) /\ tail \in Slot
  BY DEF TailBehind, InUse, Slot
<1>5. \A x \in Slot : queue'[x].block = IF x = tail THEN b ELSE queue[x].block
  BY <1>4 DEF Typed, NvmTypeOK, Enqueue
<1>6. \A c \in Block : InRing(c)' <=> InRing(c) \/ c = b
  BY <1>3, <1>4, <1>5 DEF InRing
<1>7. \A c \in Block : blockResult'[c] = IF c = b THEN "PENDING" ELSE blockResult[c]
  BY DEF Typed, NvmTypeOK, Enqueue
<1>8. \A x, y \in Slot : InUse(x)' /\ InUse(y)' /\ queue'[x].block = queue'[y].block => x = y
  BY <1>2, <1>3, <1>5 DEF PendingIff, InRing
<1>9. current.block \in Block /\ UNCHANGED <<current, multiResult>>
  BY DEF Typed, NvmTypeOK, Current, Enqueue
<1>10. QED
  BY <1>2, <1>6, <1>7, <1>8, <1>9 DEF PendingIff

\* An empty ring and no job: nothing is pending.
LEMMA NothingPending ==
  ASSUME Typed, count = 0, ~current.valid, multiResult # "PENDING",
         \A b \in Block : blockResult[b] # "PENDING"
  PROVE  PendingIff
<1>1. \A x \in Slot : ~InUse(x)
  BY DEF InUse, Slot, Typed, NvmTypeOK
<1>2. QED
  BY <1>1 DEF PendingIff, InRing

\* No slot is in use in a ring without requests, wherever its head is.
LEMMA EmptyRing ==
  ASSUME NEW h \in Slot, NEW n, n = 0, NEW x \in Slot
  PROVE  ~(IF x >= h THEN x - h < n ELSE x + QueueSize - h < n)
  BY DEF Slot

\* What concerns neither ring, current job nor results.
LEMMA PendingFrame ==
  ASSUME PendingIff, UNCHANGED <<current, queue, head, count, blockResult, multiResult>>
  PROVE  PendingIff'
  BY DEF PendingIff, InRing, InUse

\* The oldest request leaves the ring and becomes current, or is refused.
LEMMA StartPending == ASSUME Typed, PendingIff, StartCurrent PROVE PendingIff'
<1> DEFINE first == queue[head]
<1>1. /\ head \in Slot /\ count \in 1 .. QueueSize /\ ~current.valid
      /\ head' = After(head) /\ count' = count - 1
      /\ queue' = queue /\ multiResult' = multiResult /\ first \in Entry
  BY DEF Typed, NvmTypeOK, StartCurrent
<1>2. \A x \in Slot : InUse(x)' <=> InUse(x) /\ x # head
  BY <1>1 DEF InUse, Slot, After
<1>3. InUse(head)
  BY <1>1 DEF InUse, Slot
<1>4. \A c \in Block : InRing(c)' <=> InRing(c) /\ c # first.block
  BY <1>1, <1>2, <1>3 DEF InRing, PendingIff
<1>5. first.op \in Single /\ first.op \notin Bulk /\ first.block \in Block
  BY <1>1 DEF Entry, Single, Bulk
<1>6. multiResult # "PENDING"
  BY <1>1 DEF PendingIff
<1>7. \A x, y \in Slot : InUse(x)' /\ InUse(y)' /\ queue'[x].block = queue'[y].block => x = y
  BY <1>1, <1>2 DEF PendingIff
<1>8. \A c \in Block : blockResult[c] = "PENDING" <=> InRing(c)
  BY <1>1 DEF PendingIff
<1>9. InRing(first.block)
  BY <1>1, <1>3 DEF InRing
<1>10. CASE status # "BUSY"
  <2>1. /\ current'.valid /\ current'.op = first.op /\ current'.block = first.block
        /\ blockResult' = blockResult
    BY <1>10 DEF StartCurrent
  <2>2. QED
    BY <1>1, <1>4, <1>5, <1>6, <1>7, <1>8, <1>9, <2>1 DEF PendingIff
<1>11. CASE status = "BUSY"
  <2>1. ~current'.valid
    BY <1>11 DEF StartCurrent
  <2>2. \A c \in Block : blockResult'[c] = IF c = first.block THEN "NOT_OK" ELSE blockResult[c]
    BY <1>11 DEF StartCurrent, Typed, NvmTypeOK
  <2>3. QED
    BY <1>1, <1>4, <1>5, <1>6, <1>7, <1>8, <2>1, <2>2 DEF PendingIff
<1>12. QED
  BY <1>10, <1>11

\* The current job ends and its request has its answer.
LEMMA EndPending ==
  ASSUME Typed, PendingIff, BulkAlone, EndCurrent
  PROVE  PendingIff'
<1>1. /\ Finished /\ ~current'.valid /\ current.valid
      /\ UNCHANGED <<queue, head, count>>
  <2>1. Finished
    BY DEF EndCurrent, HandleCurrentResult, FinishReadAll, FinishWriteAll
  <2>2. QED
    BY <2>1 DEF Finished, queueVars, Typed, NvmTypeOK, Current
<1>2. \A c \in Block : InRing(c)' <=> InRing(c)
  BY <1>1 DEF InRing, InUse
<1>3. \A x, y \in Slot : InUse(x)' /\ InUse(y)' /\ queue'[x].block = queue'[y].block => x = y
  BY <1>1 DEF PendingIff, InUse
<1>4. Answer # "PENDING"
  BY DEF Answer
<1>5. current.block \in Block /\ current.op \in Single \cup Bulk
  BY DEF Typed, NvmTypeOK, Current
<1>6. CASE HandleCurrentResult
  <2>1. current.op \in Single /\ current.op \notin Bulk /\ multiResult' = multiResult
    BY <1>6 DEF HandleCurrentResult, Single, Bulk
  <2>2. \A c \in Block : blockResult'[c] = IF c = current.block THEN Answer ELSE blockResult[c]
    BY <1>6 DEF HandleCurrentResult, Typed, NvmTypeOK
  <2>3. QED
    BY <1>1, <1>2, <1>3, <1>4, <1>5, <2>1, <2>2 DEF PendingIff
<1>7. CASE FinishReadAll \/ FinishWriteAll
  <2>1. current.op \in Bulk /\ current.op \notin Single /\ multiResult' = Answer
    BY <1>7 DEF FinishReadAll, FinishWriteAll, Single, Bulk
  <2>2. \A c \in Block : blockResult'[c] = Answer \/ blockResult'[c] = blockResult[c]
    BY <1>7 DEF FinishReadAll, FinishWriteAll
  <2>3. \A c \in Block : ~InRing(c)
    <3>1. count = 0
      BY <1>1, <2>1 DEF BulkAlone
    <3>2. QED
      BY <3>1 DEF InRing, InUse, Slot, Typed, NvmTypeOK
  <2>4. QED
    BY <1>1, <1>2, <1>3, <1>4, <2>1, <2>2, <2>3 DEF PendingIff
<1>8. QED
  BY <1>6, <1>7 DEF EndCurrent

\* A call keeps requests and answers together.
LEMMA CallsPending ==
  ASSUME Typed, Typed', PendingIff, BulkAlone, Calls
  PROVE  PendingIff' /\ BulkAlone'
<1>1. CASE \E b \in Block, op \in Single : ~IsBlockPending(b) /\ Enqueue(op, b)
  <2>1. PICK b \in Block, op \in Single : ~IsBlockPending(b) /\ Enqueue(op, b)
    BY <1>1
  <2>2. PendingIff'
    BY <2>1, EnqueuePending
  <2>3. ~(current.valid /\ current.op \in Bulk) /\ current' = current
    BY <2>1 DEF IsBlockPending, Enqueue
  <2>4. QED
    BY <2>2, <2>3 DEF BulkAlone
<1>2. CASE UNCHANGED nvmVars
  BY <1>2, PendingFrame DEF nvmVars, queueVars, resultVars, BulkAlone
<1>3. CASE MiniNvm_ReadAll \/ MiniNvm_WriteAll
  <2>1. /\ ~current.valid /\ count = 0 /\ multiResult # "PENDING"
        /\ UNCHANGED <<queue, head, count, blockResult>>
    BY <1>3 DEF MiniNvm_ReadAll, MiniNvm_WriteAll, NoJobs, queueVars, PendingIff
  <2>2. \A x \in Slot : ~InUse(x) /\ ~InUse(x)'
    BY <2>1 DEF InUse, Slot, Typed, NvmTypeOK
  <2>3. \A b \in Block : blockResult'[b] # "PENDING"
    BY <2>1, <2>2 DEF PendingIff, InRing
  <2>4. \/ ~current'.valid /\ multiResult' # "PENDING"
        \/ current'.valid /\ current'.op \in Bulk /\ current'.op \notin Single
           /\ multiResult' = "PENDING"
    BY <1>3, <2>1 DEF MiniNvm_ReadAll, MiniNvm_WriteAll, StartBulk, Bulk, Single,
                      Typed, NvmTypeOK, Current
  <2>5. QED
    BY <2>1, <2>2, <2>3, <2>4 DEF PendingIff, InRing, BulkAlone
<1>4. QED
  BY <1>1, <1>2, <1>3
  DEF Calls, Call, MiniNvm_ReadBlock, MiniNvm_WriteBlock, MiniNvm_WriteBlockRefused,
      MiniNvm_WriteRam, ReadAll, WriteAll, Single

\* A cancellation answers everybody; an initialization forgets everybody.
LEMMA StopsPending ==
  ASSUME Typed, Typed', PendingIff, BulkAlone, CancelJobs \/ Init \/ DeInit
  PROVE  PendingIff' /\ BulkAlone'
<1>1. count' = 0 /\ ~current'.valid
  BY DEF CancelJobs, Init, DeInit, MiniNvm_CancelJobs, MiniNvm_Init, MiniNvm_DeInit, ResetNvm,
         ClearQueue, Typed, NvmTypeOK, Current
<1>2. multiResult' # "PENDING" /\ \A b \in Block : blockResult'[b] # "PENDING"
  <2>1. CASE CancelJobs
    <3>1. Queued = {x \in Slot : InUse(x)}
      BY QueuedSlots DEF Typed, NvmTypeOK
    <3>2. multiResult' # "PENDING"
      BY <2>1 DEF CancelJobs, MiniNvm_CancelJobs, NoJobs, PendingIff
    <3>3. ASSUME NEW b \in Block PROVE blockResult'[b] # "PENDING"
      <4>1. blockResult'[b] = IF Failed(b) \/ \E i \in Queued : queue[i].block = b
                              THEN "NOT_OK" ELSE blockResult[b]
        BY <2>1 DEF CancelJobs, MiniNvm_CancelJobs
      <4>2. CASE \E i \in Queued : queue[i].block = b
        BY <4>1, <4>2
      <4>3. CASE current.valid /\ current.op \in Single /\ current.block = b
        <5>1. Failed(b)
          BY <4>3 DEF Failed, Single
        <5>2. QED
          BY <4>1, <5>1
      <4>4. CASE blockResult[b] # "PENDING"
        BY <4>1, <4>4
      <4>5. QED
        BY <3>1, <4>2, <4>3, <4>4 DEF PendingIff, InRing
    <3>4. QED
      BY <3>2, <3>3
  <2>2. CASE Init \/ DeInit
    BY <2>2 DEF Init, DeInit, MiniNvm_Init, MiniNvm_DeInit, ResetNvm
  <2>3. QED
    BY <2>1, <2>2
<1>3. PendingIff'
  <2>1. head' \in Slot /\ count' = 0
    BY <1>1 DEF Typed, NvmTypeOK
  <2>2. ASSUME NEW x \in Slot PROVE ~InUse(x)'
    <3>1. ~(IF x >= head' THEN x - head' < count' ELSE x + QueueSize - head' < count')
      BY <2>1, EmptyRing
    <3>2. QED
      BY <3>1 DEF InUse
  <2>3. QED
    BY <1>1, <1>2, <2>2 DEF PendingIff, InRing
<1>4. QED
  BY <1>1, <1>3 DEF BulkAlone

\* Every step keeps requests and answers together.
LEMMA PendingStep ==
  ASSUME Typed, PendingIff, BulkAlone, [NvmNext]_vars
  PROVE  PendingIff' /\ BulkAlone'
<1>1. Typed'
  BY TypedStep
<1>2. CASE Calls
  BY <1>1, <1>2, CallsPending
<1>3. CASE CancelJobs \/ Init \/ DeInit
  BY <1>1, <1>3, StopsPending
<1>4. CASE StartNext
  <2>1. StartCurrent
    BY <1>4 DEF StartNext
  <2>2. BulkAlone'
    BY <2>1 DEF BulkAlone, StartCurrent, Typed, NvmTypeOK, Entry, Single, Bulk
  <2>3. QED
    BY <2>1, <2>2, StartPending
<1>5. CASE EndCurrent /\ UNCHANGED feeVars
  <2>1. Finished
    BY <1>5 DEF EndCurrent, HandleCurrentResult, FinishReadAll, FinishWriteAll
  <2>2. BulkAlone'
    BY <2>1 DEF BulkAlone, Finished, Typed, NvmTypeOK, Current
  <2>3. QED
    BY <1>5, <2>2, EndPending
<1>6. CASE FeeWorks \/ UNCHANGED vars
  BY <1>6, PendingFrame DEF FeeWorks, vars, nvmVars, queueVars, resultVars, BulkAlone
<1>7. QED
  BY <1>2, <1>3, <1>4, <1>5, <1>6 DEF NvmNext, Main

----------------------------------------------------------------------------
(* MiniFee serves the current job                                          *)

\* A job for the layer below, when MiniNvm has none, becomes the current one.
LEMMA AskServes ==
  ASSUME NEW op \in Single \cup Bulk, NEW b \in Block, Ask(op, b), status # "BUSY",
         current'.valid, current'.op = op, op \in Single => current'.block = b
  PROVE  FeeServesCurrent'
  BY DEF FeeServesCurrent, Ask, Fee!Accept

\* Every step leaves MiniFee idle or at the current job.
LEMMA ServesStep ==
  ASSUME Typed, FeeServesCurrent, [NvmNext]_vars
  PROVE  FeeServesCurrent'
<1>1. CASE UNCHANGED <<initialized, current, feeVars>>
  BY <1>1 DEF feeVars, FeeServesCurrent
<1>2. CASE Calls
  <2>1. CASE Call /\ UNCHANGED feeVars
    <3>1. UNCHANGED <<initialized, current>>
      BY <2>1 DEF Call, MiniNvm_ReadBlock, MiniNvm_WriteBlock, MiniNvm_WriteBlockRefused,
                  MiniNvm_WriteRam, Enqueue, nvmVars
    <3>2. QED
      BY <1>1, <2>1, <3>1
  <2>2. CASE ReadAll
    <3>1. status # "BUSY" /\ current'.valid /\ current'.op = "READALL"
      BY <2>2 DEF ReadAll, MiniNvm_ReadAll, NoJobs, StartBulk, FeeServesCurrent,
                  Typed, NvmTypeOK, Current
    <3>2. QED
      BY <2>2, <3>1, AskServes, BufferTypes DEF ReadAll, Bulk, Single
  <2>3. CASE WriteAll /\ Offered # {}
    <3>1. status # "BUSY" /\ current'.valid /\ current'.op = "WRITEALL"
      BY <2>3 DEF WriteAll, MiniNvm_WriteAll, NoJobs, StartBulk, FeeServesCurrent,
                  Typed, NvmTypeOK, Current
    <3>2. QED
      BY <2>3, <3>1, AskServes, BufferTypes DEF WriteAll, Bulk, Single
  <2>4. CASE WriteAll /\ Offered = {}
    BY <1>1, <2>4 DEF WriteAll, MiniNvm_WriteAll
  <2>5. QED
    BY <1>2, <2>1, <2>2, <2>3, <2>4 DEF Calls
<1>3. CASE CancelJobs
  BY <1>3 DEF CancelJobs, MiniNvm_CancelJobs, FeeServesCurrent, Fee!Cancel, feeVars
<1>4. CASE Init
  BY <1>4 DEF Init, Fee!Reset, FeeServesCurrent
<1>5. CASE DeInit
  BY <1>5 DEF DeInit, MiniNvm_DeInit, ResetNvm, FeeServesCurrent
<1>6. CASE StartNext
  <2> DEFINE entry == queue[head]
  <2>1. entry \in Entry /\ status # "BUSY"
    BY <1>6 DEF StartNext, StartCurrent, FeeServesCurrent, Typed, NvmTypeOK
  <2>2. current'.valid /\ current'.op = entry.op /\ current'.block = entry.block
    BY <1>6, <2>1 DEF StartNext, StartCurrent
  <2>3. CASE UNCHANGED feeVars
    BY <2>1, <2>3 DEF feeVars, FeeServesCurrent
  <2>4. CASE Ask(entry.op, entry.block)
    BY <2>1, <2>2, <2>4, AskServes DEF Entry
  <2>5. QED
    BY <1>6, <2>3, <2>4 DEF StartNext
<1>7. CASE EndCurrent /\ UNCHANGED feeVars
  <2>1. status # "BUSY"
    BY <1>7 DEF EndCurrent, HandleCurrentResult, FinishReadAll, FinishWriteAll, Finished
  <2>2. QED
    BY <1>7, <2>1 DEF feeVars, FeeServesCurrent
<1>8. CASE FeeWorks
  <2>1. UNCHANGED <<initialized, current>>
    BY <1>8 DEF FeeWorks, nvmVars
  <2>2. status' = "BUSY" => status = "BUSY" /\ job' = job
    BY <1>8 DEF FeeWorks, Fee!Work, Fee!Persist, Fee!DeliverOne, Fee!DeliverSome, Fee!EndOk,
                Fee!EndNotOk, Fee!Land
  <2>3. QED
    BY <2>1, <2>2 DEF FeeServesCurrent
<1>9. CASE UNCHANGED vars
  BY <1>1, <1>9 DEF vars, nvmVars
<1>10. QED
  BY <1>2, <1>3, <1>4, <1>5, <1>6, <1>7, <1>8, <1>9 DEF NvmNext, Main

----------------------------------------------------------------------------
(* The theorems                                                            *)

\* What every step preserves.
NvmInv == Typed /\ PendingIff /\ BulkAlone /\ FeeServesCurrent

\* The first initialization establishes the invariant.
LEMMA NvmInitOK == NvmInit /\ Fee!Init => NvmInv
<1> SUFFICES ASSUME NvmInit, Fee!Init PROVE NvmInv
  OBVIOUS
<1>1. StoreOK
  BY BufferTypes, ContentTypes DEF Fee!Init, Fee!NoneYet, Fee!Zeros, Fee!Block, Zeros, Block,
                                   StoreOK
<1>2. 0 \in Slot
  BY DEF Slot
<1>3. /\ dataBuf \in Data /\ ram \in [Block -> Data] /\ dirty \in [Block -> BOOLEAN]
      /\ target \in [Block -> Data]
  BY BufferTypes DEF Fee!Init, Fee!DataIdx, Fee!Block, NvmInit, DataIdx, Data, Block
<1>4. /\ current \in Current /\ queue \in [Slot -> Entry] /\ initialized \in BOOLEAN
      /\ blockResult \in [Block -> Result] /\ multiResult \in Result
  BY BufferTypes DEF NvmInit, ValidateConfig, Current, Entry, Single, Result
<1>5. /\ head = 0 /\ tail = 0 /\ count = 0 /\ TailBehind
      /\ ~current.valid /\ status = "IDLE"
  BY DEF NvmInit, Fee!Init, TailBehind
<1>6. Typed
  BY <1>1, <1>2, <1>3, <1>4, <1>5 DEF Typed, NvmTypeOK
<1>7. PendingIff
  BY <1>5, <1>6, NothingPending DEF NvmInit
<1>8. QED
  BY <1>5, <1>6, <1>7 DEF NvmInv, BulkAlone, FeeServesCurrent

\* The invariant holds in every reachable state.
THEOREM NvmInvariance == NvmSpec => []NvmInv
<1>1. NvmInv /\ [NvmNext]_vars => NvmInv'
  BY TypedStep, PendingStep, ServesStep DEF NvmInv
<1>2. QED
  BY <1>1, NvmInitOK, PTL DEF NvmSpec

\* Every variable of MiniNvm keeps its C type, every index stays in its array.
THEOREM NvmTypeCorrect == NvmSpec => []NvmTypeOK
<1>1. NvmInv => NvmTypeOK
  BY DEF NvmInv, Typed
<1>2. QED
  BY <1>1, NvmInvariance, PTL

\* Each block and the whole are PENDING exactly while one request of theirs waits
\* or is current.
THEOREM OneAnswerEach == NvmSpec => []PendingIffWaiting
<1>1. NvmInv => PendingIffWaiting
  BY PendingForms DEF NvmInv
<1>2. QED
  BY <1>1, NvmInvariance, PTL

\* MiniFee is busy only with the current job while the module is in service.
THEOREM StatusIsOfCurrent == NvmSpec => []FeeServesCurrent
<1>1. NvmInv => FeeServesCurrent
  BY DEF NvmInv
<1>2. QED
  BY <1>1, NvmInvariance, PTL
=============================================================================
