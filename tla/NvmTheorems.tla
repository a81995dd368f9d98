----------------------------- MODULE NvmTheorems -----------------------------
(***************************************************************************)
(* What MiniNvm does above the abstract store, for every block table,      *)
(* every size of the ring and any order of calls and answers: it           *)
(* implements RequestQueue, and its jobs for all blocks load what is       *)
(* stored and forget no change that is not.                                *)
(***************************************************************************)
EXTENDS NvmProof, MCNvm, SequenceTheorems

USE BlockAssumption, ClusterAssumption, ValueAssumption, QueueAssumption

----------------------------------------------------------------------------
(* The ring as a queue                                                     *)

\* The place of the i-th oldest request in the ring.
Place(i) == IF head + i - 1 < QueueSize THEN head + i - 1 ELSE head + i - 1 - QueueSize

\* What the queue is, told without a remainder.
RingIsQueue ==
  NvmTypeOK => /\ Waiting = [i \in 1 .. count |-> queue[Place(i)]]
               /\ Waiting \in Seq(Entry) /\ Len(Waiting) = count
               /\ \A i \in 1 .. count : Place(i) \in Slot

\* The ring, read from its head on, is a sequence of requests.
LEMMA WaitingIs == RingIsQueue
<1> SUFFICES ASSUME NvmTypeOK
             PROVE  /\ Waiting = [i \in 1 .. count |-> queue[Place(i)]]
                    /\ Waiting \in Seq(Entry) /\ Len(Waiting) = count
                    /\ \A i \in 1 .. count : Place(i) \in Slot
  BY DEF RingIsQueue
<1>1. head \in Slot /\ count \in 0 .. QueueSize /\ queue \in [Slot -> Entry]
  BY DEF NvmTypeOK
<1>2. ASSUME NEW i \in 1 .. count
      PROVE  Place(i) \in Slot /\ (head + i - 1) % QueueSize = Place(i)
  <2>1. i - 1 \in Slot
    BY <1>1 DEF Slot
  <2>2. (head + (i - 1)) % QueueSize = IF head + (i - 1) < QueueSize THEN head + (i - 1)
                                       ELSE head + (i - 1) - QueueSize
    BY <1>1, <2>1, Around
  <2>3. head + (i - 1) = head + i - 1
    BY <1>1, <2>1 DEF Slot
  <2>4. QED
    BY <1>1, <2>1, <2>2, <2>3 DEF Place, Slot
<1>3. Waiting = [i \in 1 .. count |-> queue[Place(i)]]
  BY <1>2 DEF Waiting
<1>4. Waiting \in [1 .. count -> Entry] /\ count \in Nat
  BY <1>1, <1>2, <1>3
<1>5. QED
  BY <1>2, <1>3, <1>4

\* So it is in the next state.
LEMMA WaitingIsNext == RingIsQueue'
  BY WaitingIs, PTL

\* The requests in the ring are those of the queue.
LEMMA WaitingInRing ==
  ASSUME NvmTypeOK, NEW b \in Block
  PROVE  InRing(b) <=> \E i \in DOMAIN Waiting : Waiting[i].block = b
<1>1. Waiting = [i \in 1 .. count |-> queue[Place(i)]] /\ \A i \in 1 .. count : Place(i) \in Slot
  BY WaitingIs DEF RingIsQueue
<1>2. head \in Slot /\ count \in 0 .. QueueSize
  BY DEF NvmTypeOK
<1>3. \A i \in 1 .. count : InUse(Place(i))
  BY <1>1, <1>2 DEF InUse, Place, Slot
<1>4. ASSUME NEW x \in Slot, InUse(x) PROVE \E i \in 1 .. count : x = Place(i)
  <2> DEFINE i == IF x >= head THEN x - head + 1 ELSE x + QueueSize - head + 1
  <2>1. i \in 1 .. count /\ x = Place(i)
    BY <1>2, <1>4 DEF InUse, Place, Slot
  <2>2. QED
    BY <2>1
<1>5. QED
  BY <1>1, <1>3, <1>4 DEF InRing

\* An empty ring is an empty queue.
LEMMA WaitingEmpty ==
  ASSUME NvmTypeOK
  PROVE  Waiting = <<>> <=> count = 0
<1>1. Waiting \in Seq(Entry) /\ Len(Waiting) = count
  BY WaitingIs DEF RingIsQueue
<1>2. QED
  BY <1>1, EmptySeq

\* A sequence that continues another by one element.
LEMMA Appended ==
  ASSUME NEW S, NEW s \in Seq(S), NEW t \in Seq(S), NEW e \in S,
         Len(t) = Len(s) + 1, t[Len(s) + 1] = e, \A i \in 1 .. Len(s) : t[i] = s[i]
  PROVE  t = Append(s, e)
<1>1. Append(s, e) \in Seq(S) /\ Len(Append(s, e)) = Len(s) + 1
  BY AppendProperties
<1>2. \A i \in 1 .. Len(s) : Append(s, e)[i] = s[i]
  BY AppendProperties
<1>3. Append(s, e)[Len(s) + 1] = e
  BY AppendProperties
<1>4. Len(s) \in Nat
  BY LenProperties
<1>5. \A i \in 1 .. Len(t) : t[i] = Append(s, e)[i]
  BY <1>2, <1>3, <1>4
<1>6. QED
  BY <1>1, <1>5, SeqEqual

----------------------------------------------------------------------------
(* Steps                                                                   *)

\* What concerns neither ring, current job nor results is no step of the queue.
LEMMA NoStep ==
  UNCHANGED <<current, queue, head, count, blockResult, multiResult>>
    => UNCHANGED Requests!vars
  BY DEF Requests!vars, Waiting, Serving

\* A request that joins the ring joins the queue.
LEMMA EnqueueSubmits ==
  ASSUME NvmInv, NvmInv', NEW op \in Single, NEW b \in Block,
         ~IsBlockPending(b), Enqueue(op, b)
  PROVE  Requests!Submit(op, b)
<1> DEFINE entry == [op |-> op, block |-> b]
<1>1. /\ NvmTypeOK /\ NvmTypeOK' /\ Typed /\ TailBehind
  BY DEF NvmInv, Typed
<1>2. /\ head \in Slot /\ tail \in Slot /\ count \in 0 .. QueueSize - 1
      /\ head' = head /\ count' = count + 1 /\ current' = current /\ multiResult' = multiResult
      /\ \A x \in Slot : queue'[x] = IF x = tail THEN entry ELSE queue[x]
      /\ blockResult' = [blockResult EXCEPT ![b] = "PENDING"]
  BY <1>1 DEF NvmTypeOK, Enqueue
<1>3. entry \in Entry
  BY DEF Entry
<1>4. /\ Waiting = [i \in 1 .. count |-> queue[Place(i)]]
      /\ Waiting \in Seq(Entry) /\ Len(Waiting) = count
      /\ \A i \in 1 .. count : Place(i) \in Slot
      /\ Waiting' = [i \in 1 .. count' |-> queue'[Place(i)']]
      /\ Waiting' \in Seq(Entry) /\ Len(Waiting') = count'
      /\ \A i \in 1 .. count' : Place(i)' \in Slot
  BY <1>1, WaitingIs, WaitingIsNext DEF RingIsQueue
<1>5. /\ \A i \in 1 .. count + 1 : i = count + 1 => Place(i)' = tail
      /\ \A i \in 1 .. count : Place(i)' = Place(i) /\ Place(i) # tail
  BY <1>1, <1>2 DEF Place, TailBehind, Slot
<1>6. Waiting' = Append(Waiting, entry)
  <2>1. \A i \in 1 .. count : Waiting'[i] = Waiting[i]
    BY <1>2, <1>4, <1>5
  <2>2. \A i \in 1 .. count + 1 : i = count + 1 => Waiting'[i] = entry
    BY <1>2, <1>4, <1>5
  <2>3. count \in Nat /\ Waiting'[count + 1] = entry
    BY <1>2, <2>2
  <2>4. Waiting'[Len(Waiting) + 1] = entry /\ Len(Waiting') = Len(Waiting) + 1
    BY <1>2, <1>4, <2>3
  <2>5. \A i \in 1 .. Len(Waiting) : Waiting'[i] = Waiting[i]
    BY <1>4, <2>1
  <2>6. Waiting \in Seq(Entry) /\ Waiting' \in Seq(Entry)
    BY <1>4
  <2>7. QED
    <3> HIDE DEF entry
    <3>1. QED
      BY <1>3, <2>4, <2>5, <2>6, Appended
<1>7. ~InRing(b) /\ ~(current.valid /\ (current.op \in Bulk \/ current.block = b))
  <2>1. Queued = {x \in Slot : InUse(x)}
    BY <1>2, QueuedSlots
  <2>2. QED
    BY <2>1 DEF IsBlockPending, InRing
<1>8. Serving.op \notin Requests!Bulk /\ ~Requests!Waits(b)
  <2>1. ~(\E i \in DOMAIN Waiting : Waiting[i].block = b)
    BY <1>1, <1>7, WaitingInRing
  <2>2. QED
    BY <1>7, <2>1 DEF Serving, Requests!Waits, Requests!Bulk, Requests!Single, Bulk, Single
<1>9. Serving' = Serving
  BY <1>2 DEF Serving
<1>10. QED
  BY <1>2, <1>6, <1>8, <1>9 DEF Requests!Submit

\* The main function starts the oldest request of the queue.
LEMMA StartServes ==
  ASSUME NvmInv, NvmInv', StartNext
  PROVE  Requests!Serve
<1> DEFINE first == queue[head]
<1>1. /\ NvmTypeOK /\ NvmTypeOK'
  BY DEF NvmInv, Typed
<1>2. status # "BUSY"
  BY DEF NvmInv, FeeServesCurrent, StartNext, StartCurrent
<1>3. /\ head \in Slot /\ count \in 1 .. QueueSize /\ first \in Entry
      /\ ~current.valid /\ head' = After(head) /\ count' = count - 1
      /\ current' = [valid |-> TRUE, op |-> first.op, block |-> first.block]
      /\ UNCHANGED <<queue, blockResult, multiResult>>
  <2>1. head \in Slot /\ count \in 1 .. QueueSize /\ first \in Entry
    BY <1>1 DEF StartNext, StartCurrent, NvmTypeOK
  <2>2. QED
    BY <1>2, <2>1 DEF StartNext, StartCurrent
<1>4. /\ Waiting = [i \in 1 .. count |-> queue[Place(i)]]
      /\ Waiting \in Seq(Entry) /\ Len(Waiting) = count
      /\ Waiting' = [i \in 1 .. count' |-> queue'[Place(i)']]
      /\ Waiting' \in Seq(Entry) /\ Len(Waiting') = count'
  BY <1>1, WaitingIs, WaitingIsNext DEF RingIsQueue
<1>5. Place(1) = head /\ \A i \in 1 .. count - 1 : Place(i)' = Place(i + 1)
  BY <1>3 DEF Place, After, Slot
<1>6. Waiting # <<>>
  BY <1>1, <1>3, WaitingEmpty
<1>7. Head(Waiting) = first
  BY <1>3, <1>4, <1>5
<1>8. Waiting' = Tail(Waiting)
  <2>1. /\ Tail(Waiting) \in Seq(Entry) /\ Len(Tail(Waiting)) = count - 1
        /\ \A i \in 1 .. count - 1 : Tail(Waiting)[i] = Waiting[i + 1]
    BY <1>4, <1>6, HeadTailProperties
  <2>2. \A i \in 1 .. count - 1 : Waiting'[i] = Waiting[i + 1]
    BY <1>3, <1>4, <1>5
  <2>3. QED
    BY <1>3, <1>4, <2>1, <2>2, SeqEqual
<1>9. Serving = Requests!None /\ Serving' = first
  <2>1. first.op \notin Bulk /\ first = [op |-> first.op, block |-> first.block]
    BY <1>3 DEF Entry, Single, Bulk
  <2>2. QED
    BY <1>3, <2>1 DEF Serving, Requests!None
<1>10. QED
  BY <1>3, <1>6, <1>7, <1>8, <1>9 DEF Requests!Serve

\* The end of a job for one block is the reply to its request, that of a job for
\* all blocks the reply to all.
LEMMA EndReplies ==
  ASSUME NvmInv, EndCurrent
  PROVE  Requests!Reply(Answer) \/ Requests!ReplyBulk(Answer)
<1>1. /\ Finished /\ current.valid /\ ~current'.valid /\ Waiting' = Waiting
      /\ Serving' = Requests!None
      /\ Serving = [op |-> current.op, block |-> IF current.op \in Bulk THEN 0 ELSE current.block]
  <2>1. Finished
    BY DEF EndCurrent, HandleCurrentResult, FinishReadAll, FinishWriteAll
  <2>2. current.valid /\ ~current'.valid
    BY <2>1 DEF Finished, NvmInv, Typed, NvmTypeOK, Current
  <2>3. QED
    BY <2>1, <2>2 DEF Finished, queueVars, Waiting, Serving, Requests!None
<1>2. CASE HandleCurrentResult
  <2>1. /\ current.op \in Single /\ current.op \notin Bulk /\ multiResult' = multiResult
        /\ blockResult' = [blockResult EXCEPT ![current.block] = Answer]
    BY <1>2 DEF HandleCurrentResult, Single, Bulk
  <2>2. QED
    BY <1>1, <2>1 DEF Requests!Reply, Requests!Single, Single
<1>3. CASE FinishReadAll
  <2>1. /\ Serving.op = "READALL" /\ multiResult' = Answer
        /\ blockResult' = [b \in Block |-> Answer]
    BY <1>1, <1>3 DEF FinishReadAll
  <2>2. blockResult' = [b \in Block |-> IF b \in Block THEN Answer ELSE blockResult[b]]
    BY <2>1
  <2>3. QED
    BY <1>1, <2>1, <2>2 DEF Requests!ReplyBulk, Requests!Bulk, Requests!Block, Block
<1>4. CASE FinishWriteAll
  <2>1. /\ Serving.op = "WRITEALL" /\ multiResult' = Answer
        /\ blockResult' = [b \in Block |-> IF dirty[b] THEN Answer ELSE blockResult[b]]
    BY <1>1, <1>4 DEF FinishWriteAll
  <2>2. blockResult' = [b \in Block |-> IF b \in Offered THEN Answer ELSE blockResult[b]]
    BY <2>1 DEF Offered
  <2>3. Offered \in SUBSET Block
    BY DEF Offered
  <2>4. QED
    BY <1>1, <2>1, <2>2, <2>3 DEF Requests!ReplyBulk, Requests!Bulk, Requests!Block, Block
<1>5. QED
  BY <1>2, <1>3, <1>4 DEF EndCurrent

\* ReadAll and WriteAll find nobody waiting and put themselves in service, or, when
\* there is nothing to write, say so at once.
LEMMA BulkSubmits ==
  ASSUME NvmInv, MiniNvm_ReadAll \/ MiniNvm_WriteAll
  PROVE  (\E op \in Requests!Bulk : Requests!SubmitBulk(op)) \/ Requests!SkipBulk
<1>1. /\ initialized /\ ~current.valid /\ count = 0
      /\ UNCHANGED <<queue, head, count, blockResult>>
  BY DEF MiniNvm_ReadAll, MiniNvm_WriteAll, NoJobs, queueVars
<1>2. /\ Waiting = <<>> /\ Waiting' = Waiting /\ Serving = Requests!None
  BY <1>1, WaitingEmpty DEF NvmInv, Typed, Waiting, Serving, Requests!None
<1>3. status # "BUSY"
  BY <1>1 DEF NvmInv, FeeServesCurrent
<1>4. ASSUME NEW op \in Bulk, StartBulk(op) PROVE Requests!SubmitBulk(op)
  <2>1. current'.valid /\ current'.op = op /\ multiResult' = "PENDING"
    BY <1>3, <1>4 DEF StartBulk, NvmInv, Typed, NvmTypeOK, Current
  <2>2. Serving' = [op |-> op, block |-> 0]
    BY <1>4, <2>1 DEF Serving
  <2>3. QED
    BY <1>1, <1>2, <2>1, <2>2 DEF Requests!SubmitBulk
<1>5. CASE MiniNvm_ReadAll
  BY <1>4, <1>5 DEF MiniNvm_ReadAll, Bulk, Requests!Bulk
<1>6. CASE MiniNvm_WriteAll /\ Offered # {}
  BY <1>4, <1>6 DEF MiniNvm_WriteAll, Bulk, Requests!Bulk
<1>7. CASE MiniNvm_WriteAll /\ Offered = {}
  BY <1>1, <1>2, <1>7 DEF MiniNvm_WriteAll, Requests!SkipBulk, Serving
<1>8. QED
  BY <1>5, <1>6, <1>7

\* A call of the caller is a request, or nothing that the queue hears of.
LEMMA CallsSubmit ==
  ASSUME NvmInv, NvmInv', Calls
  PROVE  Requests!Next \/ UNCHANGED Requests!vars
<1>1. CASE \E b \in Block, op \in Single : ~IsBlockPending(b) /\ Enqueue(op, b)
  <2>1. PICK b \in Block, op \in Single : ~IsBlockPending(b) /\ Enqueue(op, b)
    BY <1>1
  <2>2. Requests!Submit(op, b)
    BY <2>1, EnqueueSubmits
  <2>3. QED
    BY <2>2 DEF Requests!Next, Requests!Single, Requests!Block, Single, Block
<1>2. CASE UNCHANGED nvmVars
  BY <1>2, NoStep DEF nvmVars, queueVars, resultVars
<1>3. CASE MiniNvm_ReadAll \/ MiniNvm_WriteAll
  BY <1>3, BulkSubmits DEF Requests!Next
<1>4. QED
  BY <1>1, <1>2, <1>3
  DEF Calls, Call, MiniNvm_ReadBlock, MiniNvm_WriteBlock, MiniNvm_WriteBlockRefused,
      MiniNvm_WriteRam, ReadAll, WriteAll, Single

\* A ring that has been emptied is an empty queue.
LEMMA Emptied ==
  ASSUME NvmInv, ClearQueue, current' = [current EXCEPT !.valid = FALSE]
  PROVE  /\ Waiting' = <<>> /\ Serving' = Requests!None
<1>1. count' = 0 /\ ~current'.valid
  BY DEF ClearQueue, NvmInv, Typed, NvmTypeOK, Current
<1>2. QED
  BY <1>1 DEF Waiting, Serving, Requests!None

\* A cancellation answers whoever waits; it answers all when the job for all blocks
\* is the one it meets, and nobody when nobody waits.
LEMMA CancelAnswers ==
  ASSUME NvmInv, CancelJobs
  PROVE  Requests!Cancel \/ Requests!ReplyBulk("NOT_OK") \/ UNCHANGED Requests!vars
<1>1. /\ NvmTypeOK /\ head \in Slot /\ count \in 0 .. QueueSize
      /\ blockResult \in [Block -> Result] /\ current \in Current
  BY DEF NvmInv, Typed, NvmTypeOK
<1>2. /\ Waiting' = <<>> /\ Serving' = Requests!None
      /\ blockResult' = [b \in Block |-> IF Failed(b) \/ \E i \in Queued : queue[i].block = b
                                         THEN "NOT_OK" ELSE blockResult[b]]
      /\ multiResult' = IF NoJobs THEN multiResult ELSE "NOT_OK"
  BY Emptied DEF CancelJobs, MiniNvm_CancelJobs
<1>3. \A b \in Block : (\E i \in Queued : queue[i].block = b)
                         <=> \E i \in DOMAIN Waiting : Waiting[i].block = b
  <2>1. Queued = {x \in Slot : InUse(x)}
    BY <1>1, QueuedSlots
  <2>2. QED
    BY <1>1, <2>1, WaitingInRing DEF InRing
<1>4. Waiting = <<>> <=> count = 0
  BY <1>1, WaitingEmpty
<1>5. count = 0 => \A b \in Block : ~\E i \in DOMAIN Waiting : Waiting[i].block = b
  BY DEF Waiting
<1>6. CASE NoJobs
  <2>1. \A b \in Block : blockResult'[b] = blockResult[b]
    <3>1. count = 0 /\ ~current.valid
      BY <1>6 DEF NoJobs
    <3>2. \A b \in Block : ~Failed(b)
      BY <3>1, Zenon DEF Failed
    <3>3. \A b \in Block : ~\E i \in Queued : queue[i].block = b
      BY <1>3, <1>5, <3>1
    <3>4. QED
      BY <1>2, <3>2, <3>3
  <2>2. blockResult' = blockResult
    BY <1>1, <1>2, <2>1
  <2>3. Waiting' = Waiting /\ Serving' = Serving /\ multiResult' = multiResult
    BY <1>2, <1>4, <1>6 DEF NoJobs, Serving, Requests!None
  <2>4. QED
    BY <2>2, <2>3 DEF Requests!vars
<1>7. CASE ~NoJobs /\ ~(current.valid /\ current.op \in Bulk)
  <2>1. \A b \in Block : Failed(b) <=> current.valid /\ current.block = b
    <3>1. CASE ~current.valid
      BY <3>1, Zenon DEF Failed
    <3>2. CASE current.valid
      <4>1. current.op # "READALL" /\ current.op # "WRITEALL"
        BY <1>7, <3>2 DEF Bulk
      <4>2. QED
        BY <3>2, <4>1, Zenon DEF Failed
    <3>3. QED
      BY <3>1, <3>2
  <2>2. \A b \in Block : Requests!Waits(b)
          <=> Failed(b) \/ \E i \in Queued : queue[i].block = b
    BY <1>1, <1>3, <1>7, <2>1 DEF Requests!Waits, Requests!Single, Serving, Current, Single, Bulk
  <2>3. blockResult' = [b \in Block |-> IF Requests!Waits(b) THEN "NOT_OK" ELSE blockResult[b]]
    BY <1>2, <2>2
  <2>4. Serving.op \notin Requests!Bulk /\ (Serving # Requests!None \/ Waiting # <<>>)
    BY <1>1, <1>4, <1>7 DEF NoJobs, Serving, Requests!Bulk, Requests!None, Bulk, Current, Single
  <2>5. QED
    BY <1>2, <1>7, <2>3, <2>4 DEF Requests!Cancel, Requests!Block, Block
<1>8. CASE current.valid /\ current.op \in Bulk
  <2>1. /\ count = 0 /\ ~NoJobs /\ Serving.op = current.op /\ Waiting' = Waiting
    BY <1>2, <1>4, <1>8 DEF NvmInv, BulkAlone, NoJobs, Serving
  <2>2. \E S \in SUBSET Block :
          /\ Serving.op = "READALL" => S = Block
          /\ blockResult' = [b \in Block |-> IF b \in S THEN "NOT_OK" ELSE blockResult[b]]
    <3> DEFINE S == IF current.op = "READALL" THEN Block ELSE Offered
    <3>1. \A b \in Block : Failed(b) <=> b \in S
      BY <1>8 DEF Failed, Offered, Bulk
    <3>2. blockResult' = [b \in Block |-> IF b \in S THEN "NOT_OK" ELSE blockResult[b]]
      BY <1>2, <1>3, <1>5, <2>1, <3>1
    <3>3. S \in SUBSET Block
      BY DEF Offered
    <3>4. QED
      BY <2>1, <3>2, <3>3
  <2>3. QED
    BY <1>2, <1>8, <2>1, <2>2 DEF Requests!ReplyBulk, Requests!Bulk, Bulk, Requests!Block, Block
<1>9. QED
  BY <1>6, <1>7, <1>8

\* An initialization or a deinitialization forgets everybody.
LEMMA ResetForgets ==
  ASSUME NvmInv, Init \/ DeInit
  PROVE  Requests!Reset
<1>1. \E init \in BOOLEAN : ResetNvm(init)
  BY DEF Init, DeInit, MiniNvm_Init, MiniNvm_DeInit, ValidateConfig
<1>2. /\ ClearQueue /\ current' = [current EXCEPT !.valid = FALSE]
      /\ multiResult' = "IDLE" /\ blockResult' = [b \in Block |-> "IDLE"]
  BY <1>1 DEF ResetNvm
<1>3. QED
  BY <1>2, Emptied DEF Requests!Reset, Requests!Block, Block

\* Every step of MiniNvm is a step of the queue, or none.
LEMMA StepIsStep ==
  ASSUME NvmInv, NvmInv', [NvmNext]_vars
  PROVE  [Requests!Next]_(Requests!vars)
<1>1. CASE Calls
  BY <1>1, CallsSubmit
<1>2. CASE CancelJobs
  BY <1>2, CancelAnswers DEF Requests!Next
<1>3. CASE Init \/ DeInit
  BY <1>3, ResetForgets DEF Requests!Next
<1>4. CASE StartNext
  BY <1>4, StartServes DEF Requests!Next
<1>5. CASE EndCurrent
  <2>1. Answer \in {"OK", "NOT_OK"}
    BY DEF Answer
  <2>2. QED
    BY <1>5, <2>1, EndReplies DEF Requests!Next
<1>6. CASE FeeWorks \/ UNCHANGED vars
  BY <1>6, NoStep DEF FeeWorks, vars, nvmVars, queueVars, resultVars
<1>7. QED
  BY <1>1, <1>2, <1>3, <1>4, <1>5, <1>6 DEF NvmNext, Main

\* MiniNvm above the abstract store is a queue of requests: they are served one at
\* a time in the order they were accepted, and each is answered once, by its own
\* end, by a cancellation or by an initialization.
THEOREM QueueIsImplemented == NvmSpec => ImplementsRequestQueue
<1>1. NvmInit => Requests!Init
  BY DEF NvmInit, Waiting, Serving, Requests!Init, Requests!None, Requests!Block, Block
<1>2. NvmInv /\ NvmInv' /\ [NvmNext]_vars => [Requests!Next]_(Requests!vars)
  BY StepIsStep
<1>3. QED
  BY <1>1, <1>2, NvmInvariance, PTL DEF NvmSpec, ImplementsRequestQueue, Requests!Spec

----------------------------------------------------------------------------
(* A ReadAll that ends OK has loaded the RAM buffers                       *)

\* The RAM buffer of a block holds what is stored, unless the block is dirty.
IsLoaded(b) == ~dirty[b] => DataOf(b, ram[b]) = store[b]

\* While a ReadAll is current, what is not left to deliver is loaded; when it has
\* ended OK all is, and nothing that would change the store is on the way.
Loading ==
  initialized /\ CurrentIs("READALL") =>
    /\ status = "BUSY" => \A b \in Block : b \in left \/ IsLoaded(b)
    /\ status = "OK" => late = store /\ \A b \in Block : IsLoaded(b)

\* What was delivered is what is stored.
LEMMA Delivered ==
  ASSUME StoreOK, NEW b \in Block, NEW buf \in Data
  PROVE  DataOf(b, Fee!Overwrite(buf, b)) = store[b]
<1>1. store[b] \in [0 .. DataCells[b] - 1 -> Cell]
  BY DEF StoreOK, Content
<1>2. DataCells[b] \in Nat /\ DataCells[b] <= MaxDataCells
  BY BufferTypes
<1>3. \A i \in 0 .. DataCells[b] - 1 : i \in DataIdx /\ i < DataCells[b]
  BY <1>2, BufferTypes DEF DataIdx
<1>4. \A i \in 0 .. DataCells[b] - 1 : Fee!Overwrite(buf, b)[i] = store[b][i]
  BY <1>3 DEF Fee!Overwrite, Fee!DataIdx, DataIdx
<1>5. QED
  BY <1>1, <1>4 DEF DataOf

\* A job for all blocks has left whatever does not hold what is stored.
LEMMA Opened ==
  ASSUME job'.kind = "READALL", left' \in Fee!Opening'
  PROVE  \A b \in Block : b \in left' \/ IsLoaded(b)'
<1>1. Fee!Asked' = Block
  BY DEF Fee!Asked, Fee!Block, Block
<1>2. \A b \in Block : Fee!Met(b)' \/ b \in left'
  BY <1>1 DEF Fee!Opening
<1>3. \A b \in Block : Fee!Met(b)' => IsLoaded(b)'
  BY DEF Fee!Met, IsLoaded, Fee!DataOf, DataOf
<1>4. QED
  BY <1>2, <1>3

\* The steps of MiniFee deliver block by block, and land what was on the way before.
LEMMA FeeLoads ==
  ASSUME NvmInv, NvmInv', Loading, FeeWorks
  PROVE  Loading'
<1>1. UNCHANGED <<initialized, current>>
  BY DEF FeeWorks, nvmVars
<1> SUFFICES ASSUME initialized, CurrentIs("READALL")
             PROVE  /\ status' = "BUSY" => \A b \in Block : b \in left' \/ IsLoaded(b)'
                    /\ status' = "OK" => late' = store' /\ \A b \in Block : IsLoaded(b)'
  BY <1>1 DEF Loading, CurrentIs
<1>2. Typed /\ NvmTypeOK /\ StoreOK
  BY DEF NvmInv, Typed
<1>3. status = "BUSY" => job.kind = "READALL"
  BY DEF NvmInv, FeeServesCurrent, CurrentIs
<1>4. CASE Fee!Persist
  BY <1>3, <1>4 DEF Fee!Persist, Fee!Targets, Fee!Target
<1>5. CASE Fee!DeliverOne
  BY <1>3, <1>5 DEF Fee!DeliverOne
<1>6. CASE Fee!DeliverSome
  <2>1. PICK d \in left : ram' = [ram EXCEPT ![d] = Fee!Overwrite(@, d)] /\ left' = left \ {d}
    BY <1>6 DEF Fee!DeliverSome
  <2>2. status = "BUSY" /\ status' = "BUSY" /\ UNCHANGED <<store, dirty>>
    BY <1>6 DEF Fee!DeliverSome
  <2>3. ASSUME NEW b \in Block, b \notin left' PROVE IsLoaded(b)'
    <3>1. CASE b = d
      <4>1. ram \in [Block -> Data]
        BY <1>2 DEF NvmTypeOK
      <4>2. ram'[b] = Fee!Overwrite(ram[b], b) /\ ram[b] \in Data
        BY <2>1, <3>1, <4>1
      <4>3. DataOf(b, ram'[b]) = store[b]
        BY <1>2, <4>2, Delivered
      <4>4. QED
        BY <2>2, <4>3 DEF IsLoaded, DataOf
    <3>2. CASE b # d
      <4>1. ram'[b] = ram[b] /\ b \notin left
        BY <1>2, <2>1, <2>3, <3>2 DEF NvmTypeOK
      <4>2. IsLoaded(b)
        BY <2>2, <4>1 DEF Loading
      <4>3. QED
        BY <2>2, <4>1, <4>2 DEF IsLoaded, DataOf
    <3>3. QED
      BY <3>1, <3>2
  <2>4. QED
    BY <2>2, <2>3
<1>7. CASE Fee!EndOk
  <2>1. /\ status = "BUSY" /\ left = {} /\ late = store /\ status' = "OK"
        /\ UNCHANGED <<store, late, ram, dirty>>
    BY <1>7 DEF Fee!EndOk, Fee!caller
  <2>2. QED
    BY <2>1 DEF Loading, IsLoaded, DataOf
<1>8. CASE Fee!EndNotOk
  BY <1>8 DEF Fee!EndNotOk
<1>9. CASE Fee!Land
  <2>1. late # store /\ UNCHANGED <<status, job>> /\ left' \in Fee!Opening'
    BY <1>9 DEF Fee!Land
  <2>2. status' # "OK"
    BY <2>1 DEF Loading
  <2>3. QED
    BY <1>3, <2>1, <2>2, Opened
<1>10. QED
  BY <1>4, <1>5, <1>6, <1>7, <1>8, <1>9 DEF FeeWorks, Fee!Work

\* Every step keeps what is loaded.
LEMMA LoadingStep ==
  ASSUME NvmInv, NvmInv', Loading, [NvmNext]_vars
  PROVE  Loading'
<1>1. CASE UNCHANGED <<initialized, current, feeVars, ram, dirty>>
  BY <1>1 DEF Loading, CurrentIs, IsLoaded, DataOf, feeVars
<1>2. CASE \E b \in Block, op \in Single : ~IsBlockPending(b) /\ Enqueue(op, b)
  BY <1>2 DEF IsBlockPending, Enqueue, Loading, CurrentIs, Bulk
<1>3. CASE \E b \in Block : ~IsBlockPending(b) /\ UNCHANGED current
  BY <1>3 DEF IsBlockPending, Loading, CurrentIs, Bulk
<1>4. ASSUME NEW b \in Block, NEW v \in Value, NEW len \in 0 .. DataCells[b],
             MiniNvm_WriteRam(b, v, len), UNCHANGED feeVars
      PROVE  Loading'
  <2>1. \A c \in Block : IsLoaded(c) => IsLoaded(c)'
    <3>1. ram \in [Block -> Data] /\ dirty \in [Block -> BOOLEAN]
      BY DEF NvmInv, Typed, NvmTypeOK
    <3>2. \A c \in Block : \/ dirty'[c]
                           \/ ram'[c] = ram[c] /\ dirty'[c] = dirty[c]
      BY <1>4, <3>1 DEF MiniNvm_WriteRam
    <3>3. store' = store
      BY <1>4 DEF feeVars
    <3>4. QED
      BY <3>2, <3>3 DEF IsLoaded, DataOf
  <2>2. UNCHANGED <<initialized, current, feeVars>>
    BY <1>4 DEF MiniNvm_WriteRam, nvmVars
  <2>3. QED
    BY <2>1, <2>2 DEF Loading, CurrentIs, feeVars
<1>5. CASE ReadAll
  <2>1. Ask("READALL", 0) /\ initialized /\ ~current.valid
    BY <1>5 DEF ReadAll, MiniNvm_ReadAll, NoJobs
  <2>2. status # "BUSY"
    BY <2>1 DEF NvmInv, FeeServesCurrent
  <2>3. Fee!Accept("READALL", 0)
    BY <2>1, <2>2 DEF Ask
  <2>4. status' = "BUSY" /\ job'.kind = "READALL" /\ left' \in Fee!Opening'
    BY <2>3 DEF Fee!Accept
  <2>5. QED
    BY <2>4, Opened DEF Loading
<1>6. CASE WriteAll
  BY <1>6 DEF WriteAll, MiniNvm_WriteAll, StartBulk, NoJobs, Loading, CurrentIs,
              NvmInv, Typed, NvmTypeOK, Current
<1>7. CASE CancelJobs \/ Init \/ DeInit
  BY <1>7 DEF CancelJobs, Init, DeInit, MiniNvm_CancelJobs, MiniNvm_Init, MiniNvm_DeInit,
              ResetNvm, Loading, CurrentIs, NvmInv, Typed, NvmTypeOK, Current
<1>8. CASE StartNext
  <2>1. queue[head] \in Entry
    BY DEF NvmInv, Typed, NvmTypeOK
  <2>2. current'.op \in Single
    BY <1>8, <2>1 DEF StartNext, StartCurrent, Entry
  <2>3. QED
    BY <2>2 DEF Loading, CurrentIs, Single
<1>9. CASE EndCurrent
  <2>1. Finished
    BY <1>9 DEF EndCurrent, HandleCurrentResult, FinishReadAll, FinishWriteAll
  <2>2. QED
    BY <2>1 DEF Finished, Loading, CurrentIs, NvmInv, Typed, NvmTypeOK, Current
<1>10. CASE Call /\ UNCHANGED feeVars
  BY <1>2, <1>3, <1>4, <1>10
  DEF Call, MiniNvm_ReadBlock, MiniNvm_WriteBlock, MiniNvm_WriteBlockRefused, Single, nvmVars
<1>11. CASE UNCHANGED vars
  BY <1>1, <1>11 DEF vars, nvmVars, memory
<1>12. QED
  BY <1>5, <1>6, <1>7, <1>8, <1>9, <1>10, <1>11, FeeLoads DEF NvmNext, Calls, Main

\* Nothing but the end of the job with status OK answers a ReadAll with OK.
LEMMA OkOfReadAll ==
  ASSUME NvmInv, [NvmNext]_vars, CurrentIs("READALL"), multiResult' = "OK"
  PROVE  initialized /\ status = "OK"
<1>1. /\ current.valid /\ current.op \in Bulk /\ current.op \notin Single
      /\ multiResult = "PENDING" /\ current.op # "WRITEALL"
  BY DEF CurrentIs, Bulk, Single, NvmInv, PendingIff
<1>2. ~UNCHANGED multiResult
  BY <1>1
<1>3. CASE Calls \/ FeeWorks \/ UNCHANGED vars
  BY <1>1, <1>2, <1>3
  DEF Calls, Call, MiniNvm_ReadBlock, MiniNvm_WriteBlock, MiniNvm_WriteBlockRefused, Enqueue,
      MiniNvm_WriteRam, ReadAll, WriteAll, MiniNvm_ReadAll, MiniNvm_WriteAll, NoJobs, FeeWorks,
      vars, nvmVars, resultVars
<1>4. CASE CancelJobs \/ Init \/ DeInit
  BY <1>2, <1>4 DEF CancelJobs, Init, DeInit, MiniNvm_CancelJobs, MiniNvm_Init, MiniNvm_DeInit,
                    ResetNvm
<1>5. CASE StartNext
  BY <1>1, <1>5 DEF StartNext, StartCurrent
<1>6. CASE EndCurrent
  BY <1>1, <1>6 DEF EndCurrent, HandleCurrentResult, FinishReadAll, FinishWriteAll, Finished,
                    CurrentIs, Answer
<1>7. QED
  BY <1>3, <1>4, <1>5, <1>6 DEF NvmNext, Main

\* A ReadAll that ends OK has put what is stored into the RAM buffer of every block
\* that is not dirty, whatever was still landing when it began.
THEOREM ReadAllLoads == NvmSpec => BulkReadLoads
<1> DEFINE Loads == CurrentIs("READALL") /\ multiResult' = "OK" =>
                      \A b \in Block : ~dirty[b] => DataOf(b, ram[b]) = store[b]
<1>1. NvmInit /\ Fee!Init => Loading
  BY DEF NvmInit, Loading, CurrentIs
<1>2. NvmInv /\ NvmInv' /\ Loading /\ [NvmNext]_vars => Loading'
  BY LoadingStep
<1>3. NvmInv /\ Loading /\ [NvmNext]_vars
        => [Loads]_<<nvmVars, memory, status, store, job>>
  BY OkOfReadAll DEF Loading, IsLoaded
<1>4. QED
  BY <1>1, <1>2, <1>3, NvmInvariance, PTL DEF NvmSpec, BulkReadLoads

----------------------------------------------------------------------------
(* A WriteAll clears the dirty flags of saved blocks only                  *)

\* A dirty block that nobody wrote to during the job is stored as its RAM buffer is.
IsSaved(b) == dirty[b] /\ b \notin touched => DataOf(b, ram[b]) = store[b]

\* While a WriteAll is current, what is not left to store is saved; when it has ended
\* OK all is, and nothing that would change the store is on the way.
Saving ==
  initialized /\ CurrentIs("WRITEALL") =>
    /\ status = "BUSY" => \A b \in Block : b \in left \/ IsSaved(b)
    /\ status = "OK" => late = store /\ \A b \in Block : IsSaved(b)

\* The bounded caller of MCNvm is a caller of MiniNvm.
LEMMA BoundedStep == [MCNext]_mcVars => [NvmNext]_vars
<1>1. CASE MCCall
  <2>1. CASE \E b \in Block, v \in Value : MCWriteBlock(b, v)
    BY <2>1 DEF MCWriteBlock, MiniNvm_WriteBlockSame, NvmNext, Calls, Call, vars
  <2>2. CASE \E b \in Block, v \in Value : \E len \in 0 .. DataCells[b] : MCWriteRam(b, v, len)
    BY <2>2 DEF MCWriteRam, NvmNext, Calls, Call
  <2>3. CASE MCWriteAll \/ MCNoWrite
    BY <2>3 DEF MCWriteAll, MCNoWrite, NvmNext, Calls, Call
  <2>4. QED
    BY <1>1, <2>1, <2>2, <2>3 DEF MCCall
<1>2. QED
  BY <1>1 DEF MCNext, MCStop, MCMain, MCFeeWorks, NvmNext, mcVars

\* A write job has left whatever is not stored yet.
LEMMA OpenedWrite ==
  ASSUME job'.kind = "WRITEALL", left' \in Fee!Opening'
  PROVE  \A b \in Block : b \in left' \/ IsSaved(b)'
<1>1. Fee!Asked' = Fee!Targets' /\ \A b \in Block : dirty'[b] => b \in Fee!Targets'
  BY DEF Fee!Asked, Fee!Targets, Fee!Target, Fee!Block, Block
<1>2. \A b \in Block : dirty'[b] => Fee!Met(b)' \/ b \in left'
  BY <1>1 DEF Fee!Opening
<1>3. \A b \in Block : Fee!Met(b)' => IsSaved(b)'
  BY DEF Fee!Met, Fee!NewData, IsSaved, Fee!DataOf, DataOf
<1>4. QED
  BY <1>2, <1>3 DEF IsSaved

\* The steps of MiniFee store block by block what the RAM buffers hold.
LEMMA FeeSaves ==
  ASSUME NvmInv, NvmInv', Saving, FeeWorks, touched' = touched
  PROVE  Saving'
<1>1. UNCHANGED <<initialized, current>>
  BY DEF FeeWorks, nvmVars
<1> SUFFICES ASSUME initialized, CurrentIs("WRITEALL")
             PROVE  /\ status' = "BUSY" => \A b \in Block : b \in left' \/ IsSaved(b)'
                    /\ status' = "OK" => late' = store' /\ \A b \in Block : IsSaved(b)'
  BY <1>1 DEF Saving, CurrentIs
<1>2. status = "BUSY" => job.kind = "WRITEALL"
  BY DEF NvmInv, FeeServesCurrent, CurrentIs
<1>3. CASE Fee!Persist
  <2>1. PICK S \in SUBSET Fee!Targets : store' = Fee!Replaced(S) /\ left' = left \ S
    BY <1>3 DEF Fee!Persist
  <2>2. status = "BUSY" /\ status' = "BUSY" /\ UNCHANGED <<ram, dirty>>
    BY <1>3 DEF Fee!Persist, Fee!caller
  <2>3. ASSUME NEW b \in Block, b \notin left' PROVE IsSaved(b)'
    <3>1. CASE b \in S
      <4>1. store'[b] = DataOf(b, ram[b])
        BY <1>2, <2>1, <2>2, <3>1
        DEF Fee!Replaced, Fee!NewData, Fee!DataOf, DataOf, Fee!Block, Block
      <4>2. QED
        BY <2>2, <4>1 DEF IsSaved, DataOf
    <3>2. CASE b \notin S
      <4>1. store'[b] = store[b] /\ b \notin left
        BY <2>1, <2>3, <3>2 DEF Fee!Replaced, Fee!Block, Block
      <4>2. IsSaved(b)
        BY <2>2, <4>1 DEF Saving
      <4>3. QED
        BY <2>2, <4>1, <4>2 DEF IsSaved, DataOf
    <3>3. QED
      BY <3>1, <3>2
  <2>4. QED
    BY <2>2, <2>3
<1>4. CASE Fee!DeliverOne \/ Fee!DeliverSome
  BY <1>2, <1>4 DEF Fee!DeliverOne, Fee!DeliverSome
<1>5. CASE Fee!EndOk
  <2>1. /\ status = "BUSY" /\ left = {} /\ late = store /\ status' = "OK"
        /\ UNCHANGED <<store, late, ram, dirty>>
    BY <1>5 DEF Fee!EndOk, Fee!caller
  <2>2. QED
    BY <2>1 DEF Saving, IsSaved, DataOf
<1>6. CASE Fee!EndNotOk
  BY <1>6 DEF Fee!EndNotOk
<1>7. CASE Fee!Land
  <2>1. late # store /\ UNCHANGED <<status, job>> /\ left' \in Fee!Opening'
    BY <1>7 DEF Fee!Land
  <2>2. status' # "OK"
    BY <2>1 DEF Saving
  <2>3. QED
    BY <1>2, <2>1, <2>2, OpenedWrite
<1>8. QED
  BY <1>3, <1>4, <1>5, <1>6, <1>7 DEF FeeWorks, Fee!Work

\* Every step keeps what is saved, or is told by touched that it does not.
LEMMA SavingStep ==
  ASSUME NvmInv, NvmInv', Saving, [MCNext]_mcVars
  PROVE  Saving'
<1>1. CASE UNCHANGED mcVars
  BY <1>1 DEF mcVars, vars, nvmVars, memory, feeVars, Saving, CurrentIs, IsSaved, DataOf
<1>2. CASE \E b \in Block : ~IsBlockPending(b) /\ UNCHANGED current
  BY <1>2 DEF IsBlockPending, Saving, CurrentIs, Bulk
<1>3. CASE \E b \in Block, v \in Value : MCWriteBlock(b, v)
  BY <1>2, <1>3 DEF MCWriteBlock, MiniNvm_WriteBlock, MiniNvm_WriteBlockSame, Enqueue, nvmVars
<1>4. ASSUME NEW b \in Block, NEW v \in Value, NEW len \in 0 .. DataCells[b],
             MCWriteRam(b, v, len)
      PROVE  Saving'
  <2>1. /\ MiniNvm_WriteRam(b, v, len) /\ UNCHANGED feeVars
        /\ touched' = IF IsBlockPending(b) THEN touched \cup {b} ELSE touched \ {b}
    BY <1>4 DEF MCWriteRam
  <2>2. UNCHANGED <<initialized, current, feeVars>>
    BY <2>1 DEF MiniNvm_WriteRam, nvmVars
  <2>3. CurrentIs("WRITEALL") => \A c \in Block : IsSaved(c) => IsSaved(c)'
    <3>1. ram \in [Block -> Data] /\ dirty \in [Block -> BOOLEAN]
      BY DEF NvmInv, Typed, NvmTypeOK
    <3>2. \A c \in Block : c # b => ram'[c] = ram[c] /\ dirty'[c] = dirty[c]
      BY <2>1, <3>1 DEF MiniNvm_WriteRam
    <3>3. CurrentIs("WRITEALL") => touched' = touched \cup {b}
      BY <2>1 DEF IsBlockPending, CurrentIs, Bulk
    <3>4. store' = store
      BY <2>1 DEF feeVars
    <3>5. QED
      BY <3>2, <3>3, <3>4 DEF IsSaved, DataOf
  <2>4. QED
    BY <2>2, <2>3 DEF Saving, CurrentIs, feeVars
<1>5. CASE MCWriteAll
  <2>1. initialized /\ ~current.valid
    BY <1>5 DEF MCWriteAll, WriteAll, MiniNvm_WriteAll, NoJobs
  <2>2. CASE Offered # {}
    <3>1. status # "BUSY"
      BY <2>1 DEF NvmInv, FeeServesCurrent
    <3>2. Fee!Accept("WRITEALL", 0)
      BY <1>5, <2>2, <3>1 DEF MCWriteAll, WriteAll, Ask
    <3>3. status' = "BUSY" /\ job'.kind = "WRITEALL" /\ left' \in Fee!Opening'
      BY <3>2 DEF Fee!Accept
    <3>4. QED
      BY <3>3, OpenedWrite DEF Saving
  <2>3. CASE Offered = {}
    BY <1>5, <2>1, <2>3 DEF MCWriteAll, WriteAll, MiniNvm_WriteAll, Saving, CurrentIs
  <2>4. QED
    BY <2>2, <2>3
<1>6. CASE ReadAll
  BY <1>6 DEF ReadAll, MiniNvm_ReadAll, StartBulk, Saving, CurrentIs,
              NvmInv, Typed, NvmTypeOK, Current
<1>7. CASE MCNoWrite
  BY <1>2, <1>6, <1>7 DEF MCNoWrite, MiniNvm_ReadBlock, MiniNvm_WriteBlockRefused, Enqueue, nvmVars
<1>8. CASE CancelJobs \/ Init \/ DeInit
  BY <1>8 DEF CancelJobs, Init, DeInit, MiniNvm_CancelJobs, MiniNvm_Init, MiniNvm_DeInit,
              ResetNvm, Saving, CurrentIs, NvmInv, Typed, NvmTypeOK, Current
<1>9. CASE StartNext
  <2>1. queue[head] \in Entry
    BY DEF NvmInv, Typed, NvmTypeOK
  <2>2. current'.op \in Single
    BY <1>9, <2>1 DEF StartNext, StartCurrent, Entry
  <2>3. QED
    BY <2>2 DEF Saving, CurrentIs, Single
<1>10. CASE EndCurrent
  <2>1. Finished
    BY <1>10 DEF EndCurrent, HandleCurrentResult, FinishReadAll, FinishWriteAll
  <2>2. QED
    BY <2>1 DEF Finished, Saving, CurrentIs, NvmInv, Typed, NvmTypeOK, Current
<1>11. CASE MCFeeWorks
  BY <1>11, FeeSaves DEF MCFeeWorks
<1>12. CASE MCCall
  BY <1>3, <1>4, <1>5, <1>7, <1>12 DEF MCCall
<1>13. QED
  BY <1>1, <1>8, <1>9, <1>10, <1>11, <1>12 DEF MCNext, MCStop, MCMain, Main

\* Only the end of a WriteAll with status OK clears dirty flags on its account.
LEMMA ClearedByEnd ==
  ASSUME NvmInv, [MCNext]_mcVars, NEW b \in Block, current.op = "WRITEALL", Cleared(b),
         multiResult' # "IDLE"
  PROVE  initialized /\ CurrentIs("WRITEALL") /\ status = "OK"
<1>1. current.valid /\ ~current'.valid /\ dirty[b] /\ ~dirty'[b] /\ CurrentIs("WRITEALL")
  BY DEF Cleared, CurrentIs
<1>2. [NvmNext]_vars
  BY BoundedStep
<1>3. ~UNCHANGED dirty /\ ~UNCHANGED current
  BY <1>1
<1>4. CASE Calls \/ FeeWorks \/ UNCHANGED vars
  BY <1>1, <1>3, <1>4
  DEF Calls, Call, MiniNvm_ReadBlock, MiniNvm_WriteBlock, MiniNvm_WriteBlockRefused, Enqueue,
      MiniNvm_WriteRam, ReadAll, WriteAll, MiniNvm_ReadAll, MiniNvm_WriteAll, FeeWorks,
      vars, nvmVars
<1>5. CASE CancelJobs \/ Init \/ DeInit
  BY <1>3, <1>5 DEF CancelJobs, Init, DeInit, MiniNvm_CancelJobs, MiniNvm_Init, MiniNvm_DeInit,
                    ResetNvm, memory
<1>6. CASE StartNext
  BY <1>1, <1>6 DEF StartNext, StartCurrent
<1>7. CASE EndCurrent
  <2>1. FinishWriteAll
    BY <1>7 DEF EndCurrent, HandleCurrentResult, FinishReadAll, Single
  <2>2. initialized /\ status = "OK"
    BY <1>1, <2>1 DEF FinishWriteAll, Finished
  <2>3. QED
    BY <1>1, <2>2
<1>8. QED
  BY <1>2, <1>4, <1>5, <1>6, <1>7 DEF NvmNext, Main

\* A WriteAll that ends OK clears the dirty flag of a block only if what its RAM
\* buffer holds is stored, for every block that nobody wrote to during the job.
THEOREM WriteAllSaves == MCSpec => BulkWriteSaves
<1> DEFINE Saves == \A b \in Block :
                      current.op = "WRITEALL" /\ Cleared(b) /\ multiResult' # "IDLE" /\ b \notin touched
                        => DataOf(b, ram[b]) = store[b]
<1>1. MCInit => NvmInit /\ Fee!Init /\ Saving
  BY DEF MCInit, NvmInit, Saving, CurrentIs
<1>2. NvmInv /\ NvmInv' /\ Saving /\ [MCNext]_mcVars => Saving'
  BY SavingStep
<1>3. NvmInv /\ Saving /\ [MCNext]_mcVars => [Saves]_mcVars
  <2>1. SUFFICES ASSUME NvmInv, Saving, [MCNext]_mcVars, NEW b \in Block,
                        current.op = "WRITEALL", Cleared(b), multiResult' # "IDLE", b \notin touched
                 PROVE  DataOf(b, ram[b]) = store[b]
    OBVIOUS
  <2>2. initialized /\ CurrentIs("WRITEALL") /\ status = "OK"
    BY <2>1, ClearedByEnd
  <2>3. IsSaved(b) /\ dirty[b]
    BY <2>1, <2>2 DEF Saving, Cleared
  <2>4. QED
    BY <2>1, <2>3 DEF IsSaved
<1>4. MCSpec => NvmSpec
  BY <1>1, BoundedStep, PTL DEF MCSpec, NvmSpec
<1>5. QED
  BY <1>1, <1>2, <1>3, <1>4, NvmInvariance, PTL DEF MCSpec, BulkWriteSaves
=============================================================================
