------------------------------ MODULE BlockStore ------------------------------
(***************************************************************************)
(* What MiniFee promises to its caller: every block has one durable        *)
(* content; a job in progress replaces the content of the blocks it writes *)
(* by the new data, each block at once, in some order and grouping; it     *)
(* ends OK only when none is left, a read only when the caller's buffer    *)
(* was given the durable content.  A reset between two steps takes back    *)
(* nothing that was durable.                                               *)
(*                                                                         *)
(* A cancelled job leaves the flash job it had started: late is the store  *)
(* as it will be once that job has run, and equals store if there is none. *)
(* A later job achieves nothing before that.                               *)
(*                                                                         *)
(* MiniFee implements it (FeeStore) for callers that leave their buffers   *)
(* alone; MiniNvm is built on it (NvmOnStore) and does not always do so:   *)
(* left says which blocks have not been stored or delivered yet, so that   *)
(* what the buffer holds at that moment counts, not what it holds later.   *)
(***************************************************************************)
EXTENDS FeeFormat

VARIABLES
  store,    \* store[b]: the durable content of block b
  late,
  left,
  status,   \* what MiniFee_GetStatus returns
  job,      \* kind and blockNumber of the job in progress
  dataBuf, ram, dirty   \* the caller's memory, as in MiniFee

caller == <<dataBuf, ram, dirty>>
vars == <<store, late, left, status, job, caller>>

NoneYet == [kind |-> "NONE", blockNumber |-> 0]

Target(b) == \/ job.kind = "WRITE" /\ b = job.blockNumber
             \/ job.kind = "WRITEALL" /\ dirty[b]

NewData(b) == DataOf(b, IF job.kind = "WRITEALL" THEN ram[b] ELSE dataBuf)

\* The store once the blocks of S hold the new data of the job.
Replaced(S) == LET old == store
               IN  [b \in Block |-> IF b \in S THEN NewData(b) ELSE old[b]]

Targets == {b \in Block : Target(b)}

Asked == CASE job.kind = "READ"    -> {job.blockNumber}
           [] job.kind = "READALL" -> Block
           [] OTHER                -> Targets

Met(b) == CASE job.kind = "READ"    -> DataOf(b, dataBuf) = store[b]
            [] job.kind = "READALL" -> DataOf(b, ram[b]) = store[b]
            [] OTHER                -> store[b] = NewData(b)

\* What a job may have left to do when it begins: a block that is as asked
\* already may count as done or not.
Opening == {S \in SUBSET Asked : \A b \in Asked : Met(b) \/ b \in S}

\* The first cells of a buffer overwritten with the content of block b.
Overwrite(buf, b) == [i \in DataIdx |-> IF i < DataCells[b] THEN store[b][i] ELSE buf[i]]

Init ==
  /\ store = [b \in Block |-> Zeros(b)]
  /\ late = store
  /\ left = {}
  /\ status = "IDLE"
  /\ job = NoneYet
  /\ dataBuf \in [DataIdx -> {Zero}]
  /\ ram \in [Block -> [DataIdx -> {Zero}]]
  /\ dirty = [b \in Block |-> FALSE]

\* A request is accepted; what the caller's memory holds from then on is up to
\* the caller, who set it with the call.
Accept(kind, b) ==
  /\ status # "BUSY"
  /\ status' = "BUSY"
  /\ job' = [kind |-> kind, blockNumber |-> b]
  /\ UNCHANGED <<store, late>>
  /\ left' \in Opening'

\* Some blocks of the write job become durable.
Persist ==
  /\ status = "BUSY" /\ late = store
  /\ UNCHANGED <<status, job, caller>>
  /\ \E S \in SUBSET Targets :
       LET new == Replaced(S)
       IN  /\ S # {}
           /\ store' = new /\ late' = new
           /\ left' = left \ S

DeliverOne ==
  /\ status = "BUSY" /\ late = store /\ job.kind = "READ"
  /\ job.blockNumber \in left
  /\ dataBuf' = Overwrite(dataBuf, job.blockNumber)
  /\ left' = {}
  /\ UNCHANGED <<store, late, status, job, ram, dirty>>

DeliverSome ==
  /\ status = "BUSY" /\ late = store /\ job.kind = "READALL"
  /\ \E b \in left : /\ ram' = [ram EXCEPT ![b] = Overwrite(@, b)]
                     /\ left' = left \ {b}
  /\ UNCHANGED <<store, late, status, job, dataBuf, dirty>>

EndOk ==
  /\ status = "BUSY" /\ late = store /\ left = {}
  /\ status' = "OK" /\ job' = NoneYet
  /\ UNCHANGED <<store, late, left, caller>>

\* A flash job failed, or the flash is still at work for a cancelled job.
EndNotOk ==
  /\ status = "BUSY"
  /\ status' = "NOT_OK" /\ job' = NoneYet /\ left' = {}
  /\ UNCHANGED <<store, late, caller>>

Cancel ==
  /\ status = "BUSY"
  /\ status' = "NOT_OK" /\ job' = NoneYet /\ left' = {}
  /\ IF late = store THEN \E S \in SUBSET Targets : late' = Replaced(S)
     ELSE UNCHANGED late
  /\ UNCHANGED <<store, caller>>

\* The flash job of a cancelled job is over.
Land ==
  /\ late # store
  /\ store' = late
  /\ UNCHANGED <<late, status, job, caller>>
  /\ left' \in Opening'

\* The caller's memory after a reset is up to the caller too.
Reset ==
  /\ status' = "IDLE" /\ job' = NoneYet /\ left' = {}
  /\ late' = store
  /\ UNCHANGED store

\* The steps that MiniFee takes by itself.
Work == Persist \/ DeliverOne \/ DeliverSome \/ EndOk \/ EndNotOk \/ Land

Next ==
  \/ \E kind \in {"READ", "READALL", "WRITE", "WRITEALL"}, b \in Block : Accept(kind, b)
  \/ Work \/ Cancel \/ Reset

Spec == Init /\ [][Next]_vars
=============================================================================
