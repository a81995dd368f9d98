----------------------------- MODULE RequestQueue -----------------------------
(***************************************************************************)
(* What MiniNvm promises to its callers about requests: those of single    *)
(* blocks are served one at a time in the order they were accepted, at     *)
(* most one for each block; a job for all blocks has the module to itself. *)
(* Each accepted request stays PENDING until it is answered, once, by its  *)
(* own end, by a cancellation or by a reset.                               *)
(***************************************************************************)
EXTENDS FeeFormat, Sequences

VARIABLES
  waiting,      \* the requests accepted and not yet started, oldest first
  serving,      \* the request in progress, or none
  blockResult, multiResult

vars == <<waiting, serving, blockResult, multiResult>>

None   == [op |-> "NONE", block |-> 0]
Single == {"READ", "WRITE"}
Bulk   == {"READALL", "WRITEALL"}

Init ==
  /\ waiting = <<>>
  /\ serving = None
  /\ blockResult = [b \in Block |-> "IDLE"]
  /\ multiResult = "IDLE"

Waits(b) == \/ serving.op \in Single /\ serving.block = b
            \/ \E i \in DOMAIN waiting : waiting[i].block = b

Submit(op, b) ==
  /\ serving.op \notin Bulk
  /\ ~Waits(b)
  /\ waiting' = Append(waiting, [op |-> op, block |-> b])
  /\ blockResult' = [blockResult EXCEPT ![b] = "PENDING"]
  /\ UNCHANGED <<serving, multiResult>>

Serve ==
  /\ serving = None
  /\ waiting # <<>>
  /\ serving' = Head(waiting)
  /\ waiting' = Tail(waiting)
  /\ UNCHANGED <<blockResult, multiResult>>

Reply(r) ==
  /\ serving.op \in Single
  /\ serving' = None
  /\ blockResult' = [blockResult EXCEPT ![serving.block] = r]
  /\ UNCHANGED <<waiting, multiResult>>

SubmitBulk(op) ==
  /\ serving = None /\ waiting = <<>>
  /\ serving' = [op |-> op, block |-> 0]
  /\ multiResult' = "PENDING"
  /\ UNCHANGED <<waiting, blockResult>>

\* Nothing to write.
SkipBulk ==
  /\ serving = None /\ waiting = <<>>
  /\ multiResult' = "OK"
  /\ UNCHANGED <<waiting, serving, blockResult>>

\* All blocks have the result of a read, those it was about that of a write.
ReplyBulk(r) ==
  /\ serving.op \in Bulk
  /\ serving' = None
  /\ multiResult' = r
  /\ \E S \in SUBSET Block :
       /\ serving.op = "READALL" => S = Block
       /\ blockResult' = [b \in Block |-> IF b \in S THEN r ELSE blockResult[b]]
  /\ UNCHANGED waiting

\* Whoever waits is told.
Cancel ==
  /\ serving.op \notin Bulk
  /\ serving # None \/ waiting # <<>>
  /\ waiting' = <<>> /\ serving' = None
  /\ blockResult' = [b \in Block |-> IF Waits(b) THEN "NOT_OK" ELSE blockResult[b]]
  /\ multiResult' = "NOT_OK"

Reset ==
  /\ waiting' = <<>> /\ serving' = None
  /\ blockResult' = [b \in Block |-> "IDLE"]
  /\ multiResult' = "IDLE"

Next ==
  \/ \E op \in Single, b \in Block : Submit(op, b)
  \/ Serve \/ \E r \in {"OK", "NOT_OK"} : Reply(r)
  \/ \E op \in Bulk : SubmitBulk(op)
  \/ SkipBulk \/ \E r \in {"OK", "NOT_OK"} : ReplyBulk(r)
  \/ Cancel \/ Reset

Spec == Init /\ [][Next]_vars
=============================================================================
