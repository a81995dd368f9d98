------------------------------- MODULE FeeStore -------------------------------
(***************************************************************************)
(* What the flash holds, followed along the steps of MiniFee, and the      *)
(* refinement mapping to the abstract store.                               *)
(***************************************************************************)
EXTENDS FeeSafety

VARIABLES
  durable,  \* history variable: Recovered(flash), computed when flash changes
  landing   \* history variable: what it will be once an orphaned job has run

storeVars == <<durable, landing>>

\* A flash job nobody waits for: the job it served was cancelled.
Orphaned == flsOp.kind # "NONE" /\ state # "FLS_WAIT"

FollowInit == durable = Recovered(flash) /\ landing = durable

Follow ==
  /\ durable' = IF flash' = flash THEN durable ELSE Recovered(flash')
  /\ landing' = IF Orphaned' THEN LET image == Executed' IN Recovered(image) ELSE durable'

----------------------------------------------------------------------------
(* Losses of power                                                         *)

\* The data of a record whose programming stopped after n cells of it.
CutData(b, n) ==
  [i \in 0 .. DataCells[b] - 1 |-> IF i < n THEN TargetData(b)[i]
                                   ELSE IF i = n THEN Torn ELSE Erased]

\* SDD 5.5 (the source is kept, one can fall back): after a loss of power each
\* block that the job writes has its old content, its new content, or (CRC-8
\* covers headers only) the front of the new content before the place of the
\* loss: never an older record, another block's data, or new data from a
\* half-made migration.
LossLeavesOldOrNew ==
  [][\A b \in Block : Written(b) /\ durable'[b] # durable[b] =>
       \/ durable'[b] = DataOf(b, TargetData(b))
       \/ \E n \in 0 .. DataCells[b] - 1 : durable'[b] = CutData(b, n)]_<<vars, storeVars>>

----------------------------------------------------------------------------
(* Refinement: MiniFee implements BlockStore                               *)

Asked == CASE job.kind = "READ"    -> {job.blockNumber}
           [] job.kind = "READALL" -> Block
           [] OTHER                -> {b \in Block : Target(b)}

AsAsked(b) == CASE job.kind = "READ"    -> DataOf(b, dataBuf) = durable[b]
                [] job.kind = "READALL" -> DataOf(b, ram[b]) = durable[b]
                [] OTHER                -> DataOf(b, TargetData(b)) = durable[b]

StillAsked == IF status = "BUSY" THEN {b \in Asked : ~AsAsked(b)} ELSE {}

JobAsked == IF status = "BUSY" THEN [kind |-> job.kind, blockNumber |-> job.blockNumber]
            ELSE [kind |-> "NONE", blockNumber |-> 0]

Store == INSTANCE BlockStore WITH
  store <- durable, late <- landing, left <- StillAsked, job <- JobAsked

\* Every step of the state machine is a step of the abstract store or none: each
\* accepted write reaches flash for all of its blocks before it reports OK, each
\* read delivers what is durable, and neither a migration nor a reset at any
\* point of one changes what any block holds.
ImplementsStore == Store!Spec
=============================================================================
