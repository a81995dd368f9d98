-------------------------------- MODULE Stack --------------------------------
(***************************************************************************)
(* The whole stack: MiniNvm above MiniFee above Fls, over one memory.      *)
(* Each function of MiniNvm that calls MiniFee is joined with the function *)
(* it calls; MiniFee's callbacks read and write ram and dirty directly.    *)
(* The caller and the three main functions take turns in any order; the    *)
(* cycle of main.c is one of them.                                         *)
(***************************************************************************)
EXTENDS FeeStore

CONSTANTS
  QueueSize, BlockDescriptor,   \* as in MiniNvm
  Media                         \* what the medium may hold at the first start

ASSUME MediaAssumption == Media \subseteq [Addr -> Cell]

ASSUME RingAssumption == QueueSize \in Nat \ {0}

VARIABLES
  initialized, current, queue, head, tail, count,
  blockResult, multiResult, target   \* as in MiniNvm

Nvm == INSTANCE MiniNvm

below == <<flsVars, feeVars>>
nvmVars == <<initialized, current, queue, head, tail, count, blockResult, multiResult, target>>
stackVars == <<vars, storeVars, nvmVars>>

----------------------------------------------------------------------------
(* The functions of MiniNvm with the calls they make                        *)

Quiet == Nvm!Call /\ UNCHANGED below

ReadAll ==
  /\ Nvm!MiniNvm_ReadAll
  /\ IF status # "BUSY" THEN MiniFee_ReadAll ELSE UNCHANGED below

WriteAll ==
  /\ Nvm!MiniNvm_WriteAll
  /\ IF status # "BUSY" /\ Nvm!Offered # {} THEN MiniFee_WriteAll(Nvm!Offered)
     ELSE UNCHANGED below

\* MiniFee answers E_OK to a request for an empty block and does nothing.
StartNext ==
  LET entry == queue[head]
  IN  /\ Nvm!StartCurrent
      /\ IF status = "BUSY" \/ ~HasData(entry.block) THEN UNCHANGED below
         ELSE IF entry.op = "READ" THEN MiniFee_Read(entry.block)
         ELSE MiniFee_Write(entry.block)

\* Mutant: MiniFee is left to its job.
CancelJobs_KeepsJob == Nvm!MiniNvm_CancelJobs /\ UNCHANGED below

CancelJobs ==
  /\ Nvm!MiniNvm_CancelJobs
  /\ IF current.valid /\ status = "BUSY" THEN MiniFee_Cancel ELSE UNCHANGED below

DeInit == Nvm!MiniNvm_DeInit /\ UNCHANGED below

\* Mutant: MiniFee keeps its job and its directory.
Start_NvmOnly == Nvm!MiniNvm_Init /\ UNCHANGED below

\* MiniNvm_Init at a start of the program, or again while it runs.
Start == Nvm!MiniNvm_Init /\ MiniFee_Init(flash)

----------------------------------------------------------------------------
(* The main functions                                                      *)

NvmMain ==
  \/ StartNext
  \/ Nvm!EndCurrent /\ UNCHANGED below

FeeMain == MiniFee_MainFunction /\ UNCHANGED nvmVars

FlsMain == Driver /\ UNCHANGED nvmVars

StackInit ==
  /\ \E image \in Media : InitOn(image)
  /\ FollowInit
  /\ Nvm!NvmInit

StackNext ==
  /\ \/ Quiet \/ ReadAll \/ WriteAll
     \/ CancelJobs \/ DeInit \/ Start
     \/ NvmMain \/ FeeMain \/ FlsMain
  /\ Follow

StackSpec == StackInit /\ [][StackNext]_stackVars

----------------------------------------------------------------------------
(* What must hold                                                          *)

Abstract == INSTANCE NvmOnStore WITH
  store <- durable, late <- landing, left <- StillAsked, job <- JobAsked

\* MiniNvm above the full MiniFee does what it does above the abstract store: all
\* that is shown of it there (nvm_requests) holds of the whole.
ImplementsNvmOnStore == Abstract!NvmSpec

\* While the module is in service MiniFee, with all its states, is busy only with
\* the current job of MiniNvm.
StackServesCurrent == Abstract!FeeServesCurrent
=============================================================================
