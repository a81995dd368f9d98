------------------------------- MODULE MCStack -------------------------------
(***************************************************************************)
(* The stack with a caller of bounded energy, who either keeps the rules   *)
(* that MiniFee.h sets for the buffers of a job in progress or does not.   *)
(***************************************************************************)
EXTENDS Stack

CONSTANTS MaxCalls, MaxStops,
          Careful   \* does the caller leave the buffers in use alone?

VARIABLES
  budget,   \* what is left of each
  may       \* history variable: may[b], what a read of b may find

mcVars == <<stackVars, budget, may>>

\* Block 0 takes one data cell, block 1 two.
MCDataCells == [b \in 0 .. 1 |-> b + 1]
\* A cluster of 7: header, one record of each block (2 and 3), one cell to spare.
MCClusterStart == [k \in 0 .. 1 |-> 7 * k]
MCClusterLen == [k \in 0 .. 1 |-> 7]
MCBuffer == {"clusterHdrBuf", "scanHdrBuf", "jobBuf", "writeHdrBuf"}
MCDescriptor == [b \in 0 .. 1 |-> [blockId |-> b + 1, miniFeeBlockId |-> b,
                                   dataCells |-> b + 1, hasRam |-> TRUE]]

\* Two writes of block 0 have been there: a second one of it fits, no other.
Worn == [a \in Addr |-> CASE a = 0        -> PackClusterHdr(1)
                          [] a \in {1, 3} -> PackBlockHdr(0)
                          [] a \in {2, 4} -> Zero
                          [] OTHER        -> Erased]

WornMedium == {Worn}
AnyMedium == {Blank, Worn}

MCInit ==
  /\ StackInit
  /\ budget = [calls |-> MaxCalls, stops |-> MaxStops]
  /\ may = [b \in Block |-> {durable[b]}]

Spend(what) == budget[what] > 0 /\ budget' = [budget EXCEPT ![what] = @ - 1]

Pending == multiResult = "PENDING" \/ \E b \in Block : blockResult[b] = "PENDING"

----------------------------------------------------------------------------
(* The caller                                                              *)

\* The one DataBuf: a careful caller writes a block only when nothing is pending.
MCWriteBlock(b, v) ==
  /\ Careful => ~Pending
  /\ Nvm!MiniNvm_WriteBlock(b, v)
  /\ may' = [may EXCEPT ![b] = @ \cup {DataOf(b, dataBuf')}]

\* A careful caller leaves the RAM buffers and the dirty flags alone during a
\* job for all blocks.
MCWriteRam(b, v) ==
  /\ Careful => multiResult # "PENDING"
  /\ Nvm!MiniNvm_WriteRam(b, v, DataCells[b])
  /\ UNCHANGED may

MCQuiet ==
  /\ \/ \E b \in Block : Nvm!MiniNvm_ReadBlock(b) /\ UNCHANGED may
     \/ \E b \in Block, v \in Value : MCWriteBlock(b, v) \/ MCWriteRam(b, v)
  /\ UNCHANGED below

MCWriteAll ==
  /\ WriteAll
  /\ may' = [b \in Block |-> IF dirty[b] THEN may[b] \cup {DataOf(b, ram[b])} ELSE may[b]]

MCCall ==
  /\ MCQuiet \/ MCWriteAll \/ (ReadAll /\ UNCHANGED may)
  /\ Spend("calls") /\ Follow

\* After a deinitialization a start is free.
MCStop ==
  /\ \/ Start /\ (IF initialized THEN Spend("stops") ELSE UNCHANGED budget)
     \/ CancelJobs /\ Spend("stops")
     \/ DeInit /\ (Careful => multiResult # "PENDING") /\ Spend("stops")
  /\ Follow /\ UNCHANGED may

----------------------------------------------------------------------------
(* The main functions                                                      *)

\* What the caller learns of the blocks when a job has ended OK.
Learned ==
  [b \in Block |->
    IF current.op \in Nvm!Single
    THEN IF b = current.block THEN {DataOf(b, dataBuf)} ELSE may[b]
    ELSE IF current.op = "READALL" \/ dirty[b] THEN {DataOf(b, ram[b])} ELSE may[b]]

MCNvmMain ==
  /\ NvmMain
  /\ may' = IF current.valid /\ status = "OK" THEN Learned ELSE may
  /\ UNCHANGED budget /\ Follow

MCFeeMain == FeeMain /\ UNCHANGED <<budget, may>> /\ Follow
MCFlsMain == FlsMain /\ UNCHANGED <<budget, may>> /\ Follow

MCNext == MCCall \/ MCStop \/ MCNvmMain \/ MCFeeMain \/ MCFlsMain

MCSpec == MCInit /\ [][MCNext]_mcVars

----------------------------------------------------------------------------
(* End to end                                                              *)

ReadEnds(b) == \/ /\ current.op = "READ" /\ current.block = b
                  /\ blockResult[b] = "PENDING" /\ blockResult'[b] = "OK"
               \/ /\ current.op = "READALL"
                  /\ multiResult = "PENDING" /\ multiResult' = "OK"

Delivered(b) == IF current.op = "READ" THEN DataOf(b, target'[b]) ELSE DataOf(b, ram[b])

\* SDD 9 (data is read back after a reset), MiniFee SDD (what is read is what was
\* written): a read that ends OK delivers the data of the last write that ended
\* OK, or of a later one that failed, was cancelled or was cut off by a start;
\* and what one read has delivered the next one delivers too.
ReadsWhatWasWritten ==
  [][\A b \in Block : ReadEnds(b) => Delivered(b) \in may[b]]_mcVars
=============================================================================
