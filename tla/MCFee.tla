-------------------------------- MODULE MCFee --------------------------------
(***************************************************************************)
(* MiniFee with a caller and an environment of bounded energy: so many     *)
(* jobs, cancellations, resets, losses of power and failing flash jobs.    *)
(***************************************************************************)
EXTENDS FeeStore

CONSTANTS MaxJobs, MaxCancels, MaxResets, MaxLosses, MaxFaults

VARIABLE budget   \* what is left of each

mcVars == <<vars, storeVars, budget>>

\* Block 0 takes one data cell, block 1 two.
MCDataCells == [b \in 0 .. 1 |-> b + 1]
\* A cluster of 7: header, one record of each block (2 and 3), one cell to spare.
MCClusterStart == [k \in 0 .. 1 |-> 7 * k]
MCClusterLen == [k \in 0 .. 1 |-> 7]
\* Clusters too small for a record of each block.
SmallClusterStart == [k \in 0 .. 1 |-> 5 * k]
SmallClusterLen == [k \in 0 .. 1 |-> 5]
MCBuffer == {"clusterHdrBuf", "scanHdrBuf", "jobBuf", "writeHdrBuf"}

MCInit ==
  /\ Init
  /\ FollowInit
  /\ budget = [jobs |-> MaxJobs, cancels |-> MaxCancels, resets |-> MaxResets,
               losses |-> MaxLosses, faults |-> MaxFaults]

Spend(what) == budget[what] > 0 /\ budget' = [budget EXCEPT ![what] = @ - 1]

MCMain == MiniFee_MainFunction /\ UNCHANGED budget /\ Follow
MCDriver == Driver /\ UNCHANGED budget /\ Follow

MCNext ==
  \/ Submit /\ Spend("jobs") /\ Follow
  \/ MiniFee_Cancel /\ Spend("cancels") /\ Follow
  \/ MCMain
  \/ MCDriver
  \/ Reset /\ Spend("resets") /\ Follow
  \/ PowerLoss /\ Spend("losses") /\ Follow
  \/ DriverFails /\ Spend("faults") /\ Follow

MCSpec == MCInit /\ [][MCNext]_mcVars

MCLiveSpec == MCSpec /\ WF_mcVars(MCMain) /\ WF_mcVars(MCDriver)
=============================================================================
