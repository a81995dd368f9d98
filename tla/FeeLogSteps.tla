----------------------------- MODULE FeeLogSteps -----------------------------
(***************************************************************************)
(* Calls, cancellations, restarts and the sub-states of ProcessFindAddr    *)
(* keep LogInv: one lemma for each of them.                                *)
(***************************************************************************)
EXTENDS FeeLogProof

----------------------------------------------------------------------------
(* The ends of a job                                                       *)

\* A directory that is trusted stays so while nothing happens to the medium.
LEMMA TrustKept ==
  ASSUME LogInv, ~Moving, dir' = dir, Executed' = Executed
  PROVE  Trusted'
  BY DirKept DEF LogInv, Trusted

\* At rest only the flash, the trust and the absence of faults are left to show.
LEMMA RestLog ==
  ASSUME FlashOK(flash)', FlightOK', Trusted', NoFault',
         Cont' \in {"IDLE", "ERROR", "READ_DONE", "WRITE_DONE", "READ_VERIFY_COPY"}
  PROVE  LogInv'
  BY AtRest DEF LogInv

\* A job that is done leaves a directory to trust.
LEMMA DoneLog == FeeInv /\ LogInv /\ JobDone => LogInv'
<1> SUFFICES ASSUME LogInv, JobDone PROVE LogInv'
  OBVIOUS
<1>1. /\ state \in {"READ_DONE", "WRITE_DONE"} /\ state' = "IDLE"
      /\ UNCHANGED <<flash, mem, flsOp, dir, find>>
  BY DEF JobDone, FinalizeOk, flsVars
<1>2. Cont \in {"READ_DONE", "WRITE_DONE"} /\ Cont' = "IDLE"
  BY <1>1 DEF Cont
<1>3. ~Moving
  BY <1>2 DEF Moving, At
<1>4. FlashOK(flash)' /\ FlightOK' /\ Executed' = Executed
  BY <1>1, JobKept
<1>5. Trusted' /\ NoFault'
  BY <1>1, <1>2, <1>3, <1>4, TrustKept DEF NoFault
<1>6. QED
  BY <1>2, <1>4, <1>5, RestLog

\* A job that fails trusts no directory.
LEMMA ErrorLog == FeeInv /\ LogInv /\ JobError => LogInv'
<1> SUFFICES ASSUME LogInv, JobError PROVE LogInv'
  OBVIOUS
<1>1. state = "ERROR" /\ state' = "IDLE" /\ UNCHANGED <<flash, mem, flsOp, dir, find>>
  BY DEF JobError, FinalizeErr, flsVars
<1>2. Cont = "ERROR" /\ Cont' = "IDLE"
  BY <1>1 DEF Cont
<1>3. FlashOK(flash)' /\ FlightOK'
  BY <1>1, JobKept
<1>4. Trusted' /\ NoFault'
  BY <1>1, <1>2 DEF LogInv, NoFault, Trusted
<1>5. QED
  BY <1>2, <1>3, <1>4, RestLog

\* Nor does a job that is cancelled, and what is in flight stays in flight.
LEMMA CancelLog == FeeInv /\ LogInv /\ MiniFee_Cancel => LogInv'
<1> SUFFICES ASSUME FeeInv, LogInv, MiniFee_Cancel PROVE LogInv'
  OBVIOUS
<1>1. state' = "IDLE" /\ UNCHANGED <<flash, mem, flsOp, find>>
  BY DEF MiniFee_Cancel, flsVars
<1>2. Cont' = "IDLE"
  BY <1>1 DEF Cont
<1>3. ~dir'.valid
  BY DEF MiniFee_Cancel, FeeInv, TypeOK, Dir
<1>4. FlashOK(flash)' /\ FlightOK'
  BY <1>1, JobKept
<1>5. Trusted' /\ NoFault'
  BY <1>1, <1>2, <1>3 DEF NoFault, Trusted
<1>6. QED
  BY <1>2, <1>4, <1>5, RestLog

\* A start of the program forgets everything but the medium, however it was left.
LEMMA RestartLog ==
  ASSUME NEW image, FlashOK(image), Restart(image)
  PROVE  LogInv'
<1>1. /\ flash' = image /\ flsOp' = NoOp /\ state' = "IDLE" /\ dir' = NoDir /\ find' = NoFind
  BY DEF Restart, MiniFee_Init, Fls_Reinit, ResetContext
<1>2. Cont' = "IDLE"
  BY <1>1 DEF Cont
<1>3. FlashOK(flash)' /\ FlightOK'
  BY <1>1, NoOpType DEF FlightOK
<1>4. ~dir'.valid /\ ~find'.err
  BY <1>1 DEF NoDir, NoFind
<1>5. Trusted' /\ NoFault'
  BY <1>1, <1>2, <1>4 DEF NoFault, Trusted
<1>6. QED
  BY <1>2, <1>3, <1>5, RestLog

\* A reset, with or without a loss of power.
LEMMA ResetLog == FeeInv /\ LogInv /\ (Reset \/ PowerLoss) => LogInv'
<1> SUFFICES ASSUME FeeInv, LogInv, Reset \/ PowerLoss PROVE LogInv'
  OBVIOUS
<1>1. PICK image \in Images : Restart(image)
  BY DEF Reset, PowerLoss, Images, Interrupted
<1>2. FlashOK(image)
  BY ImagesOK DEF FeeInv, FlsOK, LogInv
<1>3. QED
  BY <1>2, <1>1, RestartLog

----------------------------------------------------------------------------
(* The API                                                                 *)

\* What is left of the active cluster, which is shorter than a word can count.
LEMMA FreeIs ==
  ASSUME FeeInv, NEW fl, Active(fl), dir.headerEnd = Log(fl, dir.index).end
  PROVE  /\ Free = ClusterLen[dir.index] - dir.headerEnd
         /\ dir.index \in Cluster /\ dir.headerEnd \in HeaderSize .. ClusterLen[dir.index]
         /\ ClusterLen[dir.index] \in Nat
<1>1. dir.index \in Cluster
  BY DEF Active, ValidClusters
<1>2. /\ ClusterLen[dir.index] \in Nat /\ ClusterLen[dir.index] < WordMod
      /\ dir.headerEnd \in HeaderSize .. ClusterLen[dir.index]
  BY <1>1, RoomAssumption, Room, LogFacts
<1>3. WordMod \in Nat \ {0}
  BY FeeAssumption
<1>4. ClusterLen[dir.index] - dir.headerEnd \in 0 .. WordMod - 1
  BY <1>2, <1>3 DEF HeaderSize
<1>5. \A n \in 0 .. WordMod - 1 : n % WordMod = n
  BY <1>3
<1>6. QED
  BY <1>1, <1>2, <1>4, <1>5 DEF Free

\* What is described is the cluster the directory is about, if there is one.
LEMMA DescribesActive ==
  ASSUME NEW fl, Describes(fl), dir.gen # NoGen
  PROVE  Active(fl) /\ dir.offset = Log(fl, dir.index).last /\ dir.headerEnd = Log(fl, dir.index).end
  BY DEF Describes

\* A job that looks for the active cluster has found none so far.
LEMMA SearchLog ==
  ASSUME FeeInv, LogInv, state = "IDLE", NEW ret, NEW type, StartFindAddr(ret, type),
         UNCHANGED <<flash, mem, flsOp, dir>>, Underway'
  PROVE  LogInv'
<1>1. Cont = "IDLE" /\ Cont' = "FIND_PROC" /\ state' = "FIND_PROC"
  BY DEF Cont, StartFindAddr
<1>2. /\ find'.sub = "START" /\ find'.clusterIdx = 0 /\ find'.bestGen = 0
      /\ find'.hasData = FALSE /\ find'.err = FALSE
  BY DEF StartFindAddr, NoFind
<1>3. FlashOK(flash)' /\ FlightOK' /\ Executed' = Executed
  BY JobKept
<1>4. Trusted'
  <2>1. ~Moving
    BY <1>1 DEF Moving, At
  <2>2. QED
    BY <1>3, <2>1, TrustKept
<1>5. NoFault'
  BY <1>1, <1>2 DEF NoFault
<1>6. At({"START"})' /\ At(Search)'
  BY <1>1, <1>2 DEF At, Search
<1>7. Looking'
  <2>1. {k \in ValidClusters(Executed') : k < find'.clusterIdx} = {}
    <3>1. \A k \in Cluster : ~(k < 0)
      BY ClusterAssumption DEF Cluster
    <3>2. QED
      BY <1>2, <3>1 DEF ValidClusters
  <2>2. Looked(Executed)'
    BY <1>2, <2>1 DEF Looked
  <2>3. ~At({"READ_CLUSTER_HDR_DONE"})' /\ ~At({"DECIDE"})'
    BY <1>2 DEF At
  <2>4. QED
    BY <2>2, <2>3 DEF Looking
<1>8. QED
  BY <1>3, <1>4, <1>5, <1>6, <1>7, PlaceNext DEF LogInv, Elsewhere

\* A job that starts with the directory at hand.
LEMMA DirectLog ==
  ASSUME FeeInv, LogInv, state = "IDLE", dir.valid,
         NEW st \in {"READ_BY_DIR", "READALL_FILL", "WRITE_MAIN_LOOP_PROC", "WRITEALL_APPEND"},
         Directly(st), UNCHANGED <<flash, mem, flsOp, dir>>, Underway',
         st \in {"WRITE_MAIN_LOOP_PROC", "WRITEALL_APPEND"} => dir.gen # NoGen /\ HasRoom'
  PROVE  LogInv'
<1>1. Cont = "IDLE" /\ Cont' = st /\ state' = st
  BY DEF Cont, Directly
<1>2. ~find'.err
  BY DEF Directly, NoFind
<1>3. FlashOK(flash)' /\ FlightOK' /\ Executed' = Executed
  BY JobKept
<1>4. ~Moving
  BY <1>1 DEF Moving, At
<1>5. Trusted' /\ NoFault'
  BY <1>1, <1>2, <1>3, <1>4, TrustKept DEF NoFault
<1>6. Describes(Executed) /\ (dir.gen # NoGen => Appends(Executed))
  BY <1>4 DEF LogInv, Trusted
<1>7. Describes(Executed)' /\ (dir.gen # NoGen => Appends(Executed)')
  BY <1>3, <1>6, DirKept
<1>8. Reading' /\ Appending'
  <2>1. \A states : Toward(states)' => st \in states
    BY <1>1 DEF Toward, At
  <2>2. QED
    BY <1>7, <2>1 DEF Reading, Appending
<1>9. QED
  BY <1>1, <1>3, <1>5, <1>8, PlaceNext DEF LogInv, Elsewhere

\* A request that is accepted.
LEMMA SubmitLog == FeeInv /\ LogInv /\ Submit => LogInv'
<1> SUFFICES ASSUME FeeInv, LogInv, Submit PROVE LogInv'
  OBVIOUS
<1>0. ASSUME NEW new, StartJob(new)
      PROVE  /\ state = "IDLE" /\ UNCHANGED <<flash, mem, flsOp, dir>> /\ job' = new
             /\ flsWaitReturn' = "IDLE"
  BY <1>0 DEF StartJob, ResetJob, flsVars, FeeInv, RestWhenNotBusy
<1>1. ASSUME NEW needed, Appendable(needed), state = "IDLE"
      PROVE  /\ dir.valid /\ dir.gen # NoGen /\ ClusterLen[dir.index] - dir.headerEnd >= needed
             /\ ClusterLen[dir.index] \in Nat /\ dir.headerEnd \in Nat
  <2>1. dir.valid /\ dir.gen # NoGen
    BY <1>1 DEF Appendable
  <2>2. ~Moving
    BY <1>1 DEF Moving, At, Cont
  <2>3. Active(Executed) /\ dir.headerEnd = Log(Executed, dir.index).end
    BY <2>1, <2>2, DescribesActive DEF LogInv, Trusted
  <2>4. /\ Free = ClusterLen[dir.index] - dir.headerEnd /\ ClusterLen[dir.index] \in Nat
        /\ dir.headerEnd \in HeaderSize .. ClusterLen[dir.index]
    BY <2>3, FreeIs
  <2>5. QED
    BY <1>1, <2>1, <2>4 DEF Appendable, HeaderSize
<1>2. ASSUME NEW b \in Block, CallRead(b) PROVE LogInv'
  <2>1. /\ StartJob([NoJob EXCEPT !.kind = "READ", !.blockNumber = b])
        /\ IF dir.valid THEN Directly("READ_BY_DIR") ELSE StartFindAddr("READ_BY_DIR", "READ")
    BY <1>2 DEF CallRead, MiniFee_Read
  <2>2. state = "IDLE" /\ job'.kind = "READ" /\ job'.nextBlock = 0
        /\ UNCHANGED <<flash, mem, flsOp, dir>>
    <3>1. /\ state = "IDLE" /\ UNCHANGED <<flash, mem, flsOp, dir>>
          /\ job' = [NoJob EXCEPT !.kind = "READ", !.blockNumber = b]
      BY <1>0, <2>1
    <3>2. QED
      BY <3>1 DEF NoJob
  <2>3. Underway'
    BY <2>1, <2>2 DEF Underway, JobState, Cont, Directly, StartFindAddr, NoFind
  <2>4. QED
    BY <2>1, <2>2, <2>3, SearchLog, DirectLog
<1>3. ASSUME NEW b \in Block, NEW v \in Value, CallWrite(b, v) PROVE LogInv'
  <2>1. /\ StartJob([NoJob EXCEPT !.kind = "WRITE", !.blockNumber = b])
        /\ IF Appendable(BlockTotal(DataCells[b])) THEN Directly("WRITE_MAIN_LOOP_PROC")
           ELSE StartFindAddr("WRITE_MAIN_LOOP_PROC", "WRITE")
    BY <1>3 DEF CallWrite, MiniFee_Write
  <2>2. state = "IDLE" /\ job'.kind = "WRITE" /\ job'.nextBlock = 0 /\ job'.blockNumber = b
        /\ UNCHANGED <<flash, mem, flsOp, dir>>
    <3>1. /\ state = "IDLE" /\ UNCHANGED <<flash, mem, flsOp, dir>>
          /\ job' = [NoJob EXCEPT !.kind = "WRITE", !.blockNumber = b]
      BY <1>0, <2>1
    <3>2. QED
      BY <3>1 DEF NoJob
  <2>3. Underway'
    BY <2>1, <2>2 DEF Underway, JobState, Cont, Directly, StartFindAddr, NoFind
  <2>4. Appendable(BlockTotal(DataCells[b])) => dir.gen # NoGen /\ HasRoom'
    <3>1. Remaining' = {b} /\ TotalOf({b}) = BlockTotal(DataCells[b])
      BY <2>2, TotalOfOne DEF Remaining
    <3>2. BlockTotal(DataCells[b]) \in Nat
      BY BlockTotalType
    <3>3. QED
      BY <1>1, <2>2, <3>1, <3>2 DEF HasRoom
  <2>5. Appendable(BlockTotal(DataCells[b])) => dir.valid
    BY DEF Appendable
  <2>6. QED
    BY <2>1, <2>2, <2>3, <2>4, <2>5, SearchLog, DirectLog
<1>4. ASSUME NEW S \in SUBSET Block, NEW v \in Value, CallWriteAll(S, v) PROVE LogInv'
  <2>1. /\ StartJob([NoJob EXCEPT !.kind = "WRITEALL", !.counted = S])
        /\ IF Appendable(TotalOf(S)) THEN Directly("WRITEALL_APPEND")
           ELSE StartFindAddr("WRITEALL_APPEND", "WRITE")
        /\ dirty' = [b \in Block |-> b \in S]
    BY <1>4 DEF CallWriteAll, MiniFee_WriteAll
  <2>2. state = "IDLE" /\ job'.kind = "WRITEALL" /\ job'.nextBlock = 0 /\ job'.counted = S
        /\ UNCHANGED <<flash, mem, flsOp, dir>>
    <3>1. /\ state = "IDLE" /\ UNCHANGED <<flash, mem, flsOp, dir>>
          /\ job' = [NoJob EXCEPT !.kind = "WRITEALL", !.counted = S]
      BY <1>0, <2>1
    <3>2. QED
      BY <3>1 DEF NoJob
  <2>3. S = {b \in Block : dirty'[b]}
    BY <2>1
  <2>4. Underway'
    BY <2>1, <2>2, <2>3 DEF Underway, JobState, Cont, Directly, StartFindAddr, NoFind
  <2>5. Appendable(TotalOf(S)) => dir.gen # NoGen /\ HasRoom'
    <3>1. Remaining' = S
      <4>1. \A b \in Block : b >= 0
        BY BlockAssumption DEF Block
      <4>2. QED
        BY <2>2, <2>3, <4>1 DEF Remaining
    <3>2. TotalOf(S) \in Nat
      BY TotalMonotone
    <3>3. QED
      BY <1>1, <2>2, <3>1, <3>2 DEF HasRoom
  <2>6. Appendable(TotalOf(S)) => dir.valid
    BY DEF Appendable
  <2>7. QED
    BY <2>1, <2>2, <2>4, <2>5, <2>6, SearchLog, DirectLog
<1>5. ASSUME CallReadAll PROVE LogInv'
  <2>1. /\ StartJob([NoJob EXCEPT !.kind = "READALL"])
        /\ IF dir.valid THEN Directly("READALL_FILL") ELSE StartFindAddr("READALL_FILL", "READ")
    BY <1>5 DEF CallReadAll, MiniFee_ReadAll
  <2>2. state = "IDLE" /\ job'.kind = "READALL" /\ job'.nextBlock = 0
        /\ UNCHANGED <<flash, mem, flsOp, dir>>
    BY <1>0, <2>1 DEF NoJob
  <2>3. Underway'
    BY <2>1, <2>2 DEF Underway, JobState, Cont, Directly, StartFindAddr, NoFind
  <2>4. QED
    BY <2>1, <2>2, <2>3, SearchLog, DirectLog
<1>6. QED
  BY <1>2, <1>3, <1>4, <1>5 DEF Submit

----------------------------------------------------------------------------
(* What the sub-states of ProcessFindAddr share                            *)

\* A free driver accepts any request within a cluster.
LEMMA AcceptsIn ==
  ASSUME flsStatus # "BUSY", NEW k \in Cluster, NEW op, op.kind # "ERASE",
         op.off \in Nat, op.len \in Nat, op.len >= 1,
         ClusterStart[k] <= op.off, op.off + op.len <= ClusterStart[k] + ClusterLen[k]
  PROVE  Accepts(op)
<1>1. /\ ClusterStart[k] \in Nat /\ ClusterLen[k] \in Nat /\ FlashSize \in Nat
      /\ ClusterStart[k] + ClusterLen[k] <= FlashSize
  BY Room
<1>2. op.off <= FlashSize /\ op.len <= FlashSize - op.off /\ op.len # 0
  BY <1>1
<1>3. QED
  BY <1>2 DEF Accepts, RangeOk

\* So it does the erasure of a cluster.
LEMMA AcceptsErasure ==
  ASSUME flsStatus # "BUSY", NEW k \in Cluster
  PROVE  Accepts(EraseOp(ClusterStart[k], ClusterLen[k]))
<1>1. /\ ClusterStart[k] \in Nat /\ ClusterLen[k] \in Nat /\ FlashSize \in Nat
      /\ ClusterLen[k] >= 1 /\ ClusterStart[k] + ClusterLen[k] <= FlashSize
  BY Room
<1>2. ClusterStart[k] % SectorSize = 0 /\ ClusterLen[k] % SectorSize = 0
  BY RoomAssumption
<1>3. /\ EraseOp(ClusterStart[k], ClusterLen[k]).off = ClusterStart[k]
      /\ EraseOp(ClusterStart[k], ClusterLen[k]).len = ClusterLen[k]
  BY DEF EraseOp, NoOp
<1>4. QED
  BY <1>1, <1>2, <1>3 DEF Accepts, RangeOk

\* FindAddr goes on in sub-state sub, for the same job.
FindGoes(sub) ==
  /\ Cont' = "FIND_PROC" /\ find'.sub = sub /\ ~find'.err
  /\ find'.ret = find.ret /\ find'.type = find.type
  /\ job'.kind = job.kind /\ job'.counted = job.counted /\ job'.nextBlock = job.nextBlock
  /\ dirty' = dirty
  /\ state' = "FLS_WAIT" => flsStatus' = "BUSY"

\* The sub-state is then what matters, and neither the job nor its luck has changed.
LEMMA GoesOn ==
  ASSUME LogInv, state = "FIND_PROC", NEW sub, FindGoes(sub), find.sub # "DONE"
  PROVE  /\ Underway' /\ NoFault'
         /\ \A subs : At(subs)' <=> sub \in subs
<1>1. Cont = "FIND_PROC" /\ Cont' = "FIND_PROC" /\ find'.sub = sub
  BY DEF Cont, FindGoes
<1>2. find.ret = JobState /\ JobState' = JobState
  BY <1>1 DEF LogInv, Underway, FindGoes, JobState
<1>3. Underway'
  BY <1>1, <1>2 DEF LogInv, Underway, FindGoes
<1>4. NoFault'
  BY <1>1 DEF NoFault, FindGoes
<1>5. QED
  BY <1>1, <1>3, <1>4 DEF At

\* What the search and the scan have found out so far.
Findings == <<find.clusterIdx, find.bestGen, find.bestGenIdx, find.hasData, find.scanOff,
              find.scanCorrupt>>

\* A sub-state that calls nothing changes nothing else.
LEMMA GotoGoes ==
  ASSUME FeeInv, LogInv, state = "FIND_PROC", NEW sub, FindGoto(sub), UNCHANGED <<job, dirty>>
  PROVE  /\ FindGoes(sub)
         /\ UNCHANGED <<flash, mem, flsOp, flsStatus>> /\ UNCHANGED Findings
         /\ FlashOK(flash)' /\ FlightOK' /\ Executed' = Executed
<1>1. UNCHANGED <<flash, mem, flsOp, flsStatus, state>>
  BY DEF FindGoto, flsVars
<1>2. find \in Find /\ find' = [find EXCEPT !.sub = sub] /\ ~find.err
  BY DEF FindGoto, FeeInv, TypeOK, LogInv, NoFault
<1>3. find'.sub = sub /\ ~find'.err /\ find'.ret = find.ret /\ find'.type = find.type
  BY <1>2 DEF Find
<1>4. UNCHANGED Findings
  BY <1>2 DEF Find, Findings
<1>5. QED
  BY <1>1, <1>3, <1>4, JobKept DEF FindGoes, Cont

\* Nor does a sub-state whose request is accepted; the driver was free before.
LEMMA RequestGoes ==
  ASSUME FeeInv, LogInv, state = "FIND_PROC", NEW op, NEW sub, FindFls(op, sub), Accepts(op),
         UNCHANGED <<job, dirty>>
  PROVE  /\ FindGoes(sub)
         /\ flash' = flash /\ flsOp' = op /\ flsStatus' = "BUSY" /\ UNCHANGED Findings
         /\ FlashOK(flash)' /\ flsOp.kind = "NONE" /\ Executed = flash
<1>1. flash' = flash /\ flsOp' = op /\ flsStatus' = "BUSY" /\ state' = "FLS_WAIT"
      /\ flsWaitReturn' = "FIND_PROC" /\ find' = [find EXCEPT !.sub = sub]
  BY DEF FindFls, StartFls, Request
<1>2. find \in Find /\ ~find.err
  BY DEF FeeInv, TypeOK, LogInv, NoFault
<1>3. find'.sub = sub /\ ~find'.err /\ find'.ret = find.ret /\ find'.type = find.type
  BY <1>1, <1>2 DEF Find
<1>4. UNCHANGED Findings
  BY <1>1, <1>2 DEF Find, Findings
<1>5. flsOp.kind = "NONE"
  BY DEF Accepts, FeeInv, FlsOK, BusyIffOp
<1>6. FlashOK(flash)' /\ Executed = flash
  BY <1>1, <1>5, ReadEffect DEF LogInv
<1>7. QED
  BY <1>1, <1>3, <1>4, <1>5, <1>6 DEF FindGoes, Cont

\* A header cell to be read is a read of one cluster.
LEMMA HeaderReadFlight ==
  ASSUME NEW k \in Cluster,
         \/ flsOp' = ReadOp(ClusterStart[k], "clusterHdrBuf", 0, HeaderSize)
         \/ \E o \in HeaderSize .. ClusterLen[k] - 1 :
              flsOp' = ReadOp(ClusterStart[k] + o, "scanHdrBuf", 0, HeaderSize)
  PROVE  /\ FlightOK' /\ flsOp'.kind = "READ"
         /\ flash' = flash => Executed' = flash
<1>1. flsOp'.kind = "READ"
  BY DEF ReadOp
<1>2. ReadFlight(k)'
  <2>1. CASE flsOp' = ReadOp(ClusterStart[k], "clusterHdrBuf", 0, HeaderSize)
    BY <2>1 DEF ReadFlight
  <2>2. ASSUME NEW o \in HeaderSize .. ClusterLen[k] - 1,
               flsOp' = ReadOp(ClusterStart[k] + o, "scanHdrBuf", 0, HeaderSize)
        PROVE  ReadFlight(k)'
    <3>1. o \in HeaderSize .. ClusterLen[k] /\ HeaderSize \in 0 .. ClusterLen[k] - o
      BY Room DEF HeaderSize
    <3>2. QED
      BY <2>2, <3>1 DEF ReadFlight
  <2>3. QED
    BY <2>1, <2>2
<1>3. QED
  BY <1>1, <1>2, ReadEffectNext DEF FlightOK

----------------------------------------------------------------------------
(* The search for the newest cluster                                       *)

\* What was seen of a medium stays seen.
LEMMA LookedKept ==
  ASSUME Looked(Executed), Executed' = Executed, UNCHANGED Findings
  PROVE  Looked(Executed)'
  BY DEF Looked, Findings

\* The next header is asked for, or all have been read.  Refused is only the first
\* request, and only while the driver is at work for a job that was cancelled.
LEMMA StartLog == FeeInv /\ LogInv /\ FindStart => LogInv'
<1> SUFFICES ASSUME FeeInv, LogInv, FindStart PROVE LogInv'
  OBVIOUS
<1>1. /\ state = "FIND_PROC" /\ find.sub = "START" /\ UNCHANGED <<job, dir, dirty>>
  BY DEF FindStart, InFind, callerVars
<1>2. At(Search) /\ Looked(Executed) /\ ~Moving
  <2>1. At({"START"}) /\ At({"START", "READ_CLUSTER_HDR_DONE", "DECIDE"})
    BY <1>1 DEF At, Cont
  <2>2. At(Search)
    BY <2>1 DEF Search
  <2>3. QED
    BY <2>1, <2>2, PlaceAlone DEF LogInv, Looking, Elsewhere
<1>3. find.clusterIdx \in 0 .. ClusterCount /\ ClusterCount \in Nat
  BY ClusterAssumption DEF FeeInv, TypeOK, Find
<1>4. ASSUME NEW sub \in Search, FindGoes(sub), UNCHANGED Findings, Executed' = Executed,
             FlashOK(flash)', FlightOK',
             sub = "READ_CLUSTER_HDR_DONE" =>
               Fetched("clusterHdrBuf", ClusterStart[find.clusterIdx])',
             sub = "DECIDE" => find.clusterIdx = ClusterCount
      PROVE  LogInv'
  <2>1. Underway' /\ NoFault' /\ \A subs : At(subs)' <=> sub \in subs
    BY <1>1, <1>4, GoesOn DEF Search
  <2>2. Trusted'
    BY <1>1, <1>2, <1>4, TrustKept
  <2>3. find'.clusterIdx = find.clusterIdx
    BY <1>4 DEF Findings
  <2>4. Looked(Executed)'
    BY <1>2, <1>4, LookedKept
  <2>5. Looking'
    BY <1>4, <2>1, <2>3, <2>4 DEF Looking
  <2>6. At(Search)'
    BY <2>1
  <2>7. QED
    BY <1>4, <2>1, <2>2, <2>5, <2>6, PlaceNext DEF LogInv, Elsewhere
<1> DEFINE op == ReadOp(ClusterStart[find.clusterIdx], "clusterHdrBuf", 0, HeaderSize)
<1>5. CASE find.clusterIdx >= ClusterCount
  <2>1. FindGoto("DECIDE") /\ find.clusterIdx = ClusterCount
    BY <1>3, <1>5 DEF FindStart
  <2>2. QED
    BY <1>1, <1>4, <2>1, GotoGoes DEF Search
<1>6. CASE find.clusterIdx < ClusterCount /\ Accepts(op)
  <2>1. find.clusterIdx \in Cluster
    BY <1>3, <1>6 DEF Cluster
  <2>2. FindFls(op, "READ_CLUSTER_HDR_DONE")
    BY <1>3, <1>6 DEF FindStart
  <2>3. /\ FindGoes("READ_CLUSTER_HDR_DONE") /\ UNCHANGED Findings
        /\ flash' = flash /\ flsOp' = op /\ flsStatus' = "BUSY"
        /\ FlashOK(flash)' /\ Executed = flash
    <3> HIDE DEF op
    <3>1. QED
      BY <1>1, <1>6, <2>2, RequestGoes
  <2>4. FlightOK' /\ Executed' = Executed
    BY <2>1, <2>3, HeaderReadFlight
  <2>5. Fetched("clusterHdrBuf", ClusterStart[find.clusterIdx])'
    <3>1. find'.clusterIdx = find.clusterIdx
      BY <2>3 DEF Findings
    <3>2. QED
      BY <2>3, <3>1 DEF Fetched
  <2>6. QED
    BY <1>4, <2>3, <2>4, <2>5 DEF Search
<1>7. CASE find.clusterIdx < ClusterCount /\ ~Accepts(op)
  <2>1. find.clusterIdx \in Cluster
    BY <1>3, <1>7 DEF Cluster
  <2>2. FindFls(op, "READ_CLUSTER_HDR_DONE") /\ mem' = mem
    BY <1>3, <1>7 DEF FindStart
  <2>3. flsStatus = "BUSY"
    <3>1. op.kind = "READ" /\ op.off = ClusterStart[find.clusterIdx] /\ op.len = 1
      BY DEF ReadOp, HeaderSize
    <3>2. ClusterStart[find.clusterIdx] \in Nat /\ ClusterLen[find.clusterIdx] >= 1
          /\ ClusterLen[find.clusterIdx] \in Nat
      BY <2>1, Room
    <3> HIDE DEF op
    <3>3. QED
      BY <1>7, <2>1, <3>1, <3>2, AcceptsIn
  <2>4. ~dir.valid /\ find.clusterIdx = 0
    BY <1>1, <2>3 DEF FeeInv, DriverBusyOnlyForWaiter
  <2>5. /\ UNCHANGED <<flash, mem, flsOp>> /\ state' = "ERROR"
        /\ find' = [find EXCEPT !.sub = "DONE", !.err = TRUE]
    BY <1>7, <2>2 DEF FindFls, StartFls, Request
  <2>6. find'.err /\ find'.clusterIdx = 0
    BY <2>4, <2>5 DEF FeeInv, TypeOK, Find
  <2>7. Cont' = "ERROR"
    BY <2>5 DEF Cont
  <2>8. Trusted' /\ NoFault'
    BY <1>1, <2>4, <2>5, <2>6, <2>7 DEF Trusted, NoFault
  <2>9. FlashOK(flash)' /\ FlightOK'
    BY <2>5, JobKept
  <2>10. QED
    BY <2>7, <2>8, <2>9, RestLog
<1>8. QED
  BY <1>3, <1>5, <1>6, <1>7

\* A header has been read: it counts if it is newer than all before it.
LEMMA HeaderReadLog == FeeInv /\ LogInv /\ FindReadClusterHdrDone => LogInv'
<1> SUFFICES ASSUME FeeInv, LogInv, FindReadClusterHdrDone PROVE LogInv'
  OBVIOUS
<1> DEFINE idx == find.clusterIdx
           gen == GenOf(flash, idx)
           newest == gen # NoGen /\ gen > find.bestGen
<1>1. /\ state = "FIND_PROC" /\ find.sub = "READ_CLUSTER_HDR_DONE"
      /\ UNCHANGED <<flash, mem, flsOp, state, job, dir, dirty>>
  BY DEF FindReadClusterHdrDone, InFind, callerVars, flsVars
<1>2. At(Search) /\ Looked(Executed) /\ ~Moving /\ Fetched("clusterHdrBuf", ClusterStart[idx])
  <2>1. At({"READ_CLUSTER_HDR_DONE"}) /\ At({"START", "READ_CLUSTER_HDR_DONE", "DECIDE"})
    BY <1>1 DEF At, Cont
  <2>2. At(Search)
    BY <2>1 DEF Search
  <2>3. QED
    BY <2>1, <2>2, PlaceAlone DEF LogInv, Looking, Elsewhere
<1>3. flsStatus # "BUSY" /\ flsOp.kind = "NONE"
  BY <1>1, DriverFree DEF InFind
<1>4. FlashOK(flash)' /\ FlightOK' /\ Executed = flash /\ Executed' = flash
  BY <1>1, <1>3, NoJobKept
<1>5. mem["clusterHdrBuf"][0] = flash[ClusterStart[idx]]
  BY <1>2, <1>3 DEF Fetched
<1>6. find \in Find /\ ~find.err
  BY <1>1 DEF FeeInv, TypeOK, LogInv, NoFault
<1>7. /\ find'.sub = "START" /\ find'.err = find.err /\ find'.ret = find.ret
      /\ find'.type = find.type /\ find'.clusterIdx = idx + 1
      /\ find'.hasData = (find.hasData \/ gen # NoGen)
      /\ find'.bestGen = (IF newest THEN gen ELSE find.bestGen)
      /\ find'.bestGenIdx = (IF newest THEN idx ELSE find.bestGenIdx)
  <2>1. gen = ClusterHdrGen(mem["clusterHdrBuf"][0])
    BY <1>5 DEF GenOf
  <2>2. find' = [find EXCEPT !.hasData = @ \/ gen # NoGen,
                             !.bestGen = IF newest THEN gen ELSE @,
                             !.bestGenIdx = IF newest THEN idx ELSE @,
                             !.clusterIdx = @ + 1,
                             !.sub = "START"]
    BY <2>1 DEF FindReadClusterHdrDone
  <2> HIDE DEF newest, gen
  <2>3. QED
    BY <1>6, <2>2 DEF Find
<1>8. FindGoes("START")
  BY <1>1, <1>6, <1>7 DEF FindGoes, Cont
<1>9. Underway' /\ NoFault' /\ \A subs : At(subs)' <=> "START" \in subs
  BY <1>1, <1>8, GoesOn
<1>10. Trusted'
  BY <1>1, <1>2, <1>4, TrustKept
<1>11. Looked(flash)'
  <2> DEFINE seen == {k \in ValidClusters(flash) : k < idx}
             now == {k \in ValidClusters(flash) : k < idx + 1}
  <2>1. idx \in Cluster /\ idx \in Nat
    BY <1>1, ClusterAssumption DEF FeeInv, CursorOK, Cluster
  <2>2. \A k \in ValidClusters(flash) : k \in Cluster /\ k \in Nat /\ GenOf(flash, k) \in Nat
                                         /\ GenOf(flash, k) > 0
    <3>1. \A k \in ValidClusters(flash) : k \in Cluster /\ GenOf(flash, k) # NoGen
      BY DEF ValidClusters
    <3>2. \A k \in Cluster : GenOf(flash, k) \in Nat \cup {NoGen} /\ k \in Nat
      BY ClusterHdrGenType, ClusterAssumption DEF GenOf, Cluster
    <3>3. \A k \in ValidClusters(flash) : GenOf(flash, k) > 0
      BY DEF LogInv, FlashOK
    <3>4. QED
      BY <3>1, <3>2, <3>3
  <2>3. idx \in ValidClusters(flash) <=> gen # NoGen
    BY <2>1 DEF ValidClusters
  <2>4. now = IF gen # NoGen THEN seen \cup {idx} ELSE seen
    BY <2>1, <2>2, <2>3
  <2>5. /\ find.hasData <=> seen # {}
        /\ \A k \in seen : GenOf(flash, k) <= find.bestGen
        /\ IF seen = {} THEN find.bestGen = 0
           ELSE find.bestGenIdx \in seen /\ find.bestGen = GenOf(flash, find.bestGenIdx)
    BY <1>2, <1>4 DEF Looked
  <2>6. find.bestGen \in Nat
    BY <1>6 DEF Find
  <2>7. /\ find'.hasData <=> now # {}
        /\ \A k \in now : GenOf(flash, k) <= find'.bestGen
        /\ IF now = {} THEN find'.bestGen = 0
           ELSE find'.bestGenIdx \in now /\ find'.bestGen = GenOf(flash, find'.bestGenIdx)
    <3>1. CASE gen = NoGen
      <4>1. now = seen /\ ~newest
        BY <2>4, <3>1
      <4>2. QED
        BY <1>7, <2>5, <3>1, <4>1
    <3>2. CASE newest
      <4>1. now = seen \cup {idx} /\ gen # NoGen
        BY <2>4, <3>2
      <4>2. find'.bestGen = gen /\ find'.bestGenIdx = idx /\ find'.hasData
        BY <1>7, <3>2
      <4>3. \A k \in seen : GenOf(flash, k) <= gen
        <5>1. gen \in Nat /\ gen > find.bestGen
          BY <2>2, <2>3, <3>2
        <5> HIDE DEF gen
        <5>2. QED
          BY <2>2, <2>5, <2>6, <5>1
      <4>4. gen <= gen
        BY <2>2, <2>3, <3>2
      <4>5. QED
        BY <4>1, <4>2, <4>3, <4>4
    <3>3. CASE gen # NoGen /\ ~newest
      <4>1. now = seen \cup {idx} /\ gen \in Nat /\ gen > 0
        BY <2>2, <2>3, <2>4, <3>3
      <4>2. gen <= find.bestGen
        BY <2>6, <3>3, <4>1
      <4>3. seen # {}
        BY <2>5, <2>6, <4>1, <4>2
      <4>4. find'.bestGen = find.bestGen /\ find'.bestGenIdx = find.bestGenIdx /\ find'.hasData
        BY <1>7, <3>3
      <4>5. QED
        BY <2>5, <4>1, <4>2, <4>3, <4>4
    <3>4. QED
      BY <3>1, <3>2, <3>3
  <2>8. now = {k \in ValidClusters(flash') : k < find'.clusterIdx}
    BY <1>1, <1>7
  <2> HIDE DEF now, seen, gen, newest
  <2>9. QED
    BY <1>1, <2>7, <2>8 DEF Looked
<1>12. Looking'
  <2>1. Looked(Executed)'
    BY <1>1, <1>4, <1>11 DEF Looked
  <2>2. QED
    BY <1>9, <2>1 DEF Looking
<1>13. At(Search)'
  BY <1>9 DEF Search
<1>14. QED
  BY <1>4, <1>9, <1>10, <1>12, <1>13, PlaceNext DEF LogInv, Elsewhere

----------------------------------------------------------------------------
(* The choice of the active cluster                                        *)

\* FindAddr returns to the job with a directory that describes the medium, and, for
\* a write, with room behind the log for what the job appends.
LEMMA ReturnsLog ==
  ASSUME LogInv, state = "FIND_PROC", find.sub # "DONE", FindGoes("DONE"),
         FlashOK(flash)', FlightOK', Trusted',
         find.type = "READ" => Describes(Executed)',
         find.type # "READ" => Appends(Executed)' /\ HasRoom'
  PROVE  LogInv'
<1>1. Underway' /\ NoFault' /\ \A subs : At(subs)' <=> "DONE" \in subs
  BY GoesOn
<1>2. Cont = "FIND_PROC" /\ Cont' = "FIND_PROC" /\ find'.ret = find.ret
  BY DEF Cont, FindGoes
<1>3. /\ find.ret = JobState
      /\ find.type = IF job.kind \in {"READ", "READALL"} THEN "READ" ELSE "WRITE"
  BY <1>2 DEF LogInv, Underway
<1>4. IF find.type = "READ" THEN find.ret \in {"READ_BY_DIR", "READALL_FILL"}
      ELSE find.ret \in {"WRITE_MAIN_LOOP_PROC", "WRITEALL_APPEND"}
  BY <1>3 DEF JobState
<1>5. \A states : Toward(states)' => "FIND_PROC" \in states \/ find.ret \in states
  BY <1>1, <1>2 DEF Toward
<1>6. Appending' /\ Reading'
  BY <1>4, <1>5 DEF Appending, Reading
<1>7. At({"DONE"})'
  BY <1>1
<1>8. QED
  BY <1>1, <1>6, <1>7, PlaceNext DEF LogInv, Elsewhere

\* The room a write job asks FindAddr for is that of the records it will append.
LEMMA NeededIs ==
  ASSUME FeeInv, LogInv, state = "FIND_PROC", find.sub # "DONE", find.type # "READ"
  PROVE  /\ Needed = TotalOf(Remaining) /\ Needed \in Nat /\ Needed <= TotalOf(Block)
         /\ Remaining \in SUBSET Block
<1>1. /\ job.kind \notin {"READ", "READALL", "NONE"} /\ job.nextBlock = 0
      /\ job.kind = "WRITEALL" => job.counted = {b \in Block : dirty[b]}
  BY DEF LogInv, Underway, Cont
<1>2. job.kind \in Kind /\ job.blockNumber \in Block
  BY DEF FeeInv, TypeOK, Job
<1>3. \A b \in Block : b >= 0
  BY BlockAssumption DEF Block
<1>4. CASE job.kind = "WRITEALL"
  <2>1. Remaining = {b \in Block : dirty[b]} /\ Needed = TotalOf(job.counted)
    BY <1>1, <1>3, <1>4 DEF Remaining, Needed
  <2>2. QED
    BY <1>1, <1>4, <2>1, TotalMonotone
<1>5. CASE job.kind # "WRITEALL"
  <2>1. Remaining = {job.blockNumber} /\ Needed = BlockTotal(DataCells[job.blockNumber])
    BY <1>5 DEF Remaining, Needed
  <2>2. {job.blockNumber} \in SUBSET Block
    BY <1>2
  <2>3. QED
    BY <1>2, <2>1, <2>2, TotalOfOne, TotalMonotone
<1>6. QED
  BY <1>4, <1>5

\* All headers have been seen: the newest is found, or there is none.
LEMMA LookedAtAll ==
  ASSUME FeeInv, NEW fl, Looked(fl), find.clusterIdx = ClusterCount
  PROVE  IF find.hasData
         THEN /\ find.bestGenIdx \in ValidClusters(fl) /\ find.bestGen = GenOf(fl, find.bestGenIdx)
              /\ Newer(fl, find.bestGen) = {} /\ find.bestGen # NoGen
         ELSE ValidClusters(fl) = {}
<1>1. {k \in ValidClusters(fl) : k < find.clusterIdx} = ValidClusters(fl)
  <2>1. \A k \in Cluster : k < ClusterCount
    BY ClusterAssumption DEF Cluster
  <2>2. QED
    BY <2>1 DEF ValidClusters
<1>2. /\ find.hasData <=> ValidClusters(fl) # {}
      /\ \A k \in ValidClusters(fl) : GenOf(fl, k) <= find.bestGen
      /\ IF ValidClusters(fl) = {} THEN find.bestGen = 0
         ELSE find.bestGenIdx \in ValidClusters(fl) /\ find.bestGen = GenOf(fl, find.bestGenIdx)
  BY <1>1 DEF Looked
<1>3. \A k \in ValidClusters(fl) : ~(GenOf(fl, k) > find.bestGen)
  <2>1. \A k \in ValidClusters(fl) : GenOf(fl, k) \in Nat
    BY ClusterHdrGenType DEF GenOf, ValidClusters
  <2>2. find.bestGen \in Nat
    BY DEF FeeInv, TypeOK, Find
  <2>3. QED
    BY <1>2, <2>1, <2>2
<1>4. QED
  BY <1>2, <1>3 DEF Newer, ValidClusters

\* The state a decision starts from.
LEMMA Deciding ==
  ASSUME FeeInv, LogInv, InFind("DECIDE")
  PROVE  /\ state = "FIND_PROC" /\ find.sub # "DONE" /\ ~Moving
         /\ Looked(Executed) /\ find.clusterIdx = ClusterCount
<1>1. state = "FIND_PROC" /\ find.sub = "DECIDE"
  BY DEF InFind
<1>2. At({"DECIDE"}) /\ At({"START", "READ_CLUSTER_HDR_DONE", "DECIDE"}) /\ At(Search)
  BY <1>1 DEF At, Cont, Search
<1>3. QED
  BY <1>1, <1>2, PlaceAlone DEF LogInv, Looking, Elsewhere

\* No cluster has a header.
LEMMA BlankLog == FeeInv /\ LogInv /\ DecideBlank => LogInv'
<1> SUFFICES ASSUME FeeInv, LogInv, DecideBlank PROVE LogInv'
  OBVIOUS
<1>1. InFind("DECIDE") /\ ~find.hasData /\ UNCHANGED <<job, dirty>>
  BY DEF DecideBlank, callerVars
<1>2. state = "FIND_PROC" /\ find.sub # "DONE" /\ ValidClusters(Executed) = {}
  BY <1>1, Deciding, LookedAtAll
<1>3. CASE find.type = "WRITE"
  <2>1. dir' = [dir EXCEPT !.gen = NoGen] /\ FindGoto("FRESH_ERASE")
    BY <1>3 DEF DecideBlank
  <2>2. dir'.gen = NoGen
    BY <2>1 DEF FeeInv, TypeOK, Dir
  <2>3. /\ FindGoes("FRESH_ERASE") /\ FlashOK(flash)' /\ FlightOK' /\ Executed' = Executed
    BY <1>1, <1>2, <2>1, GotoGoes
  <2>4. Underway' /\ NoFault' /\ \A subs : At(subs)' <=> "FRESH_ERASE" \in subs
    BY <1>2, <2>3, GoesOn
  <2>5. Blanked(Executed)'
    BY <1>2, <2>2, <2>3 DEF Blanked
  <2>6. Fresh'
    BY <2>4, <2>5 DEF Fresh, Activated
  <2>7. At(Activate)' /\ At({"FRESH_ERASE", "FRESH_ACTIVATE", "FRESH_ACTIVATE_DONE"})'
    BY <2>4 DEF Activate
  <2>8. QED
    BY <2>3, <2>4, <2>6, <2>7, PlaceNext DEF LogInv, Elsewhere
<1>4. CASE find.type # "WRITE"
  <2>1. FindGoto("DONE")
        /\ dir' = [valid |-> TRUE, index |-> 0, gen |-> NoGen,
                   headerEnd |-> HeaderSize, offset |-> EmptyDir]
    BY <1>4 DEF DecideBlank
  <2>2. find.type = "READ"
    BY <1>4 DEF FeeInv, TypeOK, Find
  <2>3. FindGoes("DONE") /\ FlashOK(flash)' /\ FlightOK' /\ Executed' = Executed
    BY <1>1, <1>2, <2>1, GotoGoes
  <2>4. dir'.gen = NoGen /\ dir'.offset = EmptyDir
    BY <2>1
  <2>5. Describes(Executed)'
    BY <1>2, <2>3, <2>4 DEF Describes
  <2>6. Trusted'
    BY <2>4, <2>5 DEF Trusted
  <2>7. QED
    BY <1>2, <2>2, <2>3, <2>5, <2>6, ReturnsLog
<1>5. QED
  BY <1>3, <1>4

\* The directory is already about the newest cluster.
LEMMA ReuseLog == FeeInv /\ LogInv /\ DecideReuse => LogInv'
<1> SUFFICES ASSUME FeeInv, LogInv, DecideReuse PROVE LogInv'
  OBVIOUS
<1>1. /\ InFind("DECIDE") /\ find.hasData /\ dir.valid /\ find.bestGen = dir.gen
      /\ UNCHANGED <<job, dir, dirty>>
      /\ FindGoto(IF NoRoom THEN "MIGRATE_PREPARE" ELSE "DONE")
  BY DEF DecideReuse, callerVars
<1>2. state = "FIND_PROC" /\ find.sub # "DONE" /\ ~Moving
  BY <1>1, Deciding
<1>3. dir.gen # NoGen
  BY <1>1, Deciding, LookedAtAll
<1>4. Describes(Executed) /\ Appends(Executed)
  BY <1>1, <1>2, <1>3 DEF LogInv, Trusted
<1>5. Active(Executed) /\ dir.offset = Log(Executed, dir.index).last
      /\ dir.headerEnd = Log(Executed, dir.index).end
  BY <1>3, <1>4, DescribesActive
<1>6. CASE NoRoom
  <2>1. FindGoes("MIGRATE_PREPARE") /\ FlashOK(flash)' /\ FlightOK' /\ Executed' = Executed
    BY <1>1, <1>2, <1>6, GotoGoes
  <2>2. Underway' /\ NoFault' /\ \A subs : At(subs)' <=> "MIGRATE_PREPARE" \in subs
    BY <1>2, <2>1, GoesOn
  <2>3. Sourced(Executed)'
    BY <1>1, <1>5, <2>1, DirKept DEF Sourced
  <2>4. Migrating'
    BY <2>2, <2>3 DEF Migrating, Activated
  <2>5. Trusted'
    BY <1>1, <1>2, <2>1, TrustKept
  <2>6. At({"MIGRATE_PREPARE"})'
    BY <2>2
  <2>7. QED
    BY <2>1, <2>2, <2>4, <2>5, <2>6, PlaceNext DEF LogInv, Elsewhere
<1>7. CASE ~NoRoom
  <2>1. FindGoes("DONE") /\ FlashOK(flash)' /\ FlightOK' /\ Executed' = Executed
    BY <1>1, <1>2, <1>7, GotoGoes
  <2>2. Trusted'
    BY <1>1, <1>2, <2>1, TrustKept
  <2>3. Describes(Executed)' /\ Appends(Executed)'
    BY <1>1, <1>4, <2>1, DirKept
  <2>4. find.type # "READ" => HasRoom'
    <3>1. SUFFICES ASSUME find.type # "READ" PROVE HasRoom
      BY <1>1 DEF HasRoom, Remaining
    <3>2. ~(Free < Needed)
      BY <1>7, <3>1 DEF NoRoom, FeeInv, TypeOK, Find
    <3>3. Needed = TotalOf(Remaining) /\ Needed \in Nat
      BY <1>2, <3>1, NeededIs
    <3>4. /\ Free = ClusterLen[dir.index] - dir.headerEnd /\ ClusterLen[dir.index] \in Nat
          /\ dir.headerEnd \in HeaderSize .. ClusterLen[dir.index]
      BY <1>5, FreeIs
    <3>5. QED
      BY <3>2, <3>3, <3>4 DEF HasRoom, HeaderSize
  <2>5. QED
    BY <1>2, <2>1, <2>2, <2>3, <2>4, ReturnsLog
<1>8. QED
  BY <1>6, <1>7

\* It is about another cluster, or about none: the newest is scanned from its start.
LEMMA RescanLog == FeeInv /\ LogInv /\ DecideScan => LogInv'
<1> SUFFICES ASSUME FeeInv, LogInv, DecideScan PROVE LogInv'
  OBVIOUS
<1>1. /\ InFind("DECIDE") /\ find.hasData /\ UNCHANGED <<flash, mem, flsOp, state, job, dirty>>
      /\ dir' = [valid |-> FALSE, index |-> find.bestGenIdx, gen |-> find.bestGen,
                 headerEnd |-> HeaderSize, offset |-> EmptyDir]
      /\ find' = [find EXCEPT !.scanOff = HeaderSize, !.scanCorrupt = FALSE,
                              !.sub = "METRICS_READ"]
  BY DEF DecideScan, callerVars, flsVars
<1>2. state = "FIND_PROC" /\ find.sub # "DONE"
  BY <1>1, Deciding
<1>3. FlashOK(flash)' /\ FlightOK' /\ Executed' = Executed
  BY <1>1, JobKept
<1>4. /\ find.bestGenIdx \in ValidClusters(Executed)
      /\ find.bestGen = GenOf(Executed, find.bestGenIdx) /\ Newer(Executed, find.bestGen) = {}
  BY <1>1, Deciding, LookedAtAll
<1>5. find \in Find /\ ~find.err
  BY <1>2 DEF FeeInv, TypeOK, LogInv, NoFault
<1>6. /\ find'.sub = "METRICS_READ" /\ find'.err = find.err /\ find'.ret = find.ret
      /\ find'.type = find.type /\ find'.scanOff = HeaderSize /\ ~find'.scanCorrupt
  BY <1>1, <1>5 DEF Find
<1>7. FindGoes("METRICS_READ")
  BY <1>1, <1>2, <1>5, <1>6 DEF FindGoes, Cont
<1>8. Underway' /\ NoFault' /\ \A subs : At(subs)' <=> "METRICS_READ" \in subs
  BY <1>2, <1>7, GoesOn
<1>9. /\ ~dir'.valid /\ dir'.index = find.bestGenIdx /\ dir'.gen = find.bestGen
      /\ dir'.headerEnd = HeaderSize /\ dir'.offset = EmptyDir
  BY <1>1
<1>10. Trusted'
  BY <1>9 DEF Trusted
<1>11. ScannedTo(Executed)'
  <2>1. Active(Executed)'
    BY <1>3, <1>4, <1>9 DEF Active, Newer
  <2>2. find.bestGenIdx \in Cluster
    BY <1>4 DEF ValidClusters
  <2>3. HeaderSize \in HeaderSize .. ClusterLen[dir'.index]
    BY <1>9, <2>2, LogFacts DEF HeaderSize
  <2>4. Log(Executed', dir'.index) = LogFrom(Executed', dir'.index)[find'.scanOff]
    BY <1>6 DEF Log
  <2>5. \A b \in Block : dir'.offset[b] = NoRecord
    BY <1>9 DEF EmptyDir
  <2>6. QED
    BY <1>6, <1>9, <2>1, <2>3, <2>4, <2>5 DEF ScannedTo
<1>12. Scanning'
  BY <1>8, <1>11 DEF Scanning
<1>13. At(Scan)'
  BY <1>8 DEF Scan
<1>14. QED
  BY <1>3, <1>8, <1>10, <1>12, <1>13, PlaceNext DEF LogInv, Elsewhere

----------------------------------------------------------------------------
(* The scan of the active cluster                                          *)

\* The directory of an active cluster: it exists, and its log is sound.
LEMMA ActiveCluster ==
  ASSUME NEW fl, Active(fl)
  PROVE  /\ dir.index \in Cluster /\ dir.gen # NoGen
         /\ FlashOK(fl) => ClusterOK(fl, dir.index) /\ dir.gen > 0
  BY DEF Active, ValidClusters, FlashOK

\* Where the scan finds no further record the directory is complete.
LEMMA ScanEnds ==
  ASSUME FeeInv, NEW fl, ScannedTo(fl), ~IsRecord(fl, dir.index, find.scanOff)
  PROVE  /\ Describes(fl) /\ dir.index \in Cluster
         /\ dir.headerEnd = find.scanOff /\ Log(fl, dir.index).end = find.scanOff
<1>1. /\ Active(fl) /\ dir.headerEnd = find.scanOff
      /\ find.scanOff \in HeaderSize .. ClusterLen[dir.index]
      /\ Log(fl, dir.index).end = LogFrom(fl, dir.index)[find.scanOff].end
      /\ \A b \in Block :
           Log(fl, dir.index).last[b] =
             IF LogFrom(fl, dir.index)[find.scanOff].last[b] = NoRecord THEN dir.offset[b]
             ELSE LogFrom(fl, dir.index)[find.scanOff].last[b]
  BY DEF ScannedTo
<1>2. dir.index \in Cluster
  BY <1>1, ActiveCluster
<1>3. find.scanOff \in 0 .. ClusterLen[dir.index]
  BY <1>1, <1>2, Room DEF HeaderSize
<1>4. /\ LogFrom(fl, dir.index)[find.scanOff].end = find.scanOff
      /\ LogFrom(fl, dir.index)[find.scanOff].last = EmptyDir
  BY <1>2, <1>3, LogStops
<1>5. \A b \in Block : Log(fl, dir.index).last[b] = dir.offset[b]
  BY <1>1, <1>4 DEF EmptyDir
<1>6. dir.offset = Log(fl, dir.index).last
  <2>1. Log(fl, dir.index).last \in [Block -> {NoRecord} \cup 0 .. ClusterLen[dir.index]]
    BY <1>2, LogFacts
  <2>2. dir.offset \in [Block -> Nat \cup {NoRecord}]
    BY DEF FeeInv, TypeOK, Dir
  <2>3. dir.offset = [b \in Block |-> dir.offset[b]]
    BY <2>2
  <2>4. Log(fl, dir.index).last = [b \in Block |-> Log(fl, dir.index).last[b]]
    BY <2>1
  <2>5. QED
    BY <1>5, <2>3, <2>4
<1>7. QED
  BY <1>1, <1>2, <1>4, <1>6 DEF Describes

\* What a scanning job finds when it goes on.
LEMMA ScanStep ==
  ASSUME FeeInv, LogInv, NEW sub \in Scan, InFind(sub)
  PROVE  /\ state = "FIND_PROC" /\ find.sub = sub /\ find.sub # "DONE" /\ ~Moving
         /\ flsStatus # "BUSY" /\ flsOp.kind = "NONE" /\ Executed = flash
         /\ sub \in {"METRICS_READ", "METRICS_EVAL"} => ScannedTo(flash)
         /\ sub = "METRICS_DONE" => Scanned(flash)
<1>1. state = "FIND_PROC" /\ find.sub = sub /\ ~InFind("START") /\ At({sub}) /\ At(Scan)
  BY DEF InFind, At, Cont, Scan
<1>2. flsStatus # "BUSY" /\ flsOp.kind = "NONE"
  BY <1>1, DriverFree
<1>3. Executed = flash
  BY <1>2, ReadEffect
<1>4. sub \in {"METRICS_READ", "METRICS_EVAL"} => At({"METRICS_READ", "METRICS_EVAL"})
  BY <1>1 DEF At
<1>5. ~Moving
  BY <1>1, PlaceAlone DEF Elsewhere
<1>6. QED
  BY <1>1, <1>2, <1>3, <1>4, <1>5 DEF LogInv, Scanning, Scan

\* The next header cell is asked for, or the cluster is full.
LEMMA MetricsReadLog == FeeInv /\ LogInv /\ FindMetricsRead => LogInv'
<1> SUFFICES ASSUME FeeInv, LogInv, FindMetricsRead PROVE LogInv'
  OBVIOUS
<1> DEFINE k == dir.index
           off == find.scanOff
           op == ReadOp(ClusterStart[k] + off, "scanHdrBuf", 0, HeaderSize)
<1>1. InFind("METRICS_READ") /\ UNCHANGED <<job, dir, dirty>>
  BY DEF FindMetricsRead, callerVars
<1>2. /\ state = "FIND_PROC" /\ find.sub # "DONE" /\ ~Moving /\ flsStatus # "BUSY"
      /\ Executed = flash /\ ScannedTo(flash)
  BY <1>1, ScanStep DEF Scan
<1>3. /\ k \in Cluster /\ off \in HeaderSize .. ClusterLen[k] /\ off \in Nat
      /\ ClusterLen[k] \in Nat /\ ClusterStart[k] \in Nat
  <2>1. k \in Cluster
    BY <1>2, ActiveCluster DEF ScannedTo
  <2>2. off \in HeaderSize .. ClusterLen[k]
    BY <1>2 DEF ScannedTo
  <2>3. QED
    BY <2>1, <2>2, Room DEF HeaderSize
<1>4. CASE off + HeaderSize > ClusterLen[k]
  <2>1. FindGoto("METRICS_DONE")
    BY <1>4 DEF FindMetricsRead
  <2>2. /\ FindGoes("METRICS_DONE") /\ FlashOK(flash)' /\ FlightOK' /\ Executed' = flash
        /\ UNCHANGED Findings
    BY <1>1, <1>2, <2>1, GotoGoes
  <2>3. Underway' /\ NoFault' /\ \A subs : At(subs)' <=> "METRICS_DONE" \in subs
    BY <1>2, <2>2, GoesOn
  <2>4. off = ClusterLen[k]
    BY <1>3, <1>4 DEF HeaderSize
  <2>5. ~IsRecord(flash, k, off)
    BY <1>3, <2>4, NoRecordAtEnd
  <2>6. Describes(flash) /\ dir.headerEnd = off
    BY <1>2, <2>5, ScanEnds
  <2>7. CleanFrom(flash, k, dir.headerEnd)
    BY <1>3, <2>4, <2>6 DEF CleanFrom
  <2>8. Scanned(flash) /\ Appends(flash)
    BY <1>2, <2>6, <2>7 DEF Scanned, Appends, ScannedTo
  <2>9. Scanned(Executed)'
    BY <1>1, <1>2, <2>2, <2>8, DirKept DEF Scanned, Findings
  <2>10. Trusted'
    BY <1>1, <1>2, <2>2, TrustKept
  <2>11. Scanning' /\ At(Scan)'
    BY <2>3, <2>9 DEF Scanning, Scan
  <2>12. QED
    BY <2>2, <2>3, <2>10, <2>11, PlaceNext DEF LogInv, Elsewhere
<1>5. CASE ~(off + HeaderSize > ClusterLen[k])
  <2>1. FindFls(op, "METRICS_EVAL")
    BY <1>5 DEF FindMetricsRead
  <2>2. off \in HeaderSize .. ClusterLen[k] - 1
    BY <1>3, <1>5 DEF HeaderSize
  <2>3. Accepts(op)
    <3>1. op.kind = "READ" /\ op.off = ClusterStart[k] + off /\ op.len = 1
      BY DEF ReadOp, HeaderSize
    <3> HIDE DEF op
    <3>2. QED
      BY <1>2, <1>3, <2>2, <3>1, AcceptsIn DEF HeaderSize
  <2>4. /\ FindGoes("METRICS_EVAL") /\ flash' = flash /\ flsOp' = op /\ flsStatus' = "BUSY"
        /\ FlashOK(flash)' /\ UNCHANGED Findings
    <3> HIDE DEF op
    <3>1. QED
      BY <1>1, <1>2, <2>1, <2>3, RequestGoes
  <2>5. FlightOK' /\ Executed' = flash
    BY <1>3, <2>2, <2>4, HeaderReadFlight
  <2>6. Underway' /\ NoFault' /\ \A subs : At(subs)' <=> "METRICS_EVAL" \in subs
    BY <1>2, <2>4, GoesOn
  <2>7. find'.scanOff = off /\ find'.scanCorrupt = find.scanCorrupt
    BY <2>4 DEF Findings
  <2>8. ScannedTo(Executed)'
    BY <1>1, <1>2, <2>5, <2>7, DirKept DEF ScannedTo
  <2>9. Fetched("scanHdrBuf", ClusterStart[k] + off)' /\ off < ClusterLen[k]
    BY <1>1, <1>3, <2>2, <2>4, <2>7 DEF Fetched
  <2>10. Scanning'
    BY <1>1, <2>6, <2>7, <2>8, <2>9 DEF Scanning
  <2>11. Trusted'
    BY <1>1, <1>2, <2>5, TrustKept
  <2>12. At(Scan)'
    BY <2>6 DEF Scan
  <2>13. QED
    BY <2>4, <2>5, <2>6, <2>10, <2>11, <2>12, PlaceNext DEF LogInv, Elsewhere
<1>6. QED
  BY <1>4, <1>5

\* A record is taken into the directory; anything else ends the scan.
LEMMA MetricsEvalLog == FeeInv /\ LogInv /\ FindMetricsEval => LogInv'
<1> SUFFICES ASSUME FeeInv, LogInv, FindMetricsEval PROVE LogInv'
  OBVIOUS
<1> DEFINE k == dir.index
           off == find.scanOff
           hdr == mem["scanHdrBuf"][0]
<1>1. /\ InFind("METRICS_EVAL") /\ UNCHANGED <<flash, mem, flsOp, state, job, dirty>>
  BY DEF FindMetricsEval, callerVars, flsVars
<1>2. /\ state = "FIND_PROC" /\ find.sub # "DONE" /\ ~Moving /\ flsStatus # "BUSY"
      /\ flsOp.kind = "NONE" /\ Executed = flash /\ ScannedTo(flash)
  BY <1>1, ScanStep DEF Scan
<1>3. /\ k \in Cluster /\ off \in HeaderSize .. ClusterLen[k] /\ off \in Nat
      /\ ClusterLen[k] \in Nat /\ ClusterStart[k] \in Nat /\ off < ClusterLen[k]
      /\ hdr = flash[ClusterStart[k] + off] /\ ClusterOK(flash, k)
      /\ ~find.scanCorrupt /\ ~dir.valid /\ Active(flash)
  <2>1. k \in Cluster /\ ClusterOK(flash, k)
    BY <1>2, ActiveCluster DEF ScannedTo, LogInv
  <2>2. off \in HeaderSize .. ClusterLen[k] /\ ~find.scanCorrupt /\ ~dir.valid /\ Active(flash)
    BY <1>2 DEF ScannedTo
  <2>3. At({"METRICS_EVAL"})
    BY <1>1 DEF At, InFind, Cont
  <2>4. off < ClusterLen[k] /\ hdr = flash[ClusterStart[k] + off]
    BY <1>2, <2>3 DEF LogInv, Scanning, Fetched
  <2>5. QED
    BY <2>1, <2>2, <2>4, Room DEF HeaderSize
<1>4. FlashOK(flash)' /\ FlightOK' /\ Executed' = flash
  BY <1>1, <1>2, NoJobKept
<1>5. find \in Find /\ ~find.err /\ dir \in Dir
  BY <1>2 DEF FeeInv, TypeOK, LogInv, NoFault
<1>6. ASSUME NEW sub \in Scan, find'.sub = sub,
             find'.err = find.err, find'.ret = find.ret, find'.type = find.type
      PROVE  Underway' /\ NoFault' /\ (\A subs : At(subs)' <=> sub \in subs) /\ At(Scan)'
  <2>1. FindGoes(sub)
    BY <1>1, <1>2, <1>5, <1>6 DEF FindGoes, Cont
  <2>2. QED
    BY <1>2, <2>1, GoesOn
<1>7. hdr \in Cell
  <2>1. mem \in [Buffer -> [BufIdx -> Cell]] /\ "scanHdrBuf" \in Buffer /\ 0 \in BufIdx
    BY FeeAssumption, ZeroIndex DEF FeeInv, TypeOK, FlsTypeOK
  <2>2. QED
    BY <2>1
<1>8. Overruns(hdr) /\ hdr \in BlockHeader => off + BlockTotal(hdr.len) > ClusterLen[k]
  <2>1. SUFFICES ASSUME Overruns(hdr), hdr \in BlockHeader
                 PROVE  off + BlockTotal(hdr.len) > ClusterLen[k]
    OBVIOUS
  <2> DEFINE rest == ClusterLen[k] - off - HeaderSize
  <2>2. rest \in 0 .. WordMod - 1 /\ WordMod \in Nat \ {0}
    BY <1>3, RoomAssumption, FeeAssumption DEF HeaderSize
  <2>3. hdr.len > rest % WordMod
    BY <2>1 DEF Overruns
  <2>4. hdr.len \in Nat
    <3>1. \A h \in BlockHeader : h.len \in Nat
      BY BlockAssumption DEF BlockHeader
    <3>2. QED
      BY <2>1, <3>1
  <2>5. hdr.len > rest
    <3> HIDE DEF rest
    <3>1. rest % WordMod = rest
      BY <2>2
    <3>2. QED
      BY <2>3, <3>1
  <2> HIDE DEF hdr
  <2>6. QED
    BY <1>3, <2>4, <2>5 DEF BlockTotal, HeaderSize
<1>9. ~Overruns(hdr) /\ hdr \in BlockHeader => IsRecord(flash, k, off)
  <2>1. SUFFICES ASSUME ~Overruns(hdr), hdr \in BlockHeader
                 PROVE  off + BlockTotal(hdr.len) <= ClusterLen[k]
    <3>1. off + HeaderSize <= ClusterLen[k]
      BY <1>3 DEF HeaderSize
    <3>2. QED
      BY <1>3, <3>1 DEF IsRecord, IsBlockHeaderValid
  <2> DEFINE rest == ClusterLen[k] - off - HeaderSize
  <2>2. rest \in 0 .. WordMod - 1 /\ WordMod \in Nat \ {0}
    BY <1>3, RoomAssumption, FeeAssumption DEF HeaderSize
  <2>3. ~(hdr.len > rest % WordMod)
    BY <2>1 DEF Overruns
  <2>4. hdr.len \in Nat
    <3>1. \A h \in BlockHeader : h.len \in Nat
      BY BlockAssumption DEF BlockHeader
    <3>2. QED
      BY <2>1, <3>1
  <2>5. ~(hdr.len > rest)
    <3> HIDE DEF rest
    <3>1. rest % WordMod = rest
      BY <2>2
    <3>2. QED
      BY <2>3, <3>1
  <2> HIDE DEF hdr
  <2>6. QED
    BY <1>3, <2>4, <2>5 DEF BlockTotal, HeaderSize
<1>10. CASE hdr = Erased \/ ~IsBlockHeaderValid(hdr) \/ Overruns(hdr)
  <2>1. ~IsRecord(flash, k, off)
    <3>1. Erased \notin BlockHeader
      BY CellAssumption
    <3>2. IsRecord(flash, k, off) => hdr \in BlockHeader /\ off + BlockTotal(hdr.len) <= ClusterLen[k]
      BY <1>3 DEF IsRecord, IsBlockHeaderValid
    <3>3. hdr \in BlockHeader => BlockTotal(hdr.len) \in Nat
      <4>1. \A h \in BlockHeader : h.len \in Nat
        BY BlockAssumption DEF BlockHeader
      <4>2. QED
        BY <4>1 DEF BlockTotal, HeaderSize
    <3> HIDE DEF hdr
    <3>4. QED
      BY <1>3, <1>8, <1>10, <3>1, <3>2, <3>3 DEF IsBlockHeaderValid
  <2>2. Describes(flash) /\ dir.headerEnd = off /\ Log(flash, k).end = off
    BY <1>2, <2>1, ScanEnds
  <2>3. /\ dir' = dir
        /\ IF hdr = Erased THEN find' = [find EXCEPT !.sub = "METRICS_DONE"]
           ELSE find' = [find EXCEPT !.sub = "METRICS_DONE", !.scanCorrupt = TRUE]
    BY <1>10 DEF FindMetricsEval
  <2>4. /\ find'.sub = "METRICS_DONE" /\ find'.err = find.err /\ find'.ret = find.ret
        /\ find'.type = find.type /\ (hdr # Erased => find'.scanCorrupt)
    BY <1>5, <2>3 DEF Find
  <2>5. Underway' /\ NoFault' /\ (\A subs : At(subs)' <=> "METRICS_DONE" \in subs) /\ At(Scan)'
    BY <1>6, <2>4 DEF Scan
  <2>6. hdr = Erased => Appends(flash)
    <3>1. hdr = Erased => CleanFrom(flash, k, off)
      BY <1>3, <2>2 DEF ClusterOK
    <3>2. QED
      BY <1>3, <2>2, <3>1 DEF Appends
  <2>7. Scanned(Executed)'
    BY <1>2, <1>3, <1>4, <2>2, <2>3, <2>4, <2>6, DirKept DEF Scanned
  <2>8. Scanning'
    BY <2>5, <2>7 DEF Scanning
  <2>9. Trusted'
    BY <1>3, <2>3 DEF Trusted
  <2>10. QED
    BY <1>4, <2>5, <2>8, <2>9, PlaceNext DEF LogInv, Elsewhere
<1>11. CASE ~(hdr = Erased \/ ~IsBlockHeaderValid(hdr) \/ Overruns(hdr))
  <2> DEFINE end == off + BlockTotal(hdr.len)
             b == hdr.block
  <2>1. hdr \in BlockHeader /\ IsRecord(flash, k, off) /\ end = RecordEnd(flash, k, off)
    BY <1>3, <1>9, <1>11 DEF IsBlockHeaderValid, RecordEnd
  <2>2. end \in off + 1 .. ClusterLen[k] /\ b \in Block /\ b = flash[ClusterStart[k] + off].block
    BY <1>3, <2>1, RecordEndType
  <2>3. /\ dir' = [dir EXCEPT !.offset[b] = off, !.headerEnd = end]
        /\ find' = [find EXCEPT !.scanOff = @ + BlockTotal(hdr.len), !.sub = "METRICS_READ"]
    BY <1>11 DEF FindMetricsEval
  <2>4. /\ find'.sub = "METRICS_READ" /\ find'.err = find.err /\ find'.ret = find.ret
        /\ find'.type = find.type /\ find'.scanCorrupt = find.scanCorrupt /\ find'.scanOff = end
    BY <1>5, <2>3 DEF Find
  <2> HIDE DEF end, b
  <2>5. /\ dir'.index = k /\ dir'.gen = dir.gen /\ dir'.valid = dir.valid /\ dir'.headerEnd = end
        /\ \A x \in Block : dir'.offset[x] = IF x = b THEN off ELSE dir.offset[x]
    BY <1>5, <2>2, <2>3 DEF Dir
  <2>6. Underway' /\ NoFault' /\ (\A subs : At(subs)' <=> "METRICS_READ" \in subs) /\ At(Scan)'
    BY <1>6, <2>4 DEF Scan
  <2>7. ScannedTo(flash)'
    <3> DEFINE rest == LogFrom(flash, k)[off]
               more == LogFrom(flash, k)[end]
    <3>1. off \in 0 .. ClusterLen[k]
      BY <1>3
    <3>2. /\ rest.end = more.end
          /\ \A x \in Block : rest.last[x] = IF x = b /\ more.last[x] = NoRecord THEN off
                                             ELSE more.last[x]
      BY <1>3, <2>1, <2>2, <3>1, LogGoesOn
    <3>3. /\ Log(flash, k).end = rest.end
          /\ \A x \in Block : Log(flash, k).last[x] = IF rest.last[x] = NoRecord THEN dir.offset[x]
                                                     ELSE rest.last[x]
      BY <1>2 DEF ScannedTo
    <3>4. off # NoRecord
      BY <1>3 DEF NoRecord
    <3> HIDE DEF rest, more
    <3>5. /\ Log(flash, k).end = more.end
          /\ \A x \in Block : Log(flash, k).last[x] = IF more.last[x] = NoRecord THEN dir'.offset[x]
                                                     ELSE more.last[x]
      BY <2>5, <3>2, <3>3, <3>4
    <3>6. Active(flash)'
      BY <1>1, <1>3, <2>5 DEF Active, Newer
    <3>7. end \in HeaderSize .. ClusterLen[k]
      BY <1>3, <2>2 DEF HeaderSize
    <3> USE DEF more
    <3>8. QED
      BY <1>1, <1>3, <2>4, <2>5, <3>5, <3>6, <3>7 DEF ScannedTo
  <2>8. ScannedTo(Executed)'
    BY <1>1, <1>4, <2>7 DEF ScannedTo, Active, Newer
  <2>9. Scanning'
    BY <2>6, <2>8 DEF Scanning
  <2>10. Trusted'
    BY <1>3, <2>5 DEF Trusted
  <2>11. QED
    BY <1>4, <2>6, <2>9, <2>10, PlaceNext DEF LogInv, Elsewhere
<1>12. QED
  BY <1>10, <1>11

\* The scan is over: a write that finds damage or no room goes on to another cluster.
LEMMA MetricsDoneLog == FeeInv /\ LogInv /\ FindMetricsDone => LogInv'
<1> SUFFICES ASSUME FeeInv, LogInv, FindMetricsDone PROVE LogInv'
  OBVIOUS
<1>1. InFind("METRICS_DONE") /\ UNCHANGED <<job, dirty>>
  BY DEF FindMetricsDone, callerVars
<1>2. /\ state = "FIND_PROC" /\ find.sub # "DONE" /\ Executed = flash /\ Scanned(flash)
      /\ ~Moving
  BY <1>1, ScanStep DEF Scan
<1>3. /\ Active(flash) /\ Describes(flash) /\ dir.gen # NoGen /\ ~dir.valid
      /\ dir.offset = Log(flash, dir.index).last /\ dir.headerEnd = Log(flash, dir.index).end
  BY <1>2, ActiveCluster, DescribesActive DEF Scanned
<1>4. CASE find.type = "WRITE" /\ (find.scanCorrupt \/ NoRoom)
  <2>1. FindGoto("MIGRATE_PREPARE") /\ dir' = dir
    BY <1>4 DEF FindMetricsDone
  <2>2. FindGoes("MIGRATE_PREPARE") /\ FlashOK(flash)' /\ FlightOK' /\ Executed' = Executed
    BY <1>1, <1>2, <2>1, GotoGoes
  <2>3. Underway' /\ NoFault' /\ \A subs : At(subs)' <=> "MIGRATE_PREPARE" \in subs
    BY <1>2, <2>2, GoesOn
  <2>4. Sourced(Executed)'
    BY <1>2, <1>3, <2>1, <2>2, DirKept DEF Sourced
  <2>5. Migrating'
    BY <2>3, <2>4 DEF Migrating, Activated
  <2>6. Trusted'
    BY <1>3, <2>1 DEF Trusted
  <2>7. At({"MIGRATE_PREPARE"})'
    BY <2>3
  <2>8. QED
    BY <2>2, <2>3, <2>5, <2>6, <2>7, PlaceNext DEF LogInv, Elsewhere
<1>5. CASE ~(find.type = "WRITE" /\ (find.scanCorrupt \/ NoRoom))
  <2>1. FindGoto("DONE") /\ dir' = [dir EXCEPT !.valid = ~find.scanCorrupt]
    BY <1>5 DEF FindMetricsDone
  <2>2. FindGoes("DONE") /\ FlashOK(flash)' /\ FlightOK' /\ Executed' = flash
    BY <1>1, <1>2, <2>1, GotoGoes
  <2>3. /\ dir'.valid = ~find.scanCorrupt /\ dir'.index = dir.index /\ dir'.gen = dir.gen
        /\ dir'.offset = dir.offset /\ dir'.headerEnd = dir.headerEnd
    BY <2>1 DEF FeeInv, TypeOK, Dir
  <2>4. Active(Executed)' /\ Describes(Executed)'
    BY <1>3, <2>2, <2>3 DEF Active, Newer, Describes
  <2>5. ~find.scanCorrupt => Appends(Executed)'
    BY <1>2, <2>2, <2>3, <2>4 DEF Scanned, Appends
  <2>6. Trusted'
    BY <2>3, <2>4, <2>5 DEF Trusted
  <2>7. find.type # "READ" => ~find.scanCorrupt /\ HasRoom'
    <3>1. SUFFICES ASSUME find.type # "READ" PROVE ~find.scanCorrupt /\ HasRoom
      BY <1>1, <2>3 DEF HasRoom, Remaining
    <3>2. ~find.scanCorrupt /\ ~(Free < Needed)
      BY <1>5, <3>1 DEF NoRoom, FeeInv, TypeOK, Find
    <3>3. Needed = TotalOf(Remaining) /\ Needed \in Nat
      BY <1>2, <3>1, NeededIs
    <3>4. /\ Free = ClusterLen[dir.index] - dir.headerEnd /\ ClusterLen[dir.index] \in Nat
          /\ dir.headerEnd \in HeaderSize .. ClusterLen[dir.index]
      BY <1>3, FreeIs
    <3>5. QED
      BY <3>2, <3>3, <3>4 DEF HasRoom, HeaderSize
  <2>8. QED
    BY <1>2, <2>2, <2>4, <2>5, <2>6, <2>7, ReturnsLog
<1>6. QED
  BY <1>4, <1>5

----------------------------------------------------------------------------
(* The first activation of a cluster                                       *)

\* Past the search the driver is free whenever FindAddr goes on.
LEMMA FreeInFind ==
  ASSUME FeeInv, NEW sub, sub # "START", InFind(sub)
  PROVE  /\ state = "FIND_PROC" /\ find.sub = sub /\ flsStatus # "BUSY" /\ flsOp.kind = "NONE"
         /\ Executed = flash /\ \A subs : At(subs) <=> sub \in subs
<1>1. state = "FIND_PROC" /\ find.sub = sub /\ ~InFind("START")
  BY DEF InFind
<1>2. flsStatus # "BUSY" /\ flsOp.kind = "NONE"
  BY <1>1, DriverFree
<1>3. QED
  BY <1>1, <1>2, ReadEffect DEF At, Cont

\* No job needs more room than all blocks together.
LEMMA NeededFits == FeeInv => Needed \in Nat /\ Needed <= TotalOf(Block) /\ TotalOf(Block) \in Nat
<1> SUFFICES ASSUME FeeInv
             PROVE  Needed \in Nat /\ Needed <= TotalOf(Block) /\ TotalOf(Block) \in Nat
  OBVIOUS
<1>1. job.counted \in SUBSET Block /\ job.blockNumber \in Block
  BY DEF FeeInv, TypeOK, Job
<1>2. Needed = TotalOf(job.counted) \/ Needed = TotalOf({job.blockNumber})
  BY <1>1, TotalOfOne DEF Needed
<1>3. {job.blockNumber} \in SUBSET Block
  BY <1>1
<1>4. QED
  BY <1>1, <1>2, <1>3, TotalMonotone

\* The header of a cluster made ready is asked for: then that cluster is the newest.
LEMMA HeaderAsked ==
  ASSUME FeeInv, FeeInv', LogInv, state = "FIND_PROC", flsStatus # "BUSY",
         NEW k \in Cluster, NEW ret, NEW gen \in 1 .. GenMod - 1, NEW end,
         gen = (IF dir.gen = NoGen THEN 0 ELSE dir.gen) + 1,
         StartWriteClusterHdr(k, ret), UNCHANGED <<job, dirty>>,
         Ready(flash, k, end), \A j \in ValidClusters(flash) : GenOf(flash, j) < gen
  PROVE  /\ FindGoes("WRITE_HDR_WRITE") /\ FlashOK(flash)' /\ FlightOK'
         /\ mig'.hdrGen = gen /\ mig'.hdrRet = ret /\ mig'.dst = mig.dst /\ mig'.hdrEnd = mig.hdrEnd
         /\ Switched(Executed', k, gen, end, Log(flash, k).last)
<1> DEFINE op == WriteOp(ClusterStart[k], "writeHdrBuf", 0, HeaderSize)
<1>1. /\ mig' = [mig EXCEPT !.hdrGen = gen, !.hdrRet = ret]
      /\ mem' = [mem EXCEPT !["writeHdrBuf"][0] = PackClusterHdr(gen)]
      /\ FindFls(op, "WRITE_HDR_WRITE")
  BY DEF StartWriteClusterHdr
<1>2. /\ mig'.hdrGen = gen /\ mig'.hdrRet = ret /\ mig'.dst = mig.dst /\ mig'.hdrEnd = mig.hdrEnd
  BY <1>1 DEF FeeInv, TypeOK, Mig
<1>3. mem'["writeHdrBuf"][0] = [gen |-> gen]
  <2>1. PackClusterHdr(gen) = [gen |-> gen]
    <3>1. gen % GenMod = gen
      BY ClusterAssumption
    <3>2. QED
      BY <3>1 DEF PackClusterHdr
  <2>2. mem \in [Buffer -> [BufIdx -> Cell]] /\ "writeHdrBuf" \in Buffer /\ 0 \in BufIdx
    BY FeeAssumption, ZeroIndex DEF FeeInv, TypeOK, FlsTypeOK
  <2>3. QED
    BY <1>1, <2>1, <2>2
<1>4. Accepts(op)
  <2>1. op.kind = "WRITE" /\ op.off = ClusterStart[k] /\ op.len = 1
    BY DEF WriteOp, HeaderSize
  <2>2. ClusterStart[k] \in Nat /\ ClusterLen[k] \in Nat /\ ClusterLen[k] >= 1
    BY Room
  <2> HIDE DEF op
  <2>3. QED
    BY <2>1, <2>2, AcceptsIn
<1>5. /\ FindGoes("WRITE_HDR_WRITE") /\ flash' = flash /\ flsOp' = op /\ FlashOK(flash)'
  <2> HIDE DEF op
  <2>1. QED
    BY <1>1, <1>4, RequestGoes
<1>6. HeaderFlight(k, gen)'
  BY <1>3, <1>5 DEF HeaderFlight, Ready
<1>7. FlightOK'
  BY <1>6 DEF FlightOK
<1>8. /\ \A j \in Cluster \ {k} : Same(flash, Executed', j, 0)
      /\ GenOf(Executed', k) = gen /\ Same(flash, Executed', k, HeaderSize)
  BY <1>5, <1>6, HeaderEffectNext DEF FeeInv
<1>9. /\ Log(Executed', k).end = end /\ Log(Executed', k).last = Log(flash, k).last
      /\ CleanFrom(Executed', k, end)
  <2>1. Log(flash, k).end = end /\ CleanFrom(flash, k, end)
    BY DEF Ready
  <2>2. end \in HeaderSize .. ClusterLen[k]
    BY <2>1, LogFacts
  <2>3. QED
    BY <1>8, <2>1, <2>2, SameCluster
<1>10. k \in ValidClusters(Executed')
  BY <1>8, ClusterAssumption DEF ValidClusters, NoGen
<1>11. Newer(Executed', gen) = {}
  <2>1. ASSUME NEW j \in ValidClusters(Executed') PROVE ~(GenOf(Executed', j) > gen)
    <3>1. CASE j = k
      BY <1>8, <3>1
    <3>2. CASE j # k
      <4>1. j \in Cluster /\ GenOf(Executed', j) = GenOf(flash, j) /\ GenOf(Executed', j) # NoGen
        BY <1>8, <3>2, WholeCluster DEF ValidClusters
      <4>2. j \in ValidClusters(flash) /\ GenOf(flash, j) \in Nat
        BY <4>1, ClusterHdrGenType DEF ValidClusters, GenOf
      <4>3. QED
        BY <4>1, <4>2
    <3>3. QED
      BY <3>1, <3>2
  <2>2. QED
    BY <2>1 DEF Newer
<1>12. QED
  BY <1>2, <1>5, <1>7, <1>8, <1>9, <1>10, <1>11 DEF Switched

\* Cluster 0 is erased before it gets its first header.
LEMMA FreshEraseLog == FeeInv /\ LogInv /\ FindFreshErase => LogInv'
<1> SUFFICES ASSUME FeeInv, LogInv, FindFreshErase PROVE LogInv'
  OBVIOUS
<1> DEFINE op == EraseOp(ClusterStart[0], ClusterLen[0])
<1>1. /\ InFind("FRESH_ERASE") /\ FindFls(op, "FRESH_ACTIVATE") /\ UNCHANGED <<job, dir, dirty>>
  BY DEF FindFreshErase, callerVars
<1>2. /\ state = "FIND_PROC" /\ find.sub = "FRESH_ERASE" /\ flsStatus # "BUSY" /\ Executed = flash
      /\ At({"FRESH_ERASE", "FRESH_ACTIVATE"})
  BY <1>1, FreeInFind
<1>3. dir.gen = NoGen /\ ValidClusters(flash) = {}
  BY <1>2 DEF LogInv, Fresh, Blanked
<1>4. 0 \in Cluster
  BY ZeroIndex
<1>5. FindGoes("FRESH_ACTIVATE") /\ flash' = flash /\ flsOp' = op /\ FlashOK(flash)'
  <2>1. Accepts(op)
    BY <1>2, <1>4, AcceptsErasure
  <2> HIDE DEF op
  <2>2. QED
    BY <1>1, <1>2, <2>1, RequestGoes
<1>6. FlightOK'
  BY <1>4, <1>5 DEF FlightOK
<1>7. FlsOK'
  BY ActivationOK DEF FeeInv
<1>8. /\ \A j \in Cluster \ {0} : Same(flash, Executed', j, 0)
      /\ GenOf(Executed', 0) = NoGen
      /\ Executed'[ClusterStart[0]] = Erased /\ CleanFrom(Executed', 0, HeaderSize)
  BY <1>4, <1>5, <1>7, EraseEffectNext
<1>9. Ready(Executed', 0, HeaderSize)
  BY <1>4, <1>8, EmptyLog DEF Ready
<1>10. ValidClusters(Executed') = {}
  <2>1. \A j \in Cluster : GenOf(flash, j) = NoGen
    BY <1>3 DEF ValidClusters
  <2>2. \A j \in Cluster \ {0} : GenOf(Executed', j) = GenOf(flash, j)
    BY <1>8, WholeCluster
  <2>3. QED
    BY <1>8, <2>1, <2>2 DEF ValidClusters
<1>11. Underway' /\ NoFault' /\ \A subs : At(subs)' <=> "FRESH_ACTIVATE" \in subs
  BY <1>2, <1>5, GoesOn
<1>12. Fresh'
  BY <1>1, <1>3, <1>9, <1>10, <1>11 DEF Fresh, Blanked, Activated
<1>13. At(Activate)' /\ At({"FRESH_ERASE", "FRESH_ACTIVATE", "FRESH_ACTIVATE_DONE"})'
  BY <1>11 DEF Activate
<1>14. QED
  BY <1>5, <1>6, <1>11, <1>12, <1>13, PlaceNext DEF LogInv, Elsewhere

\* Then its header is asked for.
LEMMA FreshActivateLog == FeeInv /\ LogInv /\ FindFreshActivate => LogInv'
<1> SUFFICES ASSUME FeeInv, LogInv, FindFreshActivate PROVE LogInv'
  OBVIOUS
<1>1. /\ InFind("FRESH_ACTIVATE") /\ StartWriteClusterHdr(0, "FRESH_ACTIVATE_DONE")
      /\ UNCHANGED <<job, dir, dirty>>
  BY DEF FindFreshActivate, callerVars
<1>2. /\ state = "FIND_PROC" /\ find.sub = "FRESH_ACTIVATE" /\ flsStatus # "BUSY"
      /\ Executed = flash /\ At({"FRESH_ERASE", "FRESH_ACTIVATE"}) /\ At({"FRESH_ACTIVATE"})
  BY <1>1, FreeInFind
<1>3. dir.gen = NoGen /\ ValidClusters(flash) = {} /\ Ready(flash, 0, HeaderSize)
  BY <1>2 DEF LogInv, Fresh, Blanked
<1>4. 0 \in Cluster /\ 1 \in 1 .. GenMod - 1
  BY ZeroIndex, ClusterAssumption
<1>5. 1 = (IF dir.gen = NoGen THEN 0 ELSE dir.gen) + 1
  BY <1>3
<1>6. FeeInv'
  BY ActivationOK
<1>7. /\ FindGoes("WRITE_HDR_WRITE") /\ FlashOK(flash)' /\ FlightOK'
      /\ mig'.hdrGen = 1 /\ mig'.hdrRet = "FRESH_ACTIVATE_DONE"
      /\ Switched(Executed', 0, 1, HeaderSize, Log(flash, 0).last)
  BY <1>1, <1>2, <1>3, <1>4, <1>5, <1>6, HeaderAsked
<1>8. Log(flash, 0).last = EmptyDir
  BY <1>3, <1>4, EndOfEmptyLog DEF Ready
<1>9. Underway' /\ NoFault' /\ \A subs : At(subs)' <=> "WRITE_HDR_WRITE" \in subs
  BY <1>2, <1>7, GoesOn
<1>10. Fresh' /\ Migrating'
  BY <1>7, <1>8, <1>9 DEF Fresh, Migrating, Activated
<1>11. At(Activate)'
  BY <1>9 DEF Activate
<1>12. QED
  BY <1>7, <1>9, <1>10, <1>11, PlaceNext DEF LogInv, Elsewhere

\* The header is written.
LEMMA HdrWriteLog == FeeInv /\ LogInv /\ FindWriteHdrWrite => LogInv'
<1> SUFFICES ASSUME FeeInv, LogInv, FindWriteHdrWrite PROVE LogInv'
  OBVIOUS
<1>1. InFind("WRITE_HDR_WRITE") /\ FindGoto(mig.hdrRet) /\ UNCHANGED <<job, dir, mig, dirty>>
  BY DEF FindWriteHdrWrite, callerVars
<1>2. state = "FIND_PROC" /\ find.sub = "WRITE_HDR_WRITE" /\ At({"WRITE_HDR_WRITE"})
  BY <1>1, FreeInFind
<1>3. mig.hdrRet \in {"FRESH_ACTIVATE_DONE", "MIGRATE_SWITCH"}
  BY <1>2 DEF LogInv, Fresh
<1>4. FindGoes(mig.hdrRet) /\ FlashOK(flash)' /\ FlightOK' /\ Executed' = Executed
  BY <1>1, <1>2, GotoGoes
<1>5. Underway' /\ NoFault' /\ \A subs : At(subs)' <=> mig.hdrRet \in subs
  BY <1>2, <1>4, GoesOn
<1>6. CASE mig.hdrRet = "FRESH_ACTIVATE_DONE"
  <2>1. Switched(Executed, 0, mig.hdrGen, HeaderSize, EmptyDir)
    BY <1>2, <1>6 DEF LogInv, Fresh, Activated
  <2>2. Fresh'
    BY <1>1, <1>4, <1>5, <1>6, <2>1 DEF Fresh, Activated
  <2>3. At(Activate)' /\ At({"FRESH_ERASE", "FRESH_ACTIVATE", "FRESH_ACTIVATE_DONE"})'
    BY <1>5, <1>6 DEF Activate
  <2>4. QED
    BY <1>4, <1>5, <2>2, <2>3, PlaceNext DEF LogInv, Elsewhere
<1>7. CASE mig.hdrRet = "MIGRATE_SWITCH"
  <2>1. Switched(Executed, mig.dst, mig.hdrGen, mig.hdrEnd, dir.offset)
    BY <1>2, <1>7 DEF LogInv, Migrating, Activated
  <2>2. Migrating'
    BY <1>1, <1>4, <1>5, <1>7, <2>1 DEF Migrating, Activated
  <2>3. At(Migrate)'
    BY <1>5, <1>7 DEF Migrate
  <2>4. QED
    BY <1>4, <1>5, <2>2, <2>3, PlaceNext DEF LogInv, Elsewhere
<1>8. QED
  BY <1>3, <1>6, <1>7

\* Cluster 0 is active, and empty: it has room for what the job writes.
LEMMA FreshDoneLog == FeeInv /\ LogInv /\ FindFreshActivateDone => LogInv'
<1> SUFFICES ASSUME FeeInv, LogInv, FindFreshActivateDone PROVE LogInv'
  OBVIOUS
<1>1. /\ InFind("FRESH_ACTIVATE_DONE") /\ UNCHANGED <<flash, mem, flsOp, state, job, dirty>>
      /\ dir' = [valid |-> TRUE, index |-> 0, gen |-> mig.hdrGen,
                 headerEnd |-> HeaderSize, offset |-> EmptyDir]
      /\ find' = [find EXCEPT !.sub = "DONE",
                              !.err = @ \/ (ClusterLen[0] - HeaderSize) % WordMod < Needed]
  BY DEF FindFreshActivateDone, callerVars, flsVars
<1>2. /\ state = "FIND_PROC" /\ find.sub # "DONE" /\ flsOp.kind = "NONE" /\ Executed = flash
      /\ At({"FRESH_ACTIVATE_DONE"})
  BY <1>1, FreeInFind
<1>3. Switched(flash, 0, mig.hdrGen, HeaderSize, EmptyDir)
  BY <1>2 DEF LogInv, Fresh, Activated
<1>4. FlashOK(flash)' /\ FlightOK' /\ Executed' = flash
  BY <1>1, <1>2, NoJobKept
<1>5. find \in Find /\ ~find.err
  BY <1>2 DEF FeeInv, TypeOK, LogInv, NoFault
<1>6. 0 \in Cluster /\ ClusterLen[0] \in Nat /\ HeaderSize + TotalOf(Block) <= ClusterLen[0]
      /\ ClusterLen[0] < WordMod /\ WordMod \in Nat \ {0}
  BY ZeroIndex, Room, RoomAssumption, FeeAssumption
<1>7. ~((ClusterLen[0] - HeaderSize) % WordMod < Needed)
  <2>1. Needed \in Nat /\ Needed <= TotalOf(Block) /\ TotalOf(Block) \in Nat
    BY NeededFits
  <2>2. ClusterLen[0] - HeaderSize \in 0 .. WordMod - 1
    BY <1>6, <2>1 DEF HeaderSize
  <2>3. \A n \in 0 .. WordMod - 1 : n % WordMod = n
    BY <1>6
  <2>4. (ClusterLen[0] - HeaderSize) % WordMod = ClusterLen[0] - HeaderSize
    BY <2>2, <2>3
  <2>5. QED
    BY <1>6, <2>1, <2>4 DEF HeaderSize
<1>8. find'.sub = "DONE" /\ ~find'.err /\ find'.ret = find.ret /\ find'.type = find.type
  BY <1>1, <1>5, <1>7 DEF Find
<1>9. FindGoes("DONE")
  BY <1>1, <1>2, <1>8 DEF FindGoes, Cont
<1>10. /\ dir'.index = 0 /\ dir'.gen = mig.hdrGen /\ dir'.headerEnd = HeaderSize
       /\ dir'.offset = EmptyDir
  BY <1>1
<1>11. Describes(Executed)' /\ Appends(Executed)'
  <2>1. Switched(Executed', dir'.index, dir'.gen, dir'.headerEnd, dir'.offset)
    BY <1>3, <1>4, <1>10
  <2>2. QED
    BY <2>1 DEF Describes, Appends, Active, Switched
<1>12. Trusted'
  BY <1>11 DEF Trusted
<1>13. find.type # "READ" => HasRoom'
  <2>1. SUFFICES ASSUME find.type # "READ" PROVE HeaderSize + TotalOf(Remaining) <= ClusterLen[0]
    BY <1>1, <1>10 DEF HasRoom, Remaining
  <2>2. /\ TotalOf(Remaining) \in Nat /\ TotalOf(Remaining) <= TotalOf(Block)
        /\ TotalOf(Block) \in Nat
    BY <1>2, <2>1, NeededIs, NeededFits
  <2>3. QED
    BY <1>6, <2>2 DEF HeaderSize
<1>14. QED
  BY <1>2, <1>4, <1>9, <1>11, <1>12, <1>13, ReturnsLog

----------------------------------------------------------------------------
(* The migration                                                           *)

\* The blocks from n on.
From(n) == {b \in Block : b >= n}

\* The first of them taken out.
LEMMA FromSplit ==
  ASSUME NEW b \in Block
  PROVE  TotalOf(From(b)) = BlockTotal(DataCells[b]) + TotalOf(From(b + 1))
<1>1. From(b) \in SUBSET Block /\ b \in From(b)
  BY BlockAssumption DEF From, Block
<1>2. From(b) \ {b} = From(b + 1)
  BY BlockAssumption DEF From, Block
<1>3. QED
  BY <1>1, <1>2, TotalSplit

\* The further on, the less is left.
LEMMA FromShrinks ==
  ASSUME NEW n \in Nat, NEW m \in Nat, m <= n
  PROVE  TotalOf(From(n)) \in Nat /\ TotalOf(From(m)) \in Nat /\ TotalOf(From(n)) <= TotalOf(From(m))
<1>1. From(m) \in SUBSET Block /\ From(n) \in SUBSET From(m)
  BY BlockAssumption DEF From, Block
<1>2. QED
  BY <1>1, TotalMonotone

\* The directory still says where the active cluster has its records, whatever
\* happens to another cluster that has no header now and had no newer one before.
LEMMA SourceKept ==
  ASSUME NEW fl, NEW gl, NEW k \in Cluster, k # dir.index, Active(fl),
         \A j \in Cluster \ {k} : Same(fl, gl, j, 0),
         GenOf(gl, k) = NoGen
  PROVE  Active(gl) /\ Log(gl, dir.index).last = Log(fl, dir.index).last
<1>1. dir.index \in Cluster \ {k}
  BY DEF Active, ValidClusters
<1>2. \A j \in Cluster \ {k} : GenOf(gl, j) = GenOf(fl, j)
  BY WholeCluster
<1>3. ValidClusters(gl) \subseteq ValidClusters(fl) /\ k \notin ValidClusters(gl)
  BY <1>2 DEF ValidClusters
<1>4. dir.index \in ValidClusters(gl)
  BY <1>1, <1>2 DEF Active, ValidClusters
<1>5. Newer(gl, dir.gen) = {}
  <2>1. \A j \in ValidClusters(gl) : GenOf(gl, j) = GenOf(fl, j) /\ j \in ValidClusters(fl)
    BY <1>2, <1>3 DEF ValidClusters
  <2>2. QED
    BY <2>1 DEF Active, Newer
<1>6. QED
  BY <1>1, <1>2, <1>4, <1>5, WholeCluster DEF Active

\* The next cluster of the table is the destination.
LEMMA PrepareLog == FeeInv /\ LogInv /\ FindMigratePrepare => LogInv'
<1> SUFFICES ASSUME FeeInv, LogInv, FindMigratePrepare PROVE LogInv'
  OBVIOUS
<1>1. /\ InFind("MIGRATE_PREPARE") /\ FindGoto("MIGRATE_ERASE_DST")
      /\ mig' = [mig EXCEPT !.dst = (dir.index + 1) % ClusterCount,
                            !.hdrEnd = HeaderSize, !.block = 0]
      /\ UNCHANGED <<job, dir, dirty>>
  BY DEF FindMigratePrepare, callerVars
<1>2. state = "FIND_PROC" /\ find.sub # "DONE" /\ At({"MIGRATE_PREPARE", "MIGRATE_ERASE_DST"})
  BY <1>1, FreeInFind
<1>3. Sourced(Executed)
  BY <1>2 DEF LogInv, Migrating
<1>4. FindGoes("MIGRATE_ERASE_DST") /\ FlashOK(flash)' /\ FlightOK' /\ Executed' = Executed
  BY <1>1, <1>2, GotoGoes
<1>5. Underway' /\ NoFault' /\ \A subs : At(subs)' <=> "MIGRATE_ERASE_DST" \in subs
  BY <1>2, <1>4, GoesOn
<1>6. mig'.dst = (dir.index + 1) % ClusterCount /\ mig'.hdrEnd = HeaderSize /\ mig'.block = 0
  BY <1>1 DEF FeeInv, TypeOK, Mig
<1>7. mig'.dst # dir.index
  <2>1. dir.index \in 0 .. ClusterCount - 1 /\ ClusterCount \in Nat /\ ClusterCount > 1
    BY RoomAssumption, ClusterAssumption DEF FeeInv, TypeOK, Dir, Cluster
  <2>2. CASE dir.index + 1 < ClusterCount
    <3>1. (dir.index + 1) % ClusterCount = dir.index + 1
      BY <2>1, <2>2
    <3>2. QED
      BY <1>6, <2>1, <3>1
  <2>3. CASE dir.index + 1 = ClusterCount
    <3>1. (dir.index + 1) % ClusterCount = 0
      BY <2>1, <2>3
    <3>2. QED
      BY <1>6, <2>1, <2>3, <3>1
  <2>4. QED
    BY <2>1, <2>2, <2>3
<1>8. Sourced(Executed)'
  BY <1>1, <1>3, <1>4, DirKept DEF Sourced
<1>9. Migrating'
  BY <1>1, <1>5, <1>6, <1>7, <1>8 DEF Migrating, Activated
<1>10. At(Migrate)'
  BY <1>5 DEF Migrate
<1>11. QED
  BY <1>4, <1>5, <1>9, <1>10, PlaceNext DEF LogInv, Elsewhere

\* It is erased: now it holds no records, and has room for all of them.
LEMMA EraseDstLog == FeeInv /\ LogInv /\ FindMigrateEraseDst => LogInv'
<1> SUFFICES ASSUME FeeInv, LogInv, FindMigrateEraseDst PROVE LogInv'
  OBVIOUS
<1> DEFINE dst == mig.dst
           op == EraseOp(ClusterStart[dst], ClusterLen[dst])
<1>1. /\ InFind("MIGRATE_ERASE_DST") /\ FindFls(op, "MIGRATE_READ")
      /\ UNCHANGED <<job, dir, mig, dirty>>
  BY DEF FindMigrateEraseDst, callerVars
<1>2. /\ state = "FIND_PROC" /\ find.sub = "MIGRATE_ERASE_DST" /\ flsStatus # "BUSY"
      /\ Executed = flash /\ At({"MIGRATE_PREPARE", "MIGRATE_ERASE_DST"})
      /\ At({"MIGRATE_ERASE_DST"})
  BY <1>1, FreeInFind
<1>3. /\ Active(flash) /\ dir.offset = Log(flash, dir.index).last
      /\ dst # dir.index /\ mig.hdrEnd = HeaderSize /\ mig.block = 0
  BY <1>2 DEF LogInv, Migrating, Sourced
<1>4. dst \in Cluster
  BY DEF FeeInv, TypeOK, Mig
<1>5. FindGoes("MIGRATE_READ") /\ flash' = flash /\ flsOp' = op /\ FlashOK(flash)'
  <2>1. Accepts(op)
    BY <1>2, <1>4, AcceptsErasure
  <2> HIDE DEF op
  <2>2. QED
    BY <1>1, <1>2, <2>1, RequestGoes
<1>6. FlightOK'
  BY <1>4, <1>5 DEF FlightOK
<1>7. FlsOK'
  BY MigrateOK DEF FeeInv
<1>8. /\ \A j \in Cluster \ {dst} : Same(flash, Executed', j, 0)
      /\ GenOf(Executed', dst) = NoGen
      /\ Executed'[ClusterStart[dst]] = Erased /\ CleanFrom(Executed', dst, HeaderSize)
  BY <1>4, <1>5, <1>7, EraseEffectNext
<1>9. Ready(Executed', dst, HeaderSize) /\ Log(Executed', dst).last = EmptyDir
  BY <1>4, <1>8, EmptyLog DEF Ready
<1>10. Active(Executed') /\ Log(Executed', dir.index).last = dir.offset
  BY <1>3, <1>4, <1>8, SourceKept
<1>11. Underway' /\ NoFault' /\ \A subs : At(subs)' <=> "MIGRATE_READ" \in subs
  BY <1>2, <1>5, GoesOn
<1>12. Copied(Executed)'
  <2>1. Pending' = 0
    BY <1>1, <1>3, <1>5 DEF Pending, FindGoes
  <2>2. {b \in Block : b >= 0} = Block /\ \A b \in Block : ~(b < 0)
    BY BlockAssumption DEF Block
  <2>3. HeaderSize + TotalOf(Block) <= ClusterLen[dst]
    BY <1>4, RoomAssumption
  <2>4. \A b \in Block : Log(Executed', dst).last[b] = NoRecord
    BY <1>9 DEF EmptyDir
  <2>5. Active(Executed)'
    BY <1>1, <1>10 DEF Active, Newer
  <2>6. QED
    BY <1>1, <1>3, <1>9, <1>10, <2>1, <2>2, <2>3, <2>4, <2>5 DEF Copied, Ready
<1>13. Migrating'
  BY <1>11, <1>12 DEF Migrating, Activated
<1>14. At(Migrate)'
  BY <1>11 DEF Migrate
<1>15. QED
  BY <1>5, <1>6, <1>11, <1>13, <1>14, PlaceNext DEF LogInv, Elsewhere

\* The search over blocks finds the first one of the set from n on, if there is one.
LEMMA FirstFromIs ==
  ASSUME NEW n \in Nat, NEW S \in SUBSET Block
  PROVE  /\ FirstFrom(n, S) = BlockCount => \A x \in S : x < n
         /\ FirstFrom(n, S) # BlockCount =>
              /\ FirstFrom(n, S) \in S /\ FirstFrom(n, S) >= n
              /\ \A x \in S : x >= n => FirstFrom(n, S) <= x
<1> DEFINE IsFirst(b) == b >= n /\ \A x \in S : x >= n => b <= x
<1>1. FirstFrom(n, S) = IF \E b \in S : IsFirst(b) THEN CHOOSE b \in S : IsFirst(b) ELSE BlockCount
  BY DEF FirstFrom
<1>2. \A x \in Block : x \in Nat /\ x # BlockCount
  BY BlockAssumption DEF Block
<1>3. CASE \E b \in S : IsFirst(b)
  <2>1. FirstFrom(n, S) \in S /\ IsFirst(FirstFrom(n, S))
    <3> HIDE DEF IsFirst
    <3>1. QED
      BY <1>1, <1>3
  <2>2. FirstFrom(n, S) # BlockCount
    BY <1>2, <2>1
  <2>3. QED
    BY <2>1, <2>2
<1>4. CASE ~\E b \in S : IsFirst(b)
  <2>1. FirstFrom(n, S) = BlockCount
    BY <1>1, <1>4
  <2> DEFINE T == {x \in S : x >= n}
  <2>2. T = {}
    <3>1. SUFFICES ASSUME T # {} PROVE FALSE
      OBVIOUS
    <3>2. T \subseteq Nat
      BY <1>2
    <3>3. PICK m \in T : \A x \in T : m <= x
      <4> HIDE DEF T
      <4>1. QED
        BY <3>1, <3>2, Least
    <3>4. m \in S /\ IsFirst(m)
      BY <3>3
    <3>5. QED
      BY <1>4, <3>4
  <2>3. \A x \in S : x < n
    BY <1>2, <2>2
  <2>4. QED
    BY <2>1, <2>3
<1>5. QED
  BY <1>3, <1>4

\* What a migrating job finds when it goes on.
LEMMA MigrateStep ==
  ASSUME FeeInv, LogInv,
         NEW sub \in {"MIGRATE_READ", "MIGRATE_WRITE", "MIGRATE_ACTIVATE"}, InFind(sub)
  PROVE  /\ Executed = flash /\ flsStatus # "BUSY" /\ flsOp.kind = "NONE"
         /\ state = "FIND_PROC" /\ find.sub = sub /\ find.sub # "DONE"
         /\ Copied(flash) /\ Active(flash) /\ mig.dst # dir.index
         /\ mig.dst \in Cluster /\ dir.index \in Cluster
         /\ mig.hdrEnd = Log(flash, mig.dst).end
         /\ mig.hdrEnd \in HeaderSize .. ClusterLen[mig.dst]
         /\ flash[ClusterStart[mig.dst]] = Erased
         /\ ClusterOK(flash, mig.dst) /\ CleanFrom(flash, mig.dst, mig.hdrEnd)
         /\ mig.hdrEnd + TotalOf(From(Pending)) <= ClusterLen[mig.dst]
         /\ \A b \in Block :
              IF b < Pending THEN dir.offset[b] = Log(flash, mig.dst).last[b]
              ELSE /\ dir.offset[b] = Log(flash, dir.index).last[b]
                   /\ Log(flash, mig.dst).last[b] = NoRecord
<1>1. /\ state = "FIND_PROC" /\ find.sub = sub /\ flsStatus # "BUSY" /\ flsOp.kind = "NONE"
      /\ Executed = flash /\ At({"MIGRATE_READ", "MIGRATE_WRITE", "MIGRATE_ACTIVATE"})
  BY FreeInFind
<1>2. Copied(flash)
  BY <1>1 DEF LogInv, Migrating
<1>3. Active(flash) /\ mig.dst # dir.index /\ mig.hdrEnd = Log(flash, mig.dst).end
  BY <1>2 DEF Copied, Ready
<1>4. mig.dst \in Cluster /\ dir.index \in Cluster
  BY <1>3, ActiveCluster DEF FeeInv, TypeOK, Mig
<1>5. mig.hdrEnd \in HeaderSize .. ClusterLen[mig.dst]
  BY <1>3, <1>4, LogFacts
<1>6. /\ flash[ClusterStart[mig.dst]] = Erased
      /\ ClusterOK(flash, mig.dst) /\ CleanFrom(flash, mig.dst, mig.hdrEnd)
      /\ mig.hdrEnd + TotalOf(From(Pending)) <= ClusterLen[mig.dst]
  BY <1>2 DEF Copied, Ready, From
<1>7. \A b \in Block :
        IF b < Pending THEN dir.offset[b] = Log(flash, mig.dst).last[b]
        ELSE /\ dir.offset[b] = Log(flash, dir.index).last[b]
             /\ Log(flash, mig.dst).last[b] = NoRecord
  BY <1>2 DEF Copied
<1>8. QED
  BY <1>1, <1>2, <1>3, <1>4, <1>5, <1>6, <1>7

\* Blocks without a record, old or new, may be passed over.
LEMMA CopiedUpTo ==
  ASSUME FeeInv, LogInv, InFind("MIGRATE_READ"), NEW n \in Nat, mig.block <= n,
         \A x \in Block : mig.block <= x /\ x < n => dir.offset[x] = NoRecord,
         Executed' = flash, UNCHANGED dir, mig'.dst = mig.dst, mig'.hdrEnd = mig.hdrEnd,
         Pending' = n
  PROVE  Copied(Executed)'
<1>1. /\ Executed = flash /\ Active(flash) /\ mig.dst # dir.index /\ Copied(flash)
      /\ mig.dst \in Cluster /\ mig.hdrEnd \in HeaderSize .. ClusterLen[mig.dst]
      /\ mig.hdrEnd + TotalOf(From(Pending)) <= ClusterLen[mig.dst] /\ find.sub = "MIGRATE_READ"
      /\ \A b \in Block :
           IF b < Pending THEN dir.offset[b] = Log(flash, mig.dst).last[b]
           ELSE /\ dir.offset[b] = Log(flash, dir.index).last[b]
                /\ Log(flash, mig.dst).last[b] = NoRecord
  BY MigrateStep
<1>2. Pending = mig.block /\ mig.block \in Nat
  BY <1>1, BlockAssumption DEF Pending, FeeInv, TypeOK, Mig
<1>3. mig.hdrEnd + TotalOf(From(n)) <= ClusterLen[mig.dst]
  <2>1. /\ TotalOf(From(n)) \in Nat /\ TotalOf(From(Pending)) \in Nat
        /\ TotalOf(From(n)) <= TotalOf(From(Pending))
    BY <1>2, FromShrinks
  <2>2. mig.hdrEnd \in Nat /\ ClusterLen[mig.dst] \in Nat
    BY <1>1, Room DEF HeaderSize
  <2>3. QED
    BY <1>1, <2>1, <2>2
<1>4. \A b \in Block :
        IF b < n THEN dir.offset[b] = Log(flash, mig.dst).last[b]
        ELSE /\ dir.offset[b] = Log(flash, dir.index).last[b]
             /\ Log(flash, mig.dst).last[b] = NoRecord
  <2>1. \A b \in Block : b \in Nat
    BY BlockAssumption DEF Block
  <2>2. QED
    BY <1>1, <1>2, <2>1
<1>5. Active(Executed)' /\ Ready(Executed', mig'.dst, mig'.hdrEnd)
  BY <1>1 DEF Active, Newer, Copied
<1>6. QED
  BY <1>1, <1>3, <1>4, <1>5 DEF Copied, From

\* The next record to copy is assembled, or its data asked for from the active cluster.
LEMMA MigrateReadLog == FeeInv /\ LogInv /\ FindMigrateRead => LogInv'
<1> SUFFICES ASSUME FeeInv, LogInv, FindMigrateRead PROVE LogInv'
  OBVIOUS
<1> DEFINE S == {x \in Block : Target(x) \/ dir.offset[x] # NoRecord}
           b == FirstFrom(mig.block, S)
<1>1. InFind("MIGRATE_READ") /\ UNCHANGED <<dir, dirty>>
  BY DEF FindMigrateRead, callerVars
<1>2. /\ state = "FIND_PROC" /\ find.sub = "MIGRATE_READ" /\ flsStatus # "BUSY"
      /\ flsOp.kind = "NONE" /\ Executed = flash /\ Copied(flash)
  BY <1>1, MigrateStep
<1>3. mig \in Mig /\ mig.block \in Nat /\ find \in Find /\ ~find.err /\ job \in Job
      /\ mem \in [Buffer -> [BufIdx -> Cell]] /\ "jobBuf" \in Buffer /\ 0 \in BufIdx
  BY <1>2, BlockAssumption, FeeAssumption, ZeroIndex
  DEF FeeInv, TypeOK, FlsTypeOK, Mig, LogInv, NoFault
<1>4. /\ b = BlockCount => \A x \in S : x < mig.block
      /\ b # BlockCount => b \in S /\ b >= mig.block /\ \A x \in S : x >= mig.block => b <= x
  <2>1. S \in SUBSET Block
    OBVIOUS
  <2> HIDE DEF S
  <2>2. QED
    BY <1>3, <2>1, FirstFromIs
<1>5. \A x \in Block : x \in Nat /\ x < BlockCount /\ BlockCount \in Nat
  BY BlockAssumption DEF Block
<1>6. CASE b = BlockCount
  <2>1. /\ FindGoto("MIGRATE_ACTIVATE") /\ mig' = [mig EXCEPT !.block = BlockCount] /\ job' = job
    BY <1>6 DEF FindMigrateRead
  <2>2. FindGoes("MIGRATE_ACTIVATE") /\ FlashOK(flash)' /\ FlightOK' /\ Executed' = flash
    BY <1>1, <1>2, <2>1, GotoGoes
  <2>3. Underway' /\ NoFault' /\ \A subs : At(subs)' <=> "MIGRATE_ACTIVATE" \in subs
    BY <1>2, <2>2, GoesOn
  <2>4. mig'.block = BlockCount /\ mig'.dst = mig.dst /\ mig'.hdrEnd = mig.hdrEnd
    BY <1>3, <2>1 DEF Mig
  <2>5. Pending' = BlockCount
    BY <2>2, <2>4 DEF Pending, FindGoes
  <2>6. mig.block <= BlockCount /\ BlockCount \in Nat
    BY BlockAssumption DEF FeeInv, TypeOK, Mig
  <2>7. \A x \in Block : mig.block <= x /\ x < BlockCount => dir.offset[x] = NoRecord
    BY <1>3, <1>4, <1>5, <1>6
  <2>8. Copied(Executed)'
    BY <1>1, <2>2, <2>4, <2>5, <2>6, <2>7, CopiedUpTo
  <2>9. Migrating'
    BY <2>3, <2>4, <2>8 DEF Migrating, Activated
  <2>10. At(Migrate)'
    BY <2>3 DEF Migrate
  <2>11. QED
    BY <2>2, <2>3, <2>9, <2>10, PlaceNext DEF LogInv, Elsewhere
<1>7. CASE b # BlockCount
  <2> DEFINE op == ReadOp(ClusterStart[dir.index] + dir.offset[b] + HeaderSize,
                          "jobBuf", HeaderSize, DataCells[b])
  <2>1. /\ mig' = [mig EXCEPT !.block = b + 1] /\ job' = [job EXCEPT !.cur = b]
        /\ IF Target(b)
           THEN /\ PackNewRecord(b, TargetData(b))
                /\ find' = [find EXCEPT !.sub = "MIGRATE_WRITE"]
                /\ UNCHANGED <<flash, flsOp, state>>
           ELSE /\ mem' = [mem EXCEPT !["jobBuf"][0] = PackBlockHdr(b)]
                /\ FindFls(op, "MIGRATE_WRITE")
    BY <1>7 DEF FindMigrateRead
  <2>2. b \in Block /\ b \in Nat /\ b >= mig.block /\ \A x \in S : x >= mig.block => b <= x
    BY <1>4, <1>5, <1>7
  <2>3. ~Target(b) => dir.offset[b] # NoRecord
    BY <1>4, <1>7
  <2> HIDE DEF b
  <2>4. /\ mig'.block = b + 1 /\ mig'.dst = mig.dst /\ mig'.hdrEnd = mig.hdrEnd
        /\ job'.cur = b /\ job'.kind = job.kind /\ job'.counted = job.counted
        /\ job'.nextBlock = job.nextBlock
    BY <1>3, <2>1 DEF Mig, Job
  <2>5. \A x \in Block : mig.block <= x /\ x < b => dir.offset[x] = NoRecord
    BY <1>3, <1>5, <2>2
  <2>6. ASSUME find'.sub = "MIGRATE_WRITE", ~find'.err, find'.ret = find.ret,
               find'.type = find.type, Cont' = "FIND_PROC",
               state' = "FLS_WAIT" => flsStatus' = "BUSY",
               FlashOK(flash)', FlightOK', Executed' = flash,
               flsOp'.kind = "NONE" \/ (flsOp'.kind = "READ" /\ flsOp'.at = HeaderSize),
               mem'["jobBuf"][0] = PackBlockHdr(b)
        PROVE  LogInv'
    <3>1. FindGoes("MIGRATE_WRITE")
      BY <1>1, <2>4, <2>6 DEF FindGoes
    <3>2. Underway' /\ NoFault' /\ \A subs : At(subs)' <=> "MIGRATE_WRITE" \in subs
      BY <1>2, <3>1, GoesOn
    <3>3. Pending' = b
      BY <2>4, <2>6 DEF Pending
    <3>4. Copied(Executed)'
      BY <1>1, <1>3, <2>2, <2>4, <2>5, <2>6, <3>3, CopiedUpTo
    <3>5. RecordReady'
      BY <2>4, <2>6 DEF RecordReady
    <3>6. Migrating'
      BY <3>2, <3>4, <3>5 DEF Migrating, Activated
    <3>7. At(Migrate)'
      BY <3>2 DEF Migrate
    <3>8. QED
      BY <2>6, <3>2, <3>6, <3>7, PlaceNext DEF LogInv, Elsewhere
  <2>7. CASE Target(b)
    <3>1. /\ UNCHANGED <<flash, flsOp, state>> /\ find' = [find EXCEPT !.sub = "MIGRATE_WRITE"]
          /\ PackNewRecord(b, TargetData(b))
      BY <2>1, <2>7
    <3>2. FlashOK(flash)' /\ FlightOK' /\ Executed' = flash
      BY <1>2, <3>1, NoJobKept
    <3>3. mem'["jobBuf"][0] = PackBlockHdr(b)
      BY <1>3, <3>1 DEF PackNewRecord
    <3>4. /\ find'.sub = "MIGRATE_WRITE" /\ ~find'.err /\ find'.ret = find.ret
          /\ find'.type = find.type
      BY <1>3, <3>1 DEF Find
    <3>5. state' = "FIND_PROC" /\ Cont' = "FIND_PROC"
      BY <1>2, <3>1 DEF Cont
    <3>6. QED
      BY <1>2, <2>6, <3>1, <3>2, <3>3, <3>4, <3>5
  <2>8. CASE ~Target(b)
    <3> DEFINE k == dir.index
               o == dir.offset[b] + HeaderSize
               n == DataCells[b]
    <3>1. mem' = [mem EXCEPT !["jobBuf"][0] = PackBlockHdr(b)] /\ FindFls(op, "MIGRATE_WRITE")
      BY <2>1, <2>8
    <3>2. /\ k \in Cluster /\ ClusterStart[k] \in Nat /\ ClusterLen[k] \in Nat
          /\ o \in HeaderSize .. ClusterLen[k] /\ n \in 0 .. ClusterLen[k] - o /\ n # 0 /\ n \in Nat
      <4>1. Pending = mig.block /\ dir.offset[b] = Log(flash, k).last[b] /\ k \in Cluster
            /\ Active(flash)
        <5>1. Pending = mig.block
          BY <1>2 DEF Pending
        <5>2. ~(b < mig.block)
          BY <1>3, <2>2
        <5>3. QED
          BY <1>1, <2>2, <5>1, <5>2, MigrateStep
      <4>2. Log(flash, k).last[b] # NoRecord /\ ClusterOK(flash, k)
        BY <2>3, <2>8, <4>1, ActiveCluster DEF LogInv
      <4>3. /\ Log(flash, k).last[b] + BlockTotal(n) <= Log(flash, k).end
            /\ Log(flash, k).end \in HeaderSize .. ClusterLen[k]
            /\ Log(flash, k).last[b] \in HeaderSize .. ClusterLen[k]
            /\ ClusterLen[k] \in Nat /\ ClusterStart[k] \in Nat
        BY <2>2, <4>1, <4>2, LogFacts, Room DEF ClusterOK
      <4>4. n \in Nat /\ n # 0
        BY <2>2, BlockAssumption, RoomAssumption
      <4>5. QED
        BY <4>1, <4>3, <4>4 DEF BlockTotal, HeaderSize
    <3>3. Accepts(op)
      <4>1. op.kind = "READ" /\ op.off = ClusterStart[k] + dir.offset[b] + HeaderSize /\ op.len = n
        BY DEF ReadOp
      <4>2. op.off = ClusterStart[k] + o
        <5>1. dir.offset[b] \in Nat
          BY <2>2, <2>3, <2>8 DEF FeeInv, TypeOK, Dir
        <5>2. QED
          BY <3>2, <4>1, <5>1 DEF HeaderSize
      <4> HIDE DEF op, n, k, o
      <4>3. op.off \in Nat /\ ClusterStart[k] <= op.off
            /\ op.off + op.len <= ClusterStart[k] + ClusterLen[k] /\ op.len >= 1
        BY <3>2, <4>1, <4>2 DEF HeaderSize
      <4>4. QED
        BY <1>2, <3>2, <4>1, <4>3, AcceptsIn
    <3>4. /\ flash' = flash /\ flsOp' = op /\ flsStatus' = "BUSY" /\ state' = "FLS_WAIT"
          /\ flsWaitReturn' = "FIND_PROC" /\ find' = [find EXCEPT !.sub = "MIGRATE_WRITE"]
      BY <3>1, <3>3 DEF FindFls, StartFls, Request
    <3>5. /\ find'.sub = "MIGRATE_WRITE" /\ ~find'.err /\ find'.ret = find.ret
          /\ find'.type = find.type /\ Cont' = "FIND_PROC"
      BY <1>3, <3>4 DEF Find, Cont
    <3>6. flsOp'.kind = "READ" /\ flsOp'.at = HeaderSize
      BY <3>4 DEF ReadOp
    <3>7. FlightOK'
      <4>1. ClusterStart[k] + dir.offset[b] + HeaderSize = ClusterStart[k] + o
        <5>1. dir.offset[b] \in Nat
          BY <2>2, <2>3, <2>8 DEF FeeInv, TypeOK, Dir
        <5>2. QED
          BY <3>2, <5>1 DEF HeaderSize
      <4>2. flsOp' = ReadOp(ClusterStart[k] + o, "jobBuf", HeaderSize, n)
        BY <3>4, <4>1
      <4> HIDE DEF k, o, n
      <4>3. ReadFlight(k)'
        BY <1>1, <3>2, <4>2 DEF ReadFlight, k
      <4>4. QED
        BY <1>1, <3>2, <4>3 DEF FlightOK, k
    <3>8. Executed' = flash /\ FlashOK(flash)'
      BY <3>4, <3>6, ReadEffectNext DEF LogInv
    <3>9. mem'["jobBuf"][0] = PackBlockHdr(b)
      BY <1>3, <3>1
    <3>10. QED
      BY <2>6, <3>4, <3>5, <3>6, <3>7, <3>8, <3>9
  <2>9. QED
    BY <2>7, <2>8
<1>8. QED
  BY <1>6, <1>7

\* The record goes to the end of the new log, and the directory with it.
LEMMA MigrateWriteLog == FeeInv /\ LogInv /\ FindMigrateWrite => LogInv'
<1> SUFFICES ASSUME FeeInv, LogInv, FindMigrateWrite PROVE LogInv'
  OBVIOUS
<1> DEFINE b == job.cur
           total == BlockTotal(DataCells[b])
           dst == mig.dst
           end == mig.hdrEnd
           op == WriteOp(ClusterStart[dst] + end, "jobBuf", 0, total)
<1>1. InFind("MIGRATE_WRITE") /\ UNCHANGED <<job, dirty>>
  BY DEF FindMigrateWrite, callerVars
<1>2. /\ state = "FIND_PROC" /\ find.sub = "MIGRATE_WRITE" /\ flsStatus # "BUSY"
      /\ Executed = flash /\ Active(flash) /\ dst # dir.index
      /\ dst \in Cluster /\ dir.index \in Cluster /\ end = Log(flash, dst).end
      /\ end \in HeaderSize .. ClusterLen[dst]
      /\ flash[ClusterStart[dst]] = Erased
      /\ ClusterOK(flash, dst) /\ CleanFrom(flash, dst, end)
      /\ end + TotalOf(From(Pending)) <= ClusterLen[dst]
      /\ \A x \in Block :
           IF x < Pending THEN dir.offset[x] = Log(flash, dst).last[x]
           ELSE /\ dir.offset[x] = Log(flash, dir.index).last[x]
                /\ Log(flash, dst).last[x] = NoRecord
  BY <1>1, MigrateStep
<1>3. /\ b \in Block /\ b \in Nat /\ mig \in Mig /\ dir \in Dir
      /\ \A x \in Block : x \in Nat
  BY BlockAssumption DEF FeeInv, TypeOK, Job, Block
<1>4. Pending = b /\ mig.block = b + 1 /\ mem["jobBuf"][0] = PackBlockHdr(b)
  <2>1. At({"MIGRATE_WRITE"})
    BY <1>1, FreeInFind
  <2>2. RecordReady
    BY <2>1 DEF LogInv, Migrating
  <2>3. QED
    BY <1>2, <2>2 DEF RecordReady, Pending
<1>5. /\ total \in Nat /\ total >= 1 /\ ClusterStart[dst] \in Nat /\ ClusterLen[dst] \in Nat
      /\ end \in Nat /\ end >= 1
  BY <1>2, <1>3, BlockTotalType, Room DEF HeaderSize
<1>6. end + total <= ClusterLen[dst] /\ end + total + TotalOf(From(b + 1)) <= ClusterLen[dst]
  <2>1. TotalOf(From(b)) = total + TotalOf(From(b + 1))
    BY <1>3, FromSplit
  <2>2. TotalOf(From(b + 1)) \in Nat
    BY <1>3, FromShrinks
  <2> HIDE DEF total, end, dst
  <2>3. QED
    BY <1>2, <1>4, <1>5, <2>1, <2>2
<1>7. Accepts(op)
  <2>1. op.kind = "WRITE" /\ op.off = ClusterStart[dst] + end /\ op.len = total
    BY DEF WriteOp
  <2> HIDE DEF op, total, end, dst
  <2>2. QED
    BY <1>2, <1>5, <1>6, <2>1, AcceptsIn
<1>8. /\ FindFls(op, "MIGRATE_READ") /\ mem' = mem
      /\ dir' = [dir EXCEPT !.offset[b] = end]
      /\ mig' = [mig EXCEPT !.hdrEnd = end + total]
  <2>1. ~(end + total > ClusterLen[dst])
    <3> HIDE DEF total, end, dst
    <3>1. QED
      BY <1>5, <1>6
  <2>2. QED
    BY <1>7, <2>1 DEF FindMigrateWrite
<1>9. /\ mig'.hdrEnd = end + total /\ mig'.dst = dst /\ mig'.block = b + 1
      /\ dir'.index = dir.index /\ dir'.gen = dir.gen
      /\ \A x \in Block : dir'.offset[x] = IF x = b THEN end ELSE dir.offset[x]
  BY <1>3, <1>4, <1>8 DEF Mig, Dir
<1>10. FindGoes("MIGRATE_READ") /\ flash' = flash /\ flsOp' = op /\ FlashOK(flash)'
  <2> HIDE DEF op
  <2>1. QED
    BY <1>1, <1>2, <1>7, <1>8, RequestGoes
<1>11. RecordFlight(dst, b)'
  <2>1. flsOp' = WriteOp(ClusterStart[dst] + Log(flash', dst).end, "jobBuf", 0, total)
    BY <1>2, <1>10
  <2>2. Log(flash', dst).end + total <= ClusterLen[dst]
    BY <1>2, <1>6, <1>10
  <2>3. ClusterOK(flash', dst) /\ CleanFrom(flash', dst, Log(flash', dst).end)
    BY <1>2, <1>10
  <2>4. mem'["jobBuf"][0] = PackBlockHdr(b) /\ mig'.dst = dst /\ job' = job
    BY <1>1, <1>4, <1>8, <1>9
  <2>5. QED
    BY <2>1, <2>2, <2>3, <2>4 DEF RecordFlight
<1>12. FlightOK'
  BY <1>1, <1>2, <1>3, <1>9, <1>11 DEF FlightOK
<1>13. FlsOK'
  BY MigrateWriteOK DEF FeeInv
<1>14. \E k \in Cluster, x \in Block : k = dst /\ x = b /\ RecordFlight(k, x)'
  BY <1>1, <1>2, <1>3, <1>9, <1>11
<1>15. /\ \A j \in Cluster \ {dst} : Same(flash, Executed', j, 0)
       /\ Executed'[ClusterStart[dst]] = Erased /\ ClusterOK(Executed', dst)
       /\ Log(Executed', dst).end = end + total
       /\ \A x \in Block : Log(Executed', dst).last[x] = IF x = b THEN end
                                                        ELSE Log(flash, dst).last[x]
       /\ CleanFrom(Executed', dst, end + total)
  BY <1>2, <1>10, <1>13, <1>14, RecordEffectNext
<1>16. GenOf(Executed', dst) = NoGen
  BY <1>15, CellAssumption DEF GenOf, ClusterHdrGen
<1>17. Active(Executed') /\ Log(Executed', dir.index).last = Log(flash, dir.index).last
  BY <1>2, <1>15, <1>16, SourceKept
<1>18. Copied(Executed)'
  <2>1. Pending' = b + 1
    BY <1>9, <1>10 DEF Pending, FindGoes
  <2>2. Active(Executed)'
    BY <1>9, <1>17 DEF Active, Newer
  <2>3. Ready(Executed', dst, end + total)
    BY <1>15 DEF Ready
  <2> HIDE DEF total, end, dst, b
  <2>4. \A x \in Block : IF x < b + 1 THEN dir'.offset[x] = Log(Executed', dst).last[x]
                         ELSE /\ dir'.offset[x] = Log(Executed', dir.index).last[x]
                              /\ Log(Executed', dst).last[x] = NoRecord
    <3>1. ASSUME NEW x \in Block
          PROVE  IF x < b + 1 THEN dir'.offset[x] = Log(Executed', dst).last[x]
                 ELSE /\ dir'.offset[x] = Log(Executed', dir.index).last[x]
                      /\ Log(Executed', dst).last[x] = NoRecord
      <4>1. (x < b + 1 <=> x = b \/ x < b) /\ ~(b < b)
        BY <1>3
      <4>2. QED
        BY <1>2, <1>4, <1>9, <1>15, <1>17, <4>1
    <3>2. QED
      BY <3>1
  <2>5. end + total + TotalOf(From(b + 1)) <= ClusterLen[dst]
    BY <1>6
  <2>6. QED
    BY <1>2, <1>9, <2>1, <2>2, <2>3, <2>4, <2>5 DEF Copied, From
<1>19. Underway' /\ NoFault' /\ \A subs : At(subs)' <=> "MIGRATE_READ" \in subs
  BY <1>2, <1>10, GoesOn
<1>20. Migrating'
  BY <1>18, <1>19 DEF Migrating, Activated
<1>21. At(Migrate)'
  BY <1>19 DEF Migrate
<1>22. QED
  BY <1>10, <1>12, <1>19, <1>20, <1>21, PlaceNext DEF LogInv, Elsewhere

\* Every block is dealt with: the new cluster gets the next generation.
LEMMA MigrateActivateLog == FeeInv /\ LogInv /\ InLife /\ FindMigrateActivate => LogInv'
<1> SUFFICES ASSUME FeeInv, LogInv, InLife, FindMigrateActivate PROVE LogInv'
  OBVIOUS
<1>1. /\ InFind("MIGRATE_ACTIVATE") /\ StartWriteClusterHdr(mig.dst, "MIGRATE_SWITCH")
      /\ UNCHANGED <<job, dir, dirty>>
  BY DEF FindMigrateActivate, callerVars
<1>2. /\ state = "FIND_PROC" /\ find.sub = "MIGRATE_ACTIVATE" /\ flsStatus # "BUSY"
      /\ Executed = flash /\ Copied(flash) /\ Active(flash) /\ mig.dst \in Cluster
      /\ \A x \in Block : x < Pending => dir.offset[x] = Log(flash, mig.dst).last[x]
  BY <1>1, MigrateStep
<1>3. dir.offset = Log(flash, mig.dst).last
  <2>1. At({"MIGRATE_ACTIVATE"})
    BY <1>1, FreeInFind
  <2>2. Pending = BlockCount
    BY <1>2, <2>1 DEF LogInv, Migrating, Pending
  <2>3. \A x \in Block : x < BlockCount
    BY BlockAssumption DEF Block
  <2>4. \A x \in Block : dir.offset[x] = Log(flash, mig.dst).last[x]
    BY <1>2, <2>2, <2>3
  <2>5. /\ dir.offset \in [Block -> Nat \cup {NoRecord}]
        /\ Log(flash, mig.dst).last \in [Block -> {NoRecord} \cup 0 .. ClusterLen[mig.dst]]
    BY <1>2, LogFacts DEF FeeInv, TypeOK, Dir
  <2>6. /\ dir.offset = [x \in Block |-> dir.offset[x]]
        /\ Log(flash, mig.dst).last = [x \in Block |-> Log(flash, mig.dst).last[x]]
    BY <2>5
  <2>7. QED
    BY <2>4, <2>6
<1> DEFINE gen == dir.gen + 1
<1>4. dir.gen # NoGen /\ dir.gen > 0 /\ dir.gen \in Nat
  <2>1. dir.gen # NoGen /\ dir.gen > 0
    BY <1>2, ActiveCluster DEF LogInv
  <2>2. QED
    BY <2>1 DEF FeeInv, TypeOK, Dir
<1>5. gen \in 1 .. GenMod - 1 /\ gen = (IF dir.gen = NoGen THEN 0 ELSE dir.gen) + 1
  BY <1>4, ClusterAssumption DEF InLife
<1>6. \A j \in ValidClusters(flash) : GenOf(flash, j) < gen
  <2>1. \A j \in ValidClusters(flash) : GenOf(flash, j) \in Nat /\ ~(GenOf(flash, j) > dir.gen)
    BY <1>2, ClusterHdrGenType DEF Active, Newer, ValidClusters, GenOf
  <2>2. QED
    BY <1>4, <2>1
<1>7. Ready(flash, mig.dst, mig.hdrEnd)
  BY <1>2 DEF Copied
<1>8. FeeInv'
  BY MigrateOK
<1> HIDE DEF gen
<1>9. /\ FindGoes("WRITE_HDR_WRITE") /\ FlashOK(flash)' /\ FlightOK'
      /\ mig'.hdrGen = gen /\ mig'.hdrRet = "MIGRATE_SWITCH"
      /\ mig'.dst = mig.dst /\ mig'.hdrEnd = mig.hdrEnd
      /\ Switched(Executed', mig.dst, gen, mig.hdrEnd, Log(flash, mig.dst).last)
  BY <1>1, <1>2, <1>5, <1>6, <1>7, <1>8, HeaderAsked
<1>10. Underway' /\ NoFault' /\ \A subs : At(subs)' <=> "WRITE_HDR_WRITE" \in subs
  BY <1>2, <1>9, GoesOn
<1>11. Fresh' /\ Migrating'
  BY <1>1, <1>3, <1>9, <1>10 DEF Fresh, Migrating, Activated
<1>12. At(Activate)'
  BY <1>10 DEF Activate
<1>13. QED
  BY <1>9, <1>10, <1>11, <1>12, PlaceNext DEF LogInv, Elsewhere

\* The new cluster is the active one, and the job is done.
LEMMA SwitchLog == FeeInv /\ LogInv /\ FindMigrateSwitch => LogInv'
<1> SUFFICES ASSUME FeeInv, LogInv, FindMigrateSwitch PROVE LogInv'
  OBVIOUS
<1>1. /\ InFind("MIGRATE_SWITCH") /\ UNCHANGED <<flash, mem, flsOp, state, job, dirty>>
      /\ dir' = [dir EXCEPT !.valid = TRUE, !.index = mig.dst, !.gen = mig.hdrGen,
                            !.headerEnd = mig.hdrEnd]
      /\ find' = [find EXCEPT !.sub = "DONE", !.ret = "WRITE_DONE"]
  BY DEF FindMigrateSwitch, callerVars, flsVars
<1>2. /\ state = "FIND_PROC" /\ find.sub # "DONE" /\ flsOp.kind = "NONE" /\ Executed = flash
      /\ At({"MIGRATE_SWITCH"})
  BY <1>1, FreeInFind
<1>3. Switched(flash, mig.dst, mig.hdrGen, mig.hdrEnd, dir.offset)
  BY <1>2 DEF LogInv, Migrating, Activated
<1>4. FlashOK(flash)' /\ FlightOK' /\ Executed' = flash
  BY <1>1, <1>2, NoJobKept
<1>5. /\ dir'.index = mig.dst /\ dir'.gen = mig.hdrGen /\ dir'.headerEnd = mig.hdrEnd
      /\ dir'.offset = dir.offset
  BY <1>1 DEF FeeInv, TypeOK, Dir
<1>6. /\ find'.sub = "DONE" /\ find'.ret = "WRITE_DONE" /\ find'.type = find.type
      /\ find'.err = find.err /\ ~find.err
  BY <1>1, <1>2 DEF FeeInv, TypeOK, Find, LogInv, NoFault
<1>7. Cont = "FIND_PROC" /\ Cont' = "FIND_PROC" /\ state' = "FIND_PROC"
  BY <1>1, <1>2 DEF Cont
<1>8. Trusted'
  <2>1. Switched(Executed', dir'.index, dir'.gen, dir'.headerEnd, dir'.offset)
    BY <1>3, <1>4, <1>5
  <2>2. Describes(Executed)' /\ Appends(Executed)'
    BY <2>1 DEF Describes, Appends, Active, Switched
  <2>3. QED
    BY <2>2 DEF Trusted
<1>9. Appending' /\ Reading'
  BY <1>6, <1>7 DEF Appending, Reading, Toward
<1>10. Underway' /\ NoFault'
  <2>1. Underway'
    BY <1>1, <1>2, <1>6, <1>7 DEF LogInv, Underway
  <2>2. NoFault'
    BY <1>6, <1>7 DEF NoFault
  <2>3. QED
    BY <2>1, <2>2
<1>11. At({"DONE"})'
  BY <1>6, <1>7 DEF At
<1>12. QED
  BY <1>4, <1>8, <1>9, <1>10, <1>11, PlaceNext DEF LogInv, Elsewhere

\* FindAddr returns to the job.
LEMMA FindDoneLog == FeeInv /\ LogInv /\ FindDone => LogInv'
<1> SUFFICES ASSUME FeeInv, LogInv, FindDone PROVE LogInv'
  OBVIOUS
<1>1. /\ InFind("DONE") /\ state' = find.ret
      /\ UNCHANGED <<flash, mem, flsOp, flsStatus, job, dir, find, dirty>>
  BY DEF FindDone, flsVars, callerVars
<1>2. state = "FIND_PROC" /\ find.sub = "DONE" /\ At({"DONE"}) /\ Cont = "FIND_PROC"
  BY <1>1, FreeInFind DEF Cont, InFind
<1>3. FlashOK(flash)' /\ FlightOK' /\ Executed' = Executed
  BY <1>1, JobKept
<1>4. /\ find.ret \in {"READ_BY_DIR", "READALL_FILL", "WRITE_MAIN_LOOP_PROC",
                       "WRITEALL_APPEND", "WRITE_DONE"}
      /\ find.ret # "WRITE_DONE" => find.ret = JobState
      /\ job.kind # "NONE" /\ (job.kind = "WRITEALL" => job.counted = {b \in Block : dirty[b]})
  BY <1>2 DEF LogInv, Underway, JobState
<1>5. Cont' = find.ret /\ state' # "FLS_WAIT" /\ Cont' # "FIND_PROC" /\ Cont' # "ERROR"
  BY <1>1, <1>4 DEF Cont
<1>6. Underway'
  BY <1>1, <1>4, <1>5 DEF Underway, JobState
<1>7. NoFault'
  BY <1>1, <1>2, <1>5 DEF LogInv, NoFault
<1>8. Trusted'
  <2>1. ~Moving
    BY <1>2, PlaceAlone DEF Elsewhere
  <2>2. QED
    BY <1>1, <1>3, <2>1, TrustKept
<1>9. \A states : Toward(states)' => Toward(states)
  BY <1>2, <1>5 DEF Toward, At
<1>10. Appending' /\ Reading'
  <2>1. HasRoom' <=> HasRoom
    BY <1>1 DEF HasRoom, Remaining
  <2>2. QED
    BY <1>1, <1>3, <1>9, <2>1, DirKept DEF LogInv, Appending, Reading
<1>11. QED
  BY <1>3, <1>5, <1>6, <1>7, <1>8, <1>10, PlaceNext DEF LogInv, Elsewhere
=============================================================================
