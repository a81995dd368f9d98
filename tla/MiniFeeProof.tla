---------------------------- MODULE MiniFeeProof ----------------------------
(***************************************************************************)
(* Proofs about MiniFee for every block table, every cluster table and     *)
(* every payload: its types, and that it leaves alone whatever the flash   *)
(* driver still holds a pointer to.                                        *)
(***************************************************************************)
EXTENDS FeeSafety, TLAPS

\* The cluster cursor is inside the table while a header read for it is pending.
CursorOK == find.sub = "READ_CLUSTER_HDR_DONE" => find.clusterIdx \in Cluster

\* Whoever does not see BUSY finds the state machine at rest.
RestWhenNotBusy == status # "BUSY" => state = "IDLE"

\* The driver is BUSY exactly while an operation is registered.
BusyIffOp == flsStatus = "BUSY" <=> flsOp.kind # "NONE"

FlsOK == FlsTypeOK /\ OpInBounds /\ BusyIffOp

\* What every step preserves.
FeeInv == TypeOK /\ FlsOK /\ CursorOK /\ RestWhenNotBusy /\ DriverBusyOnlyForWaiter

Buf == [Buffer -> [BufIdx -> Cell]]

\* An operation MiniFee may hand to the driver.
GoodOp(op) == /\ op \in FlsOp /\ op.kind # "NONE"
              /\ op.kind # "ERASE" => op.at + op.len <= BufEnd(op)

USE BlockAssumption, ClusterAssumption, ValueAssumption, FlashAssumption, FeeAssumption

----------------------------------------------------------------------------
(* The constants                                                           *)

\* The record for "no job" has the type of one.
LEMMA NoOpType == NoOp \in FlsOp /\ NoOp.kind = "NONE"
<1>1. (CHOOSE x \in Buffer : TRUE) \in Buffer
  OBVIOUS
<1>2. QED
  BY <1>1 DEF NoOp, FlsOp

\* Everything stored in flash is a cell.
LEMMA CellTypes ==
  /\ Erased \in Cell /\ Torn \in Cell /\ Zero \in Cell
  /\ Value \subseteq Cell /\ ClusterHeader \subseteq Cell /\ BlockHeader \subseteq Cell
  BY DEF Cell

\* PackBlockHdr makes a cell, for any block of the table.
LEMMA PackBlockHdrType == \A b \in Block : PackBlockHdr(b) \in Cell
<1>1. \A b \in Block : PackBlockHdr(b) \in BlockHeader
  BY DEF PackBlockHdr, BlockHeader
<1>2. QED
  BY <1>1, CellTypes

\* PackClusterHdr makes a cell, the generation cut to its width.
LEMMA PackClusterHdrType == \A gen \in Nat : PackClusterHdr(gen) \in Cell
<1>1. \A gen \in Nat : gen % GenMod \in 0 .. GenMod - 1
  OBVIOUS
<1>2. QED
  BY <1>1, CellTypes DEF PackClusterHdr, ClusterHeader

\* Of any cell, ClusterHdrGen reads a generation or finds none.
LEMMA ClusterHdrGenType == \A cell : ClusterHdrGen(cell) \in Nat \cup {NoGen}
<1>1. \A cell \in ClusterHeader : cell.gen \in Nat
  BY DEF ClusterHeader
<1>2. QED
  BY <1>1 DEF ClusterHdrGen

\* The search over blocks ends at a block of the set or past the last.
LEMMA FirstFromType ==
  ASSUME NEW n \in Nat, NEW S \in SUBSET Block
  PROVE  FirstFrom(n, S) \in Block \cup {BlockCount}
         /\ (FirstFrom(n, S) # BlockCount => FirstFrom(n, S) \in S)
  BY DEF FirstFrom, Block

\* No table is empty.
LEMMA ZeroIndex == 0 \in Block /\ 0 \in Cluster /\ 0 \in BufIdx /\ 0 \in DataIdx
  BY DEF Block, Cluster, BufIdx, DataIdx

\* A payload of the caller is made of cells.
LEMMA PayloadType == \A v \in Value : Payload(v) \in [DataIdx -> Cell]
  BY CellTypes DEF Payload

----------------------------------------------------------------------------
(* The driver                                                              *)

\* No buffer is longer than the longest.
LEMMA BufEndType == \A op : BufEnd(op) \in Nat /\ BufEnd(op) <= BufLen
  BY DEF BufEnd, HeaderSize

\* A request keeps the driver's types and bounds, accepted or refused.
LEMMA RequestOK ==
  ASSUME FlsOK, NEW op, GoodOp(op), Request(op), flash' = flash, mem' \in Buf
  PROVE  FlsOK'
<1>1. CASE Accepts(op)
  <2>1. flsOp' = op /\ flsStatus' = "BUSY" /\ flsResult' = "PENDING"
    BY <1>1 DEF Request
  <2>2. op.off + op.len <= FlashSize
    BY <1>1 DEF Accepts, RangeOk, GoodOp, FlsOp
  <2>3. QED
    BY <2>1, <2>2 DEF FlsOK, FlsTypeOK, OpInBounds, BusyIffOp, GoodOp, Buf
<1>2. CASE ~Accepts(op)
  BY <1>2 DEF Request, FlsOK, FlsTypeOK, OpInBounds, BusyIffOp, Buf
<1>3. QED
  BY <1>1, <1>2

\* Within its bounds a write finds cells at its source.
LEMMA SourceType ==
  ASSUME FlsOK, flsOp.kind = "WRITE", NEW a \in Addr, InOp(a)
  PROVE  Source(a) \in Cell
<1>1. flsOp.at \in Nat /\ flsOp.off \in Nat /\ flsOp.len \in Nat
  BY DEF FlsOK, FlsTypeOK, FlsOp
<1>2. flsOp.at + flsOp.len <= BufLen
  <2>1. flsOp.at + flsOp.len <= BufEnd(flsOp)
    BY DEF FlsOK, OpInBounds
  <2>2. QED
    BY <1>1, <2>1, BufEndType
<1>3. a \in flsOp.off .. flsOp.off + flsOp.len - 1
  BY DEF InOp
<1>4. flsOp.at + a - flsOp.off \in BufIdx
  BY <1>1, <1>2, <1>3 DEF BufIdx
<1>5. QED
  BY <1>4 DEF FlsOK, FlsTypeOK, Source, FlsOp

\* Fls_MainFunction leaves a medium of cells.
LEMMA ExecutedType == FlsOK => Executed \in [Addr -> Cell]
<1> SUFFICES ASSUME FlsOK PROVE Executed \in [Addr -> Cell]
  OBVIOUS
<1>1. CASE flsOp.kind = "ERASE"
  BY <1>1, CellTypes DEF Executed, FlsOK, FlsTypeOK
<1>2. CASE flsOp.kind = "WRITE" /\ ~Violates
  <2>1. \A a \in Addr : InOp(a) => Source(a) \in Cell
    BY <1>2, SourceType
  <2>2. Executed = [a \in Addr |-> IF InOp(a) THEN Source(a) ELSE flash[a]]
    BY <1>2 DEF Executed
  <2>3. QED
    BY <2>1, <2>2 DEF FlsOK, FlsTypeOK
<1>3. CASE flsOp.kind # "ERASE" /\ ~(flsOp.kind = "WRITE" /\ ~Violates)
  BY <1>3 DEF Executed, FlsOK, FlsTypeOK
<1>4. QED
  BY <1>1, <1>2, <1>3

\* So does a job interrupted after n cells.
LEMMA CutType == FlsOK => \A n : Cut(n) \in [Addr -> Cell]
<1> SUFFICES ASSUME FlsOK, NEW n PROVE Cut(n) \in [Addr -> Cell]
  OBVIOUS
<1>1. Executed \in [Addr -> Cell]
  BY ExecutedType
<1>2. QED
  BY <1>1, CellTypes DEF Cut, FlsOK, FlsTypeOK

\* So does a loss of power, whatever was in flight.
LEMMA InterruptedType == FlsOK => Interrupted \subseteq [Addr -> Cell]
  BY CutType DEF Interrupted, FlsOK, FlsTypeOK

\* A read leaves a buffer of cells and changes no other.
LEMMA ReadBackType ==
  ASSUME FlsOK, flsOp.kind = "READ"
  PROVE  ReadBack \in Buf
<1>1. ASSUME NEW i \in BufIdx, i \in flsOp.at .. flsOp.at + flsOp.len - 1
      PROVE  flash[flsOp.off + i - flsOp.at] \in Cell
  <2>1. flsOp.at \in Nat /\ flsOp.off \in Nat /\ flsOp.len \in Nat
    BY DEF FlsOK, FlsTypeOK, FlsOp
  <2>2. flsOp.off + flsOp.len <= FlashSize
    BY DEF FlsOK, OpInBounds
  <2>3. flsOp.off + i - flsOp.at \in Addr
    BY <1>1, <2>1, <2>2 DEF Addr
  <2>4. QED
    BY <2>3 DEF FlsOK, FlsTypeOK
<1>2. flsOp.buf \in Buffer /\ mem \in Buf
  BY DEF FlsOK, FlsTypeOK, FlsOp, Buf
<1>3. QED
  BY <1>1, <1>2 DEF ReadBack, Buf

\* Fls_MainFunction keeps the driver's types and bounds.
LEMMA DriverOK == FlsOK /\ Fls_MainFunction => FlsOK'
<1> SUFFICES ASSUME FlsOK, Fls_MainFunction PROVE FlsOK'
  OBVIOUS
<1>1. flash' \in [Addr -> Cell]
  BY ExecutedType DEF Fls_MainFunction
<1>2. mem' \in Buf
  BY ReadBackType DEF Fls_MainFunction, FlsOK, FlsTypeOK, Buf
<1>3. QED
  BY <1>1, <1>2, NoOpType DEF Fls_MainFunction, FlsOK, FlsTypeOK, OpInBounds, BusyIffOp, Buf

\* So does a job that fails.
LEMMA DriverFailsOK == FlsOK /\ Fls_JobFails => FlsOK'
  BY InterruptedType, NoOpType DEF Fls_JobFails, FlsOK, FlsTypeOK, OpInBounds, BusyIffOp, Buf

----------------------------------------------------------------------------
(* What the actions share                                                  *)

\* In the midst of a job the driver is free, the first request of a job that
\* looks for the active cluster excepted.
LEMMA DriverFree ==
  ASSUME FeeInv, state \notin {"IDLE", "ERROR", "FLS_WAIT"},
         ~(InFind("START") /\ find.clusterIdx = 0)
  PROVE  flsStatus # "BUSY" /\ flsOp.kind = "NONE"
  BY DEF FeeInv, FlsOK, BusyIffOp, DriverBusyOnlyForWaiter

\* A request either makes MiniFee wait, or is refused and registers nothing.
LEMMA StartFlsOK ==
  ASSUME FeeInv, NEW op, GoodOp(op), NEW ret \in State, StartFls(op, ret), mem' \in Buf
  PROVE  /\ FlsOK'
         /\ state' \in {"FLS_WAIT", "ERROR"} /\ flsWaitReturn' \in State
         /\ flsStatus # "BUSY" /\ flsStatus' = "BUSY" => state' = "FLS_WAIT"
         /\ flsStatus = "BUSY" => state' = "ERROR"
<1>1. FlsOK'
  BY RequestOK DEF StartFls, FeeInv
<1>2. QED
  BY <1>1 DEF StartFls, Request, Accepts, FeeInv, TypeOK, State

\* The same for a request of ProcessFindAddr, which also sets its next sub-state.
LEMMA FindFlsOK ==
  ASSUME FeeInv, NEW op, GoodOp(op), NEW sub \in FindSub, FindFls(op, sub), mem' \in Buf,
         sub # "READ_CLUSTER_HDR_DONE" \/ find.clusterIdx \in Cluster
  PROVE  /\ FlsOK'
         /\ state' \in {"FLS_WAIT", "ERROR"} /\ flsWaitReturn' \in State
         /\ flsStatus # "BUSY" /\ flsStatus' = "BUSY" => state' = "FLS_WAIT"
         /\ flsStatus = "BUSY" => state' = "ERROR"
         /\ find' \in Find /\ CursorOK'
<1>1. StartFls(op, "FIND_PROC") /\ "FIND_PROC" \in State
  BY DEF FindFls, State
<1>2. find' \in Find /\ CursorOK'
  <2>1. find \in Find /\ "DONE" \in FindSub
    BY DEF FeeInv, TypeOK, FindSub
  <2>2. CASE find' = [find EXCEPT !.sub = sub]
    BY <2>1, <2>2 DEF Find, CursorOK
  <2>3. CASE find' = [find EXCEPT !.sub = "DONE", !.err = TRUE]
    BY <2>1, <2>3 DEF Find, CursorOK
  <2>4. QED
    BY <2>2, <2>3 DEF FindFls
<1>3. QED
  BY <1>1, <1>2, StartFlsOK

\* A sub-state that needs no flash.
LEMMA FindGotoOK ==
  ASSUME FeeInv, NEW sub \in FindSub \ {"READ_CLUSTER_HDR_DONE"}, FindGoto(sub)
  PROVE  /\ FlsOK' /\ state' \in State /\ flsWaitReturn' \in State
         /\ find' \in Find /\ CursorOK'
<1>1. FlsOK'
  BY DEF FindGoto, flsVars, FeeInv, FlsOK, FlsTypeOK, OpInBounds, BusyIffOp
<1>2. QED
  BY <1>1 DEF FindGoto, FeeInv, TypeOK, Find, CursorOK

\* What leaves the driver alone keeps its invariant.
LEMMA FlsUnchanged == FeeInv /\ UNCHANGED flsVars => FlsOK'
  BY DEF flsVars, FeeInv, FlsOK, FlsTypeOK, OpInBounds, BusyIffOp

\* PackNewRecord writes cells within jobBuf.
LEMMA PackNewRecordOK ==
  ASSUME FeeInv, NEW b \in Block, NEW data \in [DataIdx -> Cell], PackNewRecord(b, data)
  PROVE  mem' \in Buf
<1>1. \A i \in BufIdx : i # 0 /\ i <= DataCells[b] => i - 1 \in DataIdx
  BY DEF BufIdx, DataIdx
<1>2. "jobBuf" \in Buffer /\ mem \in Buf
  BY DEF FeeInv, TypeOK, FlsTypeOK, Buf
<1>3. QED
  BY <1>1, <1>2, PackBlockHdrType DEF PackNewRecord, Buf

----------------------------------------------------------------------------
(* The API                                                                 *)

\* A job that is accepted starts at the first request of FindAddr, or with a
\* directory it may trust: then the driver is free.
LEMMA StartJobOK ==
  ASSUME FeeInv, NEW new \in Job, StartJob(new),
         \/ \E ret \in State, type \in {"READ", "WRITE"} : StartFindAddr(ret, type)
         \/ dir.valid /\ \E st \in State : Directly(st)
  PROVE  /\ FlsOK' /\ CursorOK' /\ RestWhenNotBusy' /\ DriverBusyOnlyForWaiter'
         /\ state' \in State /\ status' = "BUSY" /\ flsWaitReturn' \in State
         /\ job' \in Job /\ dir' \in Dir /\ find' \in Find /\ mig' \in Mig
<1>1. FlsOK'
  BY FlsUnchanged DEF StartJob
<1>2. find' \in Find /\ CursorOK' /\ state' \in State
  <2>1. NoFind \in Find
    BY ZeroIndex DEF NoFind, Find, FindSub, State, Cluster
  <2>2. NoFind.sub = "START"
    BY DEF NoFind
  <2>3. find' \in Find /\ state' \in State /\ find'.sub = "START"
    <3>1. ASSUME NEW ret \in State, NEW type \in {"READ", "WRITE"}, StartFindAddr(ret, type)
          PROVE  find' \in Find /\ state' \in State /\ find'.sub = "START"
      <4>1. find' = [NoFind EXCEPT !.ret = ret, !.type = type]
        BY <3>1 DEF StartFindAddr
      <4>2. find' \in Find /\ find'.sub = "START"
        BY <2>1, <2>2, <4>1 DEF Find
      <4>3. state' \in State
        BY <3>1 DEF StartFindAddr, State
      <4>4. QED
        BY <4>2, <4>3
    <3>2. ASSUME NEW st \in State, Directly(st)
          PROVE  find' \in Find /\ state' \in State /\ find'.sub = "START"
      BY <2>1, <2>2, <3>2 DEF Directly
    <3>3. QED
      BY <3>1, <3>2
  <2>4. QED
    BY <2>3 DEF CursorOK
<1>3. NoMig \in Mig
  BY ZeroIndex DEF NoMig, Mig, FindSub
<1>4. DriverBusyOnlyForWaiter'
  BY DEF FeeInv, DriverBusyOnlyForWaiter, RestWhenNotBusy, StartJob, StartFindAddr, Directly,
         NoFind, InFind, flsVars
<1>5. QED
  BY <1>1, <1>2, <1>3, <1>4
  DEF StartJob, ResetJob, FeeInv, TypeOK, RestWhenNotBusy, State

\* Read, ReadAll, Write and WriteAll keep the invariant.
LEMMA SubmitOK == FeeInv /\ Submit => FeeInv'
<1> SUFFICES ASSUME FeeInv, Submit PROVE FeeInv'
  OBVIOUS
<1>0. NoJob \in Job
  BY ZeroIndex DEF NoJob, Job, Kind
<1> DEFINE Accepted(new) ==
      /\ new \in Job /\ StartJob(new)
      /\ \/ \E ret \in State, type \in {"READ", "WRITE"} : StartFindAddr(ret, type)
         \/ dir.valid /\ \E st \in State : Directly(st)
<1>1. ASSUME NEW b \in Block, CallRead(b) PROVE FeeInv'
  <2>1. Accepted([NoJob EXCEPT !.kind = "READ", !.blockNumber = b])
    BY <1>0, <1>1 DEF CallRead, MiniFee_Read, Job, Kind, State
  <2>2. QED
    BY <2>1, <1>1, StartJobOK DEF CallRead, callerVars, FeeInv, TypeOK, FlsOK
<1>2. ASSUME NEW b \in Block, NEW v \in Value, CallWrite(b, v) PROVE FeeInv'
  <2>1. Accepted([NoJob EXCEPT !.kind = "WRITE", !.blockNumber = b])
    BY <1>0, <1>2 DEF CallWrite, MiniFee_Write, Appendable, Job, Kind, State
  <2>2. QED
    BY <2>1, <1>2, StartJobOK, PayloadType DEF CallWrite, FeeInv, TypeOK, FlsOK
<1>3. ASSUME NEW S \in SUBSET Block, NEW v \in Value, CallWriteAll(S, v) PROVE FeeInv'
  <2>1. Accepted([NoJob EXCEPT !.kind = "WRITEALL", !.counted = S])
    BY <1>0, <1>3 DEF CallWriteAll, MiniFee_WriteAll, Appendable, Job, Kind, State
  <2>2. ram' \in [Block -> [DataIdx -> Cell]] /\ dirty' \in [Block -> BOOLEAN]
    BY <1>3, PayloadType DEF CallWriteAll, FeeInv, TypeOK
  <2>3. QED
    BY <2>1, <2>2, <1>3, StartJobOK DEF CallWriteAll, FeeInv, TypeOK, FlsOK
<1>4. ASSUME CallReadAll PROVE FeeInv'
  <2>1. Accepted([NoJob EXCEPT !.kind = "READALL"])
    BY <1>0, <1>4 DEF CallReadAll, MiniFee_ReadAll, Job, Kind, State
  <2>2. ram' \in [Block -> [DataIdx -> Cell]]
    BY <1>4, PayloadType DEF CallReadAll
  <2>3. QED
    BY <2>1, <2>2, <1>4, StartJobOK DEF CallReadAll, FeeInv, TypeOK, FlsOK
<1>5. QED
  BY <1>1, <1>2, <1>3, <1>4 DEF Submit

\* MiniFee_Cancel keeps the invariant: it leaves the flash job and drops the directory.
LEMMA CancelOK == FeeInv /\ MiniFee_Cancel => FeeInv'
<1> SUFFICES ASSUME FeeInv, MiniFee_Cancel PROVE FeeInv'
  OBVIOUS
<1>1. FlsOK'
  BY FlsUnchanged DEF MiniFee_Cancel
<1>2. DriverBusyOnlyForWaiter'
  BY DEF MiniFee_Cancel, DriverBusyOnlyForWaiter, FeeInv, TypeOK, Dir
<1>3. dir' \in Dir
  BY DEF MiniFee_Cancel, FeeInv, TypeOK, Dir
<1>4. QED
  BY <1>1, <1>2, <1>3 DEF MiniFee_Cancel, callerVars, FeeInv, TypeOK, FlsOK, State,
                          RestWhenNotBusy, CursorOK

\* A start of the program establishes the invariant, whatever is in the flash.
LEMMA RestartOK ==
  ASSUME NEW image \in [Addr -> Cell], Restart(image)
  PROVE  FeeInv'
<1>1. FlsOK'
  BY NoOpType, CellTypes
  DEF Restart, MiniFee_Init, ResetContext, Fls_Reinit, FlsOK, FlsTypeOK, OpInBounds, BusyIffOp
<1>2. job' \in Job /\ dir' \in Dir /\ find' \in Find /\ mig' \in Mig
  BY ZeroIndex
  DEF Restart, MiniFee_Init, ResetContext, NoJob, NoDir, NoFind, NoMig, Job, Dir, Find, Mig,
      Kind, State, FindSub, Cluster
<1>3. QED
  BY <1>1, <1>2, CellTypes
  DEF Restart, MiniFee_Init, ResetContext, Fls_Reinit, FeeInv, TypeOK, FlsOK, State,
      RestWhenNotBusy, CursorOK, NoFind, DriverBusyOnlyForWaiter

\* A reset and a loss of power keep the invariant.
LEMMA ResetOK == FeeInv /\ (Reset \/ PowerLoss) => FeeInv'
<1>1. FeeInv => Interrupted \subseteq [Addr -> Cell] /\ flash \in [Addr -> Cell]
  BY InterruptedType DEF FeeInv, TypeOK, FlsTypeOK
<1>2. QED
  BY <1>1, RestartOK DEF Reset, PowerLoss

\* The driver keeps the invariant, whether its job succeeds or fails.
LEMMA MediumOK == FeeInv /\ (Driver \/ DriverFails) => FeeInv'
<1> SUFFICES ASSUME FeeInv, Driver \/ DriverFails PROVE FeeInv'
  OBVIOUS
<1>1. FlsOK' /\ flsStatus' = "IDLE"
  BY DriverOK, DriverFailsOK DEF Driver, DriverFails, Fls_MainFunction, Fls_JobFails, FeeInv
<1>2. QED
  BY <1>1 DEF Driver, DriverFails, feeVars, callerVars, FeeInv, TypeOK, FlsOK, CursorOK,
              RestWhenNotBusy, DriverBusyOnlyForWaiter

----------------------------------------------------------------------------
(* The job's ends, and FindAddr up to the directory                        *)

\* Waiting for the driver and ending a job keep the invariant.
LEMMA EndsOK == FeeInv /\ (HandleFlsWait \/ JobDone \/ JobError) => FeeInv'
<1> SUFFICES ASSUME FeeInv, HandleFlsWait \/ JobDone \/ JobError PROVE FeeInv'
  OBVIOUS
<1>1. FlsOK'
  BY FlsUnchanged DEF HandleFlsWait, JobDone, JobError
<1>2. CASE HandleFlsWait
  BY <1>1, <1>2 DEF HandleFlsWait, callerVars, flsVars, FeeInv, TypeOK, FlsOK, CursorOK,
                    State, RestWhenNotBusy, DriverBusyOnlyForWaiter
<1>3. CASE JobDone \/ JobError
  BY <1>1, <1>3 DEF JobDone, JobError, FinalizeOk, FinalizeErr, callerVars, flsVars, FeeInv,
                    TypeOK, FlsOK, CursorOK, State, RestWhenNotBusy, DriverBusyOnlyForWaiter,
                    InFind
<1>4. QED
  BY <1>2, <1>3

\* The read of a header fits its buffer.
LEMMA HeaderReadGood ==
  ASSUME NEW off \in Nat, NEW x \in {"clusterHdrBuf", "scanHdrBuf"}
  PROVE  GoodOp(ReadOp(off, x, 0, HeaderSize))
  BY DEF GoodOp, ReadOp, FlsOp, HeaderSize, BufEnd

\* The write of a header fits its buffer.
LEMMA HeaderWriteGood ==
  ASSUME NEW off \in Nat PROVE GoodOp(WriteOp(off, "writeHdrBuf", 0, HeaderSize))
  BY DEF GoodOp, WriteOp, FlsOp, HeaderSize, BufEnd

\* An erasure needs no buffer.
LEMMA EraseGood ==
  ASSUME NEW off \in Nat, NEW len \in Nat PROVE GoodOp(EraseOp(off, len))
  BY NoOpType DEF GoodOp, EraseOp, FlsOp

\* Sub-state START keeps the invariant, the only one where the driver may be busy for a cancelled job.
LEMMA FindStartOK == FeeInv /\ FindStart => FeeInv'
<1> SUFFICES ASSUME FeeInv, FindStart PROVE FeeInv'
  OBVIOUS
<1>1. CASE find.clusterIdx >= ClusterCount
  <2>1. FindGoto("DECIDE")
    BY <1>1 DEF FindStart
  <2>2. flsStatus # "BUSY"
    BY <1>1, DriverFree DEF FindStart, InFind
  <2>3. QED
    BY <2>1, <2>2, FindGotoOK
    DEF FindSub, FindStart, FindGoto, flsVars, callerVars, FeeInv, TypeOK, FlsOK,
        RestWhenNotBusy, DriverBusyOnlyForWaiter, InFind
<1>2. CASE find.clusterIdx \in Cluster
  <2> DEFINE op == ReadOp(ClusterStart[find.clusterIdx], "clusterHdrBuf", 0, HeaderSize)
  <2>1. FindFls(op, "READ_CLUSTER_HDR_DONE") /\ UNCHANGED <<mem, status>>
    BY <1>2 DEF FindStart, Cluster
  <2>2. GoodOp(op)
    BY <1>2, HeaderReadGood
  <2>3. find.clusterIdx # 0 => flsStatus # "BUSY"
    BY DriverFree DEF FindStart, InFind
  <2>4. mem' \in Buf
    BY <2>1 DEF FeeInv, TypeOK, FlsTypeOK, Buf
  <2>5. /\ FlsOK' /\ find' \in Find /\ CursorOK' /\ state' \in State /\ flsWaitReturn' \in State
        /\ DriverBusyOnlyForWaiter'
    <3> HIDE DEF op
    <3>1. "READ_CLUSTER_HDR_DONE" \in FindSub
      BY DEF FindSub
    <3>2. /\ FlsOK' /\ state' \in {"FLS_WAIT", "ERROR"} /\ flsWaitReturn' \in State
          /\ flsStatus # "BUSY" /\ flsStatus' = "BUSY" => state' = "FLS_WAIT"
          /\ flsStatus = "BUSY" => state' = "ERROR"
          /\ find' \in Find /\ CursorOK'
      BY <1>2, <2>1, <2>2, <2>4, <3>1, FindFlsOK
    <3>3. flsStatus = "BUSY" => ~dir'.valid
      BY DEF FindStart, FeeInv, DriverBusyOnlyForWaiter, InFind
    <3>4. QED
      BY <3>2, <3>3 DEF State, DriverBusyOnlyForWaiter
  <2>6. QED
    BY <2>1, <2>5 DEF FindStart, InFind, callerVars, FeeInv, TypeOK, FlsOK, RestWhenNotBusy
<1>3. find.clusterIdx \in 0 .. ClusterCount
  BY DEF FeeInv, TypeOK, Find
<1>4. QED
  BY <1>1, <1>2, <1>3 DEF Cluster

\* Looking at a cluster header, and going on to the next, keeps the invariant.
LEMMA FindReadClusterHdrDoneOK == FeeInv /\ FindReadClusterHdrDone => FeeInv'
<1> SUFFICES ASSUME FeeInv, FindReadClusterHdrDone PROVE FeeInv'
  OBVIOUS
<1>1. find.clusterIdx \in Cluster
  BY DEF FindReadClusterHdrDone, InFind, FeeInv, CursorOK
<1>2. find' \in Find /\ find'.sub = "START"
  <2> DEFINE gen == ClusterHdrGen(mem["clusterHdrBuf"][0])
  <2>1. gen \in Nat \cup {NoGen}
    BY ClusterHdrGenType
  <2>2. find.clusterIdx + 1 \in 0 .. ClusterCount
    BY <1>1 DEF Cluster
  <2>3. find \in Find
    BY DEF FeeInv, TypeOK
  <2> DEFINE found == find.hasData \/ gen # NoGen
             best == IF gen # NoGen /\ gen > find.bestGen THEN gen ELSE find.bestGen
             at == IF gen # NoGen /\ gen > find.bestGen THEN find.clusterIdx
                   ELSE find.bestGenIdx
  <2>4. found \in BOOLEAN
    OBVIOUS
  <2>5. best \in Nat /\ at \in Cluster
    BY <1>1, <2>1, <2>3 DEF Find
  <2>6. find' = [find EXCEPT !.hasData = found, !.bestGen = best, !.bestGenIdx = at,
                             !.clusterIdx = find.clusterIdx + 1, !.sub = "START"]
    BY DEF FindReadClusterHdrDone
  <2> HIDE DEF found, best, at
  <2>7. QED
    BY <2>2, <2>3, <2>4, <2>5, <2>6 DEF Find, FindSub
<1>3. flsStatus # "BUSY"
  BY DriverFree DEF FindReadClusterHdrDone, InFind
<1>4. FlsOK'
  BY FlsUnchanged DEF FindReadClusterHdrDone
<1>5. QED
  BY <1>2, <1>3, <1>4 DEF FindReadClusterHdrDone, InFind, flsVars, callerVars, FeeInv, TypeOK,
                          FlsOK, CursorOK, RestWhenNotBusy, DriverBusyOnlyForWaiter

\* The sub-states that decide without the flash.
LEMMA DecideOK == FeeInv /\ (DecideBlank \/ DecideReuse \/ DecideScan) => FeeInv'
<1> SUFFICES ASSUME FeeInv, DecideBlank \/ DecideReuse \/ DecideScan PROVE FeeInv'
  OBVIOUS
<1>1. flsStatus # "BUSY"
  BY DriverFree DEF DecideBlank, DecideReuse, DecideScan, InFind
<1>2. FlsOK' /\ flsStatus' = flsStatus
  BY FlsUnchanged DEF DecideBlank, DecideReuse, DecideScan, FindGoto, flsVars
<1>3. dir' \in Dir
  <2>1. dir \in Dir /\ find.bestGenIdx \in Cluster /\ find.bestGen \in Nat
    BY DEF FeeInv, TypeOK, Find
  <2>2. EmptyDir \in [Block -> Nat \cup {NoRecord}]
    BY DEF EmptyDir
  <2>3. CASE DecideBlank
    <3>1. \/ dir' = [dir EXCEPT !.gen = NoGen]
          \/ dir' = [valid |-> TRUE, index |-> 0, gen |-> NoGen, headerEnd |-> HeaderSize,
                     offset |-> EmptyDir]
      BY <2>3 DEF DecideBlank
    <3>2. [dir EXCEPT !.gen = NoGen] \in Dir
      BY <2>1 DEF Dir
    <3>3. [valid |-> TRUE, index |-> 0, gen |-> NoGen, headerEnd |-> HeaderSize,
           offset |-> EmptyDir] \in Dir
      BY <2>2, ZeroIndex DEF Dir, HeaderSize
    <3>4. QED
      BY <3>1, <3>2, <3>3
  <2>4. CASE DecideReuse
    BY <2>1, <2>4 DEF DecideReuse
  <2>5. CASE DecideScan
    BY <2>1, <2>2, <2>5 DEF DecideScan, Dir, HeaderSize
  <2>6. QED
    BY <2>3, <2>4, <2>5
<1>4. find' \in Find /\ CursorOK'
  <2>1. CASE DecideBlank \/ DecideReuse
    BY <2>1, FindGotoOK DEF DecideBlank, DecideReuse, FindSub
  <2>2. CASE DecideScan
    BY <2>2 DEF DecideScan, FeeInv, TypeOK, Find, FindSub, CursorOK, HeaderSize
  <2>3. QED
    BY <2>1, <2>2
<1>5. UNCHANGED <<state, status, flsWaitReturn, job, mig, callerVars>>
  BY DEF DecideBlank, DecideReuse, DecideScan, FindGoto
<1>6. QED
  BY <1>1, <1>2, <1>3, <1>4, <1>5
  DEF callerVars, FeeInv, TypeOK, FlsOK, RestWhenNotBusy, DriverBusyOnlyForWaiter

----------------------------------------------------------------------------
(* FindAddr once the active cluster is known                               *)

\* A sub-state of FindAddr, run with a free driver, that starts a flash job or
\* moves on: what is left to prove is the type of what else it changes.
LEMMA FindStepOK ==
  ASSUME FeeInv, state = "FIND_PROC", flsStatus # "BUSY",
         \/ /\ \E op : GoodOp(op) /\ \E sub \in FindSub \ {"READ_CLUSTER_HDR_DONE"} : FindFls(op, sub)
            /\ mem' \in Buf /\ status' = status
         \/ \E sub \in FindSub \ {"READ_CLUSTER_HDR_DONE"} : FindGoto(sub),
         job' \in Job, dir' \in Dir, mig' \in Mig, UNCHANGED callerVars
  PROVE  FeeInv'
<1> DEFINE Done == /\ FlsOK' /\ state' \in State /\ flsWaitReturn' \in State
                   /\ find' \in Find /\ CursorOK' /\ DriverBusyOnlyForWaiter'
                   /\ status' = status
<1>1. Done
  <2>1. ASSUME NEW op, NEW sub \in FindSub \ {"READ_CLUSTER_HDR_DONE"}, GoodOp(op),
               FindFls(op, sub), mem' \in Buf, status' = status
        PROVE  Done
    <3>1. /\ FlsOK'
          /\ state' \in {"FLS_WAIT", "ERROR"} /\ flsWaitReturn' \in State
          /\ flsStatus # "BUSY" /\ flsStatus' = "BUSY" => state' = "FLS_WAIT"
          /\ find' \in Find /\ CursorOK'
      BY <2>1, FindFlsOK
    <3>2. QED
      BY <2>1, <3>1 DEF State, DriverBusyOnlyForWaiter
  <2>2. ASSUME NEW sub \in FindSub \ {"READ_CLUSTER_HDR_DONE"}, FindGoto(sub)
        PROVE  Done
    BY <2>2, FindGotoOK DEF FindGoto, flsVars, DriverBusyOnlyForWaiter
  <2>3. QED
    BY <2>1, <2>2
<1>2. QED
  BY <1>1 DEF callerVars, FeeInv, TypeOK, FlsOK, RestWhenNotBusy

\* StartWriteClusterHdr packs a header cell of the next generation and asks for its write,
\* which fits the buffer.
LEMMA StartWriteClusterHdrOK ==
  ASSUME FeeInv, NEW k \in Cluster, NEW sub \in {"FRESH_ACTIVATE_DONE", "MIGRATE_SWITCH"},
         StartWriteClusterHdr(k, sub)
  PROVE  /\ mig' \in Mig /\ mem' \in Buf
         /\ \E op : GoodOp(op) /\ FindFls(op, "WRITE_HDR_WRITE")
<1> DEFINE gen == (IF dir.gen = NoGen THEN 0 ELSE dir.gen) + 1
<1>1. gen \in Nat
  BY DEF FeeInv, TypeOK, Dir
<1>2. mig' \in Mig
  <2> HIDE DEF gen
  <2>1. mig' = [mig EXCEPT !.hdrGen = gen, !.hdrRet = sub]
    BY DEF StartWriteClusterHdr, gen
  <2>2. QED
    BY <1>1, <2>1 DEF FeeInv, TypeOK, Mig
<1>3. mem' \in Buf
  <2>1. PackClusterHdr(gen) \in Cell
    BY <1>1, PackClusterHdrType
  <2>2. mem' = [mem EXCEPT !["writeHdrBuf"][0] = PackClusterHdr(gen)]
    BY DEF StartWriteClusterHdr
  <2>3. mem \in Buf /\ "writeHdrBuf" \in Buffer
    BY DEF FeeInv, TypeOK, FlsTypeOK, Buf
  <2> HIDE DEF gen
  <2>4. QED
    BY <2>1, <2>2, <2>3 DEF Buf
<1>4. ClusterStart[k] \in Nat
  OBVIOUS
<1>5. QED
  BY <1>2, <1>3, <1>4, HeaderWriteGood DEF StartWriteClusterHdr

\* The sub-states that activate a fresh cluster keep the invariant.
LEMMA ActivationOK ==
  FeeInv /\ (FindFreshErase \/ FindFreshActivate \/ FindWriteHdrWrite \/ FindFreshActivateDone)
    => FeeInv'
<1> SUFFICES ASSUME FeeInv,
                    FindFreshErase \/ FindFreshActivate \/ FindWriteHdrWrite
                      \/ FindFreshActivateDone
             PROVE  FeeInv'
  OBVIOUS
<1>1. flsStatus # "BUSY" /\ state = "FIND_PROC"
  BY DriverFree DEF FindFreshErase, FindFreshActivate, FindWriteHdrWrite,
                    FindFreshActivateDone, InFind
<1>2. job \in Job /\ dir \in Dir /\ mig \in Mig /\ mem \in Buf
  BY DEF FeeInv, TypeOK, FlsTypeOK, Buf
<1>3. CASE FindFreshErase
  <2>1. GoodOp(EraseOp(ClusterStart[0], ClusterLen[0]))
    BY ZeroIndex, EraseGood
  <2>2. "FRESH_ACTIVATE" \in FindSub \ {"READ_CLUSTER_HDR_DONE"}
    BY DEF FindSub
  <2>3. QED
    BY <1>1, <1>2, <1>3, <2>1, <2>2, FindStepOK DEF FindFreshErase
<1>4. CASE FindFreshActivate
  <2>1. "WRITE_HDR_WRITE" \in FindSub \ {"READ_CLUSTER_HDR_DONE"}
    BY DEF FindSub
  <2>2. /\ mig' \in Mig /\ mem' \in Buf
        /\ \E op : GoodOp(op) /\ FindFls(op, "WRITE_HDR_WRITE")
    BY <1>4, <2>1, ZeroIndex, StartWriteClusterHdrOK DEF FindFreshActivate
  <2>3. QED
    BY <1>1, <1>2, <1>4, <2>1, <2>2, FindStepOK DEF FindFreshActivate
<1>5. CASE FindWriteHdrWrite
  <2>1. mig.hdrRet \in FindSub \ {"READ_CLUSTER_HDR_DONE"}
    BY DEF FeeInv, TypeOK, Mig, FindSub
  <2>2. QED
    BY <1>1, <1>2, <1>5, <2>1, FindStepOK DEF FindWriteHdrWrite
<1>6. CASE FindFreshActivateDone
  <2>1. dir' \in Dir
    <3>1. EmptyDir \in [Block -> Nat \cup {NoRecord}] /\ mig.hdrGen \in Nat
      BY DEF EmptyDir, FeeInv, TypeOK, Mig
    <3>2. QED
      BY <1>6, <3>1, ZeroIndex DEF FindFreshActivateDone, Dir, HeaderSize
  <2>2. find' \in Find /\ CursorOK'
    <3> DEFINE err == find.err \/ (ClusterLen[0] - HeaderSize) % WordMod < Needed
    <3>1. err \in BOOLEAN /\ find' = [find EXCEPT !.sub = "DONE", !.err = err]
      BY <1>6 DEF FindFreshActivateDone
    <3> HIDE DEF err
    <3>2. QED
      BY <3>1 DEF FeeInv, TypeOK, Find, FindSub, CursorOK
  <2>3. FlsOK'
    BY <1>6, FlsUnchanged DEF FindFreshActivateDone
  <2>4. QED
    BY <1>1, <1>6, <2>1, <2>2, <2>3
    DEF FindFreshActivateDone, flsVars, callerVars, FeeInv, TypeOK, FlsOK, RestWhenNotBusy,
        DriverBusyOnlyForWaiter
<1>7. QED
  BY <1>3, <1>4, <1>5, <1>6

\* The sub-states that scan the record headers keep the invariant.
LEMMA ScanOK == FeeInv /\ (FindMetricsRead \/ FindMetricsEval \/ FindMetricsDone) => FeeInv'
<1> SUFFICES ASSUME FeeInv, FindMetricsRead \/ FindMetricsEval \/ FindMetricsDone
             PROVE  FeeInv'
  OBVIOUS
<1>1. flsStatus # "BUSY" /\ state = "FIND_PROC"
  BY DriverFree DEF FindMetricsRead, FindMetricsEval, FindMetricsDone, InFind
<1>2. job \in Job /\ dir \in Dir /\ mig \in Mig /\ mem \in Buf /\ find \in Find
  BY DEF FeeInv, TypeOK, FlsTypeOK, Buf
<1>3. CASE FindMetricsRead
  <2>1. ClusterStart[dir.index] + find.scanOff \in Nat
    BY <1>2 DEF Dir, Find
  <2>2. GoodOp(ReadOp(ClusterStart[dir.index] + find.scanOff, "scanHdrBuf", 0, HeaderSize))
    BY <2>1, HeaderReadGood
  <2>3. {"METRICS_EVAL", "METRICS_DONE"} \subseteq FindSub \ {"READ_CLUSTER_HDR_DONE"}
    BY DEF FindSub
  <2>4. QED
    BY <1>1, <1>2, <1>3, <2>2, <2>3, FindStepOK DEF FindMetricsRead
<1>4. CASE FindMetricsEval
  <2> DEFINE hdr == mem["scanHdrBuf"][0]
             next == find.scanOff + BlockTotal(hdr.len)
  <2>1. IsBlockHeaderValid(hdr) => hdr.block \in Block /\ next \in Nat
    BY <1>2 DEF IsBlockHeaderValid, BlockHeader, Find, BlockTotal, HeaderSize
  <2>2. \/ UNCHANGED dir /\ find' = [find EXCEPT !.sub = "METRICS_DONE"]
        \/ UNCHANGED dir /\ find' = [find EXCEPT !.sub = "METRICS_DONE", !.scanCorrupt = TRUE]
        \/ /\ IsBlockHeaderValid(hdr)
           /\ dir' = [dir EXCEPT !.offset[hdr.block] = find.scanOff, !.headerEnd = next]
           /\ find' = [find EXCEPT !.scanOff = next, !.sub = "METRICS_READ"]
    BY <1>4 DEF FindMetricsEval
  <2> HIDE DEF hdr, next
  <2>3. dir' \in Dir
    <3>1. CASE UNCHANGED dir
      BY <1>2, <3>1
    <3>2. CASE /\ IsBlockHeaderValid(hdr)
               /\ dir' = [dir EXCEPT !.offset[hdr.block] = find.scanOff, !.headerEnd = next]
      <4>1. find.scanOff \in Nat /\ hdr.block \in Block /\ next \in Nat
        BY <1>2, <2>1, <3>2 DEF Find
      <4>2. dir \in Dir /\ dir.offset \in [Block -> Nat \cup {NoRecord}]
        BY <1>2 DEF Dir
      <4>3. [dir.offset EXCEPT ![hdr.block] = find.scanOff] \in [Block -> Nat \cup {NoRecord}]
        BY <4>1, <4>2
      <4>4. QED
        BY <3>2, <4>1, <4>2, <4>3 DEF Dir
    <3>3. QED
      BY <2>2, <3>1, <3>2
  <2>4. find' \in Find /\ CursorOK'
    <3>1. find \in Find /\ {"METRICS_DONE", "METRICS_READ"} \subseteq FindSub
      BY <1>2 DEF FindSub
    <3>2. CASE find' = [find EXCEPT !.sub = "METRICS_DONE"]
      BY <3>1, <3>2 DEF Find, CursorOK
    <3>3. CASE find' = [find EXCEPT !.sub = "METRICS_DONE", !.scanCorrupt = TRUE]
      BY <3>1, <3>3 DEF Find, CursorOK
    <3>4. CASE /\ next \in Nat
               /\ find' = [find EXCEPT !.scanOff = next, !.sub = "METRICS_READ"]
      BY <3>1, <3>4 DEF Find, CursorOK
    <3>5. QED
      BY <2>1, <2>2, <3>2, <3>3, <3>4
  <2>5. FlsOK'
    BY <1>4, FlsUnchanged DEF FindMetricsEval
  <2>6. UNCHANGED <<flsVars, state, status, flsWaitReturn, job, mig, callerVars>>
    BY <1>4 DEF FindMetricsEval
  <2>7. QED
    BY <1>1, <2>3, <2>4, <2>5, <2>6
    DEF flsVars, callerVars, FeeInv, TypeOK, FlsOK, RestWhenNotBusy, DriverBusyOnlyForWaiter
<1>5. CASE FindMetricsDone
  <2>1. {"MIGRATE_PREPARE", "DONE"} \subseteq FindSub \ {"READ_CLUSTER_HDR_DONE"}
    BY DEF FindSub
  <2>2. dir' \in Dir
    <3>1. find.scanCorrupt \in BOOLEAN
      BY <1>2 DEF Find
    <3>2. (~find.scanCorrupt) \in BOOLEAN
      OBVIOUS
    <3>3. dir' = dir \/ dir' = [dir EXCEPT !.valid = ~find.scanCorrupt]
      BY <1>5 DEF FindMetricsDone
    <3>4. QED
      BY <1>2, <3>2, <3>3 DEF Dir
  <2>3. QED
    BY <1>1, <1>2, <1>5, <2>1, <2>2, FindStepOK DEF FindMetricsDone
<1>6. QED
  BY <1>3, <1>4, <1>5

----------------------------------------------------------------------------
(* Migration                                                               *)

\* A whole record is written from jobBuf, its data alone read into jobBuf.
LEMMA RecordOpGood ==
  ASSUME NEW off \in Nat, NEW b \in Block
  PROVE  /\ GoodOp(WriteOp(off, "jobBuf", 0, BlockTotal(DataCells[b])))
         /\ GoodOp(ReadOp(off, "jobBuf", HeaderSize, DataCells[b]))
         /\ GoodOp(ReadOp(off, "jobBuf", 0, DataCells[b]))
<1>1. DataCells[b] \in Nat /\ DataCells[b] <= MaxDataCells
  OBVIOUS
<1>2. QED
  BY <1>1 DEF GoodOp, ReadOp, WriteOp, FlsOp, BlockTotal, HeaderSize, BufEnd

\* What a write job is to store is made of cells, as a single or a bulk write.
LEMMA TargetDataType == FeeInv => \A b \in Block : TargetData(b) \in [DataIdx -> Cell]
  BY DEF FeeInv, TypeOK, TargetData

\* MIGRATE_READ keeps the invariant, whether it copies, skips or has copied all blocks.
LEMMA MigrateReadOK == FeeInv /\ FindMigrateRead => FeeInv'
<1> SUFFICES ASSUME FeeInv, FindMigrateRead PROVE FeeInv'
  OBVIOUS
<1>1. flsStatus # "BUSY" /\ state = "FIND_PROC"
  BY DriverFree DEF FindMigrateRead, InFind
<1>2. job \in Job /\ dir \in Dir /\ mig \in Mig /\ mem \in Buf /\ find \in Find
  BY DEF FeeInv, TypeOK, FlsTypeOK, Buf
<1> DEFINE S == {x \in Block : Target(x) \/ dir.offset[x] # NoRecord}
           b == FirstFrom(mig.block, S)
           op == ReadOp(ClusterStart[dir.index] + dir.offset[b] + HeaderSize, "jobBuf",
                        HeaderSize, DataCells[b])
<1>3. /\ b \in Block \cup {BlockCount}
      /\ b # BlockCount => b \in S
  <2>1. mig.block \in Nat
    BY <1>2 DEF Mig
  <2>2. S \in SUBSET Block
    OBVIOUS
  <2>3. QED
    BY <2>1, <2>2, FirstFromType
<1>4. {"MIGRATE_ACTIVATE", "MIGRATE_WRITE"} \subseteq FindSub \ {"READ_CLUSTER_HDR_DONE"}
  BY DEF FindSub
<1>5. CASE b = BlockCount
  <2>1. FindGoto("MIGRATE_ACTIVATE") /\ mig' = [mig EXCEPT !.block = BlockCount]
        /\ UNCHANGED job /\ UNCHANGED <<dir, callerVars>>
    BY <1>5 DEF FindMigrateRead
  <2>2. mig' \in Mig
    BY <1>2, <2>1 DEF Mig
  <2>3. QED
    BY <1>1, <1>2, <1>4, <2>1, <2>2, FindStepOK
<1>6. CASE b # BlockCount
  <2>1. b \in Block /\ (Target(b) \/ dir.offset[b] # NoRecord)
    BY <1>3, <1>6
  <2>2. /\ mig' = [mig EXCEPT !.block = b + 1] /\ job' = [job EXCEPT !.cur = b]
        /\ UNCHANGED <<status, dir, callerVars>>
    BY <1>6 DEF FindMigrateRead
  <2>3. mig' \in Mig /\ job' \in Job
    <3> HIDE DEF b
    <3>1. b + 1 \in 0 .. BlockCount
      BY <2>1 DEF Block
    <3>2. QED
      BY <1>2, <2>1, <2>2, <3>1 DEF Mig, Job
  <2>4. CASE Target(b)
    <3>1. /\ PackNewRecord(b, TargetData(b)) /\ find' = [find EXCEPT !.sub = "MIGRATE_WRITE"]
          /\ UNCHANGED <<flash, flsOp, flsStatus, flsResult, state, flsWaitReturn>>
      BY <1>6, <2>4 DEF FindMigrateRead
    <3>2. mem' \in Buf
      BY <2>1, <3>1, PackNewRecordOK, TargetDataType
    <3>3. FlsOK'
      BY <1>1, <3>1, <3>2 DEF FeeInv, FlsOK, FlsTypeOK, OpInBounds, BusyIffOp, Buf
    <3>4. find' \in Find /\ CursorOK'
      BY <1>2, <1>4, <3>1 DEF Find, CursorOK
    <3>5. QED
      BY <1>1, <2>2, <2>3, <3>1, <3>3, <3>4
      DEF callerVars, FeeInv, TypeOK, FlsOK, RestWhenNotBusy, DriverBusyOnlyForWaiter
  <2>5. CASE ~Target(b)
    <3>1. mem' = [mem EXCEPT !["jobBuf"][0] = PackBlockHdr(b)] /\ FindFls(op, "MIGRATE_WRITE")
      BY <1>6, <2>5 DEF FindMigrateRead
    <3>2. ClusterStart[dir.index] + dir.offset[b] + HeaderSize \in Nat
      <4> HIDE DEF b
      <4>1. dir.offset[b] \in Nat /\ ClusterStart[dir.index] \in Nat
        BY <1>2, <2>1, <2>5 DEF Dir
      <4>2. QED
        BY <4>1 DEF HeaderSize
    <3>3. GoodOp(op)
      BY <2>1, <3>2, RecordOpGood
    <3>4. mem' \in Buf
      <4>1. PackBlockHdr(b) \in Cell /\ "jobBuf" \in Buffer
        BY <2>1, PackBlockHdrType
      <4> HIDE DEF b
      <4>2. QED
        BY <1>2, <3>1, <4>1 DEF Buf
    <3> HIDE DEF op, b
    <3>5. QED
      BY <1>1, <1>2, <1>4, <2>2, <2>3, <3>1, <3>3, <3>4, FindStepOK
  <2>6. QED
    BY <2>4, <2>5
<1>7. QED
  BY <1>5, <1>6

\* MIGRATE_WRITE keeps the invariant, whether the record fits the destination or not.
LEMMA MigrateWriteOK == FeeInv /\ FindMigrateWrite => FeeInv'
<1> SUFFICES ASSUME FeeInv, FindMigrateWrite PROVE FeeInv'
  OBVIOUS
<1>1. flsStatus # "BUSY" /\ state = "FIND_PROC"
  BY DriverFree DEF FindMigrateWrite, InFind
<1>2. job \in Job /\ dir \in Dir /\ mig \in Mig /\ mem \in Buf /\ find \in Find
  BY DEF FeeInv, TypeOK, FlsTypeOK, Buf
<1> DEFINE total == BlockTotal(DataCells[job.cur])
           op == WriteOp(ClusterStart[mig.dst] + mig.hdrEnd, "jobBuf", 0, total)
<1>3. CASE mig.hdrEnd + total > ClusterLen[mig.dst]
  <2>1. /\ find' = [find EXCEPT !.sub = "DONE", !.err = TRUE]
        /\ UNCHANGED <<flsVars, state, flsWaitReturn, dir, mig, status, job, callerVars>>
    BY <1>3 DEF FindMigrateWrite
  <2>2. find' \in Find /\ CursorOK'
    BY <1>2, <2>1 DEF Find, FindSub, CursorOK
  <2>3. FlsOK'
    BY <2>1, FlsUnchanged
  <2>4. QED
    BY <1>1, <2>1, <2>2, <2>3
    DEF flsVars, callerVars, FeeInv, TypeOK, FlsOK, RestWhenNotBusy, DriverBusyOnlyForWaiter
<1>4. CASE ~(mig.hdrEnd + total > ClusterLen[mig.dst])
  <2>1. /\ FindFls(op, "MIGRATE_READ")
        /\ dir' = IF Accepts(op) THEN [dir EXCEPT !.offset[job.cur] = mig.hdrEnd] ELSE dir
        /\ mig' = IF Accepts(op) THEN [mig EXCEPT !.hdrEnd = @ + total] ELSE mig
        /\ UNCHANGED mem /\ UNCHANGED <<status, job, callerVars>>
    BY <1>4 DEF FindMigrateWrite
  <2>2. GoodOp(op)
    <3>1. ClusterStart[mig.dst] + mig.hdrEnd \in Nat /\ job.cur \in Block
      BY <1>2 DEF Mig, Job
    <3>2. QED
      BY <3>1, RecordOpGood
  <2>3. dir' \in Dir /\ mig' \in Mig
    <3>1. job.cur \in Block /\ mig.hdrEnd \in Nat /\ mig.hdrEnd + total \in Nat
      BY <1>2 DEF Job, Mig, BlockTotal, HeaderSize
    <3> HIDE DEF op, total
    <3>2. [dir EXCEPT !.offset[job.cur] = mig.hdrEnd] \in Dir
      BY <1>2, <3>1 DEF Dir
    <3>3. [mig EXCEPT !.hdrEnd = @ + total] \in Mig
      BY <1>2, <3>1 DEF Mig
    <3>4. QED
      BY <1>2, <2>1, <3>2, <3>3
  <2>4. "MIGRATE_READ" \in FindSub \ {"READ_CLUSTER_HDR_DONE"}
    BY DEF FindSub
  <2> HIDE DEF op
  <2>5. QED
    BY <1>1, <1>2, <2>1, <2>2, <2>3, <2>4, FindStepOK
<1>5. QED
  BY <1>3, <1>4

\* The other sub-states of a migration, and the last one, keep the invariant.
LEMMA MigrateOK ==
  FeeInv /\ (FindMigratePrepare \/ FindMigrateEraseDst \/ FindMigrateActivate
             \/ FindMigrateSwitch \/ FindDone) => FeeInv'
<1> SUFFICES ASSUME FeeInv,
                    FindMigratePrepare \/ FindMigrateEraseDst \/ FindMigrateActivate
                      \/ FindMigrateSwitch \/ FindDone
             PROVE  FeeInv'
  OBVIOUS
<1>1. flsStatus # "BUSY" /\ state = "FIND_PROC"
  BY DriverFree DEF FindMigratePrepare, FindMigrateEraseDst, FindMigrateActivate,
                    FindMigrateSwitch, FindDone, InFind
<1>2. job \in Job /\ dir \in Dir /\ mig \in Mig /\ mem \in Buf /\ find \in Find
  BY DEF FeeInv, TypeOK, FlsTypeOK, Buf
<1>3. {"MIGRATE_ERASE_DST", "MIGRATE_READ", "WRITE_HDR_WRITE"}
        \subseteq FindSub \ {"READ_CLUSTER_HDR_DONE"}
  BY DEF FindSub
<1>4. CASE FindMigratePrepare
  <2>1. (dir.index + 1) % ClusterCount \in Cluster
    <3>1. dir.index + 1 \in Nat
      BY <1>2 DEF Dir, Cluster
    <3>2. QED
      BY <3>1 DEF Cluster
  <2>2. mig' \in Mig
    <3>1. HeaderSize \in Nat /\ 0 \in 0 .. BlockCount
      BY DEF HeaderSize
    <3>2. mig' = [mig EXCEPT !.dst = (dir.index + 1) % ClusterCount,
                             !.hdrEnd = HeaderSize, !.block = 0]
      BY <1>4 DEF FindMigratePrepare
    <3>3. QED
      BY <1>2, <2>1, <3>1, <3>2 DEF Mig
  <2>3. QED
    BY <1>1, <1>2, <1>3, <1>4, <2>2, FindStepOK DEF FindMigratePrepare
<1>5. CASE FindMigrateEraseDst
  <2>1. GoodOp(EraseOp(ClusterStart[mig.dst], ClusterLen[mig.dst]))
    BY <1>2, EraseGood DEF Mig
  <2>2. QED
    BY <1>1, <1>2, <1>3, <1>5, <2>1, FindStepOK DEF FindMigrateEraseDst
<1>6. CASE FindMigrateActivate
  <2>1. /\ mig' \in Mig /\ mem' \in Buf
        /\ \E op : GoodOp(op) /\ FindFls(op, "WRITE_HDR_WRITE")
    BY <1>2, <1>6, StartWriteClusterHdrOK DEF FindMigrateActivate, Mig
  <2>2. QED
    BY <1>1, <1>2, <1>3, <1>6, <2>1, FindStepOK DEF FindMigrateActivate
<1>7. CASE FindMigrateSwitch
  <2>1. dir' \in Dir
    <3>1. mig.dst \in Cluster /\ mig.hdrGen \in Nat /\ mig.hdrEnd \in Nat
      BY <1>2 DEF Mig
    <3>2. QED
      BY <1>2, <1>7, <3>1 DEF FindMigrateSwitch, Dir
  <2>2. find' \in Find /\ CursorOK'
    BY <1>2, <1>7 DEF FindMigrateSwitch, Find, FindSub, State, CursorOK
  <2>3. FlsOK'
    BY <1>7, FlsUnchanged DEF FindMigrateSwitch
  <2>4. QED
    BY <1>1, <1>7, <2>1, <2>2, <2>3
    DEF FindMigrateSwitch, flsVars, callerVars, FeeInv, TypeOK, FlsOK, RestWhenNotBusy,
        DriverBusyOnlyForWaiter
<1>8. CASE FindDone
  <2>1. state' \in State
    BY <1>2, <1>8 DEF FindDone, Find
  <2>2. FlsOK'
    BY <1>8, FlsUnchanged DEF FindDone
  <2>3. QED
    BY <1>1, <1>8, <2>1, <2>2
    DEF FindDone, flsVars, callerVars, FeeInv, TypeOK, FlsOK, CursorOK, RestWhenNotBusy,
        DriverBusyOnlyForWaiter
<1>9. QED
  BY <1>4, <1>5, <1>6, <1>7, <1>8

----------------------------------------------------------------------------
(* Reading and writing                                                     *)

\* Fill keeps the caller's buffer one of cells.
LEMMA FillType ==
  ASSUME NEW b \in Block, NEW buf \in [DataIdx -> Cell], NEW data,
         \A i \in 0 .. DataCells[b] - 1 : data[i] \in Cell
  PROVE  Fill(buf, b, data) \in [DataIdx -> Cell]
<1>1. \A i \in DataIdx : i < DataCells[b] => i \in 0 .. DataCells[b] - 1
  BY DEF DataIdx
<1>2. QED
  BY <1>1 DEF Fill

\* The data read into jobBuf is made of cells.
LEMMA JobBufData ==
  ASSUME FeeInv, NEW b \in Block
  PROVE  \A i \in 0 .. DataCells[b] - 1 : mem["jobBuf"][i] \in Cell
<1>1. 0 .. DataCells[b] - 1 \subseteq BufIdx
  BY DEF BufIdx, HeaderSize
<1>2. QED
  BY <1>1 DEF FeeInv, TypeOK, FlsTypeOK

\* Outside FindAddr a job that starts a flash job waits for it; one that is
\* refused is over.
LEMMA StartOrFailOK ==
  ASSUME FeeInv, flsStatus # "BUSY", state # "IDLE", NEW op, GoodOp(op), NEW ret \in State,
         StartOrFail(op, ret), mem' \in Buf
  PROVE  /\ FlsOK' /\ state' \in State /\ flsWaitReturn' \in State
         /\ status' \in {"BUSY", "NOT_OK"}
         /\ RestWhenNotBusy' /\ DriverBusyOnlyForWaiter'
<1>1. FlsOK'
  BY RequestOK DEF StartOrFail, FeeInv
<1>2. status = "BUSY"
  BY DEF FeeInv, RestWhenNotBusy
<1>3. QED
  BY <1>1, <1>2 DEF StartOrFail, Request, FeeInv, TypeOK, State, RestWhenNotBusy,
                    DriverBusyOnlyForWaiter

\* The read of a record the directory knows fits jobBuf.
LEMMA RecordDataGood ==
  ASSUME FeeInv, NEW b \in Block, dir.offset[b] # NoRecord
  PROVE  GoodOp(RecordData(b))
<1>1. ClusterStart[dir.index] \in Nat /\ dir.offset[b] \in Nat
  BY DEF FeeInv, TypeOK, Dir
<1>2. ClusterStart[dir.index] + dir.offset[b] + HeaderSize \in Nat
  BY <1>1 DEF HeaderSize
<1>3. QED
  BY <1>2, RecordOpGood DEF RecordData

\* The states of a single read keep the invariant.
LEMMA ReadOK == FeeInv /\ (HandleReadByDir \/ HandleReadVerifyCopy) => FeeInv'
<1> SUFFICES ASSUME FeeInv, HandleReadByDir \/ HandleReadVerifyCopy PROVE FeeInv'
  OBVIOUS
<1>1. flsStatus # "BUSY" /\ status = "BUSY"
  BY DriverFree DEF HandleReadByDir, HandleReadVerifyCopy, InFind, FeeInv, RestWhenNotBusy
<1>2. job.blockNumber \in Block /\ dataBuf \in [DataIdx -> Cell] /\ mem \in Buf
  BY DEF FeeInv, TypeOK, FlsTypeOK, Buf, Job
<1>3. CASE HandleReadByDir
  <2> DEFINE b == job.blockNumber
  <2>1. UNCHANGED <<job, dir, find, mig, ram, dirty>>
    BY <1>3 DEF HandleReadByDir
  <2>2. CASE find.err
    <3>1. FinalizeErr /\ UNCHANGED <<flsVars, flsWaitReturn, dataBuf>>
      BY <1>3, <2>2 DEF HandleReadByDir
    <3>2. FlsOK'
      BY <3>1, FlsUnchanged
    <3>3. QED
      BY <1>1, <2>1, <3>1, <3>2
      DEF FinalizeErr, flsVars, FeeInv, TypeOK, FlsOK, State, CursorOK, RestWhenNotBusy,
          DriverBusyOnlyForWaiter
  <2>3. CASE ~find.err /\ dir.offset[b] = NoRecord
    <3>1. /\ dataBuf' = Fill(dataBuf, b, Zeros(b)) /\ state' = "READ_DONE"
          /\ UNCHANGED <<flsVars, status, flsWaitReturn>>
      BY <1>3, <2>3 DEF HandleReadByDir
    <3>2. dataBuf' \in [DataIdx -> Cell]
      BY <1>2, <3>1, FillType, CellTypes DEF Zeros
    <3>3. FlsOK'
      BY <3>1, FlsUnchanged
    <3>4. QED
      BY <1>1, <2>1, <3>1, <3>2, <3>3
      DEF flsVars, FeeInv, TypeOK, FlsOK, State, CursorOK, RestWhenNotBusy,
          DriverBusyOnlyForWaiter
  <2>4. CASE ~find.err /\ dir.offset[b] # NoRecord
    <3>1. StartOrFail(RecordData(b), "READ_VERIFY_COPY") /\ UNCHANGED <<mem, dataBuf>>
      BY <1>3, <2>4 DEF HandleReadByDir
    <3>2. GoodOp(RecordData(b)) /\ "READ_VERIFY_COPY" \in State
      BY <1>2, <2>4, RecordDataGood DEF State
    <3>3. mem' \in Buf /\ state # "IDLE"
      BY <1>2, <1>3, <3>1 DEF HandleReadByDir
    <3>4. /\ FlsOK' /\ state' \in State /\ flsWaitReturn' \in State
          /\ status' \in {"BUSY", "NOT_OK"}
          /\ RestWhenNotBusy' /\ DriverBusyOnlyForWaiter'
      BY <1>1, <3>1, <3>2, <3>3, StartOrFailOK
    <3>5. QED
      BY <2>1, <3>1, <3>4 DEF FeeInv, TypeOK, FlsOK, CursorOK
  <2>5. QED
    BY <2>2, <2>3, <2>4
<1>4. CASE HandleReadVerifyCopy
  <2>1. dataBuf' \in [DataIdx -> Cell]
    BY <1>2, <1>4, FillType, JobBufData DEF HandleReadVerifyCopy
  <2>2. FlsOK'
    BY <1>4, FlsUnchanged DEF HandleReadVerifyCopy
  <2>3. QED
    BY <1>1, <1>4, <2>1, <2>2
    DEF HandleReadVerifyCopy, flsVars, FeeInv, TypeOK, FlsOK, State, CursorOK,
        RestWhenNotBusy, DriverBusyOnlyForWaiter
<1>5. QED
  BY <1>3, <1>4

\* READ_ALL_FILL keeps the invariant for every block and at the end of the table.
LEMMA ReadAllOK == FeeInv /\ HandleReadAllFill => FeeInv'
<1> SUFFICES ASSUME FeeInv, HandleReadAllFill PROVE FeeInv'
  OBVIOUS
<1> DEFINE S == {x \in Block : dir.offset[x] # NoRecord}
           b == FirstFrom(job.nextBlock, S)
           op == RecordData(b)
<1>1. flsStatus # "BUSY" /\ status = "BUSY" /\ state # "IDLE"
  BY DriverFree DEF HandleReadAllFill, InFind, FeeInv, RestWhenNotBusy
<1>2. job \in Job /\ mem \in Buf /\ ram \in [Block -> [DataIdx -> Cell]]
  BY DEF FeeInv, TypeOK, FlsTypeOK, Buf
<1>3. UNCHANGED <<dir, find, mig, dataBuf, dirty>>
  BY DEF HandleReadAllFill
<1>4. ram' \in [Block -> [DataIdx -> Cell]]
  <2>1. job.cur \in Block
    BY <1>2 DEF Job
  <2>2. Fill(ram[job.cur], job.cur, mem["jobBuf"]) \in [DataIdx -> Cell]
    BY <1>2, <2>1, FillType, JobBufData
  <2>3. \/ ram' = ram
        \/ ram' = [ram EXCEPT ![job.cur] = Fill(ram[job.cur], job.cur, mem["jobBuf"])]
    BY DEF HandleReadAllFill
  <2>4. QED
    BY <1>2, <2>1, <2>2, <2>3
<1>5. /\ b \in Block \cup {BlockCount}
      /\ b # BlockCount => b \in S
  <2>1. job.nextBlock \in Nat
    BY <1>2 DEF Job
  <2>2. S \in SUBSET Block
    OBVIOUS
  <2>3. QED
    BY <2>1, <2>2, FirstFromType
<1>6. CASE find.err
  <2>1. FinalizeErr /\ UNCHANGED <<flsVars, flsWaitReturn, job>>
    BY <1>6 DEF HandleReadAllFill
  <2>2. FlsOK'
    BY <2>1, FlsUnchanged
  <2>3. QED
    BY <1>1, <1>3, <1>4, <2>1, <2>2
    DEF FinalizeErr, flsVars, FeeInv, TypeOK, FlsOK, State, CursorOK, RestWhenNotBusy,
        DriverBusyOnlyForWaiter
<1>7. CASE ~find.err /\ b = BlockCount
  <2>1. /\ state' = "READ_DONE"
        /\ job' = [job EXCEPT !.scanPhase = FALSE, !.nextBlock = BlockCount]
        /\ UNCHANGED <<flsVars, status, flsWaitReturn>>
    BY <1>7 DEF HandleReadAllFill
  <2>2. job' \in Job
    <3>1. BlockCount \in 0 .. BlockCount
      OBVIOUS
    <3>2. QED
      BY <1>2, <2>1, <3>1 DEF Job
  <2>3. FlsOK'
    BY <2>1, FlsUnchanged
  <2>4. QED
    BY <1>1, <1>3, <1>4, <2>1, <2>2, <2>3
    DEF flsVars, FeeInv, TypeOK, FlsOK, State, CursorOK, RestWhenNotBusy,
        DriverBusyOnlyForWaiter
<1>8. CASE ~find.err /\ b # BlockCount
  <2>1. /\ StartOrFail(op, "READALL_FILL")
        /\ job' = [job EXCEPT !.scanPhase = Accepts(op), !.cur = b, !.nextBlock = b + 1]
        /\ UNCHANGED mem
    BY <1>8 DEF HandleReadAllFill
  <2>2. b \in Block /\ dir.offset[b] # NoRecord
    BY <1>5, <1>8
  <2>3. GoodOp(op) /\ "READALL_FILL" \in State
    BY <2>2, RecordDataGood DEF State
  <2>4. job' \in Job
    <3> HIDE DEF op, b
    <3>1. Accepts(op) \in BOOLEAN
      BY DEF Accepts
    <3> DEFINE acc == Accepts(op)
    <3>2. acc \in BOOLEAN
      BY <3>1
    <3>3. job' = [job EXCEPT !.scanPhase = acc, !.cur = b, !.nextBlock = b + 1]
      BY <2>1
    <3>4. b + 1 \in 0 .. BlockCount
      BY <2>2 DEF Block
    <3> HIDE DEF acc
    <3>5. QED
      BY <1>2, <2>2, <3>2, <3>3, <3>4 DEF Job
  <2> HIDE DEF op, b
  <2>5. /\ FlsOK' /\ state' \in State /\ flsWaitReturn' \in State
        /\ status' \in {"BUSY", "NOT_OK"}
        /\ RestWhenNotBusy' /\ DriverBusyOnlyForWaiter'
    BY <1>1, <1>2, <2>1, <2>3, StartOrFailOK
  <2>6. QED
    BY <1>3, <1>4, <2>4, <2>5 DEF FeeInv, TypeOK, FlsOK, CursorOK
<1>9. QED
  BY <1>6, <1>7, <1>8

\* The record is packed while the driver is free, then handed over whole.
LEMMA AppendOK ==
  ASSUME FeeInv, flsStatus # "BUSY", state # "IDLE", NEW b \in Block,
         NEW data \in [DataIdx -> Cell], NEW ret \in State, Append(b, data, ret)
  PROVE  /\ FlsOK' /\ state' \in State /\ flsWaitReturn' \in State /\ dir' \in Dir
         /\ status' \in {"BUSY", "NOT_OK"}
         /\ RestWhenNotBusy' /\ DriverBusyOnlyForWaiter'
<1>1. dir \in Dir /\ DataCells[b] \in Nat
  BY DEF FeeInv, TypeOK
<1>2. ClusterStart[dir.index] + dir.headerEnd \in Nat
  BY <1>1 DEF Dir
<1>3. GoodOp(AppendOp(b))
  BY <1>2, RecordOpGood DEF AppendOp
<1>4. mem' \in Buf
  BY PackNewRecordOK DEF Append
<1>5. dir' \in Dir
  <2>1. dir.headerEnd \in Nat /\ dir.headerEnd + BlockTotal(DataCells[b]) \in Nat
    BY <1>1 DEF Dir, BlockTotal, HeaderSize
  <2>2. dir' = [dir EXCEPT !.offset[b] = dir.headerEnd,
                           !.headerEnd = dir.headerEnd + BlockTotal(DataCells[b])]
    BY DEF Append
  <2>3. QED
    BY <1>1, <2>1, <2>2 DEF Dir
<1>6. StartOrFail(AppendOp(b), ret)
  BY DEF Append
<1>7. QED
  BY <1>3, <1>4, <1>5, <1>6, StartOrFailOK

\* The states of single and bulk writes keep the invariant.
LEMMA WriteOK == FeeInv /\ (HandleWriteMainLoopProc \/ HandleWriteAllAppend) => FeeInv'
<1> SUFFICES ASSUME FeeInv, HandleWriteMainLoopProc \/ HandleWriteAllAppend PROVE FeeInv'
  OBVIOUS
<1>1. flsStatus # "BUSY" /\ status = "BUSY" /\ state # "IDLE"
  BY DriverFree DEF HandleWriteMainLoopProc, HandleWriteAllAppend, InFind, FeeInv,
                    RestWhenNotBusy
<1>2. job \in Job /\ dataBuf \in [DataIdx -> Cell] /\ ram \in [Block -> [DataIdx -> Cell]]
  BY DEF FeeInv, TypeOK
<1>3. UNCHANGED <<find, mig, callerVars>>
  BY DEF HandleWriteMainLoopProc, HandleWriteAllAppend
<1>4. CASE HandleWriteMainLoopProc
  <2>1. Append(job.blockNumber, dataBuf, "WRITE_DONE") /\ UNCHANGED job
    BY <1>4 DEF HandleWriteMainLoopProc
  <2>2. job.blockNumber \in Block /\ "WRITE_DONE" \in State
    BY <1>2 DEF Job, State
  <2>3. /\ FlsOK' /\ state' \in State /\ flsWaitReturn' \in State /\ dir' \in Dir
        /\ status' \in {"BUSY", "NOT_OK"}
        /\ RestWhenNotBusy' /\ DriverBusyOnlyForWaiter'
    BY <1>1, <1>2, <2>1, <2>2, AppendOK
  <2>4. QED
    BY <1>3, <2>1, <2>3 DEF callerVars, FeeInv, TypeOK, FlsOK, CursorOK
<1>5. CASE HandleWriteAllAppend
  <2> DEFINE b == FirstFrom(job.nextBlock, {x \in Block : dirty[x]})
  <2>1. b \in Block \cup {BlockCount}
    <3>1. job.nextBlock \in Nat
      BY <1>2 DEF Job
    <3>2. {x \in Block : dirty[x]} \in SUBSET Block
      OBVIOUS
    <3>3. QED
      BY <3>1, <3>2, FirstFromType
  <2>2. CASE find.err
    <3>1. FinalizeErr /\ UNCHANGED <<flsVars, flsWaitReturn, dir, job>>
      BY <1>5, <2>2 DEF HandleWriteAllAppend
    <3>2. FlsOK'
      BY <3>1, FlsUnchanged
    <3>3. QED
      BY <1>1, <1>3, <3>1, <3>2
      DEF FinalizeErr, flsVars, callerVars, FeeInv, TypeOK, FlsOK, State, CursorOK,
          RestWhenNotBusy, DriverBusyOnlyForWaiter
  <2>3. CASE ~find.err /\ b = BlockCount
    <3>1. /\ state' = "WRITE_DONE" /\ job' = [job EXCEPT !.nextBlock = BlockCount]
          /\ UNCHANGED <<flsVars, status, flsWaitReturn, dir>>
      BY <1>5, <2>3 DEF HandleWriteAllAppend
    <3>2. job' \in Job
      BY <1>2, <3>1 DEF Job
    <3>3. FlsOK'
      BY <3>1, FlsUnchanged
    <3>4. QED
      BY <1>1, <1>3, <3>1, <3>2, <3>3
      DEF flsVars, callerVars, FeeInv, TypeOK, FlsOK, State, CursorOK, RestWhenNotBusy,
          DriverBusyOnlyForWaiter
  <2>4. CASE ~find.err /\ b # BlockCount
    <3>1. /\ Append(b, ram[b], "WRITEALL_APPEND")
          /\ job' = [job EXCEPT !.nextBlock = b + 1, !.cur = b]
      BY <1>5, <2>4 DEF HandleWriteAllAppend
    <3>2. b \in Block /\ "WRITEALL_APPEND" \in State
      BY <2>1, <2>4 DEF State
    <3> HIDE DEF b
    <3>3. job' \in Job
      <4>1. b + 1 \in 0 .. BlockCount
        BY <3>2 DEF Block
      <4>2. QED
        BY <1>2, <3>1, <3>2, <4>1 DEF Job
    <3>4. /\ FlsOK' /\ state' \in State /\ flsWaitReturn' \in State /\ dir' \in Dir
          /\ status' \in {"BUSY", "NOT_OK"}
          /\ RestWhenNotBusy' /\ DriverBusyOnlyForWaiter'
      BY <1>1, <1>2, <3>1, <3>2, AppendOK
    <3>5. QED
      BY <1>3, <3>3, <3>4 DEF callerVars, FeeInv, TypeOK, FlsOK, CursorOK
  <2>5. QED
    BY <2>2, <2>3, <2>4
<1>6. QED
  BY <1>4, <1>5

----------------------------------------------------------------------------
(* The theorems                                                            *)

\* The first start of the program establishes the invariant.
LEMMA InitOK == Init => FeeInv
<1> SUFFICES ASSUME Init PROVE FeeInv
  OBVIOUS
<1>1. FlsOK
  BY NoOpType, CellTypes DEF Init, InitOn, Blank, FlsInit, FlsOK, FlsTypeOK, OpInBounds, BusyIffOp
<1>2. job \in Job /\ dir \in Dir /\ find \in Find /\ mig \in Mig
  BY ZeroIndex DEF Init, InitOn, NoJob, NoDir, NoFind, NoMig, Job, Dir, Find, Mig, Kind, State,
                   FindSub, Cluster
<1>3. Payload(Zero) \in [DataIdx -> Cell]
  BY PayloadType
<1>4. QED
  BY <1>1, <1>2, <1>3
  DEF Init, InitOn, Blank, FlsInit, FeeInv, TypeOK, FlsOK, State, RestWhenNotBusy, CursorOK, NoFind,
      DriverBusyOnlyForWaiter

\* Every step keeps the invariant.
LEMMA NextOK == FeeInv /\ [Next]_vars => FeeInv'
<1> SUFFICES ASSUME FeeInv, [Next]_vars PROVE FeeInv'
  OBVIOUS
<1>1. CASE Submit \/ MiniFee_Cancel
  BY <1>1, SubmitOK, CancelOK
<1>2. CASE MiniFee_MainFunction
  BY <1>2, EndsOK, FindStartOK, FindReadClusterHdrDoneOK, DecideOK, ActivationOK, ScanOK,
     MigrateReadOK, MigrateWriteOK, MigrateOK, ReadOK, ReadAllOK, WriteOK
  DEF MiniFee_MainFunction
<1>3. CASE Driver \/ DriverFails
  BY <1>3, MediumOK
<1>4. CASE Reset \/ PowerLoss
  BY <1>4, ResetOK
<1>5. CASE UNCHANGED vars
  BY <1>5 DEF vars, flsVars, feeVars, callerVars, FeeInv, TypeOK, FlsOK, FlsTypeOK, OpInBounds,
              BusyIffOp, CursorOK, RestWhenNotBusy, DriverBusyOnlyForWaiter, InFind
<1>6. QED
  BY <1>1, <1>2, <1>3, <1>4, <1>5 DEF Next

\* The conjunction of the invariants below holds in every reachable state.
THEOREM Invariant == Spec => []FeeInv
  BY InitOK, NextOK, PTL DEF Spec

\* No access of MiniFee to the block table, the cluster table or the directory
\* leaves its array, and every variable keeps its type, whatever the driver,
\* the medium and the caller do.
THEOREM TypeCorrect == Spec => []TypeOK
<1>1. FeeInv => TypeOK
  BY DEF FeeInv
<1>2. QED
  BY <1>1, Invariant, PTL

\* A job the driver holds stays on the medium and within the buffer it points at.
THEOREM DriverInBounds == Spec => []OpInBounds
<1>1. FeeInv => OpInBounds
  BY DEF FeeInv, FlsOK
<1>2. QED
  BY <1>1, Invariant, PTL

\* The driver is BUSY only while MiniFee waits for it or after a Cancel, and
\* then the next job comes to a halt before it touches a buffer.
THEOREM DriverBusyForWaiter == Spec => []DriverBusyOnlyForWaiter
<1>1. FeeInv => DriverBusyOnlyForWaiter
  BY DEF FeeInv
<1>2. QED
  BY <1>1, Invariant, PTL

\* The step behind WriteSourceStable: with a write registered, the only actions
\* that change memory are the ones that end the operation.
LEMMA SourceStableStep ==
  ASSUME FeeInv, Next, flsOp.kind = "WRITE", flsOp' = flsOp
  PROVE  mem' = mem
<1>1. flsStatus = "BUSY"
  BY DEF FeeInv, FlsOK, BusyIffOp
<1>2. CASE Submit
  BY <1>2 DEF Submit, CallRead, CallWrite, CallWriteAll, CallReadAll, MiniFee_Read,
              MiniFee_Write, MiniFee_WriteAll, MiniFee_ReadAll, StartJob, flsVars
<1>3. CASE MiniFee_Cancel
  BY <1>3 DEF MiniFee_Cancel, flsVars
<1>4. CASE MiniFee_MainFunction
  <2>1. state \in {"ERROR", "FLS_WAIT"} \/ InFind("START") \/ state = "IDLE"
    BY <1>1, DriverFree
  <2>2. CASE state \in {"ERROR", "FLS_WAIT", "IDLE"}
    BY <1>4, <2>2
    DEF MiniFee_MainFunction, HandleFlsWait, JobDone, JobError, FindStart,
        FindReadClusterHdrDone, DecideBlank, DecideReuse, DecideScan, FindFreshErase,
        FindFreshActivate, FindWriteHdrWrite, FindFreshActivateDone, FindMetricsRead,
        FindMetricsEval, FindMetricsDone, FindMigratePrepare, FindMigrateEraseDst,
        FindMigrateRead, FindMigrateWrite, FindMigrateActivate, FindMigrateSwitch, FindDone,
        HandleReadByDir, HandleReadVerifyCopy, HandleReadAllFill, HandleWriteMainLoopProc,
        HandleWriteAllAppend, InFind, flsVars
  <2>3. CASE InFind("START")
    <3>1. FindStart
      BY <1>4, <2>3
      DEF MiniFee_MainFunction, HandleFlsWait, JobDone, JobError,
          FindReadClusterHdrDone, DecideBlank, DecideReuse, DecideScan, FindFreshErase,
          FindFreshActivate, FindWriteHdrWrite, FindFreshActivateDone, FindMetricsRead,
          FindMetricsEval, FindMetricsDone, FindMigratePrepare, FindMigrateEraseDst,
          FindMigrateRead, FindMigrateWrite, FindMigrateActivate, FindMigrateSwitch, FindDone,
          HandleReadByDir, HandleReadVerifyCopy, HandleReadAllFill, HandleWriteMainLoopProc,
          HandleWriteAllAppend, InFind
    <3>2. QED
      BY <3>1 DEF FindStart, FindGoto, flsVars
  <2>4. QED
    BY <2>1, <2>2, <2>3
<1>5. CASE Driver \/ DriverFails \/ Reset \/ PowerLoss
  <2>1. flsOp' = NoOp
    BY <1>5 DEF Driver, DriverFails, Reset, PowerLoss, Fls_MainFunction, Fls_JobFails,
                Restart, MiniFee_Init, Fls_Reinit
  <2>2. QED
    BY <2>1, NoOpType
<1>6. QED
  BY <1>2, <1>3, <1>4, <1>5 DEF Next

\* Nobody changes the cells a registered write has yet to read.
THEOREM WriteSourceIsStable == Spec => WriteSourceStable
<1>1. FeeInv /\ [Next]_vars
        => [flsOp.kind = "WRITE" /\ flsOp' = flsOp
              => \A i \in BufIdx : i \in flsOp.at .. flsOp.at + flsOp.len - 1
                   => mem'[flsOp.buf][i] = mem[flsOp.buf][i]]_vars
  BY SourceStableStep DEF vars, flsVars
<1>2. QED
  BY <1>1, Invariant, PTL DEF Spec, WriteSourceStable
=============================================================================
