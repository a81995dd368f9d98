------------------------------- MODULE MiniFee -------------------------------
(***************************************************************************)
(* The flash EEPROM emulation (MiniFee.c): blocks kept as a log of records *)
(* in the active cluster, a directory in RAM that says where the newest    *)
(* record of each block is, and a migration to the next cluster when the   *)
(* log is full or damaged.  One job at a time; every operation returns at  *)
(* once, and MiniFee_MainFunction then runs one state of the job per call. *)
(*                                                                         *)
(* MiniFee_Context is kept in records: job (what was asked), dir (the      *)
(* directory and the active cluster), find (ProcessFindAddr), mig (the     *)
(* migration and the write of a cluster header).  The caller's memory is   *)
(* dataBuf (what c->buf points at), ram (what the callbacks of ReadAll and *)
(* WriteAll read and write) and dirty (the blocks for which the callback   *)
(* of WriteAll returns a pointer).                                         *)
(***************************************************************************)
EXTENDS Fls

CONSTANT
  WordMod       \* 2^32: the free space of a cluster is an unsigned difference

ASSUME FeeAssumption ==
  /\ WordMod \in Nat \ {0}
  /\ BufLen = HeaderSize + MaxDataCells
  /\ {"clusterHdrBuf", "scanHdrBuf", "jobBuf", "writeHdrBuf"} \subseteq Buffer

VARIABLES
  state, status, flsWaitReturn,
  job, dir, find, mig,
  dataBuf, ram, dirty

callerVars == <<dataBuf, ram, dirty>>
feeVars == <<state, status, flsWaitReturn, job, dir, find, mig>>
vars == <<flsVars, feeVars, callerVars>>

State == {"IDLE", "FLS_WAIT", "READ_BY_DIR", "READ_VERIFY_COPY", "READ_DONE",
          "READALL_FILL", "WRITE_MAIN_LOOP_PROC", "WRITE_DONE",
          "WRITEALL_APPEND", "FIND_PROC", "ERROR"}

FindSub == {"START", "READ_CLUSTER_HDR_DONE", "DECIDE", "FRESH_ERASE",
            "FRESH_ACTIVATE", "FRESH_ACTIVATE_DONE", "METRICS_READ",
            "METRICS_EVAL", "METRICS_DONE", "MIGRATE_PREPARE",
            "MIGRATE_ERASE_DST", "MIGRATE_READ", "MIGRATE_WRITE",
            "MIGRATE_ACTIVATE", "MIGRATE_SWITCH", "WRITE_HDR_WRITE", "DONE"}

Kind == {"NONE", "READ", "READALL", "WRITE", "WRITEALL"}

Job  == [kind : Kind, blockNumber : Block, counted : SUBSET Block,
         nextBlock : 0 .. BlockCount, scanPhase : BOOLEAN, cur : Block]
Dir  == [valid : BOOLEAN, index : Cluster, gen : Nat \cup {NoGen},
         headerEnd : Nat, offset : [Block -> Nat \cup {NoRecord}]]
Find == [sub : FindSub, ret : State, type : {"READ", "WRITE"},
         clusterIdx : 0 .. ClusterCount, bestGen : Nat, bestGenIdx : Cluster,
         hasData : BOOLEAN, err : BOOLEAN, scanOff : Nat, scanCorrupt : BOOLEAN]
Mig  == [dst : Cluster, hdrEnd : Nat, block : 0 .. BlockCount,
         hdrGen : Nat, hdrRet : {"START", "FRESH_ACTIVATE_DONE", "MIGRATE_SWITCH"}]

NoJob  == [kind |-> "NONE", blockNumber |-> 0, counted |-> {}, nextBlock |-> 0,
           scanPhase |-> FALSE, cur |-> 0]
NoDir  == [valid |-> FALSE, index |-> 0, gen |-> 0, headerEnd |-> 0,
           offset |-> [b \in Block |-> 0]]
NoFind == [sub |-> "START", ret |-> "IDLE", type |-> "READ", clusterIdx |-> 0,
           bestGen |-> 0, bestGenIdx |-> 0, hasData |-> FALSE, err |-> FALSE,
           scanOff |-> 0, scanCorrupt |-> FALSE]
NoMig  == [dst |-> 0, hdrEnd |-> 0, block |-> 0, hdrGen |-> 0, hdrRet |-> "START"]

\* Every variable holds a value of its C type; dir and the cursors stay within
\* the block and cluster tables, so that no access to them leaves the arrays.
TypeOK ==
  /\ FlsTypeOK
  /\ state \in State
  /\ status \in {"IDLE", "BUSY", "OK", "NOT_OK"}
  /\ flsWaitReturn \in State
  /\ job \in Job
  /\ dir \in Dir
  /\ find \in Find
  /\ mig \in Mig
  /\ dataBuf \in [DataIdx -> Cell]
  /\ ram \in [Block -> [DataIdx -> Cell]]
  /\ dirty \in [Block -> BOOLEAN]

----------------------------------------------------------------------------
(* Helpers                                                                 *)

EmptyDir == [b \in Block |-> NoRecord]

\* The first block of S not before n, as the loops over the blocks find it.
FirstFrom(n, S) ==
  LET IsFirst(b) == b >= n /\ \A x \in S : x >= n => b <= x
  IN  IF \E b \in S : IsFirst(b) THEN CHOOSE b \in S : IsFirst(b) ELSE BlockCount

Free == (ClusterLen[dir.index] - dir.headerEnd) % WordMod

\* The room all the records of a bulk write take: sum over the blocks of S.
TotalOf(S) ==
  LET sum[n \in 0 .. BlockCount] ==
        IF n = 0 THEN 0
        ELSE sum[n - 1] + (IF n - 1 \in S THEN BlockTotal(DataCells[n - 1]) ELSE 0)
  IN  sum[BlockCount]

\* MiniFee_NeededSpace; bulkWriteNeeded is kept as the set of blocks it counts.
Needed == IF job.kind = "WRITEALL" THEN TotalOf(job.counted)
          ELSE BlockTotal(DataCells[job.blockNumber])

\* GetTargetData: the blocks this write job overwrites, and their new data.
Target(b) == IF job.kind = "WRITEALL" THEN dirty[b] ELSE b = job.blockNumber
TargetData(b) == IF job.kind = "WRITEALL" THEN ram[b] ELSE dataBuf

\* Mutant: the data is that of the record before.
PackNewRecord_HeaderOnly(b, data) ==
  mem' = [mem EXCEPT !["jobBuf"][0] = PackBlockHdr(b)]

\* The cells of the buffer that op points into. jobBuf is a union: at its start a
\* read meets blockDataBuf, which holds no header; all else there is writeBuf.
BufEnd(op) == IF op.buf # "jobBuf" THEN HeaderSize
              ELSE IF op.kind = "READ" /\ op.at = 0 THEN MaxDataCells
              ELSE BufLen

\* PackNewRecord: header and data of block b, assembled in jobBuf.writeBuf.
PackNewRecord(b, data) ==
  mem' = [mem EXCEPT !["jobBuf"] =
            [i \in BufIdx |-> IF i = 0 THEN PackBlockHdr(b)
                              ELSE IF i <= DataCells[b] THEN data[i - 1] ELSE @[i]]]

\* MiniFee_StartFlsRead / Write / Erase: the outcome for the state machine.
StartFls(op, retState) ==
  /\ Request(op)
  /\ state' = IF Accepts(op) THEN "FLS_WAIT" ELSE "ERROR"
  /\ flsWaitReturn' = IF Accepts(op) THEN retState ELSE flsWaitReturn
  /\ UNCHANGED flash

\* A sub-state that starts a flash job: on to sub, or to DONE if it is refused.
FindFls(op, sub) ==
  /\ StartFls(op, "FIND_PROC")
  /\ find' = IF Accepts(op) THEN [find EXCEPT !.sub = sub]
             ELSE [find EXCEPT !.sub = "DONE", !.err = TRUE]

\* Mutant: the status is forgotten.
FinalizeErr_KeepsStatus == UNCHANGED status /\ state' = "IDLE"

FinalizeOk  == status' = "OK" /\ state' = "IDLE"
FinalizeErr == status' = "NOT_OK" /\ state' = "IDLE"

InFind(sub) == state = "FIND_PROC" /\ find.sub = sub

\* A sub-state that calls nothing: it only moves on.
FindGoto(sub) == /\ find' = [find EXCEPT !.sub = sub]
                 /\ UNCHANGED <<flsVars, state, status, flsWaitReturn>>

----------------------------------------------------------------------------
(* API                                                                     *)

\* MiniFee_ResetJob, MiniFee_ResetContext
ResetJob(new) == job' = new /\ mig' = NoMig

StartFindAddr(ret, type) ==
  /\ find' = [NoFind EXCEPT !.ret = ret, !.type = type]
  /\ state' = "FIND_PROC"

Directly(st) == find' = NoFind /\ state' = st

\* MiniFee_Read, MiniFee_Write, MiniFee_ReadAll and MiniFee_WriteAll refuse a
\* request while BUSY; then nothing changes.
StartJob(new) ==
  /\ status # "BUSY"
  /\ ResetJob(new)
  /\ status' = "BUSY"
  /\ flsWaitReturn' = "IDLE"
  /\ UNCHANGED <<flsVars, dir>>

\* The size of an empty block is 0: then Read and Write return E_OK and that is all.
HasData(b) == DataCells[b] # 0

MiniFee_Read(b) ==
  /\ HasData(b)
  /\ StartJob([NoJob EXCEPT !.kind = "READ", !.blockNumber = b])
  /\ IF dir.valid THEN Directly("READ_BY_DIR")
     ELSE StartFindAddr("READ_BY_DIR", "READ")

MiniFee_ReadAll ==
  /\ StartJob([NoJob EXCEPT !.kind = "READALL"])
  /\ IF dir.valid THEN Directly("READALL_FILL")
     ELSE StartFindAddr("READALL_FILL", "READ")

\* Mutants: a generation that exists only in RAM is enough; the room for the
\* header is forgotten.
Appendable_NoCluster(needed) == dir.valid /\ Free >= needed
Appendable_NoHeader(needed) == dir.valid /\ dir.gen # NoGen /\ Free + HeaderSize >= needed

\* A write may append at once only if the active cluster exists in flash and
\* has the room; else FindAddr selects, activates or migrates.
Appendable(needed) == dir.valid /\ dir.gen # NoGen /\ Free >= needed

MiniFee_Write(b) ==
  /\ HasData(b)
  /\ StartJob([NoJob EXCEPT !.kind = "WRITE", !.blockNumber = b])
  /\ IF Appendable(BlockTotal(DataCells[b])) THEN Directly("WRITE_MAIN_LOOP_PROC")
     ELSE StartFindAddr("WRITE_MAIN_LOOP_PROC", "WRITE")

\* MiniFee_WriteAll when the callback, by the caller's new dirty flags, returns
\* a pointer for the blocks of S (none: E_OK at once and no job).
MiniFee_WriteAll(S) ==
  /\ S # {}
  /\ StartJob([NoJob EXCEPT !.kind = "WRITEALL", !.counted = S])
  /\ IF Appendable(TotalOf(S)) THEN Directly("WRITEALL_APPEND")
     ELSE StartFindAddr("WRITEALL_APPEND", "WRITE")

\* Mutant: the directory stays valid.
MiniFee_Cancel_KeepsDirectory ==
  /\ status = "BUSY"
  /\ FinalizeErr
  /\ UNCHANGED <<flsVars, flsWaitReturn, job, dir, find, mig, callerVars>>

MiniFee_Cancel ==
  /\ status = "BUSY"
  /\ status' = "NOT_OK"
  /\ state' = "IDLE"
  /\ dir' = [dir EXCEPT !.valid = FALSE]
  /\ UNCHANGED <<flsVars, flsWaitReturn, job, find, mig, callerVars>>

\* MiniFee_ResetContext: every static variable anew, the buffers zeroed.
ResetContext ==
  /\ mem' = [x \in Buffer |-> [i \in BufIdx |-> Zero]]
  /\ state' = "IDLE" /\ status' = "IDLE" /\ flsWaitReturn' = "IDLE"
  /\ job' = NoJob /\ dir' = NoDir /\ find' = NoFind /\ mig' = NoMig

\* MiniFee_Init on the medium as it finds it: the driver drops its job (Fls_Init).
\* Like a request it leaves the caller's memory to the caller.
MiniFee_Init(image) == flash' = image /\ Fls_Reinit /\ ResetContext

\* A start of the program: the caller's memory is zero too.
Restart(image) ==
  /\ MiniFee_Init(image)
  /\ dataBuf' = [i \in DataIdx |-> Zero]
  /\ ram' = [b \in Block |-> [i \in DataIdx |-> Zero]]
  /\ dirty' = [b \in Block |-> FALSE]

\* A reset keeps the medium; a loss of power may leave the job in flight half done.
Reset == Restart(flash)
PowerLoss == flsStatus = "BUSY" /\ \E image \in Interrupted : Restart(image)

----------------------------------------------------------------------------
(* MiniFee_MainFunction: FLS_WAIT, ERROR and the ends of the jobs           *)

\* Mutants: BUSY is taken for a failure; PENDING is taken for a success.
HandleFlsWait_BusyFails ==
  /\ state = "FLS_WAIT"
  /\ state' = IF flsStatus = "IDLE" /\ flsResult = "OK" THEN flsWaitReturn ELSE "ERROR"
  /\ UNCHANGED <<flsVars, status, flsWaitReturn, job, dir, find, mig, callerVars>>

HandleFlsWait_Early ==
  /\ state = "FLS_WAIT"
  /\ state' = IF flsResult # "FAILED" THEN flsWaitReturn ELSE "ERROR"
  /\ UNCHANGED <<flsVars, status, flsWaitReturn, job, dir, find, mig, callerVars>>

HandleFlsWait ==
  /\ state = "FLS_WAIT"
  /\ flsStatus # "BUSY"
  /\ state' = IF flsStatus = "IDLE" /\ flsResult = "OK" THEN flsWaitReturn ELSE "ERROR"
  /\ UNCHANGED <<flsVars, status, flsWaitReturn, job, dir, find, mig, callerVars>>

JobDone ==
  /\ state \in {"READ_DONE", "WRITE_DONE"}
  /\ FinalizeOk
  /\ UNCHANGED <<flsVars, flsWaitReturn, job, dir, find, mig, callerVars>>

JobError ==
  /\ state = "ERROR"
  /\ FinalizeErr
  /\ UNCHANGED <<flsVars, flsWaitReturn, job, dir, find, mig, callerVars>>

----------------------------------------------------------------------------
(* ProcessFindAddr: which cluster is active?                               *)

FindStart ==
  /\ InFind("START")
  /\ IF find.clusterIdx >= ClusterCount THEN FindGoto("DECIDE")
     ELSE /\ FindFls(ReadOp(ClusterStart[find.clusterIdx], "clusterHdrBuf", 0, HeaderSize),
                     "READ_CLUSTER_HDR_DONE")
          /\ UNCHANGED <<mem, status>>
  /\ UNCHANGED <<job, dir, mig, callerVars>>

FindReadClusterHdrDone ==
  /\ InFind("READ_CLUSTER_HDR_DONE")
  /\ LET gen == ClusterHdrGen(mem["clusterHdrBuf"][0])
         newest == gen # NoGen /\ gen > find.bestGen
     IN  find' = [find EXCEPT !.hasData = @ \/ gen # NoGen,
                              !.bestGen = IF newest THEN gen ELSE @,
                              !.bestGenIdx = IF newest THEN find.clusterIdx ELSE @,
                              !.clusterIdx = @ + 1,
                              !.sub = "START"]
  /\ UNCHANGED <<flsVars, state, status, flsWaitReturn, job, dir, mig, callerVars>>

\* No valid cluster: a write activates cluster 0, a read makes do with an
\* empty directory on a cluster that has no header yet.
DecideBlank ==
  /\ InFind("DECIDE")
  /\ ~find.hasData
  /\ IF find.type = "WRITE"
     THEN /\ dir' = [dir EXCEPT !.gen = NoGen]
          /\ FindGoto("FRESH_ERASE")
     ELSE /\ dir' = [valid |-> TRUE, index |-> 0, gen |-> NoGen,
                     headerEnd |-> HeaderSize, offset |-> EmptyDir]
          /\ FindGoto("DONE")
  /\ UNCHANGED <<job, mig, callerVars>>

NoRoom == find.type = "WRITE" /\ Free < Needed

\* The directory already describes the cluster chosen: no scan.
DecideReuse ==
  /\ InFind("DECIDE")
  /\ find.hasData
  /\ dir.valid /\ find.bestGenIdx = dir.index /\ find.bestGen = dir.gen
  /\ FindGoto(IF NoRoom THEN "MIGRATE_PREPARE" ELSE "DONE")
  /\ UNCHANGED <<job, dir, mig, callerVars>>

DecideScan ==
  /\ InFind("DECIDE")
  /\ find.hasData
  /\ ~(dir.valid /\ find.bestGenIdx = dir.index /\ find.bestGen = dir.gen)
  /\ dir' = [valid |-> FALSE, index |-> find.bestGenIdx, gen |-> find.bestGen,
             headerEnd |-> HeaderSize, offset |-> EmptyDir]
  /\ find' = [find EXCEPT !.scanOff = HeaderSize, !.scanCorrupt = FALSE,
                          !.sub = "METRICS_READ"]
  /\ UNCHANGED <<flsVars, state, status, flsWaitReturn, job, mig, callerVars>>

----------------------------------------------------------------------------
(* ProcessFindAddr: first activation, cluster headers                      *)

\* Mutants: the generation is not raised; it is counted per job.
StartWriteClusterHdr_SameGen(k, sub) ==
  LET gen == IF dir.gen = NoGen THEN 1 ELSE dir.gen
  IN  /\ mig' = [mig EXCEPT !.hdrGen = gen, !.hdrRet = sub]
      /\ mem' = [mem EXCEPT !["writeHdrBuf"][0] = PackClusterHdr(gen)]
      /\ FindFls(WriteOp(ClusterStart[k], "writeHdrBuf", 0, HeaderSize), "WRITE_HDR_WRITE")

StartWriteClusterHdr_PerJob(k, sub) ==
  LET gen == mig.hdrGen + 1
  IN  /\ mig' = [mig EXCEPT !.hdrGen = gen, !.hdrRet = sub]
      /\ mem' = [mem EXCEPT !["writeHdrBuf"][0] = PackClusterHdr(gen)]
      /\ FindFls(WriteOp(ClusterStart[k], "writeHdrBuf", 0, HeaderSize), "WRITE_HDR_WRITE")

\* StartWriteClusterHdr: a blank medium gets generation 1.
StartWriteClusterHdr(k, sub) ==
  LET gen == (IF dir.gen = NoGen THEN 0 ELSE dir.gen) + 1
  IN  /\ mig' = [mig EXCEPT !.hdrGen = gen, !.hdrRet = sub]
      /\ mem' = [mem EXCEPT !["writeHdrBuf"][0] = PackClusterHdr(gen)]
      /\ FindFls(WriteOp(ClusterStart[k], "writeHdrBuf", 0, HeaderSize), "WRITE_HDR_WRITE")

FindFreshErase ==
  /\ InFind("FRESH_ERASE")
  /\ FindFls(EraseOp(ClusterStart[0], ClusterLen[0]), "FRESH_ACTIVATE")
  /\ UNCHANGED <<mem, status, job, dir, mig, callerVars>>

FindFreshActivate ==
  /\ InFind("FRESH_ACTIVATE")
  /\ StartWriteClusterHdr(0, "FRESH_ACTIVATE_DONE")
  /\ UNCHANGED <<status, job, dir, callerVars>>

FindWriteHdrWrite ==
  /\ InFind("WRITE_HDR_WRITE")
  /\ FindGoto(mig.hdrRet)
  /\ UNCHANGED <<job, dir, mig, callerVars>>

FindFreshActivateDone ==
  /\ InFind("FRESH_ACTIVATE_DONE")
  /\ dir' = [valid |-> TRUE, index |-> 0, gen |-> mig.hdrGen,
             headerEnd |-> HeaderSize, offset |-> EmptyDir]
  /\ find' = [find EXCEPT !.sub = "DONE",
                          !.err = @ \/ (ClusterLen[0] - HeaderSize) % WordMod < Needed]
  /\ UNCHANGED <<flsVars, state, status, flsWaitReturn, job, mig, callerVars>>

----------------------------------------------------------------------------
(* ProcessFindAddr: one pass over the records of the active cluster        *)

FindMetricsRead ==
  /\ InFind("METRICS_READ")
  /\ IF find.scanOff + HeaderSize > ClusterLen[dir.index] THEN FindGoto("METRICS_DONE")
     ELSE /\ FindFls(ReadOp(ClusterStart[dir.index] + find.scanOff, "scanHdrBuf", 0, HeaderSize),
                     "METRICS_EVAL")
          /\ UNCHANGED <<mem, status>>
  /\ UNCHANGED <<job, dir, mig, callerVars>>

\* A record whose data would leave the cluster is damage.
Overruns(hdr) ==
  hdr.len > (ClusterLen[dir.index] - find.scanOff - HeaderSize) % WordMod

FindMetricsEval ==
  /\ InFind("METRICS_EVAL")
  /\ LET hdr == mem["scanHdrBuf"][0]
     IN  IF hdr = Erased
         THEN /\ find' = [find EXCEPT !.sub = "METRICS_DONE"]
              /\ UNCHANGED dir
         ELSE IF ~IsBlockHeaderValid(hdr) \/ Overruns(hdr)
         THEN /\ find' = [find EXCEPT !.sub = "METRICS_DONE", !.scanCorrupt = TRUE]
              /\ UNCHANGED dir
         ELSE /\ dir' = [dir EXCEPT !.offset[hdr.block] = find.scanOff,
                                    !.headerEnd = find.scanOff + BlockTotal(hdr.len)]
              /\ find' = [find EXCEPT !.scanOff = @ + BlockTotal(hdr.len),
                                      !.sub = "METRICS_READ"]
  /\ UNCHANGED <<flsVars, state, status, flsWaitReturn, job, mig, callerVars>>

\* Mutant: a log that ends in damage is appended to.
FindMetricsDone_TrustsDamage ==
  /\ InFind("METRICS_DONE")
  /\ IF find.type = "WRITE" /\ NoRoom
     THEN FindGoto("MIGRATE_PREPARE") /\ UNCHANGED dir
     ELSE FindGoto("DONE") /\ dir' = [dir EXCEPT !.valid = TRUE]
  /\ UNCHANGED <<job, mig, callerVars>>

FindMetricsDone ==
  /\ InFind("METRICS_DONE")
  /\ IF find.type = "WRITE" /\ (find.scanCorrupt \/ NoRoom)
     THEN FindGoto("MIGRATE_PREPARE") /\ UNCHANGED dir
     ELSE FindGoto("DONE") /\ dir' = [dir EXCEPT !.valid = ~find.scanCorrupt]
  /\ UNCHANGED <<job, mig, callerVars>>

----------------------------------------------------------------------------
(* ProcessFindAddr: migration to the next cluster                          *)

\* Mutants: the index runs out of the table; the active cluster is the destination.
FindMigratePrepare_NoWrap ==
  /\ InFind("MIGRATE_PREPARE")
  /\ mig' = [mig EXCEPT !.dst = dir.index + 1, !.hdrEnd = HeaderSize, !.block = 0]
  /\ FindGoto("MIGRATE_ERASE_DST")
  /\ UNCHANGED <<job, dir, callerVars>>

FindMigratePrepare_InPlace ==
  /\ InFind("MIGRATE_PREPARE")
  /\ mig' = [mig EXCEPT !.dst = dir.index, !.hdrEnd = HeaderSize, !.block = 0]
  /\ FindGoto("MIGRATE_ERASE_DST")
  /\ UNCHANGED <<job, dir, callerVars>>

FindMigratePrepare ==
  /\ InFind("MIGRATE_PREPARE")
  /\ mig' = [mig EXCEPT !.dst = (dir.index + 1) % ClusterCount,
                        !.hdrEnd = HeaderSize, !.block = 0]
  /\ FindGoto("MIGRATE_ERASE_DST")
  /\ UNCHANGED <<job, dir, callerVars>>

\* Mutant: the destination is taken to be erased.
FindMigrateEraseDst_Skipped ==
  /\ InFind("MIGRATE_ERASE_DST")
  /\ FindGoto("MIGRATE_READ")
  /\ UNCHANGED <<job, dir, mig, callerVars>>

FindMigrateEraseDst ==
  /\ InFind("MIGRATE_ERASE_DST")
  /\ FindFls(EraseOp(ClusterStart[mig.dst], ClusterLen[mig.dst]), "MIGRATE_READ")
  /\ UNCHANGED <<mem, status, job, dir, mig, callerVars>>

\* The next block with a record, old or new.  New data goes to the write
\* buffer at once, an old record is read from the cluster that is still active.
FindMigrateRead ==
  LET b == FirstFrom(mig.block, {x \in Block : Target(x) \/ dir.offset[x] # NoRecord})
  IN
  /\ InFind("MIGRATE_READ")
  /\ IF b = BlockCount
     THEN /\ FindGoto("MIGRATE_ACTIVATE")
          /\ mig' = [mig EXCEPT !.block = BlockCount]
          /\ UNCHANGED job
     ELSE /\ mig' = [mig EXCEPT !.block = b + 1]
          /\ job' = [job EXCEPT !.cur = b]
          /\ UNCHANGED status
          /\ IF Target(b)
             THEN /\ PackNewRecord(b, TargetData(b))
                  /\ find' = [find EXCEPT !.sub = "MIGRATE_WRITE"]
                  /\ UNCHANGED <<flash, flsOp, flsStatus, flsResult, state, flsWaitReturn>>
             ELSE /\ mem' = [mem EXCEPT !["jobBuf"][0] = PackBlockHdr(b)]
                  /\ FindFls(ReadOp(ClusterStart[dir.index] + dir.offset[b] + HeaderSize,
                                    "jobBuf", HeaderSize, DataCells[b]), "MIGRATE_WRITE")
  /\ UNCHANGED <<dir, callerVars>>

\* Mutant: the directory is left as it was.
FindMigrateWrite_KeepsDirectory ==
  LET total == BlockTotal(DataCells[job.cur])
      op == WriteOp(ClusterStart[mig.dst] + mig.hdrEnd, "jobBuf", 0, total)
  IN
  /\ InFind("MIGRATE_WRITE")
  /\ FindFls(op, "MIGRATE_READ")
  /\ mig' = IF Accepts(op) THEN [mig EXCEPT !.hdrEnd = @ + total] ELSE mig
  /\ UNCHANGED <<mem, status, job, dir, callerVars>>

\* The record goes to the destination and the directory follows it at once,
\* although the destination is not active yet.
FindMigrateWrite ==
  LET total == BlockTotal(DataCells[job.cur])
      op == WriteOp(ClusterStart[mig.dst] + mig.hdrEnd, "jobBuf", 0, total)
  IN
  /\ InFind("MIGRATE_WRITE")
  /\ IF mig.hdrEnd + total > ClusterLen[mig.dst]
     THEN /\ find' = [find EXCEPT !.sub = "DONE", !.err = TRUE]
          /\ UNCHANGED <<flsVars, state, flsWaitReturn, dir, mig>>
     ELSE /\ FindFls(op, "MIGRATE_READ")
          /\ dir' = IF Accepts(op) THEN [dir EXCEPT !.offset[job.cur] = mig.hdrEnd] ELSE dir
          /\ mig' = IF Accepts(op) THEN [mig EXCEPT !.hdrEnd = @ + total] ELSE mig
          /\ UNCHANGED mem
  /\ UNCHANGED <<status, job, callerVars>>

FindMigrateActivate ==
  /\ InFind("MIGRATE_ACTIVATE")
  /\ StartWriteClusterHdr(mig.dst, "MIGRATE_SWITCH")
  /\ UNCHANGED <<status, job, dir, callerVars>>

\* The records of this job were written by the migration: the job is done.
FindMigrateSwitch ==
  /\ InFind("MIGRATE_SWITCH")
  /\ dir' = [dir EXCEPT !.valid = TRUE, !.index = mig.dst, !.gen = mig.hdrGen,
                        !.headerEnd = mig.hdrEnd]
  /\ find' = [find EXCEPT !.sub = "DONE", !.ret = "WRITE_DONE"]
  /\ UNCHANGED <<flsVars, state, status, flsWaitReturn, job, mig, callerVars>>

FindDone ==
  /\ InFind("DONE")
  /\ state' = find.ret
  /\ UNCHANGED <<flsVars, status, flsWaitReturn, job, dir, find, mig, callerVars>>

----------------------------------------------------------------------------
(* Reading                                                                 *)

\* Mutant: the record is read whole, with its header, to where its data goes:
\* it would fit writeBuf, and is one header too long for blockDataBuf.
RecordData_Whole(b) ==
  ReadOp(ClusterStart[dir.index] + dir.offset[b], "jobBuf", 0, BlockTotal(DataCells[b]))

RecordData(b) ==
  ReadOp(ClusterStart[dir.index] + dir.offset[b] + HeaderSize, "jobBuf", 0, DataCells[b])

\* A start that is refused ends the job at once: FinalizeErr overrides ERROR.
StartOrFail(op, retState) ==
  /\ Request(op)
  /\ state' = IF Accepts(op) THEN "FLS_WAIT" ELSE "IDLE"
  /\ status' = IF Accepts(op) THEN status ELSE "NOT_OK"
  /\ flsWaitReturn' = IF Accepts(op) THEN retState ELSE flsWaitReturn
  /\ UNCHANGED flash

Fill(buf, b, data) ==
  [i \in DataIdx |-> IF i < DataCells[b] THEN data[i] ELSE buf[i]]

HandleReadByDir ==
  LET b == job.blockNumber
  IN
  /\ state = "READ_BY_DIR"
  /\ IF find.err
     THEN FinalizeErr /\ UNCHANGED <<flsVars, flsWaitReturn, dataBuf>>
     ELSE IF dir.offset[b] = NoRecord
     THEN /\ dataBuf' = Fill(dataBuf, b, Zeros(b))
          /\ state' = "READ_DONE"
          /\ UNCHANGED <<flsVars, status, flsWaitReturn>>
     ELSE /\ StartOrFail(RecordData(b), "READ_VERIFY_COPY")
          /\ UNCHANGED <<mem, dataBuf>>
  /\ UNCHANGED <<job, dir, find, mig, ram, dirty>>

HandleReadVerifyCopy ==
  /\ state = "READ_VERIFY_COPY"
  /\ dataBuf' = Fill(dataBuf, job.blockNumber, mem["jobBuf"])
  /\ state' = "READ_DONE"
  /\ UNCHANGED <<flsVars, status, flsWaitReturn, job, dir, find, mig, ram, dirty>>

\* The record read last is handed to the callback, then the next block that
\* has a record is read.
HandleReadAllFill ==
  LET b == FirstFrom(job.nextBlock, {x \in Block : dir.offset[x] # NoRecord})
  IN
  /\ state = "READALL_FILL"
  /\ ram' = IF job.scanPhase /\ ~find.err
            THEN [ram EXCEPT ![job.cur] = Fill(@, job.cur, mem["jobBuf"])] ELSE ram
  /\ IF find.err
     THEN FinalizeErr /\ UNCHANGED <<flsVars, flsWaitReturn, job>>
     ELSE IF b = BlockCount
     THEN /\ state' = "READ_DONE"
          /\ job' = [job EXCEPT !.scanPhase = FALSE, !.nextBlock = BlockCount]
          /\ UNCHANGED <<flsVars, status, flsWaitReturn>>
     ELSE LET op == RecordData(b)
          IN  /\ StartOrFail(op, "READALL_FILL")
              /\ job' = [job EXCEPT !.scanPhase = Accepts(op), !.cur = b,
                                    !.nextBlock = b + 1]
              /\ UNCHANGED mem
  /\ UNCHANGED <<dir, find, mig, dataBuf, dirty>>

----------------------------------------------------------------------------
(* Writing                                                                 *)

AppendOp(b) ==
  WriteOp(ClusterStart[dir.index] + dir.headerEnd, "jobBuf", 0, BlockTotal(DataCells[b]))

\* Mutant: the header is not counted.
Append_NoHeader(b, data, retState) ==
  /\ PackNewRecord(b, data)
  /\ dir' = [dir EXCEPT !.offset[b] = dir.headerEnd, !.headerEnd = @ + DataCells[b]]
  /\ StartOrFail(AppendOp(b), retState)

\* The record is appended at headerEnd; cursor and directory move before the
\* flash job has even begun.
Append(b, data, retState) ==
  /\ PackNewRecord(b, data)
  /\ dir' = [dir EXCEPT !.offset[b] = dir.headerEnd,
                        !.headerEnd = @ + BlockTotal(DataCells[b])]
  /\ StartOrFail(AppendOp(b), retState)

HandleWriteMainLoopProc ==
  /\ state = "WRITE_MAIN_LOOP_PROC"
  /\ Append(job.blockNumber, dataBuf, "WRITE_DONE")
  /\ UNCHANGED <<job, find, mig, callerVars>>

HandleWriteAllAppend ==
  LET b == FirstFrom(job.nextBlock, {x \in Block : dirty[x]})
  IN
  /\ state = "WRITEALL_APPEND"
  /\ IF find.err
     THEN FinalizeErr /\ UNCHANGED <<flsVars, flsWaitReturn, dir, job>>
     ELSE IF b = BlockCount
     THEN /\ state' = "WRITE_DONE"
          /\ job' = [job EXCEPT !.nextBlock = BlockCount]
          /\ UNCHANGED <<flsVars, status, flsWaitReturn, dir>>
     ELSE /\ Append(b, ram[b], "WRITEALL_APPEND")
          /\ job' = [job EXCEPT !.nextBlock = b + 1, !.cur = b]
  /\ UNCHANGED <<find, mig, callerVars>>

MiniFee_MainFunction ==
  \/ HandleFlsWait \/ JobDone \/ JobError
  \/ FindStart \/ FindReadClusterHdrDone
  \/ DecideBlank \/ DecideReuse \/ DecideScan
  \/ FindFreshErase \/ FindFreshActivate \/ FindWriteHdrWrite \/ FindFreshActivateDone
  \/ FindMetricsRead \/ FindMetricsEval \/ FindMetricsDone
  \/ FindMigratePrepare \/ FindMigrateEraseDst \/ FindMigrateRead \/ FindMigrateWrite
  \/ FindMigrateActivate \/ FindMigrateSwitch \/ FindDone
  \/ HandleReadByDir \/ HandleReadVerifyCopy \/ HandleReadAllFill
  \/ HandleWriteMainLoopProc \/ HandleWriteAllAppend

----------------------------------------------------------------------------
(* The specification.  The caller is whoever obeys the interface: it calls  *)
(* at any moment between two MainFunctions, with any block and payload, and *)
(* leaves its buffers and the answers of its callbacks alone while BUSY     *)
(* (MiniFee.h asks for that).                                               *)

Payload(v) == [i \in DataIdx |-> v]

CallRead(b) == MiniFee_Read(b) /\ UNCHANGED callerVars

CallWrite(b, v) ==
  /\ MiniFee_Write(b)
  /\ dataBuf' = Payload(v)
  /\ UNCHANGED <<ram, dirty>>

CallWriteAll(S, v) ==
  /\ MiniFee_WriteAll(S)
  /\ dirty' = [b \in Block |-> b \in S]
  /\ ram' = [b \in Block |-> IF b \in S THEN Payload(v) ELSE ram[b]]
  /\ UNCHANGED dataBuf

\* The caller clears its buffers before it asks for all blocks.
CallReadAll ==
  /\ MiniFee_ReadAll
  /\ ram' = [b \in Block |-> Payload(Zero)]
  /\ UNCHANGED <<dataBuf, dirty>>

Submit ==
  \/ \E b \in Block : CallRead(b)
  \/ \E b \in Block, v \in Value : CallWrite(b, v)
  \/ \E S \in SUBSET Block, v \in Value : CallWriteAll(S, v)
  \/ CallReadAll

Driver == Fls_MainFunction /\ UNCHANGED <<feeVars, callerVars>>

DriverFails == Fls_JobFails /\ UNCHANGED <<feeVars, callerVars>>

InitOn(image) ==
  /\ FlsInit(image)
  /\ mem = [x \in Buffer |-> [i \in BufIdx |-> Zero]]
  /\ state = "IDLE" /\ status = "IDLE" /\ flsWaitReturn = "IDLE"
  /\ job = NoJob /\ dir = NoDir /\ find = NoFind /\ mig = NoMig
  /\ dataBuf = Payload(Zero)
  /\ ram = [b \in Block |-> Payload(Zero)]
  /\ dirty = [b \in Block |-> FALSE]

Init == InitOn(Blank)

Next ==
  \/ Submit \/ MiniFee_Cancel
  \/ MiniFee_MainFunction \/ Driver
  \/ Reset \/ PowerLoss \/ DriverFails

Spec == Init /\ [][Next]_vars
=============================================================================
