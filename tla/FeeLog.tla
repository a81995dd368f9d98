-------------------------------- MODULE FeeLog --------------------------------
(***************************************************************************)
(* Why the directory in RAM, the log in flash and the flash job in flight  *)
(* agree at every moment: the inductive invariant behind DirectoryFaithful *)
(* and the other theorems of FeeLogTheorems, for tables in which every     *)
(* block has data and every cluster has room for all of them.              *)
(***************************************************************************)
EXTENDS FeeSafety

\* The cluster table of MiniFee_Cfg.c: clusters apart, on the medium, on sector
\* boundaries, each large enough for a record of every block.
ASSUME RoomAssumption ==
  /\ ClusterCount > 1
  /\ \A k \in Cluster :
       /\ ClusterLen[k] < WordMod
       /\ ClusterStart[k] + ClusterLen[k] <= FlashSize
       /\ ClusterStart[k] % SectorSize = 0 /\ ClusterLen[k] % SectorSize = 0
       /\ HeaderSize + TotalOf(Block) <= ClusterLen[k]
  /\ \A j, k \in Cluster :
       \/ j = k
       \/ ClusterStart[j] + ClusterLen[j] <= ClusterStart[k]
       \/ ClusterStart[k] + ClusterLen[k] <= ClusterStart[j]
  /\ \A b \in Block : DataCells[b] # 0

\* Neither an erased nor a torn cell passes for a header.
ASSUME CellAssumption ==
  /\ Erased # Torn
  /\ {Erased, Torn} \cap (BlockHeader \cup ClusterHeader) = {}

\* Flash that does what it is asked for, until the power is lost.
SoundNext ==
  \/ Submit \/ MiniFee_Cancel
  \/ MiniFee_MainFunction \/ Driver
  \/ Reset \/ PowerLoss

SoundSpec == Init /\ [][SoundNext]_vars

\* The next generation still fits into its three bytes.
InLife == dir.gen + 1 < GenMod

----------------------------------------------------------------------------
(* The flash, and the job in flight                                        *)

\* Every cell of cluster k from offset o on is erased.
CleanFrom(fl, k, o) ==
  \A i \in o .. ClusterLen[k] - 1 : fl[ClusterStart[k] + i] = Erased

\* The newest record of each block lies within the log, and behind the log there
\* is either damage or nothing at all.
ClusterOK(fl, k) ==
  LET log == Log(fl, k)
  IN  /\ \A b \in Block : log.last[b] # NoRecord
                            => log.last[b] + BlockTotal(DataCells[b]) <= log.end
      /\ log.end < ClusterLen[k] /\ fl[ClusterStart[k] + log.end] = Erased
           => CleanFrom(fl, k, log.end)

FlashOK(fl) ==
  /\ \A k \in ValidClusters(fl) : GenOf(fl, k) > 0 /\ ClusterOK(fl, k)
  /\ \A j, k \in ValidClusters(fl) : GenOf(fl, j) = GenOf(fl, k) => j = k

\* A record of block b on its way to the end of the log of cluster k.
RecordFlight(k, b) ==
  LET end == Log(flash, k).end
  IN  /\ flsOp = WriteOp(ClusterStart[k] + end, "jobBuf", 0, BlockTotal(DataCells[b]))
      /\ mem["jobBuf"][0] = PackBlockHdr(b)
      /\ end + BlockTotal(DataCells[b]) <= ClusterLen[k]
      /\ ClusterOK(flash, k) /\ CleanFrom(flash, k, end)

\* The header of a generation above all others on its way to cluster k.
HeaderFlight(k, gen) ==
  /\ flsOp = WriteOp(ClusterStart[k], "writeHdrBuf", 0, HeaderSize)
  /\ mem["writeHdrBuf"][0] = [gen |-> gen]
  /\ flash[ClusterStart[k]] = Erased
  /\ \A j \in ValidClusters(flash) : GenOf(flash, j) < gen
  /\ ClusterOK(flash, k)

ReadFlight(k) ==
  \/ flsOp = ReadOp(ClusterStart[k], "clusterHdrBuf", 0, HeaderSize)
  \/ \E o \in HeaderSize .. ClusterLen[k] : \E n \in 0 .. ClusterLen[k] - o :
       \/ flsOp = ReadOp(ClusterStart[k] + o, "scanHdrBuf", 0, HeaderSize) /\ n = HeaderSize
       \/ \E at \in {0, HeaderSize} : flsOp = ReadOp(ClusterStart[k] + o, "jobBuf", at, n)

FlightOK ==
  flsOp.kind # "NONE" =>
    \E k \in Cluster :
      \/ ReadFlight(k)
      \/ flsOp = EraseOp(ClusterStart[k], ClusterLen[k])
      \/ \E b \in Block : RecordFlight(k, b)
      \/ \E gen \in 1 .. GenMod - 1 : HeaderFlight(k, gen)

----------------------------------------------------------------------------
(* The directory                                                           *)

\* The state in which the job goes on once the flash job in flight is over.
Cont == IF state = "FLS_WAIT" THEN flsWaitReturn ELSE state

At(subs) == Cont = "FIND_PROC" /\ find.sub \in subs

Newer(fl, gen) == {k \in ValidClusters(fl) : GenOf(fl, k) > gen}

\* The directory is about the newest cluster.
Active(fl) ==
  /\ dir.index \in ValidClusters(fl)
  /\ dir.gen = GenOf(fl, dir.index)
  /\ Newer(fl, dir.gen) = {}

\* The directory says what a scan of medium fl would say.
Describes(fl) ==
  \/ /\ dir.gen = NoGen /\ ValidClusters(fl) = {}
     /\ dir.offset = EmptyDir
  \/ /\ Active(fl)
     /\ dir.offset = Log(fl, dir.index).last
     /\ dir.headerEnd = Log(fl, dir.index).end

\* A record can be appended behind the log.
Appends(fl) == Active(fl) /\ Describes(fl) /\ CleanFrom(fl, dir.index, dir.headerEnd)

\* FindAddr is about to make another cluster the active one.
Moving == At({"FRESH_ERASE", "FRESH_ACTIVATE", "FRESH_ACTIVATE_DONE", "WRITE_HDR_WRITE",
              "MIGRATE_ERASE_DST", "MIGRATE_READ", "MIGRATE_WRITE", "MIGRATE_ACTIVATE",
              "MIGRATE_SWITCH"})

\* Executed is the medium once the flash job in flight is over.
Trusted ==
  dir.valid /\ ~Moving =>
    Describes(Executed) /\ (dir.gen # NoGen => Appends(Executed))

\* The blocks a write job has still to append.
Remaining == IF job.kind = "WRITEALL" THEN {b \in Block : dirty[b] /\ b >= job.nextBlock}
             ELSE {job.blockNumber}

HasRoom == dir.headerEnd + TotalOf(Remaining) <= ClusterLen[dir.index]

\* One of these states is next, or follows once FindAddr is done.
Toward(states) == Cont \in states \/ (At({"DONE"}) /\ find.ret \in states)

Appending == Toward({"WRITE_MAIN_LOOP_PROC", "WRITEALL_APPEND"}) => Appends(Executed) /\ HasRoom

Reading == Toward({"READ_BY_DIR", "READALL_FILL"}) => Describes(Executed)

----------------------------------------------------------------------------
(* The job                                                                 *)

JobState == CASE job.kind = "READ"    -> "READ_BY_DIR"
              [] job.kind = "READALL" -> "READALL_FILL"
              [] job.kind = "WRITE"   -> "WRITE_MAIN_LOOP_PROC"
              [] OTHER                -> "WRITEALL_APPEND"

\* Where a job goes on is a matter of its kind.
Underway ==
  Cont \in {"FIND_PROC", "READ_BY_DIR", "READALL_FILL", "WRITE_MAIN_LOOP_PROC", "WRITEALL_APPEND"} =>
    /\ job.kind # "NONE"
    /\ job.kind = "WRITEALL" => job.counted = {b \in Block : dirty[b]}
    /\ Cont \in {"FIND_PROC", JobState}
    /\ Cont = "FIND_PROC" =>
         /\ job.nextBlock = 0
         /\ find.type = IF job.kind \in {"READ", "READALL"} THEN "READ" ELSE "WRITE"
         /\ \/ find.ret = JobState
            \/ find.ret = "WRITE_DONE" /\ find.sub = "DONE"

\* Nothing fails but the first request of a job, and that trusts no directory.
NoFault ==
  /\ find.err => state \in {"ERROR", "IDLE"}
  /\ Cont = "ERROR" => find.err /\ find.clusterIdx = 0 /\ ~dir.valid
  /\ state = "FLS_WAIT" /\ flsStatus # "BUSY" => flsResult = "OK"

----------------------------------------------------------------------------
(* FindAddr                                                                *)

\* The header cell at address a is in buffer buf, or on its way there.
Fetched(buf, a) ==
  IF flsStatus = "BUSY" THEN flsOp = ReadOp(a, buf, 0, HeaderSize)
  ELSE mem[buf][0] = flash[a]

\* The newest of the clusters before clusterIdx has been found.
Looked(fl) ==
  LET seen == {k \in ValidClusters(fl) : k < find.clusterIdx}
  IN  /\ find.hasData <=> seen # {}
      /\ \A k \in seen : GenOf(fl, k) <= find.bestGen
      /\ IF seen = {} THEN find.bestGen = 0
         ELSE find.bestGenIdx \in seen /\ find.bestGen = GenOf(fl, find.bestGenIdx)

Looking ==
  /\ At({"START", "READ_CLUSTER_HDR_DONE", "DECIDE"}) => Looked(Executed)
  /\ At({"READ_CLUSTER_HDR_DONE"}) => Fetched("clusterHdrBuf", ClusterStart[find.clusterIdx])
  /\ At({"DECIDE"}) => find.clusterIdx = ClusterCount

\* The records before scanOff are in the directory.
ScannedTo(fl) ==
  LET log == Log(fl, dir.index)
      rest == LogFrom(fl, dir.index)[find.scanOff]
  IN  /\ Active(fl) /\ ~dir.valid /\ ~find.scanCorrupt
      /\ find.scanOff \in HeaderSize .. ClusterLen[dir.index]
      /\ dir.headerEnd = find.scanOff
      /\ log.end = rest.end
      /\ \A b \in Block :
           log.last[b] = IF rest.last[b] = NoRecord THEN dir.offset[b] ELSE rest.last[b]

Scanned(fl) ==
  /\ Active(fl) /\ Describes(fl) /\ ~dir.valid
  /\ ~find.scanCorrupt => Appends(fl)

Scanning ==
  /\ At({"METRICS_READ", "METRICS_EVAL"}) => ScannedTo(Executed)
  /\ At({"METRICS_EVAL"}) =>
       /\ find.scanOff < ClusterLen[dir.index]
       /\ Fetched("scanHdrBuf", ClusterStart[dir.index] + find.scanOff)
  /\ At({"METRICS_DONE"}) => Scanned(Executed)

----------------------------------------------------------------------------
(* Activation and migration                                                *)

\* The cluster k that is made ready holds so many records and no header.
Ready(fl, k, end) ==
  /\ fl[ClusterStart[k]] = Erased
  /\ ClusterOK(fl, k) /\ CleanFrom(fl, k, end)
  /\ Log(fl, k).end = end

\* What the directory will be once the header is written.
Switched(fl, k, gen, end, offset) ==
  /\ k \in ValidClusters(fl) /\ GenOf(fl, k) = gen /\ Newer(fl, gen) = {}
  /\ offset = Log(fl, k).last /\ end = Log(fl, k).end
  /\ CleanFrom(fl, k, end)

\* The header of a cluster is written, or will be once the flash job is over.
Activated(sub) == At({sub}) \/ (At({"WRITE_HDR_WRITE"}) /\ mig.hdrRet = sub)

Blanked(fl) == dir.gen = NoGen /\ ValidClusters(fl) = {}

Fresh ==
  /\ At({"FRESH_ERASE", "FRESH_ACTIVATE"}) => Blanked(Executed)
  /\ At({"FRESH_ACTIVATE"}) => Ready(Executed, 0, HeaderSize)
  /\ Activated("FRESH_ACTIVATE_DONE") =>
       Switched(Executed, 0, mig.hdrGen, HeaderSize, EmptyDir)
  /\ At({"WRITE_HDR_WRITE"}) => mig.hdrRet \in {"FRESH_ACTIVATE_DONE", "MIGRATE_SWITCH"}

\* The active cluster is full or damaged; the directory says where its records are.
Sourced(fl) == Active(fl) /\ dir.offset = Log(fl, dir.index).last

\* The first block that the migration has not dealt with.
Pending == IF find.sub = "MIGRATE_WRITE" THEN job.cur ELSE mig.block

\* The blocks before that are in the new cluster, the others will find room there.
Copied(fl) ==
  LET new == Log(fl, mig.dst).last
      old == Log(fl, dir.index).last
  IN  /\ Active(fl) /\ mig.dst # dir.index
      /\ Ready(fl, mig.dst, mig.hdrEnd)
      /\ mig.hdrEnd + TotalOf({b \in Block : b >= Pending}) <= ClusterLen[mig.dst]
      /\ \A b \in Block : IF b < Pending THEN dir.offset[b] = new[b]
                          ELSE dir.offset[b] = old[b] /\ new[b] = NoRecord

\* The record of block cur is in jobBuf, or its data is on the way there.
RecordReady ==
  /\ mig.block = job.cur + 1
  /\ mem["jobBuf"][0] = PackBlockHdr(job.cur)
  /\ flsOp.kind = "NONE" \/ (flsOp.kind = "READ" /\ flsOp.at = HeaderSize)

Migrating ==
  /\ At({"MIGRATE_PREPARE", "MIGRATE_ERASE_DST"}) => Sourced(Executed)
  /\ At({"MIGRATE_ERASE_DST"}) => mig.dst # dir.index /\ mig.hdrEnd = HeaderSize /\ mig.block = 0
  /\ At({"MIGRATE_READ", "MIGRATE_WRITE", "MIGRATE_ACTIVATE"}) => Copied(Executed)
  /\ At({"MIGRATE_WRITE"}) => RecordReady
  /\ At({"MIGRATE_ACTIVATE"}) => mig.block = BlockCount
  /\ Activated("MIGRATE_SWITCH") =>
       Switched(Executed, mig.dst, mig.hdrGen, mig.hdrEnd, dir.offset)

LogInv ==
  /\ FlashOK(flash) /\ FlightOK
  /\ Trusted /\ Appending /\ Reading /\ Underway /\ NoFault
  /\ Looking /\ Scanning /\ Fresh /\ Migrating
=============================================================================
