------------------------------ MODULE FeeSafety ------------------------------
(***************************************************************************)
(* What must hold of MiniFee, stated against the flash itself: the store   *)
(* is what a reader with nothing but the medium would find in it.          *)
(***************************************************************************)
EXTENDS MiniFee

----------------------------------------------------------------------------
(* Reading a medium from scratch                                           *)

GenOf(fl, k) == ClusterHdrGen(fl[ClusterStart[k]])

ValidClusters(fl) == {k \in Cluster : GenOf(fl, k) # NoGen}

Newest(fl) ==
  LET valid == ValidClusters(fl)
  IN  CHOOSE k \in valid : \A j \in valid : GenOf(fl, j) <= GenOf(fl, k)

\* A record starts at offset o of cluster k and ends within it.
IsRecord(fl, k, o) ==
  /\ o + HeaderSize <= ClusterLen[k]
  /\ LET cell == fl[ClusterStart[k] + o]
     IN  IsBlockHeaderValid(cell) /\ o + BlockTotal(cell.len) <= ClusterLen[k]

RecordEnd(fl, k, o) == o + BlockTotal(fl[ClusterStart[k] + o].len)

\* LogFrom(fl, k)[o], the records from offset o on: where they end, and the last
\* one of each block.
LogFrom(fl, k) ==
  LET log[o \in 0 .. ClusterLen[k]] ==
        IF ~IsRecord(fl, k, o) THEN [end |-> o, last |-> EmptyDir]
        ELSE LET rest == log[RecordEnd(fl, k, o)]
                 b == fl[ClusterStart[k] + o].block
             IN  IF rest.last[b] # NoRecord THEN rest
                 ELSE [rest EXCEPT !.last[b] = o]
  IN  log

Log(fl, k) == LogFrom(fl, k)[HeaderSize]

DataAt(fl, b, a) == [i \in 0 .. DataCells[b] - 1 |-> fl[a + HeaderSize + i]]

Recovered(fl) ==
  IF ValidClusters(fl) = {} THEN [b \in Block |-> Zeros(b)]
  ELSE LET k == Newest(fl)
           last == Log(fl, k).last
       IN  [b \in Block |-> IF last[b] = NoRecord THEN Zeros(b)
                            ELSE DataAt(fl, b, ClusterStart[k] + last[b])]

----------------------------------------------------------------------------
(* Safety                                                                  *)

\* Between jobs a directory that is trusted (dirValid) says of every block what
\* a new scan of the flash would say: the newest cluster and its generation,
\* the last record of the block in it, and where the next record goes.  All of
\* the fast paths of MiniFee_Read and MiniFee_Write rest on this.
DirectoryFaithful ==
  state = "IDLE" /\ dir.valid =>
    IF ValidClusters(flash) = {} THEN dir.gen = NoGen /\ dir.offset = EmptyDir
    ELSE /\ dir.index = Newest(flash)
         /\ dir.gen = GenOf(flash, dir.index)
         /\ dir.offset = Log(flash, dir.index).last
         /\ dir.headerEnd = Log(flash, dir.index).end

\* A registered flash job stays on the medium and within the very buffer its
\* pointer leads into, the one-header buffers and the members of jobBuf each with
\* their own length: what the driver touches when it runs is what was meant.
OpInBounds ==
  flsOp.kind # "NONE" =>
    /\ flsOp.off + flsOp.len <= FlashSize
    /\ flsOp.kind # "ERASE" => flsOp.at + flsOp.len <= BufEnd(flsOp)

\* The driver is at work only while MiniFee waits for it, unless a job was
\* cancelled; and then MiniFee trusts no directory and gets no further than
\* its first flash request, which is refused, until the driver has finished.
DriverBusyOnlyForWaiter ==
  flsStatus = "BUSY" =>
    \/ state = "FLS_WAIT"
    \/ /\ ~dir.valid
       /\ \/ state \in {"IDLE", "ERROR"}
          \/ InFind("START") /\ find.clusterIdx = 0

\* No cell is programmed twice between two erasures: the cells a write job is
\* about to program are erased (FlsIf and MiniFee are designed for flash that
\* allows one program per erase).
OneProgramPerErase ==
  flsOp.kind = "WRITE" => \A a \in Addr : InOp(a) => flash[a] = Erased

\* No two clusters carry the same generation: which one is active is never a
\* matter of the order the headers are read in.
GenerationsDistinct ==
  \A j, k \in ValidClusters(flash) : GenOf(flash, j) = GenOf(flash, k) => j = k

\* A job of the flash stays within one cluster, and a record in the part of it
\* behind the header: no record runs over into the neighbour or starts there, no
\* erasure takes more than the cluster meant.
WithinOneCluster ==
  LET record == flsOp.kind \in {"READ", "WRITE"} /\ flsOp.buf = "jobBuf"
  IN  flsOp.kind # "NONE" =>
        \E k \in Cluster :
          /\ flsOp.off >= ClusterStart[k] + (IF record THEN HeaderSize ELSE 0)
          /\ flsOp.off + flsOp.len <= ClusterStart[k] + ClusterLen[k]

\* The driver keeps only a pointer to the data of a write: as long as the write
\* is in flight nobody changes the cells it will read.
WriteSourceStable ==
  [][flsOp.kind = "WRITE" /\ flsOp' = flsOp
       => \A i \in BufIdx : i \in flsOp.at .. flsOp.at + flsOp.len - 1
            => mem'[flsOp.buf][i] = mem[flsOp.buf][i]]_vars

\* A block of the write job in progress.
Written(b) == status = "BUSY" /\ job.kind \in {"WRITE", "WRITEALL"} /\ Target(b)

\* The first request of a job, while the flash still works for a cancelled one.
RefusedAtStart == state = "ERROR" /\ find.err /\ find.clusterIdx = 0

\* Without faults of the flash a job fails only because it is cancelled, or
\* because the flash is still at work for one that was: never for lack of room
\* (the clusters hold every block), never because the job before it, a reset or a
\* cancellation left anything behind.
NoSpuriousFailure ==
  [][status = "BUSY" /\ status' = "NOT_OK" => MiniFee_Cancel \/ RefusedAtStart]_vars

\* Whatever is lost with the power, a block that no job in progress writes keeps
\* its durable content: neither a torn record nor a migration cut short at any
\* point (erasure, copies, header) takes an older block with it.
UntouchedBlocksSurvive ==
  [][\A b \in Block : ~Written(b) => Recovered(flash')[b] = Recovered(flash)[b]]_vars

----------------------------------------------------------------------------
(* What the documents say of failing flash jobs and of clusters too small. *)

\* MINIFEE_STATUS_OK: the job succeeded.  A single write that is about to be
\* reported OK is found in the flash by a scan.
OkMeansDurable ==
  state = "WRITE_DONE" /\ job.kind = "WRITE" =>
    Recovered(flash)[job.blockNumber] = DataOf(job.blockNumber, dataBuf)

\* SDD 5.5: the source cluster is kept, one can fall back to it when a migration
\* goes wrong.  After a failed migration a directory that is still trusted is
\* the directory of the cluster that is still active.
MigrationFallsBack ==
  state = "IDLE" /\ status = "NOT_OK" /\ mig.hdrEnd # 0 /\ dir.valid =>
    dir.offset = Log(flash, dir.index).last

\* SDD 5.5: a migration that finds its destination too small fails the job.
CapacityFailureReported == state = "WRITE_DONE" => ~find.err

----------------------------------------------------------------------------
(* Liveness                                                                *)

\* Every accepted job ends.
JobTerminates == status = "BUSY" ~> status # "BUSY"
=============================================================================
