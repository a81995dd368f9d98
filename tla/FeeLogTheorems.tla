--------------------------- MODULE FeeLogTheorems ---------------------------
(***************************************************************************)
(* The states that read and append records keep LogInv; so every behaviour *)
(* of MiniFee on a sound flash has it, and with it the safety properties   *)
(* of FeeSafety, for every block table, every cluster table with room for  *)
(* it, and every interleaving of jobs, cancellations, resets and losses of *)
(* power.                                                                  *)
(***************************************************************************)
EXTENDS FeeLogSteps

----------------------------------------------------------------------------
(* Reading                                                                 *)

JobStates == {"READ_BY_DIR", "READ_VERIFY_COPY", "READALL_FILL", "WRITE_MAIN_LOOP_PROC",
              "WRITEALL_APPEND"}

\* In the states of the jobs the driver is free and nothing has failed.
LEMMA FreeInJob ==
  ASSUME FeeInv, LogInv, state \in JobStates
  PROVE  /\ flsStatus # "BUSY" /\ flsOp.kind = "NONE" /\ Executed = flash
         /\ ~find.err /\ Cont = state /\ ~Moving
<1>1. ~InFind("START")
  BY DEF InFind, JobStates
<1>2. flsStatus # "BUSY" /\ flsOp.kind = "NONE"
  BY <1>1, DriverFree DEF JobStates
<1>3. Cont = state /\ Cont # "FIND_PROC"
  BY DEF Cont, JobStates
<1>4. QED
  BY <1>2, <1>3, ReadEffect DEF LogInv, NoFault, JobStates, Moving, At

\* Where the directory describes the medium, the data of a record it knows of is
\* within the active cluster.
LEMMA RecordFound ==
  ASSUME FeeInv, LogInv, flsStatus # "BUSY", Describes(flash),
         NEW b \in Block, dir.offset[b] # NoRecord
  PROVE  /\ Accepts(RecordData(b))
         /\ \E k \in Cluster : \E o \in HeaderSize .. ClusterLen[k] :
              \E n \in 0 .. ClusterLen[k] - o :
                RecordData(b) = ReadOp(ClusterStart[k] + o, "jobBuf", 0, n)
<1> DEFINE k == dir.index
           o == dir.offset[b] + HeaderSize
           n == DataCells[b]
<1>1. Active(flash) /\ dir.offset = Log(flash, k).last
  <2>1. dir.offset # EmptyDir
    BY DEF EmptyDir
  <2>2. QED
    BY <2>1 DEF Describes
<1>2. k \in Cluster /\ ClusterOK(flash, k)
  BY <1>1, ActiveCluster DEF LogInv
<1>3. /\ dir.offset[b] + BlockTotal(n) <= Log(flash, k).end
      /\ Log(flash, k).end \in HeaderSize .. ClusterLen[k]
      /\ dir.offset[b] \in HeaderSize .. ClusterLen[k]
      /\ ClusterLen[k] \in Nat /\ ClusterStart[k] \in Nat
  BY <1>1, <1>2, LogFacts, Room DEF ClusterOK
<1>4. n \in Nat /\ n # 0
  BY BlockAssumption, RoomAssumption
<1>5. /\ o \in HeaderSize .. ClusterLen[k] /\ n \in 0 .. ClusterLen[k] - o
      /\ ClusterStart[k] + dir.offset[b] + HeaderSize = ClusterStart[k] + o
  <2> HIDE DEF n, k
  <2>1. QED
    BY <1>3, <1>4 DEF BlockTotal, HeaderSize
<1>6. RecordData(b) = ReadOp(ClusterStart[k] + o, "jobBuf", 0, n)
  BY <1>5 DEF RecordData
<1>7. Accepts(RecordData(b))
  <2>1. /\ RecordData(b).kind = "READ" /\ RecordData(b).off = ClusterStart[k] + o
        /\ RecordData(b).len = n
    BY <1>6 DEF ReadOp
  <2> HIDE DEF k, o, n
  <2>2. /\ ClusterStart[k] + o \in Nat /\ ClusterStart[k] <= ClusterStart[k] + o /\ n >= 1
        /\ ClusterStart[k] + o + n <= ClusterStart[k] + ClusterLen[k]
    BY <1>3, <1>4, <1>5 DEF HeaderSize
  <2>3. QED
    BY <1>2, <1>4, <2>1, <2>2, AcceptsIn
<1>8. QED
  BY <1>2, <1>5, <1>6, <1>7

\* So the driver takes the request to read it.
LEMMA RecordRead ==
  ASSUME FeeInv, LogInv, flsStatus # "BUSY", Describes(flash),
         NEW b \in Block, dir.offset[b] # NoRecord, NEW ret, StartOrFail(RecordData(b), ret)
  PROVE  /\ FlashOK(flash)' /\ FlightOK' /\ Executed' = flash
         /\ state' = "FLS_WAIT" /\ flsWaitReturn' = ret /\ flsStatus' = "BUSY"
         /\ status' = status
<1>1. /\ flash' = flash /\ flsOp' = RecordData(b) /\ state' = "FLS_WAIT"
      /\ flsWaitReturn' = ret /\ flsStatus' = "BUSY" /\ status' = status
  BY RecordFound DEF StartOrFail, Request
<1>2. PICK k \in Cluster : \E o \in HeaderSize .. ClusterLen[k] :
             \E n \in 0 .. ClusterLen[k] - o :
               RecordData(b) = ReadOp(ClusterStart[k] + o, "jobBuf", 0, n)
  BY RecordFound
<1>3. flsOp'.kind = "READ"
  BY <1>1, <1>2 DEF ReadOp
<1>4. ReadFlight(k)'
  BY <1>1, <1>2 DEF ReadFlight
<1>5. QED
  BY <1>1, <1>3, <1>4, ReadEffectNext DEF FlightOK, LogInv

\* MiniFee_Read with the directory at hand.
LEMMA ReadByDirLog == FeeInv /\ LogInv /\ HandleReadByDir => LogInv' /\ status' = status
<1> SUFFICES ASSUME FeeInv, LogInv, HandleReadByDir PROVE LogInv' /\ status' = status
  OBVIOUS
<1> DEFINE b == job.blockNumber
<1>1. state = "READ_BY_DIR" /\ UNCHANGED <<job, dir, find, dirty>>
  BY DEF HandleReadByDir
<1>2. /\ flsStatus # "BUSY" /\ flsOp.kind = "NONE" /\ Executed = flash
      /\ ~find.err /\ Cont = "READ_BY_DIR" /\ ~Moving
  BY <1>1, FreeInJob DEF JobStates
<1>3. Describes(flash)
  BY <1>2 DEF LogInv, Reading, Toward
<1>4. b \in Block
  BY DEF FeeInv, TypeOK, Job
<1>5. CASE dir.offset[b] = NoRecord
  <2>1. state' = "READ_DONE" /\ UNCHANGED <<flash, mem, flsOp, status>>
    BY <1>2, <1>5 DEF HandleReadByDir, flsVars
  <2>2. Cont' = "READ_DONE"
    BY <2>1 DEF Cont
  <2>3. FlashOK(flash)' /\ FlightOK' /\ Executed' = Executed
    BY <2>1, JobKept
  <2>4. Trusted' /\ NoFault'
    BY <1>1, <1>2, <2>1, <2>2, <2>3, TrustKept DEF NoFault
  <2>5. QED
    BY <2>1, <2>2, <2>3, <2>4, RestLog
<1>6. CASE dir.offset[b] # NoRecord
  <2>1. StartOrFail(RecordData(b), "READ_VERIFY_COPY")
    BY <1>2, <1>6 DEF HandleReadByDir
  <2>2. /\ FlashOK(flash)' /\ FlightOK' /\ Executed' = flash /\ state' = "FLS_WAIT"
        /\ flsWaitReturn' = "READ_VERIFY_COPY" /\ flsStatus' = "BUSY" /\ status' = status
    <3> HIDE DEF b
    <3>1. QED
      BY <1>2, <1>3, <1>4, <1>6, <2>1, RecordRead
  <2>3. Cont' = "READ_VERIFY_COPY"
    BY <2>2 DEF Cont
  <2>4. Trusted' /\ NoFault'
    BY <1>1, <1>2, <2>2, <2>3, TrustKept DEF NoFault
  <2>5. QED
    BY <2>1, <2>2, <2>3, <2>4, RestLog
<1>7. QED
  BY <1>5, <1>6

\* The data goes to the caller.
LEMMA VerifyCopyLog == FeeInv /\ LogInv /\ HandleReadVerifyCopy => LogInv' /\ status' = status
<1> SUFFICES ASSUME FeeInv, LogInv, HandleReadVerifyCopy PROVE LogInv' /\ status' = status
  OBVIOUS
<1>1. /\ state = "READ_VERIFY_COPY" /\ state' = "READ_DONE"
      /\ UNCHANGED <<flash, mem, flsOp, status, dir, find>>
  BY DEF HandleReadVerifyCopy, flsVars
<1>2. ~find.err /\ ~Moving /\ Cont' = "READ_DONE"
  BY <1>1, FreeInJob DEF JobStates, Cont
<1>3. FlashOK(flash)' /\ FlightOK' /\ Executed' = Executed
  BY <1>1, JobKept
<1>4. Trusted' /\ NoFault'
  BY <1>1, <1>2, <1>3, TrustKept DEF NoFault
<1>5. QED
  BY <1>1, <1>2, <1>3, <1>4, RestLog

\* ReadAll goes from record to record.
LEMMA ReadAllLog == FeeInv /\ LogInv /\ HandleReadAllFill => LogInv' /\ status' = status
<1> SUFFICES ASSUME FeeInv, LogInv, HandleReadAllFill PROVE LogInv' /\ status' = status
  OBVIOUS
<1> DEFINE S == {x \in Block : dir.offset[x] # NoRecord}
           b == FirstFrom(job.nextBlock, S)
<1>1. state = "READALL_FILL" /\ UNCHANGED <<dir, find, dirty>>
  BY DEF HandleReadAllFill
<1>2. /\ flsStatus # "BUSY" /\ flsOp.kind = "NONE" /\ Executed = flash
      /\ ~find.err /\ Cont = "READALL_FILL" /\ ~Moving
  BY <1>1, FreeInJob DEF JobStates
<1>3. Describes(flash)
  BY <1>2 DEF LogInv, Reading, Toward
<1>4. job \in Job /\ job.nextBlock \in Nat
  BY BlockAssumption DEF FeeInv, TypeOK, Job
<1>5. CASE b = BlockCount
  <2>1. state' = "READ_DONE" /\ UNCHANGED <<flash, mem, flsOp, status>>
    BY <1>2, <1>5 DEF HandleReadAllFill, flsVars
  <2>2. Cont' = "READ_DONE"
    BY <2>1 DEF Cont
  <2>3. FlashOK(flash)' /\ FlightOK' /\ Executed' = Executed
    BY <2>1, JobKept
  <2>4. Trusted' /\ NoFault'
    BY <1>1, <1>2, <2>1, <2>2, <2>3, TrustKept DEF NoFault
  <2>5. QED
    BY <2>1, <2>2, <2>3, <2>4, RestLog
<1>6. CASE b # BlockCount
  <2>1. b \in S /\ b \in Block
    BY <1>4, <1>6, FirstFromType
  <2>2. StartOrFail(RecordData(b), "READALL_FILL")
        /\ job' = [job EXCEPT !.scanPhase = Accepts(RecordData(b)), !.cur = b, !.nextBlock = b + 1]
    BY <1>2, <1>6 DEF HandleReadAllFill
  <2>3. job'.kind = job.kind /\ job'.counted = job.counted
    BY <1>4, <2>2 DEF Job
  <2>4. /\ FlashOK(flash)' /\ FlightOK' /\ Executed' = flash /\ state' = "FLS_WAIT"
        /\ flsWaitReturn' = "READALL_FILL" /\ flsStatus' = "BUSY" /\ status' = status
    <3>1. dir.offset[b] # NoRecord
      BY <2>1
    <3> HIDE DEF b
    <3>2. QED
      BY <1>2, <1>3, <2>1, <2>2, <3>1, RecordRead
  <2>5. Cont' = "READALL_FILL"
    BY <2>4 DEF Cont
  <2>6. Trusted' /\ NoFault'
    BY <1>1, <1>2, <2>4, <2>5, TrustKept DEF NoFault
  <2>7. Underway'
    BY <1>1, <1>2, <2>3, <2>5 DEF LogInv, Underway, JobState
  <2>8. Reading' /\ Appending'
    <3>1. Describes(Executed)'
      BY <1>1, <1>2, <1>3, <2>4, DirKept
    <3>2. QED
      BY <2>5, <3>1 DEF Reading, Appending, Toward, At
  <2>9. QED
    BY <2>4, <2>5, <2>6, <2>7, <2>8, PlaceNext DEF LogInv, Elsewhere
<1>7. QED
  BY <1>5, <1>6

----------------------------------------------------------------------------
(* Writing                                                                 *)

\* Media whose headers agree have the same clusters.
LEMMA SameHeaders ==
  ASSUME NEW fl, NEW gl, \A j \in Cluster : GenOf(gl, j) = GenOf(fl, j)
  PROVE  /\ ValidClusters(gl) = ValidClusters(fl)
         /\ Active(fl) => Active(gl)
<1>1. ValidClusters(gl) = ValidClusters(fl) /\ ValidClusters(fl) \subseteq Cluster
  BY DEF ValidClusters
<1>2. QED
  BY <1>1 DEF Active, Newer

\* A record is appended behind the log where there is room for it, and the
\* directory is the one that a scan will find once the record is written.
LEMMA RecordWritten ==
  ASSUME FeeInv, LogInv, FlsOK', flsStatus # "BUSY", Executed = flash, Appends(flash),
         NEW b \in Block, dir.headerEnd + BlockTotal(DataCells[b]) <= ClusterLen[dir.index],
         NEW data, NEW ret, Append(b, data, ret)
  PROVE  /\ FlashOK(flash)' /\ FlightOK'
         /\ state' = "FLS_WAIT" /\ flsWaitReturn' = ret /\ flsStatus' = "BUSY"
         /\ status' = status
         /\ Describes(Executed)' /\ Appends(Executed)'
         /\ dir'.index = dir.index /\ dir'.gen = dir.gen /\ dir'.valid = dir.valid
         /\ dir'.headerEnd = dir.headerEnd + BlockTotal(DataCells[b])
<1> DEFINE total == BlockTotal(DataCells[b])
           end == dir.headerEnd
<1>1. PICK k \in Cluster : k = dir.index
  BY DEF FeeInv, TypeOK, Dir
<1>2. /\ Active(flash) /\ end = Log(flash, k).end /\ dir.offset = Log(flash, k).last
      /\ CleanFrom(flash, k, end) /\ ClusterOK(flash, k)
  <2>1. Active(flash) /\ Describes(flash)
    BY DEF Appends
  <2>2. dir.gen # NoGen /\ ClusterOK(flash, k)
    BY <1>1, <2>1, ActiveCluster DEF LogInv
  <2>3. QED
    BY <1>1, <2>1, <2>2, DescribesActive DEF Appends
<1>3. /\ total \in Nat /\ total >= 1 /\ end \in HeaderSize .. ClusterLen[k]
      /\ ClusterStart[k] \in Nat /\ ClusterLen[k] \in Nat
  BY <1>2, BlockTotalType, LogFacts, Room
<1>4. Accepts(AppendOp(b))
  <2>1. /\ AppendOp(b).kind = "WRITE" /\ AppendOp(b).off = ClusterStart[k] + end
        /\ AppendOp(b).len = total
    BY <1>1 DEF AppendOp, WriteOp
  <2>2. end + total <= ClusterLen[k]
    BY <1>1
  <2> HIDE DEF total, end
  <2>3. /\ ClusterStart[k] + end \in Nat /\ ClusterStart[k] <= ClusterStart[k] + end
        /\ ClusterStart[k] + end + total <= ClusterStart[k] + ClusterLen[k]
    BY <1>3, <2>2 DEF HeaderSize
  <2>4. QED
    BY <1>3, <2>1, <2>3, AcceptsIn
<1>5. /\ flash' = flash /\ flsOp' = AppendOp(b) /\ flsStatus' = "BUSY" /\ status' = status
      /\ state' = "FLS_WAIT" /\ flsWaitReturn' = ret /\ PackNewRecord(b, data)
      /\ dir' = [dir EXCEPT !.offset[b] = end, !.headerEnd = end + total]
  BY <1>4 DEF Append, StartOrFail, Request
<1>6. /\ dir'.index = k /\ dir'.gen = dir.gen /\ dir'.valid = dir.valid
      /\ dir'.headerEnd = end + total
      /\ \A x \in Block : dir'.offset[x] = IF x = b THEN end ELSE dir.offset[x]
      /\ dir'.offset = [x \in Block |-> dir'.offset[x]]
  BY <1>1, <1>5 DEF FeeInv, TypeOK, Dir
<1>7. mem'["jobBuf"][0] = PackBlockHdr(b)
  <2>1. mem \in [Buffer -> [BufIdx -> Cell]] /\ "jobBuf" \in Buffer /\ 0 \in BufIdx
    BY FeeAssumption, ZeroIndex DEF FeeInv, TypeOK, FlsTypeOK
  <2>2. QED
    BY <1>5, <2>1 DEF PackNewRecord
<1>8. RecordFlight(k, b)'
  <2>1. flsOp' = WriteOp(ClusterStart[k] + Log(flash', k).end, "jobBuf", 0, total)
    BY <1>1, <1>2, <1>5 DEF AppendOp
  <2>2. Log(flash', k).end + total <= ClusterLen[k]
    BY <1>1, <1>2, <1>5
  <2>3. ClusterOK(flash', k) /\ CleanFrom(flash', k, Log(flash', k).end)
    BY <1>2, <1>5
  <2>4. QED
    BY <1>7, <2>1, <2>2, <2>3 DEF RecordFlight
<1>9. FlightOK' /\ FlashOK(flash)'
  BY <1>5, <1>8 DEF FlightOK, LogInv
<1>10. /\ \A j \in Cluster \ {k} : Same(flash, Executed', j, 0)
       /\ Executed'[ClusterStart[k]] = flash[ClusterStart[k]]
       /\ Log(Executed', k).end = end + total
       /\ \A x \in Block : Log(Executed', k).last[x] = IF x = b THEN end
                                                      ELSE Log(flash, k).last[x]
       /\ CleanFrom(Executed', k, end + total)
  BY <1>2, <1>5, <1>8, RecordEffectNext
<1>11. Active(Executed')
  <2>1. \A j \in Cluster \ {k} : GenOf(Executed', j) = GenOf(flash, j)
    BY <1>10, WholeCluster
  <2>2. GenOf(Executed', k) = GenOf(flash, k)
    BY <1>10 DEF GenOf
  <2>3. QED
    BY <1>2, <2>1, <2>2, SameHeaders
<1>12. dir'.offset = Log(Executed', k).last
  <2>1. \A x \in Block : dir'.offset[x] = Log(Executed', k).last[x]
    BY <1>2, <1>6, <1>10
  <2>2. Log(Executed', k).last = [x \in Block |-> Log(Executed', k).last[x]]
    BY LogFacts
  <2>3. QED
    BY <1>6, <2>1, <2>2
<1>13. Active(Executed)' /\ Describes(Executed)' /\ Appends(Executed)'
  <2>1. Active(Executed)'
    BY <1>1, <1>6, <1>11 DEF Active, Newer
  <2>2. Describes(Executed)'
    BY <1>6, <1>10, <1>12, <2>1 DEF Describes
  <2>3. QED
    BY <1>6, <1>10, <2>1, <2>2 DEF Appends
<1>14. QED
  BY <1>1, <1>5, <1>6, <1>9, <1>13

\* MiniFee_Write with the directory at hand.
LEMMA MainLoopLog == FeeInv /\ LogInv /\ HandleWriteMainLoopProc => LogInv' /\ status' = status
<1> SUFFICES ASSUME FeeInv, LogInv, HandleWriteMainLoopProc PROVE LogInv' /\ status' = status
  OBVIOUS
<1>1. /\ state = "WRITE_MAIN_LOOP_PROC" /\ UNCHANGED <<job, find, dirty>>
      /\ Append(job.blockNumber, dataBuf, "WRITE_DONE")
  BY DEF HandleWriteMainLoopProc, callerVars
<1>2. /\ flsStatus # "BUSY" /\ Executed = flash /\ ~find.err /\ Cont = "WRITE_MAIN_LOOP_PROC"
  BY <1>1, FreeInJob DEF JobStates
<1>3. Appends(flash) /\ HasRoom
  BY <1>2 DEF LogInv, Appending, Toward
<1>4. job.blockNumber \in Block
  BY DEF FeeInv, TypeOK, Job
<1>5. dir.headerEnd + BlockTotal(DataCells[job.blockNumber]) <= ClusterLen[dir.index]
  <2>1. job.kind = "WRITE"
    BY <1>2 DEF LogInv, Underway, JobState
  <2>2. Remaining = {job.blockNumber}
    BY <2>1 DEF Remaining
  <2>3. QED
    BY <1>3, <1>4, <2>2, TotalOfOne DEF HasRoom
<1>6. FlsOK'
  BY WriteOK DEF FeeInv
<1>7. /\ FlashOK(flash)' /\ FlightOK' /\ state' = "FLS_WAIT" /\ flsWaitReturn' = "WRITE_DONE"
      /\ flsStatus' = "BUSY" /\ status' = status /\ Describes(Executed)' /\ Appends(Executed)'
  BY <1>1, <1>2, <1>3, <1>4, <1>5, <1>6, RecordWritten
<1>8. Cont' = "WRITE_DONE"
  BY <1>7 DEF Cont
<1>9. Trusted' /\ NoFault'
  BY <1>1, <1>2, <1>7, <1>8 DEF Trusted, NoFault
<1>10. QED
  BY <1>7, <1>8, <1>9, RestLog

\* WriteAll appends the next record; with it the room that is still needed shrinks.
LEMMA WriteAllLog == FeeInv /\ LogInv /\ HandleWriteAllAppend => LogInv' /\ status' = status
<1> SUFFICES ASSUME FeeInv, LogInv, HandleWriteAllAppend PROVE LogInv' /\ status' = status
  OBVIOUS
<1> DEFINE S == {x \in Block : dirty[x]}
           b == FirstFrom(job.nextBlock, S)
<1>1. state = "WRITEALL_APPEND" /\ UNCHANGED <<find, dirty>>
  BY DEF HandleWriteAllAppend, callerVars
<1>2. /\ flsStatus # "BUSY" /\ flsOp.kind = "NONE" /\ Executed = flash
      /\ ~find.err /\ Cont = "WRITEALL_APPEND" /\ ~Moving
  BY <1>1, FreeInJob DEF JobStates
<1>3. Appends(flash) /\ HasRoom
  BY <1>2 DEF LogInv, Appending, Toward
<1>4. job \in Job /\ job.nextBlock \in Nat /\ job.kind = "WRITEALL"
  <2>1. job \in Job /\ job.nextBlock \in Nat /\ job.kind \in Kind
    BY BlockAssumption DEF FeeInv, TypeOK, Job
  <2>2. job.kind # "NONE" /\ JobState = "WRITEALL_APPEND"
    BY <1>2 DEF LogInv, Underway
  <2>3. QED
    BY <2>1, <2>2 DEF JobState, Kind
<1>5. CASE b = BlockCount
  <2>1. state' = "WRITE_DONE" /\ UNCHANGED <<flash, mem, flsOp, status, dir>>
    BY <1>2, <1>5 DEF HandleWriteAllAppend, flsVars
  <2>2. Cont' = "WRITE_DONE"
    BY <2>1 DEF Cont
  <2>3. FlashOK(flash)' /\ FlightOK' /\ Executed' = Executed
    BY <2>1, JobKept
  <2>4. Trusted' /\ NoFault'
    BY <1>1, <1>2, <2>1, <2>2, <2>3, TrustKept DEF NoFault
  <2>5. QED
    BY <2>1, <2>2, <2>3, <2>4, RestLog
<1>6. CASE b # BlockCount
  <2>1. Append(b, ram[b], "WRITEALL_APPEND") /\ job' = [job EXCEPT !.nextBlock = b + 1, !.cur = b]
    BY <1>2, <1>6 DEF HandleWriteAllAppend
  <2>2. b \in S /\ b \in Block /\ b >= job.nextBlock /\ \A x \in S : x >= job.nextBlock => b <= x
    <3>1. S \in SUBSET Block
      OBVIOUS
    <3> HIDE DEF S
    <3>2. QED
      BY <1>4, <1>6, <3>1, FirstFromIs
  <2>3. job'.kind = "WRITEALL" /\ job'.counted = job.counted /\ job'.nextBlock = b + 1
    BY <1>4, <2>1 DEF Job
  <2>4. /\ Remaining \in SUBSET Block /\ b \in Remaining /\ Remaining' = Remaining \ {b}
    <3>1. Remaining = {x \in S : x >= job.nextBlock}
      BY <1>4 DEF Remaining
    <3>2. Remaining' = {x \in S : x >= b + 1}
      BY <1>1, <2>3 DEF Remaining
    <3>3. \A x \in Block : x \in Nat
      BY BlockAssumption DEF Block
    <3>4. \A x \in S : x >= b + 1 <=> x >= job.nextBlock /\ x # b
      <4> HIDE DEF b
      <4>1. QED
        BY <1>4, <2>2, <3>3
    <3> HIDE DEF b
    <3>5. QED
      BY <2>2, <3>1, <3>2, <3>4
  <2> HIDE DEF b
  <2>5. /\ TotalOf(Remaining) = BlockTotal(DataCells[b]) + TotalOf(Remaining')
        /\ TotalOf(Remaining') \in Nat /\ BlockTotal(DataCells[b]) \in Nat
    <3>1. TotalOf(Remaining) = BlockTotal(DataCells[b]) + TotalOf(Remaining \ {b})
      BY <2>4, TotalSplit
    <3>2. Remaining \ {b} \in SUBSET Remaining
      OBVIOUS
    <3>3. TotalOf(Remaining \ {b}) \in Nat
      BY <2>4, <3>2, TotalMonotone
    <3>4. QED
      BY <2>2, <2>4, <3>1, <3>3, BlockTotalType
  <2>6. dir.headerEnd \in Nat /\ dir.index \in Cluster /\ ClusterLen[dir.index] \in Nat
    BY Room DEF FeeInv, TypeOK, Dir
  <2>7. dir.headerEnd + BlockTotal(DataCells[b]) <= ClusterLen[dir.index]
    BY <1>3, <2>5, <2>6 DEF HasRoom
  <2>8. FlsOK'
    BY WriteOK DEF FeeInv
  <2>9. /\ FlashOK(flash)' /\ FlightOK' /\ state' = "FLS_WAIT"
        /\ flsWaitReturn' = "WRITEALL_APPEND" /\ flsStatus' = "BUSY" /\ status' = status
        /\ Describes(Executed)' /\ Appends(Executed)' /\ dir'.index = dir.index
        /\ dir'.headerEnd = dir.headerEnd + BlockTotal(DataCells[b])
    BY <1>2, <1>3, <2>1, <2>2, <2>7, <2>8, RecordWritten
  <2>10. Cont' = "WRITEALL_APPEND"
    BY <2>9 DEF Cont
  <2>11. HasRoom'
    BY <1>3, <2>5, <2>6, <2>9 DEF HasRoom
  <2>12. Appending' /\ Reading'
    BY <2>9, <2>10, <2>11 DEF Appending, Reading, Toward, At
  <2>13. Trusted' /\ NoFault'
    BY <1>1, <1>2, <2>9, <2>10 DEF Trusted, NoFault
  <2>14. Underway'
    BY <1>1, <1>2, <1>4, <2>3, <2>10 DEF LogInv, Underway, JobState
  <2>15. QED
    BY <2>9, <2>10, <2>12, <2>13, <2>14, PlaceNext DEF LogInv, Elsewhere
<1>7. QED
  BY <1>5, <1>6

----------------------------------------------------------------------------
(* The invariant                                                           *)

\* A medium that was never used has no cluster, and no job is under way.
LEMMA InitLog == Init => LogInv
<1> SUFFICES ASSUME Init PROVE LogInv
  OBVIOUS
<1>1. flash = Blank /\ flsOp = NoOp /\ state = "IDLE" /\ dir = NoDir /\ find = NoFind
  BY DEF Init, InitOn, FlsInit
<1>2. Cont = "IDLE" /\ ~dir.valid /\ ~find.err /\ flsOp.kind = "NONE"
  BY <1>1, NoOpType DEF Cont, NoDir, NoFind
<1>3. FlashOK(flash)
  <2>1. \A k \in Cluster : flash[ClusterStart[k]] = Erased
    <3>1. ASSUME NEW k \in Cluster PROVE Blank[ClusterStart[k]] = Erased
      <4>1. ClusterStart[k] \in Nat /\ ClusterLen[k] \in Nat /\ ClusterLen[k] >= 1
            /\ \A i \in 0 .. ClusterLen[k] - 1 : ClusterStart[k] + i \in Addr
        BY Room
      <4>2. ClusterStart[k] + 0 \in Addr
        BY <4>1
      <4>3. ClusterStart[k] \in Addr
        BY <4>1, <4>2
      <4>4. QED
        BY <4>3 DEF Blank
    <3>2. QED
      BY <1>1, <3>1
  <2>2. ValidClusters(flash) = {}
    BY <2>1, CellAssumption DEF ValidClusters, GenOf, ClusterHdrGen
  <2>3. QED
    BY <2>2 DEF FlashOK
<1>4. FlightOK /\ Trusted /\ NoFault
  BY <1>1, <1>2 DEF FlightOK, Trusted, NoFault
<1>5. Appending /\ Reading /\ Underway
  BY <1>2 DEF Appending, Reading, Underway, Toward, At
<1>6. QED
  BY <1>2, <1>3, <1>4, <1>5, PlaceAlone DEF LogInv, Elsewhere

\* Every step of MiniFee_MainFunction keeps the invariant.
LEMMA MainFunctionLog == FeeInv /\ LogInv /\ InLife /\ MiniFee_MainFunction => LogInv'
  BY WaitLog, DoneLog, ErrorLog, StartLog, HeaderReadLog, BlankLog, ReuseLog, RescanLog,
     FreshEraseLog, FreshActivateLog, HdrWriteLog, FreshDoneLog, MetricsReadLog,
     MetricsEvalLog, MetricsDoneLog, PrepareLog, EraseDstLog, MigrateReadLog,
     MigrateWriteLog, MigrateActivateLog, SwitchLog, FindDoneLog, ReadByDirLog,
     VerifyCopyLog, ReadAllLog, MainLoopLog, WriteAllLog
  DEF MiniFee_MainFunction

\* So does a step in which nothing changes.
LEMMA StutterLog == LogInv /\ UNCHANGED vars => LogInv'
<1> SUFFICES ASSUME LogInv, UNCHANGED vars PROVE LogInv'
  OBVIOUS
<1>1. /\ UNCHANGED <<flash, mem, flsOp, flsStatus, flsResult>>
      /\ UNCHANGED <<state, flsWaitReturn, job, dir, find, mig, dirty>>
  BY DEF vars, flsVars, feeVars, callerVars
<1>2. Cont' = Cont
  BY <1>1 DEF Cont
<1>3. FlashOK(flash)' /\ FlightOK' /\ Executed' = Executed
  BY <1>1, JobKept
<1>4. Trusted' /\ Appending' /\ Reading' /\ Underway' /\ Fresh'
  BY <1>1, <1>2, <1>3, StateKept
<1>5. NoFault'
  BY <1>1, <1>2 DEF LogInv, NoFault
<1>6. \A subs : At(subs)' <=> At(subs)
  BY <1>1, <1>2 DEF At
<1>7. \A buf, a : Fetched(buf, a) => Fetched(buf, a)'
  BY <1>1, FetchedKept
<1>8. Looking'
  <2>1. Looked(Executed) => Looked(Executed)'
    BY <1>1, <1>2, <1>3, StateKept
  <2>2. QED
    BY <1>1, <1>6, <1>7, <2>1 DEF LogInv, Looking
<1>9. Scanning'
  <2>1. (ScannedTo(Executed) => ScannedTo(Executed)') /\ (Scanned(Executed) => Scanned(Executed)')
    BY <1>1, <1>2, <1>3, StateKept
  <2>2. QED
    BY <1>1, <1>6, <1>7, <2>1 DEF LogInv, Scanning
<1>10. Migrating'
  <2>1. RecordReady => RecordReady'
    BY <1>1 DEF RecordReady
  <2>2. At({"MIGRATE_WRITE"}) => RecordReady
    BY DEF LogInv, Migrating
  <2>3. QED
    BY <1>1, <1>2, <1>3, <2>1, <2>2, StateKept
<1>11. QED
  BY <1>3, <1>4, <1>5, <1>8, <1>9, <1>10 DEF LogInv

\* Every step on a sound flash keeps both invariants, as long as generations last.
LEMMA SoundStep == FeeInv /\ LogInv /\ InLife /\ [SoundNext]_vars => FeeInv' /\ LogInv'
<1> SUFFICES ASSUME FeeInv, LogInv, InLife, [SoundNext]_vars PROVE FeeInv' /\ LogInv'
  OBVIOUS
<1>1. [Next]_vars
  BY DEF SoundNext, Next
<1>2. FeeInv'
  BY <1>1, NextOK
<1>3. CASE SoundNext
  BY <1>2, <1>3, SubmitLog, CancelLog, MainFunctionLog, DriverLog, ResetLog DEF SoundNext
<1>4. CASE UNCHANGED vars
  BY <1>2, <1>4, StutterLog
<1>5. QED
  BY <1>2, <1>3, <1>4

\* At every moment the directory in RAM, the log in flash and the flash job in
\* flight agree: the invariant behind all that follows.
THEOREM LogInvariant == SoundSpec /\ []InLife => [](FeeInv /\ LogInv)
<1>1. Init => FeeInv /\ LogInv
  BY InitOK, InitLog
<1>2. FeeInv /\ LogInv /\ InLife /\ [SoundNext]_vars => FeeInv' /\ LogInv'
  BY SoundStep
<1>3. QED
  BY <1>1, <1>2, PTL DEF SoundSpec

----------------------------------------------------------------------------
(* The safety properties                                                   *)

\* Among clusters with distinct generations the one with the greatest is the newest.
LEMMA NewestIs ==
  ASSUME NEW fl, FlashOK(fl), Active(fl)
  PROVE  dir.index = Newest(fl)
<1> DEFINE valid == ValidClusters(fl)
           IsNewest(k) == \A j \in valid : GenOf(fl, j) <= GenOf(fl, k)
<1>1. \A j \in valid : GenOf(fl, j) \in Nat
  BY ClusterHdrGenType DEF ValidClusters, GenOf
<1>2. dir.index \in valid /\ IsNewest(dir.index)
  <2>1. dir.index \in valid /\ dir.gen = GenOf(fl, dir.index)
        /\ \A j \in valid : ~(GenOf(fl, j) > dir.gen)
    BY DEF Active, Newer
  <2>2. QED
    BY <1>1, <2>1
<1>3. ASSUME NEW k \in valid, IsNewest(k) PROVE k = dir.index
  <2>1. GenOf(fl, k) = GenOf(fl, dir.index)
    BY <1>1, <1>2, <1>3
  <2>2. QED
    BY <1>2, <2>1 DEF FlashOK
<1>4. Newest(fl) = CHOOSE k \in valid : IsNewest(k)
  BY DEF Newest
<1> HIDE DEF valid, IsNewest
<1>5. QED
  BY <1>2, <1>3, <1>4

\* Between jobs a directory that is trusted says of every block what a new scan
\* of the flash would say: the fast paths of MiniFee_Read and MiniFee_Write are
\* right to look nowhere else, whatever was cancelled, reset or cut off before.
THEOREM DirectoryIsFaithful == SoundSpec /\ []InLife => []DirectoryFaithful
<1>1. FeeInv /\ LogInv => DirectoryFaithful
  <2> SUFFICES ASSUME FeeInv, LogInv, state = "IDLE", dir.valid
               PROVE  IF ValidClusters(flash) = {} THEN dir.gen = NoGen /\ dir.offset = EmptyDir
                      ELSE /\ dir.index = Newest(flash)
                           /\ dir.gen = GenOf(flash, dir.index)
                           /\ dir.offset = Log(flash, dir.index).last
                           /\ dir.headerEnd = Log(flash, dir.index).end
    BY DEF DirectoryFaithful
  <2>1. flsOp.kind = "NONE"
    BY DEF FeeInv, FlsOK, BusyIffOp, DriverBusyOnlyForWaiter
  <2>2. Executed = flash /\ ~Moving
    BY <2>1, ReadEffect DEF Moving, At, Cont
  <2>3. Describes(flash)
    BY <2>2 DEF LogInv, Trusted
  <2>4. CASE ValidClusters(flash) = {}
    BY <2>3, <2>4 DEF Describes, Active
  <2>5. CASE ValidClusters(flash) # {}
    <3>1. /\ Active(flash) /\ dir.offset = Log(flash, dir.index).last
          /\ dir.headerEnd = Log(flash, dir.index).end
      BY <2>3, <2>5 DEF Describes
    <3>2. dir.index = Newest(flash) /\ dir.gen = GenOf(flash, dir.index)
      BY <3>1, NewestIs DEF LogInv, Active
    <3>3. QED
      BY <2>5, <3>1, <3>2
  <2>6. QED
    BY <2>4, <2>5
<1>2. QED
  BY <1>1, LogInvariant, PTL

\* MiniFee never programs a cell that is not erased: not with a new record, not
\* with a copy, not with a cluster header, after whatever was interrupted before.
THEOREM ProgramsErased == SoundSpec /\ []InLife => []OneProgramPerErase
<1>1. FeeInv /\ LogInv => OneProgramPerErase
  <2> SUFFICES ASSUME FeeInv, LogInv PROVE OneProgramPerErase
    OBVIOUS
  <2>1. FlsOK /\ FlightOK
    BY DEF FeeInv, LogInv
  <2>2. QED
    BY <2>1, WritesErased DEF OneProgramPerErase
<1>2. QED
  BY <1>1, LogInvariant, PTL

\* No two clusters ever carry the same generation, although a migration that is
\* cut short leaves its destination behind and the next one starts anew.
THEOREM GenerationsAreDistinct == SoundSpec /\ []InLife => []GenerationsDistinct
<1>1. LogInv => GenerationsDistinct
  BY DEF LogInv, FlashOK, GenerationsDistinct
<1>2. QED
  BY <1>1, LogInvariant, PTL

\* Every job of the flash stays within one cluster, and a record behind its header.
THEOREM JobsWithinCluster == SoundSpec /\ []InLife => []WithinOneCluster
<1> DEFINE record == flsOp.kind \in {"READ", "WRITE"} /\ flsOp.buf = "jobBuf"
           Within(k) == /\ flsOp.off >= ClusterStart[k] + (IF record THEN HeaderSize ELSE 0)
                        /\ flsOp.off + flsOp.len <= ClusterStart[k] + ClusterLen[k]
<1>1. ASSUME NEW k \in Cluster, ReadFlight(k) PROVE Within(k)
  <2>1. ClusterStart[k] \in Nat /\ ClusterLen[k] \in Nat /\ ClusterLen[k] >= 1
    BY Room
  <2>2. CASE flsOp = ReadOp(ClusterStart[k], "clusterHdrBuf", 0, HeaderSize)
    <3>1. flsOp.off = ClusterStart[k] /\ flsOp.len = 1 /\ ~record
      BY <2>2 DEF ReadOp, HeaderSize
    <3> HIDE DEF record
    <3>2. QED
      BY <2>1, <3>1
  <2>3. ASSUME NEW o \in HeaderSize .. ClusterLen[k], NEW n \in 0 .. ClusterLen[k] - o,
               \/ flsOp = ReadOp(ClusterStart[k] + o, "scanHdrBuf", 0, HeaderSize) /\ n = HeaderSize
               \/ \E at \in {0, HeaderSize} : flsOp = ReadOp(ClusterStart[k] + o, "jobBuf", at, n)
        PROVE  Within(k)
    <3>1. flsOp.off = ClusterStart[k] + o /\ flsOp.len = n
      BY <2>3 DEF ReadOp
    <3> HIDE DEF record
    <3>2. QED
      BY <2>1, <3>1 DEF HeaderSize
  <2>4. QED
    BY <1>1, <2>2, <2>3 DEF ReadFlight
<1>2. ASSUME NEW k \in Cluster, flsOp = EraseOp(ClusterStart[k], ClusterLen[k]) PROVE Within(k)
  <2>1. /\ flsOp.kind = "ERASE" /\ flsOp.off = ClusterStart[k] /\ flsOp.len = ClusterLen[k]
        /\ ClusterStart[k] \in Nat /\ ClusterLen[k] \in Nat
    BY <1>2, Room DEF EraseOp, NoOp
  <2>2. QED
    BY <2>1
<1>3. ASSUME NEW k \in Cluster, NEW b \in Block, RecordFlight(k, b) PROVE Within(k)
  <2>1. /\ flsOp.off = ClusterStart[k] + Log(flash, k).end
        /\ flsOp.len = BlockTotal(DataCells[b])
        /\ Log(flash, k).end + BlockTotal(DataCells[b]) <= ClusterLen[k]
    BY <1>3 DEF RecordFlight, WriteOp
  <2>2. /\ ClusterStart[k] \in Nat /\ ClusterLen[k] \in Nat
        /\ Log(flash, k).end \in HeaderSize .. ClusterLen[k]
        /\ BlockTotal(DataCells[b]) \in Nat
    BY Room, LogFacts, BlockTotalType
  <2> HIDE DEF record
  <2>3. QED
    BY <2>1, <2>2 DEF HeaderSize
<1>4. ASSUME NEW k \in Cluster, NEW gen, HeaderFlight(k, gen) PROVE Within(k)
  <2>1. flsOp.off = ClusterStart[k] /\ flsOp.len = 1 /\ ~record
    BY <1>4 DEF HeaderFlight, WriteOp, HeaderSize
  <2>2. ClusterStart[k] \in Nat /\ ClusterLen[k] \in Nat /\ ClusterLen[k] >= 1
    BY Room
  <2> HIDE DEF record
  <2>3. QED
    BY <2>1, <2>2
<1>5. LogInv /\ flsOp.kind # "NONE" => \E k \in Cluster : Within(k)
  <2> HIDE DEF Within
  <2>1. QED
    BY <1>1, <1>2, <1>3, <1>4 DEF LogInv, FlightOK
<1>6. LogInv => WithinOneCluster
  BY <1>5 DEF WithinOneCluster
<1>7. QED
  BY <1>6, LogInvariant, PTL

\* A step that ends a job with MINIFEE_STATUS_NOT_OK is a cancellation or the end
\* of a job whose first request the driver refused.
LEMMA FailingStep ==
  ASSUME FeeInv, LogInv, SoundNext, status = "BUSY", status' = "NOT_OK"
  PROVE  MiniFee_Cancel \/ RefusedAtStart
<1>1. ~Submit
  BY DEF Submit, CallRead, CallWrite, CallWriteAll, CallReadAll, MiniFee_Read, MiniFee_Write,
         MiniFee_WriteAll, MiniFee_ReadAll, StartJob
<1>2. ~Driver /\ ~Reset /\ ~PowerLoss
  BY DEF Driver, feeVars, Reset, PowerLoss, Restart, MiniFee_Init, ResetContext
<1>3. CASE MiniFee_Cancel
  BY <1>3
<1>4. CASE MiniFee_MainFunction
  <2>1. CASE state = "ERROR"
    BY <2>1 DEF LogInv, NoFault, Cont, RefusedAtStart
  <2>2. CASE state # "ERROR"
    <3>1. ~(HandleReadByDir \/ HandleReadVerifyCopy \/ HandleReadAllFill
            \/ HandleWriteMainLoopProc \/ HandleWriteAllAppend)
      BY ReadByDirLog, VerifyCopyLog, ReadAllLog, MainLoopLog, WriteAllLog
    <3>2. ~JobDone /\ ~JobError
      BY <2>2 DEF JobDone, FinalizeOk, JobError
    <3>3. QED
      BY <1>4, <3>1, <3>2
      DEF MiniFee_MainFunction, HandleFlsWait, FindStart, FindGoto, FindFls,
          FindReadClusterHdrDone, DecideBlank, DecideReuse, DecideScan, FindFreshErase,
          FindFreshActivate, FindWriteHdrWrite, FindFreshActivateDone, FindMetricsRead,
          FindMetricsEval, FindMetricsDone, FindMigratePrepare, FindMigrateEraseDst,
          FindMigrateRead, FindMigrateWrite, FindMigrateActivate, FindMigrateSwitch, FindDone
  <2>3. QED
    BY <2>1, <2>2
<1>5. QED
  BY <1>1, <1>2, <1>3, <1>4 DEF SoundNext

\* On a sound flash a job fails only because it is cancelled, or because the flash
\* is still at work for one that was: never for lack of room, never because of
\* what an earlier job, a reset or a cancellation left behind.
THEOREM FailsForAReason == SoundSpec /\ []InLife => NoSpuriousFailure
<1>1. FeeInv /\ LogInv /\ [SoundNext]_vars
        => [status = "BUSY" /\ status' = "NOT_OK" => MiniFee_Cancel \/ RefusedAtStart]_vars
  BY FailingStep
<1>2. QED
  BY <1>1, LogInvariant, PTL DEF SoundSpec, NoSpuriousFailure
=============================================================================
