---------------------------- MODULE FeeLogProof ----------------------------
(***************************************************************************)
(* Lemmas about LogInv on a sound flash: what a flash job leaves of the    *)
(* clusters and their logs, where each part of LogInv looks, and that a    *)
(* step of the driver or a loss of power keeps it.                         *)
(***************************************************************************)
EXTENDS LogProof, MiniFeeProof

----------------------------------------------------------------------------
(* The cluster table                                                       *)

\* The cells of a cluster are on the medium.
LEMMA Room ==
  ASSUME NEW k \in Cluster
  PROVE  /\ ClusterStart[k] \in Nat /\ ClusterLen[k] \in Nat /\ ClusterLen[k] >= 1
         /\ FlashSize \in Nat /\ ClusterStart[k] + ClusterLen[k] <= FlashSize
         /\ \A i \in 0 .. ClusterLen[k] - 1 : ClusterStart[k] + i \in Addr
  BY ClusterAssumption, FlashAssumption, RoomAssumption DEF Addr

\* No cell belongs to two clusters.
LEMMA Apart ==
  ASSUME NEW j \in Cluster, NEW k \in Cluster, j # k, NEW i \in 0 .. ClusterLen[j] - 1
  PROVE  ClusterStart[j] + i \notin ClusterStart[k] .. ClusterStart[k] + ClusterLen[k] - 1
<1>1. /\ ClusterStart[j] \in Nat /\ ClusterLen[j] \in Nat
      /\ ClusterStart[k] \in Nat /\ ClusterLen[k] \in Nat
  BY Room
<1>2. \/ ClusterStart[j] + ClusterLen[j] <= ClusterStart[k]
      \/ ClusterStart[k] + ClusterLen[k] <= ClusterStart[j]
  BY RoomAssumption
<1>3. QED
  BY <1>1, <1>2

----------------------------------------------------------------------------
(* Media that differ in one cluster                                        *)

\* A cluster whose cells are the same has the same generation and the same log.
LEMMA WholeCluster ==
  ASSUME NEW fl, NEW gl, NEW k \in Cluster, Same(fl, gl, k, 0)
  PROVE  /\ GenOf(gl, k) = GenOf(fl, k)
         /\ Same(fl, gl, k, HeaderSize)
         /\ Log(gl, k).end = Log(fl, k).end
         /\ Log(gl, k).last = Log(fl, k).last
         /\ ClusterOK(fl, k) => ClusterOK(gl, k)
         /\ \A o \in HeaderSize .. ClusterLen[k] : CleanFrom(fl, k, o) => CleanFrom(gl, k, o)
<1>1. ClusterStart[k] \in Nat /\ ClusterLen[k] \in Nat /\ ClusterLen[k] >= 1
  BY Room
<1>2. Same(fl, gl, k, HeaderSize)
  BY <1>1 DEF Same, HeaderSize
<1>3. gl[ClusterStart[k]] = fl[ClusterStart[k]]
  BY <1>1 DEF Same
<1>4. GenOf(gl, k) = GenOf(fl, k)
  BY <1>3 DEF GenOf
<1>5. QED
  BY <1>2, <1>4, SameCluster

\* FlashOK survives a change of one cluster that leaves it sound or without header,
\* or gives it a new generation above all others.
LEMMA FlashOKStep ==
  ASSUME NEW fl, NEW gl, NEW k \in Cluster, FlashOK(fl),
         \A j \in Cluster \ {k} : Same(fl, gl, j, 0),
         \/ GenOf(gl, k) = NoGen
         \/ GenOf(gl, k) = GenOf(fl, k) /\ (ClusterOK(fl, k) => ClusterOK(gl, k))
         \/ /\ GenOf(gl, k) > 0 /\ ClusterOK(gl, k)
            /\ \A j \in ValidClusters(fl) : GenOf(fl, j) < GenOf(gl, k)
  PROVE  FlashOK(gl)
<1>1. \A j \in Cluster \ {k} : /\ GenOf(gl, j) = GenOf(fl, j)
                               /\ ClusterOK(fl, j) => ClusterOK(gl, j)
  BY WholeCluster
<1>2. \A j \in Cluster \ {k} : j \in ValidClusters(gl) <=> j \in ValidClusters(fl)
  BY <1>1 DEF ValidClusters
<1>3. \A j : GenOf(fl, j) \in Nat \cup {NoGen} /\ GenOf(gl, j) \in Nat \cup {NoGen}
  BY ClusterHdrGenType DEF GenOf
<1>4. k \in ValidClusters(gl) => GenOf(gl, k) # NoGen
  BY DEF ValidClusters
<1>5. k \in ValidClusters(gl) /\ GenOf(gl, k) = GenOf(fl, k) => k \in ValidClusters(fl)
  BY DEF ValidClusters
<1>6. ValidClusters(gl) \subseteq Cluster /\ NoGen = -1
  BY DEF ValidClusters, NoGen
<1>7. ASSUME NEW j \in ValidClusters(gl) PROVE GenOf(gl, j) > 0 /\ ClusterOK(gl, j)
  BY <1>1, <1>2, <1>4, <1>5, <1>6, <1>7 DEF FlashOK
<1>8. ASSUME NEW i \in ValidClusters(gl), NEW j \in ValidClusters(gl),
             GenOf(gl, i) = GenOf(gl, j)
      PROVE  i = j
  <2>1. CASE GenOf(gl, k) = NoGen
    BY <1>1, <1>2, <1>4, <1>6, <1>8, <2>1 DEF FlashOK
  <2>2. CASE GenOf(gl, k) = GenOf(fl, k)
    <3>1. i \in ValidClusters(fl) /\ j \in ValidClusters(fl)
      BY <1>2, <1>5, <1>6, <2>2
    <3>2. GenOf(fl, i) = GenOf(fl, j)
      BY <1>1, <1>6, <1>8, <2>2
    <3>3. QED
      BY <3>1, <3>2 DEF FlashOK
  <2>3. CASE \A x \in ValidClusters(fl) : GenOf(fl, x) < GenOf(gl, k)
    <3>1. \A x \in ValidClusters(gl) : x # k => GenOf(gl, x) < GenOf(gl, k)
      BY <1>1, <1>2, <1>6, <2>3
    <3>2. CASE i # k /\ j # k
      BY <1>1, <1>2, <1>6, <1>8, <3>2 DEF FlashOK
    <3>3. CASE i = k \/ j = k
      BY <1>3, <1>6, <1>8, <3>1, <3>3
    <3>4. QED
      BY <3>2, <3>3
  <2>4. QED
    BY <2>1, <2>2, <2>3
<1>9. QED
  BY <1>7, <1>8 DEF FlashOK

----------------------------------------------------------------------------
(* What a flash job leaves, done or interrupted                            *)

Images == {Executed} \cup Interrupted

\* A job changes no cell but those it is about.
LEMMA OutsideKept ==
  ASSUME FlsOK, NEW gl \in Images, NEW a \in Addr, ~InOp(a)
  PROVE  gl[a] = flash[a]
<1>1. flash \in [Addr -> Cell]
  BY DEF FlsOK, FlsTypeOK
<1>2. Executed[a] = flash[a]
  BY <1>1 DEF Executed
<1>3. \A n : Cut(n)[a] = flash[a]
  BY <1>2 DEF Cut
<1>4. QED
  BY <1>2, <1>3 DEF Images, Interrupted

\* The cells of the job in flight are in cluster k.
JobIn(k) == /\ flsOp.off \in Nat /\ flsOp.len \in Nat
            /\ ClusterStart[k] <= flsOp.off
            /\ flsOp.off + flsOp.len <= ClusterStart[k] + ClusterLen[k]

\* So a job in one cluster leaves the others alone.
LEMMA OthersKept ==
  ASSUME FlsOK, NEW gl \in Images, NEW k \in Cluster, JobIn(k)
  PROVE  \A j \in Cluster \ {k} : Same(flash, gl, j, 0)
<1> SUFFICES ASSUME NEW j \in Cluster \ {k}, NEW i \in 0 .. ClusterLen[j] - 1
             PROVE  gl[ClusterStart[j] + i] = flash[ClusterStart[j] + i]
  BY DEF Same
<1>1. ClusterStart[j] + i \notin ClusterStart[k] .. ClusterStart[k] + ClusterLen[k] - 1
  BY Apart
<1>2. ClusterStart[j] + i \in Addr
  BY Room
<1>3. /\ ClusterStart[k] \in Nat /\ ClusterLen[k] \in Nat
      /\ ClusterStart[j] \in Nat /\ ClusterLen[j] \in Nat
  BY Room
<1>4. ~InOp(ClusterStart[j] + i)
  BY <1>1, <1>3 DEF InOp, JobIn
<1>5. QED
  BY <1>2, <1>4, OutsideKept

\* Reading, or nothing in flight, changes nothing.
LEMMA ExecutedRead ==
  ASSUME flsOp.kind \in {"NONE", "READ"}
  PROVE  Executed = flash /\ Images = {flash}
  BY DEF Executed, Images, Interrupted

\* Erasing cluster k: whatever comes of it, it has no header any more.
LEMMA EraseImage ==
  ASSUME FlsOK, NEW k \in Cluster, flsOp = EraseOp(ClusterStart[k], ClusterLen[k]),
         NEW gl \in Images
  PROVE  /\ JobIn(k) /\ (gl = flash \/ GenOf(gl, k) = NoGen) /\ GenOf(Executed, k) = NoGen
         /\ \A i \in 0 .. ClusterLen[k] - 1 : Executed[ClusterStart[k] + i] = Erased
<1>1. /\ flsOp.kind = "ERASE" /\ flsOp.off = ClusterStart[k] /\ flsOp.len = ClusterLen[k]
  <2>1. NoOp = [NoOp EXCEPT !.kind = "NONE"]
    BY DEF NoOp
  <2>2. QED
    BY DEF EraseOp, NoOp
<1>2. /\ ClusterStart[k] \in Nat /\ ClusterLen[k] \in Nat /\ ClusterLen[k] >= 1
      /\ \A i \in 0 .. ClusterLen[k] - 1 : ClusterStart[k] + i \in Addr
  BY Room
<1>3. \A i \in 0 .. ClusterLen[k] - 1 : Executed[ClusterStart[k] + i] = Erased
  BY <1>1, <1>2 DEF Executed, InOp
<1>4. ClusterStart[k] \in Addr /\ Executed[ClusterStart[k]] = Erased
  BY <1>2, <1>3
<1>5. \A n \in 0 .. flsOp.len - 1 : Cut(n)[ClusterStart[k]] \in {Erased, Torn}
  BY <1>1, <1>2, <1>4 DEF Cut, InOp
<1>6. gl[ClusterStart[k]] \in {Erased, Torn} \/ gl = flash
  BY <1>4, <1>5 DEF Images, Interrupted
<1>7. QED
  BY <1>1, <1>2, <1>3, <1>4, <1>6, CellAssumption DEF JobIn, GenOf, ClusterHdrGen

\* A write of len cells to erased flash in cluster k violates nothing: it leaves the
\* source's cells, or, cut short, a torn one among them and erased ones behind it.
LEMMA WriteImage ==
  ASSUME FlsOK, NEW k \in Cluster, JobIn(k), flsOp.kind = "WRITE",
         \A i \in 0 .. flsOp.len - 1 : flash[flsOp.off + i] = Erased
  PROVE  /\ ~Violates
         /\ \A i \in 0 .. flsOp.len - 1 :
              /\ Executed[flsOp.off + i] = Source(flsOp.off + i)
              /\ \A n \in 0 .. flsOp.len - 1 :
                   Cut(n)[flsOp.off + i] = IF i > n THEN Erased ELSE IF i = n THEN Torn
                                           ELSE Source(flsOp.off + i)
<1>1. /\ flsOp.off \in Nat /\ flsOp.len \in Nat
      /\ flsOp.off + flsOp.len <= FlashSize /\ FlashSize \in Nat
  BY Room DEF JobIn
<1>2. \A a : InOp(a) => \E i \in 0 .. flsOp.len - 1 : a = flsOp.off + i
  <2>1. SUFFICES ASSUME NEW a, InOp(a) PROVE \E i \in 0 .. flsOp.len - 1 : a = flsOp.off + i
    OBVIOUS
  <2>2. a - flsOp.off \in 0 .. flsOp.len - 1 /\ a = flsOp.off + (a - flsOp.off)
    BY <1>1, <2>1 DEF InOp
  <2>3. QED
    BY <2>2
<1>3. \A i \in 0 .. flsOp.len - 1 : flsOp.off + i \in Addr /\ InOp(flsOp.off + i)
  BY <1>1 DEF Addr, InOp
<1>4. ~Violates
  BY <1>2 DEF Violates, Programmable
<1>5. Executed = [a \in Addr |-> IF InOp(a) THEN Source(a) ELSE flash[a]]
  BY <1>4 DEF Executed
<1>6. \A i \in 0 .. flsOp.len - 1 : Executed[flsOp.off + i] = Source(flsOp.off + i)
  BY <1>3, <1>5
<1>7. ASSUME NEW i \in 0 .. flsOp.len - 1, NEW n \in 0 .. flsOp.len - 1
      PROVE  Cut(n)[flsOp.off + i] = IF i > n THEN Erased ELSE IF i = n THEN Torn
                                     ELSE Source(flsOp.off + i)
  <2>1. Cut(n)[flsOp.off + i] =
          IF flsOp.off + i > flsOp.off + n THEN flash[flsOp.off + i]
          ELSE IF flsOp.off + i = flsOp.off + n THEN Torn ELSE Executed[flsOp.off + i]
    BY <1>3 DEF Cut
  <2>2. (flsOp.off + i > flsOp.off + n <=> i > n) /\ (flsOp.off + i = flsOp.off + n <=> i = n)
    BY <1>1
  <2>3. QED
    BY <1>6, <2>1, <2>2
<1>8. QED
  BY <1>4, <1>6, <1>7

\* The first cell of a write is the first cell of its buffer.
LEMMA FirstSource ==
  ASSUME NEW off \in Nat, NEW buf, NEW len, flsOp = WriteOp(off, buf, 0, len)
  PROVE  Source(off) = mem[buf][0]
  BY DEF WriteOp, Source

\* A cluster header on its way leaves the rest of its cluster alone; it gives the
\* cluster its generation, or, cut short, none.
LEMMA HeaderImage ==
  ASSUME FlsOK, NEW k \in Cluster, NEW gen \in 1 .. GenMod - 1, HeaderFlight(k, gen),
         NEW gl \in Images
  PROVE  /\ JobIn(k) /\ ~Violates
         /\ \A i \in 0 .. flsOp.len - 1 : flash[flsOp.off + i] = Erased
         /\ GenOf(Executed, k) = gen
         /\ gl \in {flash, Executed} \/ GenOf(gl, k) = NoGen
         /\ Same(flash, gl, k, HeaderSize)
<1>1. /\ flsOp = WriteOp(ClusterStart[k], "writeHdrBuf", 0, HeaderSize)
      /\ flsOp.kind = "WRITE" /\ flsOp.off = ClusterStart[k] /\ flsOp.len = 1
  BY DEF HeaderFlight, WriteOp, HeaderSize
<1>2. /\ ClusterStart[k] \in Nat /\ ClusterLen[k] \in Nat /\ ClusterLen[k] >= 1
      /\ \A i \in 0 .. ClusterLen[k] - 1 : ClusterStart[k] + i \in Addr
  BY Room
<1>3. JobIn(k)
  BY <1>1, <1>2 DEF JobIn
<1>4. 0 \in 0 .. flsOp.len - 1 /\ \A i \in 0 .. flsOp.len - 1 : i = 0
  BY <1>1
<1>5. \A i \in 0 .. flsOp.len - 1 : flash[flsOp.off + i] = Erased
  BY <1>1, <1>2, <1>4 DEF HeaderFlight
<1>6. /\ ~Violates
      /\ Executed[flsOp.off + 0] = Source(flsOp.off + 0)
      /\ \A n \in 0 .. flsOp.len - 1 : Cut(n)[flsOp.off + 0] = Torn
  BY <1>1, <1>3, <1>4, <1>5, WriteImage
<1>7. Executed[ClusterStart[k]] = [gen |-> gen]
  <2>1. Source(ClusterStart[k]) = mem["writeHdrBuf"][0]
    BY <1>1, <1>2, FirstSource
  <2>2. QED
    BY <1>1, <1>2, <1>6, <2>1 DEF HeaderFlight
<1>8. GenOf(Executed, k) = gen
  <2>1. [gen |-> gen] \in ClusterHeader
    BY ClusterAssumption DEF ClusterHeader
  <2>2. QED
    BY <1>7, <2>1 DEF GenOf, ClusterHdrGen
<1>9. gl \in {flash, Executed} \/ GenOf(gl, k) = NoGen
  <2>1. \A n \in 0 .. flsOp.len - 1 : GenOf(Cut(n), k) = NoGen
    BY <1>1, <1>2, <1>6, CellAssumption DEF GenOf, ClusterHdrGen
  <2>2. QED
    BY <2>1 DEF Images, Interrupted
<1>10. Same(flash, gl, k, HeaderSize)
  <2>1. SUFFICES ASSUME NEW i \in HeaderSize .. ClusterLen[k] - 1
                 PROVE  gl[ClusterStart[k] + i] = flash[ClusterStart[k] + i]
    BY DEF Same
  <2>2. ClusterStart[k] + i \in Addr /\ ~InOp(ClusterStart[k] + i)
    BY <1>1, <1>2 DEF InOp, HeaderSize
  <2>3. QED
    BY <2>2, OutsideKept
<1>11. QED
  BY <1>3, <1>5, <1>6, <1>8, <1>9, <1>10

\* A record on its way to the end of a log is appended to it, or, cut short, leaves
\* damage behind it; the header of the cluster stays.
LEMMA RecordImage ==
  ASSUME FlsOK, NEW k \in Cluster, NEW b \in Block, RecordFlight(k, b), NEW gl \in Images
  PROVE  LET end == Log(flash, k).end
             total == BlockTotal(DataCells[b])
         IN  /\ JobIn(k) /\ ~Violates
             /\ \A i \in 0 .. flsOp.len - 1 : flash[flsOp.off + i] = Erased
             /\ gl[ClusterStart[k]] = flash[ClusterStart[k]]
             /\ ClusterOK(gl, k)
             /\ Log(Executed, k).end = end + total
             /\ \A x \in Block : Log(Executed, k).last[x] = IF x = b THEN end
                                                           ELSE Log(flash, k).last[x]
             /\ CleanFrom(Executed, k, end + total)
<1> DEFINE start == ClusterStart[k]
           len == ClusterLen[k]
           end == Log(flash, k).end
           total == BlockTotal(DataCells[b])
<1>1. /\ start \in Nat /\ len \in Nat /\ len >= 1
      /\ \A i \in 0 .. len - 1 : start + i \in Addr
  BY Room
<1>2. end \in Nat /\ end >= 1 /\ end + total <= len /\ total \in Nat /\ total >= 1
  BY LogFacts, BlockTotalType DEF RecordFlight, HeaderSize
<1>3. /\ flsOp = WriteOp(start + end, "jobBuf", 0, total)
      /\ flsOp.kind = "WRITE" /\ flsOp.off = start + end /\ flsOp.len = total
  BY DEF RecordFlight, WriteOp
<1>4. CleanFrom(flash, k, end) /\ ClusterOK(flash, k) /\ mem["jobBuf"][0] = PackBlockHdr(b)
  BY DEF RecordFlight
<1> HIDE DEF end, total, start, len
<1>5. JobIn(k)
  BY <1>1, <1>2, <1>3 DEF JobIn, start, len
<1>6. \A i \in 0 .. total - 1 : flash[(start + end) + i] = Erased
  <2>1. \A i \in 0 .. total - 1 : end + i \in end .. len - 1 /\ start + (end + i) = (start + end) + i
    BY <1>1, <1>2
  <2>2. QED
    BY <1>4, <2>1 DEF CleanFrom, start, len
<1>7. /\ ~Violates
      /\ Executed[(start + end) + 0] = Source((start + end) + 0)
      /\ \A n \in 0 .. total - 1 :
           Cut(n)[(start + end) + 0] = IF 0 > n THEN Erased ELSE IF 0 = n THEN Torn
                                       ELSE Source((start + end) + 0)
  <2>1. 0 \in 0 .. total - 1
    BY <1>2
  <2>2. QED
    BY <1>3, <1>5, <1>6, <2>1, WriteImage
<1>8. (start + end) + 0 = start + end /\ start + end \in Nat
  BY <1>1, <1>2
<1>9. Source(start + end) = PackBlockHdr(b)
  BY <1>3, <1>4, <1>8, FirstSource
<1>10. ASSUME NEW fl \in Images, NEW i \in 0 .. len - 1, i < end \/ i >= end + total
       PROVE  fl[start + i] = flash[start + i]
  <2>1. start + i \in Addr
    BY <1>1
  <2>2. ~InOp(start + i)
    BY <1>1, <1>2, <1>3, <1>10 DEF InOp
  <2>3. QED
    BY <2>1, <2>2, OutsideKept
<1>11. ASSUME NEW fl \in Images PROVE \A i \in HeaderSize .. end - 1 : fl[start + i] = flash[start + i]
  <2>1. \A i \in HeaderSize .. end - 1 : i \in 0 .. len - 1 /\ i < end
    BY <1>1, <1>2 DEF HeaderSize
  <2>2. QED
    BY <1>10, <2>1
<1>12. ASSUME NEW fl \in Images PROVE CleanFrom(fl, k, end + total)
  <2>1. \A i \in end + total .. len - 1 : fl[start + i] = flash[start + i]
    BY <1>2, <1>10
  <2>2. \A i \in end + total .. len - 1 : flash[start + i] = Erased
    BY <1>2, <1>4 DEF CleanFrom, start, len
  <2>3. QED
    BY <2>1, <2>2 DEF CleanFrom, start, len
<1>13. ASSUME NEW fl \in Images, fl[start + end] = PackBlockHdr(b)
       PROVE  /\ Log(fl, k).end = end + total
              /\ \A x \in Block : Log(fl, k).last[x] = IF x = b THEN end ELSE Log(flash, k).last[x]
              /\ ClusterOK(fl, k)
  <2>1. CleanFrom(fl, k, end + total)
    BY <1>12
  <2>2. \A i \in HeaderSize .. end - 1 : fl[start + i] = flash[start + i]
    BY <1>11
  <2>3. QED
    BY <1>2, <1>4, <1>13, <2>1, <2>2, RecordAppended DEF end, total, start, len
<1>14. Executed \in Images /\ Executed[start + end] = PackBlockHdr(b)
  BY <1>7, <1>8, <1>9 DEF Images
<1>15. ClusterOK(gl, k)
  <2>1. gl = flash \/ gl[start + end] = PackBlockHdr(b) \/ gl[start + end] = Torn
    <3>1. \A n \in 0 .. total - 1 : Cut(n)[start + end] \in {PackBlockHdr(b), Torn}
      BY <1>2, <1>7, <1>8, <1>9
    <3>2. QED
      BY <1>3, <1>14, <3>1 DEF Images, Interrupted
  <2>2. CASE gl[start + end] = Torn
    <3>1. \A i \in HeaderSize .. end - 1 : gl[start + i] = flash[start + i]
      BY <1>11
    <3>2. QED
      BY <1>4, <2>2, <3>1, RecordTorn DEF end, start
  <2>3. QED
    BY <1>4, <1>13, <2>1, <2>2
<1>16. gl[start] = flash[start]
  <2>1. 0 \in 0 .. len - 1 /\ 0 < end /\ start + 0 = start
    BY <1>1, <1>2
  <2>2. gl[start + 0] = flash[start + 0]
    BY <1>10, <2>1
  <2>3. QED
    BY <2>1, <2>2
<1>17. QED
  BY <1>3, <1>5, <1>6, <1>7, <1>12, <1>13, <1>14, <1>15, <1>16 DEF end, total, start

\* Whatever a job leaves, done or cut short, is a sound medium.
LEMMA ImagesOK ==
  ASSUME FlsOK, BusyIffOp, FlashOK(flash), FlightOK, NEW gl \in Images
  PROVE  FlashOK(gl)
<1>1. CASE flsOp.kind \in {"NONE", "READ"}
  BY <1>1, ExecutedRead
<1>2. CASE flsOp.kind \notin {"NONE", "READ"}
  <2>1. PICK k \in Cluster :
          \/ flsOp = EraseOp(ClusterStart[k], ClusterLen[k])
          \/ \E b \in Block : RecordFlight(k, b)
          \/ \E gen \in 1 .. GenMod - 1 : HeaderFlight(k, gen)
    <3>1. \A k : ~ReadFlight(k)
      BY <1>2 DEF ReadFlight, ReadOp
    <3>2. QED
      BY <1>2, <3>1 DEF FlightOK
  <2>2. CASE flsOp = EraseOp(ClusterStart[k], ClusterLen[k])
    BY <2>2, EraseImage, OthersKept, FlashOKStep
  <2>3. ASSUME NEW b \in Block, RecordFlight(k, b) PROVE FlashOK(gl)
    <3>1. JobIn(k) /\ gl[ClusterStart[k]] = flash[ClusterStart[k]] /\ ClusterOK(gl, k)
      BY <2>3, RecordImage
    <3>2. \A j \in Cluster \ {k} : Same(flash, gl, j, 0)
      BY <3>1, OthersKept
    <3>3. GenOf(gl, k) = GenOf(flash, k)
      BY <3>1 DEF GenOf
    <3>4. QED
      BY <3>1, <3>2, <3>3, FlashOKStep
  <2>4. ASSUME NEW gen \in 1 .. GenMod - 1, HeaderFlight(k, gen) PROVE FlashOK(gl)
    <3>1. /\ JobIn(k) /\ GenOf(Executed, k) = gen /\ Same(flash, gl, k, HeaderSize)
          /\ gl \in {flash, Executed} \/ GenOf(gl, k) = NoGen
      BY <2>4, HeaderImage
    <3>2. \A j \in Cluster \ {k} : Same(flash, gl, j, 0)
      BY <3>1, OthersKept
    <3>3. ClusterOK(gl, k)
      BY <2>4, <3>1, SameCluster DEF HeaderFlight
    <3>4. gen > 0 /\ \A j \in ValidClusters(flash) : GenOf(flash, j) < gen
      BY <2>4, ClusterAssumption DEF HeaderFlight
    <3>5. CASE gl = flash
      BY <3>5
    <3>6. CASE gl # flash
      BY <3>1, <3>2, <3>3, <3>4, <3>6, FlashOKStep
    <3>7. QED
      BY <3>5, <3>6
  <2>5. QED
    BY <2>1, <2>2, <2>3, <2>4
<1>3. QED
  BY <1>1, <1>2

\* The job in flight programs erased cells only, and nothing it is refused for.
LEMMA WritesErased ==
  ASSUME FlsOK, FlightOK, flsOp.kind = "WRITE"
  PROVE  OneProgramPerErase /\ ~Violates
<1>1. PICK k \in Cluster :
        \/ \E b \in Block : RecordFlight(k, b)
        \/ \E gen \in 1 .. GenMod - 1 : HeaderFlight(k, gen)
  <2>1. \A k : ~ReadFlight(k) /\ flsOp # EraseOp(ClusterStart[k], ClusterLen[k])
    <3>1. \A off, len : EraseOp(off, len).kind = "ERASE"
      BY DEF EraseOp, NoOp
    <3>2. QED
      BY <3>1 DEF ReadFlight, ReadOp
  <2>2. QED
    BY <2>1 DEF FlightOK
<1>2. Executed \in Images
  BY DEF Images
<1>3. JobIn(k) /\ ~Violates /\ \A i \in 0 .. flsOp.len - 1 : flash[flsOp.off + i] = Erased
  BY <1>1, <1>2, RecordImage, HeaderImage
<1>4. ASSUME NEW a \in Addr, InOp(a) PROVE flash[a] = Erased
  <2>1. a - flsOp.off \in 0 .. flsOp.len - 1 /\ flsOp.off + (a - flsOp.off) = a
    BY <1>3, <1>4 DEF InOp, JobIn
  <2>2. QED
    BY <1>3, <2>1
<1>5. QED
  BY <1>3, <1>4 DEF OneProgramPerErase

----------------------------------------------------------------------------
(* What a flash job leaves when it is done                                 *)

\* The job changes no cluster but k.
OnlyIn(k) == \A j \in Cluster \ {k} : Same(flash, Executed, j, 0)

\* What an erasure, a record and a header leave when they are done.
ErasureLeaves ==
  \A k \in Cluster :
    FlsOK /\ flsOp = EraseOp(ClusterStart[k], ClusterLen[k])
      => /\ OnlyIn(k) /\ GenOf(Executed, k) = NoGen
         /\ Executed[ClusterStart[k]] = Erased /\ CleanFrom(Executed, k, HeaderSize)

RecordLeaves ==
  \A k \in Cluster, b \in Block :
    FlsOK /\ RecordFlight(k, b)
      => /\ OnlyIn(k) /\ Executed[ClusterStart[k]] = flash[ClusterStart[k]]
         /\ ClusterOK(Executed, k)
         /\ Log(Executed, k).end = Log(flash, k).end + BlockTotal(DataCells[b])
         /\ \A x \in Block : Log(Executed, k).last[x] = IF x = b THEN Log(flash, k).end
                                                       ELSE Log(flash, k).last[x]
         /\ CleanFrom(Executed, k, Log(flash, k).end + BlockTotal(DataCells[b]))

HeaderLeaves ==
  \A k \in Cluster, gen \in 1 .. GenMod - 1 :
    FlsOK /\ HeaderFlight(k, gen)
      => OnlyIn(k) /\ GenOf(Executed, k) = gen /\ Same(flash, Executed, k, HeaderSize)

\* Cluster k erased.
LEMMA EraseEffect == ErasureLeaves
<1> SUFFICES ASSUME NEW k \in Cluster, FlsOK, flsOp = EraseOp(ClusterStart[k], ClusterLen[k])
             PROVE  /\ OnlyIn(k) /\ GenOf(Executed, k) = NoGen
                    /\ Executed[ClusterStart[k]] = Erased /\ CleanFrom(Executed, k, HeaderSize)
  BY DEF ErasureLeaves
<1>1. Executed \in Images
  BY DEF Images
<1>2. /\ JobIn(k) /\ GenOf(Executed, k) = NoGen
      /\ \A i \in 0 .. ClusterLen[k] - 1 : Executed[ClusterStart[k] + i] = Erased
  BY <1>1, EraseImage
<1>3. ClusterStart[k] \in Nat /\ ClusterLen[k] \in Nat /\ ClusterLen[k] >= 1
  BY Room
<1>4. Executed[ClusterStart[k]] = Erased /\ CleanFrom(Executed, k, HeaderSize)
  BY <1>2, <1>3 DEF CleanFrom, HeaderSize
<1>5. QED
  BY <1>1, <1>2, <1>4, OthersKept DEF OnlyIn

\* A record appended to the log of cluster k.
LEMMA RecordEffect == RecordLeaves
<1> SUFFICES ASSUME NEW k \in Cluster, NEW b \in Block, FlsOK, RecordFlight(k, b)
             PROVE  /\ OnlyIn(k) /\ Executed[ClusterStart[k]] = flash[ClusterStart[k]]
                    /\ ClusterOK(Executed, k)
                    /\ Log(Executed, k).end = Log(flash, k).end + BlockTotal(DataCells[b])
                    /\ \A x \in Block : Log(Executed, k).last[x] =
                                           IF x = b THEN Log(flash, k).end
                                           ELSE Log(flash, k).last[x]
                    /\ CleanFrom(Executed, k, Log(flash, k).end + BlockTotal(DataCells[b]))
  BY DEF RecordLeaves
<1>1. Executed \in Images
  BY DEF Images
<1>2. JobIn(k)
  BY <1>1, RecordImage
<1>3. OnlyIn(k)
  BY <1>1, <1>2, OthersKept DEF OnlyIn
<1>4. QED
  BY <1>1, <1>3, RecordImage

\* A header written to cluster k.
LEMMA HeaderEffect == HeaderLeaves
<1> SUFFICES ASSUME NEW k \in Cluster, NEW gen \in 1 .. GenMod - 1, FlsOK, HeaderFlight(k, gen)
             PROVE  OnlyIn(k) /\ GenOf(Executed, k) = gen /\ Same(flash, Executed, k, HeaderSize)
  BY DEF HeaderLeaves
<1>1. Executed \in Images
  BY DEF Images
<1>2. JobIn(k) /\ GenOf(Executed, k) = gen /\ Same(flash, Executed, k, HeaderSize)
  BY <1>1, HeaderImage
<1>3. QED
  BY <1>1, <1>2, OthersKept DEF OnlyIn

\* Reading changes nothing.
LEMMA ReadEffect == flsOp.kind \in {"NONE", "READ"} => Executed = flash
  BY ExecutedRead

\* The same of the job that a step registers.
LEMMA EraseEffectNext ==
  ASSUME NEW k \in Cluster, FlsOK', flsOp' = EraseOp(ClusterStart[k], ClusterLen[k]),
         flash' = flash
  PROVE  /\ \A j \in Cluster \ {k} : Same(flash, Executed', j, 0)
         /\ GenOf(Executed', k) = NoGen
         /\ Executed'[ClusterStart[k]] = Erased /\ CleanFrom(Executed', k, HeaderSize)
<1>1. ErasureLeaves'
  BY EraseEffect, PTL
<1>2. QED
  BY <1>1 DEF OnlyIn, ErasureLeaves

\* So for a record.
LEMMA RecordEffectNext ==
  ASSUME NEW k \in Cluster, NEW b \in Block, FlsOK', RecordFlight(k, b)', flash' = flash
  PROVE  /\ \A j \in Cluster \ {k} : Same(flash, Executed', j, 0)
         /\ Executed'[ClusterStart[k]] = flash[ClusterStart[k]]
         /\ ClusterOK(Executed', k)
         /\ Log(Executed', k).end = Log(flash, k).end + BlockTotal(DataCells[b])
         /\ \A x \in Block : Log(Executed', k).last[x] = IF x = b THEN Log(flash, k).end
                                                        ELSE Log(flash, k).last[x]
         /\ CleanFrom(Executed', k, Log(flash, k).end + BlockTotal(DataCells[b]))
<1>1. RecordLeaves'
  BY RecordEffect, PTL
<1>2. QED
  BY <1>1 DEF OnlyIn, RecordLeaves

\* So for a header.
LEMMA HeaderEffectNext ==
  ASSUME NEW k \in Cluster, NEW gen \in 1 .. GenMod - 1, FlsOK', HeaderFlight(k, gen)',
         flash' = flash
  PROVE  /\ \A j \in Cluster \ {k} : Same(flash, Executed', j, 0)
         /\ GenOf(Executed', k) = gen /\ Same(flash, Executed', k, HeaderSize)
<1>1. HeaderLeaves'
  BY HeaderEffect, PTL
<1>2. QED
  BY <1>1 DEF OnlyIn, HeaderLeaves

\* So for a read.
LEMMA ReadEffectNext == flsOp'.kind \in {"NONE", "READ"} => Executed' = flash'
<1>1. (flsOp.kind \in {"NONE", "READ"} => Executed = flash)'
  BY ReadEffect, PTL
<1>2. QED
  BY <1>1

----------------------------------------------------------------------------
(* Where a job is                                                          *)

Search == {"START", "READ_CLUSTER_HDR_DONE", "DECIDE"}
Scan == {"METRICS_READ", "METRICS_EVAL", "METRICS_DONE"}
Activate == {"FRESH_ERASE", "FRESH_ACTIVATE", "FRESH_ACTIVATE_DONE", "WRITE_HDR_WRITE"}
Migrate == {"MIGRATE_ERASE_DST", "MIGRATE_READ", "MIGRATE_WRITE", "MIGRATE_ACTIVATE",
            "MIGRATE_SWITCH"}

\* In each part of FindAddr the invariant says nothing about the others.
Elsewhere ==
  /\ Cont # "FIND_PROC" => Looking /\ Scanning /\ Fresh /\ Migrating /\ ~Moving
  /\ At(Search) => Scanning /\ Fresh /\ Migrating /\ Appending /\ Reading /\ ~Moving
  /\ At(Scan) => Looking /\ Fresh /\ Migrating /\ Appending /\ Reading /\ ~Moving
  /\ At({"MIGRATE_PREPARE"}) =>
       Looking /\ Scanning /\ Fresh /\ Appending /\ Reading /\ ~Moving
  /\ At(Activate) => Looking /\ Scanning /\ Appending /\ Reading /\ Trusted
  /\ At(Migrate) => Looking /\ Scanning /\ Fresh /\ Appending /\ Reading /\ Trusted
  /\ At({"FRESH_ERASE", "FRESH_ACTIVATE", "FRESH_ACTIVATE_DONE"}) => Migrating
  /\ At({"DONE"}) => Looking /\ Scanning /\ Fresh /\ Migrating /\ ~Moving

\* That much follows from the place alone.
LEMMA PlaceAlone == Elsewhere
<1>1. Cont # "FIND_PROC" => Looking /\ Scanning /\ Fresh /\ Migrating /\ ~Moving
  BY DEF At, Looking, Scanning, Fresh, Migrating, Moving, Activated
<1>2. At(Search) => Scanning /\ Fresh /\ Migrating /\ Appending /\ Reading /\ ~Moving
  BY DEF At, Search, Scanning, Fresh, Migrating, Moving, Activated, Appending, Reading, Toward
<1>3. At(Scan) => Looking /\ Fresh /\ Migrating /\ Appending /\ Reading /\ ~Moving
  BY DEF At, Scan, Looking, Fresh, Migrating, Moving, Activated, Appending, Reading, Toward
<1>4. At({"MIGRATE_PREPARE"}) =>
        Looking /\ Scanning /\ Fresh /\ Appending /\ Reading /\ ~Moving
  BY DEF At, Looking, Scanning, Fresh, Moving, Activated, Appending, Reading, Toward
<1>5. At(Activate) => Looking /\ Scanning /\ Appending /\ Reading /\ Trusted
  BY DEF At, Activate, Looking, Scanning, Moving, Appending, Reading, Trusted, Toward
<1>6. At(Migrate) => Looking /\ Scanning /\ Fresh /\ Appending /\ Reading /\ Trusted
  BY DEF At, Migrate, Looking, Scanning, Fresh, Moving, Activated, Appending, Reading, Trusted, Toward
<1>7. At({"FRESH_ERASE", "FRESH_ACTIVATE", "FRESH_ACTIVATE_DONE"}) => Migrating
  BY DEF At, Migrating, Activated
<1>8. At({"DONE"}) => Looking /\ Scanning /\ Fresh /\ Migrating /\ ~Moving
  BY DEF At, Looking, Scanning, Fresh, Migrating, Moving, Activated
<1>9. QED
  BY <1>1, <1>2, <1>3, <1>4, <1>5, <1>6, <1>7, <1>8 DEF Elsewhere

\* So it holds of the place a step leads to.
LEMMA PlaceNext == Elsewhere'
  BY PlaceAlone, PTL

----------------------------------------------------------------------------
(* Steps that leave the flash job alone                                    *)

\* Neither the medium nor the job in flight nor the cells it will read change.
LEMMA JobKept ==
  ASSUME LogInv, UNCHANGED <<flash, mem, flsOp>>
  PROVE  FlashOK(flash)' /\ FlightOK' /\ Executed' = Executed
<1>1. FlashOK(flash)'
  BY DEF LogInv
<1>2. FlightOK'
  <2>1. CASE flsOp.kind = "NONE"
    BY <2>1 DEF FlightOK
  <2>2. CASE flsOp.kind # "NONE"
    <3>1. PICK k \in Cluster :
            \/ ReadFlight(k)
            \/ flsOp = EraseOp(ClusterStart[k], ClusterLen[k])
            \/ \E b \in Block : RecordFlight(k, b)
            \/ \E gen \in 1 .. GenMod - 1 : HeaderFlight(k, gen)
      BY <2>2 DEF LogInv, FlightOK
    <3>2. ReadFlight(k) => ReadFlight(k)'
      BY DEF ReadFlight
    <3>3. \A b \in Block : RecordFlight(k, b) => RecordFlight(k, b)'
      BY DEF RecordFlight
    <3>4. \A gen : HeaderFlight(k, gen) => HeaderFlight(k, gen)'
      BY DEF HeaderFlight
    <3>5. QED
      BY <3>1, <3>2, <3>3, <3>4 DEF FlightOK
  <2>3. QED
    BY <2>1, <2>2
<1>3. Executed' = Executed
  BY DEF Executed, Violates, Source, InOp, Programmable
<1>4. QED
  BY <1>1, <1>2, <1>3

\* With no job in flight, neither does a step that only touches buffers.
LEMMA NoJobKept ==
  ASSUME LogInv, flsOp.kind = "NONE", UNCHANGED <<flash, flsOp>>
  PROVE  FlashOK(flash)' /\ FlightOK' /\ Executed = flash /\ Executed' = flash
<1>1. Executed' = flash' /\ Executed = flash
  BY ReadEffect, ReadEffectNext
<1>2. QED
  BY <1>1 DEF LogInv, FlightOK

\* The directory goes on describing the same medium.
LEMMA DirKept ==
  ASSUME dir' = dir, Executed' = Executed
  PROVE  /\ Describes(Executed) => Describes(Executed)'
         /\ Appends(Executed) => Appends(Executed)'
         /\ Active(Executed) => Active(Executed)'
         /\ Trusted /\ ~Moving => (dir.valid => Describes(Executed)
                                   /\ (dir.gen # NoGen => Appends(Executed)))'
<1>1. Active(Executed) => Active(Executed)'
  BY DEF Active, Newer
<1>2. Describes(Executed) => Describes(Executed)'
  BY DEF Describes, Active, Newer
<1>3. Appends(Executed) => Appends(Executed)'
  BY <1>1, <1>2 DEF Appends
<1>4. QED
  BY <1>1, <1>2, <1>3 DEF Trusted

\* What was on its way is there once the driver has run.
LEMMA FetchedKept ==
  ASSUME NEW buf, NEW a, Fetched(buf, a), UNCHANGED <<flash, mem, flsOp, flsStatus>>
  PROVE  Fetched(buf, a)'
  BY DEF Fetched

\* When only the place is another name for itself, everything stays as it was.
LEMMA StateKept ==
  ASSUME LogInv, Cont' = Cont, Executed' = Executed, UNCHANGED <<job, dir, find, mig, dirty>>
  PROVE  /\ Trusted' /\ Appending' /\ Reading' /\ Underway' /\ Fresh'
         /\ Looked(Executed) => Looked(Executed)'
         /\ ScannedTo(Executed) => ScannedTo(Executed)'
         /\ Scanned(Executed) => Scanned(Executed)'
         /\ RecordReady' => Migrating'
         /\ ~At({"MIGRATE_WRITE"}) => Migrating'
<1>1. \A subs : At(subs)' <=> At(subs)
  BY DEF At
<1>2. \A states : Toward(states)' <=> Toward(states)
  BY <1>1 DEF Toward
<1>3. Moving' <=> Moving
  BY <1>1 DEF Moving
<1>4. Trusted'
  BY <1>3, DirKept DEF LogInv, Trusted
<1>5. Appending' /\ Reading'
  <2>1. HasRoom => HasRoom'
    BY DEF HasRoom, Remaining
  <2>2. QED
    BY <1>2, <2>1, DirKept DEF LogInv, Appending, Reading
<1>6. Underway'
  BY DEF LogInv, Underway, JobState
<1>7. \A sub : Activated(sub)' <=> Activated(sub)
  BY <1>1 DEF Activated
<1>8. Fresh'
  BY <1>1, <1>7 DEF LogInv, Fresh, Blanked, Ready, Switched, Newer
<1>9. Looked(Executed) => Looked(Executed)'
  BY DEF Looked
<1>10. ScannedTo(Executed) => ScannedTo(Executed)'
  BY DirKept DEF ScannedTo
<1>11. Scanned(Executed) => Scanned(Executed)'
  BY DirKept DEF Scanned
<1>12. Copied(Executed) => Copied(Executed)'
  BY DirKept DEF Copied, Ready, Pending
<1>13. Sourced(Executed) => Sourced(Executed)'
  BY DirKept DEF Sourced
<1>14. (~At({"MIGRATE_WRITE"}) \/ RecordReady') => Migrating'
  BY <1>1, <1>7, <1>12, <1>13 DEF LogInv, Migrating, Switched, Newer
<1>15. QED
  BY <1>4, <1>5, <1>6, <1>8, <1>9, <1>10, <1>11, <1>14

----------------------------------------------------------------------------
(* The flash driver, and the ends of a job                                 *)

\* Where no log is looked at, the invariant says little.
LEMMA AtRest ==
  ASSUME Cont' \in {"IDLE", "ERROR", "READ_DONE", "WRITE_DONE", "READ_VERIFY_COPY"}
  PROVE  /\ Appending' /\ Reading' /\ Underway'
         /\ Looking' /\ Scanning' /\ Fresh' /\ Migrating'
  BY PlaceNext DEF Appending, Reading, Underway, Toward, At, Elsewhere

\* The driver carries out the job in flight; it never fails.
LEMMA DriverLog == FeeInv /\ LogInv /\ Driver => LogInv'
<1> SUFFICES ASSUME FeeInv, LogInv, Driver PROVE LogInv'
  OBVIOUS
<1>1. /\ FlsOK /\ BusyIffOp /\ flsStatus = "BUSY" /\ flsOp.kind # "NONE"
      /\ flash' = Executed /\ flsOp' = NoOp /\ flsStatus' = "IDLE"
      /\ mem' = IF flsOp.kind = "READ" THEN ReadBack ELSE mem
      /\ UNCHANGED <<state, status, flsWaitReturn, job, dir, find, mig, dirty>>
  BY DEF FeeInv, FlsOK, BusyIffOp, Driver, Fls_MainFunction, feeVars, callerVars
<1>2. flsOp'.kind = "NONE" /\ Executed' = Executed
  BY <1>1, NoOpType, ReadEffectNext
<1>3. FlashOK(flash)' /\ FlightOK'
  <2>1. FlashOK(Executed)
    BY <1>1, ImagesOK DEF LogInv, Images
  <2>2. QED
    BY <1>1, <1>2, <2>1 DEF FlightOK
<1>4. Cont' = Cont
  BY <1>1 DEF Cont
<1>5. Trusted' /\ Appending' /\ Reading' /\ Underway' /\ Fresh'
  BY <1>1, <1>2, <1>4, StateKept
<1>6. NoFault'
  <2>1. flsResult' = "OK"
    BY <1>1, WritesErased DEF LogInv, Driver, Fls_MainFunction
  <2>2. QED
    BY <1>1, <1>4, <2>1 DEF LogInv, NoFault
<1>7. ASSUME NEW buf \in Buffer, NEW a \in Nat, Fetched(buf, a) PROVE Fetched(buf, a)'
  <2>1. flsOp = ReadOp(a, buf, 0, HeaderSize)
    BY <1>1, <1>7 DEF Fetched
  <2>2. flsOp.kind = "READ" /\ flsOp.off = a /\ flsOp.len = 1 /\ flsOp.buf = buf /\ flsOp.at = 0
    BY <2>1 DEF ReadOp, HeaderSize
  <2>3. Executed = flash
    BY <2>2, ReadEffect
  <2>4. mem \in [Buffer -> [BufIdx -> Cell]]
    BY <1>1 DEF FlsOK, FlsTypeOK
  <2>5. mem'[buf][0] = flash[a + 0 - 0]
    <3>1. mem' = ReadBack /\ 0 \in 0 .. 0 + 1 - 1
      BY <1>1, <2>2
    <3>2. QED
      BY <2>2, <2>4, <3>1, ZeroIndex DEF ReadBack
  <2>6. QED
    BY <1>1, <2>3, <2>5 DEF Fetched
<1>8. \A subs : At(subs)' <=> At(subs)
  BY <1>1, <1>4 DEF At
<1>9. Looking'
  <2>1. At({"READ_CLUSTER_HDR_DONE"}) =>
          ClusterStart[find.clusterIdx] \in Nat /\ "clusterHdrBuf" \in Buffer
    BY FeeAssumption, Room DEF FeeInv, CursorOK, At
  <2>2. Looked(Executed) => Looked(Executed)'
    BY <1>1, <1>2, <1>4, StateKept
  <2>3. QED
    BY <1>1, <1>7, <1>8, <2>1, <2>2 DEF LogInv, Looking
<1>10. Scanning'
  <2>1. "scanHdrBuf" \in Buffer /\ dir.index \in Cluster /\ find.scanOff \in Nat
    BY FeeAssumption DEF FeeInv, TypeOK, Dir, Find
  <2>2. ClusterStart[dir.index] + find.scanOff \in Nat
    BY <2>1, Room
  <2>3. (ScannedTo(Executed) => ScannedTo(Executed)') /\ (Scanned(Executed) => Scanned(Executed)')
    BY <1>1, <1>2, <1>4, StateKept
  <2>4. QED
    BY <1>1, <1>7, <1>8, <2>1, <2>2, <2>3 DEF LogInv, Scanning
<1>11. Migrating'
  <2>1. CASE ~At({"MIGRATE_WRITE"})
    BY <1>1, <1>2, <1>4, <2>1, StateKept
  <2>2. CASE At({"MIGRATE_WRITE"})
    <3>1. RecordReady
      BY <2>2 DEF LogInv, Migrating
    <3>2. flsOp.kind = "READ" /\ flsOp.at = 1 /\ flsOp.len \in Nat
      BY <1>1, <3>1 DEF RecordReady, HeaderSize, FlsOK, FlsTypeOK, FlsOp
    <3>3. mem \in [Buffer -> [BufIdx -> Cell]] /\ "jobBuf" \in Buffer
      BY <1>1, FeeAssumption DEF FlsOK, FlsTypeOK
    <3>4. mem'["jobBuf"][0] = mem["jobBuf"][0]
      <4>1. mem' = ReadBack /\ 0 \notin 1 .. 1 + flsOp.len - 1
        BY <1>1, <3>2
      <4>2. QED
        BY <3>2, <3>3, <4>1, ZeroIndex DEF ReadBack
    <3>5. RecordReady'
      BY <1>1, <1>2, <3>1, <3>4 DEF RecordReady
    <3>6. QED
      BY <1>1, <1>2, <1>4, <3>5, StateKept
  <2>3. QED
    BY <2>1, <2>2
<1>12. QED
  BY <1>3, <1>5, <1>6, <1>9, <1>10, <1>11 DEF LogInv

\* The wait for the driver ends where the job goes on.
LEMMA WaitLog == FeeInv /\ LogInv /\ HandleFlsWait => LogInv'
<1> SUFFICES ASSUME FeeInv, LogInv, HandleFlsWait PROVE LogInv'
  OBVIOUS
<1>1. /\ state = "FLS_WAIT" /\ flsStatus # "BUSY"
      /\ UNCHANGED <<flash, mem, flsOp, flsStatus, flsResult, flsWaitReturn, job, dir, find, mig, dirty>>
  BY DEF HandleFlsWait, flsVars, callerVars
<1>2. state' = flsWaitReturn /\ ~find.err
  <2>1. flsStatus = "IDLE"
    BY <1>1 DEF FeeInv, TypeOK, FlsTypeOK
  <2>2. flsResult = "OK" /\ ~find.err
    BY <1>1 DEF LogInv, NoFault
  <2>3. QED
    BY <2>1, <2>2 DEF HandleFlsWait
<1>3. Cont' = Cont
  BY <1>1, <1>2 DEF Cont
<1>4. FlashOK(flash)' /\ FlightOK' /\ Executed' = Executed
  BY <1>1, JobKept
<1>5. Trusted' /\ Appending' /\ Reading' /\ Underway' /\ Fresh'
  BY <1>1, <1>3, <1>4, StateKept
<1>6. NoFault'
  BY <1>1, <1>2, <1>3 DEF LogInv, NoFault
<1>7. \A subs : At(subs)' <=> At(subs)
  BY <1>1, <1>3 DEF At
<1>8. \A buf, a : Fetched(buf, a) => Fetched(buf, a)'
  BY <1>1, FetchedKept
<1>9. Looking'
  <2>1. Looked(Executed) => Looked(Executed)'
    BY <1>1, <1>3, <1>4, StateKept
  <2>2. QED
    BY <1>1, <1>7, <1>8, <2>1 DEF LogInv, Looking
<1>10. Scanning'
  <2>1. (ScannedTo(Executed) => ScannedTo(Executed)') /\ (Scanned(Executed) => Scanned(Executed)')
    BY <1>1, <1>3, <1>4, StateKept
  <2>2. QED
    BY <1>1, <1>7, <1>8, <2>1 DEF LogInv, Scanning
<1>11. Migrating'
  <2>1. RecordReady => RecordReady'
    BY <1>1 DEF RecordReady
  <2>2. At({"MIGRATE_WRITE"}) => RecordReady
    BY DEF LogInv, Migrating
  <2>3. QED
    BY <1>1, <1>3, <1>4, <2>1, <2>2, StateKept
<1>12. QED
  BY <1>4, <1>5, <1>6, <1>9, <1>10, <1>11 DEF LogInv
=============================================================================
