------------------------------ MODULE LogProof ------------------------------
(***************************************************************************)
(* Lemmas about what the proofs of MiniFee compute with: sums over the     *)
(* blocks (TotalOf) and the log of records in a cluster (LogFrom), both    *)
(* recursive functions, and what a flash job makes of the log.             *)
(***************************************************************************)
EXTENDS FeeLog, WellFoundedInduction, TLAPS

USE BlockAssumption, ClusterAssumption, ValueAssumption, FlashAssumption, FeeAssumption

----------------------------------------------------------------------------
(* Induction                                                               *)

\* The natural numbers are well ordered.
LEMMA Less == IsWellFoundedOn({ss \in Nat \X Nat : ss[1] < ss[2]}, Nat)
  BY NatLessThanWellFounded DEF OpToRel

\* A set of natural numbers that is not empty has a least element.
LEMMA Least ==
  ASSUME NEW S, S \subseteq Nat, S # {}
  PROVE  \E m \in S : \A n \in S : m <= n
<1> DEFINE R == {ss \in Nat \X Nat : ss[1] < ss[2]}
<1>1. \E m \in S : \A n \in S : <<n, m>> \notin R
  <2> HIDE DEF R
  <2>1. IsWellFoundedOn(R, Nat)
    BY Less DEF R
  <2>2. QED
    BY <2>1, WFMin
<1>2. PICK m \in S : \A n \in S : <<n, m>> \notin R
  BY <1>1
<1>3. ASSUME NEW n \in S PROVE m <= n
  <2>1. m \in Nat /\ n \in Nat
    OBVIOUS
  <2>2. <<n, m>> \notin R
    BY <1>2
  <2>3. <<n, m>> \in Nat \X Nat /\ <<n, m>>[1] = n /\ <<n, m>>[2] = m
    BY <2>1
  <2>4. ~(n < m)
    BY <2>2, <2>3
  <2>5. QED
    BY <2>1, <2>4
<1>4. QED
  BY <1>3

\* A set of natural numbers that holds 0 and every successor holds them all.
LEMMA Induction ==
  ASSUME NEW S, S \subseteq Nat, 0 \in S, \A n \in S : n + 1 \in S
  PROVE  S = Nat
<1>1. SUFFICES ASSUME Nat \ S # {} PROVE FALSE
  OBVIOUS
<1>2. PICK m \in Nat \ S : \A n \in Nat \ S : m <= n
  BY <1>1, Least
<1>3. QED
  BY <1>2

----------------------------------------------------------------------------
(* TotalOf                                                                 *)

\* f is a running sum of the weights w.
RunningSum(f, w, n) == /\ f \in [0 .. n -> Nat] /\ f[0] = 0
                       /\ \A i \in 1 .. n : f[i] = f[i - 1] + w[i - 1]

\* There is a running sum of any weights, to any length.
LEMMA SumExists ==
  ASSUME NEW w \in [Nat -> Nat]
  PROVE  \A n \in Nat : \E f : RunningSum(f, w, n)
<1> DEFINE S == {n \in Nat : \E f : RunningSum(f, w, n)}
<1>1. 0 \in S
  <2>1. RunningSum([i \in 0 .. 0 |-> 0], w, 0)
    BY DEF RunningSum
  <2>2. QED
    BY <2>1
<1>2. ASSUME NEW n \in S PROVE n + 1 \in S
  <2>1. PICK f : RunningSum(f, w, n)
    BY <1>2
  <2> DEFINE g == [i \in 0 .. n + 1 |-> IF i <= n THEN f[i] ELSE f[n] + w[n]]
  <2>0. n \in Nat /\ f[n] + w[n] \in Nat /\ f[0] = 0 /\ \A i \in 0 .. n : f[i] \in Nat
    <3>1. n \in Nat /\ n \in 0 .. n
      BY <1>2
    <3>2. f \in [0 .. n -> Nat] /\ f[0] = 0
      BY <2>1 DEF RunningSum
    <3>3. f[n] \in Nat /\ w[n] \in Nat
      BY <3>1, <3>2
    <3>4. \A i \in 0 .. n : f[i] \in Nat
      BY <3>2
    <3>5. f[n] + w[n] \in Nat
      BY <3>3
    <3>6. QED
      BY <3>1, <3>2, <3>4, <3>5
  <2>2. g \in [0 .. n + 1 -> Nat] /\ g[0] = 0
    <3>1. \A i \in 0 .. n + 1 : (IF i <= n THEN f[i] ELSE f[n] + w[n]) \in Nat
      BY <2>0
    <3>2. QED
      BY <2>0, <3>1
  <2>3. ASSUME NEW i \in 1 .. n + 1 PROVE g[i] = g[i - 1] + w[i - 1]
    <3>1. i \in 0 .. n + 1 /\ i - 1 \in 0 .. n + 1 /\ i - 1 <= n
      BY <2>0
    <3>2. CASE i <= n
      <4>1. i \in 1 .. n
        BY <2>0, <3>2
      <4>2. QED
        BY <2>1, <3>1, <3>2, <4>1 DEF RunningSum
    <3>3. CASE i = n + 1
      BY <2>0, <3>1, <3>3
    <3>4. QED
      BY <2>0, <3>2, <3>3
  <2>4. RunningSum(g, w, n + 1)
    BY <2>2, <2>3 DEF RunningSum
  <2>5. QED
    BY <2>4
<1>3. S = Nat
  <2> HIDE DEF S
  <2>1. S \subseteq Nat
    BY DEF S
  <2>2. QED
    BY <1>1, <1>2, <2>1, Induction
<1>4. QED
  BY <1>3

\* What block n adds to TotalOf(S).
Weight(S, n) == IF n \in S THEN BlockTotal(DataCells[n]) ELSE 0

Weights(S) == [n \in Nat |-> Weight(S, n)]

\* The record of a block is never empty.
LEMMA BlockTotalType ==
  \A b \in Block : BlockTotal(DataCells[b]) \in Nat /\ BlockTotal(DataCells[b]) >= 1
  BY DEF BlockTotal, HeaderSize, Block

\* Weights are natural numbers.
LEMMA WeightsType == \A S \in SUBSET Block : Weights(S) \in [Nat -> Nat]
  BY BlockTotalType DEF Weights, Weight

\* TotalOf(S) is what the running sum of the weights of S ends with.
LEMMA TotalUnfold ==
  ASSUME NEW S \in SUBSET Block
  PROVE  \E f : RunningSum(f, Weights(S), BlockCount) /\ TotalOf(S) = f[BlockCount]
<1> DEFINE IsSum(sum) ==
      sum = [n \in 0 .. BlockCount |->
               IF n = 0 THEN 0
               ELSE sum[n - 1] + (IF n - 1 \in S THEN BlockTotal(DataCells[n - 1]) ELSE 0)]
<1>1. PICK f : RunningSum(f, Weights(S), BlockCount)
  BY SumExists, WeightsType
<1>2. IsSum(f)
  <2> DEFINE g == [n \in 0 .. BlockCount |->
               IF n = 0 THEN 0
               ELSE f[n - 1] + (IF n - 1 \in S THEN BlockTotal(DataCells[n - 1]) ELSE 0)]
  <2>1. \A n \in 0 .. BlockCount : f[n] = g[n]
    BY <1>1 DEF RunningSum, Weights, Weight
  <2>2. f = [n \in 0 .. BlockCount |-> f[n]]
    BY <1>1 DEF RunningSum
  <2>3. QED
    BY <2>1, <2>2
<1>3. IsSum(CHOOSE sum : IsSum(sum))
  <2> HIDE DEF IsSum
  <2>1. QED
    BY <1>2
<1> DEFINE s == CHOOSE sum : IsSum(sum)
<1>4. TotalOf(S) = s[BlockCount]
  BY DEF TotalOf
<1>5. s = [n \in 0 .. BlockCount |->
               IF n = 0 THEN 0
               ELSE s[n - 1] + (IF n - 1 \in S THEN BlockTotal(DataCells[n - 1]) ELSE 0)]
  BY <1>3
<1> HIDE DEF s
<1>6. s[0] = 0 /\ \A i \in 1 .. BlockCount : s[i] = s[i - 1] + Weights(S)[i - 1]
  <2>1. s[0] = 0
    BY <1>5
  <2>2. ASSUME NEW i \in 1 .. BlockCount PROVE s[i] = s[i - 1] + Weights(S)[i - 1]
    <3>1. i \in 0 .. BlockCount /\ i # 0 /\ i - 1 \in Nat
      OBVIOUS
    <3>2. s[i] = s[i - 1] + (IF i - 1 \in S THEN BlockTotal(DataCells[i - 1]) ELSE 0)
      BY <1>5, <3>1
    <3>3. QED
      BY <3>1, <3>2 DEF Weights, Weight
  <2>3. QED
    BY <2>1, <2>2
<1>7. \A n \in Nat : n <= BlockCount => s[n] = f[n]
  <2> DEFINE T == {n \in Nat : n <= BlockCount => s[n] = f[n]}
  <2>1. 0 \in T
    BY <1>1, <1>6 DEF RunningSum
  <2>2. ASSUME NEW n \in T PROVE n + 1 \in T
    <3>1. CASE n + 1 <= BlockCount
      <4>1. n + 1 \in 1 .. BlockCount /\ (n + 1) - 1 = n
        BY <3>1
      <4>2. QED
        BY <1>1, <1>6, <3>1, <4>1 DEF RunningSum
    <3>2. QED
      BY <3>1
  <2>3. T = Nat
    <3> HIDE DEF T
    <3>1. T \subseteq Nat
      BY DEF T
    <3>2. QED
      BY <2>1, <2>2, <3>1, Induction
  <2>4. QED
    BY <2>3
<1>8. TotalOf(S) = f[BlockCount]
  BY <1>4, <1>7
<1>9. QED
  BY <1>1, <1>8

\* A set of blocks with its first block taken out takes that much less room.
LEMMA TotalSplit ==
  ASSUME NEW S \in SUBSET Block, NEW b \in S
  PROVE  TotalOf(S) = BlockTotal(DataCells[b]) + TotalOf(S \ {b})
<1>1. PICK f : RunningSum(f, Weights(S), BlockCount) /\ TotalOf(S) = f[BlockCount]
  BY TotalUnfold
<1>2. PICK g : RunningSum(g, Weights(S \ {b}), BlockCount) /\ TotalOf(S \ {b}) = g[BlockCount]
  BY TotalUnfold
<1> DEFINE total == BlockTotal(DataCells[b])
<1>3. b \in Block /\ b \in Nat /\ b < BlockCount /\ total \in Nat
  BY BlockTotalType DEF Block
<1> DEFINE T == {n \in Nat : n <= BlockCount => f[n] = g[n] + (IF n > b THEN total ELSE 0)}
<1>4. 0 \in T
  BY <1>1, <1>2, <1>3 DEF RunningSum
<1> HIDE DEF total
<1>5. ASSUME NEW n \in T PROVE n + 1 \in T
  <2>1. SUFFICES ASSUME n + 1 <= BlockCount
                 PROVE  f[n + 1] = g[n + 1] + (IF n + 1 > b THEN total ELSE 0)
    OBVIOUS
  <2>2. n \in Nat /\ n + 1 \in 1 .. BlockCount /\ (n + 1) - 1 = n /\ n \in 0 .. BlockCount
    BY <1>5, <2>1
  <2>3. f[n + 1] = f[n] + Weights(S)[n] /\ g[n + 1] = g[n] + Weights(S \ {b})[n]
    BY <1>1, <1>2, <2>2 DEF RunningSum
  <2>4. Weights(S)[n] = Weights(S \ {b})[n] + (IF n = b THEN total ELSE 0)
    <3>1. CASE n = b
      BY <2>2, <3>1, <1>3 DEF Weights, Weight, total
    <3>2. CASE n # b
      <4>1. Weights(S)[n] = Weight(S, n) /\ Weights(S \ {b})[n] = Weight(S \ {b}, n)
        BY <2>2 DEF Weights
      <4>2. Weight(S, n) = Weight(S \ {b}, n) /\ Weight(S, n) \in Nat
        BY <3>2, BlockTotalType DEF Weight
      <4>3. QED
        BY <3>2, <4>1, <4>2
    <3>3. QED
      BY <3>1, <3>2
  <2>5. f[n] = g[n] + (IF n > b THEN total ELSE 0)
    BY <1>5, <2>1, <2>2
  <2>6. g[n] \in Nat /\ Weights(S \ {b})[n] \in Nat
    <3>1. Weights(S \ {b}) \in [Nat -> Nat]
      BY WeightsType
    <3>2. g \in [0 .. BlockCount -> Nat]
      BY <1>2 DEF RunningSum
    <3>3. QED
      BY <2>2, <3>1, <3>2
  <2>7. QED
    BY <1>3, <2>2, <2>3, <2>4, <2>5, <2>6
<1>6. T = Nat
  <2> HIDE DEF T
  <2>1. T \subseteq Nat
    BY DEF T
  <2>2. QED
    BY <1>4, <1>5, <2>1, Induction
<1>7. f[BlockCount] = g[BlockCount] + total
  BY <1>3, <1>6
<1>8. g[BlockCount] \in Nat
  BY <1>2 DEF RunningSum
<1>9. QED
  BY <1>1, <1>2, <1>3, <1>7, <1>8 DEF total

\* TotalOf grows with the set.
LEMMA TotalMonotone ==
  ASSUME NEW T \in SUBSET Block, NEW S \in SUBSET T
  PROVE  TotalOf(S) \in Nat /\ TotalOf(T) \in Nat /\ TotalOf(S) <= TotalOf(T)
<1>1. PICK f : RunningSum(f, Weights(S), BlockCount) /\ TotalOf(S) = f[BlockCount]
  BY TotalUnfold
<1>2. PICK g : RunningSum(g, Weights(T), BlockCount) /\ TotalOf(T) = g[BlockCount]
  BY TotalUnfold
<1>3. f \in [0 .. BlockCount -> Nat] /\ g \in [0 .. BlockCount -> Nat]
  BY <1>1, <1>2 DEF RunningSum
<1> DEFINE I == {n \in Nat : n <= BlockCount => f[n] <= g[n]}
<1>4. 0 \in I
  BY <1>1, <1>2 DEF RunningSum
<1>5. ASSUME NEW n \in I PROVE n + 1 \in I
  <2>1. SUFFICES ASSUME n + 1 <= BlockCount PROVE f[n + 1] <= g[n + 1]
    OBVIOUS
  <2>2. n \in Nat /\ n + 1 \in 1 .. BlockCount /\ (n + 1) - 1 = n /\ n \in 0 .. BlockCount
    BY <1>5, <2>1
  <2>3. f[n + 1] = f[n] + Weights(S)[n] /\ g[n + 1] = g[n] + Weights(T)[n]
    BY <1>1, <1>2, <2>2 DEF RunningSum
  <2>4. Weights(S) \in [Nat -> Nat] /\ Weights(T) \in [Nat -> Nat]
    BY WeightsType
  <2>5. Weights(S)[n] <= Weights(T)[n]
    <3>1. Weights(S)[n] = Weight(S, n) /\ Weights(T)[n] = Weight(T, n)
      BY <2>2 DEF Weights
    <3>2. CASE n \in S
      BY <2>2, <2>4, <3>1, <3>2 DEF Weight
    <3>3. CASE n \notin S
      BY <2>2, <2>4, <3>1, <3>3 DEF Weight
    <3>4. QED
      BY <3>2, <3>3
  <2>6. f[n] \in Nat /\ g[n] \in Nat /\ Weights(S)[n] \in Nat /\ Weights(T)[n] \in Nat
    BY <1>3, <2>2, <2>4
  <2>7. f[n] <= g[n]
    BY <1>5, <2>1, <2>2
  <2>8. QED
    BY <2>3, <2>5, <2>6, <2>7
<1>6. I = Nat
  <2> HIDE DEF I
  <2>1. I \subseteq Nat
    BY DEF I
  <2>2. QED
    BY <1>4, <1>5, <2>1, Induction
<1>7. f[BlockCount] <= g[BlockCount]
  BY <1>6
<1>8. f[BlockCount] \in Nat /\ g[BlockCount] \in Nat
  BY <1>3
<1>9. QED
  BY <1>1, <1>2, <1>7, <1>8

\* No block takes no room, and one block the room of its record.
LEMMA TotalOfOne ==
  TotalOf({}) = 0 /\ \A b \in Block : TotalOf({b}) = BlockTotal(DataCells[b])
<1>1. TotalOf({}) = 0
  <2>1. PICK f : RunningSum(f, Weights({}), BlockCount) /\ TotalOf({}) = f[BlockCount]
    BY TotalUnfold
  <2> DEFINE I == {n \in Nat : n <= BlockCount => f[n] = 0}
  <2>2. 0 \in I
    BY <2>1 DEF RunningSum
  <2>3. ASSUME NEW n \in I PROVE n + 1 \in I
    <3>1. SUFFICES ASSUME n + 1 <= BlockCount PROVE f[n + 1] = 0
      OBVIOUS
    <3>2. n \in Nat /\ n + 1 \in 1 .. BlockCount /\ (n + 1) - 1 = n
      BY <2>3, <3>1
    <3>3. f[n + 1] = f[n] + Weights({})[n] /\ f[n] = 0
      BY <2>1, <2>3, <3>1, <3>2 DEF RunningSum
    <3>4. Weights({})[n] = 0
      BY <3>2 DEF Weights, Weight
    <3>5. QED
      BY <3>3, <3>4
  <2>4. I = Nat
    <3> HIDE DEF I
    <3>1. I \subseteq Nat
      BY DEF I
    <3>2. QED
      BY <2>2, <2>3, <3>1, Induction
  <2>5. QED
    BY <2>1, <2>4
<1>2. ASSUME NEW b \in Block PROVE TotalOf({b}) = BlockTotal(DataCells[b])
  <2>1. TotalOf({b}) = BlockTotal(DataCells[b]) + TotalOf({b} \ {b})
    BY TotalSplit
  <2>2. {b} \ {b} = {}
    OBVIOUS
  <2>3. QED
    BY <1>1, <2>1, <2>2, BlockTotalType
<1>3. QED
  BY <1>1, <1>2

----------------------------------------------------------------------------
(* LogFrom                                                                 *)

\* What the scan of a cluster of length n has found.
LogRec(n) == [end : 0 .. n, last : [Block -> {NoRecord} \cup 0 .. n]]

\* The log from o on, given the log from any later offset on.
LogStep(fl, k, log, o) ==
  IF ~IsRecord(fl, k, o) THEN [end |-> o, last |-> EmptyDir]
  ELSE LET rest == log[RecordEnd(fl, k, o)]
           b == fl[ClusterStart[k] + o].block
       IN  IF rest.last[b] # NoRecord THEN rest
           ELSE [rest EXCEPT !.last[b] = o]

\* A record ends behind its start and within its cluster.
LEMMA RecordEndType ==
  ASSUME NEW fl, NEW k \in Cluster, NEW o \in Nat, IsRecord(fl, k, o)
  PROVE  /\ RecordEnd(fl, k, o) \in o + 1 .. ClusterLen[k]
         /\ fl[ClusterStart[k] + o].block \in Block
         /\ o < ClusterLen[k]
<1>1. fl[ClusterStart[k] + o] \in BlockHeader
  BY DEF IsRecord, IsBlockHeaderValid
<1>2. fl[ClusterStart[k] + o].len \in Nat /\ fl[ClusterStart[k] + o].block \in Block
  BY <1>1 DEF BlockHeader
<1>3. ClusterLen[k] \in Nat
  OBVIOUS
<1>4. o + BlockTotal(fl[ClusterStart[k] + o].len) <= ClusterLen[k]
  BY DEF IsRecord
<1>5. QED
  BY <1>2, <1>3, <1>4 DEF RecordEnd, BlockTotal, HeaderSize

\* At the end of a cluster there is no record.
LEMMA NoRecordAtEnd == \A fl : \A k \in Cluster : ~IsRecord(fl, k, ClusterLen[k])
  BY DEF IsRecord, HeaderSize

\* What holds of an offset whenever it holds of the end of the record that starts
\* there, holds of every offset: the scan only moves on.
LEMMA ScanInduction ==
  ASSUME NEW fl, NEW k \in Cluster, NEW I, I \subseteq 0 .. ClusterLen[k],
         \A o \in 0 .. ClusterLen[k] :
           (IsRecord(fl, k, o) => RecordEnd(fl, k, o) \in I) => o \in I
  PROVE  I = 0 .. ClusterLen[k]
<1> DEFINE len == ClusterLen[k]
           M == {m \in Nat : \A o \in 0 .. len : o + m >= len => o \in I}
<1>0. len \in Nat
  OBVIOUS
<1>1. 0 \in M
  <2>1. len \in I
    BY <1>0, NoRecordAtEnd
  <2>2. \A o \in 0 .. len : o + 0 >= len => o = len
    BY <1>0
  <2>3. QED
    BY <2>1, <2>2
<1>2. ASSUME NEW m \in M PROVE m + 1 \in M
  <2>1. SUFFICES ASSUME NEW o \in 0 .. len, o + (m + 1) >= len PROVE o \in I
    OBVIOUS
  <2>2. ASSUME IsRecord(fl, k, o) PROVE RecordEnd(fl, k, o) \in I
    <3>1. RecordEnd(fl, k, o) \in o + 1 .. len
      <4>1. o \in Nat
        BY <1>0
      <4>2. QED
        BY <2>2, <4>1, RecordEndType
    <3>2. m \in Nat /\ RecordEnd(fl, k, o) \in 0 .. len /\ RecordEnd(fl, k, o) + m >= len
      BY <1>0, <1>2, <2>1, <3>1
    <3>3. QED
      BY <1>2, <3>2
  <2>3. QED
    BY <2>2
<1>3. M = Nat
  <2> HIDE DEF M
  <2>1. M \subseteq Nat
    BY DEF M
  <2>2. QED
    BY <1>1, <1>2, <2>1, Induction
<1>4. len \in M
  <2> HIDE DEF M
  <2>1. QED
    BY <1>0, <1>3
<1>5. \A o \in 0 .. len : o + len >= len
  BY <1>0
<1>6. \A o \in 0 .. len : o \in I
  BY <1>4, <1>5
<1>7. QED
  BY <1>6

\* One step of the scan finds offsets of the cluster.
LEMMA LogStepType ==
  ASSUME NEW fl, NEW k \in Cluster, NEW o \in 0 .. ClusterLen[k], NEW log,
         IsRecord(fl, k, o) => log[RecordEnd(fl, k, o)] \in LogRec(ClusterLen[k])
  PROVE  LogStep(fl, k, log, o) \in LogRec(ClusterLen[k])
<1>1. ClusterLen[k] \in Nat /\ NoRecord = -1
  BY DEF NoRecord
<1>2. CASE ~IsRecord(fl, k, o)
  <2>1. EmptyDir \in [Block -> {NoRecord} \cup 0 .. ClusterLen[k]]
    BY DEF EmptyDir
  <2>2. QED
    BY <1>1, <1>2, <2>1 DEF LogStep, LogRec
<1>3. CASE IsRecord(fl, k, o)
  <2> DEFINE rest == log[RecordEnd(fl, k, o)]
             b == fl[ClusterStart[k] + o].block
  <2>1. rest \in LogRec(ClusterLen[k])
    BY <1>3
  <2>2. LogStep(fl, k, log, o) = IF rest.last[b] # NoRecord THEN rest
                                 ELSE [rest EXCEPT !.last[b] = o]
    BY <1>3 DEF LogStep
  <2> HIDE DEF rest, b
  <2>3. [rest EXCEPT !.last[b] = o] \in LogRec(ClusterLen[k])
    BY <1>1, <2>1 DEF LogRec
  <2>4. QED
    BY <2>1, <2>2, <2>3
<1>4. QED
  BY <1>2, <1>3

\* There is a log: a scan from any offset ends.
LEMMA LogExists ==
  ASSUME NEW fl, NEW k \in Cluster
  PROVE  \E log \in [0 .. ClusterLen[k] -> LogRec(ClusterLen[k])] :
           \A o \in 0 .. ClusterLen[k] : log[o] = LogStep(fl, k, log, o)
<1> DEFINE len == ClusterLen[k]
           Found(log, m) == /\ log \in [len - m .. len -> LogRec(len)]
                            /\ \A o \in len - m .. len : log[o] = LogStep(fl, k, log, o)
           I == {m \in Nat : m <= len => \E log : Found(log, m)}
<1>0. len \in Nat
  OBVIOUS
<1>1. 0 \in I
  <2> DEFINE log == [o \in len - 0 .. len |-> LogStep(fl, k, <<>>, o)]
  <2>1. ~IsRecord(fl, k, len)
    BY NoRecordAtEnd
  <2>2. \A o \in len - 0 .. len : o = len
    BY <1>0
  <2>3. LogStep(fl, k, log, len) = LogStep(fl, k, <<>>, len)
    BY <2>1 DEF LogStep
  <2>4. LogStep(fl, k, log, len) \in LogRec(len)
    BY <1>0, <2>1, LogStepType
  <2>5. Found(log, 0)
    BY <1>0, <2>2, <2>3, <2>4
  <2>6. QED
    BY <2>5
<1>2. ASSUME NEW m \in I PROVE m + 1 \in I
  <2>0. m \in Nat
    OBVIOUS
  <2>1. SUFFICES ASSUME m + 1 <= len PROVE \E log : Found(log, m + 1)
    OBVIOUS
  <2>2. PICK f : Found(f, m)
    BY <1>0, <2>0, <2>1
  <2> DEFINE n == len - (m + 1)
             g == [o \in n .. len |-> IF o = n THEN LogStep(fl, k, f, n) ELSE f[o]]
  <2>3. n \in 0 .. len /\ n + 1 = len - m /\ n \in Nat
    BY <1>0, <2>0, <2>1
  <2>4. ASSUME NEW o \in n .. len PROVE LogStep(fl, k, g, o) = LogStep(fl, k, f, o)
    <3>1. CASE ~IsRecord(fl, k, o)
      BY <3>1 DEF LogStep
    <3>2. CASE IsRecord(fl, k, o)
      <4>1. o \in Nat
        BY <2>3, <1>0
      <4>2. RecordEnd(fl, k, o) \in o + 1 .. len
        BY <3>2, <4>1, RecordEndType
      <4>3. RecordEnd(fl, k, o) \in n .. len /\ RecordEnd(fl, k, o) # n
        BY <2>3, <4>1, <4>2, <1>0
      <4>4. g[RecordEnd(fl, k, o)] = f[RecordEnd(fl, k, o)]
        BY <4>3
      <4> HIDE DEF g
      <4>5. QED
        BY <3>2, <4>4 DEF LogStep
    <3>3. QED
      BY <3>1, <3>2
  <2>5. LogStep(fl, k, f, n) \in LogRec(len)
    <3>1. ASSUME IsRecord(fl, k, n) PROVE f[RecordEnd(fl, k, n)] \in LogRec(len)
      <4>1. RecordEnd(fl, k, n) \in n + 1 .. len
        BY <3>1, <2>3, RecordEndType
      <4>2. QED
        BY <2>2, <2>3, <4>1
    <3>2. QED
      BY <3>1, <2>3, LogStepType
  <2>6. \A o \in n .. len : o # n => o \in len - m .. len
    BY <1>0, <2>0, <2>3
  <2>7. g \in [n .. len -> LogRec(len)]
    BY <2>2, <2>5, <2>6
  <2>8. \A o \in n .. len : g[o] = LogStep(fl, k, g, o)
    BY <2>2, <2>4, <2>6
  <2>9. Found(g, m + 1)
    BY <2>7, <2>8
  <2>10. QED
    BY <2>9
<1>3. I = Nat
  <2> HIDE DEF I
  <2>1. I \subseteq Nat
    BY DEF I
  <2>2. QED
    BY <1>1, <1>2, <2>1, Induction
<1>4. PICK log : Found(log, len)
  <2>1. len \in I
    <3> HIDE DEF I
    <3>1. QED
      BY <1>0, <1>3
  <2>2. QED
    BY <1>0, <2>1
<1>5. len - len = 0
  BY <1>0
<1>6. QED
  BY <1>4, <1>5

\* LogFrom(fl, k) is the log: it satisfies its defining equation.
LEMMA LogUnfold ==
  ASSUME NEW fl, NEW k \in Cluster
  PROVE  /\ LogFrom(fl, k) \in [0 .. ClusterLen[k] -> LogRec(ClusterLen[k])]
         /\ \A o \in 0 .. ClusterLen[k] : LogFrom(fl, k)[o] = LogStep(fl, k, LogFrom(fl, k), o)
<1> DEFINE len == ClusterLen[k]
           IsLog(log) ==
             log = [o \in 0 .. ClusterLen[k] |->
                      IF ~IsRecord(fl, k, o) THEN [end |-> o, last |-> EmptyDir]
                      ELSE LET rest == log[RecordEnd(fl, k, o)]
                               b == fl[ClusterStart[k] + o].block
                           IN  IF rest.last[b] # NoRecord THEN rest
                               ELSE [rest EXCEPT !.last[b] = o]]
<1>1. ASSUME NEW log PROVE IsLog(log) <=> log = [o \in 0 .. ClusterLen[k] |-> LogStep(fl, k, log, o)]
  BY DEF LogStep
<1>2. PICK f \in [0 .. ClusterLen[k] -> LogRec(ClusterLen[k])] :
             \A o \in 0 .. ClusterLen[k] : f[o] = LogStep(fl, k, f, o)
  BY LogExists
<1>3. IsLog(f)
  <2>1. f = [o \in 0 .. ClusterLen[k] |-> LogStep(fl, k, f, o)]
    BY <1>2
  <2>2. QED
    BY <1>1, <2>1
<1> DEFINE s == CHOOSE log : IsLog(log)
<1>4. LogFrom(fl, k) = s
  BY DEF LogFrom
<1>5. IsLog(s)
  <2> HIDE DEF IsLog
  <2>1. QED
    BY <1>3
<1> HIDE DEF s
<1>6. s = [o \in 0 .. len |-> LogStep(fl, k, s, o)]
  BY <1>1, <1>5
<1>7. \A o \in 0 .. len : s[o] = LogStep(fl, k, s, o)
  BY <1>6
<1> DEFINE I == {o \in 0 .. len : s[o] \in LogRec(len)}
<1>8. ASSUME NEW o \in 0 .. len, IsRecord(fl, k, o) => RecordEnd(fl, k, o) \in I
      PROVE  o \in I
  BY <1>7, <1>8, LogStepType
<1>9. I = 0 .. len
  <2> HIDE DEF I
  <2>1. I \subseteq 0 .. len
    BY DEF I
  <2>2. QED
    BY <1>8, <2>1, ScanInduction
<1>10. \A o \in 0 .. len : s[o] \in LogRec(len)
  BY <1>9
<1>11. s \in [0 .. len -> LogRec(len)]
  BY <1>6, <1>10
<1>12. QED
  BY <1>4, <1>7, <1>11

\* The log from an offset that is no record ends there and is empty.
LEMMA LogStops ==
  ASSUME NEW fl, NEW k \in Cluster, NEW o \in 0 .. ClusterLen[k], ~IsRecord(fl, k, o)
  PROVE  LogFrom(fl, k)[o].end = o /\ LogFrom(fl, k)[o].last = EmptyDir
<1>1. LogFrom(fl, k)[o] = LogStep(fl, k, LogFrom(fl, k), o)
  BY LogUnfold
<1>2. LogFrom(fl, k)[o] = [end |-> o, last |-> EmptyDir]
  BY <1>1 DEF LogStep
<1>3. QED
  BY <1>2

\* The log from a record on is the log behind it, and the record unless there is
\* a newer one of the same block.
LEMMA LogGoesOn ==
  ASSUME NEW fl, NEW k \in Cluster, NEW o \in 0 .. ClusterLen[k], IsRecord(fl, k, o)
  PROVE  LET log == LogFrom(fl, k)[o]
             rest == LogFrom(fl, k)[RecordEnd(fl, k, o)]
             b == fl[ClusterStart[k] + o].block
         IN  /\ log.end = rest.end
             /\ \A x \in Block : log.last[x] = IF x = b /\ rest.last[x] = NoRecord THEN o
                                                ELSE rest.last[x]
<1> DEFINE rest == LogFrom(fl, k)[RecordEnd(fl, k, o)]
           b == fl[ClusterStart[k] + o].block
<1>1. LogFrom(fl, k)[o] = LogStep(fl, k, LogFrom(fl, k), o)
  BY LogUnfold
<1>2. LogFrom(fl, k)[o] = IF rest.last[b] # NoRecord THEN rest ELSE [rest EXCEPT !.last[b] = o]
  BY <1>1 DEF LogStep
<1>3. RecordEnd(fl, k, o) \in 0 .. ClusterLen[k] /\ b \in Block
  <2>1. ClusterLen[k] \in Nat /\ o \in Nat
    OBVIOUS
  <2>2. QED
    BY <2>1, RecordEndType
<1>4. rest \in LogRec(ClusterLen[k])
  BY <1>3, LogUnfold
<1> HIDE DEF rest, b
<1>5. CASE rest.last[b] # NoRecord
  BY <1>2, <1>5 DEF rest, b
<1>6. CASE rest.last[b] = NoRecord
  <2>1. LogFrom(fl, k)[o] = [rest EXCEPT !.last[b] = o]
    BY <1>2, <1>6
  <2>2. LogFrom(fl, k)[o].end = rest.end /\ LogFrom(fl, k)[o].last = [rest.last EXCEPT ![b] = o]
    BY <1>4, <2>1 DEF LogRec
  <2>3. \A x \in Block : [rest.last EXCEPT ![b] = o][x] = IF x = b THEN o ELSE rest.last[x]
    BY <1>3, <1>4 DEF LogRec
  <2>4. QED
    BY <1>6, <2>2, <2>3 DEF rest, b
<1>7. QED
  BY <1>5, <1>6

\* The log has the type of one.
LEMMA LogType ==
  ASSUME NEW fl, NEW k \in Cluster, NEW o \in 0 .. ClusterLen[k]
  PROVE  /\ LogFrom(fl, k)[o].end \in 0 .. ClusterLen[k]
         /\ LogFrom(fl, k)[o].last \in [Block -> {NoRecord} \cup 0 .. ClusterLen[k]]
<1>1. LogFrom(fl, k)[o] \in LogRec(ClusterLen[k])
  BY LogUnfold
<1>2. QED
  BY <1>1 DEF LogRec

\* The log from o on lies behind o, and where it ends there is no record.
LEMMA LogBounds ==
  ASSUME NEW fl, NEW k \in Cluster, NEW o \in 0 .. ClusterLen[k]
  PROVE  LET log == LogFrom(fl, k)[o]
         IN  /\ log.end \in o .. ClusterLen[k]
             /\ ~IsRecord(fl, k, log.end)
             /\ \A b \in Block : log.last[b] # NoRecord => log.last[b] \in o .. ClusterLen[k]
<1> DEFINE len == ClusterLen[k]
           From(i) == LogFrom(fl, k)[i]
           Good(i) == /\ From(i).end \in i .. len
                      /\ ~IsRecord(fl, k, From(i).end)
                      /\ \A b \in Block : From(i).last[b] # NoRecord => From(i).last[b] \in i .. len
           I == {i \in 0 .. len : Good(i)}
<1>0. len \in Nat
  OBVIOUS
<1>1. ASSUME NEW i \in 0 .. len, IsRecord(fl, k, i) => RecordEnd(fl, k, i) \in I
      PROVE  i \in I
  <2>1. CASE ~IsRecord(fl, k, i)
    <3>1. From(i).end = i /\ From(i).last = EmptyDir
      BY <2>1, LogStops
    <3>2. QED
      BY <1>0, <2>1, <3>1 DEF EmptyDir
  <2>2. CASE IsRecord(fl, k, i)
    <3> DEFINE next == RecordEnd(fl, k, i)
    <3>1. next \in i + 1 .. len
      BY <1>0, <2>2, RecordEndType
    <3>2. Good(next)
      BY <1>1, <2>2
    <3>3. /\ From(i).end = From(next).end
          /\ \A b \in Block : From(i).last[b] \in {i, From(next).last[b]}
      BY <2>2, LogGoesOn
    <3> HIDE DEF next, From
    <3>4. Good(i)
      BY <1>0, <3>1, <3>2, <3>3
    <3>5. QED
      BY <3>4
  <2>3. QED
    BY <2>1, <2>2
<1>2. I = 0 .. len
  <2> HIDE DEF I
  <2>1. I \subseteq 0 .. len
    BY DEF I
  <2>2. QED
    BY <1>1, <2>1, ScanInduction
<1>3. QED
  BY <1>2

\* A medium that agrees with another up to the end of its log has the same log,
\* and behind it what the scan then finds there.
LEMMA LogExtends ==
  ASSUME NEW fl, NEW gl, NEW k \in Cluster, NEW o \in 0 .. ClusterLen[k],
         \A i \in o .. LogFrom(fl, k)[o].end - 1 :
           gl[ClusterStart[k] + i] = fl[ClusterStart[k] + i]
  PROVE  LET old == LogFrom(fl, k)[o]
             new == LogFrom(gl, k)[o]
             rest == LogFrom(gl, k)[old.end]
         IN  /\ new.end = rest.end
             /\ \A b \in Block : new.last[b] = IF rest.last[b] = NoRecord THEN old.last[b]
                                                ELSE rest.last[b]
<1> DEFINE len == ClusterLen[k]
           Old(i) == LogFrom(fl, k)[i]
           New(i) == LogFrom(gl, k)[i]
           Agree(i) == \A j \in i .. Old(i).end - 1 :
                         gl[ClusterStart[k] + j] = fl[ClusterStart[k] + j]
           Good(i) == /\ New(i).end = New(Old(i).end).end
                      /\ \A b \in Block :
                           New(i).last[b] = IF New(Old(i).end).last[b] = NoRecord
                                            THEN Old(i).last[b]
                                            ELSE New(Old(i).end).last[b]
           I == {i \in 0 .. len : Agree(i) => Good(i)}
<1>0. len \in Nat
  OBVIOUS
<1>1. ASSUME NEW i \in 0 .. len, IsRecord(fl, k, i) => RecordEnd(fl, k, i) \in I
      PROVE  i \in I
  <2>1. SUFFICES ASSUME Agree(i) PROVE Good(i)
    OBVIOUS
  <2>2. CASE ~IsRecord(fl, k, i)
    <3>1. Old(i).end = i /\ Old(i).last = EmptyDir
      BY <2>2, LogStops
    <3>2. \A b \in Block : EmptyDir[b] = NoRecord
      BY DEF EmptyDir
    <3> HIDE DEF Old, New
    <3>3. QED
      BY <3>1, <3>2
  <2>3. CASE IsRecord(fl, k, i)
    <3> DEFINE next == RecordEnd(fl, k, i)
               x == fl[ClusterStart[k] + i].block
    <3>0. i \in Nat
      BY <1>0
    <3>1. next \in i + 1 .. len /\ i \in Nat
      BY <3>0, <2>3, RecordEndType
    <3>2. next \in 0 .. len
      BY <1>0, <3>1
    <3>3. Old(i).end = Old(next).end
      BY <2>3, LogGoesOn
    <3>4. Old(next).end \in next .. len
      BY <3>2, LogBounds
    <3>5. gl[ClusterStart[k] + i] = fl[ClusterStart[k] + i]
      <4>1. i \in i .. Old(i).end - 1
        <5> HIDE DEF Old, next
        <5>1. QED
          BY <1>0, <3>1, <3>3, <3>4
      <4>2. QED
        BY <2>1, <4>1
    <3>6. IsRecord(gl, k, i) /\ RecordEnd(gl, k, i) = next /\ gl[ClusterStart[k] + i].block = x
      BY <2>3, <3>5 DEF IsRecord, RecordEnd
    <3>7. Agree(next)
      <4>1. SUFFICES ASSUME NEW j \in next .. Old(next).end - 1
                     PROVE  gl[ClusterStart[k] + j] = fl[ClusterStart[k] + j]
        OBVIOUS
      <4>2. j \in i .. Old(i).end - 1
        <5> HIDE DEF Old, next
        <5>1. QED
          BY <1>0, <3>1, <3>3, <3>4
      <4>3. QED
        BY <2>1, <4>2
    <3>8. Good(next)
      BY <1>1, <2>3, <3>7
    <3>9. \A b \in Block : Old(i).last[b] = IF b = x /\ Old(next).last[b] = NoRecord THEN i
                                            ELSE Old(next).last[b]
      BY <2>3, LogGoesOn
    <3>10. /\ New(i).end = New(next).end
           /\ \A b \in Block : New(i).last[b] = IF b = x /\ New(next).last[b] = NoRecord THEN i
                                                 ELSE New(next).last[b]
      BY <3>6, LogGoesOn
    <3> HIDE DEF Old, New, next, x
    <3>11. New(i).end = New(Old(i).end).end
      BY <3>3, <3>8, <3>10
    <3>12. ASSUME NEW b \in Block
           PROVE  New(i).last[b] = IF New(Old(i).end).last[b] = NoRecord THEN Old(i).last[b]
                                   ELSE New(Old(i).end).last[b]
      BY <3>3, <3>8, <3>9, <3>10
    <3>13. QED
      BY <3>11, <3>12
  <2>4. QED
    BY <2>2, <2>3
<1>2. I = 0 .. len
  <2> HIDE DEF I
  <2>1. I \subseteq 0 .. len
    BY DEF I
  <2>2. QED
    BY <1>1, <2>1, ScanInduction
<1>3. o \in I /\ Agree(o)
  BY <1>2
<1>4. QED
  BY <1>3

\* Damage behind the log, or nothing, leaves it as it is.
LEMMA LogKept ==
  ASSUME NEW fl, NEW gl, NEW k \in Cluster, NEW o \in 0 .. ClusterLen[k],
         \A i \in o .. LogFrom(fl, k)[o].end - 1 :
           gl[ClusterStart[k] + i] = fl[ClusterStart[k] + i],
         ~IsRecord(gl, k, LogFrom(fl, k)[o].end)
  PROVE  /\ LogFrom(gl, k)[o].end = LogFrom(fl, k)[o].end
         /\ LogFrom(gl, k)[o].last = LogFrom(fl, k)[o].last
<1> DEFINE old == LogFrom(fl, k)[o]
           new == LogFrom(gl, k)[o]
           rest == LogFrom(gl, k)[old.end]
<1>1. old.end \in 0 .. ClusterLen[k] /\ old.last \in [Block -> {NoRecord} \cup 0 .. ClusterLen[k]]
  BY LogType
<1>2. rest.end = old.end /\ rest.last = EmptyDir
  BY <1>1, LogStops
<1>3. /\ new.end = rest.end
      /\ \A b \in Block : new.last[b] = IF rest.last[b] = NoRecord THEN old.last[b]
                                         ELSE rest.last[b]
  BY LogExtends
<1>4. new.last \in [Block -> {NoRecord} \cup 0 .. ClusterLen[k]]
  BY LogType
<1> HIDE DEF old, new, rest
<1>5. \A b \in Block : new.last[b] = old.last[b]
  BY <1>2, <1>3 DEF EmptyDir
<1>6. new.last = old.last
  BY <1>1, <1>4, <1>5
<1>7. QED
  BY <1>2, <1>3, <1>6 DEF old, new

\* No scan takes an erased cell for a record.
LEMMA CleanStops ==
  ASSUME NEW fl, NEW k \in Cluster, NEW o \in 0 .. ClusterLen[k], CleanFrom(fl, k, o)
  PROVE  ~IsRecord(fl, k, o)
<1>1. CASE o = ClusterLen[k]
  BY <1>1, NoRecordAtEnd
<1>2. CASE o # ClusterLen[k]
  <2>1. ClusterLen[k] \in Nat /\ o \in o .. ClusterLen[k] - 1
    BY <1>2
  <2>2. fl[ClusterStart[k] + o] = Erased
    BY <2>1 DEF CleanFrom
  <2>3. QED
    BY <2>2, CellAssumption DEF IsRecord, IsBlockHeaderValid
<1>3. QED
  BY <1>1, <1>2

\* A record written where the log ends is the last one of its block.
LEMMA LogAppends ==
  ASSUME NEW fl, NEW gl, NEW k \in Cluster, NEW o \in 0 .. ClusterLen[k], NEW b \in Block,
         \A i \in o .. LogFrom(fl, k)[o].end - 1 :
           gl[ClusterStart[k] + i] = fl[ClusterStart[k] + i],
         gl[ClusterStart[k] + LogFrom(fl, k)[o].end] = PackBlockHdr(b),
         LogFrom(fl, k)[o].end + BlockTotal(DataCells[b]) <= ClusterLen[k],
         CleanFrom(gl, k, LogFrom(fl, k)[o].end + BlockTotal(DataCells[b]))
  PROVE  /\ LogFrom(gl, k)[o].end = LogFrom(fl, k)[o].end + BlockTotal(DataCells[b])
         /\ \A x \in Block : LogFrom(gl, k)[o].last[x] = IF x = b THEN LogFrom(fl, k)[o].end
                                                        ELSE LogFrom(fl, k)[o].last[x]
<1> DEFINE len == ClusterLen[k]
           old == LogFrom(fl, k)[o]
           new == LogFrom(gl, k)[o]
           end == old.end
           rest == LogFrom(gl, k)[end]
           next == end + BlockTotal(DataCells[b])
<1>0. len \in Nat /\ BlockTotal(DataCells[b]) \in Nat /\ BlockTotal(DataCells[b]) >= 1
  BY BlockTotalType
<1>1. end \in 0 .. len /\ old.last \in [Block -> {NoRecord} \cup 0 .. len]
  BY LogType
<1>2. next \in 0 .. len /\ next \in Nat /\ end \in Nat
  <2>1. next <= len
    OBVIOUS
  <2> HIDE DEF old
  <2>2. QED
    BY <1>0, <1>1, <2>1
<1>3. PackBlockHdr(b) \in BlockHeader /\ PackBlockHdr(b).block = b /\ PackBlockHdr(b).len = DataCells[b]
  BY DEF PackBlockHdr, BlockHeader
<1>4. RecordEnd(gl, k, end) = next /\ gl[ClusterStart[k] + end].block = b
  BY <1>3 DEF RecordEnd
<1>5. IsRecord(gl, k, end)
  <2>1. end + HeaderSize <= len
    <3> HIDE DEF old
    <3>1. QED
      BY <1>0, <1>2 DEF HeaderSize
  <2>2. QED
    BY <1>3, <2>1 DEF IsRecord, IsBlockHeaderValid
<1>6. LogFrom(gl, k)[next].end = next /\ LogFrom(gl, k)[next].last = EmptyDir
  BY <1>2, CleanStops, LogStops
<1>7. /\ rest.end = next
      /\ \A x \in Block : rest.last[x] = IF x = b THEN end ELSE NoRecord
  <2>1. LET r == LogFrom(gl, k)[RecordEnd(gl, k, end)]
            y == gl[ClusterStart[k] + end].block
        IN  /\ rest.end = r.end
            /\ \A x \in Block : rest.last[x] = IF x = y /\ r.last[x] = NoRecord THEN end
                                               ELSE r.last[x]
    BY <1>1, <1>5, LogGoesOn
  <2>2. \A x \in Block : EmptyDir[x] = NoRecord
    BY DEF EmptyDir
  <2> HIDE DEF end, next, rest
  <2>3. QED
    BY <1>4, <1>6, <2>1, <2>2
<1>8. /\ new.end = rest.end
      /\ \A x \in Block : new.last[x] = IF rest.last[x] = NoRecord THEN old.last[x]
                                         ELSE rest.last[x]
  BY LogExtends
<1>9. new.end = next
  BY <1>7, <1>8
<1>10. \A x \in Block : new.last[x] = IF x = b THEN end ELSE old.last[x]
  <2> HIDE DEF old, new, rest, next, end
  <2>1. end # NoRecord
    BY <1>2 DEF NoRecord
  <2>2. QED
    BY <1>7, <1>8, <2>1
<1>11. QED
  BY <1>9, <1>10

----------------------------------------------------------------------------
(* A cluster on two media                                                  *)

\* The media agree on the cells of cluster k from offset a on.
Same(fl, gl, k, a) ==
  \A i \in a .. ClusterLen[k] - 1 : gl[ClusterStart[k] + i] = fl[ClusterStart[k] + i]

\* The log of a cluster starts behind its header.
LEMMA LogFacts ==
  ASSUME NEW fl, NEW k \in Cluster
  PROVE  /\ HeaderSize \in 0 .. ClusterLen[k] /\ ClusterLen[k] \in Nat
         /\ Log(fl, k).end \in HeaderSize .. ClusterLen[k]
         /\ Log(fl, k).last \in [Block -> {NoRecord} \cup 0 .. ClusterLen[k]]
         /\ \A b \in Block : Log(fl, k).last[b] # NoRecord
                               => Log(fl, k).last[b] \in HeaderSize .. ClusterLen[k]
         /\ ~IsRecord(fl, k, Log(fl, k).end)
<1>1. HeaderSize \in 0 .. ClusterLen[k] /\ ClusterLen[k] \in Nat
  BY DEF HeaderSize
<1>2. QED
  BY <1>1, LogType, LogBounds DEF Log

\* What is known of a cluster depends on its own cells, and but for its
\* generation on those behind the header.
LEMMA SameCluster ==
  ASSUME NEW fl, NEW gl, NEW k \in Cluster, Same(fl, gl, k, HeaderSize)
  PROVE  /\ Log(gl, k).end = Log(fl, k).end
         /\ Log(gl, k).last = Log(fl, k).last
         /\ ClusterOK(fl, k) => ClusterOK(gl, k)
         /\ \A o \in HeaderSize .. ClusterLen[k] : CleanFrom(fl, k, o) => CleanFrom(gl, k, o)
<1> DEFINE len == ClusterLen[k]
           end == Log(fl, k).end
<1>1. /\ HeaderSize \in 0 .. len /\ len \in Nat
      /\ end \in HeaderSize .. len /\ ~IsRecord(fl, k, end)
  BY LogFacts
<1>2. HeaderSize = 1
  BY DEF HeaderSize
<1>3. \A i \in HeaderSize .. end - 1 : gl[ClusterStart[k] + i] = fl[ClusterStart[k] + i]
  <2>1. \A i \in HeaderSize .. end - 1 : i \in HeaderSize .. len - 1
    <3> HIDE DEF end
    <3>1. QED
      BY <1>1, <1>2
  <2>2. QED
    BY <2>1 DEF Same
<1>4. end < len => gl[ClusterStart[k] + end] = fl[ClusterStart[k] + end]
  <2>1. end < len => end \in HeaderSize .. len - 1
    <3> HIDE DEF end
    <3>1. QED
      BY <1>1, <1>2
  <2>2. QED
    BY <2>1 DEF Same
<1>5. ~IsRecord(gl, k, end)
  <2>1. CASE end < len
    BY <1>1, <1>4, <2>1 DEF IsRecord
  <2>2. CASE end = len
    BY <2>2, NoRecordAtEnd
  <2>3. QED
    <3> HIDE DEF end
    <3>1. QED
      BY <1>1, <1>2, <2>1, <2>2
<1>6. Log(gl, k).end = end /\ Log(gl, k).last = Log(fl, k).last
  BY <1>1, <1>3, <1>5, LogKept DEF Log
<1>7. ASSUME NEW o \in HeaderSize .. len, CleanFrom(fl, k, o) PROVE CleanFrom(gl, k, o)
  <2>1. \A i \in o .. len - 1 : i \in HeaderSize .. len - 1
    BY <1>1, <1>2
  <2>2. QED
    BY <1>7, <2>1 DEF CleanFrom, Same
<1>8. ASSUME ClusterOK(fl, k) PROVE ClusterOK(gl, k)
  BY <1>1, <1>4, <1>6, <1>7, <1>8 DEF ClusterOK
<1>9. QED
  BY <1>6, <1>7, <1>8

\* A cluster that is erased behind its header has an empty log.
LEMMA EmptyLog ==
  ASSUME NEW fl, NEW k \in Cluster, CleanFrom(fl, k, HeaderSize)
  PROVE  Log(fl, k).end = HeaderSize /\ Log(fl, k).last = EmptyDir /\ ClusterOK(fl, k)
<1>1. HeaderSize \in 0 .. ClusterLen[k]
  BY LogFacts
<1>2. Log(fl, k).end = HeaderSize /\ Log(fl, k).last = EmptyDir
  BY <1>1, CleanStops, LogStops DEF Log
<1>3. QED
  BY <1>2 DEF ClusterOK, EmptyDir

\* A log that ends where it starts is empty.
LEMMA EndOfEmptyLog ==
  ASSUME NEW fl, NEW k \in Cluster, Log(fl, k).end = HeaderSize
  PROVE  Log(fl, k).last = EmptyDir
<1>1. HeaderSize \in 0 .. ClusterLen[k] /\ ~IsRecord(fl, k, HeaderSize)
  BY LogFacts
<1>2. QED
  BY <1>1, LogStops DEF Log

\* A record appended to a log on an erased part of the cluster.
LEMMA RecordAppended ==
  ASSUME NEW fl, NEW gl, NEW k \in Cluster, NEW b \in Block, ClusterOK(fl, k),
         \A i \in HeaderSize .. Log(fl, k).end - 1 :
           gl[ClusterStart[k] + i] = fl[ClusterStart[k] + i],
         gl[ClusterStart[k] + Log(fl, k).end] = PackBlockHdr(b),
         Log(fl, k).end + BlockTotal(DataCells[b]) <= ClusterLen[k],
         CleanFrom(gl, k, Log(fl, k).end + BlockTotal(DataCells[b]))
  PROVE  /\ Log(gl, k).end = Log(fl, k).end + BlockTotal(DataCells[b])
         /\ \A x \in Block : Log(gl, k).last[x] = IF x = b THEN Log(fl, k).end
                                                 ELSE Log(fl, k).last[x]
         /\ ClusterOK(gl, k)
<1> DEFINE old == Log(fl, k)
           new == Log(gl, k)
<1>1. HeaderSize \in 0 .. ClusterLen[k]
  BY LogFacts
<1>2. /\ new.end = old.end + BlockTotal(DataCells[b])
      /\ \A x \in Block : new.last[x] = IF x = b THEN old.end ELSE old.last[x]
  <2> DEFINE end == LogFrom(fl, k)[HeaderSize].end
             next == end + BlockTotal(DataCells[b])
  <2>1. /\ \A i \in HeaderSize .. end - 1 :
             gl[ClusterStart[k] + i] = fl[ClusterStart[k] + i]
        /\ gl[ClusterStart[k] + end] = PackBlockHdr(b)
        /\ next <= ClusterLen[k]
        /\ CleanFrom(gl, k, next)
    BY DEF Log
  <2>2. /\ LogFrom(gl, k)[HeaderSize].end = next
        /\ \A x \in Block : LogFrom(gl, k)[HeaderSize].last[x] =
                             IF x = b THEN end ELSE LogFrom(fl, k)[HeaderSize].last[x]
    BY <1>1, <2>1, LogAppends
  <2>3. new.end = next /\ \A x \in Block : new.last[x] = IF x = b THEN end ELSE old.last[x]
    BY <2>2 DEF Log
  <2>4. end = old.end
    BY DEF Log
  <2>5. QED
    BY <2>3, <2>4
<1>3. old.end \in Nat /\ old.last \in [Block -> {NoRecord} \cup 0 .. ClusterLen[k]]
  BY LogFacts DEF HeaderSize
<1>4. ASSUME NEW x \in Block, new.last[x] # NoRecord
      PROVE  new.last[x] + BlockTotal(DataCells[x]) <= new.end
  <2>1. BlockTotal(DataCells[b]) \in Nat /\ BlockTotal(DataCells[x]) \in Nat
    BY BlockTotalType
  <2>2. old.last[x] # NoRecord => old.last[x] + BlockTotal(DataCells[x]) <= old.end
    BY DEF ClusterOK
  <2>3. new.last[x] = IF x = b THEN old.end ELSE old.last[x]
    BY <1>2, <1>3
  <2>4. old.last[x] \in {NoRecord} \cup 0 .. ClusterLen[k]
    BY <1>3
  <2> HIDE DEF old, new
  <2>5. CASE x = b
    BY <1>2, <1>3, <2>1, <2>3, <2>5
  <2>6. CASE x # b
    <3>1. new.last[x] = old.last[x] /\ old.last[x] # NoRecord
      BY <1>4, <2>3, <2>6
    <3>2. old.last[x] + BlockTotal(DataCells[x]) <= old.end
      BY <2>2, <3>1
    <3>3. old.last[x] \in Nat
      BY <2>4, <3>1
    <3>4. QED
      BY <1>2, <1>3, <2>1, <3>1, <3>2, <3>3
  <2>7. QED
    BY <2>5, <2>6
<1>5. QED
  BY <1>2, <1>4 DEF ClusterOK

\* A record torn right at its header leaves a log with damage behind it.
LEMMA RecordTorn ==
  ASSUME NEW fl, NEW gl, NEW k \in Cluster, ClusterOK(fl, k),
         \A i \in HeaderSize .. Log(fl, k).end - 1 :
           gl[ClusterStart[k] + i] = fl[ClusterStart[k] + i],
         gl[ClusterStart[k] + Log(fl, k).end] = Torn
  PROVE  ClusterOK(gl, k)
<1>1. HeaderSize \in 0 .. ClusterLen[k]
  BY LogFacts
<1>2. ~IsRecord(gl, k, Log(fl, k).end)
  BY CellAssumption DEF IsRecord, IsBlockHeaderValid
<1>3. Log(gl, k).end = Log(fl, k).end /\ Log(gl, k).last = Log(fl, k).last
  BY <1>1, <1>2, LogKept DEF Log
<1>4. QED
  BY <1>3, CellAssumption DEF ClusterOK
=============================================================================
