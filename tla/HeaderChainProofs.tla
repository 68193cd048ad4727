-------------------------- MODULE HeaderChainProofs --------------------------
(***************************************************************************)
(* Proofs about HeaderChain, for any block tree, any list of checkpoints   *)
(* and any order of calls, restarts and time samples: a checkpoint that    *)
(* was reached stays in the main chain, and the clock is moved by the      *)
(* median of the first samples, which a majority of them bounds.           *)
(***************************************************************************)
EXTENDS HeaderChain, BlockTreeProofs, FiniteSetTheorems, TLAPS

LEMMA WiderSequence ==
  ASSUME NEW S, NEW T, S \subseteq T, NEW s \in Seq(S)
  PROVE  s \in Seq(T)
<1>1. Len(s) \in Nat /\ DOMAIN s = 1 .. Len(s) /\ \A i \in 1 .. Len(s) : s[i] \in T
  OBVIOUS
<1>2. s = [i \in 1 .. Len(s) |-> s[i]]
  OBVIOUS
<1>. QED
  BY <1>1, <1>2

LEMMA PrefixOf ==
  ASSUME NEW S, NEW s \in Seq(S), NEW n \in Nat, n <= Len(s)
  PROVE  SubSeq(s, 1, n) \in Seq(S) /\ Len(SubSeq(s, 1, n)) = n
OBVIOUS

\* The sets of positions that Median counts are finite, and at most all positions.
LEMMA CountsOf ==
  ASSUME NEW s \in Seq(Int), NEW v \in Int
  PROVE  /\ IsFiniteSet(DOMAIN s) /\ Cardinality(DOMAIN s) = Len(s)
         /\ IsFiniteSet(UpTo(s, v)) /\ Cardinality(UpTo(s, v)) \in 0 .. Len(s)
         /\ IsFiniteSet(Below(s, v)) /\ Cardinality(Below(s, v)) \in 0 .. Len(s)
<1>1. Len(s) \in Nat /\ DOMAIN s = 1 .. Len(s)
  OBVIOUS
<1>2. IsFiniteSet(DOMAIN s) /\ Cardinality(DOMAIN s) = Len(s)
  BY <1>1, FS_Interval
<1>3. UpTo(s, v) \in SUBSET DOMAIN s /\ Below(s, v) \in SUBSET DOMAIN s
  BY DEF UpTo, Below
<1>4. /\ IsFiniteSet(UpTo(s, v)) /\ Cardinality(UpTo(s, v)) <= Len(s)
      /\ IsFiniteSet(Below(s, v)) /\ Cardinality(Below(s, v)) <= Len(s)
  BY <1>2, <1>3, FS_Subset
<1>5. Cardinality(UpTo(s, v)) \in Nat /\ Cardinality(Below(s, v)) \in Nat
  BY <1>4, FS_CardinalityType
<1>. QED
  BY <1>1, <1>2, <1>4, <1>5

\* A position of the largest element among some.
LEMMA LargestAmong ==
  ASSUME NEW s \in Seq(Int), NEW T \in SUBSET DOMAIN s, T # {}
  PROVE  \E i \in T : \A j \in T : s[j] <= s[i]
<1>. DEFINE Missing == {Len(s) - Cardinality(UpTo(s, s[i])) : i \in T}
<1>1. \A i \in DOMAIN s : s[i] \in Int
  OBVIOUS
<1>2. \A i \in T : Cardinality(UpTo(s, s[i])) \in 0 .. Len(s)
  BY <1>1, CountsOf
<1>3. PICK m \in Missing : \A k \in Missing : m <= k
  <2>1. Missing \in SUBSET Nat /\ Missing # {}
    BY <1>2
  <2>. HIDE DEF Missing
  <2>. QED
    BY <2>1, LeastElement
<1>4. PICK i \in T : m = Len(s) - Cardinality(UpTo(s, s[i]))
  OBVIOUS
<1>5. ASSUME NEW j \in T, ~ (s[j] <= s[i])
      PROVE  FALSE
  <2>1. UpTo(s, s[i]) \in SUBSET UpTo(s, s[j]) /\ j \in UpTo(s, s[j]) \ UpTo(s, s[i])
    BY <1>1, <1>5 DEF UpTo
  <2>2. Cardinality(UpTo(s, s[i])) <= Cardinality(UpTo(s, s[j]))
    BY <1>1, <2>1, CountsOf, FS_Subset
  <2>3. Cardinality(UpTo(s, s[i])) # Cardinality(UpTo(s, s[j]))
    BY <1>1, <2>1, CountsOf, FS_Subset
  <2>4. Len(s) - Cardinality(UpTo(s, s[j])) \in Missing
    OBVIOUS
  <2>5. Len(s) - Cardinality(UpTo(s, s[i])) <= Len(s) - Cardinality(UpTo(s, s[j]))
    BY <1>3, <1>4, <2>4
  <2>. QED
    BY <1>2, <2>2, <2>3, <2>5
<1>. QED
  BY <1>5

\* The middle of a sequence exists: the least value that more than half of the
\* elements do not exceed.
LEMMA MedianIsMiddle ==
  ASSUME NEW s \in Seq(Int), Len(s) > 0
  PROVE  /\ Median(s) \in {s[i] : i \in DOMAIN s}
         /\ Median(s) \in Int
         /\ Cardinality(Below(s, Median(s))) <= Len(s) \div 2
         /\ Len(s) \div 2 < Cardinality(UpTo(s, Median(s)))
<1>. DEFINE half == Len(s) \div 2
            Counts == {Cardinality(UpTo(s, s[i])) : i \in DOMAIN s}
            Large == {c \in Counts : half < c}
<1>1. \A i \in DOMAIN s : s[i] \in Int
  OBVIOUS
<1>2. half \in Nat /\ half < Len(s) /\ Len(s) \in Nat /\ DOMAIN s = 1 .. Len(s)
  OBVIOUS
<1>3. Large \in SUBSET Nat
  BY <1>1, CountsOf
<1>4. Large # {}
  <2>1. PICK i \in DOMAIN s : \A j \in DOMAIN s : s[j] <= s[i]
    <3>1. 1 \in DOMAIN s
      BY <1>2
    <3>2. DOMAIN s # {} /\ DOMAIN s \in SUBSET DOMAIN s
      BY <3>1
    <3>. HIDE <1>2
    <3>. QED
      BY <3>2, LargestAmong
  <2>2. UpTo(s, s[i]) = DOMAIN s
    BY <2>1 DEF UpTo
  <2>3. Cardinality(UpTo(s, s[i])) = Len(s)
    BY <1>1, <2>2, CountsOf
  <2>. QED
    BY <1>2, <2>3
<1>5. PICK m \in Large : \A c \in Large : m <= c
  <2>. HIDE DEF Large
  <2>. QED
    BY <1>3, <1>4, LeastElement
<1>6. PICK i \in DOMAIN s : m = Cardinality(UpTo(s, s[i]))
  OBVIOUS
<1>7. half < Cardinality(UpTo(s, s[i]))
  BY <1>6
<1>8. Cardinality(Below(s, s[i])) <= half
  <2>1. SUFFICES ASSUME ~ (Cardinality(Below(s, s[i])) <= half) PROVE FALSE
    OBVIOUS
  <2>2. Cardinality(Below(s, s[i])) \in Nat /\ Cardinality(UpTo(s, s[i])) \in Nat
    BY <1>1, CountsOf
  <2>3. Below(s, s[i]) # {}
    <3>1. Below(s, s[i]) = {} => Cardinality(Below(s, s[i])) = 0
      BY FS_EmptySet
    <3>. QED
      BY <1>2, <2>1, <3>1
  <2>4. PICK j \in Below(s, s[i]) : \A k \in Below(s, s[i]) : s[k] <= s[j]
    <3>1. Below(s, s[i]) \in SUBSET DOMAIN s
      BY DEF Below
    <3>. QED
      BY <2>3, <3>1, LargestAmong
  <2>5. j \in DOMAIN s /\ s[j] < s[i]
    BY DEF Below
  <2>6. UpTo(s, s[j]) = Below(s, s[i])
    BY <1>1, <2>4, <2>5 DEF UpTo, Below
  <2>7. Cardinality(UpTo(s, s[j])) \in Large
    BY <1>2, <2>1, <2>2, <2>5, <2>6
  <2>8. Cardinality(UpTo(s, s[i])) <= Cardinality(UpTo(s, s[j]))
    BY <1>5, <1>6, <2>7
  <2>9. UpTo(s, s[j]) \in SUBSET UpTo(s, s[i]) /\ i \in UpTo(s, s[i]) \ UpTo(s, s[j])
    BY <1>1, <2>5 DEF UpTo
  <2>10. /\ Cardinality(UpTo(s, s[j])) <= Cardinality(UpTo(s, s[i]))
         /\ Cardinality(UpTo(s, s[j])) # Cardinality(UpTo(s, s[i]))
    BY <1>1, <2>9, CountsOf, FS_Subset
  <2>. QED
    BY <2>2, <2>6, <2>8, <2>10
<1>9. \E v \in {s[k] : k \in DOMAIN s} :
        /\ Cardinality(Below(s, v)) <= half
        /\ half < Cardinality(UpTo(s, v))
  BY <1>7, <1>8
<1>. QED
  BY <1>1, <1>9 DEF Median

\* More than half of the elements of a sequence of odd length lie around its middle.
LEMMA OddNumber == \A n \in Nat : IsOdd(n) => n = 2 * (n \div 2) + 1
BY DEF IsOdd

LEMMA MajorityAroundMedian ==
  ASSUME NEW s \in Seq(Int), Len(s) > 0, IsOdd(Len(s)),
         NEW lo \in Int, NEW hi \in Int,
         2 * Cardinality({i \in 1 .. Len(s) : lo <= s[i] /\ s[i] <= hi}) > Len(s)
  PROVE  lo <= Median(s) /\ Median(s) <= hi
<1>. DEFINE v == Median(s)
            H == {i \in 1 .. Len(s) : lo <= s[i] /\ s[i] <= hi}
            U == DOMAIN s
            A == U \ Below(s, v)
<1>1. /\ v \in Int
      /\ Cardinality(Below(s, v)) <= Len(s) \div 2
      /\ Len(s) \div 2 < Cardinality(UpTo(s, v))
  BY MedianIsMiddle
<1>. HIDE DEF v
<1>2. /\ Len(s) \in Nat /\ U = 1 .. Len(s) /\ IsFiniteSet(U) /\ Cardinality(U) = Len(s)
      /\ IsFiniteSet(Below(s, v)) /\ Cardinality(Below(s, v)) \in 0 .. Len(s)
      /\ Cardinality(UpTo(s, v)) \in 0 .. Len(s)
  BY <1>1, CountsOf
<1>3. H \subseteq U /\ UpTo(s, v) \subseteq U /\ A \subseteq U
  BY <1>2 DEF UpTo
<1>4. Cardinality(H) \in Nat /\ 2 * Cardinality(H) > Len(s)
  BY <1>2, <1>3, FS_Subset, FS_CardinalityType
<1>5. Cardinality(A) = Len(s) - Cardinality(Below(s, v))
  <2>1. U \cap Below(s, v) = Below(s, v)
    BY DEF Below
  <2>2. Cardinality(U \ Below(s, v)) = Cardinality(U) - Cardinality(U \cap Below(s, v))
    <3>. HIDE DEF U
    <3>. QED
      BY <1>2, FS_Difference
  <2>. QED
    BY <1>2, <2>1, <2>2
<1>6. Len(s) = 2 * (Len(s) \div 2) + 1
  BY <1>2, OddNumber
<1>7. Cardinality(H) + Cardinality(UpTo(s, v)) > Cardinality(U)
  BY <1>1, <1>2, <1>4, <1>6
<1>8. Cardinality(H) + Cardinality(A) > Cardinality(U)
  BY <1>1, <1>2, <1>4, <1>5, <1>6
<1>9. PICK i \in H \cap UpTo(s, v) : TRUE
  <2>. HIDE DEF H, U
  <2>. QED
    BY <1>2, <1>3, <1>7, FS_MajoritiesIntersect
<1>10. PICK j \in H \cap A : TRUE
  <2>. HIDE DEF H, U, A
  <2>. QED
    BY <1>2, <1>3, <1>8, FS_MajoritiesIntersect
<1>11. s[i] \in Int /\ lo <= s[i] /\ s[i] <= v
  BY <1>9 DEF UpTo
<1>12. s[j] \in Int /\ s[j] <= hi /\ v <= s[j]
  BY <1>1, <1>10 DEF Below
<1>13. lo <= v /\ v <= hi
  BY <1>1, <1>11, <1>12
<1>. QED
  BY <1>13 DEF v

-----------------------------------------------------------------------------
\* The list holds every sample until it is full, and is full from then on.
KeepsSamples ==
  /\ Len(heard) <= MaxEntries => offsets = heard
  /\ Len(heard) > MaxEntries => Len(offsets) = MaxEntries

TimeInv ==
  /\ TimeTypeOK
  /\ KeepsSamples
  /\ OffsetOfFirstSamples

\* Counted on the number of samples alone.
CountedOf(n) ==
  LET m == IF n <= MaxEntries THEN n ELSE MaxEntries
  IN  IF IsOdd(m) THEN m ELSE m - 1

LEMMA CountedFacts ==
  /\ Counted = CountedOf(Len(heard))
  /\ \A n \in Nat :
       /\ CountedOf(n) \in Int /\ CountedOf(n) <= n /\ CountedOf(n) >= -1
       /\ CountedOf(n) > 0 => IsOdd(CountedOf(n))
       /\ n < MaxEntries /\ IsOdd(n + 1) =>
            CountedOf(n + 1) = n + 1 /\ CountedOf(n) = n - 1
       /\ n < MaxEntries /\ ~ IsOdd(n + 1) => CountedOf(n + 1) = CountedOf(n)
       /\ n >= MaxEntries => CountedOf(n + 1) = CountedOf(n)
<1>1. Counted = CountedOf(Len(heard))
  BY DEF Counted, CountedOf
<1>2. ASSUME NEW n \in Nat
      PROVE  /\ n % 2 \in {0, 1}
             /\ (n + 1) % 2 = 1 - (n % 2)
             /\ n > 0 /\ n % 2 = 0 => (n - 1) % 2 = 1
  OBVIOUS
<1>3. MaxEntries \in Nat /\ MaxEntries > 0 /\ MaxEntries % 2 = 0
  BY MedianTimeAssumption
<1>4. (MaxEntries - 1) % 2 = 1
  BY <1>2, <1>3
<1>. QED
  BY <1>1, <1>2, <1>3, <1>4 DEF CountedOf, IsOdd

LEMMA TimeInitInv == NewMedianTime => TimeInv
<1>. SUFFICES ASSUME NewMedianTime PROVE TimeInv
  OBVIOUS
<1>1. Len(heard) = 0 /\ Len(heard) \in Nat
  BY DEF NewMedianTime
<1>2. Counted < MinEntries
  <2>1. 0 \in Nat /\ Counted <= 0 /\ Counted \in Int
    BY <1>1, CountedFacts
  <2>. QED
    BY <2>1, MedianTimeAssumption
<1>3. Counted \in Int
  BY <1>1, CountedFacts
<1>4. OffsetOfFirstSamples
  BY <1>2, <1>3, MedianTimeAssumption DEF OffsetOfFirstSamples, NewMedianTime
<1>5. TimeTypeOK
  BY MedianTimeAssumption DEF TimeTypeOK, NewMedianTime
<1>6. KeepsSamples
  BY MedianTimeAssumption DEF KeepsSamples, NewMedianTime
<1>. QED
  BY <1>4, <1>5, <1>6 DEF TimeInv

LEMMA ResetStep == ResetMedianTime => TimeInv'
<1>. SUFFICES ASSUME ResetMedianTime PROVE TimeInv'
  OBVIOUS
<1>1. Len(heard') = 0 /\ Len(heard') \in Nat
  BY DEF ResetMedianTime
<1>2. Counted' = CountedOf(Len(heard'))
  BY DEF Counted, CountedOf
<1>3. Counted' < MinEntries /\ Counted' \in Int
  <2>1. 0 \in Nat /\ CountedOf(0) <= 0 /\ CountedOf(0) \in Int
    BY CountedFacts
  <2>. QED
    BY <1>1, <1>2, <2>1, MedianTimeAssumption
<1>4. OffsetOfFirstSamples'
  BY <1>3, MedianTimeAssumption DEF OffsetOfFirstSamples, ResetMedianTime
<1>5. TimeTypeOK'
  BY MedianTimeAssumption DEF TimeTypeOK, ResetMedianTime
<1>6. KeepsSamples'
  BY MedianTimeAssumption DEF KeepsSamples, ResetMedianTime
<1>. QED
  BY <1>4, <1>5, <1>6 DEF TimeInv

LEMMA LimitedFacts ==
  ASSUME NEW m \in Int
  PROVE  Limited(m) \in Int /\ -MaxAllowedOffset < Limited(m) /\ Limited(m) < MaxAllowedOffset
BY MedianTimeAssumption DEF Limited

\* A sample: it is counted with all the others while the list has room, and not at
\* all afterwards.
LEMMA AddTimeSampleStep ==
  ASSUME TimeInv, NEW id \in Sources, NEW o \in Samples, AddTimeSample(id, o)
  PROVE  TimeInv'
<1>. DEFINE n == Len(heard)
            a == Appended(o)
<1>1. /\ heard \in Seq(Samples) /\ offsets \in Seq(Samples) /\ offsetSecs \in Int
      /\ n \in Nat /\ Len(offsets) <= MaxEntries /\ Len(offsets) \in Nat
      /\ Samples \subseteq Int
  BY MedianTimeAssumption DEF TimeInv, TimeTypeOK
<1>2. MaxEntries \in Nat /\ MaxEntries > 0 /\ MaxEntries % 2 = 0 /\ MinEntries \in Nat
      /\ MinEntries > 0
  BY MedianTimeAssumption
<1>3. heard' = Append(heard, o) /\ heard' \in Seq(Samples) /\ Len(heard') = n + 1
  BY <1>1 DEF AddTimeSample
<1>4. /\ a \in Seq(Samples)
      /\ Len(offsets) < MaxEntries => a = Append(offsets, o) /\ Len(a) = Len(offsets) + 1
      /\ Len(offsets) = MaxEntries => Len(a) = MaxEntries
  BY <1>1, <1>2 DEF Appended
<1>5. /\ offsets' = a
      /\ offsetSecs' = IF Len(a) >= MinEntries /\ IsOdd(Len(a)) THEN Limited(Median(a))
                       ELSE offsetSecs
      /\ knownIDs' = knownIDs \cup {id}
  BY DEF AddTimeSample
<1>6. Counted = CountedOf(n) /\ Counted' = CountedOf(n + 1)
  <2>1. Counted' = CountedOf(Len(heard'))
    BY DEF Counted, CountedOf
  <2>. QED
    BY <1>3, <2>1, CountedFacts
<1>7. /\ CountedOf(n) \in Int /\ CountedOf(n) <= n
  BY <1>1, CountedFacts
<1>. HIDE DEF a, n
<1>8. KeepsSamples'
  BY <1>1, <1>2, <1>3, <1>4, <1>5 DEF TimeInv, KeepsSamples, n
<1>9. offsetSecs' \in Int
  <2>1. CASE Len(a) >= MinEntries /\ IsOdd(Len(a))
    <3>1. a \in Seq(Int)
      BY <1>1, <1>4, WiderSequence
    <3>2. Len(a) > 0
      BY <1>2, <1>4, <2>1
    <3>. QED
      BY <1>5, <2>1, <3>1, <3>2, MedianIsMiddle, LimitedFacts
  <2>2. CASE ~ (Len(a) >= MinEntries /\ IsOdd(Len(a)))
    BY <1>1, <1>5, <2>2
  <2>. QED
    BY <2>1, <2>2
<1>10. TimeTypeOK'
  <2>1. Len(a) <= MaxEntries
    BY <1>1, <1>2, <1>4
  <2>. QED
    BY <1>3, <1>4, <1>5, <1>9, <2>1 DEF TimeInv, TimeTypeOK
<1>11. CountedOf(n) >= MinEntries =>
         SubSeq(heard', 1, CountedOf(n)) = SubSeq(heard, 1, CountedOf(n))
  BY <1>1, <1>2, <1>3, <1>7 DEF n
<1>12. OffsetOfFirstSamples'
  <2>1. CASE n < MaxEntries /\ IsOdd(n + 1)
    <3>1. CountedOf(n + 1) = n + 1 /\ CountedOf(n) = n - 1
      BY <1>1, <2>1, CountedFacts
    <3>2. a = heard' /\ Len(a) = n + 1
      BY <1>1, <1>2, <1>3, <1>4, <2>1 DEF TimeInv, KeepsSamples, n
    <3>3. SubSeq(heard', 1, n + 1) = heard'
      BY <1>1, <1>3
    <3>4. CASE n + 1 >= MinEntries
      BY <1>5, <1>6, <2>1, <3>1, <3>2, <3>3, <3>4 DEF OffsetOfFirstSamples
    <3>5. CASE ~ (n + 1 >= MinEntries)
      <4>1. ~ (Counted >= MinEntries) /\ ~ (Counted' >= MinEntries)
        BY <1>1, <1>2, <1>6, <3>1, <3>5
      <4>2. offsetSecs' = offsetSecs
        BY <1>5, <3>2, <3>5
      <4>. QED
        BY <4>1, <4>2 DEF TimeInv, OffsetOfFirstSamples
    <3>. QED
      BY <3>4, <3>5
  <2>2. CASE ~ (n < MaxEntries /\ IsOdd(n + 1))
    <3>1. Counted' = Counted
      <4>1. CASE n < MaxEntries /\ ~ IsOdd(n + 1)
        BY <1>1, <1>6, <4>1, CountedFacts
      <4>2. CASE n >= MaxEntries
        BY <1>1, <1>6, <4>2, CountedFacts
      <4>. QED
        BY <1>1, <1>2, <2>2, <4>1, <4>2
    <3>2. offsetSecs' = offsetSecs
      <4>1. n < MaxEntries => ~ IsOdd(Len(a))
        BY <1>1, <1>2, <1>4, <2>2 DEF TimeInv, KeepsSamples, n
      <4>2. ~ (n < MaxEntries) => Len(a) = MaxEntries
        BY <1>1, <1>2, <1>4 DEF TimeInv, KeepsSamples, n
      <4>. QED
        BY <1>2, <1>5, <4>1, <4>2 DEF IsOdd
    <3>. QED
      BY <1>6, <1>11, <3>1, <3>2 DEF TimeInv, OffsetOfFirstSamples
  <2>. QED
    BY <2>1, <2>2
<1>. QED
  BY <1>8, <1>10, <1>12 DEF TimeInv

LEMMA TimeInvStep == TimeInv /\ [NextTime]_timeVars => TimeInv'
<1>. SUFFICES ASSUME TimeInv, [NextTime]_timeVars PROVE TimeInv'
  OBVIOUS
<1>1. CASE \E id \in Sources, o \in Samples : AddTimeSample(id, o)
  BY <1>1, AddTimeSampleStep
<1>2. CASE ResetMedianTime
  BY <1>2, ResetStep
<1>3. CASE UNCHANGED timeVars
  BY <1>3 DEF timeVars, TimeInv, TimeTypeOK, KeepsSamples, OffsetOfFirstSamples, Counted
<1>. QED
  BY <1>1, <1>2, <1>3 DEF NextTime

\* The offset is the limited median of the first samples heard, and stays it.
THEOREM OffsetIsSettled == TimeSpec => []OffsetOfFirstSamples
<1>1. TimeInv => OffsetOfFirstSamples
  BY DEF TimeInv
<1>. QED
  BY <1>1, TimeInitInv, TimeInvStep, PTL DEF TimeSpec

LEMMA InvBounds == TimeInv => ClockNearLocal
<1>. SUFFICES ASSUME TimeInv PROVE ClockNearLocal
  OBVIOUS
<1>1. heard \in Seq(Samples) /\ Len(heard) \in Nat /\ Samples \subseteq Int
  BY MedianTimeAssumption DEF TimeInv, TimeTypeOK
<1>2. Counted \in Int /\ Counted <= Len(heard)
  BY <1>1, CountedFacts
<1>3. CASE Counted >= MinEntries
  <2>1. /\ SubSeq(heard, 1, Counted) \in Seq(Int)
        /\ Len(SubSeq(heard, 1, Counted)) > 0
    <3>1. Counted \in Nat /\ Counted > 0
      BY <1>2, <1>3, MedianTimeAssumption
    <3>2. SubSeq(heard, 1, Counted) \in Seq(Samples) /\ Len(SubSeq(heard, 1, Counted)) = Counted
      BY <1>1, <1>2, <3>1, PrefixOf
    <3>. QED
      BY <1>1, <3>1, <3>2, WiderSequence
  <2>. QED
    BY <1>3, <2>1, MedianIsMiddle, LimitedFacts DEF TimeInv, OffsetOfFirstSamples, ClockNearLocal
<1>4. CASE ~ (Counted >= MinEntries)
  BY <1>4, MedianTimeAssumption DEF TimeInv, OffsetOfFirstSamples, ClockNearLocal
<1>. QED
  BY <1>3, <1>4

LEMMA InvMajority == TimeInv => MajorityBoundsOffset
<1>. SUFFICES ASSUME TimeInv, Counted >= MinEntries,
                     NEW lo \in Samples, NEW hi \in Samples,
                     -MaxAllowedOffset < lo, hi < MaxAllowedOffset,
                     2 * Cardinality(Within(lo, hi)) > Counted
              PROVE  lo <= offsetSecs /\ offsetSecs <= hi
  BY DEF MajorityBoundsOffset
<1>. DEFINE s == SubSeq(heard, 1, Counted)
<1>1. /\ heard \in Seq(Samples) /\ Len(heard) \in Nat /\ lo \in Int /\ hi \in Int
      /\ Samples \subseteq Int /\ MinEntries \in Nat /\ MinEntries > 0
      /\ MaxAllowedOffset \in Nat
  BY MedianTimeAssumption DEF TimeInv, TimeTypeOK
<1>2. Counted \in Int /\ Counted <= Len(heard) /\ (Counted > 0 => IsOdd(Counted))
  BY <1>1, CountedFacts
<1>3. s \in Seq(Int) /\ Len(s) = Counted /\ Counted > 0 /\ IsOdd(Len(s))
  <2>1. Counted \in Nat /\ Counted > 0
    BY <1>1, <1>2
  <2>2. s \in Seq(Samples) /\ Len(s) = Counted
    BY <1>1, <1>2, <2>1, PrefixOf
  <2>. HIDE DEF s
  <2>. QED
    BY <1>1, <1>2, <2>1, <2>2, WiderSequence
<1>4. \A i \in 1 .. Counted : s[i] = heard[i]
  BY <1>1, <1>2, <1>3
<1>5. Within(lo, hi) = {i \in 1 .. Len(s) : lo <= s[i] /\ s[i] <= hi}
  <2>. HIDE DEF s
  <2>. QED
    BY <1>3, <1>4 DEF Within
<1>. HIDE DEF s
<1>6. lo <= Median(s) /\ Median(s) <= hi /\ Median(s) \in Int
  BY <1>1, <1>3, <1>5, MajorityAroundMedian, MedianIsMiddle
<1>7. offsetSecs = Limited(Median(s))
  BY DEF TimeInv, OffsetOfFirstSamples, s
<1>. QED
  BY <1>1, <1>6, <1>7 DEF Limited

\* A majority of the counted samples bounds the offset.
THEOREM MajorityDecides == TimeSpec => []MajorityBoundsOffset
  BY InvMajority, TimeInitInv, TimeInvStep, PTL DEF TimeSpec

-----------------------------------------------------------------------------
(***************************************************************************)
(* Checkpoints.                                                            *)
(***************************************************************************)
\* A chain has a block of every height.
LEMMA ChainHasHeight ==
  \A b \in Blocks : \A h \in 0 .. Height[b] : \E c \in Ancestry[b] : Height[c] = h
<1>. USE TreeAssumption
<1>. DEFINE S == {b \in Blocks : \A h \in 0 .. Height[b] :
                                   \E c \in Ancestry[b] : Height[c] = h}
<1>1. Genesis \in S
  OBVIOUS
<1>2. ASSUME NEW b \in Blocks \ {Genesis}, Parent[b] \in S
      PROVE  b \in S
  <2>1. /\ Height[b] = Height[Parent[b]] + 1 /\ Height[Parent[b]] \in Nat
        /\ Ancestry[b] = Ancestry[Parent[b]] \cup {b}
    OBVIOUS
  <2>2. ASSUME NEW h \in 0 .. Height[b]
        PROVE  \E c \in Ancestry[b] : Height[c] = h
    <3>1. CASE h = Height[b]
      BY <2>1, <3>1
    <3>2. CASE h \in 0 .. Height[Parent[b]]
      BY <1>2, <2>1, <3>2
    <3>. QED
      BY <2>1, <3>1, <3>2
  <2>. QED
    BY <2>2
<1>3. Blocks \subseteq S
  <2>. HIDE DEF S
  <2>. QED
    BY <1>1, <1>2, ChainInduction
<1>. QED
  BY <1>3

\* The known blocks hold their ancestors and agree with the checkpoints.
Verified(known) ==
  /\ known \subseteq Blocks
  /\ \A b \in known : Ancestry[b] \subseteq known /\ VerifyCheckpoint(b)

LEMMA CheckpointFacts ==
  /\ Len(Checkpoint) \in Nat
  /\ \A i \in 1 .. Len(Checkpoint) :
       Checkpoint[i] \in Blocks \ {Genesis} /\ Height[Checkpoint[i]] \in Nat
  /\ \A i, j \in 1 .. Len(Checkpoint) :
       i <= j => Height[Checkpoint[i]] <= Height[Checkpoint[j]]
<1>1. /\ Len(Checkpoint) \in Nat
      /\ \A i \in 1 .. Len(Checkpoint) : Checkpoint[i] \in Blocks \ {Genesis}
  BY CheckpointAssumption
<1>2. \A i \in 1 .. Len(Checkpoint) : Height[Checkpoint[i]] \in Nat
  BY <1>1, TreeAssumption
<1>3. \A i, j \in 1 .. Len(Checkpoint) :
        i < j => Height[Checkpoint[i]] < Height[Checkpoint[j]]
  BY CheckpointAssumption
<1>. QED
  BY <1>1, <1>2, <1>3

\* A known chain that is as high as a checkpoint goes through it.
LEMMA ReachedCheckpoint ==
  ASSUME NEW known, Verified(known), NEW tip \in known,
         NEW i \in 1 .. Len(Checkpoint), Height[Checkpoint[i]] <= Height[tip]
  PROVE  Checkpoint[i] \in Ancestry[tip]
<1>1. tip \in Blocks /\ Height[tip] \in Nat /\ Height[Checkpoint[i]] \in Nat
  BY CheckpointFacts, TreeAssumption DEF Verified
<1>2. PICK c \in Ancestry[tip] : Height[c] = Height[Checkpoint[i]]
  BY <1>1, ChainHasHeight
<1>3. VerifyCheckpoint(c)
  BY DEF Verified
<1>. QED
  BY <1>2, <1>3 DEF VerifyCheckpoint

\* A cache that is right for a chain.
CacheFits(c, tip) ==
  /\ c \in Caches
  /\ c.block # 0 => c.block \in Stored(tip)
  /\ c # NotSearched => c.next = After(c.block)

LEMMA AfterType ==
  ASSUME NEW i \in 0 .. Len(Checkpoint)
  PROVE  After(i) \in 0 .. Len(Checkpoint)
BY CheckpointFacts DEF After

LEMMA SearchFits ==
  ASSUME NEW tip \in Blocks
  PROVE  CacheFits(Search(tip), tip) /\ \A j \in Stored(tip) : j <= Search(tip).block
<1>. DEFINE n == Len(Checkpoint)
            S == Stored(tip) \cup {0}
            Above == {n - i : i \in S}
<1>1. n \in Nat /\ Stored(tip) \subseteq 1 .. n
  BY CheckpointFacts DEF Stored
<1>2. PICK m \in Above : \A k \in Above : m <= k
  <2>1. Above \in SUBSET Nat /\ Above # {}
    BY <1>1
  <2>. HIDE DEF Above
  <2>. QED
    BY <2>1, LeastElement
<1>3. PICK i \in S : m = n - i
  OBVIOUS
<1>4. \A j \in Stored(tip) : j <= i
  <2>1. \A j \in Stored(tip) : n - i <= n - j
    BY <1>2, <1>3
  <2>. QED
    BY <1>1, <2>1
<1>. DEFINE x == CHOOSE j \in S : \A k \in Stored(tip) : k <= j
<1>5. x \in S /\ \A j \in Stored(tip) : j <= x
  BY <1>4
<1>6. Search(tip) = [block |-> x, next |-> After(x)]
  BY DEF Search
<1>. HIDE DEF x
<1>7. x \in 0 .. n /\ (x # 0 => x \in Stored(tip))
  BY <1>1, <1>5
<1>. QED
  BY <1>5, <1>6, <1>7, AfterType DEF CacheFits, Caches

\* findPreviousCheckpoint keeps the cache right, and finds what it looks up.
LEMMA FindFits ==
  ASSUME NEW known, Verified(known), NEW tip \in known,
         NEW c, CacheFits(c, tip)
  PROVE  CacheFits(FindPreviousCheckpoint(c, tip), tip) /\ LookupSucceeds(c, tip)
<1>1. tip \in Blocks /\ Height[tip] \in Nat
  BY TreeAssumption DEF Verified
<1>2. c.block \in 0 .. Len(Checkpoint) /\ c.next \in 0 .. Len(Checkpoint)
  BY DEF CacheFits, Caches
<1>3. ASSUME c.next # 0, Height[tip] >= Height[Checkpoint[c.next]]
      PROVE  c.next \in Stored(tip)
  <2>1. c.next \in 1 .. Len(Checkpoint)
    BY <1>2, <1>3, CheckpointFacts
  <2>2. Height[Checkpoint[c.next]] <= Height[tip]
    BY <1>1, <1>3, <2>1, CheckpointFacts
  <2>3. Checkpoint[c.next] \in Ancestry[tip]
    BY <2>1, <2>2, ReachedCheckpoint
  <2>. QED
    BY <2>1, <2>3 DEF Stored
<1>4. LookupSucceeds(c, tip)
  BY <1>3 DEF LookupSucceeds
<1>5. CASE c = NotSearched
  BY <1>1, <1>4, <1>5, SearchFits DEF FindPreviousCheckpoint
<1>6. CASE c # NotSearched /\ (c.next = 0 \/ Height[tip] < Height[Checkpoint[c.next]])
  BY <1>4, <1>6 DEF FindPreviousCheckpoint
<1>7. CASE c # NotSearched /\ ~ (c.next = 0 \/ Height[tip] < Height[Checkpoint[c.next]])
  <2>1. c.next \in 1 .. Len(Checkpoint)
    BY <1>2, <1>7, CheckpointFacts
  <2>2. Height[tip] >= Height[Checkpoint[c.next]]
    BY <1>1, <1>7, <2>1, CheckpointFacts
  <2>3. c.next \in Stored(tip)
    BY <1>3, <1>7, <2>2
  <2>4. FindPreviousCheckpoint(c, tip) = [block |-> c.next, next |-> After(c.next)]
    BY <1>7 DEF FindPreviousCheckpoint
  <2>5. After(c.next) \in 0 .. Len(Checkpoint)
    BY <1>2, AfterType
  <2>. QED
    BY <1>2, <1>4, <2>3, <2>4, <2>5 DEF CacheFits, Caches
<1>. QED
  BY <1>4, <1>5, <1>6, <1>7

\* The cache c has at most k checkpoints of the chain of tip to catch up with.
Reaches(c, tip, k) == \A i \in Stored(tip) : i <= c.block + k

\* findPreviousCheckpoint catches up with one of them, or with all at first.
LEMMA FindCatchesUp ==
  ASSUME NEW known, Verified(known), NEW tip \in known,
         NEW c, CacheFits(c, tip), NEW k \in Nat,
         c = NotSearched \/ Reaches(c, tip, k + 1)
  PROVE  Reaches(FindPreviousCheckpoint(c, tip), tip, k)
<1>1. /\ tip \in Blocks /\ Height[tip] \in Nat
      /\ c.block \in 0 .. Len(Checkpoint) /\ c.next \in 0 .. Len(Checkpoint)
      /\ Stored(tip) \subseteq 1 .. Len(Checkpoint) /\ Len(Checkpoint) \in Nat
  BY CheckpointFacts, TreeAssumption DEF Verified, CacheFits, Caches, Stored
<1>2. CASE c = NotSearched
  <2>1. /\ FindPreviousCheckpoint(c, tip) = Search(tip)
        /\ Search(tip).block \in 0 .. Len(Checkpoint)
        /\ \A j \in Stored(tip) : j <= Search(tip).block
    BY <1>1, <1>2, SearchFits DEF FindPreviousCheckpoint, CacheFits, Caches
  <2>. QED
    BY <1>1, <2>1 DEF Reaches
<1>3. CASE c # NotSearched /\ c.next = 0
  <2>1. c.block = Len(Checkpoint)
    BY <1>1, <1>3 DEF CacheFits, After
  <2>2. FindPreviousCheckpoint(c, tip) = c
    BY <1>3 DEF FindPreviousCheckpoint
  <2>. QED
    BY <1>1, <2>1, <2>2 DEF Reaches
<1>4. CASE c # NotSearched /\ c.next # 0
  <2>1. c.next = c.block + 1
    BY <1>1, <1>4 DEF CacheFits, After
  <2>2. CASE Height[tip] < Height[Checkpoint[c.next]]
    <3>1. FindPreviousCheckpoint(c, tip) = c
      BY <1>4, <2>2 DEF FindPreviousCheckpoint
    <3>2. ASSUME NEW i \in Stored(tip)
          PROVE  i <= c.block
      <4>1. i \in 1 .. Len(Checkpoint) /\ Height[Checkpoint[i]] <= Height[tip]
        BY <1>1, ChainsAreChains DEF ChainFacts, Stored
      <4>2. ~ c.next <= i
        BY <1>1, <1>4, <2>2, <4>1, CheckpointFacts
      <4>. QED
        BY <1>1, <2>1, <4>1, <4>2
    <3>. QED
      BY <1>1, <3>1, <3>2 DEF Reaches
  <2>3. CASE ~ (Height[tip] < Height[Checkpoint[c.next]])
    <3>1. FindPreviousCheckpoint(c, tip).block = c.block + 1
      BY <1>4, <2>1, <2>3 DEF FindPreviousCheckpoint
    <3>. QED
      BY <1>1, <1>4, <3>1 DEF Reaches
  <2>. QED
    BY <2>2, <2>3
<1>. QED
  BY <1>2, <1>3, <1>4

-----------------------------------------------------------------------------
(***************************************************************************)
(* The inductive invariant.  That the cached checkpoint is in the main     *)
(* chain holds on because the known blocks are verified: whatever is       *)
(* accepted is as high as that checkpoint, so its chain goes through it.   *)
(***************************************************************************)
Inv ==
  /\ Verified(index)
  /\ bestChain \in index
  /\ CacheFits(checkpoint, bestChain)
  /\ orphans \subseteq Blocks \ {Genesis}
  /\ processHashes \subseteq index
  /\ fastAdd \in BOOLEAN
  /\ clock \in Nat
  /\ TimesBounded
  /\ TimeInv

LEMMA GenesisVerified == Verified({Genesis})
<1>1. \A b \in Blocks \ {Genesis} : Height[b] # Height[Genesis]
  <2>1. \A b \in Blocks \ {Genesis} : /\ Height[b] = Height[Parent[b]] + 1
                                       /\ Height[Parent[b]] \in Nat
    BY TreeAssumption
  <2>2. Height[Genesis] = 0
    BY TreeAssumption
  <2>. QED
    BY <2>1, <2>2
<1>2. \A i \in 1 .. Len(Checkpoint) : Checkpoint[i] \in Blocks \ {Genesis}
  BY CheckpointFacts
<1>3. VerifyCheckpoint(Genesis)
  BY <1>1, <1>2 DEF VerifyCheckpoint
<1>. QED
  BY <1>3, TreeAssumption DEF Verified

LEMMA InitInv == Init => Inv
<1>. SUFFICES ASSUME Init PROVE Inv
  OBVIOUS
<1>1. TimeInv
  BY TimeInitInv DEF Init
<1>2. CacheFits(checkpoint, bestChain)
  BY CheckpointFacts DEF Init, CacheFits, Caches, NotSearched
<1>3. TimesBounded
  BY DEF Init, TimesBounded
<1>. QED
  BY <1>1, <1>2, <1>3, GenesisVerified, HeaderAssumption DEF Init, Inv

\* What a call does to the known blocks when it accepts or refuses b with the
\* cache c.
LEMMA ConnectFits ==
  ASSUME Verified(index), bestChain \in index,
         NEW b \in Blocks \ {Genesis}, Parent[b] \in index,
         VerifyCheckpoint(b),
         NEW c, CacheFits(c, bestChain), ~ ForkTooOld(b, c),
         NEW hashes \in SUBSET (index \cup {b}), NEW fast \in BOOLEAN,
         ConnectBestChain(b, hashes, fast)
  PROVE  /\ Verified(index') /\ bestChain' \in index' /\ CacheFits(c, bestChain')
         /\ index \subseteq index' /\ index' \subseteq index \cup {b}
         /\ processHashes' \subseteq index' /\ fastAdd' \in BOOLEAN
<1>1. /\ \/ index' = index /\ bestChain' = bestChain /\ GoOn({}, FALSE)
         \/ /\ index' = index \cup {b} /\ bestChain' \in {bestChain, b}
            /\ GoOn(hashes, fast) \/ GoOn({}, FALSE)
  BY DEF ConnectBestChain
<1>2. Verified(index \cup {b})
  BY TreeAssumption DEF Verified
<1>3. CacheFits(c, b)
  <2>1. ASSUME c.block # 0
        PROVE  c.block \in Stored(b)
    <3>1. c.block \in 1 .. Len(Checkpoint)
      BY <2>1, CheckpointFacts DEF CacheFits, Caches
    <3>2. Height[Checkpoint[c.block]] <= Height[b]
      BY <2>1, <3>1, CheckpointFacts, TreeAssumption DEF ForkTooOld
    <3>3. Checkpoint[c.block] \in Ancestry[b]
      BY <1>2, <3>1, <3>2, ReachedCheckpoint
    <3>. QED
      BY <3>1, <3>3 DEF Stored
  <2>. QED
    BY <2>1 DEF CacheFits
<1>4. processHashes' \subseteq index' /\ fastAdd' \in BOOLEAN
  <2>1. ASSUME GoOn({}, FALSE)
        PROVE  processHashes' = {} /\ fastAdd' = FALSE
    BY <2>1 DEF GoOn, Waiting
  <2>2. ASSUME GoOn(hashes, fast)
        PROVE  processHashes' \subseteq hashes /\ fastAdd' \in BOOLEAN
    BY <2>2 DEF GoOn, Waiting
  <2>. QED
    BY <1>1, <2>1, <2>2
<1>. QED
  BY <1>1, <1>2, <1>3, <1>4

LEMMA AcceptFits ==
  ASSUME Verified(index), bestChain \in index,
         NEW b \in Blocks \ {Genesis}, Parent[b] \in index,
         NEW c, CacheFits(c, bestChain),
         NEW hashes \in SUBSET (index \cup {b}), NEW fast \in BOOLEAN,
         MaybeAcceptBlock(b, c, hashes, fast)
  PROVE  /\ Verified(index') /\ bestChain' \in index'
         /\ CacheFits(checkpoint', bestChain')
         /\ index \subseteq index' /\ index' \subseteq index \cup {b}
         /\ processHashes' \subseteq index' /\ fastAdd' \in BOOLEAN
<1>1. ASSUME GoOn({}, FALSE)
      PROVE  processHashes' = {} /\ fastAdd' = FALSE
  BY <1>1 DEF GoOn, Waiting
<1>2. CASE ~ ((fast \/ ~TimeTooOld(b)) /\ VerifyCheckpoint(b))
  <2>1. checkpoint' = c /\ GoOn({}, FALSE) /\ UNCHANGED <<index, bestChain>>
    BY <1>2 DEF MaybeAcceptBlock
  <2>. QED
    BY <1>1, <2>1
<1>3. CASE (fast \/ ~TimeTooOld(b)) /\ VerifyCheckpoint(b)
  <2>. DEFINE d == FindPreviousCheckpoint(c, bestChain)
  <2>1. CacheFits(d, bestChain)
    BY FindFits
  <2>2. /\ checkpoint' = d
        /\ \/ GoOn({}, FALSE) /\ UNCHANGED <<index, bestChain>>
           \/ ~ ForkTooOld(b, d) /\ ConnectBestChain(b, hashes, fast)
    BY <1>3 DEF MaybeAcceptBlock
  <2>. HIDE DEF d
  <2>3. CASE GoOn({}, FALSE) /\ UNCHANGED <<index, bestChain>>
    BY <1>1, <2>1, <2>2, <2>3
  <2>4. CASE ~ ForkTooOld(b, d) /\ ConnectBestChain(b, hashes, fast)
    <3>1. /\ Verified(index') /\ bestChain' \in index' /\ CacheFits(d, bestChain')
          /\ index \subseteq index' /\ index' \subseteq index \cup {b}
          /\ processHashes' \subseteq index' /\ fastAdd' \in BOOLEAN
      BY <1>3, <2>1, <2>4, ConnectFits
    <3>. QED
      BY <2>2, <3>1
  <2>. QED
    BY <2>2, <2>3, <2>4
<1>. QED
  BY <1>2, <1>3

-----------------------------------------------------------------------------
\* The times of the known blocks, when the clock does not run backwards and what
\* comes in was not too far in the future.
LEMMA BoundedStep ==
  ASSUME TimesBounded, clock \in Nat, clock' \in Nat, clock <= clock',
         NEW new \in SUBSET Blocks, index \cup orphans \subseteq Blocks,
         (index \cup orphans)' \subseteq index \cup orphans \cup new,
         \A b \in new : BlockTime[b] < clock + MaxAllowedOffset + MaxTimeOffset
  PROVE  TimesBounded'
<1>. SUFFICES ASSUME NEW b \in (index \cup orphans)' \ {Genesis}
              PROVE  BlockTime[b] < clock' + MaxAllowedOffset + MaxTimeOffset
  BY DEF TimesBounded
<1>1. BlockTime[b] < clock + MaxAllowedOffset + MaxTimeOffset
  BY DEF TimesBounded
<1>2. MaxAllowedOffset \in Nat /\ MaxTimeOffset \in Nat
  BY MedianTimeAssumption, HeaderAssumption
<1>. HIDE DEF TimesBounded
<1>3. BlockTime[b] \in Nat
  BY HeaderAssumption
<1>. QED
  BY <1>1, <1>2, <1>3

LEMMA ProcessBlockStep ==
  ASSUME Inv, NEW b \in Blocks \ {Genesis}, NEW fast \in BOOLEAN, ProcessBlock(b, fast)
  PROVE  Inv'
<1>. DEFINE c == FindPreviousCheckpoint(checkpoint, bestChain)
<1>1. CacheFits(c, bestChain)
  BY FindFits DEF Inv
<1>2. clock' = clock /\ UNCHANGED timeVars
  BY DEF ProcessBlock
<1>3. TimeInv'
  BY <1>2, TimeInvStep DEF Inv
<1>4. BlockTime[b] < clock + MaxAllowedOffset + MaxTimeOffset
  <2>1. /\ offsetSecs < MaxAllowedOffset /\ offsetSecs \in Int
    BY InvBounds DEF Inv, TimeInv, TimeTypeOK, ClockNearLocal
  <2>2. /\ ~ (BlockTime[b] > clock + offsetSecs + MaxTimeOffset)
    BY DEF ProcessBlock, TimeTooNew, AdjustedTime
  <2>. QED
    BY <2>1, <2>2, MedianTimeAssumption, HeaderAssumption DEF Inv
<1>. HIDE DEF c
<1>5. \/ /\ checkpoint' = c
         /\ orphans' \in {orphans, orphans \cup {b}}
         /\ UNCHANGED <<index, bestChain, processHashes, fastAdd>>
      \/ /\ Parent[b] \in index /\ UNCHANGED orphans
         /\ MaybeAcceptBlock(b, c, {b}, fast)
  BY DEF ProcessBlock, c
<1>6. /\ Verified(index') /\ bestChain' \in index'
      /\ CacheFits(checkpoint', bestChain')
      /\ processHashes' \subseteq index' /\ fastAdd' \in BOOLEAN
      /\ index' \subseteq index \cup {b} /\ orphans' \subseteq orphans \cup {b}
  <2>1. CASE /\ checkpoint' = c
             /\ orphans' \in {orphans, orphans \cup {b}}
             /\ UNCHANGED <<index, bestChain, processHashes, fastAdd>>
    BY <1>1, <2>1 DEF Inv
  <2>2. CASE /\ Parent[b] \in index /\ UNCHANGED orphans
             /\ MaybeAcceptBlock(b, c, {b}, fast)
    <3>1. {b} \in SUBSET (index \cup {b})
      OBVIOUS
    <3>2. Verified(index) /\ bestChain \in index
      BY DEF Inv
    <3>. HIDE DEF Inv
    <3>. QED
      BY <1>1, <2>2, <3>1, <3>2, AcceptFits
  <2>. QED
    BY <1>5, <2>1, <2>2
<1>7. TimesBounded'
  <2>1. (index \cup orphans)' \subseteq index \cup orphans \cup {b}
    BY <1>6
  <2>2. {b} \in SUBSET Blocks /\ clock' \in Nat /\ clock <= clock' /\ clock \in Nat
    BY <1>2 DEF Inv
  <2>. QED
    BY <1>4, <2>1, <2>2, BoundedStep DEF Inv, Verified
<1>. QED
  BY <1>2, <1>3, <1>6, <1>7 DEF Inv

LEMMA ProcessOrphanStep ==
  ASSUME Inv, NEW o \in orphans, ProcessOrphan(o)
  PROVE  Inv'
<1>1. clock' = clock /\ UNCHANGED timeVars
  BY DEF ProcessOrphan
<1>2. TimeInv'
  BY <1>1, TimeInvStep DEF Inv
<1>3. /\ o \in Blocks \ {Genesis} /\ Parent[o] \in index
      /\ orphans' = orphans \ {o}
      /\ MaybeAcceptBlock(o, checkpoint, processHashes \cup {o}, fastAdd)
  BY DEF ProcessOrphan, Inv
<1>4. /\ Verified(index') /\ bestChain' \in index'
      /\ CacheFits(checkpoint', bestChain')
      /\ processHashes' \subseteq index' /\ fastAdd' \in BOOLEAN
      /\ index' \subseteq index \cup {o}
  <2>1. /\ Verified(index) /\ bestChain \in index /\ CacheFits(checkpoint, bestChain)
        /\ processHashes \cup {o} \in SUBSET (index \cup {o}) /\ fastAdd \in BOOLEAN
    BY DEF Inv
  <2>. QED
    BY <1>3, <2>1, AcceptFits
<1>5. TimesBounded'
  <2>1. (index \cup orphans)' \subseteq index \cup orphans \cup {}
    BY <1>3, <1>4
  <2>2. {} \in SUBSET Blocks /\ clock' \in Nat /\ clock <= clock' /\ clock \in Nat
    BY <1>1 DEF Inv
  <2>. QED
    BY <2>1, <2>2, BoundedStep DEF Inv, Verified
<1>. QED
  BY <1>1, <1>2, <1>3, <1>4, <1>5 DEF Inv

LEMMA RestartStep ==
  ASSUME Inv, Restart
  PROVE  Inv'
<1>1. /\ index' = Ancestry[bestChain] /\ bestChain' = bestChain
      /\ checkpoint' = NotSearched /\ orphans' = {} /\ processHashes' = {}
      /\ fastAdd' = FALSE /\ clock' = clock
  BY DEF Restart, MainChain
<1>2. bestChain \in Blocks /\ Ancestry[bestChain] \subseteq index
  BY DEF Inv, Verified
<1>3. Verified(index') /\ bestChain' \in index'
  <2>1. bestChain \in Ancestry[bestChain]
    BY <1>2, ChainsAreChains DEF ChainFacts
  <2>2. \A b \in Ancestry[bestChain] :
          b \in Blocks /\ Ancestry[b] \subseteq Ancestry[bestChain] /\ VerifyCheckpoint(b)
    BY <1>2, ChainMembers DEF Inv, Verified
  <2>. QED
    BY <1>1, <2>1, <2>2 DEF Verified
<1>4. CacheFits(checkpoint', bestChain')
  BY <1>1, CheckpointFacts DEF CacheFits, Caches, NotSearched
<1>5. TimeInv'
  BY ResetStep DEF Restart
<1>6. TimesBounded'
  <2>1. (index \cup orphans)' \subseteq index \cup orphans \cup {}
    BY <1>1, <1>2
  <2>2. {} \in SUBSET Blocks /\ clock' \in Nat /\ clock <= clock' /\ clock \in Nat
    BY <1>1 DEF Inv
  <2>. QED
    BY <2>1, <2>2, BoundedStep DEF Inv, Verified
<1>. QED
  BY <1>1, <1>3, <1>4, <1>5, <1>6 DEF Inv

LEMMA ClockStep ==
  ASSUME Inv, UNCHANGED chainVars, clock' \in {clock, clock + 1}, [NextTime]_timeVars
  PROVE  Inv'
<1>1. TimeInv'
  BY TimeInvStep DEF Inv
<1>2. clock \in Nat /\ clock' \in Nat /\ clock <= clock'
  BY DEF Inv
<1>3. /\ index' = index /\ bestChain' = bestChain /\ checkpoint' = checkpoint
      /\ orphans' = orphans /\ processHashes' = processHashes /\ fastAdd' = fastAdd
  BY DEF chainVars
<1>4. TimesBounded'
  <2>1. (index \cup orphans)' \subseteq index \cup orphans \cup {} /\ {} \in SUBSET Blocks
    BY <1>3
  <2>. QED
    BY <1>2, <2>1, BoundedStep DEF Inv, Verified
<1>. QED
  BY <1>1, <1>2, <1>3, <1>4 DEF Inv

LEMMA InvStep == Inv /\ [Next]_vars => Inv'
<1>. SUFFICES ASSUME Inv, [Next]_vars PROVE Inv'
  OBVIOUS
<1>1. ASSUME NEW b \in Blocks \ {Genesis}, ProcessBlock(b, FALSE) PROVE Inv'
  BY <1>1, ProcessBlockStep
<1>2. ASSUME NEW b \in FastBlocks, ProcessBlock(b, TRUE) PROVE Inv'
  BY <1>2, ProcessBlockStep, HeaderAssumption
<1>3. ASSUME NEW o \in orphans, ProcessOrphan(o) PROVE Inv'
  BY <1>3, ProcessOrphanStep
<1>4. CASE Restart
  BY <1>4, RestartStep
<1>5. ASSUME NEW id \in Sources, NEW o \in Samples, HearTime(id, o) PROVE Inv'
  <2>1. UNCHANGED chainVars /\ clock' = clock /\ NextTime
    BY <1>5 DEF HearTime, NextTime
  <2>. QED
    BY <2>1, ClockStep
<1>6. CASE Tick
  <2>1. UNCHANGED chainVars /\ clock' = clock + 1 /\ UNCHANGED timeVars
    BY <1>6 DEF Tick
  <2>. QED
    BY <2>1, ClockStep
<1>7. CASE UNCHANGED vars
  <2>1. UNCHANGED chainVars /\ clock' = clock /\ UNCHANGED timeVars
    BY <1>7 DEF vars
  <2>. QED
    BY <2>1, ClockStep
<1>. QED
  BY <1>1, <1>2, <1>3, <1>4, <1>5, <1>6, <1>7 DEF Next

\* The inductive invariant holds in every state: calls, restarts, time samples.
THEOREM Invariance == Spec => []Inv
  BY InitInv, InvStep, PTL DEF Spec

\* Type correctness.
THEOREM TypeCorrect == Spec => []TypeOK
<1>1. Inv => TypeOK
  BY DEF Inv, Verified, CacheFits, TimeInv, TypeOK
<1>. QED
  BY <1>1, Invariance, PTL

\* The checkpoint a node has cached never leaves its main chain.
THEOREM CheckpointsLockIn == Spec => []LockinHolds
<1>1. Inv => LockinHolds
  <2>. SUFFICES ASSUME Inv PROVE LockinHolds
    OBVIOUS
  <2>1. Verified(index) /\ bestChain \in index /\ CacheFits(checkpoint, bestChain)
    BY DEF Inv
  <2>2. LookupSucceeds(checkpoint, bestChain)
    BY <2>1, FindFits
  <2>. QED
    BY <2>1, <2>2 DEF LockinHolds, CacheFits, Stored, MainChain
<1>. QED
  BY <1>1, Invariance, PTL

\* A block that is no fork before the last checkpoint of the main chain keeps them all.
LEMMA AcceptKeeps ==
  ASSUME Verified(index), bestChain \in index,
         NEW b \in Blocks \ {Genesis}, Parent[b] \in index,
         NEW c, CacheFits(c, bestChain), c = NotSearched \/ Reaches(c, bestChain, 1),
         NEW hashes, NEW fast, MaybeAcceptBlock(b, c, hashes, fast)
  PROVE  Stored(bestChain) \subseteq Stored(bestChain')
<1>. DEFINE d == FindPreviousCheckpoint(c, bestChain)
<1>1. CacheFits(d, bestChain) /\ Reaches(d, bestChain, 0)
  BY FindFits, FindCatchesUp
<1>2. \/ bestChain' = bestChain
      \/ VerifyCheckpoint(b) /\ ~ ForkTooOld(b, d) /\ bestChain' = b
  BY DEF MaybeAcceptBlock, ConnectBestChain
<1>. HIDE DEF d
<1>3. ASSUME VerifyCheckpoint(b), ~ ForkTooOld(b, d), NEW i \in Stored(bestChain)
      PROVE  i \in Stored(b)
  <2>1. i \in 1 .. Len(Checkpoint) /\ i <= d.block /\ d.block \in 1 .. Len(Checkpoint)
    BY <1>1, CheckpointFacts DEF Reaches, Stored, CacheFits, Caches
  <2>2. Height[Checkpoint[d.block]] <= Height[b]
    BY <1>3, <2>1, CheckpointFacts, TreeAssumption DEF ForkTooOld
  <2>3. Height[Checkpoint[i]] <= Height[b]
    BY <2>1, <2>2, CheckpointFacts, TreeAssumption
  <2>4. Verified(index \cup {b})
    BY <1>3, TreeAssumption DEF Verified
  <2>5. Checkpoint[i] \in Ancestry[b]
    BY <2>1, <2>3, <2>4, ReachedCheckpoint
  <2>. QED
    BY <2>1, <2>5 DEF Stored
<1>. QED
  BY <1>2, <1>3

\* No step removes a checkpoint from the main chain while the cache is at most two
\* behind, or one while orphans are released.
THEOREM CheckpointsStayFinal == Spec => CheckpointsAreFinal
<1>. DEFINE Keeps == Stored(bestChain) \subseteq Stored(bestChain')
            Near == LagsAtMost(IF processHashes = {} THEN 2 ELSE 1)
<1>1. Inv /\ [Next]_vars => (Near => Keeps)
  <2>. SUFFICES ASSUME Inv, [Next]_vars, Near PROVE Keeps
    OBVIOUS
  <2>1. Verified(index) /\ bestChain \in index /\ CacheFits(checkpoint, bestChain)
    BY DEF Inv
  <2>2. ASSUME NEW b \in Blocks \ {Genesis}, NEW fast \in BOOLEAN, ProcessBlock(b, fast)
        PROVE  Keeps
    <3>. DEFINE c == FindPreviousCheckpoint(checkpoint, bestChain)
    <3>1. processHashes = {}
      BY <2>2 DEF ProcessBlock
    <3>2. checkpoint = NotSearched \/ Reaches(checkpoint, bestChain, 1 + 1)
      BY <3>1 DEF LagsAtMost, Reaches
    <3>3. CacheFits(c, bestChain) /\ Reaches(c, bestChain, 1)
      BY <2>1, <3>2, FindFits, FindCatchesUp
    <3>. HIDE DEF c
    <3>4. \/ bestChain' = bestChain
          \/ Parent[b] \in index /\ MaybeAcceptBlock(b, c, {b}, fast)
      BY <2>2 DEF ProcessBlock, c
    <3>. QED
      BY <2>1, <3>3, <3>4, AcceptKeeps
  <2>3. ASSUME NEW o \in orphans, ProcessOrphan(o)
        PROVE  Keeps
    <3>1. /\ o \in Blocks \ {Genesis} /\ Parent[o] \in index /\ processHashes # {}
          /\ MaybeAcceptBlock(o, checkpoint, processHashes \cup {o}, fastAdd)
      BY <2>3 DEF ProcessOrphan, Inv
    <3>2. checkpoint = NotSearched \/ Reaches(checkpoint, bestChain, 1)
      BY <3>1 DEF LagsAtMost, Reaches
    <3>. QED
      BY <2>1, <3>1, <3>2, AcceptKeeps
  <2>4. CASE Restart \/ Tick \/ UNCHANGED vars
    BY <2>4 DEF Restart, Tick, vars, chainVars
  <2>5. ASSUME NEW id \in Sources, NEW o \in Samples, HearTime(id, o)
        PROVE  Keeps
    BY <2>5 DEF HearTime, chainVars
  <2>6. FastBlocks \subseteq Blocks \ {Genesis}
    BY HeaderAssumption
  <2>. QED
    BY <2>2, <2>3, <2>4, <2>5, <2>6 DEF Next
<1>. QED
  BY <1>1, Invariance, PTL DEF Spec, CheckpointsAreFinal

\* A node that believes its chain is current has every checkpoint in it.
THEOREM CurrentIsVerified == Spec => []CurrentHasCheckpoints
<1>1. Inv => CurrentHasCheckpoints
  <2>. SUFFICES ASSUME Inv, IsCurrent PROVE Stored(bestChain) = 1 .. Len(Checkpoint)
    BY DEF CurrentHasCheckpoints
  <2>1. Verified(index) /\ bestChain \in index /\ Height[bestChain] \in Nat
    BY TreeAssumption DEF Inv, Verified
  <2>2. ASSUME NEW i \in 1 .. Len(Checkpoint)
        PROVE  Checkpoint[i] \in Ancestry[bestChain]
    <3>. DEFINE n == Len(Checkpoint)
    <3>1. n \in 1 .. n /\ i <= n
      BY CheckpointFacts
    <3>2. Height[Checkpoint[n]] <= Height[bestChain]
      BY <2>1, <3>1, CheckpointFacts DEF IsCurrent, HasLatestHeight
    <3>3. Height[Checkpoint[i]] <= Height[bestChain]
      BY <2>1, <3>1, <3>2, CheckpointFacts
    <3>. QED
      BY <2>1, <3>3, ReachedCheckpoint
  <2>. QED
    BY <2>2 DEF Stored
<1>. QED
  BY <1>1, Invariance, PTL

\* No accepted or waiting block is further in the future than offset and drift allow.
THEOREM TimesStayBounded == Spec => []TimesBounded
<1>1. Inv => TimesBounded
  BY DEF Inv
<1>. QED
  BY <1>1, Invariance, PTL

\* The median time inside a running node behaves as on its own.
THEOREM ImplementsMedianTime == Spec => TimeSpec
<1>1. Init => NewMedianTime
  BY DEF Init
<1>2. [Next]_vars => [NextTime]_timeVars
  <2>. SUFFICES ASSUME [Next]_vars PROVE [NextTime]_timeVars
    OBVIOUS
  <2>1. ASSUME NEW b \in Blocks, NEW fast \in BOOLEAN, ProcessBlock(b, fast)
        PROVE  UNCHANGED timeVars
    BY <2>1 DEF ProcessBlock
  <2>2. ASSUME NEW o \in orphans, ProcessOrphan(o) PROVE UNCHANGED timeVars
    BY <2>2 DEF ProcessOrphan
  <2>3. CASE Restart
    BY <2>3 DEF Restart, NextTime
  <2>4. ASSUME NEW id \in Sources, NEW o \in Samples, HearTime(id, o)
        PROVE  NextTime
    BY <2>4 DEF HearTime, NextTime
  <2>5. CASE Tick
    BY <2>5 DEF Tick
  <2>6. CASE UNCHANGED vars
    BY <2>6 DEF vars
  <2>7. FastBlocks \subseteq Blocks
    BY HeaderAssumption
  <2>. QED
    BY <2>1, <2>2, <2>3, <2>4, <2>5, <2>6, <2>7 DEF Next
<1>. QED
  BY <1>1, <1>2, PTL DEF Spec, TimeSpec

\* So the samples after the first ones do not move the clock of a running node.
THEOREM OffsetStaysSettled == Spec => []OffsetOfFirstSamples
  BY ImplementsMedianTime, OffsetIsSettled, PTL

\* And a majority of the counted samples bounds it.
THEOREM MajorityBounds == Spec => []MajorityBoundsOffset
  BY ImplementsMedianTime, MajorityDecides, PTL


(***************************************************************************)
(* The median timestamp of a chain.  The comparison with the median of the *)
(* parent's window keeps the median from going back, at every length of    *)
(* the chain: the new window takes in a later block and gives up at most   *)
(* one.                                                                    *)
(***************************************************************************)
\* The blocks of S that are earlier than t, and no later.
EarlierIn(S, t) == {c \in S : BlockTime[c] < t}
NotLaterIn(S, t) == {c \in S : BlockTime[c] <= t}

\* Of some blocks one is the latest.
LEMMA LatestBlock ==
  ASSUME NEW S \in SUBSET Blocks, S # {}
  PROVE  \E c \in S : \A d \in S : BlockTime[d] <= BlockTime[c]
<1>. DEFINE Before(c) == NotLaterIn(S, BlockTime[c])
            Rest == {Cardinality(S) - Cardinality(Before(c)) : c \in S}
<1>1. IsFiniteSet(S) /\ \A c \in S : BlockTime[c] \in Nat
  BY TreeAssumption, HeaderAssumption, FS_Subset
<1>2. \A T \in SUBSET S : /\ IsFiniteSet(T) /\ Cardinality(T) \in Nat
                          /\ Cardinality(T) <= Cardinality(S)
  BY <1>1, FS_Subset, FS_CardinalityType
<1>3. Rest \in SUBSET Nat /\ Rest # {}
  <2>1. \A c \in S : /\ Cardinality(Before(c)) \in Nat /\ Cardinality(S) \in Nat
                     /\ Cardinality(Before(c)) <= Cardinality(S)
    BY <1>2 DEF NotLaterIn
  <2>. HIDE DEF Before
  <2>. QED
    BY <2>1
<1>4. PICK r \in Rest : \A s \in Rest : r <= s
  <2>. HIDE DEF Rest
  <2>. QED
    BY <1>3, LeastElement
<1>5. PICK c \in S : r = Cardinality(S) - Cardinality(Before(c))
  BY <1>4
<1>6. ASSUME NEW d \in S, ~ (BlockTime[d] <= BlockTime[c])
      PROVE  FALSE
  <2>1. Before(c) \subseteq Before(d) /\ d \in Before(d) /\ d \notin Before(c)
    BY <1>1, <1>6 DEF NotLaterIn
  <2>2. IsFiniteSet(Before(d)) /\ Before(c) # Before(d)
    BY <1>2, <2>1 DEF NotLaterIn
  <2>3. /\ Cardinality(Before(c)) <= Cardinality(Before(d))
        /\ Cardinality(Before(c)) # Cardinality(Before(d))
    <3>. HIDE DEF Before
    <3>. QED
      BY <2>1, <2>2, FS_Subset
  <2>4. r <= Cardinality(S) - Cardinality(Before(d))
    BY <1>4
  <2>5. Cardinality(Before(c)) \in Nat /\ Cardinality(Before(d)) \in Nat /\ Cardinality(S) \in Nat
    BY <1>2 DEF NotLaterIn
  <2>. HIDE DEF Before
  <2>. QED
    BY <1>5, <2>3, <2>4, <2>5
<1>. QED
  BY <1>6

\* What calcPastMedianTime looks for: t has at most half of S below it, and more than
\* half up to it.
IsMedianOf(t, S) ==
  /\ t \in {BlockTime[c] : c \in S}
  /\ Cardinality(EarlierIn(S, t)) <= Cardinality(S) \div 2
  /\ Cardinality(S) \div 2 < Cardinality(NotLaterIn(S, t))

\* The number of members of a set of blocks.
LEMMA CountOfBlocks ==
  ASSUME NEW S \in SUBSET Blocks
  PROVE  /\ IsFiniteSet(S) /\ Cardinality(S) \in Nat
         /\ Cardinality(S) \div 2 \in Nat
         /\ S # {} => Cardinality(S) \div 2 < Cardinality(S)
         /\ \A T \in SUBSET S : Cardinality(T) <= Cardinality(S)
<1>1. IsFiniteSet(S)
  BY TreeAssumption, FS_Subset
<1>2. Cardinality(S) \in Nat /\ (S # {} => Cardinality(S) # 0)
  BY <1>1, FS_CardinalityType, FS_EmptySet
<1>3. \A n \in Nat : n \div 2 \in Nat /\ (n # 0 => n \div 2 < n)
  OBVIOUS
<1>4. \A T \in SUBSET S : Cardinality(T) <= Cardinality(S)
  BY <1>1, FS_Subset
<1>. QED
  BY <1>1, <1>2, <1>3, <1>4

\* Some blocks have a median timestamp.
LEMMA HasMedian ==
  ASSUME NEW S \in SUBSET Blocks, S # {}
  PROVE  \E t : IsMedianOf(t, S)
<1>. DEFINE half == Cardinality(S) \div 2
            Over == {t \in Nat : /\ t \in {BlockTime[c] : c \in S}
                                 /\ half < Cardinality(NotLaterIn(S, t))}
<1>1. half \in Nat /\ half < Cardinality(S) /\ \A c \in S : BlockTime[c] \in Nat
  BY CountOfBlocks, HeaderAssumption
<1>2. Over # {}
  <2>1. PICK c \in S : \A d \in S : BlockTime[d] <= BlockTime[c]
    BY LatestBlock
  <2>2. NotLaterIn(S, BlockTime[c]) = S
    BY <2>1 DEF NotLaterIn
  <2>. QED
    BY <1>1, <2>2
<1>3. PICK t \in Over : \A u \in Over : t <= u
  <2>1. Over \in SUBSET Nat
    OBVIOUS
  <2>. HIDE DEF Over
  <2>. QED
    BY <1>2, <2>1, LeastElement
<1>4. t \in Nat /\ t \in {BlockTime[c] : c \in S} /\ half < Cardinality(NotLaterIn(S, t))
  BY <1>3
<1>5. Cardinality(EarlierIn(S, t)) <= half
  <2>. DEFINE E == EarlierIn(S, t)
  <2>0. E \in SUBSET S
    BY DEF EarlierIn
  <2>1. CASE E = {}
    <3>1. Cardinality(E) = 0
      BY <2>1, FS_EmptySet
    <3>. HIDE DEF half
    <3>. QED
      BY <1>1, <3>1
  <2>2. CASE E # {}
    <3>1. PICK c \in E : \A d \in E : BlockTime[d] <= BlockTime[c]
      <4>. HIDE DEF E
      <4>1. E \in SUBSET Blocks
        BY <2>0
      <4>. QED
        BY <2>2, <4>1, LatestBlock
    <3>2. c \in S /\ BlockTime[c] \in Nat /\ BlockTime[c] < t
      BY <1>1, <3>1 DEF EarlierIn
    <3>3. ~ (half < Cardinality(NotLaterIn(S, BlockTime[c])))
      <4>1. BlockTime[c] \notin Over
        <5>. HIDE DEF Over
        <5>. QED
          BY <1>3, <1>4, <3>2
      <4>. QED
        BY <3>2, <4>1
    <3>4. E \in SUBSET NotLaterIn(S, BlockTime[c])
      BY <2>0, <3>1 DEF NotLaterIn
    <3>5. NotLaterIn(S, BlockTime[c]) \in SUBSET Blocks
      BY DEF NotLaterIn
    <3>6. /\ Cardinality(E) <= Cardinality(NotLaterIn(S, BlockTime[c]))
          /\ Cardinality(NotLaterIn(S, BlockTime[c])) \in Nat
      BY <3>4, <3>5, CountOfBlocks
    <3>7. Cardinality(E) \in Nat
      BY <2>0, CountOfBlocks
    <3>8. half \in Nat
      BY <1>1
    <3>. HIDE DEF half, E
    <3>9. Cardinality(E) <= half
      BY <3>3, <3>6, <3>7, <3>8
    <3>. QED
      BY <3>9 DEF E
  <2>. QED
    BY <2>1, <2>2
<1>. QED
  BY <1>4, <1>5 DEF IsMedianOf

\* The window of a block is part of its chain and has the block; the timestamp the
\* sorted window has in its middle is its median.
LEMMA MedianOfWindow ==
  ASSUME NEW b \in Blocks
  PROVE  /\ Window(b) \in SUBSET Ancestry[b] /\ Window(b) \in SUBSET Blocks
         /\ b \in Window(b)
         /\ IsMedianOf(PastMedianTime(b), Window(b))
         /\ PastMedianTime(b) \in Nat
<1>1. /\ Ancestry[b] \subseteq Blocks /\ b \in Ancestry[b] /\ Height[b] \in Nat
  BY ChainsAreChains, TreeAssumption DEF ChainFacts
<1>2. MedianTimeBlocks \in Nat /\ MedianTimeBlocks > 0
  BY HeaderAssumption
<1>3. Window(b) \in SUBSET Ancestry[b] /\ Window(b) \in SUBSET Blocks /\ b \in Window(b)
  BY <1>1, <1>2 DEF Window
<1>4. \E t : IsMedianOf(t, Window(b))
  BY <1>3, HasMedian
<1>5. PastMedianTime(b) =
        CHOOSE t \in {BlockTime[c] : c \in Window(b)} :
          /\ Cardinality(EarlierIn(Window(b), t)) <= Cardinality(Window(b)) \div 2
          /\ Cardinality(Window(b)) \div 2 < Cardinality(NotLaterIn(Window(b), t))
  BY DEF PastMedianTime, EarlierIn, NotLaterIn
<1>6. IsMedianOf(PastMedianTime(b), Window(b))
  <2>. HIDE DEF EarlierIn, NotLaterIn, Window
  <2>1. \E t \in {BlockTime[c] : c \in Window(b)} :
          /\ Cardinality(EarlierIn(Window(b), t)) <= Cardinality(Window(b)) \div 2
          /\ Cardinality(Window(b)) \div 2 < Cardinality(NotLaterIn(Window(b), t))
    BY <1>4 DEF IsMedianOf
  <2>. QED
    BY <1>5, <2>1 DEF IsMedianOf
<1>7. PastMedianTime(b) \in Nat
  BY <1>3, <1>6, HeaderAssumption DEF IsMedianOf
<1>. QED
  BY <1>3, <1>6, <1>7

\* The window moves on with the chain: it takes in the new block, and gives up the
\* block that is now too far down, if there is one.
LEMMA WindowMoves ==
  ASSUME NEW b \in Blocks \ {Genesis}
  PROVE  /\ Window(b) \ {b} \subseteq Window(Parent[b])
         /\ Cardinality(Window(Parent[b])) <= Cardinality(Window(b))
<1>. DEFINE p == Parent[b]
            V == Window(p)
            W == Window(b)
<1>1. /\ p \in Blocks /\ Height[b] = Height[p] + 1 /\ Height[p] \in Nat
      /\ Ancestry[b] = Ancestry[p] \cup {b} /\ MedianTimeBlocks \in Nat
  BY TreeAssumption, HeaderAssumption
<1>2. /\ \A c \in Ancestry[p] : c \in Blocks /\ Height[c] \in Nat /\ Height[c] <= Height[p]
      /\ \A c, d \in Ancestry[p] : Height[c] = Height[d] => c = d
  <2>1. \A c \in Ancestry[p] : c \in Blocks /\ Height[c] \in Nat /\ Height[c] <= Height[p]
    BY <1>1, ChainsAreChains, TreeAssumption DEF ChainFacts
  <2>2. \A c, d \in Ancestry[p] : Height[c] = Height[d] => c = d
    BY <1>1, ChainMembers
  <2>. QED
    BY <2>1, <2>2
<1>3. b \notin Ancestry[p]
  BY <1>1, <1>2
<1>4. W \ {b} \subseteq V
  BY <1>1, <1>2 DEF Window
<1>5. W \in SUBSET Blocks /\ V \in SUBSET Blocks /\ b \in W /\ V \in SUBSET Ancestry[p]
  BY <1>1, MedianOfWindow
<1>6. \A c, d \in V \ W : c = d
  <2>1. \A c \in V \ W : c \in Ancestry[p] /\ Height[c] + MedianTimeBlocks = Height[b]
    <3>1. ASSUME NEW c \in V \ W
          PROVE  /\ c \in Ancestry[p] /\ Height[p] < Height[c] + MedianTimeBlocks
                 /\ ~ (Height[b] < Height[c] + MedianTimeBlocks)
      BY <1>1 DEF Window
    <3>. HIDE DEF V, W
    <3>. QED
      BY <1>1, <1>2, <3>1
  <2>. HIDE DEF V, W
  <2>. QED
    BY <1>1, <1>2, <2>1
<1>. HIDE DEF V, W
<1>7. Cardinality(V) <= Cardinality(W)
  <2>. DEFINE K == W \ {b}
  <2>1. IsFiniteSet(W) /\ IsFiniteSet(V) /\ IsFiniteSet(K)
    BY <1>5, CountOfBlocks
  <2>2. Cardinality(K) = Cardinality(W) - 1 /\ Cardinality(K) \in Nat /\ Cardinality(W) \in Nat
    BY <1>5, <2>1, FS_RemoveElement, FS_CardinalityType
  <2>3. K \subseteq V /\ \A c, d \in V \ K : c = d
    BY <1>3, <1>4, <1>5, <1>6
  <2>4. CASE V = K
    BY <2>2, <2>4
  <2>5. CASE V # K
    <3>1. PICK c \in V : c \notin K
      BY <2>3, <2>5
    <3>2. V = K \cup {c}
      BY <2>3, <3>1
    <3>3. Cardinality(V) = Cardinality(K) + 1
      BY <2>1, <3>1, <3>2, FS_AddElement
    <3>. QED
      BY <2>2, <3>3
  <2>. QED
    BY <2>4, <2>5
<1>. QED
  BY <1>4, <1>7 DEF V, W

\* A block that is later than the median of its parent's window does not move the
\* median back.
LEMMA MedianMovesOn ==
  ASSUME NEW b \in Blocks \ {Genesis}, ~ TimeTooOld(b)
  PROVE  PastMedianTime(Parent[b]) <= PastMedianTime(b)
<1>. DEFINE V == Window(Parent[b])
            W == Window(b)
            m == PastMedianTime(Parent[b])
            n == PastMedianTime(b)
<1>1. Parent[b] \in Blocks
  BY TreeAssumption
<1>2. /\ V \in SUBSET Blocks /\ IsMedianOf(m, V) /\ m \in Nat
      /\ W \in SUBSET Blocks /\ IsMedianOf(n, W) /\ n \in Nat
  BY <1>1, MedianOfWindow
<1>3. W \ {b} \subseteq V /\ Cardinality(V) <= Cardinality(W)
  BY WindowMoves
<1>4. m < BlockTime[b]
  BY <1>2, HeaderAssumption DEF TimeTooOld
<1>. HIDE DEF V, W, m, n
<1>5. ASSUME n < m
      PROVE  FALSE
  <2>1. NotLaterIn(W, n) \subseteq EarlierIn(V, m)
    <3>1. \A c \in NotLaterIn(W, n) : c \in W /\ BlockTime[c] \in Nat /\ BlockTime[c] <= n
      BY <1>2, HeaderAssumption DEF NotLaterIn
    <3>2. BlockTime[b] \in Nat
      BY HeaderAssumption
    <3>3. \A c \in NotLaterIn(W, n) : c # b /\ BlockTime[c] < m
      BY <1>2, <1>4, <1>5, <3>1, <3>2
    <3>. QED
      BY <1>3, <3>1, <3>3 DEF EarlierIn
  <2>2. EarlierIn(V, m) \in SUBSET Blocks /\ NotLaterIn(W, n) \in SUBSET Blocks
    BY <1>2 DEF EarlierIn, NotLaterIn
  <2>3. /\ Cardinality(NotLaterIn(W, n)) <= Cardinality(EarlierIn(V, m))
        /\ Cardinality(NotLaterIn(W, n)) \in Nat /\ Cardinality(EarlierIn(V, m)) \in Nat
    BY <2>1, <2>2, CountOfBlocks
  <2>4. /\ Cardinality(V) \in Nat /\ Cardinality(W) \in Nat
        /\ Cardinality(V) \div 2 \in Nat /\ Cardinality(W) \div 2 \in Nat
    BY <1>2, CountOfBlocks
  <2>5. Cardinality(V) \div 2 <= Cardinality(W) \div 2
    <3>1. \A i, j \in Nat : i <= j => i \div 2 <= j \div 2
      OBVIOUS
    <3>. QED
      BY <1>3, <2>4, <3>1
  <2>6. /\ Cardinality(EarlierIn(V, m)) <= Cardinality(V) \div 2
        /\ Cardinality(W) \div 2 < Cardinality(NotLaterIn(W, n))
    BY <1>2 DEF IsMedianOf
  <2>. QED
    BY <2>3, <2>4, <2>5, <2>6
<1>. QED
  BY <1>2, <1>5 DEF m, n

\* Every known block was compared with its parent's median, except those that came with
\* BFFastAdd and the blocks above them; a call with BFFastAdd only releases such blocks.
Compared ==
  /\ \A b \in index \ {Genesis} : Ancestry[b] \cap FastBlocks = {} => ~ TimeTooOld(b)
  /\ fastAdd => \A h \in processHashes : Ancestry[h] \cap FastBlocks # {}

\* A call that accepts b, which came with BFFastAdd or is above such a block if the
\* call has the flag.
LEMMA AcceptCompares ==
  ASSUME Compared, NEW b \in Blocks \ {Genesis}, NEW c, NEW hashes, NEW fast \in BOOLEAN,
         MaybeAcceptBlock(b, c, hashes, fast),
         fast => \A h \in hashes \cup {b} : Ancestry[h] \cap FastBlocks # {}
  PROVE  Compared'
<1>1. ASSUME NEW known, NEW f \in BOOLEAN, GoOn(known, f)
      PROVE  processHashes' \subseteq known /\ (fastAdd' => f)
  BY <1>1 DEF GoOn, Waiting
<1>2. /\ \/ index' = index
         \/ index' = index \cup {b} /\ (fast \/ ~ TimeTooOld(b))
      /\ GoOn(hashes, fast) \/ GoOn({}, FALSE)
  BY DEF MaybeAcceptBlock, ConnectBestChain
<1>3. processHashes' \subseteq hashes /\ (fastAdd' => fast)
  <2>1. CASE GoOn(hashes, fast)
    BY <1>1, <2>1
  <2>2. CASE GoOn({}, FALSE)
    BY <2>2 DEF GoOn, Waiting
  <2>. QED
    BY <1>2, <2>1, <2>2
<1>4. fastAdd' => \A h \in processHashes' : Ancestry[h] \cap FastBlocks # {}
  BY <1>3
<1>5. \A d \in index' \ {Genesis} : Ancestry[d] \cap FastBlocks = {} => ~ TimeTooOld(d)
  BY <1>2 DEF Compared
<1>6. \A d : TimeTooOld(d)' = TimeTooOld(d)
  BY DEF TimeTooOld, PastMedianTime, Window
<1>. QED
  BY <1>4, <1>5, <1>6 DEF Compared

LEMMA ComparedStep ==
  ASSUME Inv, Compared, [Next]_vars
  PROVE  Compared'
<1>0. \A d : TimeTooOld(d)' = TimeTooOld(d)
  BY DEF TimeTooOld, PastMedianTime, Window
<1>1. ASSUME NEW b \in Blocks \ {Genesis}, NEW fast \in BOOLEAN, fast => b \in FastBlocks,
             ProcessBlock(b, fast)
      PROVE  Compared'
  <2>1. \/ UNCHANGED <<index, processHashes, fastAdd>>
        \/ \E c : MaybeAcceptBlock(b, c, {b}, fast)
    BY <1>1 DEF ProcessBlock
  <2>2. fast => \A h \in {b} \cup {b} : Ancestry[h] \cap FastBlocks # {}
    BY <1>1, ChainsAreChains DEF ChainFacts
  <2>3. ASSUME NEW c, MaybeAcceptBlock(b, c, {b}, fast) PROVE Compared'
    BY <2>2, <2>3, AcceptCompares
  <2>4. CASE UNCHANGED <<index, processHashes, fastAdd>>
    BY <1>0, <2>4 DEF Compared
  <2>. QED
    BY <2>1, <2>3, <2>4
<1>2. ASSUME NEW o \in orphans, ProcessOrphan(o)
      PROVE  Compared'
  <2>1. /\ o \in Blocks \ {Genesis} /\ Parent[o] \in processHashes /\ fastAdd \in BOOLEAN
        /\ MaybeAcceptBlock(o, checkpoint, processHashes \cup {o}, fastAdd)
    BY <1>2 DEF ProcessOrphan, Inv
  <2>2. Ancestry[o] = Ancestry[Parent[o]] \cup {o}
    BY <2>1, TreeAssumption
  <2>3. fastAdd => \A h \in processHashes \cup {o} \cup {o} :
                     Ancestry[h] \cap FastBlocks # {}
    BY <2>1, <2>2 DEF Compared
  <2>. HIDE DEF Compared
  <2>. QED
    BY <2>1, <2>3, AcceptCompares
<1>3. CASE Restart
  <2>1. index' \subseteq index /\ fastAdd' = FALSE
    BY <1>3 DEF Restart, MainChain, Inv, Verified
  <2>. QED
    BY <1>0, <2>1 DEF Compared
<1>4. CASE UNCHANGED chainVars
  BY <1>0, <1>4 DEF Compared, chainVars
<1>. QED
  BY <1>1, <1>2, <1>3, <1>4, HeaderAssumption DEF Next, HearTime, Tick, vars

\* The median a block is compared with does not decrease along a known chain that came
\* without BFFastAdd.
THEOREM MedianAdvances == Spec => []MedianNeverDecreases
<1>1. Init => Compared
  BY DEF Init, Compared
<1>2. Inv /\ Compared /\ [Next]_vars => Compared'
  BY ComparedStep
<1>3. Inv /\ Compared => MedianNeverDecreases
  <2>. SUFFICES ASSUME Inv, Compared, NEW b \in index \ {Genesis},
                       Ancestry[b] \cap FastBlocks = {}
                PROVE  PastMedianTime(Parent[b]) <= PastMedianTime(b)
    BY DEF MedianNeverDecreases
  <2>1. b \in Blocks \ {Genesis} /\ ~ TimeTooOld(b)
    BY DEF Compared, Inv, Verified
  <2>. QED
    BY <2>1, MedianMovesOn
<1>. QED
  BY <1>1, <1>2, <1>3, Invariance, PTL DEF Spec


(***************************************************************************)
(* The block locator.  The walk down from a block keeps three measures     *)
(* together: its depth, the step, and the number of entries.               *)
(***************************************************************************)
\* Two blocks of one chain: the lower is in the chain of the higher.
LEMMA LowerInChain ==
  ASSUME NEW t \in Blocks, NEW b \in Ancestry[t], NEW c \in Ancestry[t],
         Height[c] <= Height[b]
  PROVE  c \in Ancestry[b]
<1>1. b \in Blocks /\ c \in Blocks /\ Ancestry[b] \subseteq Ancestry[t]
  BY ChainMembers
<1>2. Height[b] \in Nat /\ Height[c] \in Nat
  BY <1>1, TreeAssumption
<1>3. PICK d \in Ancestry[b] : Height[d] = Height[c]
  BY <1>1, <1>2, ChainHasHeight
<1>4. d \in Ancestry[t]
  BY <1>1
<1>5. d = c
  BY <1>3, <1>4, ChainMembers
<1>. QED
  BY <1>5

\* An entry of the walk below b: the block of that height, which b and the main chain
\* share, or nothing, when they share no block that high.
LEMMA EntryFacts ==
  ASSUME NEW b \in Blocks, NEW t \in Blocks, ForkIsSeen(b, Ancestry[t]),
         NEW h \in Nat, h < Height[b]
  PROVE  \/ /\ EntryAt(h, b, Ancestry[t]) = << >>
            /\ \A f \in Ancestry[b] \cap Ancestry[t] : Height[f] < h
         \/ \E c \in Ancestry[b] : Height[c] = h /\ EntryAt(h, b, Ancestry[t]) = <<c>>
<1>. DEFINE main == Ancestry[t]
            shared == Ancestry[b] \cap main
            r == IF b \in main THEN b ELSE Highest(shared)
            at(side) == {c \in IF side THEN {b} ELSE main : Height[c] = h}
<1>1. /\ Genesis \in shared /\ b \in Ancestry[b] /\ Height[b] \in Nat
      /\ \A f \in Ancestry[b] : f \in Blocks /\ Height[f] \in Nat /\ Height[f] <= Height[b]
  BY ChainsAreChains, TreeAssumption DEF ChainFacts
<1>2. r \in shared /\ \A f \in shared : Height[f] <= Height[r]
  <2>1. CASE b \in main
    BY <1>1, <2>1
  <2>2. CASE b \notin main
    <3>. HIDE DEF main
    <3>1. shared \in SUBSET Ancestry[b] /\ shared # {}
      BY <1>1
    <3>. HIDE DEF shared
    <3>2. Highest(shared) \in shared /\ \A f \in shared : Height[f] <= Height[Highest(shared)]
      BY <3>1, HasHighest
    <3>. QED
      BY <2>2, <3>2
  <2>. QED
    BY <2>1, <2>2
<1>3. /\ b \in main => ForkHeight(b, main) = NoFork
      /\ b \notin main => ForkHeight(b, main) = Height[r] /\ Height[r] # NoFork
  <2>1. b \notin main => Highest(shared) # Genesis
    BY DEF ForkIsSeen
  <2>2. Height[r] # NoFork
    BY <1>1, <1>2 DEF NoFork
  <2>. QED
    BY <2>1, <2>2 DEF ForkHeight
<1>4. Height[r] \in Nat /\ r \in Ancestry[b] /\ r \in Ancestry[t] /\ r \in Blocks
  BY <1>1, <1>2
<1>5. EntryAt(h, b, main) =
        LET side == ForkHeight(b, main) # NoFork /\ h > ForkHeight(b, main)
        IN  IF at(side) = {} THEN << >> ELSE << CHOOSE c \in at(side) : TRUE >>
  BY DEF EntryAt
<1>6. CASE h > Height[r]
  <2>1. ForkHeight(b, main) # NoFork /\ h > ForkHeight(b, main)
    <3>1. b \notin main
      BY <1>1, <1>6
    <3>. QED
      BY <1>3, <1>6, <3>1
  <2>2. at(TRUE) = {}
    BY <1>1
  <2>3. EntryAt(h, b, main) = << >>
    <3>. HIDE DEF at, main, r
    <3>. QED
      BY <1>5, <2>1, <2>2
  <2>4. \A f \in shared : Height[f] < h
    <3>. HIDE DEF r
    <3>1. \A f \in shared : Height[f] \in Nat /\ Height[f] <= Height[r]
      BY <1>1, <1>2
    <3>. QED
      BY <1>4, <1>6, <3>1
  <2>. QED
    BY <2>3, <2>4
<1>7. CASE h <= Height[r]
  <2>1. ~ (ForkHeight(b, main) # NoFork /\ h > ForkHeight(b, main))
    <3>. HIDE DEF r, main
    <3>. QED
      BY <1>3, <1>4, <1>7
  <2>2. \A c \in at(FALSE) : c \in Ancestry[b] /\ Height[c] = h
    <3>. SUFFICES ASSUME NEW c \in at(FALSE) PROVE c \in Ancestry[b]
      OBVIOUS
    <3>1. c \in Ancestry[t] /\ Height[c] <= Height[r]
      BY <1>7
    <3>. HIDE DEF r
    <3>2. c \in Ancestry[r]
      BY <1>4, <3>1, LowerInChain
    <3>. QED
      BY <1>4, <3>2, ChainMembers
  <2>3. at(FALSE) # {}
    <3>. HIDE DEF r
    <3>1. PICK c \in Ancestry[r] : Height[c] = h
      BY <1>4, <1>7, ChainHasHeight
    <3>2. c \in main
      BY <1>4, <3>1, ChainMembers
    <3>. QED
      BY <3>1, <3>2
  <2>4. EntryAt(h, b, main) = << CHOOSE c \in at(FALSE) : TRUE >>
    <3>. HIDE DEF at, main, r
    <3>. QED
      BY <1>5, <2>1, <2>3
  <2>. HIDE DEF at
  <2>. QED
    BY <2>2, <2>3, <2>4
<1>. QED
  <2>. HIDE DEF r
  <2>. QED
    BY <1>4, <1>6, <1>7

\* A round of the walk.
OneMore(b, main, w) ==
  LET h == w.height - Increment(w)
  IN  IF Len(w.locator) >= MaxLocators - 1 \/ h < 1 THEN w
      ELSE [height |-> h, step |-> Increment(w),
            locator |-> w.locator \o EntryAt(h, b, main)]

\* How many blocks a peer may be sent again that leaves the chain of b at height h.
Again(b, h) ==
  IF Height[b] - h > DenseEntries THEN Height[b] - h - DenseEntries ELSE 0

\* The entries go down the chain of b from b.
GoesDown(s, b) ==
  /\ s \in Seq(Ancestry[b]) /\ s # << >> /\ s[1] = b
  /\ \A i, j \in 1 .. Len(s) : i < j => Height[s[j]] < Height[s[i]]

\* The step has not grown beyond the depth, and it has doubled with every sparse entry.
Measured(b, height, step, len) ==
  /\ len <= Height[b] - height + 1
  /\ len <= DenseEntries => step = 1
  /\ len > DenseEntries =>
       /\ 2 * step <= Height[b] - height - DenseEntries + 2
       /\ PowersOf(2)[len - DenseEntries - 1] <= step

\* The walk has covered what b and the main chain share down to its height.
Fits(b, main, height, step, s) ==
  /\ height \in 1 .. Height[b]
  /\ step \in Nat \ {0}
  /\ GoesDown(s, b)
  /\ \A i \in 1 .. Len(s) : height <= Height[s[i]]
  /\ \A f \in Ancestry[b] \cap main :
       height <= Height[f] =>
         \E i \in 1 .. Len(s) :
           /\ Height[s[i]] <= Height[f]
           /\ Height[f] - Height[s[i]] <= Again(b, Height[f])
  /\ Measured(b, height, step, Len(s))

WalkFits(b, main, w) == Fits(b, main, w.height, w.step, w.locator)

\* The next step is at least one; it goes past no block that a peer may not be sent
\* again.
LEMMA StepFacts ==
  ASSUME NEW b \in Blocks, NEW main, NEW w, WalkFits(b, main, w)
  PROVE  /\ Increment(w) \in Nat \ {0}
         /\ \A h \in Nat : h < w.height /\ w.height - Increment(w) <= h =>
              h - (w.height - Increment(w)) <= Again(b, h)
<1>1. /\ Height[b] \in Nat /\ DenseEntries \in Nat /\ w.height \in Nat /\ w.step \in Nat \ {0}
      /\ Len(w.locator) \in Nat
  BY TreeAssumption, LocatorAssumption DEF Fits, WalkFits, Measured, GoesDown
<1>2. CASE Len(w.locator) <= DenseEntries
  <2>1. w.step = 1 /\ Increment(w) = 1
    BY <1>1, <1>2 DEF Fits, WalkFits, Measured, Increment
  <2>2. \A h \in Nat : Again(b, h) \in Nat
    BY <1>1 DEF Again
  <2>3. \A h \in Nat : h < w.height /\ w.height - 1 <= h => h - (w.height - 1) = 0
    BY <1>1
  <2>. QED
    BY <2>1, <2>2, <2>3
<1>3. CASE Len(w.locator) > DenseEntries
  <2>1. /\ Increment(w) = 2 * w.step
        /\ 2 * w.step <= Height[b] - w.height - DenseEntries + 2
    BY <1>1, <1>3 DEF Fits, WalkFits, Measured, Increment
  <2>2. Increment(w) \in Nat \ {0}
    BY <1>1, <2>1
  <2>3. ASSUME NEW h \in Nat, h < w.height, w.height - Increment(w) <= h
        PROVE  h - (w.height - Increment(w)) <= Again(b, h)
    <3>1. /\ Increment(w) <= Height[b] - w.height - DenseEntries + 2
          /\ Again(b, h) >= Height[b] - h - DenseEntries /\ Again(b, h) \in Int
      BY <1>1, <2>1 DEF Again
    <3>. QED
      BY <1>1, <2>2, <2>3, <3>1
  <2>. QED
    BY <2>2, <2>3
<1>. QED
  BY <1>1, <1>2, <1>3

\* The message is never full before the walk is down.
LEMMA NeverFull ==
  ASSUME NEW b \in Blocks, NEW main, NEW w, WalkFits(b, main, w)
  PROVE  Len(w.locator) < MaxLocators - 1
<1>. DEFINE len == Len(w.locator)
            e == MaxLocators - DenseEntries - 2
            p == PowersOf(2)
<1>1. /\ Height[b] \in Nat /\ DenseEntries \in Nat /\ MaxLocators \in Nat
      /\ w.height \in 1 .. Height[b] /\ w.step \in Nat /\ len \in Nat /\ e \in Nat
      /\ Height[b] < p[e]
  BY TreeAssumption, LocatorAssumption DEF Fits, WalkFits, Measured, GoesDown
<1>2. SUFFICES ASSUME len >= MaxLocators - 1 PROVE FALSE
  BY <1>1
<1>3. /\ len > DenseEntries /\ len - DenseEntries - 1 \in Nat
      /\ e <= len - DenseEntries - 1
  BY <1>1, <1>2
<1>4. /\ 2 * w.step <= Height[b] - w.height - DenseEntries + 2
      /\ p[len - DenseEntries - 1] <= w.step
  BY <1>3 DEF Fits, WalkFits, Measured
<1>. HIDE DEF len, e
<1>5. p[e] <= p[len - DenseEntries - 1]
  BY <1>1, <1>3, PowersGrow
<1>6. p[e] \in Nat /\ p[len - DenseEntries - 1] \in Nat
  BY <1>1, <1>3, PowersArePositive
<1>. HIDE DEF p
<1>7. Height[b] < w.step
  BY <1>1, <1>4, <1>5, <1>6
<1>. QED
  BY <1>1, <1>4, <1>7

\* What is added below a sequence that goes down.
LEMMA AddBelow ==
  ASSUME NEW b \in Blocks, NEW s, GoesDown(s, b),
         NEW c \in Ancestry[b], \A i \in 1 .. Len(s) : Height[c] < Height[s[i]]
  PROVE  /\ GoesDown(Append(s, c), b)
         /\ Len(Append(s, c)) = Len(s) + 1 /\ Append(s, c)[Len(s) + 1] = c
         /\ \A i \in 1 .. Len(s) : Append(s, c)[i] = s[i]
<1>1. s \in Seq(Ancestry[b]) /\ Len(s) \in Nat \ {0} /\ s[1] = b
  BY DEF GoesDown
<1>2. /\ Append(s, c) \in Seq(Ancestry[b]) /\ Len(Append(s, c)) = Len(s) + 1
      /\ Append(s, c)[Len(s) + 1] = c
      /\ \A i \in 1 .. Len(s) : Append(s, c)[i] = s[i]
  BY <1>1
<1>3. ASSUME NEW i \in 1 .. Len(s) + 1, NEW j \in 1 .. Len(s) + 1, i < j
      PROVE  Height[Append(s, c)[j]] < Height[Append(s, c)[i]]
  <2>1. i \in 1 .. Len(s)
    BY <1>1, <1>3
  <2>2. CASE j \in 1 .. Len(s)
    BY <1>2, <1>3, <2>1, <2>2 DEF GoesDown
  <2>3. CASE j = Len(s) + 1
    BY <1>2, <2>1, <2>3
  <2>. QED
    BY <1>1, <2>2, <2>3
<1>4. Append(s, c) # << >> /\ Append(s, c)[1] = b
  BY <1>1, <1>2
<1>. QED
  BY <1>2, <1>3, <1>4 DEF GoesDown

\* A round that is not the last goes down, and what the walk keeps together stays.
LEMMA RoundFits ==
  ASSUME NEW b \in Blocks, NEW t \in Blocks, ForkIsSeen(b, Ancestry[t]),
         NEW w, WalkFits(b, Ancestry[t], w), w.height - Increment(w) >= 1
  PROVE  /\ WalkFits(b, Ancestry[t], OneMore(b, Ancestry[t], w))
         /\ OneMore(b, Ancestry[t], w).height < w.height
<1>. DEFINE main == Ancestry[t]
            h == w.height - Increment(w)
            entry == EntryAt(h, b, main)
            s == w.locator
            inc == Increment(w)
            v == [height |-> h, step |-> inc, locator |-> s \o entry]
<1>1. /\ Height[b] \in Nat /\ DenseEntries \in Nat /\ w.height \in 1 .. Height[b]
      /\ w.step \in Nat \ {0} /\ Len(s) \in Nat \ {0} /\ s \in Seq(Ancestry[b])
      /\ inc \in Nat \ {0}
  <2>1. inc \in Nat \ {0}
    BY StepFacts
  <2>. HIDE DEF inc
  <2>. QED
    BY <2>1, TreeAssumption, LocatorAssumption DEF Fits, WalkFits, Measured, GoesDown
<1>2. OneMore(b, main, w) = v
  <2>1. Len(s) < MaxLocators - 1 /\ MaxLocators \in Nat
    BY NeverFull, LocatorAssumption
  <2>2. ~ (Len(s) >= MaxLocators - 1 \/ h < 1)
    <3>. HIDE DEF s
    <3>. QED
      BY <1>1, <2>1
  <2>. QED
    BY <2>2 DEF OneMore
<1>3. h \in 1 .. Height[b] /\ h < w.height /\ h \in Nat /\ h < Height[b]
  <2>. HIDE DEF inc
  <2>1. h = w.height - inc /\ h >= 1
    BY DEF inc
  <2>. HIDE DEF h
  <2>. QED
    BY <1>1, <2>1
<1>4. \A i \in 1 .. Len(s) : /\ Height[s[i]] \in Nat /\ w.height <= Height[s[i]]
                             /\ h < Height[s[i]]
  <2>1. \A i \in 1 .. Len(s) : s[i] \in Blocks /\ w.height <= Height[s[i]]
    BY <1>1, ChainMembers DEF Fits, WalkFits, Measured
  <2>2. \A i \in 1 .. Len(s) : Height[s[i]] \in Nat
    BY <2>1, TreeAssumption
  <2>. HIDE DEF h, s
  <2>. QED
    BY <1>1, <1>3, <2>1, <2>2
<1>. HIDE DEF h
<1>5. \/ /\ entry = << >>
         /\ \A f \in Ancestry[b] \cap main : Height[f] < h
      \/ \E c \in Ancestry[b] : Height[c] = h /\ entry = <<c>>
  BY <1>3, EntryFacts
\* The measures of the step.
<1>6. ASSUME NEW r, Len(r) \in {Len(s), Len(s) + 1}
      PROVE  Measured(b, h, inc, Len(r))
  <2>. DEFINE p == PowersOf(2)
  <2>0. h = w.height - inc
    BY DEF h
  <2>1. Len(s) <= Height[b] - w.height + 1
    BY DEF Fits, WalkFits, Measured
  <2>2. CASE Len(s) <= DenseEntries
    <3>1. inc = 1
      BY <1>1, <2>2 DEF Fits, WalkFits, Measured, Increment
    <3>2. p[0] = 1
      BY PowersArePositive
    <3>3. Len(r) > DenseEntries => Len(r) - DenseEntries - 1 = 0 /\ Len(s) = DenseEntries
      BY <1>1, <1>6, <2>2
    <3>. HIDE DEF inc, s, p
    <3>4. Len(r) <= Height[b] - h + 1
      BY <1>1, <1>6, <2>0, <2>1, <3>1
    <3>5. Len(r) > DenseEntries => 2 * inc <= Height[b] - h - DenseEntries + 2
      BY <1>1, <2>0, <2>1, <3>1, <3>3
    <3>6. Len(r) > DenseEntries => p[Len(r) - DenseEntries - 1] <= inc
      BY <3>1, <3>2, <3>3
    <3>. QED
      BY <3>1, <3>4, <3>5, <3>6 DEF p, Measured
  <2>3. CASE Len(s) > DenseEntries
    <3>1. /\ inc = 2 * w.step
          /\ 2 * w.step <= Height[b] - w.height - DenseEntries + 2
          /\ p[Len(s) - DenseEntries - 1] <= w.step
      BY <1>1, <2>3 DEF Fits, WalkFits, Measured, Increment
    <3>. DEFINE k == Len(s) - DenseEntries - 1
    <3>2. k \in Nat
      BY <1>1, <2>3
    <3>0. \A i \in Nat : p[i] \in Nat /\ p[i + 1] = 2 * p[i]
      BY PowersArePositive
    <3>3. p[k] \in Nat /\ p[k + 1] = 2 * p[k]
      <4>. HIDE DEF k, p
      <4>. QED
        BY <3>0, <3>2
    <3>4. Len(r) - DenseEntries - 1 \in {k, k + 1} /\ Len(r) > DenseEntries
      BY <1>1, <1>6, <2>3
    <3>5. p[k] <= w.step
      BY <3>1
    <3>. HIDE DEF inc, p, k
    <3>6. p[k] <= inc /\ p[k + 1] <= inc
      BY <1>1, <3>1, <3>3, <3>5
    <3>7. p[Len(r) - DenseEntries - 1] <= inc
      BY <3>4, <3>6
    <3>. HIDE DEF s
    <3>8. Len(r) <= Height[b] - h + 1
      BY <1>1, <1>6, <2>0, <2>1
    <3>9. 2 * inc <= Height[b] - h - DenseEntries + 2
      <4>1. inc <= Height[b] - w.height - DenseEntries + 2
        BY <3>1
      <4>. QED
        BY <1>1, <2>0, <4>1
    <3>. QED
      BY <1>1, <1>6, <3>4, <3>7, <3>8, <3>9 DEF p, Measured
  <2>. QED
    BY <1>1, <2>2, <2>3
\* What was covered before.
<1>7. ASSUME NEW f \in Ancestry[b] \cap main, w.height <= Height[f]
      PROVE  \E i \in 1 .. Len(s) : /\ Height[s[i]] <= Height[f]
                                    /\ Height[f] - Height[s[i]] <= Again(b, Height[f])
  BY <1>7 DEF Fits, WalkFits, Measured
<1>8. \A f \in Ancestry[b] : Height[f] \in Nat
  BY TreeAssumption
<1>9. GoesDown(s, b)
  BY DEF Fits, WalkFits, Measured
<1>10. CASE entry = << >> /\ \A f \in Ancestry[b] \cap main : Height[f] < h
  <2>1. s \o entry = s
    BY <1>1, <1>10
  <2>2. \A f \in Ancestry[b] \cap main : ~ (h <= Height[f])
    BY <1>3, <1>8, <1>10
  <2>3. v.height = h /\ v.step = inc /\ v.locator = s
    BY <2>1
  <2>4. \A i \in 1 .. Len(s) : h <= Height[s[i]]
    BY <1>3, <1>4
  <2>5. Len(s) \in {Len(s), Len(s) + 1}
    OBVIOUS
  <2>. HIDE DEF v, s, inc, main
  <2>6. Fits(b, main, h, inc, s)
    BY <1>1, <1>3, <1>6, <1>9, <2>2, <2>4, <2>5 DEF Fits
  <2>7. WalkFits(b, main, v)
    BY <2>3, <2>6 DEF WalkFits
  <2>. QED
    BY <1>2, <1>3, <2>3, <2>7 DEF main
<1>11. ASSUME NEW c \in Ancestry[b], Height[c] = h, entry = <<c>>
       PROVE  /\ WalkFits(b, main, v)
              /\ v.height < w.height
  <2>. DEFINE r == Append(s, c)
  <2>1. s \o entry = r
    BY <1>1, <1>11
  <2>2. v.height = h /\ v.step = inc /\ v.locator = r
    BY <2>1
  <2>3. /\ GoesDown(r, b) /\ Len(r) = Len(s) + 1 /\ r[Len(s) + 1] = c
        /\ \A i \in 1 .. Len(s) : r[i] = s[i]
    <3>. HIDE DEF s
    <3>. QED
      BY <1>4, <1>9, <1>11, AddBelow
  <2>. HIDE DEF r
  <2>4. \A i \in 1 .. Len(r) : h <= Height[r[i]]
    <3>. SUFFICES ASSUME NEW i \in 1 .. Len(r) PROVE h <= Height[r[i]]
      OBVIOUS
    <3>1. CASE i \in 1 .. Len(s)
      BY <1>3, <1>4, <2>3, <3>1
    <3>2. CASE i = Len(s) + 1
      BY <1>3, <1>11, <2>3, <3>2
    <3>. QED
      BY <1>1, <2>3, <3>1, <3>2
  <2>5. ASSUME NEW f \in Ancestry[b] \cap main, h <= Height[f]
        PROVE  \E i \in 1 .. Len(r) : /\ Height[r[i]] <= Height[f]
                                      /\ Height[f] - Height[r[i]] <= Again(b, Height[f])
    <3>1. CASE w.height <= Height[f]
      <4>1. PICK i \in 1 .. Len(s) : /\ Height[s[i]] <= Height[f]
                                     /\ Height[f] - Height[s[i]] <= Again(b, Height[f])
        BY <1>7, <3>1
      <4>2. i \in 1 .. Len(r) /\ r[i] = s[i]
        BY <1>1, <2>3, <4>1
      <4>. QED
        BY <4>1, <4>2
    <3>2. CASE Height[f] < w.height
      <4>1. Height[f] \in Nat
        BY <1>8
      <4>2. Height[f] - h <= Again(b, Height[f])
        BY <2>5, <3>2, <4>1, StepFacts DEF h
      <4>3. Len(s) + 1 \in 1 .. Len(r) /\ Height[r[Len(s) + 1]] = h
        BY <1>1, <1>11, <2>3
      <4>. QED
        BY <2>5, <4>2, <4>3
    <3>. QED
      BY <1>1, <1>8, <3>1, <3>2
  <2>6. Len(r) \in {Len(s), Len(s) + 1}
    BY <2>3
  <2>. HIDE DEF v, s, inc, main
  <2>7. Fits(b, main, h, inc, r)
    BY <1>1, <1>3, <1>6, <2>3, <2>4, <2>5, <2>6 DEF Fits
  <2>8. WalkFits(b, main, v)
    BY <2>2, <2>7 DEF WalkFits
  <2>. QED
    BY <1>3, <2>2, <2>8
<1>. QED
  <2>. HIDE DEF v, s, inc, entry
  <2>. QED
    BY <1>2, <1>5, <1>10, <1>11


\* g is a solution of the recursion of the walk, up to n rounds.
Rounds(b, main, g, n) ==
  g = [k \in 0 .. n |->
         IF k = 0 THEN [height |-> Height[b], step |-> 1, locator |-> <<b>>]
         ELSE OneMore(b, main, g[k - 1])]

\* The walk can go on for any number of rounds.
LEMMA HaveRounds ==
  ASSUME NEW b, NEW main
  PROVE  \A n \in Nat : \E g : Rounds(b, main, g, n)
<1>. DEFINE start == [height |-> Height[b], step |-> 1, locator |-> <<b>>]
            S == {n \in Nat : \E g : Rounds(b, main, g, n)}
<1>1. 0 \in S
  <2>1. Rounds(b, main, [k \in 0 .. 0 |-> start], 0)
    BY DEF Rounds
  <2>. QED
    BY <2>1
<1>2. ASSUME NEW n \in Nat, n \in S PROVE n + 1 \in S
  <2>1. PICK g : Rounds(b, main, g, n)
    BY <1>2
  <2>. DEFINE q == [k \in 0 .. n + 1 |-> IF k = 0 THEN start ELSE OneMore(b, main, g[k - 1])]
  <2>2. ASSUME NEW k \in 0 .. n PROVE q[k] = g[k]
    BY <2>1 DEF Rounds
  <2>3. ASSUME NEW k \in 0 .. n + 1, k # 0 PROVE k - 1 \in 0 .. n
    BY <2>3
  <2>4. Rounds(b, main, q, n + 1)
    BY <2>2, <2>3 DEF Rounds
  <2>. QED
    BY <2>4
<1>. HIDE DEF S
<1>3. Nat \subseteq S
  BY <1>1, <1>2, NaturalInduction
<1>. QED
  BY <1>3 DEF S

\* The walk starts right.
LEMMA StartFits ==
  ASSUME NEW b \in Blocks \ {Genesis}, NEW main
  PROVE  Fits(b, main, Height[b], 1, <<b>>)
<1>1. /\ Height[b] \in Nat \ {0} /\ DenseEntries \in Nat /\ b \in Ancestry[b]
      /\ \A f \in Ancestry[b] : Height[f] \in Nat /\ Height[f] <= Height[b]
  BY ChainsAreChains, TreeAssumption, LocatorAssumption DEF ChainFacts
<1>. DEFINE s == <<b>>
<1>2. s \in Seq(Ancestry[b]) /\ Len(s) = 1 /\ s[1] = b
  <2>1. \A T : b \in T => <<b>> \in Seq(T)
    OBVIOUS
  <2>. QED
    BY <1>1, <2>1
<1>3. s # << >>
  OBVIOUS
<1>. HIDE DEF s
<1>4. GoesDown(s, b)
  BY <1>2, <1>3 DEF GoesDown
<1>5. Measured(b, Height[b], 1, 1)
  <2>1. PowersOf(2)[0] = 1
    BY PowersArePositive
  <2>2. 1 > DenseEntries => DenseEntries = 0 /\ 1 - DenseEntries - 1 = 0
    BY <1>1
  <2>. QED
    BY <1>1, <2>1, <2>2 DEF Measured
<1>6. \A f \in Ancestry[b] : Height[b] <= Height[f] => Height[f] = Height[b]
  BY <1>1
<1>7. \A f \in Ancestry[b] : Again(b, Height[f]) >= 0
  BY <1>1 DEF Again
<1>8. ASSUME NEW f \in Ancestry[b] \cap main, Height[b] <= Height[f]
      PROVE  \E i \in 1 .. Len(s) :
               Height[s[i]] <= Height[f] /\ Height[f] - Height[s[i]] <= Again(b, Height[f])
  <2>1. 1 \in 1 .. Len(s) /\ Height[s[1]] = Height[f] /\ Height[f] \in Nat
    BY <1>1, <1>2, <1>6, <1>8
  <2>. QED
    BY <1>7, <2>1
<1>9. \A i \in 1 .. Len(s) : Height[b] <= Height[s[i]]
  BY <1>1, <1>2
<1>10. Fits(b, main, Height[b], 1, s)
  BY <1>1, <1>2, <1>4, <1>5, <1>8, <1>9 DEF Fits
<1>. QED
  BY <1>10 DEF s

\* The walk ends at the bottom, after no more rounds than there are blocks below b.
LEMMA WalkFacts ==
  ASSUME NEW b \in Blocks \ {Genesis}, NEW t \in Blocks, ForkIsSeen(b, Ancestry[t])
  PROVE  /\ WalkFits(b, Ancestry[t], Walk(b, Ancestry[t]))
         /\ Walk(b, Ancestry[t]).height - Increment(Walk(b, Ancestry[t])) < 1
<1>. DEFINE main == Ancestry[t]
            g == CHOOSE g : Rounds(b, main, g, Height[b])
            Ended(w) == w.height - Increment(w) < 1
            S == {k \in Nat : k <= Height[b] =>
                    /\ WalkFits(b, main, g[k])
                    /\ (g[k].height <= Height[b] - k \/ Ended(g[k]))}
<1>1. Height[b] \in Nat
  BY TreeAssumption
<1>2. Rounds(b, main, g, Height[b])
  BY <1>1, HaveRounds
<1>3. Walk(b, main) = g[Height[b]]
  BY DEF Walk, Rounds, OneMore
<1>. HIDE DEF g
<1>4. /\ g[0] = [height |-> Height[b], step |-> 1, locator |-> <<b>>]
      /\ \A k \in 1 .. Height[b] : g[k] = OneMore(b, main, g[k - 1])
  BY <1>1, <1>2 DEF Rounds
<1>5. 0 \in S
  <2>1. g[0].height = Height[b] /\ g[0].step = 1 /\ g[0].locator = <<b>>
    BY <1>4
  <2>2. WalkFits(b, main, g[0])
    BY <2>1, StartFits DEF WalkFits
  <2>. QED
    BY <1>1, <2>1, <2>2
<1>6. ASSUME NEW k \in Nat, k \in S PROVE k + 1 \in S
  <2>. SUFFICES ASSUME k + 1 <= Height[b]
                PROVE  /\ WalkFits(b, main, g[k + 1])
                       /\ (g[k + 1].height <= Height[b] - (k + 1) \/ Ended(g[k + 1]))
    OBVIOUS
  <2>. DEFINE w == g[k]
  <2>1. WalkFits(b, main, w) /\ (w.height <= Height[b] - k \/ Ended(w))
    BY <1>1, <1>6
  <2>2. g[k + 1] = OneMore(b, main, w)
    <3>1. k + 1 \in 1 .. Height[b] /\ (k + 1) - 1 = k
      BY <1>1
    <3>. QED
      BY <1>4, <3>1
  <2>. HIDE DEF w
  <2>3. w.height \in Nat /\ Increment(w) \in Nat \ {0}
    <3>1. Increment(w) \in Nat \ {0}
      BY <2>1, StepFacts
    <3>. QED
      BY <2>1, <3>1 DEF WalkFits, Fits
  <2>4. CASE Ended(w)
    <3>1. OneMore(b, main, w) = w
      BY <2>4 DEF OneMore
    <3>. QED
      BY <2>1, <2>2, <2>4, <3>1
  <2>5. CASE ~ Ended(w)
    <3>1. w.height - Increment(w) >= 1
      BY <2>3, <2>5
    <3>2. /\ WalkFits(b, main, g[k + 1]) /\ g[k + 1].height < w.height
      BY <2>1, <2>2, <3>1, RoundFits
    <3>3. g[k + 1].height \in Nat
      BY <3>2 DEF WalkFits, Fits
    <3>4. w.height <= Height[b] - k
      BY <2>1, <2>5
    <3>. HIDE DEF Ended, main
    <3>5. g[k + 1].height <= Height[b] - (k + 1)
      BY <1>1, <2>3, <3>2, <3>3, <3>4
    <3>. QED
      BY <3>2, <3>5
  <2>. QED
    BY <2>4, <2>5
<1>7. Height[b] \in S
  <2>. HIDE DEF S
  <2>. QED
    BY <1>1, <1>5, <1>6, NaturalInduction
<1>. DEFINE w == g[Height[b]]
<1>8. WalkFits(b, main, w) /\ (w.height <= Height[b] - Height[b] \/ Ended(w))
  BY <1>1, <1>7
<1>9. w.height \in Nat \ {0}
  BY <1>8 DEF WalkFits, Fits
<1>. HIDE DEF w
<1>10. Ended(w)
  <2>. HIDE DEF Ended
  <2>. QED
    BY <1>1, <1>8, <1>9
<1>. QED
  BY <1>3, <1>8, <1>10 DEF w

\* The entry a peer looks for is the highest that it has.
LEMMA FirstKnownFacts ==
  ASSUME NEW b \in Blocks, NEW s, GoesDown(s, b), NEW f \in Ancestry[b],
         NEW i \in 1 .. Len(s), Height[s[i]] <= Height[f]
  PROVE  /\ FirstKnown(s, f) \in Ancestry[b]
         /\ Height[s[i]] <= Height[FirstKnown(s, f)]
<1>. DEFINE known == {j \in 1 .. Len(s) : s[j] \in Ancestry[f]}
<1>1. \A j \in 1 .. Len(s) : s[j] \in Ancestry[b] /\ s[j] \in Blocks /\ Height[s[j]] \in Nat
  <2>1. \A j \in 1 .. Len(s) : s[j] \in Ancestry[b]
    BY DEF GoesDown
  <2>. QED
    BY <2>1, ChainMembers, TreeAssumption
<1>2. i \in known
  BY <1>1, LowerInChain
<1>3. known \in SUBSET Nat
  OBVIOUS
<1>4. \E m \in known : \A j \in known : m <= j
  <2>. HIDE DEF known
  <2>. QED
    BY <1>2, <1>3, LeastElement
<1>5. PICK m \in known : /\ FirstKnown(s, f) = s[m]
                         /\ \A j \in known : m <= j
  BY <1>4 DEF FirstKnown
<1>6. m <= i /\ m \in 1 .. Len(s)
  BY <1>2, <1>5
<1>7. Height[s[i]] <= Height[s[m]]
  <2>1. CASE m = i
    BY <1>1, <2>1
  <2>2. CASE m < i
    BY <1>1, <1>6, <2>2 DEF GoesDown
  <2>. QED
    BY <1>6, <2>1, <2>2
<1>. QED
  BY <1>1, <1>5, <1>6, <1>7

\* The members of a sequence that goes down.
LEMMA MembersOfChain ==
  ASSUME NEW b, NEW s, GoesDown(s, b)
  PROVE  Len(s) \in Nat \ {0} /\ \A i \in 1 .. Len(s) : s[i] \in Ancestry[b]
<1>1. s \in Seq(Ancestry[b]) /\ s # << >>
  BY DEF GoesDown
<1>. QED
  BY <1>1

\* The locator of a block whose fork the code sees goes down to Genesis and locates
\* every fork.
LEMMA LocatorFits ==
  ASSUME NEW b \in Blocks \ {Genesis}, NEW t \in Blocks, ForkIsSeen(b, Ancestry[t]),
         NEW s, s = Append(Walk(b, Ancestry[t]).locator, Genesis)
  PROVE  /\ Descends(s, b)
         /\ \A f \in Ancestry[b] \cap Ancestry[t] : LocatesFork(s, b, f)
<1>. DEFINE main == Ancestry[t]
            w == Walk(b, main)
            r == w.locator
<1>1. WalkFits(b, main, w) /\ w.height - Increment(w) < 1
  BY WalkFacts
<1>. HIDE DEF w
<1>2. /\ Genesis \in Ancestry[b] /\ Height[Genesis] = 0
      /\ \A f \in Ancestry[b] : f \in Blocks /\ Height[f] \in Nat
  BY ChainsAreChains, TreeAssumption DEF ChainFacts
<1>3. /\ GoesDown(r, b) /\ w.height \in Nat \ {0} /\ Increment(w) \in Nat
      /\ \A i \in 1 .. Len(r) : w.height <= Height[r[i]]
  <2>1. GoesDown(r, b) /\ w.height \in Nat \ {0} /\ \A i \in 1 .. Len(r) : w.height <= Height[r[i]]
    BY <1>1 DEF WalkFits, Fits
  <2>. QED
    BY <1>1, <2>1, StepFacts
<1>4. \A i \in 1 .. Len(r) : r[i] \in Ancestry[b] /\ Height[Genesis] < Height[r[i]]
  <2>1. \A i \in 1 .. Len(r) : r[i] \in Ancestry[b] /\ w.height <= Height[r[i]]
    BY <1>3 DEF GoesDown
  <2>. HIDE DEF r
  <2>. QED
    BY <1>2, <1>3, <2>1
<1>5. /\ GoesDown(s, b) /\ Len(s) = Len(r) + 1 /\ s[Len(s)] = Genesis /\ Len(r) \in Nat
      /\ \A i \in 1 .. Len(r) : s[i] = r[i]
  <2>1. s = Append(r, Genesis)
    BY DEF w
  <2>2. Len(r) \in Nat
    BY <1>3 DEF GoesDown
  <2>. HIDE DEF r
  <2>. QED
    BY <1>2, <1>3, <1>4, <2>1, <2>2, AddBelow
<1>6. Descends(s, b)
  <2>1. s[1] = b /\ Len(s) \in Nat /\ \A i \in 1 .. Len(s) : s[i] \in Ancestry[b]
    <3>1. s[1] = b
      BY <1>5 DEF GoesDown
    <3>. QED
      BY <1>5, <3>1, MembersOfChain
  <2>2. \A i \in 2 .. Len(s) : Height[s[i]] < Height[s[i - 1]]
    <3>. SUFFICES ASSUME NEW i \in 2 .. Len(s) PROVE Height[s[i]] < Height[s[i - 1]]
      OBVIOUS
    <3>1. i \in 1 .. Len(s) /\ i - 1 \in 1 .. Len(s) /\ i - 1 < i
      BY <2>1
    <3>. QED
      BY <1>5, <3>1 DEF GoesDown
  <2>. QED
    BY <1>5, <2>1, <2>2 DEF Descends
<1>7. ASSUME NEW f \in Ancestry[b] \cap main
      PROVE  LocatesFork(s, b, f)
  <2>1. f \in Blocks /\ Height[f] \in Nat /\ Height[b] \in Nat /\ DenseEntries \in Nat
    BY <1>2, TreeAssumption, LocatorAssumption
  <2>2. \E i \in 1 .. Len(s) : /\ Height[s[i]] <= Height[f]
                               /\ Height[f] - Height[s[i]] <= Again(b, Height[f])
    <3>1. CASE w.height <= Height[f]
      <4>1. PICK i \in 1 .. Len(r) : /\ Height[r[i]] <= Height[f]
                                     /\ Height[f] - Height[r[i]] <= Again(b, Height[f])
        BY <1>1, <3>1 DEF WalkFits, Fits
      <4>2. i \in 1 .. Len(s) /\ s[i] = r[i]
        BY <1>5, <4>1
      <4>. QED
        BY <4>1, <4>2
    <3>2. CASE Height[f] < w.height
      <4>1. Height[f] - (w.height - Increment(w)) <= Again(b, Height[f])
        BY <1>1, <1>3, <2>1, <3>2, StepFacts
      <4>2. Again(b, Height[f]) \in Int
        BY <2>1 DEF Again
      <4>3. Len(s) \in 1 .. Len(s) /\ Height[s[Len(s)]] = 0
        BY <1>2, <1>5
      <4>4. Height[f] <= Again(b, Height[f])
        BY <1>1, <1>3, <2>1, <4>1, <4>2
      <4>. QED
        BY <2>1, <4>3, <4>4
    <3>3. w.height <= Height[f] \/ Height[f] < w.height
      BY <1>3, <2>1
    <3>. QED
      BY <3>1, <3>2, <3>3
  <2>3. PICK i \in 1 .. Len(s) : /\ Height[s[i]] <= Height[f]
                                 /\ Height[f] - Height[s[i]] <= Again(b, Height[f])
    BY <2>2
  <2>4. /\ FirstKnown(s, f) \in Ancestry[b]
        /\ Height[s[i]] <= Height[FirstKnown(s, f)]
    BY <1>5, <2>3, FirstKnownFacts
  <2>5. Height[FirstKnown(s, f)] \in Nat /\ Height[s[i]] \in Nat
    <3>1. s[i] \in Ancestry[b]
      BY <1>5, MembersOfChain
    <3>. QED
      BY <1>2, <2>4, <3>1
  <2>6. Again(b, Height[f]) =
          LET d == Height[b] - Height[f]
          IN  IF d > DenseEntries THEN d - DenseEntries ELSE 0
    BY DEF Again
  <2>7. Again(b, Height[f]) \in Int
    BY <2>1 DEF Again
  <2>8. Height[f] - Height[FirstKnown(s, f)] <= Again(b, Height[f])
    BY <2>1, <2>3, <2>4, <2>5, <2>7
  <2>. QED
    BY <2>6, <2>8 DEF LocatesFork
<1>. QED
  BY <1>6, <1>7

\* The locator of a known block leads a peer to the last block they share.
THEOREM LocatorsFindForks == Spec => []LocatorsLocate
<1>1. Inv => LocatorsLocate
  <2>. SUFFICES ASSUME Inv, NEW b \in index \ {Genesis}, ForkIsSeen(b, MainChain),
                       NEW s, s = BlockLocatorFromHash(b, MainChain, index)
                PROVE  /\ Descends(s, b)
                       /\ \A f \in Ancestry[b] \cap MainChain : LocatesFork(s, b, f)
    BY DEF LocatorsLocate
  <2>1. b \in Blocks \ {Genesis} /\ bestChain \in Blocks /\ MainChain = Ancestry[bestChain]
    BY DEF Inv, Verified, MainChain
  <2>2. s = Append(Walk(b, MainChain).locator, Genesis)
    BY DEF BlockLocatorFromHash
  <2>. QED
    BY <2>1, <2>2, LocatorFits
<1>. QED
  BY <1>1, Invariance, PTL
=============================================================================
