--------------------------- MODULE StakeChainProofs ---------------------------
(***************************************************************************)
(* Proofs about StakeChain, for any block tree, timestamps, hashes and     *)
(* lengths of the intervals: on a chain every stake modifier is generated  *)
(* in a later interval than those before it; compact targets round down    *)
(* and by less than a unit of their last digit, so that a retarget never   *)
(* moves against the spacing of the blocks and every block adds work; and  *)
(* the modifiers are a function of the chain.                              *)
(***************************************************************************)
EXTENDS StakeChain, BlockTreeProofs

\* With protocol 0.4 in force above c, the modifier generated at b is of a later
\* interval than that generated at c.
LaterThan(b, c) ==
  /\ meta[b].generated /\ meta[c].generated
  /\ \A e \in ChainAbove(b, c) : time[e] >= ProtocolV04Time
  => Interval(time[c]) < Interval(time[b])

(***************************************************************************)
(* The known blocks hold their ancestors, the walk to the last modifier    *)
(* ends at Genesis, and each known block is later than those below it.     *)
(***************************************************************************)
Inv ==
  /\ time \in [Blocks -> Nat]
  /\ meta = [b \in Blocks |-> meta[b]]
  /\ index \subseteq Blocks
  /\ bestChain \in index
  /\ \A b \in index : Ancestry[b] \subseteq index
  /\ meta[Genesis].generated
  /\ \A b \in index \ {Genesis} : \A c \in Ancestry[Parent[b]] : LaterThan(b, c)

LEMMA IntervalIsInt == \A t \in Nat : Interval(t) \in Int
  BY KernelAssumption DEF Interval

\* A fresh chain has the invariant.
LEMMA InitInv == Init => Inv
<1>. SUFFICES ASSUME Init PROVE Inv
  OBVIOUS
<1>1. Genesis \in Blocks /\ Ancestry[Genesis] = {Genesis}
  BY TreeAssumption
<1>2. meta[Genesis].generated
  BY <1>1 DEF Init, GenesisMeta
<1>3. time \in [Blocks -> Nat]
  BY TargetAssumption DEF Init
<1>4. meta = [b \in Blocks |-> meta[b]]
  BY DEF Init
<1>. QED
  BY <1>1, <1>2, <1>3, <1>4 DEF Init, Inv

\* A modifier generated at b is later than the last one below, which is later than
\* the others.
LEMMA NewBlockIsLater ==
  ASSUME Inv, NEW b \in Blocks \ {Genesis}, Parent[b] \in index,
         ComputeNextStakeModifier(b, meta).generated,
         NEW c \in Ancestry[Parent[b]], meta[c].generated,
         \A e \in ChainAbove(b, c) : time[e] >= ProtocolV04Time
  PROVE  Interval(time[c]) < Interval(time[b])
<1>. DEFINE p == Parent[b]
            Generated == {d \in Ancestry[p] : meta[d].generated}
            last == LastGenerated(p, meta)
<1>1. p \in Blocks /\ Ancestry[p] \subseteq Blocks /\ Ancestry[p] \subseteq index
  BY TreeAssumption DEF Inv
<1>2. /\ last \in Ancestry[p] /\ meta[last].generated
      /\ Height[c] <= Height[last]
  <2>1. c \in Generated /\ Generated \in SUBSET Ancestry[p]
    OBVIOUS
  <2>2. Highest(Generated) \in Generated /\ Height[c] <= Height[Highest(Generated)]
    <3>. HIDE DEF Generated
    <3>. QED
      BY <1>1, <2>1, HasHighest
  <2>. QED
    BY <2>2 DEF LastGenerated
<1>. HIDE DEF last
<1>3. /\ Height[b] \in Nat /\ Height[last] \in Nat /\ Height[c] \in Nat
      /\ \A e \in Ancestry[p] : Height[e] \in Nat
      /\ Ancestry[b] = Ancestry[p] \cup {b}
  BY <1>1, <1>2, TreeAssumption
<1>4. Height[b] > Height[c] /\ b \in ChainAbove(b, c)
  <2>1. b \in Ancestry[b] /\ c \in Ancestry[b]
    BY <1>3
  <2>2. b # c
    <3>1. SUFFICES ASSUME b \in Ancestry[p] PROVE FALSE
      OBVIOUS
    <3>2. p \in Ancestry[p] /\ Height[b] = Height[p] + 1 /\ Height[p] \in Nat
      BY <1>1, TreeAssumption, ChainsAreChains DEF ChainFacts
    <3>3. Height[b] <= Height[p]
      BY <1>1, <3>1, ChainsAreChains DEF ChainFacts
    <3>. QED
      BY <3>2, <3>3
  <2>3. b \in ChainAbove(b, c)
    BY <2>1, <2>2, EndOfChain
  <2>. QED
    BY <2>3 DEF ChainAbove
<1>5. Interval(time[last]) < Interval(time[b])
  <2>1. ~SameInterval(b, last)
    BY DEF ComputeNextStakeModifier, last
  <2>2. time[b] >= ProtocolV04Time
    BY <1>4
  <2>3. Interval(time[last]) \in Int /\ Interval(time[b]) \in Int
    BY <1>1, <1>2, IntervalIsInt DEF Inv
  <2>. QED
    BY <2>1, <2>2, <2>3 DEF SameInterval
<1>6. CASE c = last
  BY <1>5, <1>6
<1>7. CASE c # last
  <2>1. Height[c] < Height[last]
    BY <1>1, <1>2, <1>3, <1>7, ChainMembers
  <2>2. last \in index \ {Genesis}
    BY <1>1, <1>2, <1>3, <2>1, TreeAssumption
  <2>3. c \in Ancestry[last]
    BY <1>1, <1>2, <2>1, ChainsAreChains DEF ChainFacts
  <2>4. c \in Ancestry[Parent[last]]
    BY <1>1, <1>2, <1>7, <2>3, EndOfChain
  <2>5. ChainAbove(last, c) \subseteq ChainAbove(b, c)
    BY <1>1, <1>2, <1>3, ChainMembers DEF ChainAbove
  <2>6. Interval(time[c]) < Interval(time[last])
    BY <1>2, <2>2, <2>4, <2>5 DEF Inv, LaterThan
  <2>7. /\ Interval(time[c]) \in Int /\ Interval(time[last]) \in Int
        /\ Interval(time[b]) \in Int
    BY <1>1, <1>2, IntervalIsInt DEF Inv
  <2>. QED
    BY <1>5, <2>6, <2>7
<1>. QED
  BY <1>6, <1>7

LEMMA AcceptStep ==
  ASSUME Inv, NEW b \in Blocks \ {Genesis}, MaybeAcceptBlock(b)
  PROVE  Inv'
<1>1. /\ Parent[b] \in index /\ b \notin index
      /\ index' = index \cup {b} /\ bestChain' \in {b, bestChain} /\ time' = time
      /\ meta' = [meta EXCEPT ![b] = MetaOf(b, bestChain, meta)]
  BY DEF MaybeAcceptBlock
<1>2. /\ \A c \in Blocks \ {b} : meta'[c] = meta[c]
      /\ meta'[b].generated = ComputeNextStakeModifier(b, meta).generated
      /\ meta' = [c \in Blocks |-> meta'[c]]
  BY <1>1 DEF Inv, MetaOf
<1>3. \A c \in index' : Ancestry[c] \subseteq index'
  BY <1>1, TreeAssumption DEF Inv
<1>4. \A c \in index \ {Genesis} : Ancestry[Parent[c]] \subseteq index
  BY TreeAssumption DEF Inv
<1>5. ASSUME NEW c \in index \ {Genesis}, NEW d \in Ancestry[Parent[c]]
      PROVE  LaterThan(c, d)'
  BY <1>1, <1>2, <1>4, <1>5 DEF Inv, LaterThan, Interval, ChainAbove
<1>6. ASSUME NEW d \in Ancestry[Parent[b]]
      PROVE  LaterThan(b, d)'
  <2>1. d \in index
    BY <1>1 DEF Inv
  <2>2. meta'[d] = meta[d]
    BY <1>1, <1>2, <2>1 DEF Inv
  <2>. SUFFICES ASSUME ComputeNextStakeModifier(b, meta).generated, meta[d].generated,
                       \A e \in ChainAbove(b, d) : time[e] >= ProtocolV04Time
                PROVE  Interval(time[d]) < Interval(time[b])
    BY <1>1, <1>2, <2>2 DEF LaterThan, Interval, ChainAbove
  <2>. QED
    BY <1>1, NewBlockIsLater
<1>7. meta'[Genesis].generated
  BY <1>2, TreeAssumption DEF Inv
<1>. QED
  BY <1>1, <1>2, <1>3, <1>5, <1>6, <1>7 DEF Inv

LEMMA RestartStep ==
  ASSUME Inv, Restart
  PROVE  Inv'
<1>1. /\ index' = Ancestry[bestChain] /\ bestChain' = bestChain /\ time' = time
      /\ meta' = Reloaded(meta)
  BY DEF Restart
<1>2. /\ bestChain \in Blocks
      /\ Ancestry[bestChain] \subseteq index /\ Ancestry[bestChain] \subseteq Blocks
      /\ \A b \in Ancestry[bestChain] :
           /\ Ancestry[b] \subseteq Ancestry[bestChain]
           /\ b # Genesis => Ancestry[Parent[b]] \subseteq Ancestry[b]
  BY ChainMembers, TreeAssumption DEF Inv
<1>3. \A b \in Ancestry[bestChain] : meta'[b] = meta[b]
  BY <1>1, <1>2 DEF Reloaded
<1>4. Genesis \in Ancestry[bestChain] /\ bestChain \in Ancestry[bestChain]
  BY <1>2, ChainsAreChains DEF ChainFacts
<1>5. ASSUME NEW b \in Ancestry[bestChain] \ {Genesis}, NEW c \in Ancestry[Parent[b]]
      PROVE  LaterThan(b, c)'
  BY <1>1, <1>2, <1>3 DEF Inv, LaterThan, Interval, ChainAbove
<1>6. meta' = [b \in Blocks |-> meta'[b]]
  BY <1>1 DEF Reloaded
<1>. QED
  BY <1>1, <1>2, <1>3, <1>4, <1>5, <1>6 DEF Inv

LEMMA InvStep == Inv /\ [Next]_vars => Inv'
<1>. SUFFICES ASSUME Inv, [Next]_vars PROVE Inv'
  OBVIOUS
<1>1. ASSUME NEW b \in Blocks \ {Genesis}, MaybeAcceptBlock(b) PROVE Inv'
  BY <1>1, AcceptStep
<1>2. CASE Restart
  BY <1>2, RestartStep
<1>3. CASE UNCHANGED vars
  BY <1>3 DEF vars, Inv, LaterThan, Interval, ChainAbove
<1>. QED
  BY <1>1, <1>2, <1>3 DEF Next

\* No two stake modifiers of a chain are from one interval, nor one from an earlier
\* interval than one below it, once protocol 0.4 is in force.
THEOREM ModifiersAdvance == Spec => []OneModifierPerInterval
<1>1. Inv => OneModifierPerInterval
  <2>. SUFFICES ASSUME Inv, NEW b \in index, NEW c \in Ancestry[b], NEW d \in Ancestry[b],
                       meta[c].generated, meta[d].generated, Height[c] < Height[d],
                       \A e \in ChainAbove(d, c) : time[e] >= ProtocolV04Time
                PROVE  Interval(time[c]) < Interval(time[d])
    BY DEF OneModifierPerInterval
  <2>1. b \in Blocks /\ c \in Blocks /\ d \in Blocks /\ d \in index
    BY ChainMembers DEF Inv
  <2>2. /\ c \in Ancestry[d] /\ c # d
    BY <2>1, TreeAssumption, ChainsAreChains DEF ChainFacts
  <2>3. d # Genesis /\ c \in Ancestry[Parent[d]]
    BY <2>1, <2>2, EndOfChain
  <2>. QED
    BY <2>1, <2>3 DEF Inv, LaterThan
<1>. QED
  BY <1>1, InitInv, InvStep, PTL DEF Spec

-----------------------------------------------------------------------------
\* Division rounds down.
LEMMA DivFacts ==
  ASSUME NEW n \in Int, NEW p \in Nat \ {0}
  PROVE  /\ n \div p \in Int
         /\ (n \div p) * p <= n
         /\ n < (n \div p) * p + p
  OBVIOUS

\* Products grow with their factors.
LEMMA MulMono ==
  ASSUME NEW a \in Int, NEW b \in Int, NEW c \in Nat, a <= b
  PROVE a * c <= b * c
  OBVIOUS

\* Of two products with a positive factor, the smaller is that of the smaller number.
LEMMA MulStrict ==
  ASSUME NEW a \in Int, NEW b \in Int, NEW c \in Nat \ {0}, a * c < b * c
  PROVE a < b
  OBVIOUS

\* The quotient is the largest number whose product fits.
LEMMA DivBound ==
  ASSUME NEW n \in Int, NEW p \in Nat \ {0}, NEW q \in Int
  PROVE  /\ q * p <= n => q <= n \div p
         /\ n < (q + 1) * p => n \div p <= q
<1>1. n \div p \in Int /\ (n \div p) * p <= n /\ n < (n \div p) * p + p
  BY DivFacts
<1>. DEFINE d == n \div p
<1>. HIDE DEF d
<1>2. d \in Int /\ d * p <= n /\ n < (d + 1) * p
  BY <1>1 DEF d
<1>3. ASSUME q * p <= n PROVE q <= d
  <2>1. q * p < (d + 1) * p
    BY <1>2, <1>3
  <2>2. q < d + 1
    BY <1>2, <2>1, MulStrict
  <2>. QED
    BY <1>2, <2>2
<1>4. ASSUME n < (q + 1) * p PROVE d <= q
  <2>1. d * p < (q + 1) * p
    BY <1>2, <1>4
  <2>2. d < q + 1
    BY <1>2, <2>1, MulStrict
  <2>. QED
    BY <1>2, <2>2
<1>. QED
  BY <1>3, <1>4 DEF d

\* The quotient is the only number whose multiple fits.
LEMMA DivUnique ==
  ASSUME NEW n \in Int, NEW p \in Nat \ {0}, NEW q \in Int, q * p <= n, n < (q + 1) * p
  PROVE  n \div p = q
  BY DivBound, DivFacts

\* Two divisions are one.
LEMMA DivDiv ==
  ASSUME NEW n \in Nat, NEW p \in Nat \ {0}, NEW b \in Nat \ {0}
  PROVE  (n \div p) \div b = n \div (b * p)
<1>. DEFINE d == n \div p
            e == d \div b
<1>1. d \in Int /\ d * p <= n /\ n < (d + 1) * p
  BY DivFacts
<1>. HIDE DEF d
<1>2. e \in Int /\ e * b <= d /\ d < (e + 1) * b
  BY <1>1, DivFacts
<1>. HIDE DEF e
<1>3. (e * b) * p <= d * p /\ (d + 1) * p <= ((e + 1) * b) * p
  BY <1>1, <1>2, MulMono
<1>4. PICK c \in Nat \ {0} : c = b * p
  OBVIOUS
<1>5. (e * b) * p = e * c /\ ((e + 1) * b) * p = (e + 1) * c
  BY <1>2, <1>4
<1>6. e * c <= n /\ n < (e + 1) * c
  BY <1>1, <1>3, <1>5, <1>2
<1>7. n \div c = e
  BY <1>2, <1>6, DivUnique
<1>. QED
  BY <1>4, <1>7 DEF e, d

-----------------------------------------------------------------------------
\* Shifts by bytes are powers of the base.
LEMMA ByteShiftFacts ==
  /\ Base \in Nat /\ Base > 2
  /\ ByteShift(0) = 1
  /\ \A k \in Nat : ByteShift(k) \in Nat \ {0} /\ ByteShift(k + 1) = Base * ByteShift(k)
<1>1. Base \in Nat \ {0} /\ Base > 2
  BY CompactAssumption
<1>. QED
  BY <1>1, PowersArePositive DEF ByteShift

\* Bits are powers of two.
LEMMA BitFacts ==
  /\ Bit(0) = 1
  /\ \A k \in Nat : Bit(k) \in Nat \ {0} /\ Bit(k + 1) = 2 * Bit(k)
<1>1. 2 \in Nat \ {0}
  OBVIOUS
<1>. QED
  BY <1>1, PowersArePositive DEF Bit

\* Two shifts are one.
LEMMA ByteShiftsAdd ==
  \A j, k \in Nat : ByteShift(j + k) = ByteShift(j) * ByteShift(k)
<1>. SUFFICES ASSUME NEW j \in Nat
              PROVE  \A k \in Nat : ByteShift(j + k) = ByteShift(j) * ByteShift(k)
  OBVIOUS
<1>. DEFINE S == {k \in Nat : ByteShift(j + k) = ByteShift(j) * ByteShift(k)}
<1>1. 0 \in S
  BY ByteShiftFacts
<1>2. ASSUME NEW k \in Nat, k \in S
      PROVE  k + 1 \in S
  <2>1. j + k \in Nat /\ j + (k + 1) = (j + k) + 1
    OBVIOUS
  <2>2. /\ ByteShift(j + (k + 1)) = Base * ByteShift(j + k)
        /\ ByteShift(k + 1) = Base * ByteShift(k)
    BY <2>1, ByteShiftFacts
  <2>3. ByteShift(j + k) = ByteShift(j) * ByteShift(k)
    BY <1>2
  <2>4. ByteShift(j) \in Nat /\ ByteShift(k) \in Nat /\ Base \in Nat
    BY ByteShiftFacts
  <2>5. Base * (ByteShift(j) * ByteShift(k)) = ByteShift(j) * (Base * ByteShift(k))
    BY <2>4
  <2>. QED
    BY <2>2, <2>3, <2>5
<1>. HIDE DEF S
<1>3. Nat \subseteq S
  BY <1>1, <1>2, NaturalInduction
<1>. QED
  BY <1>3 DEF S

\* Shifts grow with the number of bytes, so that every number has digits.
LEMMA ByteShiftGrows ==
  /\ \A k \in Nat : k < ByteShift(k)
  /\ \A j, k \in Nat : j <= k => ByteShift(j) <= ByteShift(k)
<1>1. \A k \in Nat : k < ByteShift(k)
  <2>. DEFINE S == {k \in Nat : k < ByteShift(k)}
  <2>1. 0 \in S
    BY ByteShiftFacts
  <2>2. ASSUME NEW k \in Nat, k \in S
        PROVE  k + 1 \in S
    <3>1. PICK s \in Nat : s = ByteShift(k)
      BY ByteShiftFacts
    <3>2. Base * s > s
      <4>1. PICK c \in Nat : Base = 2 + c
        <5>1. Base - 2 \in Nat /\ Base = 2 + (Base - 2)
          BY CompactAssumption
        <5>. QED
          BY <5>1
      <4>2. (2 + c) * s = s + s + c * s /\ c * s \in Nat /\ s > 0
        BY <2>2, <3>1
      <4>. QED
        BY <4>1, <4>2
    <3>3. ByteShift(k + 1) = Base * s /\ k < s
      BY <2>2, <3>1, ByteShiftFacts
    <3>4. Base * s \in Nat
      BY <3>1, ByteShiftFacts
    <3>. QED
      BY <3>1, <3>2, <3>3, <3>4
  <2>. HIDE DEF S
  <2>3. Nat \subseteq S
    BY <2>1, <2>2, NaturalInduction
  <2>. QED
    BY <2>3 DEF S
<1>2. ASSUME NEW j \in Nat, NEW k \in Nat, j <= k
      PROVE  ByteShift(j) <= ByteShift(k)
  <2>1. PICK i \in Nat : k = j + i
    <3>1. k - j \in Nat /\ k = j + (k - j)
      BY <1>2
    <3>. QED
      BY <3>1
  <2>2. PICK a \in Nat \ {0}, b \in Nat \ {0} : a = ByteShift(j) /\ b = ByteShift(i)
    BY ByteShiftFacts
  <2>3. ByteShift(k) = a * b
    BY <2>1, <2>2, ByteShiftsAdd
  <2>4. a <= a * b
    OBVIOUS
  <2>. QED
    BY <2>2, <2>3, <2>4
<1>. QED
  BY <1>1, <1>2

\* A number that is not zero has its number of digits.
LEMMA DigitsOf ==
  ASSUME NEW n \in Int, n # 0
  PROVE  /\ Abs(n) \in Nat \ {0}
         /\ Digits(n) \in Nat \ {0}
         /\ ByteShift(Digits(n) - 1) <= Abs(n) /\ Abs(n) < ByteShift(Digits(n))
<1>1. PICK a \in Nat \ {0} : a = Abs(n)
  BY DEF Abs
<1>. DEFINE Fits == {k \in Nat : a < ByteShift(k)}
<1>2. Fits # {} /\ Fits \in SUBSET Nat
  BY ByteShiftGrows
<1>3. PICK m \in Fits : \A k \in Fits : m <= k
  <2>. HIDE DEF Fits
  <2>. QED
    BY <1>2, LeastElement
<1>4. m # 0 /\ m \in Nat
  BY <1>1, <1>3, ByteShiftFacts
<1>5. m - 1 \in Nat /\ ~ (m <= m - 1)
  BY <1>4
<1>6. ByteShift(m - 1) <= a
  <2>1. m - 1 \notin Fits
    BY <1>3, <1>5
  <2>2. ByteShift(m - 1) \in Nat /\ a \in Nat
    BY <1>5, ByteShiftFacts
  <2>. QED
    BY <1>5, <2>1, <2>2
<1>7. m \in 0 .. a
  <2>1. m - 1 < ByteShift(m - 1) /\ ByteShift(m - 1) \in Nat
    BY <1>5, ByteShiftFacts, ByteShiftGrows
  <2>. QED
    BY <1>4, <1>6, <2>1
<1>8. \E k \in 0 .. Abs(n) :
        Abs(n) < ByteShift(k) /\ (k > 0 => ByteShift(k - 1) <= Abs(n))
  BY <1>1, <1>3, <1>6, <1>7
<1>9. /\ Digits(n) \in 0 .. Abs(n)
      /\ Abs(n) < ByteShift(Digits(n))
      /\ Digits(n) > 0 => ByteShift(Digits(n) - 1) <= Abs(n)
  BY <1>8 DEF Digits
<1>10. Digits(n) # 0
  <2>1. SUFFICES ASSUME Digits(n) = 0 PROVE FALSE
    OBVIOUS
  <2>2. a < 1
    BY <1>1, <1>9, <2>1, ByteShiftFacts
  <2>. QED
    BY <2>2
<1>. QED
  BY <1>1, <1>9, <1>10

-----------------------------------------------------------------------------
\* The three digits of a mantissa, and the sign bit in the middle of them.
LEMMA SignBitFacts ==
  \E h \in Nat \ {0} :
    /\ Base = 2 * h
    /\ ByteShift(1) = Base /\ ByteShift(2) = Base * Base
    /\ ByteShift(3) = Base * (Base * Base)
    /\ SignBit = (h * Base) * Base
    /\ ByteShift(3) = 2 * SignBit
<1>1. PICK h \in Nat \ {0} : Base = 2 * h
  BY CompactAssumption
<1>2. ByteShift(0 + 1) = Base * 1 /\ Base \in Nat
  BY ByteShiftFacts
<1>3. ByteShift(1) = Base
  BY <1>2
<1>4. ByteShift(1 + 1) = Base * Base
  BY <1>3, ByteShiftFacts
<1>5. ByteShift(2 + 1) = Base * (Base * Base)
  BY <1>4, ByteShiftFacts
<1>6. Base * (Base * Base) = 2 * ((h * Base) * Base)
  BY <1>1, <1>2
<1>7. PICK s \in Nat : s = (h * Base) * Base
  BY <1>2
<1>8. (2 * s) \div 2 = s
  OBVIOUS
<1>9. SignBit = s
  BY <1>5, <1>6, <1>7, <1>8 DEF SignBit
<1>. QED
  BY <1>1, <1>3, <1>4, <1>5, <1>6, <1>7, <1>9

-----------------------------------------------------------------------------
\* A multiple of a power is one of every lower power.
LEMMA CoarseIsFine ==
  ASSUME NEW m \in Nat, NEW j \in Nat, NEW k \in Nat, k <= j
  PROVE  \E q \in Nat : m * ByteShift(j) = q * ByteShift(k)
<1>1. PICK i \in Nat : j = i + k
  <2>1. j - k \in Nat /\ j = (j - k) + k
    OBVIOUS
  <2>. QED
    BY <2>1
<1>2. PICK a \in Nat, b \in Nat : a = ByteShift(i) /\ b = ByteShift(k)
  BY ByteShiftFacts
<1>3. ByteShift(j) = a * b
  BY <1>1, <1>2, ByteShiftsAdd
<1>4. m * (a * b) = (m * a) * b /\ m * a \in Nat
  OBVIOUS
<1>. QED
  BY <1>2, <1>3, <1>4

\* n rounded down to k digits.
Rounded(n, k) == (n \div ByteShift(k)) * ByteShift(k)

\* A number without its last digits is no more than the number.
LEMMA RoundsDown ==
  ASSUME NEW n \in Nat, NEW k \in Nat
  PROVE  Rounded(n, k) \in Nat /\ Rounded(n, k) <= n
<1>1. PICK s \in Nat \ {0} : s = ByteShift(k)
  BY ByteShiftFacts
<1>2. n \div s \in Int /\ (n \div s) * s <= n
  BY DivFacts
<1>3. 0 <= n \div s
  <2>1. 0 * s <= n /\ 0 \in Int
    OBVIOUS
  <2>. QED
    BY <2>1, DivBound
<1>. DEFINE d == n \div s
<1>. HIDE DEF d
<1>4. d \in Nat /\ d * s <= n
  BY <1>2, <1>3 DEF d
<1>5. d * s \in Nat
  BY <1>4
<1>. QED
  BY <1>1, <1>4, <1>5 DEF Rounded, d

\* No multiple of the power is between the rounded number and the number.
LEMMA RoundsLittle ==
  ASSUME NEW n \in Nat, NEW k \in Nat, NEW q \in Nat, q * ByteShift(k) <= n
  PROVE  q * ByteShift(k) <= Rounded(n, k)
<1>1. PICK s \in Nat \ {0} : s = ByteShift(k)
  BY ByteShiftFacts
<1>2. n \div s \in Int /\ q <= n \div s
  BY <1>1, DivFacts, DivBound
<1>. DEFINE d == n \div s
<1>. HIDE DEF d
<1>3. q * s <= d * s
  BY <1>2, MulMono DEF d
<1>. QED
  BY <1>1, <1>3 DEF Rounded, d

\* The value of a compact target is a mantissa with some bytes behind it.
LEMMA ValueOfCompact ==
  ASSUME NEW c \in Compact
  PROVE  /\ CompactToBig(c) \in Int
         /\ c.negative => CompactToBig(c) <= 0
         /\ ~c.negative => /\ CompactToBig(c) \in Nat
                           /\ \E m \in 0 .. SignBit - 1, j \in Nat :
                                CompactToBig(c) = m * ByteShift(j)
<1>1. c.exponent \in Nat /\ c.negative \in BOOLEAN /\ c.mantissa \in 0 .. SignBit - 1
  BY DEF Compact
<1>2. SignBit \in Nat
  BY SignBitFacts, ByteShiftFacts
<1>. DEFINE n == IF c.exponent <= 3 THEN c.mantissa \div ByteShift(3 - c.exponent)
                 ELSE c.mantissa * ByteShift(c.exponent - 3)
<1>3. \E m \in 0 .. SignBit - 1, j \in Nat : n = m * ByteShift(j)
  <2>1. CASE c.exponent <= 3
    <3>1. PICK s \in Nat \ {0} : s = ByteShift(3 - c.exponent)
      BY <1>1, <2>1, ByteShiftFacts
    <3>2. PICK d \in Int : d = c.mantissa \div s /\ d * s <= c.mantissa
      <4>1. c.mantissa \in Int
        BY <1>1, <1>2
      <4>. QED
        BY <4>1, DivFacts
    <3>3. 0 <= d
      <4>1. 0 * s <= c.mantissa /\ 0 \in Int /\ c.mantissa \in Int
        BY <1>1, <1>2
      <4>. QED
        BY <3>2, <4>1, DivBound
    <3>4. d <= d * s
      BY <3>3
    <3>5. d \in 0 .. SignBit - 1
      BY <1>1, <1>2, <3>2, <3>3, <3>4
    <3>6. n = d * ByteShift(0) /\ 0 \in Nat
      BY <2>1, <3>1, <3>2, ByteShiftFacts
    <3>. QED
      BY <3>5, <3>6
  <2>2. CASE ~ (c.exponent <= 3)
    <3>1. c.exponent - 3 \in Nat
      BY <1>1, <2>2
    <3>. QED
      BY <1>1, <2>2, <3>1
  <2>. QED
    BY <2>1, <2>2
<1>4. n \in Nat
  <2>. HIDE DEF n
  <2>1. PICK m \in Nat, s \in Nat : n = m * s
    BY <1>2, <1>3, ByteShiftFacts
  <2>. QED
    BY <2>1
<1>5. CompactToBig(c) = IF c.negative THEN -n ELSE n
  BY DEF CompactToBig
<1>. HIDE DEF n
<1>. QED
  BY <1>1, <1>3, <1>4, <1>5

-----------------------------------------------------------------------------
\* Multiplication by a positive number keeps the strict order.
LEMMA MulLess ==
  ASSUME NEW a \in Int, NEW b \in Int, NEW c \in Nat \ {0}, a < b
  PROVE  a * c < b * c
  OBVIOUS

\* The leading digits fit into a mantissa and its sign bit, but for those of a
\* negative number, which can be rounded up.
LEMMA LeadingDigits ==
  ASSUME NEW n \in Int, n # 0
  PROVE  /\ Leading(n) \in 0 .. 2 * SignBit
         /\ n > 0 => Leading(n) < 2 * SignBit
<1>. DEFINE d == Digits(n)
<1>1. /\ Abs(n) \in Nat \ {0} /\ d \in Nat \ {0} /\ Abs(n) < ByteShift(d)
      /\ n > 0 => Abs(n) = n
      /\ n < 0 => Abs(n) = -n
  BY DigitsOf DEF Abs
<1>. HIDE DEF d
<1>2. PICK s \in Nat \ {0} : s = ByteShift(3) /\ s = 2 * SignBit
  BY SignBitFacts, ByteShiftFacts
<1>3. CASE d <= 3
  <2>1. PICK e \in Nat : e = 3 - d /\ d + e = 3
    BY <1>1, <1>3
  <2>2. PICK p \in Nat \ {0}, q \in Nat \ {0} : p = ByteShift(d) /\ q = ByteShift(e)
    BY <1>1, ByteShiftFacts
  <2>3. s = p * q
    BY <1>1, <1>2, <2>1, <2>2, ByteShiftsAdd
  <2>4. Abs(n) * q < p * q /\ Abs(n) * q \in Nat
    BY <1>1, <2>2, MulLess
  <2>5. Leading(n) = Abs(n) * q
    BY <1>3, <2>1, <2>2 DEF Leading, d
  <2>. QED
    BY <1>2, <2>3, <2>4, <2>5
<1>4. CASE ~ (d <= 3)
  <2>1. PICK e \in Nat : e = d - 3 /\ d = 3 + e
    BY <1>1, <1>4
  <2>2. PICK p \in Nat \ {0}, q \in Nat \ {0} : p = ByteShift(d) /\ q = ByteShift(e)
    BY <1>1, ByteShiftFacts
  <2>3. p = s * q
    BY <1>2, <2>1, <2>2, ByteShiftsAdd
  <2>4. Leading(n) = Abs(n \div q) /\ n \div q \in Int
    BY <1>4, <2>1, <2>2, DivFacts DEF Leading, d
  <2>5. CASE n > 0
    <3>1. 0 * q <= n /\ n < ((s - 1) + 1) * q
      BY <1>1, <2>2, <2>3, <2>5
    <3>2. 0 <= n \div q /\ n \div q <= s - 1
      BY <3>1, DivBound
    <3>. QED
      BY <1>2, <2>4, <2>5, <3>2 DEF Abs
  <2>6. CASE n < 0
    <3>1. -n < s * q
      BY <1>1, <2>2, <2>3, <2>6
    <3>2. (-s) * q <= n /\ n < (0 + 1) * q
      BY <2>6, <3>1
    <3>3. -s <= n \div q /\ n \div q <= 0
      BY <3>2, DivBound
    <3>. QED
      BY <1>2, <2>4, <2>6, <3>3 DEF Abs
  <2>. QED
    BY <2>5, <2>6
<1>. QED
  BY <1>3, <1>4

\* A packed target is a compact one, of the given sign.
LEMMA PackedFacts ==
  ASSUME NEW e \in Nat, NEW m \in 0 .. 2 * SignBit, NEW negative \in BOOLEAN
  PROVE  /\ Packed(e, m, negative) \in Compact
         /\ Packed(e, m, negative).negative <=> negative
<1>1. SignBit \in Nat \ {0} /\ Base \in Nat /\ Base > 2
  BY SignBitFacts, ByteShiftFacts
<1>2. m \in Nat /\ m <= 2 * SignBit
  BY <1>1
<1>3. CASE m < SignBit
  BY <1>1, <1>2, <1>3 DEF Packed, Compact
<1>4. CASE m >= SignBit /\ m < 2 * SignBit
  <2>1. 2 * SignBit <= Base * SignBit
    BY <1>1
  <2>2. 0 * Base <= m /\ m < ((SignBit - 1) + 1) * Base
    BY <1>1, <1>2, <1>4, <2>1
  <2>3. m \div Base \in Int /\ 0 <= m \div Base /\ m \div Base <= SignBit - 1
    BY <1>1, <1>2, <2>2, DivFacts, DivBound
  <2>4. Packed(e, m, negative) =
          [exponent |-> e + 1, negative |-> negative, mantissa |-> m \div Base]
    BY <1>1, <1>2, <1>4 DEF Packed
  <2>5. m \div Base \in 0 .. SignBit - 1 /\ e + 1 \in Nat
    BY <1>1, <2>3
  <2>. QED
    BY <2>4, <2>5 DEF Compact
<1>5. CASE m = 2 * SignBit
  <2>1. (e + 1) - (e % 2) \in Nat
    OBVIOUS
  <2>2. Packed(e, m, negative) =
          [exponent |-> (e + 1) - (e % 2), negative |-> negative, mantissa |-> 0]
    BY <1>1, <1>5 DEF Packed
  <2>3. 0 \in 0 .. SignBit - 1
    BY <1>1
  <2>. QED
    BY <2>1, <2>2, <2>3 DEF Compact
<1>. QED
  BY <1>1, <1>2, <1>3, <1>4, <1>5

\* A number that is not positive gets a compact form with no positive value.
LEMMA BigToCompactType ==
  ASSUME NEW n \in Int
  PROVE  /\ BigToCompact(n) \in Compact
         /\ n <= 0 => CompactToBig(BigToCompact(n)) <= 0
<1>1. CASE n = 0
  <2>. DEFINE c == [exponent |-> 0, negative |-> FALSE, mantissa |-> 0]
  <2>1. SignBit \in Nat \ {0}
    BY SignBitFacts, ByteShiftFacts
  <2>2. c \in Compact
    BY <2>1 DEF Compact
  <2>3. BigToCompact(n) = c
    BY <1>1 DEF BigToCompact
  <2>4. CompactToBig(c) = 0
    <3>1. PICK s \in Nat \ {0} : s = ByteShift(3 - 0)
      BY ByteShiftFacts
    <3>2. 0 \div s = 0
      BY DivUnique
    <3>. QED
      BY <3>1, <3>2 DEF CompactToBig
  <2>. QED
    BY <2>2, <2>3, <2>4
<1>2. CASE n # 0
  <2>1. /\ BigToCompact(n) = Packed(Digits(n), Leading(n), n < 0)
        /\ Digits(n) \in Nat /\ Leading(n) \in 0 .. 2 * SignBit /\ (n < 0) \in BOOLEAN
    BY <1>2, DigitsOf, LeadingDigits DEF BigToCompact
  <2>2. BigToCompact(n) \in Compact /\ (BigToCompact(n).negative <=> n < 0)
    BY <2>1, PackedFacts
  <2>3. n <= 0 => BigToCompact(n).negative
    BY <1>2, <2>2
  <2>. QED
    BY <2>2, <2>3, ValueOfCompact
<1>. QED
  BY <1>1, <1>2

-----------------------------------------------------------------------------
\* A positive number is packed without the sign bit.
LEMMA PositiveIsNotNegative ==
  ASSUME NEW n \in Nat \ {0}
  PROVE  BigToCompact(n) = Packed(Digits(n), Leading(n), FALSE)
<1>1. n # 0 /\ ~ (n < 0)
  OBVIOUS
<1>2. (n < 0) = FALSE
  BY <1>1
<1>3. BigToCompact(n) = Packed(Digits(n), Leading(n), n < 0)
  BY <1>1 DEF BigToCompact
<1>. QED
  BY <1>2, <1>3, Zenon

\* The value of the digits of a number, with the mantissa as it is, and moved into
\* the next exponent.
LEMMA ValueAsIs ==
  ASSUME NEW n \in Nat \ {0}, Leading(n) < SignBit
  PROVE  \E k \in Nat : /\ CompactToBig(BigToCompact(n)) = Rounded(n, k)
                        /\ k > 0 => SignBit * ByteShift(k - 1) <= n
<1>. DEFINE d == Digits(n)
            m == Leading(n)
<1>1. /\ Abs(n) = n /\ d \in Nat \ {0} /\ ByteShift(d - 1) <= n
      /\ m \in Nat
  <2>1. SignBit \in Nat
    BY SignBitFacts, ByteShiftFacts
  <2>. QED
    BY <2>1, DigitsOf, LeadingDigits DEF Abs
<1>2. BigToCompact(n) = [exponent |-> d, negative |-> FALSE, mantissa |-> m]
  <2>1. BigToCompact(n) = Packed(d, m, FALSE)
    BY PositiveIsNotNegative
  <2>. HIDE DEF d, m
  <2>. QED
    BY <2>1 DEF Packed, m
<1>3. CASE d <= 3
  <2>1. 3 - d \in Nat
    BY <1>1, <1>3
  <2>2. PICK s \in Nat \ {0} : s = ByteShift(3 - d)
    BY <2>1, ByteShiftFacts
  <2>3. m = n * s
    BY <1>1, <1>3, <2>2 DEF Leading
  <2>4. (n * s) \div s = n
    <3>1. n * s <= n * s /\ n * s < (n + 1) * s /\ n * s \in Int
      OBVIOUS
    <3>. QED
      BY <3>1, DivUnique
  <2>5. CompactToBig(BigToCompact(n)) = m \div s
    <3>. HIDE DEF d, m
    <3>. QED
      BY <1>2, <1>3, <2>2 DEF CompactToBig
  <2>6. Rounded(n, 0) = n
    <3>1. n \div 1 = n
      OBVIOUS
    <3>. QED
      BY <3>1, ByteShiftFacts DEF Rounded
  <2>7. 0 \in Nat /\ CompactToBig(BigToCompact(n)) = Rounded(n, 0)
    BY <2>3, <2>4, <2>5, <2>6
  <2>. QED
    BY <2>7
<1>4. CASE ~ (d <= 3)
  <2>1. PICK k \in Nat : k = d - 3 /\ k > 0 /\ d - 1 = 3 + (k - 1) /\ k - 1 \in Nat
    BY <1>1, <1>4
  <2>2. PICK s \in Nat \ {0} : s = ByteShift(k)
    BY ByteShiftFacts
  <2>3. m = n \div s
    <3>1. m = Abs(n \div s)
      BY <1>4, <2>1, <2>2 DEF Leading
    <3>2. 0 * s <= n /\ n \div s \in Int
      BY DivFacts
    <3>3. 0 <= n \div s
      BY <3>2, DivBound
    <3>. QED
      BY <3>1, <3>2, <3>3 DEF Abs
  <2>4. CompactToBig(BigToCompact(n)) = m * s
    <3>. HIDE DEF d, m
    <3>. QED
      BY <1>2, <1>4, <2>1, <2>2 DEF CompactToBig
  <2>5. SignBit * ByteShift(k - 1) <= n
    <3>1. PICK p \in Nat : p = ByteShift(k - 1)
      BY <2>1, ByteShiftFacts
    <3>2. ByteShift(d - 1) = ByteShift(3) * p
      BY <2>1, <3>1, ByteShiftsAdd
    <3>3. SignBit \in Nat /\ ByteShift(3) = 2 * SignBit
      BY SignBitFacts, ByteShiftFacts
    <3>4. SignBit * p <= (2 * SignBit) * p /\ SignBit * p \in Nat
      BY <3>3
    <3>. QED
      BY <1>1, <3>1, <3>2, <3>3, <3>4
  <2>6. CompactToBig(BigToCompact(n)) = Rounded(n, k)
    BY <2>2, <2>3, <2>4 DEF Rounded
  <2>. QED
    BY <2>5, <2>6
<1>. QED
  BY <1>3, <1>4

\* The value when the mantissa had to move into the next exponent.
LEMMA ValueMoved ==
  ASSUME NEW n \in Nat \ {0}, ~ (Leading(n) < SignBit)
  PROVE  \E k \in Nat : /\ CompactToBig(BigToCompact(n)) = Rounded(n, k)
                        /\ k > 0 => SignBit * ByteShift(k - 1) <= n
<1>. DEFINE d == Digits(n)
            m == Leading(n)
            e == d + 1
<1>1. /\ Abs(n) = n /\ d \in Nat \ {0} /\ SignBit \in Nat
      /\ m \in Nat /\ m < 2 * SignBit /\ SignBit <= m
  <2>1. SignBit \in Nat
    BY SignBitFacts, ByteShiftFacts
  <2>. QED
    BY <2>1, DigitsOf, LeadingDigits DEF Abs
<1>2. BigToCompact(n) = [exponent |-> e, negative |-> FALSE, mantissa |-> m \div Base]
  <2>1. BigToCompact(n) = Packed(d, m, FALSE)
    BY PositiveIsNotNegative
  <2>. HIDE DEF d, m
  <2>. QED
    BY <1>1, <2>1 DEF Packed
<1>3. Base \in Nat \ {0} /\ ByteShift(0) = 1 /\ ByteShift(1) = Base
  BY ByteShiftFacts, SignBitFacts
<1>4. CASE d < 3
  <2>1. PICK i \in Nat : i = 2 - d /\ 3 - d = i + 1 /\ 3 - e = i
    BY <1>1, <1>4
  <2>2. PICK s \in Nat \ {0} : s = ByteShift(i) /\ ByteShift(3 - d) = Base * s
    BY <2>1, ByteShiftFacts
  <2>3. m = n * (Base * s)
    BY <1>1, <1>4, <2>2 DEF Leading
  <2>4. CompactToBig(BigToCompact(n)) = (m \div Base) \div s
    <3>1. e <= 3
      BY <1>1, <1>4
    <3>. HIDE DEF d, m, e
    <3>. QED
      BY <1>2, <2>1, <2>2, <3>1 DEF CompactToBig
  <2>5. PICK p \in Nat \ {0} : p = Base * s /\ p = s * Base
    BY <1>3
  <2>6. (m \div Base) \div s = m \div p
    BY <1>1, <1>3, <2>5, DivDiv
  <2>7. m \div p = n
    <3>1. n * p <= m /\ m < (n + 1) * p
      BY <2>3, <2>5
    <3>. QED
      BY <1>1, <3>1, DivUnique
  <2>8. Rounded(n, 0) = n
    <3>1. n \div 1 = n
      OBVIOUS
    <3>. QED
      BY <1>3, <3>1 DEF Rounded
  <2>9. 0 \in Nat /\ CompactToBig(BigToCompact(n)) = Rounded(n, 0)
    BY <2>4, <2>6, <2>7, <2>8
  <2>. QED
    BY <2>9
<1>5. CASE ~ (d < 3)
  <2>1. PICK i \in Nat : i = d - 3
    BY <1>1, <1>5
  <2>2. PICK s \in Nat \ {0} : s = ByteShift(i) /\ ByteShift(i + 1) = Base * s
    BY ByteShiftFacts
  <2>3. m = n \div s
    <3>1. 0 * s <= n /\ n \div s \in Int
      BY DivFacts
    <3>2. 0 <= n \div s
      BY <3>1, DivBound
    <3>3. CASE d = 3
      <4>1. s = 1 /\ 3 - d = 0
        BY <1>3, <2>1, <2>2, <3>3
      <4>2. m = n * 1
        BY <1>1, <1>3, <3>3, <4>1 DEF Leading
      <4>. QED
        BY <4>1, <4>2
    <3>4. CASE ~ (d <= 3)
      <4>1. m = Abs(n \div s)
        BY <2>1, <2>2, <3>4 DEF Leading
      <4>. QED
        BY <3>1, <3>2, <4>1 DEF Abs
    <3>. QED
      BY <1>1, <1>5, <3>3, <3>4
  <2>4. CompactToBig(BigToCompact(n)) = (m \div Base) * ByteShift(i + 1)
    <3>1. ~ (e <= 3) /\ e - 3 = i + 1
      BY <1>1, <1>5, <2>1
    <3>. HIDE DEF d, m, e
    <3>. QED
      BY <1>2, <3>1 DEF CompactToBig
  <2>5. m \div Base = n \div (Base * s)
    BY <1>3, <2>3, DivDiv
  <2>6. SignBit * s <= n
    <3>1. SignBit * s <= m * s
      BY <1>1, MulMono
    <3>2. m * s <= n /\ m * s \in Nat /\ SignBit * s \in Nat
      BY <1>1, <2>3, DivFacts
    <3>. QED
      BY <3>1, <3>2
  <2>7. i + 1 \in Nat /\ (i + 1) - 1 = i
    OBVIOUS
  <2>8. CompactToBig(BigToCompact(n)) = Rounded(n, i + 1)
    BY <2>2, <2>4, <2>5 DEF Rounded
  <2>. QED
    BY <2>2, <2>6, <2>7, <2>8
<1>. QED
  BY <1>4, <1>5

(***************************************************************************)
(* Coding a target as a compact number rounds it down, and no further than *)
(* to the largest number a compact target can state: a target that came    *)
(* from a compact number is kept.                                          *)
(***************************************************************************)
LEMMA CompactRounding ==
  ASSUME NEW n \in Nat \ {0}
  PROVE  /\ CompactToBig(BigToCompact(n)) <= n
         /\ \A c \in Compact :
              CompactToBig(c) > 0 /\ CompactToBig(c) <= n
                => CompactToBig(c) <= CompactToBig(BigToCompact(n))
<1>1. PICK k \in Nat : /\ CompactToBig(BigToCompact(n)) = Rounded(n, k)
                       /\ k > 0 => SignBit * ByteShift(k - 1) <= n
  BY ValueAsIs, ValueMoved
<1>2. Rounded(n, k) \in Nat /\ Rounded(n, k) <= n
  BY RoundsDown
<1>3. ASSUME NEW c \in Compact, CompactToBig(c) > 0, CompactToBig(c) <= n
      PROVE  CompactToBig(c) <= Rounded(n, k)
  <2>1. PICK m \in 0 .. SignBit - 1, j \in Nat : CompactToBig(c) = m * ByteShift(j)
    <3>1. CompactToBig(c) \in Int /\ (c.negative => CompactToBig(c) <= 0)
      BY ValueOfCompact
    <3>2. ~c.negative
      BY <1>3, <3>1
    <3>. QED
      BY <3>2, ValueOfCompact
  <2>2. SignBit \in Nat /\ m \in Nat /\ m < SignBit
    <3>1. SignBit \in Nat
      BY SignBitFacts, ByteShiftFacts
    <3>. QED
      BY <3>1
  <2>3. CASE k <= j
    <3>1. PICK q \in Nat : m * ByteShift(j) = q * ByteShift(k)
      BY <2>2, <2>3, CoarseIsFine
    <3>2. q * ByteShift(k) <= n
      BY <1>3, <2>1, <3>1
    <3>. QED
      BY <2>1, <3>1, <3>2, RoundsLittle
  <2>4. CASE ~ (k <= j)
    <3>1. k > 0 /\ k - 1 \in Nat /\ j <= k - 1 /\ (k - 1) + 1 = k
      BY <2>4
    <3>2. PICK a \in Nat, b \in Nat : a = ByteShift(j) /\ b = ByteShift(k - 1) /\ a <= b
      BY <3>1, ByteShiftFacts, ByteShiftGrows
    <3>3. m * a <= m * b /\ m * b <= SignBit * b
      BY <2>2, <3>2
    <3>4. \E q \in Nat : SignBit * b = q * ByteShift(k)
      <4>1. PICK h \in Nat \ {0} : SignBit = (h * Base) * Base
        BY SignBitFacts
      <4>2. ByteShift(k) = Base * b /\ Base \in Nat
        BY <3>1, <3>2, ByteShiftFacts
      <4>3. ((h * Base) * Base) * b = (h * Base) * (Base * b) /\ h * Base \in Nat
        BY <4>2
      <4>. QED
        BY <4>1, <4>2, <4>3
    <3>5. PICK q \in Nat : SignBit * b = q * ByteShift(k)
      BY <3>4
    <3>6. q * ByteShift(k) <= n
      BY <1>1, <3>1, <3>2, <3>5
    <3>7. q * ByteShift(k) <= Rounded(n, k)
      BY <3>6, RoundsLittle
    <3>8. m * a \in Nat /\ m * b \in Nat /\ SignBit * b \in Nat
      BY <2>2
    <3>. QED
      BY <1>2, <2>1, <3>2, <3>3, <3>5, <3>7, <3>8
  <2>. QED
    BY <2>3, <2>4
<1>. QED
  BY <1>1, <1>2, <1>3

-----------------------------------------------------------------------------
\* The new target is no smaller for blocks that came slowly enough, and no larger
\* for those that came fast enough.
LEMMA RetargetFacts ==
  ASSUME NEW t \in Nat \ {0}, NEW spacing \in Nat \ {0}, NEW actual \in Int,
         spacing <= TargetTimespan
  PROVE  /\ Retarget(t, spacing, actual) \in Int
         /\ actual >= spacing => Retarget(t, spacing, actual) >= t
         /\ actual <= spacing => Retarget(t, spacing, actual) <= t
<1>. DEFINE interval == TargetTimespan \div spacing
<1>1. interval \in Int /\ 1 <= interval
  <2>1. TargetTimespan \in Nat /\ 1 * spacing <= TargetTimespan
    BY TargetAssumption
  <2>. QED
    BY <2>1, DivFacts, DivBound
<1>. DEFINE p == (interval + 1) * spacing
            x == (interval - 1) * spacing + 2 * actual
<1>2. Retarget(t, spacing, actual) = (t * x) \div p
  BY DEF Retarget
<1>. HIDE DEF interval
<1>3. p \in Nat \ {0} /\ x \in Int
  <2>1. interval + 1 \in Nat \ {0}
    BY <1>1
  <2>. QED
    BY <1>1, <2>1
<1>4. /\ actual >= spacing => p <= x
      /\ actual <= spacing => x <= p
  BY <1>1
<1>. HIDE DEF p, x
<1>5. t * x \in Int
  BY <1>3
<1>6. ASSUME actual >= spacing
      PROVE  (t * x) \div p >= t
  <2>1. t * p <= t * x
    <3>1. p * t <= x * t
      BY <1>3, <1>4, <1>6, MulMono
    <3>. QED
      BY <1>3, <3>1
  <2>2. t <= (t * x) \div p /\ (t * x) \div p \in Int
    BY <1>3, <1>5, <2>1, DivBound, DivFacts
  <2>. QED
    BY <2>2
<1>7. ASSUME actual <= spacing
      PROVE  (t * x) \div p <= t
  <2>1. x * t <= p * t
    BY <1>3, <1>4, <1>7, MulMono
  <2>2. t * x < (t + 1) * p
    BY <1>3, <2>1
  <2>. QED
    BY <1>3, <1>5, <2>2, DivBound
<1>. QED
  BY <1>2, <1>3, <1>5, <1>6, <1>7, DivFacts

\* The smaller one of two numbers.
LEMMA MinOfTwo ==
  ASSUME NEW a \in Int, NEW b \in Int
  PROVE  Min({a, b}) = IF a <= b THEN a ELSE b
<1>1. \E x \in {a, b} : \A y \in {a, b} : x <= y
  OBVIOUS
<1>2. Min({a, b}) \in {a, b} /\ \A y \in {a, b} : Min({a, b}) <= y
  BY <1>1 DEF Min
<1>. QED
  BY <1>2

\* The last block of a kind is in the chain.
LEMMA LastOfKindFacts ==
  ASSUME NEW b \in Blocks, NEW proofOfStake
  PROVE  LastOfKind(b, proofOfStake) \in Ancestry[b]
<1>. DEFINE S == {c \in Ancestry[b] : c = Genesis \/ IsProofOfStake(c) = proofOfStake}
<1>1. S \in SUBSET Ancestry[b] /\ Genesis \in S
  BY ChainsAreChains DEF ChainFacts
<1>2. S # {}
  BY <1>1
<1>. HIDE DEF S
<1>3. Highest(S) \in S
  BY <1>1, <1>2, HasHighest
<1>. QED
  BY <1>1, <1>3 DEF LastOfKind, S

\* The spacing blocks are planned to have is within the timespan of a retarget.
LEMMA SpacingFacts ==
  ASSUME NEW b \in Blocks, NEW prev \in Ancestry[b], NEW proofOfStake
  PROVE  /\ TargetSpacing(b, prev, proofOfStake) \in Nat \ {0}
         /\ TargetSpacing(b, prev, proofOfStake) <= TargetTimespan
<1>1. /\ StakeTargetSpacing \in Nat \ {0} /\ TargetTimespan \in Nat
      /\ TargetSpacingWorkMax \in Nat
      /\ StakeTargetSpacing <= TargetSpacingWorkMax /\ TargetSpacingWorkMax <= TargetTimespan
  BY TargetAssumption
<1>2. PICK k \in Nat \ {0} : k = 1 + Height[b] - Height[prev]
  <2>1. /\ Height[b] \in Nat /\ Height[prev] \in Nat /\ Height[prev] <= Height[b]
    BY TreeAssumption, ChainMembers, ChainsAreChains DEF ChainFacts
  <2>. QED
    BY <2>1
<1>3. PICK y \in Nat \ {0} : y = StakeTargetSpacing * k
  BY <1>1
<1>4. Min({TargetSpacingWorkMax, y}) \in Nat \ {0} /\ Min({TargetSpacingWorkMax, y}) <= TargetTimespan
  BY <1>1, MinOfTwo
<1>. QED
  BY <1>1, <1>2, <1>3, <1>4 DEF TargetSpacing

\* The targets of the known blocks are positive and within the limit.
BitsInv ==
  /\ bits = [b \in Blocks |-> bits[b]]
  /\ \A b \in Blocks : /\ bits[b] \in Compact
                       /\ 0 < CompactToBig(bits[b])
                       /\ CompactToBig(bits[b]) <= PowLimit

(***************************************************************************)
(* The difficulty a block must state: within the limit, and with the       *)
(* spacing of the last two blocks of its kind.                             *)
(***************************************************************************)
LEMMA RequiredBitsFacts ==
  ASSUME BitsInv, time \in [Blocks -> Nat], NEW b \in Blocks, NEW proofOfStake
  PROVE  LET prev == LastOfKind(b, proofOfStake)
             prevPrev == LastOfKind(Parent[prev], proofOfStake)
             actual == time[prev] - time[prevPrev]
             planned == TargetSpacing(b, prev, proofOfStake)
             old == CompactToBig(bits[prev])
             new == CompactToBig(RequiredBits(b, proofOfStake))
         IN  /\ RequiredBits(b, proofOfStake) \in Compact
             /\ new <= PowLimit
             /\ prev # Genesis /\ prevPrev # Genesis =>
                  /\ actual >= planned => new >= Min({old, PowLimit})
                  /\ actual <= planned => new <= old
<1>. DEFINE prev == LastOfKind(b, proofOfStake)
            prevPrev == LastOfKind(Parent[prev], proofOfStake)
            actual == time[prev] - time[prevPrev]
            planned == TargetSpacing(b, prev, proofOfStake)
            old == CompactToBig(bits[prev])
            target == Retarget(old, planned, actual)
            limited == Min({target, PowLimit})
            new == CompactToBig(RequiredBits(b, proofOfStake))
<1>1. PowLimit \in Nat \ {0} /\ CompactToBig(InitialBits) <= PowLimit /\ InitialBits \in Compact
  BY TargetAssumption
<1>2. CASE prev = Genesis \/ prevPrev = Genesis
  <2>1. RequiredBits(b, proofOfStake) = InitialBits
    BY <1>2 DEF RequiredBits
  <2>. QED
    BY <1>1, <1>2, <2>1
<1>3. CASE ~ (prev = Genesis \/ prevPrev = Genesis)
  <2>1. RequiredBits(b, proofOfStake) = BigToCompact(limited)
    BY <1>3 DEF RequiredBits
  <2>2. prev \in Blocks \ {Genesis} /\ prev \in Ancestry[b]
    BY <1>3, LastOfKindFacts, ChainMembers
  <2>3. prevPrev \in Blocks
    <3>1. Parent[prev] \in Blocks
      BY <2>2, TreeAssumption
    <3>. QED
      BY <3>1, LastOfKindFacts, ChainMembers
  <2>. HIDE DEF prev, prevPrev
  <2>4. actual \in Int
    BY <2>2, <2>3
  <2>5. planned \in Nat \ {0} /\ planned <= TargetTimespan
    BY <2>2, SpacingFacts
  <2>6. /\ old \in Nat \ {0} /\ old <= PowLimit /\ bits[prev] \in Compact
    <3>1. bits[prev] \in Compact /\ 0 < old /\ old <= PowLimit
      BY <2>2 DEF BitsInv
    <3>2. old \in Int
      BY <3>1, ValueOfCompact
    <3>. QED
      BY <3>1, <3>2
  <2>. HIDE DEF actual, planned
  <2>7. /\ target \in Int
        /\ actual >= planned => target >= old
        /\ actual <= planned => target <= old
    <3>. HIDE DEF old
    <3>. QED
      BY <2>4, <2>5, <2>6, RetargetFacts
  <2>. HIDE DEF target
  <2>8. /\ limited \in Int /\ limited <= target /\ limited <= PowLimit
        /\ limited = target \/ limited = PowLimit
    BY <1>1, <2>7, MinOfTwo
  <2>. HIDE DEF limited
  <2>9. BigToCompact(limited) \in Compact /\ new \in Int
    BY <2>1, <2>8, BigToCompactType, ValueOfCompact
  <2>10. limited > 0 => new <= limited
    BY <2>1, <2>8, CompactRounding
  <2>11. limited <= 0 => new <= 0
    BY <2>1, <2>8, BigToCompactType
  <2>12. new <= PowLimit
    BY <1>1, <2>8, <2>9, <2>10, <2>11
  <2>13. ASSUME actual >= planned
         PROVE  new >= Min({old, PowLimit})
    <3>1. old <= limited /\ limited \in Nat \ {0}
      BY <1>1, <2>6, <2>7, <2>8, <2>13
    <3>2. CompactToBig(bits[prev]) <= CompactToBig(BigToCompact(limited))
      BY <2>6, <3>1, CompactRounding
    <3>3. Min({old, PowLimit}) = old
      BY <1>1, <2>6, MinOfTwo
    <3>. QED
      BY <2>1, <2>6, <2>9, <3>2, <3>3
  <2>14. ASSUME actual <= planned
         PROVE  new <= old
    <3>1. limited <= old
      BY <2>6, <2>7, <2>8, <2>14
    <3>. QED
      BY <2>6, <2>8, <2>9, <2>10, <2>11, <3>1
  <2>. QED
    BY <2>1, <2>9, <2>12, <2>13, <2>14 DEF actual, planned, prev, prevPrev
<1>. QED
  BY <1>2, <1>3

-----------------------------------------------------------------------------
\* A modifier is within its bits, one for each section.
LEMMA ModifierRange ==
  ASSUME NEW blocks \in Seq(Blocks), Len(blocks) <= Len(Sections)
  PROVE  ModifierOf(blocks) \in Modifiers
<1>. DEFINE F == [k \in 1 .. Len(blocks) |-> EntropyBit[blocks[k]] * Bit(k - 1)]
            S == {n \in Nat : n <= Len(blocks) => SumOn(F, 1 .. n) \in 0 .. Bit(n) - 1}
<1>1. Len(blocks) \in Nat /\ Len(Sections) \in Nat
  BY KernelAssumption
<1>2. ASSUME NEW k \in 1 .. Len(blocks)
      PROVE  F[k] \in {0, Bit(k - 1)} /\ F[k] \in Nat
  <2>1. k - 1 \in Nat /\ blocks[k] \in Blocks
    BY <1>1
  <2>2. Bit(k - 1) \in Nat /\ EntropyBit[blocks[k]] \in {0, 1}
    BY <2>1, BitFacts, KernelAssumption
  <2>. QED
    BY <2>2
<1>3. ModifierOf(blocks) = SumOn(F, 1 .. Len(blocks))
  BY DEF ModifierOf, SumFunction, SumFunctionOnSet, FoldFunctionOnSet, SumOn, MapThenSumSet
<1>. HIDE DEF F
<1>4. 0 \in S
  <2>1. 1 .. 0 = {}
    OBVIOUS
  <2>2. SumOn(F, 1 .. 0) = 0
    <3>1. SumOn(F, {}) = 0
      BY FS_EmptySet, SumUnfolds
    <3>. QED
      BY <2>1, <3>1
  <2>3. 0 \in 0 .. Bit(0) - 1
    BY BitFacts
  <2>4. SumOn(F, 1 .. 0) \in 0 .. Bit(0) - 1
    BY <2>2, <2>3
  <2>. QED
    BY <2>4
<1>5. ASSUME NEW n \in Nat, n \in S
      PROVE  n + 1 \in S
  <2>1. SUFFICES ASSUME n + 1 <= Len(blocks)
                 PROVE  SumOn(F, 1 .. n + 1) \in 0 .. Bit(n + 1) - 1
    OBVIOUS
  <2>2. SumOn(F, 1 .. n) \in 0 .. Bit(n) - 1
    BY <1>1, <1>5, <2>1
  <2>3. PICK T : T = 1 .. n + 1 /\ IsFiniteSet(T)
    BY FS_Interval
  <2>4. n + 1 \in T /\ T \ {n + 1} = 1 .. n /\ \A k \in T : F[k] \in Int
    BY <1>1, <1>2, <2>1, <2>3
  <2>5. SumOn(F, T) = F[n + 1] + SumOn(F, T \ {n + 1})
    BY <2>3, <2>4, SumTakesAny
  <2>6. F[n + 1] \in {0, Bit(n)}
    <3>1. n + 1 \in 1 .. Len(blocks) /\ (n + 1) - 1 = n
      BY <1>1, <2>1
    <3>. QED
      BY <1>2, <3>1
  <2>7. Bit(n) \in Nat /\ Bit(n + 1) = 2 * Bit(n)
    BY BitFacts
  <2>8. PICK s \in Nat, a \in Nat, t \in {SumOn(F, 1 .. n + 1)} :
          s = SumOn(F, 1 .. n) /\ s <= Bit(n) - 1 /\ a = F[n + 1] /\ a \in {0, Bit(n)}
    <3>1. /\ SumOn(F, 1 .. n) \in Nat /\ SumOn(F, 1 .. n) <= Bit(n) - 1
          /\ F[n + 1] \in Nat
      BY <2>2, <2>6, <2>7
    <3>. HIDE DEF F
    <3>. QED
      BY <2>6, <3>1
  <2>9. t = a + s
    BY <2>3, <2>4, <2>5, <2>8
  <2>10. PICK d \in Nat : d = Bit(n)
    BY <2>7
  <2>11. t \in 0 .. 2 * d - 1
    <3>1. s <= d - 1 /\ (a = 0 \/ a = d)
      BY <2>8, <2>10
    <3>. HIDE DEF F
    <3>. QED
      BY <2>9, <3>1
  <2>. QED
    BY <2>7, <2>8, <2>10, <2>11
<1>6. Nat \subseteq S
  <2>. HIDE DEF S
  <2>. QED
    BY <1>4, <1>5, NaturalInduction
<1>7. SumOn(F, 1 .. Len(blocks)) \in 0 .. Bit(Len(blocks)) - 1
  BY <1>1, <1>6
<1>8. Bit(Len(blocks)) <= Bit(Len(Sections))
  <2>. DEFINE U == {n \in Nat : Bit(Len(blocks)) <= Bit(Len(blocks) + n)}
  <2>1. 0 \in U
    BY <1>1, BitFacts
  <2>2. ASSUME NEW n \in Nat, n \in U
        PROVE  n + 1 \in U
    <3>1. PICK a \in Nat : a = Bit(Len(blocks))
      BY <1>1, BitFacts
    <3>2. PICK b \in Nat : b = Bit(Len(blocks) + n) /\ Bit((Len(blocks) + n) + 1) = 2 * b
      <4>1. Len(blocks) + n \in Nat
        BY <1>1
      <4>. QED
        BY <4>1, BitFacts
    <3>3. (Len(blocks) + n) + 1 = Len(blocks) + (n + 1) /\ a <= b
      BY <1>1, <2>2, <3>1, <3>2
    <3>. QED
      BY <3>1, <3>2, <3>3
  <2>3. Nat \subseteq U
    <3>. HIDE DEF U
    <3>. QED
      BY <2>1, <2>2, NaturalInduction
  <2>4. Len(Sections) - Len(blocks) \in Nat
        /\ Len(blocks) + (Len(Sections) - Len(blocks)) = Len(Sections)
    BY <1>1
  <2>5. Len(Sections) - Len(blocks) \in U
    BY <2>3, <2>4
  <2>. QED
    BY <2>4, <2>5
<1>9. Bit(Len(blocks)) \in Nat /\ Bit(Len(Sections)) \in Nat
  BY <1>1, BitFacts
<1>. QED
  BY <1>3, <1>7, <1>8, <1>9 DEF Modifiers

\* Of some blocks, one comes first in the order of blockTimeHashSorter.
LEMMA FirstOfFacts ==
  ASSUME time \in [Blocks -> Nat], NEW S \in SUBSET Blocks, S # {}
  PROVE  FirstOf(S) \in S
<1>. DEFINE Times0 == {time[c] : c \in S}
<1>1. Times0 \in SUBSET Nat /\ Times0 # {}
  OBVIOUS
<1>2. PICK t \in Times0 : \A i \in Times0 : t <= i
  <2>. HIDE DEF Times0
  <2>. QED
    BY <1>1, LeastElement
<1>. DEFINE Hashes == {BlockHash[c] : c \in {d \in S : time[d] = t}}
<1>3. Hashes \in SUBSET Nat /\ Hashes # {}
  <2>1. \A c \in S : BlockHash[c] \in Nat
    BY KernelAssumption
  <2>2. \E c \in S : time[c] = t
    BY <1>2
  <2>. QED
    BY <2>1, <2>2
<1>4. PICK h \in Hashes : \A i \in Hashes : h <= i
  <2>. HIDE DEF Hashes
  <2>. QED
    BY <1>3, LeastElement
<1>5. PICK c \in S : time[c] = t /\ BlockHash[c] = h
  OBVIOUS
<1>6. ASSUME NEW d \in S \ {c}
      PROVE  SortsBefore(c, d)
  <2>1. time[d] \in Nat /\ time[c] \in Nat /\ time[c] <= time[d]
    BY <1>2, <1>5
  <2>2. BlockHash[d] \in Nat /\ BlockHash[c] \in Nat /\ BlockHash[d] # BlockHash[c]
    BY <1>5, <1>6, KernelAssumption
  <2>3. time[d] = time[c] => BlockHash[c] <= BlockHash[d]
    BY <1>4, <1>5
  <2>. QED
    BY <2>1, <2>2, <2>3 DEF SortsBefore
<1>7. \E x \in S : \A d \in S \ {x} : SortsBefore(x, d)
  BY <1>5, <1>6
<1>. QED
  BY <1>7 DEF FirstOf

\* A round selects one of the candidates that are left.
LEMMA SelectBlockFacts ==
  ASSUME time \in [Blocks -> Nat], NEW S \in SUBSET Blocks, S # {}, NEW stop,
         NEW hash, \A c \in S : hash[c] \in Nat
  PROVE  SelectBlock(S, stop, hash) \in S
<1>. DEFINE early == {c \in S : time[c] <= stop}
            best == {c \in early : \A d \in early : hash[c] <= hash[d]}
<1>1. CASE early = {}
  BY <1>1, FirstOfFacts DEF SelectBlock
<1>2. CASE early # {}
  <2>. DEFINE H == {hash[c] : c \in early}
  <2>1. H \in SUBSET Nat /\ H # {}
    BY <1>2
  <2>2. PICK h \in H : \A i \in H : h <= i
    <3>. HIDE DEF H
    <3>. QED
      BY <2>1, LeastElement
  <2>3. best # {} /\ best \in SUBSET S /\ best \in SUBSET Blocks
    BY <2>2
  <2>4. SelectBlock(S, stop, hash) = FirstOf(best)
    BY <1>2 DEF SelectBlock
  <2>. HIDE DEF best
  <2>5. FirstOf(best) \in best
    BY <2>3, FirstOfFacts
  <2>. QED
    BY <2>3, <2>4, <2>5
<1>. QED
  BY <1>1, <1>2

\* The lowest member of some blocks of one chain is one of them.
LEMMA HasLowest ==
  ASSUME NEW b \in Blocks, NEW S \in SUBSET Ancestry[b], S # {}
  PROVE  Lowest(S) \in S
<1>. DEFINE Hs == {Height[c] : c \in S}
<1>1. Hs \in SUBSET Nat /\ Hs # {}
  BY TreeAssumption
<1>2. PICK h \in Hs : \A i \in Hs : h <= i
  <2>. HIDE DEF Hs
  <2>. QED
    BY <1>1, LeastElement
<1>3. \E c \in S : \A d \in S : Height[c] <= Height[d]
  BY <1>2
<1>. QED
  BY <1>3 DEF Lowest

\* The blocks selected at b after round k, s being those selected before.
AfterRound(b, hash, s, k) ==
  Append(s, SelectBlock(Candidates(b) \ Range(s), SelectionStart(b) + SectionsUpTo(k), hash))

\* g is a solution of the recursion of the rounds at b, up to n.
Rounds(b, hash, g, n) ==
  g = [k \in 0 .. n |-> IF k = 0 THEN << >> ELSE AfterRound(b, hash, g[k - 1], k)]

\* The rounds can be played up to any number.
LEMMA HaveRounds ==
  ASSUME NEW b, NEW hash
  PROVE  \A n \in Nat : \E g : Rounds(b, hash, g, n)
<1>. DEFINE S == {n \in Nat : \E g : Rounds(b, hash, g, n)}
<1>1. 0 \in S
  <2>1. Rounds(b, hash, [k \in 0 .. 0 |-> << >>], 0)
    BY DEF Rounds
  <2>. QED
    BY <2>1
<1>2. ASSUME NEW n \in Nat, n \in S PROVE n + 1 \in S
  <2>1. PICK g : Rounds(b, hash, g, n)
    BY <1>2
  <2>. DEFINE q == [k \in 0 .. n + 1 |->
                      IF k = 0 THEN << >> ELSE AfterRound(b, hash, g[k - 1], k)]
  <2>2. ASSUME NEW k \in 0 .. n PROVE q[k] = g[k]
    BY <2>1 DEF Rounds
  <2>3. ASSUME NEW k \in 0 .. n + 1, k # 0 PROVE k - 1 \in 0 .. n
    BY <2>3
  <2>4. Rounds(b, hash, q, n + 1)
    BY <2>2, <2>3 DEF Rounds
  <2>. QED
    BY <2>4
<1>. HIDE DEF S
<1>3. Nat \subseteq S
  BY <1>1, <1>2, NaturalInduction
<1>. QED
  BY <1>3 DEF S

\* A sequence shorter than a set leaves one of its members out.
LEMMA OneIsLeft ==
  ASSUME NEW T, IsFiniteSet(T), NEW s \in Seq(T), Len(s) < Cardinality(T)
  PROVE  T \ Range(s) # {}
<1>1. SUFFICES ASSUME T \subseteq Range(s) PROVE FALSE
  OBVIOUS
<1>2. Range(s) = {s[i] : i \in 1 .. Len(s)} /\ s \in [1 .. Len(s) -> T] /\ Len(s) \in Nat
  BY DEF Range
<1>3. s \in Surjection(1 .. Len(s), T)
  BY <1>1, <1>2 DEF Surjection
<1>4. IsFiniteSet(1 .. Len(s)) /\ Cardinality(1 .. Len(s)) = Len(s)
  <2>1. PICK n \in Nat : n = Len(s)
    BY <1>2
  <2>2. IsFiniteSet(1 .. n) /\ Cardinality(1 .. n) = n
    BY FS_Interval
  <2>. QED
    BY <2>1, <2>2
<1>5. Cardinality(T) <= Cardinality(1 .. Len(s))
  BY <1>3, <1>4, FS_Surjection
<1>6. Cardinality(T) \in Nat
  BY FS_CardinalityType
<1>. QED
  BY <1>2, <1>4, <1>5, <1>6

\* The selection takes no more blocks than there are sections, of the candidates.
LEMMA SelectedFacts ==
  ASSUME time \in [Blocks -> Nat], NEW b \in Blocks, NEW hash,
         \A c \in Candidates(b) : hash[c] \in Nat
  PROVE  Selected(b, hash) \in Seq(Blocks) /\ Len(Selected(b, hash)) <= Len(Sections)
<1>. DEFINE T == Candidates(b)
            rounds == Min({Len(Sections), Cardinality(T)})
            g == CHOOSE g : Rounds(b, hash, g, rounds)
<1>1. T \in SUBSET Blocks /\ IsFiniteSet(T)
  <2>1. T \subseteq Blocks
    BY TreeAssumption DEF Candidates
  <2>. QED
    BY <2>1, TreeAssumption, FS_Subset
<1>2. rounds \in Nat /\ rounds <= Len(Sections) /\ rounds <= Cardinality(T)
  <2>1. Cardinality(T) \in Nat /\ Len(Sections) \in Nat
    BY <1>1, FS_CardinalityType, KernelAssumption
  <2>. HIDE DEF T
  <2>. QED
    BY <2>1, MinOfTwo
<1>3. Rounds(b, hash, g, rounds)
  <2>. HIDE DEF rounds
  <2>. QED
    BY <1>2, HaveRounds
<1>4. Selected(b, hash) = g[rounds]
  BY DEF Selected, Rounds, AfterRound
<1>. DEFINE S == {k \in Nat : k <= rounds => g[k] \in Seq(T) /\ Len(g[k]) = k}
<1>. HIDE DEF rounds, g
<1>5. /\ g[0] = << >>
      /\ \A k \in 1 .. rounds : g[k] = AfterRound(b, hash, g[k - 1], k)
  BY <1>2, <1>3 DEF Rounds
<1>6. 0 \in S
  <2>1. << >> \in Seq(T) /\ Len(<< >>) = 0
    OBVIOUS
  <2>. HIDE DEF T
  <2>. QED
    BY <1>5, <2>1
<1>7. ASSUME NEW k \in Nat, k \in S PROVE k + 1 \in S
  <2>. SUFFICES ASSUME k + 1 <= rounds
                PROVE  g[k + 1] \in Seq(T) /\ Len(g[k + 1]) = k + 1
    OBVIOUS
  <2>1. g[k] \in Seq(T) /\ Len(g[k]) = k /\ k + 1 \in 1 .. rounds /\ (k + 1) - 1 = k
    BY <1>2, <1>7
  <2>. DEFINE next == SelectBlock(T \ Range(g[k]), SelectionStart(b) + SectionsUpTo(k + 1), hash)
  <2>2. g[k + 1] = Append(g[k], next)
    BY <1>5, <2>1 DEF AfterRound
  <2>3. T \ Range(g[k]) # {}
    <3>1. Cardinality(T) \in Nat /\ Len(g[k]) < Cardinality(T)
      BY <1>1, <1>2, <2>1, FS_CardinalityType
    <3>. HIDE DEF T
    <3>. QED
      BY <1>1, <2>1, <3>1, OneIsLeft
  <2>4. next \in T
    <3>1. T \ Range(g[k]) \in SUBSET Blocks /\ \A c \in T \ Range(g[k]) : hash[c] \in Nat
      BY <1>1
    <3>. HIDE DEF T
    <3>2. SelectBlock(T \ Range(g[k]), SelectionStart(b) + SectionsUpTo(k + 1), hash)
            \in T \ Range(g[k])
      BY <2>3, <3>1, SelectBlockFacts
    <3>. QED
      BY <3>2
  <2>. HIDE DEF T, next
  <2>. QED
    BY <2>1, <2>2, <2>4
<1>8. rounds \in S
  <2>. HIDE DEF S
  <2>. QED
    BY <1>2, <1>6, <1>7, NaturalInduction
<1>9. g[rounds] \in Seq(T) /\ Len(g[rounds]) = rounds
  BY <1>2, <1>8
<1>10. g[rounds] \in Seq(Blocks)
  <2>. HIDE DEF T
  <2>. QED
    BY <1>1, <1>9
<1>. QED
  BY <1>2, <1>4, <1>9, <1>10

-----------------------------------------------------------------------------
\* The meta data of every block has a modifier within its bits, and either no kernel
\* hash or one of a kernel.
MetaInv ==
  \A b \in Blocks :
    /\ meta[b].modifier \in Modifiers
    /\ meta[b].generated \in BOOLEAN
    /\ \/ meta[b].proof = 0
       \/ \E c, d \in Blocks, n \in Modifiers : meta[b].proof = KernelHash(c, d, n)

\* The walk down from a block finds a modifier that was generated.
LEMMA LastGeneratedFacts ==
  ASSUME Inv, NEW b \in Blocks
  PROVE  LastGenerated(b, meta) \in Ancestry[b] /\ LastGenerated(b, meta) \in Blocks
<1>. DEFINE S == {c \in Ancestry[b] : meta[c].generated}
<1>1. S \in SUBSET Ancestry[b] /\ S # {}
  BY ChainsAreChains DEF ChainFacts, Inv
<1>. HIDE DEF S
<1>2. Highest(S) \in S
  BY <1>1, HasHighest
<1>3. LastGenerated(b, meta) = Highest(S)
  BY DEF LastGenerated, S
<1>. QED
  BY <1>1, <1>2, <1>3, ChainMembers

\* The hashes the candidates compete with are numbers.
LEMMA HashesFacts ==
  ASSUME MetaInv, NEW S \in SUBSET Blocks, NEW n \in Modifiers
  PROVE  \A c \in S : HashesOf(S, n, meta)[c] \in Nat
<1>. SUFFICES ASSUME NEW c \in S PROVE HashesOf(S, n, meta)[c] \in Nat
  OBVIOUS
<1>1. CASE meta[c].proof = 0
  <2>1. HashesOf(S, n, meta)[c] = SelectionHash(BlockHash[c], n)
    BY <1>1 DEF HashesOf
  <2>. QED
    BY <2>1, HashAssumption
<1>2. CASE meta[c].proof # 0
  <2>1. HashesOf(S, n, meta)[c] = SelectionHash(meta[c].proof, n) \div StakeShift
    BY <1>2 DEF HashesOf
  <2>2. PICK d \in Blocks, e \in Blocks, i \in Modifiers : meta[c].proof = KernelHash(d, e, i)
    BY <1>2 DEF MetaInv
  <2>3. SelectionHash(meta[c].proof, n) \in Nat
    BY <2>2, HashAssumption
  <2>4. StakeShift \in Nat \ {0}
    BY KernelAssumption
  <2>. HIDE DEF HashesOf
  <2>5. SelectionHash(meta[c].proof, n) \div StakeShift \in Nat
    BY <2>3, <2>4, DivFacts
  <2>. QED
    BY <2>1, <2>5
<1>. QED
  BY <1>1, <1>2

\* The modifier that follows a block is within its bits.
LEMMA NextModifierFacts ==
  ASSUME Inv, MetaInv, NEW b \in Blocks \ {Genesis}
  PROVE  /\ ComputeNextStakeModifier(b, meta).modifier \in Modifiers
         /\ ComputeNextStakeModifier(b, meta).generated \in BOOLEAN
<1>. DEFINE p == Parent[b]
            last == LastGenerated(p, meta)
            hash == HashesOf(Candidates(p), meta[last].modifier, meta)
<1>1. p \in Blocks
  BY TreeAssumption
<1>2. meta[last].modifier \in Modifiers
  BY <1>1, LastGeneratedFacts DEF MetaInv
<1>3. \A c \in Candidates(p) : hash[c] \in Nat
  <2>1. Candidates(p) \in SUBSET Blocks
    BY <1>1, TreeAssumption DEF Candidates
  <2>. QED
    BY <1>2, <2>1, HashesFacts
<1>4. ModifierOf(Selected(p, hash)) \in Modifiers
  <2>. HIDE DEF hash, p
  <2>1. Selected(p, hash) \in Seq(Blocks) /\ Len(Selected(p, hash)) <= Len(Sections)
    BY <1>1, <1>3, SelectedFacts DEF Inv
  <2>. QED
    BY <2>1, ModifierRange
<1>5. CASE SameInterval(b, last)
  BY <1>2, <1>5 DEF ComputeNextStakeModifier
<1>6. CASE ~ SameInterval(b, last)
  BY <1>4, <1>6 DEF ComputeNextStakeModifier
<1>. QED
  BY <1>5, <1>6

\* The block of the staked transaction is in the chain the kernel is looked up in.
LEMMA KernelBlockFacts ==
  ASSUME NEW b \in Blocks, NEW tip \in Blocks, KernelBlocks(b, tip) # {}
  PROVE  /\ KernelBlock(b, tip) \in Ancestry[tip] /\ KernelBlock(b, tip) \in Blocks
         /\ StakeOf[b] \in Confirmed[KernelBlock(b, tip)]
<1>1. /\ KernelBlocks(b, tip) \in SUBSET Ancestry[tip]
      /\ \A c \in KernelBlocks(b, tip) : StakeOf[b] \in Confirmed[c]
  BY DEF KernelBlocks
<1>2. KernelBlock(b, tip) \in KernelBlocks(b, tip)
  BY <1>1, HasHighest DEF KernelBlock
<1>. QED
  BY <1>1, <1>2, ChainMembers

(***************************************************************************)
(* A kernel that passes has a hash that is not zero, and so a target that  *)
(* is positive: coin days are never negative.                              *)
(***************************************************************************)
LEMMA KernelFacts ==
  ASSUME time \in Times, MetaInv, NEW b \in Blocks, NEW tip \in Blocks, NEW target \in Int,
         CheckProofOfStake(b, tip, meta, target)
  PROVE  /\ target > 0
         /\ \E c, d \in Blocks, n \in Modifiers : ProofHash(b, tip, meta) = KernelHash(c, d, n)
<1>. DEFINE from == KernelBlock(b, tip)
            M == KernelModifierBlocks(from, tip, meta)
            s == StakeOf[b]
<1>1. KernelBlocks(b, tip) # {} /\ M # {}
      /\ time[from] + StakeMinAge <= time[b] /\ StakeTime[s] <= time[b]
      /\ ProofHash(b, tip, meta) <= CoinDayWeight(b) * target
  BY DEF CheckProofOfStake
<1>2. from \in Blocks /\ s \in Confirmed[from]
  BY <1>1, KernelBlockFacts
<1>3. Lowest(M) \in Blocks
  <2>1. M \in SUBSET Ancestry[tip]
    BY DEF KernelModifierBlocks
  <2>. HIDE DEF M
  <2>2. Lowest(M) \in M
    BY <1>1, <2>1, HasLowest
  <2>. QED
    BY <2>1, <2>2, ChainMembers
<1>4. PICK n \in Modifiers : ProofHash(b, tip, meta) = KernelHash(b, from, n)
  BY <1>3 DEF MetaInv, ProofHash
<1>5. ProofHash(b, tip, meta) \in Nat \ {0}
  BY <1>2, <1>4, HashAssumption
<1>6. CoinDayWeight(b) \in Nat
  <2>1. /\ time[from] \in Nat /\ time[b] \in Nat /\ StakeTime[s] <= time[from]
    BY <1>2, TargetAssumption, ConfirmedAssumption
  <2>2. s \in Stakes
    BY <1>2, KernelAssumption
  <2>3. /\ StakeTime[s] \in Nat /\ StakeValue[s] \in Nat /\ CoinDay \in Nat \ {0}
        /\ StakeMinAge \in Nat /\ StakeMaxAge \in Nat /\ StakeMinAge <= StakeMaxAge
    BY <2>2, KernelAssumption
  <2>. DEFINE old == time[b] - StakeTime[s]
              age == Min({old, StakeMaxAge}) - StakeMinAge
  <2>4. old \in Int /\ StakeMinAge <= old
    BY <1>1, <2>1, <2>3
  <2>5. age \in Nat
    <3>. HIDE DEF old
    <3>. QED
      BY <2>3, <2>4, MinOfTwo
  <2>. HIDE DEF age
  <2>6. StakeValue[s] * age \in Nat
    BY <2>3, <2>5
  <2>7. (StakeValue[s] * age) \div CoinDay \in Nat
    BY <2>3, <2>6, DivFacts
  <2>. QED
    BY <2>7 DEF CoinDayWeight, age
<1>7. target > 0
  <2>1. PICK w \in Nat : w = CoinDayWeight(b)
    BY <1>6
  <2>2. w * target > 0
    BY <1>1, <1>5, <2>1
  <2>. QED
    BY <2>2
<1>. QED
  BY <1>2, <1>4, <1>7

-----------------------------------------------------------------------------
(***************************************************************************)
(* The state is of its types: the timestamps are possible ones, the meta   *)
(* data and the targets as above, and the accepted blocks are known.       *)
(***************************************************************************)
StateInv ==
  /\ Inv
  /\ MetaInv
  /\ BitsInv
  /\ time \in Times
  /\ Genesis \in index
  /\ onTip \subseteq index

\* The modifier of a block that has none yet is within the bits.
LEMMA NoModifierIsZero == 0 \in Modifiers
<1>1. PICK n \in Nat : n = Len(Sections)
  BY KernelAssumption
<1>2. Bit(n) \in Nat \ {0}
  BY BitFacts
<1>. QED
  BY <1>1, <1>2 DEF Modifiers

LEMMA InitState == Init => StateInv
<1>. SUFFICES ASSUME Init PROVE StateInv
  OBVIOUS
<1>1. 0 \in Modifiers
  BY NoModifierIsZero
<1>2. MetaInv
  BY <1>1 DEF Init, MetaInv, GenesisMeta, NoMeta
<1>3. BitsInv
  <2>1. /\ InitialBits \in Compact /\ CompactToBig(InitialBits) \in 1 .. PowLimit
        /\ PowLimit \in Nat
    BY TargetAssumption
  <2>. QED
    BY <2>1 DEF Init, BitsInv
<1>. QED
  BY <1>2, <1>3, InitInv DEF Init, StateInv

LEMMA StateAccept ==
  ASSUME StateInv, NEW b \in Blocks \ {Genesis}, MaybeAcceptBlock(b)
  PROVE  StateInv'
<1>. DEFINE expected == RequiredBits(Parent[b], IsProofOfStake(b))
<1>1. /\ Parent[b] \in Blocks /\ bestChain \in Blocks /\ time \in [Blocks -> Nat]
      /\ index' = index \cup {b} /\ time' = time
      /\ onTip' \subseteq onTip \cup {b}
      /\ bits' = [bits EXCEPT ![b] = expected]
      /\ meta' = [meta EXCEPT ![b] = MetaOf(b, bestChain, meta)]
  BY TreeAssumption DEF MaybeAcceptBlock, StateInv, Inv
<1>2. expected \in Compact /\ CompactToBig(expected) <= PowLimit
  BY <1>1, RequiredBitsFacts DEF StateInv
<1>3. CompactToBig(expected) \in Int
  BY <1>2, ValueOfCompact
<1>. HIDE DEF expected
<1>4. 0 < CompactToBig(expected)
  <2>1. CASE ~ IsProofOfStake(b)
    BY <1>3, <2>1 DEF MaybeAcceptBlock, CheckProofOfWork, expected
  <2>2. CASE IsProofOfStake(b)
    <3>1. CheckProofOfStake(b, bestChain, meta, CompactToBig(expected))
      BY <2>2 DEF MaybeAcceptBlock, CheckKernel, expected
    <3>. QED
      BY <1>1, <1>3, <3>1, KernelFacts DEF StateInv
  <2>. QED
    BY <2>1, <2>2
<1>5. BitsInv'
  BY <1>1, <1>2, <1>4 DEF StateInv, BitsInv
<1>6. MetaInv'
  <2>. DEFINE new == MetaOf(b, bestChain, meta)
  <2>1. new.modifier \in Modifiers /\ new.generated \in BOOLEAN
    BY NextModifierFacts DEF StateInv, MetaOf
  <2>2. \/ new.proof = 0
        \/ \E c, d \in Blocks, n \in Modifiers : new.proof = KernelHash(c, d, n)
    <3>1. CASE ~ IsProofOfStake(b)
      BY <3>1 DEF MetaOf
    <3>2. CASE IsProofOfStake(b)
      <4>1. CheckProofOfStake(b, bestChain, meta, CompactToBig(expected))
        BY <3>2 DEF MaybeAcceptBlock, CheckKernel, expected
      <4>2. new.proof = ProofHash(b, bestChain, meta)
        BY <3>2 DEF MetaOf
      <4>. QED
        BY <1>1, <1>3, <4>1, <4>2, KernelFacts DEF StateInv
    <3>. QED
      BY <3>1, <3>2
  <2>. HIDE DEF new
  <2>3. meta'[b] = new /\ \A c \in Blocks \ {b} : meta'[c] = meta[c]
    BY <1>1 DEF StateInv, Inv, new
  <2>. QED
    BY <2>1, <2>2, <2>3 DEF StateInv, MetaInv
<1>7. Inv'
  BY AcceptStep DEF StateInv
<1>. QED
  BY <1>1, <1>5, <1>6, <1>7 DEF StateInv

LEMMA StateRestart ==
  ASSUME StateInv, Restart
  PROVE  StateInv'
<1>1. /\ index' = Ancestry[bestChain] /\ time' = time /\ bits' = bits
      /\ meta' = Reloaded(meta) /\ onTip' = onTip \cap Ancestry[bestChain]
  BY DEF Restart
<1>2. MetaInv'
  <2>. SUFFICES ASSUME NEW b \in Blocks
                PROVE  /\ meta'[b].modifier \in Modifiers
                       /\ meta'[b].generated \in BOOLEAN
                       /\ \/ meta'[b].proof = 0
                          \/ \E c, d \in Blocks, n \in Modifiers :
                               meta'[b].proof = KernelHash(c, d, n)
    BY DEF MetaInv
  <2>1. CASE meta'[b] = meta[b]
    BY <2>1 DEF StateInv, MetaInv
  <2>2. CASE meta'[b] = NoMeta
    BY <2>2, NoModifierIsZero DEF NoMeta
  <2>. QED
    BY <1>1, <2>1, <2>2 DEF Reloaded
<1>3. Genesis \in Ancestry[bestChain]
  BY ChainsAreChains DEF StateInv, Inv, ChainFacts
<1>4. Inv'
  BY RestartStep DEF StateInv
<1>. QED
  BY <1>1, <1>2, <1>3, <1>4 DEF StateInv, BitsInv

LEMMA StateStep == StateInv /\ [Next]_vars => StateInv'
<1>. SUFFICES ASSUME StateInv, [Next]_vars PROVE StateInv'
  OBVIOUS
<1>1. ASSUME NEW b \in Blocks \ {Genesis}, MaybeAcceptBlock(b) PROVE StateInv'
  BY <1>1, StateAccept
<1>2. CASE Restart
  BY <1>2, StateRestart
<1>3. CASE UNCHANGED vars
  <2>1. Inv'
    BY <1>3, InvStep DEF StateInv
  <2>. QED
    BY <1>3, <2>1 DEF vars, StateInv, MetaInv, BitsInv
<1>. QED
  BY <1>1, <1>2, <1>3 DEF Next

\* The inductive invariant, in every reachable state.
LEMMA StateAlways == Spec => []StateInv
  BY InitState, StateStep, PTL DEF Spec

\* The state is of its types: a modifier has no more bits than the selection has
\* sections, and a target is one that the header can hold.
THEOREM TypeCorrect == Spec => []TypeOK
<1>1. StateInv => TypeOK
  <2>. SUFFICES ASSUME StateInv PROVE TypeOK
    OBVIOUS
  <2>1. ASSUME NEW b \in Blocks PROVE meta[b].proof \in Nat
    BY HashAssumption DEF StateInv, MetaInv
  <2>. QED
    BY <2>1 DEF StateInv, Inv, MetaInv, BitsInv, TypeOK
<1>. QED
  BY <1>1, StateAlways, PTL

\* A positive target below 2^256 is worth some work.
LEMMA TrustFacts ==
  ASSUME NEW c \in Compact, 0 < CompactToBig(c), CompactToBig(c) <= PowLimit,
         NEW proofOfStake
  PROVE  CalcTrust(c, proofOfStake) > 0
<1>1. PICK n \in Nat : n = CompactToBig(c)
  BY ValueOfCompact
<1>2. PowLimit \in Nat /\ PowLimit < OneLsh256 /\ OneLsh256 \in Nat
  BY TargetAssumption, CompactAssumption
<1>3. n + 1 \in Nat \ {0} /\ 1 * (n + 1) <= OneLsh256
  BY <1>1, <1>2
<1>4. PICK q \in Int : q = OneLsh256 \div (n + 1) /\ q >= 1
  BY <1>2, <1>3, DivBound, DivFacts
<1>5. CalcTrust(c, proofOfStake) = IF proofOfStake THEN q ELSE 1
  <2>1. ~ (n <= 0)
    BY <1>1
  <2>. QED
    BY <1>1, <1>4, <2>1 DEF CalcTrust
<1>. QED
  BY <1>4, <1>5

(***************************************************************************)
(* Every block that is accepted adds work to its chain: the target it must *)
(* state is positive and below 2^256, whatever the timestamps of the chain *)
(* are, through any number of retargets.                                   *)
(***************************************************************************)
THEOREM WorkIsAdded == Spec => []EveryBlockAddsWork
<1>1. StateInv => EveryBlockAddsWork
  <2>. SUFFICES ASSUME StateInv, NEW b \in index \ {Genesis}
                PROVE  CalcTrust(bits[b], IsProofOfStake(b)) > 0
    BY DEF EveryBlockAddsWork
  <2>1. /\ bits[b] \in Compact
        /\ 0 < CompactToBig(bits[b]) /\ CompactToBig(bits[b]) <= PowLimit
    BY DEF StateInv, Inv, BitsInv
  <2>. QED
    BY <2>1, TrustFacts
<1>. QED
  BY <1>1, StateAlways, PTL

(***************************************************************************)
(* The difficulty follows the spacing of the blocks: slower blocks never   *)
(* make it harder and faster ones never easier, up to the limit, through   *)
(* the rounding of compact targets, for targets of any size.               *)
(***************************************************************************)
THEOREM RetargetIsRight == Spec => []RetargetFollowsSpacing
<1>1. StateInv => RetargetFollowsSpacing
  <2>. SUFFICES ASSUME StateInv PROVE RetargetFollowsSpacing
    OBVIOUS
  <2>1. index \subseteq Blocks /\ time \in [Blocks -> Nat] /\ BitsInv
    BY DEF StateInv, Inv
  <2>. QED
    BY <2>1, RequiredBitsFacts DEF RetargetFollowsSpacing
<1>. QED
  BY <1>1, StateAlways, PTL

-----------------------------------------------------------------------------
\* m and n say the same of the chain of b.
AgreeOn(b, m, n) == \A c \in Ancestry[b] : m[c] = n[c]

\* The modifier after a block is a function of the meta data of its chain.
LEMMA NextModifierIsLocal ==
  ASSUME NEW b \in Blocks \ {Genesis}, NEW m, NEW n, AgreeOn(Parent[b], m, n),
         \E c \in Ancestry[Parent[b]] : m[c].generated
  PROVE  ComputeNextStakeModifier(b, m) = ComputeNextStakeModifier(b, n)
<1>. DEFINE p == Parent[b]
            G(i) == {c \in Ancestry[p] : i[c].generated}
            last == LastGenerated(p, m)
<1>1. p \in Blocks
  BY TreeAssumption
<1>2. G(m) = G(n)
  BY DEF AgreeOn
<1>3. LastGenerated(p, n) = last
  BY <1>2 DEF LastGenerated
<1>4. m[last] = n[last]
  <2>1. G(m) \in SUBSET Ancestry[p] /\ G(m) # {}
    OBVIOUS
  <2>2. last = Highest(G(m))
    BY DEF LastGenerated
  <2>. HIDE DEF G
  <2>3. last \in Ancestry[p]
    BY <1>1, <2>1, <2>2, HasHighest
  <2>. QED
    BY <2>3 DEF AgreeOn
<1>5. HashesOf(Candidates(p), m[last].modifier, m) = HashesOf(Candidates(p), n[last].modifier, n)
  <2>1. \A c \in Candidates(p) : m[c] = n[c]
    BY DEF AgreeOn, Candidates
  <2>. QED
    BY <1>4, <2>1 DEF HashesOf
<1>. HIDE DEF last
<1>. QED
  BY <1>3, <1>4, <1>5 DEF ComputeNextStakeModifier, last

\* The kernel of a block looked up in the chain of its parent.
KernelIsThere(b, m) ==
  LET from == KernelBlock(b, Parent[b])
  IN  KernelModifierBlocks(from, Parent[b], m) # {}

\* So is its kernel hash, when the chain has the modifier.
LEMMA ProofHashIsLocal ==
  ASSUME NEW b \in Blocks \ {Genesis}, NEW m, NEW n, AgreeOn(Parent[b], m, n),
         KernelIsThere(b, m)
  PROVE  KernelIsThere(b, n) /\ ProofHash(b, Parent[b], m) = ProofHash(b, Parent[b], n)
<1>. DEFINE p == Parent[b]
            from == KernelBlock(b, p)
            K(i) == KernelModifierBlocks(from, p, i)
<1>1. p \in Blocks
  BY TreeAssumption
<1>2. K(m) = K(n) /\ K(m) # {} /\ K(m) \in SUBSET Ancestry[p]
  BY DEF AgreeOn, KernelModifierBlocks, KernelIsThere
<1>3. ProofHash(b, p, m) = KernelHash(b, from, m[Lowest(K(m))].modifier)
  BY DEF ProofHash
<1>4. ProofHash(b, p, n) = KernelHash(b, from, n[Lowest(K(n))].modifier)
  BY DEF ProofHash
<1>5. KernelIsThere(b, n)
  BY <1>2 DEF KernelIsThere
<1>. HIDE DEF K
<1>6. Lowest(K(m)) \in Ancestry[p]
  BY <1>1, <1>2, HasLowest
<1>7. m[Lowest(K(m))] = n[Lowest(K(n))]
  BY <1>2, <1>6 DEF AgreeOn
<1>. QED
  BY <1>3, <1>4, <1>5, <1>7

\* The meta data of b is what the chain of its parent says, and its kernel is there.
OfItsChain(b, m) ==
  /\ IsProofOfStake(b) => KernelIsThere(b, m)
  /\ m[b] = MetaOf(b, Parent[b], m)

\* So all meta data of a block is a function of that of its chain.
LEMMA MetaIsLocal ==
  ASSUME NEW b \in Blocks \ {Genesis}, NEW m, NEW n, AgreeOn(Parent[b], m, n),
         \E c \in Ancestry[Parent[b]] : m[c].generated,
         IsProofOfStake(b) => KernelIsThere(b, m)
  PROVE  /\ MetaOf(b, Parent[b], m) = MetaOf(b, Parent[b], n)
         /\ IsProofOfStake(b) => KernelIsThere(b, n)
<1>1. ComputeNextStakeModifier(b, m) = ComputeNextStakeModifier(b, n)
  BY NextModifierIsLocal
<1>2. IsProofOfStake(b) => /\ KernelIsThere(b, n)
                           /\ ProofHash(b, Parent[b], m) = ProofHash(b, Parent[b], n)
  BY ProofHashIsLocal
<1>. QED
  BY <1>1, <1>2 DEF MetaOf

(***************************************************************************)
(* The meta data of a block, unless it is a proof of stake that was not    *)
(* accepted on the tip, is what its own chain says.                        *)
(***************************************************************************)
ChainMetaInv ==
  /\ StateInv
  /\ meta[Genesis] = GenesisMeta
  /\ \A b \in index \ {Genesis} : (IsProofOfStake(b) => b \in onTip) => OfItsChain(b, meta)

\* What is said of b by its chain does not change when the chain does not.
LEMMA StillOfItsChain ==
  ASSUME NEW b \in Blocks \ {Genesis}, NEW m, NEW n, OfItsChain(b, m),
         \A c \in Ancestry[b] : m[c] = n[c],
         \E c \in Ancestry[Parent[b]] : m[c].generated
  PROVE  OfItsChain(b, n)
<1>1. AgreeOn(Parent[b], m, n) /\ m[b] = n[b]
  <2>1. Ancestry[b] = Ancestry[Parent[b]] \cup {b}
    BY TreeAssumption
  <2>. QED
    BY <2>1 DEF AgreeOn
<1>. QED
  BY <1>1, MetaIsLocal DEF OfItsChain

\* Timestamps do not change.
LEMMA SameTimes ==
  ASSUME time' = time, NEW b, OfItsChain(b, meta')
  PROVE  OfItsChain(b, meta)'
<1>1. \A c : Candidates(c)' = Candidates(c) /\ SelectionStart(c)' = SelectionStart(c)
  BY DEF Candidates, SelectionStart
<1>2. \A S, stop, hash : SelectBlock(S, stop, hash)' = SelectBlock(S, stop, hash)
  BY DEF SelectBlock, FirstOf, SortsBefore
<1>3. \A c, hash : Selected(c, hash)' = Selected(c, hash)
  BY <1>1, <1>2, ZenonT(60) DEF Selected
<1>4. \A c, d : SameInterval(c, d)' = SameInterval(c, d)
  BY DEF SameInterval, Interval
<1>5. ComputeNextStakeModifier(b, meta)' = ComputeNextStakeModifier(b, meta')
  BY <1>1, <1>3, <1>4 DEF ComputeNextStakeModifier, LastGenerated, HashesOf
<1>6. \A c, d : KernelModifierBlocks(c, d, meta)' = KernelModifierBlocks(c, d, meta')
  BY DEF KernelModifierBlocks
<1>7. ProofHash(b, Parent[b], meta)' = ProofHash(b, Parent[b], meta')
  BY <1>6 DEF ProofHash
<1>8. KernelIsThere(b, meta)' = KernelIsThere(b, meta')
  BY <1>6 DEF KernelIsThere
<1>. QED
  BY <1>5, <1>7, <1>8 DEF OfItsChain, MetaOf

LEMMA ChainMetaAccept ==
  ASSUME ChainMetaInv, NEW b \in Blocks \ {Genesis}, MaybeAcceptBlock(b)
  PROVE  ChainMetaInv'
<1>1. /\ Parent[b] \in index /\ b \notin index /\ index' = index \cup {b}
      /\ onTip' = IF Parent[b] = bestChain THEN onTip \cup {b} ELSE onTip
      /\ meta' = [meta EXCEPT ![b] = MetaOf(b, bestChain, meta)]
      /\ UNCHANGED time
  BY DEF MaybeAcceptBlock
<1>2. /\ meta'[b] = MetaOf(b, bestChain, meta)
      /\ \A c \in Blocks \ {b} : meta'[c] = meta[c]
      /\ onTip \subseteq index /\ index \subseteq Blocks
      /\ \A c \in index : Ancestry[c] \subseteq index
      /\ meta[Genesis].generated
  BY <1>1 DEF ChainMetaInv, StateInv, Inv
<1>3. \A c \in Blocks : Genesis \in Ancestry[c]
  BY ChainsAreChains DEF ChainFacts
<1>4. ASSUME NEW c \in index \ {Genesis}, IsProofOfStake(c) => c \in onTip'
      PROVE  OfItsChain(c, meta)'
  <2>1. OfItsChain(c, meta)
    BY <1>1, <1>4 DEF ChainMetaInv
  <2>2. \A d \in Ancestry[c] : meta[d] = meta'[d]
    BY <1>1, <1>2
  <2>3. Parent[c] \in Blocks /\ c \in Blocks \ {Genesis}
    BY <1>2, TreeAssumption
  <2>4. OfItsChain(c, meta')
    BY <1>2, <1>3, <2>1, <2>2, <2>3, StillOfItsChain
  <2>. QED
    BY <1>1, <2>4, SameTimes
<1>5. ASSUME IsProofOfStake(b) => b \in onTip'
      PROVE  OfItsChain(b, meta)'
  <2>1. Parent[b] \in Blocks
    BY TreeAssumption
  <2>2. IsProofOfStake(b) => Parent[b] = bestChain
    BY <1>1, <1>2, <1>5
  <2>3. IsProofOfStake(b) => KernelIsThere(b, meta)
    BY <2>2 DEF MaybeAcceptBlock, CheckKernel, CheckProofOfStake, KernelIsThere
  <2>4. meta'[b] = MetaOf(b, Parent[b], meta)
    BY <1>2, <2>2 DEF MetaOf
  <2>5. AgreeOn(Parent[b], meta, meta')
    BY <1>1, <1>2 DEF AgreeOn
  <2>6. /\ MetaOf(b, Parent[b], meta) = MetaOf(b, Parent[b], meta')
        /\ IsProofOfStake(b) => KernelIsThere(b, meta')
    BY <1>2, <1>3, <2>1, <2>3, <2>5, MetaIsLocal
  <2>7. OfItsChain(b, meta')
    BY <2>4, <2>6 DEF OfItsChain
  <2>. QED
    BY <1>1, <2>7, SameTimes
<1>6. meta'[Genesis] = GenesisMeta
  BY <1>2, TreeAssumption DEF ChainMetaInv
<1>7. StateInv'
  BY StateAccept DEF ChainMetaInv
<1>. QED
  BY <1>1, <1>4, <1>5, <1>6, <1>7 DEF ChainMetaInv

LEMMA ChainMetaRestart ==
  ASSUME ChainMetaInv, Restart
  PROVE  ChainMetaInv'
<1>1. /\ index' = Ancestry[bestChain] /\ onTip' = onTip \cap Ancestry[bestChain]
      /\ meta' = Reloaded(meta) /\ UNCHANGED time
  BY DEF Restart
<1>2. /\ bestChain \in Blocks /\ Ancestry[bestChain] \subseteq index
      /\ Ancestry[bestChain] \subseteq Blocks /\ meta[Genesis].generated
  BY TreeAssumption DEF ChainMetaInv, StateInv, Inv
<1>3. \A c \in Blocks : Genesis \in Ancestry[c]
  BY ChainsAreChains DEF ChainFacts
<1>4. \A c \in Ancestry[bestChain] : meta'[c] = meta[c]
  BY <1>1, <1>2 DEF Reloaded
<1>5. ASSUME NEW c \in index' \ {Genesis}, IsProofOfStake(c) => c \in onTip'
      PROVE  OfItsChain(c, meta)'
  <2>1. OfItsChain(c, meta)
    BY <1>1, <1>2, <1>5 DEF ChainMetaInv
  <2>2. Parent[c] \in Blocks /\ c \in Blocks \ {Genesis}
    BY <1>1, <1>2, TreeAssumption
  <2>3. \A d \in Ancestry[c] : meta[d] = meta'[d]
    BY <1>1, <1>2, <1>4, ChainMembers
  <2>4. OfItsChain(c, meta')
    BY <1>2, <1>3, <2>1, <2>2, <2>3, StillOfItsChain
  <2>. QED
    BY <1>1, <2>4, SameTimes
<1>6. meta'[Genesis] = GenesisMeta
  BY <1>2, <1>3, <1>4 DEF ChainMetaInv
<1>7. StateInv'
  BY StateRestart DEF ChainMetaInv
<1>. QED
  BY <1>5, <1>6, <1>7 DEF ChainMetaInv

LEMMA ChainMetaAlways == Spec => []ChainMetaInv
<1>1. Init => ChainMetaInv
  BY InitState, TreeAssumption DEF Init, ChainMetaInv
<1>2. ChainMetaInv /\ [Next]_vars => ChainMetaInv'
  <2>. SUFFICES ASSUME ChainMetaInv, [Next]_vars PROVE ChainMetaInv'
    OBVIOUS
  <2>1. ASSUME NEW b \in Blocks \ {Genesis}, MaybeAcceptBlock(b) PROVE ChainMetaInv'
    BY <2>1, ChainMetaAccept
  <2>2. CASE Restart
    BY <2>2, ChainMetaRestart
  <2>3. CASE UNCHANGED vars
    <3>1. StateInv' /\ meta' = meta /\ index' = index /\ onTip' = onTip /\ time' = time
      BY <2>3, StateStep DEF ChainMetaInv, vars
    <3>2. \A b : OfItsChain(b, meta) => OfItsChain(b, meta)'
      BY <3>1, SameTimes
    <3>. QED
      BY <3>1, <3>2 DEF ChainMetaInv
  <2>. QED
    BY <2>1, <2>2, <2>3 DEF Next
<1>. QED
  BY <1>1, <1>2, PTL DEF Spec

\* What OwnMeta does at height k of the chain of b, m being the meta data below.
AtHeight(b, k) == CHOOSE c \in Ancestry[b] : Height[c] = k
MetaUpTo(b, m, k) ==
  [m EXCEPT ![AtHeight(b, k)] = MetaOf(AtHeight(b, k), Parent[AtHeight(b, k)], m)]
FirstMeta == [c \in Blocks |-> IF c = Genesis THEN GenesisMeta ELSE NoMeta]

\* g is a solution of the recursion of OwnMeta, up to n.
MetaSteps(b, g, n) ==
  g = [k \in 0 .. n |-> IF k = 0 THEN FirstMeta ELSE MetaUpTo(b, g[k - 1], k)]

\* OwnMeta can be computed up to any height.
LEMMA HaveMetaSteps ==
  ASSUME NEW b
  PROVE  \A n \in Nat : \E g : MetaSteps(b, g, n)
<1>. DEFINE S == {n \in Nat : \E g : MetaSteps(b, g, n)}
<1>1. 0 \in S
  <2>1. MetaSteps(b, [k \in 0 .. 0 |-> FirstMeta], 0)
    BY DEF MetaSteps
  <2>. QED
    BY <2>1
<1>2. ASSUME NEW n \in Nat, n \in S PROVE n + 1 \in S
  <2>1. PICK g : MetaSteps(b, g, n)
    BY <1>2
  <2>. DEFINE q == [k \in 0 .. n + 1 |-> IF k = 0 THEN FirstMeta ELSE MetaUpTo(b, g[k - 1], k)]
  <2>2. ASSUME NEW k \in 0 .. n PROVE q[k] = g[k]
    BY <2>1 DEF MetaSteps
  <2>3. ASSUME NEW k \in 0 .. n + 1, k # 0 PROVE k - 1 \in 0 .. n
    BY <2>3
  <2>4. MetaSteps(b, q, n + 1)
    BY <2>2, <2>3 DEF MetaSteps
  <2>. QED
    BY <2>4
<1>. HIDE DEF S
<1>3. Nat \subseteq S
  BY <1>1, <1>2, NaturalInduction
<1>. QED
  BY <1>3 DEF S

\* A chain has a block of every height up to its own.
LEMMA ChainHasHeights ==
  ASSUME NEW b \in Blocks, NEW k \in 0 .. Height[b]
  PROVE  /\ AtHeight(b, k) \in Ancestry[b] /\ Height[AtHeight(b, k)] = k
         /\ AtHeight(b, k) \in Blocks
         /\ k = 0 <=> AtHeight(b, k) = Genesis
<1>. DEFINE S == {c \in Blocks : \A i \in 0 .. Height[c] : \E d \in Ancestry[c] : Height[d] = i}
<1>1. Genesis \in S
  BY TreeAssumption
<1>2. ASSUME NEW c \in Blocks \ {Genesis}, Parent[c] \in S PROVE c \in S
  <2>. SUFFICES ASSUME NEW i \in 0 .. Height[c] PROVE \E d \in Ancestry[c] : Height[d] = i
    OBVIOUS
  <2>1. /\ Height[c] = Height[Parent[c]] + 1 /\ Height[Parent[c]] \in Nat
        /\ Ancestry[c] = Ancestry[Parent[c]] \cup {c}
    BY TreeAssumption
  <2>2. CASE i = Height[c]
    BY <2>1, <2>2
  <2>3. CASE i # Height[c]
    <3>1. i \in 0 .. Height[Parent[c]]
      BY <2>1, <2>3
    <3>. QED
      BY <1>2, <2>1, <3>1
  <2>. QED
    BY <2>2, <2>3
<1>3. Blocks \subseteq S
  <2>. HIDE DEF S
  <2>. QED
    BY <1>1, <1>2, ChainInduction
<1>4. AtHeight(b, k) \in Ancestry[b] /\ Height[AtHeight(b, k)] = k
  <2>1. \E d \in Ancestry[b] : Height[d] = k
    BY <1>3
  <2>. QED
    BY <2>1 DEF AtHeight
<1>5. Genesis \in Ancestry[b]
  BY ChainsAreChains DEF ChainFacts
<1>6. k = 0 => AtHeight(b, k) = Genesis
  BY <1>4, <1>5, ChainMembers, TreeAssumption
<1>. QED
  BY <1>4, <1>6, TreeAssumption

\* The meta data computed from a chain alone is that of its blocks, one after another.
LEMMA OwnMetaIsMeta ==
  ASSUME ChainMetaInv, NEW b \in index,
         \A c \in Ancestry[b] : IsProofOfStake(c) => c \in onTip
  PROVE  meta[b] = OwnMeta(b)[b]
<1>. DEFINE n == Height[b]
            M == CHOOSE g : MetaSteps(b, g, n)
            S == {k \in Nat : k <= n =>
                    /\ M[k] = [c \in Blocks |-> M[k][c]]
                    /\ \A c \in Ancestry[b] : Height[c] <= k => M[k][c] = meta[c]}
<1>1. /\ b \in Blocks /\ n \in Nat /\ Ancestry[b] \subseteq index /\ Ancestry[b] \subseteq Blocks
      /\ \A c \in Ancestry[b] : Height[c] \in Nat
  BY TreeAssumption DEF ChainMetaInv, StateInv, Inv
<1>2. OwnMeta(b) = M[n]
  BY DEF OwnMeta, MetaSteps, MetaUpTo, AtHeight, FirstMeta
<1>3. MetaSteps(b, M, n)
  <2>1. \E g : MetaSteps(b, g, n)
    BY <1>1, HaveMetaSteps
  <2>. QED
    BY <2>1
<1>. HIDE DEF M
<1>4. /\ M[0] = FirstMeta
      /\ \A k \in 1 .. n : M[k] = MetaUpTo(b, M[k - 1], k)
  BY <1>1, <1>3 DEF MetaSteps
<1>5. 0 \in S
  <2>1. ASSUME NEW c \in Ancestry[b], Height[c] <= 0 PROVE M[0][c] = meta[c]
    <3>1. Height[c] = 0
      BY <1>1, <2>1
    <3>2. Genesis \in Ancestry[b]
      BY <1>1, ChainsAreChains DEF ChainFacts
    <3>3. c = Genesis
      BY <1>1, <3>1, <3>2, ChainMembers, TreeAssumption
    <3>. QED
      BY <1>1, <1>4, <3>3 DEF FirstMeta, ChainMetaInv
  <2>. QED
    BY <1>4, <2>1 DEF FirstMeta
<1>6. ASSUME NEW k \in Nat, k \in S PROVE k + 1 \in S
  <2>. SUFFICES ASSUME k + 1 <= n
                PROVE  /\ M[k + 1] = [c \in Blocks |-> M[k + 1][c]]
                       /\ \A c \in Ancestry[b] : Height[c] <= k + 1 => M[k + 1][c] = meta[c]
    OBVIOUS
  <2>. DEFINE a == AtHeight(b, k + 1)
              p == Parent[a]
  <2>1. /\ k + 1 \in 1 .. n /\ k + 1 \in 0 .. n /\ (k + 1) - 1 = k
        /\ M[k] = [c \in Blocks |-> M[k][c]]
        /\ \A c \in Ancestry[b] : Height[c] <= k => M[k][c] = meta[c]
    BY <1>1, <1>6
  <2>2. a \in Ancestry[b] /\ Height[a] = k + 1 /\ a \in Blocks \ {Genesis}
    BY <1>1, <2>1, ChainHasHeights
  <2>3. M[k + 1] = [M[k] EXCEPT ![a] = MetaOf(a, p, M[k])]
    BY <1>4, <2>1 DEF MetaUpTo
  <2>4. p \in Blocks /\ p \in Ancestry[b] /\ Height[p] = k
    BY <1>1, <2>2, ChainMembers, TreeAssumption
  <2>5. AgreeOn(p, meta, M[k])
    <3>. SUFFICES ASSUME NEW c \in Ancestry[p] PROVE meta[c] = M[k][c]
      BY DEF AgreeOn
    <3>1. c \in Ancestry[b] /\ Height[c] <= Height[p]
      BY <1>1, <2>4, ChainMembers, ChainsAreChains DEF ChainFacts
    <3>. QED
      BY <2>1, <2>4, <3>1
  <2>6. meta[a] = MetaOf(a, p, M[k])
    <3>1. OfItsChain(a, meta)
      BY <1>1, <2>2 DEF ChainMetaInv
    <3>2. \E c \in Ancestry[p] : meta[c].generated
      BY <2>4, ChainsAreChains DEF ChainFacts, ChainMetaInv, StateInv, Inv
    <3>3. MetaOf(a, p, meta) = MetaOf(a, p, M[k])
      BY <2>2, <2>5, <3>1, <3>2, MetaIsLocal DEF OfItsChain
    <3>. QED
      BY <3>1, <3>3 DEF OfItsChain
  <2>7. ASSUME NEW c \in Ancestry[b], Height[c] <= k + 1 PROVE M[k + 1][c] = meta[c]
    <3>1. CASE c = a
      BY <2>1, <2>2, <2>3, <2>6, <3>1
    <3>2. CASE c # a
      <4>1. Height[c] <= k
        BY <1>1, <2>2, <2>7, <3>2, ChainMembers
      <4>2. c \in Blocks /\ M[k + 1][c] = M[k][c]
        BY <1>1, <2>1, <2>3, <3>2
      <4>. QED
        BY <2>1, <4>1, <4>2
    <3>. QED
      BY <3>1, <3>2
  <2>. HIDE DEF a, p
  <2>. QED
    BY <2>1, <2>3, <2>7
<1>7. n \in S
  <2>. HIDE DEF S
  <2>. QED
    BY <1>1, <1>5, <1>6, NaturalInduction
<1>8. b \in Ancestry[b]
  BY <1>1, ChainsAreChains DEF ChainFacts
<1>. QED
  BY <1>1, <1>2, <1>7, <1>8

(***************************************************************************)
(* Every node comes to the same modifiers: the meta data of a block is a   *)
(* function of its chain, over reorganizations and restarts and whatever   *)
(* came before, when its proofs of stake were accepted on the tip.         *)
(***************************************************************************)
THEOREM ModifiersAgree == Spec => []ModifiersOfTheChain
<1>1. ChainMetaInv => ModifiersOfTheChain
  BY OwnMetaIsMeta DEF ModifiersOfTheChain
<1>. QED
  BY <1>1, ChainMetaAlways, PTL
=============================================================================
