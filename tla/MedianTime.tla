----------------------------- MODULE MedianTime -----------------------------
(***************************************************************************)
(* medianTime of mediantime.go: every peer that connects contributes one   *)
(* sample of the difference between the local clock and its own, and the   *)
(* clock is adjusted by the median of the samples.                         *)
(***************************************************************************)
EXTENDS Integers, Sequences, FiniteSets

CONSTANTS
  Sources,          \* the ids samples come from
  Samples,          \* the differences, in seconds, local clock minus remote clock
  MaxEntries,       \* maxMedianTimeEntries
  MinEntries,       \* the number of samples an offset needs
  MaxAllowedOffset  \* maxAllowedOffsetSecs

\* The capacity is even, as the comment on the mirrored bug of Bitcoin Core says.
ASSUME MedianTimeAssumption ==
  /\ Samples \subseteq Int
  /\ MaxEntries \in Nat \ {0} /\ MaxEntries % 2 = 0
  /\ MinEntries \in Nat \ {0}
  /\ MaxAllowedOffset \in Nat \ {0}

VARIABLES
  knownIDs,    \* the sources that were heard
  offsets,     \* the samples kept, the oldest first
  offsetSecs,  \* the offset of the clock
  heard        \* every sample that was ever taken, in order (for the properties)

timeVars == <<knownIDs, offsets, offsetSecs, heard>>

IsOdd(n) == n % 2 = 1

Below(s, v) == {i \in DOMAIN s : s[i] < v}
UpTo(s, v) == {i \in DOMAIN s : s[i] <= v}

\* Variant: the third quarter of the sorted samples.
UpperQuartile(s) ==
  CHOOSE v \in {s[i] : i \in DOMAIN s} :
    /\ 4 * Cardinality(Below(s, v)) <= 3 * Len(s)
    /\ 3 * Len(s) < 4 * Cardinality(UpTo(s, v))

\* The element at index Len(s) \div 2, from zero, of s when it is sorted.
Median(s) ==
  CHOOSE v \in {s[i] : i \in DOMAIN s} :
    /\ Cardinality(Below(s, v)) <= Len(s) \div 2
    /\ Len(s) \div 2 < Cardinality(UpTo(s, v))

\* Variant: the list holds one sample less.
AppendedBelowCap(o) ==
  Append(IF Len(offsets) = MaxEntries - 1 THEN Tail(offsets) ELSE offsets, o)

\* The oldest sample makes room for the new one.
Appended(o) ==
  Append(IF Len(offsets) = MaxEntries THEN Tail(offsets) ELSE offsets, o)

\* Variant: an offset that is too large is applied as the maximum.
LimitedToMaximum(m) ==
  IF m >= MaxAllowedOffset THEN MaxAllowedOffset
  ELSE IF m <= -MaxAllowedOffset THEN -MaxAllowedOffset ELSE m

\* An offset that is too large is not applied at all.
Limited(m) == IF -MaxAllowedOffset < m /\ m < MaxAllowedOffset THEN m ELSE 0

AddTimeSample(id, o) ==
  /\ id \notin knownIDs
  /\ knownIDs' = knownIDs \cup {id}
  /\ offsets' = Appended(o)
  /\ offsetSecs' = IF Len(Appended(o)) >= MinEntries /\ IsOdd(Len(Appended(o)))
                   THEN Limited(Median(Appended(o))) ELSE offsetSecs
  /\ heard' = Append(heard, o)

NewMedianTime ==
  /\ knownIDs = {}
  /\ offsets = << >>
  /\ offsetSecs = 0
  /\ heard = << >>

\* A new process starts with a new median time.
ResetMedianTime ==
  /\ knownIDs' = {}
  /\ offsets' = << >>
  /\ offsetSecs' = 0
  /\ heard' = << >>

NextTime ==
  \/ \E id \in Sources, o \in Samples : AddTimeSample(id, o)
  \/ ResetMedianTime

TimeSpec == NewMedianTime /\ [][NextTime]_timeVars
-----------------------------------------------------------------------------
\* Type invariant.
TimeTypeOK ==
  /\ knownIDs \subseteq Sources
  /\ offsets \in Seq(Samples) /\ Len(offsets) <= MaxEntries
  /\ offsetSecs \in Int
  /\ heard \in Seq(Samples)

\* The number of samples the offset was last computed from: the largest odd number
\* of samples that were heard and fit.
Counted ==
  LET n == IF Len(heard) <= MaxEntries THEN Len(heard) ELSE MaxEntries
  IN  IF IsOdd(n) THEN n ELSE n - 1

(***************************************************************************)
(* The offset is a function of the first samples that were heard: what is  *)
(* heard after the list is full no longer moves the clock, although the    *)
(* list itself goes on dropping its oldest sample for the newest.          *)
(***************************************************************************)
OffsetOfFirstSamples ==
  offsetSecs = IF Counted >= MinEntries THEN Limited(Median(SubSeq(heard, 1, Counted)))
               ELSE 0

\* The clock is never moved by the maximum or more.
ClockNearLocal == -MaxAllowedOffset < offsetSecs /\ offsetSecs < MaxAllowedOffset

\* The samples counted that lie in a range.
Within(lo, hi) == {i \in 1 .. Counted : lo <= heard[i] /\ heard[i] <= hi}

(***************************************************************************)
(* As long as more than half of the counted samples lie in a range that is *)
(* allowed, so does the offset, whatever the other sources say.            *)
(***************************************************************************)
MajorityBoundsOffset ==
  Counted >= MinEntries =>
    \A lo, hi \in Samples :
      /\ -MaxAllowedOffset < lo /\ hi < MaxAllowedOffset
      /\ 2 * Cardinality(Within(lo, hi)) > Counted
      => lo <= offsetSecs /\ offsetSecs <= hi
=============================================================================
