---------------------------- MODULE CompactTarget ----------------------------
(***************************************************************************)
(* The numbers behind difficulty: targets, the compact form in which a     *)
(* header states its target, and the trust a block adds to its chain.      *)
(***************************************************************************)
EXTENDS Powers

CONSTANTS
  Base,       \* 256: the exponent of a compact target counts bytes
  OneLsh256   \* 2^256

ASSUME CompactAssumption ==
  /\ Base \in Nat /\ Base > 2 /\ Base % 2 = 0
  /\ OneLsh256 \in Nat \ {0}

\* What a shift by k bytes multiplies with.
ByteShift(k) == PowersOf(Base)[k]

\* A uint32 with its three parts: exponent, sign bit, and a mantissa of three
\* digits, whose first bit is that of the sign.
SignBit == ByteShift(3) \div 2
Compact == [exponent : Nat, negative : BOOLEAN, mantissa : 0 .. SignBit - 1]

\* CompactToBig
CompactToBig(c) ==
  LET n == IF c.exponent <= 3 THEN c.mantissa \div ByteShift(3 - c.exponent)
           ELSE c.mantissa * ByteShift(c.exponent - 3)
  IN  IF c.negative THEN -n ELSE n

Abs(n) == IF n < 0 THEN -n ELSE n

\* The number of digits.
Digits(n) ==
  CHOOSE k \in 0 .. Abs(n) :
    Abs(n) < ByteShift(k) /\ (k > 0 => ByteShift(k - 1) <= Abs(n))

\* The first three digits.  The shift rounds down, so that the digits of a negative
\* number are rounded up.
Leading(n) ==
  IF Digits(n) <= 3 THEN Abs(n) * ByteShift(3 - Digits(n))
  ELSE Abs(n \div ByteShift(Digits(n) - 3))

\* Variant: the sign bit is not kept free.
PackedAsIs(e, m, negative) ==
  [exponent |-> e, negative |-> negative \/ m >= SignBit, mantissa |-> m % SignBit]

(***************************************************************************)
(* The three parts of a uint32.  A mantissa that has the sign bit moves    *)
(* into the next exponent, and one that was rounded up to four digits sets *)
(* the last bit of the exponent instead.                                   *)
(***************************************************************************)
Packed(e, m, negative) ==
  IF m < SignBit THEN [exponent |-> e, negative |-> negative, mantissa |-> m]
  ELSE IF m < 2 * SignBit
       THEN [exponent |-> e + 1, negative |-> negative, mantissa |-> m \div Base]
       ELSE [exponent |-> (e + 1) - (e % 2), negative |-> negative, mantissa |-> 0]

\* BigToCompact
BigToCompact(n) ==
  IF n = 0 THEN [exponent |-> 0, negative |-> FALSE, mantissa |-> 0]
  ELSE Packed(Digits(n), Leading(n), n < 0)

\* CalcTrust: nothing for a target that is no target, one for proof of work, and
\* the expected number of attempts for proof of stake.
CalcTrust(bits, proofOfStake) ==
  IF CompactToBig(bits) <= 0 THEN 0
  ELSE IF ~proofOfStake THEN 1
  ELSE OneLsh256 \div (CompactToBig(bits) + 1)
=============================================================================
