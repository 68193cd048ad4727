----------------------------- MODULE MCStakeChain -----------------------------
(***************************************************************************)
(* Above x three branches:  a1 .. a4  with a proof of stake by s at a3 and *)
(* b1 .. b4  with one by t at b3, and  p2 p3 p4  from a1, all by stake, so *)
(* that its difficulty is set anew.  The coins are from r.  Timestamps     *)
(* increase evenly, or stand still, or go back as far as the median of the *)
(* ancestors lets them.                                                    *)
(***************************************************************************)
EXTENDS StakeChain

Tree == INSTANCE MCTree

StakeParent == [r |-> "g", x |-> "r", a1 |-> "x", a2 |-> "a1", a3 |-> "a2", a4 |-> "a3",
                b1 |-> "x", b2 |-> "b1", b3 |-> "b2", b4 |-> "b3",
                p2 |-> "a1", p3 |-> "p2", p4 |-> "p3"]
StakeBlocks == DOMAIN StakeParent \cup {"g"}
StakeTrust == [b \in StakeBlocks |-> 1]
StakeHeight == Tree!Heights(StakeParent)
StakeAncestry == Tree!Ancestries(StakeParent)
StakeWork == Tree!Works(StakeParent, StakeTrust)
StakeStakeOf == [b \in StakeBlocks |-> CASE b \in {"a3", "p2"} -> "s"
                                         [] b \in {"b3", "p3"} -> "t"
                                         [] b = "p4" -> "u"
                                         [] OTHER -> "pow"]

StakeHash == [g |-> 1, r |-> 8, x |-> 5, a1 |-> 3, a2 |-> 9, a3 |-> 4, a4 |-> 12,
              b1 |-> 6, b2 |-> 2, b3 |-> 10, b4 |-> 11, p2 |-> 7, p3 |-> 13, p4 |-> 14]
StakeEntropy == [b \in StakeBlocks |-> IF b \in {"r", "a1", "b2", "p2"} THEN 1 ELSE 0]
StakeConfirmed == [b \in StakeBlocks |-> IF b = "r" THEN {"s", "t", "u"} ELSE {}]
StakeTimes ==
  {[b \in StakeBlocks |-> 2 * StakeHeight[b]],
   [b \in StakeBlocks |-> StakeHeight[b] + 1],
   [b \in StakeBlocks |-> CASE b = "g" -> 0 [] b = "r" -> 1 [] b = "x" -> 7
                            [] OTHER -> StakeHeight[b] - 1],
   [b \in StakeBlocks |-> <<0, 1, 2, 6, 8, 7, 9>>[StakeHeight[b] + 1]]}
StakeTime0 == [s |-> 1, t |-> 1, u |-> 1]
StakeValue0 == [s |-> 1, t |-> 1, u |-> 2]
MCKernelHash(b, from, modifier) == ((50 * StakeHash[b] + 70 * modifier) % 300) + 1
MCSelectionHash(hash, modifier) == (7 * hash + 5 * modifier) % 16
StakeInitial == BigToCompact(100)
StakeSections == <<1, 1>>
=============================================================================
