---------------------------- MODULE MCHeaderChain ----------------------------
(***************************************************************************)
(* The main chain r k c3 c4 m5 c6 has the checkpoints c3, c4 and c6.  Its  *)
(* timestamps go back twice, at c3 and at c6, while its medians go up.     *)
(* Next to it:  o2 with a timestamp that is too old, which a fast add      *)
(* accepts,  d5 with one that would lower the median after the window has  *)
(* left the genesis block and r behind,  x2 so heavy that the main chain   *)
(* passes all checkpoints at once, with c6,  x3 at the height of a         *)
(* checkpoint,  z5 with the most work, which leaves out c6,  u1, which     *)
(* does not connect, and f1 from the far future.                           *)
(***************************************************************************)
EXTENDS HeaderChain, TLC

Tree == INSTANCE MCTree

HeadParent == [r |-> "g", k |-> "r", c3 |-> "k", c4 |-> "c3", m5 |-> "c4", c6 |-> "m5",
               o2 |-> "r", x2 |-> "r", x3 |-> "x2", z5 |-> "c4", d5 |-> "c4", u1 |-> "g",
               f1 |-> "g"]
HeadBlocks == DOMAIN HeadParent \cup {"g"}
HeadTrust == [g |-> 1, r |-> 1, k |-> 1, c3 |-> 1, c4 |-> 1, m5 |-> 1, c6 |-> 1,
              o2 |-> 1, x2 |-> 4, x3 |-> 1, z5 |-> 9, d5 |-> 1, u1 |-> 2,
              f1 |-> 1]
HeadHeight == Tree!Heights(HeadParent)
HeadAncestry == Tree!Ancestries(HeadParent)
HeadWork == Tree!Works(HeadParent, HeadTrust)
HeadStakeOf == [b \in HeadBlocks |-> "pow"]
HeadConnectable == HeadBlocks \ {"u1"}
HeadTime == [g |-> 0, r |-> 3, k |-> 5, c3 |-> 4, c4 |-> 5, m5 |-> 8, c6 |-> 6,
             o2 |-> 1, x2 |-> 4, x3 |-> 4, z5 |-> 6, d5 |-> 4, u1 |-> 1, f1 |-> 10]
HeadCheckpoint == <<"c3", "c4", "c6">>
HeadSamples == {-1, 1, 5}

SourceSymmetry == Permutations(Sources)
=============================================================================
