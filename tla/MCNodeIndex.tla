----------------------------- MODULE MCNodeIndex -----------------------------
(***************************************************************************)
(* NodeIndex with three nodes kept in memory, on a tree whose branches     *)
(* overtake each other: c3 makes the end of the main chain lower than a4,  *)
(* c4 and a5 make their branches heavier again, and b3 needs b2, whose     *)
(* parent m1 may be pruned by then.                                        *)
(***************************************************************************)
EXTENDS NodeIndex

Tree == INSTANCE MCTree

MCParent == [m1 |-> "g", a2 |-> "m1", a3 |-> "a2", a4 |-> "a3", a5 |-> "a4",
             b2 |-> "m1", b3 |-> "b2", c3 |-> "a2", c4 |-> "c3"]
MCBlocks == DOMAIN MCParent \cup {"g"}
MCTrust == [g |-> 1, m1 |-> 1, a2 |-> 1, a3 |-> 1, a4 |-> 1, a5 |-> 5, b2 |-> 1,
            b3 |-> 7, c3 |-> 4, c4 |-> 2]
MCHeight == Tree!Heights(MCParent)
MCAncestry == Tree!Ancestries(MCParent)
MCWork == Tree!Works(MCParent, MCTrust)
MCStakeOf == [b \in MCBlocks |-> "pow"]
=============================================================================
