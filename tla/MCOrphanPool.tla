---------------------------- MODULE MCOrphanPool ----------------------------
(***************************************************************************)
(* OrphanPool with a limit of two orphans: x waits for p, the siblings y   *)
(* and z wait for q and share a coinstake, and w waits for y.              *)
(***************************************************************************)
EXTENDS OrphanPool

Tree == INSTANCE MCTree

MCParent == [p |-> "g", x |-> "p", q |-> "g", y |-> "q", z |-> "q", w |-> "y"]
MCBlocks == DOMAIN MCParent \cup {"g"}
MCHeight == Tree!Heights(MCParent)
MCAncestry == Tree!Ancestries(MCParent)
MCTrust == [b \in MCBlocks |-> 1]
MCWork == Tree!Works(MCParent, MCTrust)
MCStakes == {"s"}
MCStakeOf == [b \in MCBlocks |-> IF b \in {"y", "z"} THEN "s" ELSE "pow"]
=============================================================================
