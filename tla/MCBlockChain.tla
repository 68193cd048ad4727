---------------------------- MODULE MCBlockChain ----------------------------
(***************************************************************************)
(* The block trees BlockChain is checked on.                               *)
(*                                                                         *)
(* Fork: two branches a and b that overtake each other twice, a branch x,  *)
(* y with more work that does not connect, a block r with the most work    *)
(* that is refused outright, and a block d that only dry runs deliver.     *)
(* Where a run delivers them, k is added fast, though it passes no check   *)
(* that BFFastAdd leaves out, and its child l, no better, arrives without  *)
(* that flag.                                                              *)
(*                                                                         *)
(* Twig: a small tree that grows out of order, so that its blocks spend    *)
(* time in an orphan pool of two, and overtake each other when released;   *)
(* c and e share a coinstake.                                              *)
(***************************************************************************)
EXTENDS BlockChain

Tree == INSTANCE MCTree

ForkParent == [a1 |-> "g", a2 |-> "a1", a3 |-> "a2", b1 |-> "g", b2 |-> "b1",
               x |-> "a1", y |-> "x", r |-> "a2", d |-> "b1", k |-> "a1", l |-> "k"]
ForkBlocks == DOMAIN ForkParent \cup {"g"}
ForkTrust == [g |-> 1, a1 |-> 1, a2 |-> 1, a3 |-> 2, b1 |-> 1, b2 |-> 2,
              x |-> 2, y |-> 3, r |-> 5, d |-> 4, k |-> 1, l |-> 1]
ForkConnectable == ForkBlocks \ {"x", "k", "l"}
ForkAcceptable == ForkBlocks \ {"r", "k", "l"}
ForkFastAcceptable == ForkBlocks \ {"r"}
ForkCalls == [b \in ForkBlocks |->
                CASE b = "d" -> {{"dryRun"}}
                  [] b = "a3" -> {{}, {"fastAdd"}}
                  [] b = "b2" -> {{}, {"dryRun"}}
                  [] b \in {"k", "l"} -> {}
                  [] OTHER -> {{}}]
FaultCalls == [ForkCalls EXCEPT !["k"] = {{"fastAdd"}}, !["l"] = {{}}]
ForkHeight == Tree!Heights(ForkParent)
ForkAncestry == Tree!Ancestries(ForkParent)
ForkWork == Tree!Works(ForkParent, ForkTrust)
ForkStakeOf == [b \in ForkBlocks |-> "pow"]

-----------------------------------------------------------------------------
TwigParent == [a |-> "g", b |-> "a", c |-> "b", d |-> "a", e |-> "d"]
TwigBlocks == DOMAIN TwigParent \cup {"g"}
TwigTrust == [g |-> 1, a |-> 1, b |-> 1, c |-> 1, d |-> 2, e |-> 1]
TwigHeight == Tree!Heights(TwigParent)
TwigAncestry == Tree!Ancestries(TwigParent)
TwigWork == Tree!Works(TwigParent, TwigTrust)
TwigStakes == {"s"}
TwigStakeOf == [b \in TwigBlocks |-> IF b \in {"c", "e"} THEN "s" ELSE "pow"]
TwigCalls == [b \in TwigBlocks |-> {{}}]

\* The same tree when b does not connect.
TwigBadB == TwigBlocks \ {"b"}
=============================================================================
