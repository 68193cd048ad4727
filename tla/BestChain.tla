------------------------------ MODULE BestChain ------------------------------
(***************************************************************************)
(* What doc.go and ProcessBlock promise of best chain selection, without   *)
(* the database, the caches and the reorganization that keep the promise:  *)
(* the node knows a tree of blocks, and its main chain ends at the fully   *)
(* valid block with the most work, the first one seen among equals.        *)
(***************************************************************************)
EXTENDS BlockTree

VARIABLES
  tree,  \* the blocks of the main chain and the side chains
  tip    \* the end of the main chain

vars == <<tree, tip>>

Init == tree = {Genesis} /\ tip = Genesis

\* The node accepts a block, which becomes the tip only if it must.
Accept(b) ==
  /\ b \notin tree
  /\ Parent[b] \in tree
  /\ tree' = tree \cup {b}
  /\ tip' = IF FullyValid(b) /\ Work[b] > Work[tip] THEN b ELSE tip

Next == \E b \in Blocks \ {Genesis} : Accept(b)

Spec == Init /\ [][Next]_vars

\* Type invariant: the tree is a set of blocks that holds the tip.
TypeOK == tree \subseteq Blocks /\ tip \in tree

(***************************************************************************)
(* doc.go: "ensure any side chains which have higher difficulty than the   *)
(* main chain become the new main chain", and never through a block whose  *)
(* chain does not connect.                                                 *)
(***************************************************************************)
HeaviestIsTip ==
  /\ FullyValid(tip)
  /\ \A b \in tree : FullyValid(b) => Work[b] <= Work[tip]
=============================================================================
