------------------------------ MODULE BlockTree ------------------------------
(***************************************************************************)
(* The block data every other module works on.  A block is an element of   *)
(* Blocks; what a node can compute from the block alone, or from the block *)
(* and the chain of its ancestors, is a constant of the model, because it  *)
(* never changes while the node runs.                                      *)
(***************************************************************************)
EXTENDS Naturals, FiniteSets

CONSTANTS
  Blocks,       \* the blocks that can ever be delivered, Genesis included
  Genesis,      \* netParams.GenesisHash, the block every database starts with
  Parent,       \* Parent[b]: the block Header.PrevBlock of b names
  Height,       \* Height[b]: the length of the chain from Genesis to b
  Ancestry,     \* Ancestry[b]: the blocks of the chain from Genesis to b
  Trust,        \* Trust[b]: the work of b alone, meta.ChainTrust of a fresh node
  Work,         \* Work[b]: the work of the chain from Genesis to b
  Sane,         \* blocks that pass the context-free checks of ProcessBlock
  Acceptable,   \* blocks that pass the contextual checks of maybeAcceptBlock
  Connectable,  \* blocks whose transactions pass checkConnectBlock
  StakeOf,      \* StakeOf[b]: the coinstake kernel of b, NoStake for proof of work
  Stakes,       \* the coinstake kernels
  NoStake       \* the kernel of a proof-of-work block

(***************************************************************************)
(* A header commits to the hash of its parent, so the blocks form a tree   *)
(* rooted at Genesis: the chain of a block is the chain of its parent and  *)
(* the block itself, one higher.                                           *)
(***************************************************************************)
ASSUME TreeAssumption ==
  /\ IsFiniteSet(Blocks)
  /\ Genesis \in Blocks
  /\ Parent \in [Blocks \ {Genesis} -> Blocks]
  /\ Height \in [Blocks -> Nat]
  /\ Height[Genesis] = 0
  /\ \A b \in Blocks \ {Genesis} : Height[b] = Height[Parent[b]] + 1
  /\ Ancestry \in [Blocks -> SUBSET Blocks]
  /\ Ancestry[Genesis] = {Genesis}
  /\ \A b \in Blocks \ {Genesis} : Ancestry[b] = Ancestry[Parent[b]] \cup {b}

(***************************************************************************)
(* CalcTrust gives a decodable target at least one unit of work, and the   *)
(* work of a chain is the sum over its blocks.                             *)
(***************************************************************************)
ASSUME WorkAssumption ==
  /\ Trust \in [Blocks -> Nat \ {0}]
  /\ Work \in [Blocks -> Nat]
  /\ Work[Genesis] = Trust[Genesis]
  /\ \A b \in Blocks \ {Genesis} : Work[b] = Work[Parent[b]] + Trust[b]

\* The genesis block is built in and passes every check.
ASSUME ValidityAssumption ==
  /\ Sane \subseteq Blocks
  /\ Acceptable \subseteq Blocks
  /\ Connectable \subseteq Blocks
  /\ Genesis \in Sane \cap Acceptable \cap Connectable

ASSUME StakeAssumption ==
  /\ NoStake \notin Stakes
  /\ StakeOf \in [Blocks -> Stakes \cup {NoStake}]

\* A block is fully valid when the whole chain below it connects.
FullyValid(b) == Ancestry[b] \subseteq Connectable

\* The blocks of the chain of b that lie above a.
ChainAbove(b, a) == {c \in Ancestry[b] : Height[c] > Height[a]}

\* The member of a set of blocks of one chain that comes first, and last.
Lowest(S) == CHOOSE b \in S : \A c \in S : Height[b] <= Height[c]
Highest(S) == CHOOSE b \in S : \A c \in S : Height[c] <= Height[b]
=============================================================================
