---------------------------- MODULE BlockLocator ----------------------------
(***************************************************************************)
(* blocklocator.go: the list of hashes that tells a peer which blocks a    *)
(* node has below a given one, dense near it and sparse further down.      *)
(***************************************************************************)
EXTENDS BlockTree, Powers, Sequences

CONSTANTS
  DenseEntries,  \* the number of entries after which the step doubles
  MaxLocators    \* btcwire.MaxBlockLocatorsPerMsg

(***************************************************************************)
(* A message holds 500 hashes, of which the first ten are dense; doubling  *)
(* goes down further in the rest than any height, which is an int64.       *)
(***************************************************************************)
ASSUME LocatorAssumption ==
  /\ DenseEntries \in Nat /\ MaxLocators \in Nat /\ DenseEntries + 2 <= MaxLocators
  /\ \A b \in Blocks : Height[b] < PowersOf(2)[MaxLocators - DenseEntries - 2]

NoFork == -1

(***************************************************************************)
(* The height at which b leaves the main chain.  The walk ends before the  *)
(* oldest node in memory, whose parent is nil, so a fork from it counts as *)
(* none.  That node is Genesis here: all nodes are in memory, as they are  *)
(* in a chain of fewer than minMemoryNodes blocks.  NodeIndex has the      *)
(* pruning of longer ones.                                                 *)
(***************************************************************************)
ForkHeight(b, main) ==
  LET fork == Highest(Ancestry[b] \cap main)
  IN  IF b \in main \/ fork = Genesis THEN NoFork ELSE Height[fork]

\* Variant: the step doubles from the start.
AlwaysDoubled(w) == 2 * w.step

Increment(w) == IF Len(w.locator) > DenseEntries THEN 2 * w.step ELSE w.step

(***************************************************************************)
(* The entries of height h.  On the side chain the loop that should walk   *)
(* down to h compares the wrong way around: it stays at b, and nothing is  *)
(* appended.                                                               *)
(***************************************************************************)
EntryAt(h, b, main) ==
  LET side == ForkHeight(b, main) # NoFork /\ h > ForkHeight(b, main)
      at == {c \in IF side THEN {b} ELSE main : Height[c] = h}
  IN  IF at = {} THEN << >> ELSE << CHOOSE c \in at : TRUE >>

\* The loop, after at most k rounds.
Walk(b, main) ==
  LET W[k \in 0 .. Height[b]] ==
        IF k = 0 THEN [height |-> Height[b], step |-> 1, locator |-> <<b>>]
        ELSE LET w == W[k - 1]
                 h == w.height - Increment(w)
             IN  IF Len(w.locator) >= MaxLocators - 1 \/ h < 1 THEN w
                 ELSE [height |-> h, step |-> Increment(w),
                       locator |-> w.locator \o EntryAt(h, b, main)]
  IN  W[Height[b]]

\* BlockLocatorFromHash, for a node whose main chain is main and that knows index.
BlockLocatorFromHash(b, main, index) ==
  IF b = Genesis \/ b \notin index THEN <<b>>
  ELSE Append(Walk(b, main).locator, Genesis)

-----------------------------------------------------------------------------
\* A block whose fork the code sees.
ForkIsSeen(b, main) == b \in main \/ Highest(Ancestry[b] \cap main) # Genesis

\* The entry a peer that has exactly the chain of f finds first.
FirstKnown(s, f) ==
  LET known == {i \in 1 .. Len(s) : s[i] \in Ancestry[f]}
  IN  s[CHOOSE i \in known : \A j \in known : i <= j]

\* The entries lie on the chain of b and go down from b to Genesis.
Descends(s, b) ==
  /\ s[1] = b /\ s[Len(s)] = Genesis
  /\ \A i \in 1 .. Len(s) : s[i] \in Ancestry[b]
  /\ \A i \in 2 .. Len(s) : Height[s[i]] < Height[s[i - 1]]

\* A peer whose chain leaves that of b at f, d blocks below b, is sent at most
\* d - DenseEntries blocks it has, and none when f is that near.
LocatesFork(s, b, f) ==
  LET d == Height[b] - Height[f]
      again == Height[f] - Height[FirstKnown(s, f)]
  IN  again <= IF d > DenseEntries THEN d - DenseEntries ELSE 0
=============================================================================
