----------------------------- MODULE Checkpoints -----------------------------
(***************************************************************************)
(* checkpoints.go: blocks known in advance to be in the main chain, and a  *)
(* cache of the last one that was reached and of the next one.             *)
(***************************************************************************)
EXTENDS BlockTree, Integers, Sequences

CONSTANT Checkpoint  \* netParams.Checkpoints: blocks of one chain, by height

ASSUME CheckpointAssumption ==
  /\ Checkpoint \in Seq(Blocks \ {Genesis})
  /\ \A i, j \in 1 .. Len(Checkpoint) :
       i < j => /\ Checkpoint[i] \in Ancestry[Checkpoint[j]]
                /\ Height[Checkpoint[i]] < Height[Checkpoint[j]]

\* The cache: numbers of checkpoints, 0 for nil.
Caches == [block : 0 .. Len(Checkpoint), next : 0 .. Len(Checkpoint)]
NotSearched == [block |-> 0, next |-> 0]

\* verifyCheckpoint
VerifyCheckpoint(b) ==
  \A i \in 1 .. Len(Checkpoint) : Height[b] = Height[Checkpoint[i]] => b = Checkpoint[i]

\* The checkpoints on the chain of tip, which the database holds.
Stored(tip) == {i \in 1 .. Len(Checkpoint) : Checkpoint[i] \in Ancestry[tip]}

After(i) == IF i < Len(Checkpoint) THEN i + 1 ELSE 0

\* The first search, backwards through the checkpoints.
Search(tip) ==
  LET i == CHOOSE i \in Stored(tip) \cup {0} : \A j \in Stored(tip) : j <= i
  IN  [block |-> i, next |-> After(i)]

\* Variant: the next checkpoint is taken one block too early.
FindTooEarly(c, tip) ==
  IF c = NotSearched THEN Search(tip)
  ELSE IF c.next = 0 \/ Height[tip] + 1 < Height[Checkpoint[c.next]] THEN c
  ELSE [block |-> c.next, next |-> After(c.next)]

(***************************************************************************)
(* findPreviousCheckpoint: what it leaves in the cache c when tip is the   *)
(* best block; its result is the block of the cache.  One call moves on by *)
(* one checkpoint at most.  LookupSucceeds says that the block it fetches  *)
(* when it moves on is in the database.                                    *)
(***************************************************************************)
FindPreviousCheckpoint(c, tip) ==
  IF c = NotSearched THEN Search(tip)
  ELSE IF c.next = 0 \/ Height[tip] < Height[Checkpoint[c.next]] THEN c
  ELSE [block |-> c.next, next |-> After(c.next)]

LookupSucceeds(c, tip) ==
  /\ c.next # 0
  /\ Height[tip] >= Height[Checkpoint[c.next]]
  => c.next \in Stored(tip)

\* IsCurrent compares heights with LatestCheckpoint.
HasLatestHeight(tip) ==
  Len(Checkpoint) > 0 => Height[tip] >= Height[Checkpoint[Len(Checkpoint)]]
=============================================================================
