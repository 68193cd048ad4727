------------------------------ MODULE MCTxStore ------------------------------
(***************************************************************************)
(* Two branches a and b over a common stem, and all ways to fill them from *)
(* a few transactions:                                                     *)
(*   c1 .. c5  coinbases, of which no two blocks of a chain need share one *)
(*   e, e5     the empty coinbases of proof-of-stake blocks                *)
(*   t1, t2    spend the same output of c1                                 *)
(*   t3        spends outputs of t1 and of c1                              *)
(*   t4        spends an output of c2 and one of t2                        *)
(*   bad       spends the output after the last one of t1                  *)
(*   s         a coinstake of an output of c1, and s2 one of t1            *)
(* The coin that s2 stakes in b4 is old enough on branch b, and not by the *)
(* times of branch a; for s2 in a5 it is the other way round.              *)
(***************************************************************************)
EXTENDS TxStore

Tree == INSTANCE MCTree

ForkParent == [r |-> "g", a2 |-> "r", a3 |-> "a2", b2 |-> "r", b3 |-> "b2", b4 |-> "b3",
               a5 |-> "a3"]
ForkBlocks == DOMAIN ForkParent \cup {"g"}
ForkHeight == Tree!Heights(ForkParent)
ForkAncestry == Tree!Ancestries(ForkParent)
ForkTrust == [b \in ForkBlocks |-> IF b = "a5" THEN 3 ELSE 1]
ForkWork == Tree!Works(ForkParent, ForkTrust)
ForkStakeOf == [b \in ForkBlocks |-> "pow"]
ForkTime == [g |-> 0, r |-> 1, a2 |-> 4, a3 |-> 4, a5 |-> 5, b2 |-> 2, b3 |-> 4, b4 |-> 5]

McCoinbases == {"c1", "c2", "c3", "c4", "c5", "e", "e5"}
McCoinstakes == {"s", "s2"}
McTxs == McCoinbases \cup McCoinstakes \cup {"t1", "t2", "t3", "t4", "bad"}
McOuts == [t \in McTxs |-> 
  IF t \in {"c1", "c2", "t1", "t2"} \cup McCoinstakes THEN 2 ELSE 1]
McInputs ==
  [t \in McTxs |->
     CASE t \in {"t1", "t2"} -> {<<"c1", 0>>}
       [] t = "t3" -> {<<"t1", 0>>, <<"c1", 1>>}
       [] t = "t4" -> {<<"t2", 0>>, <<"c2", 0>>}
       [] t = "bad" -> {<<"t1", 2>>}
       [] t = "s" -> {<<"c1", 1>>}
       [] t = "s2" -> {<<"t1", 0>>}
       [] OTHER -> {}]
McValue == [o \in McTxs \X (0 .. 2) |->
              CASE o[1] \in {"e", "e5"} \/ o \in McCoinstakes \X {0} -> 0
                [] o[1] \in McCoinbases \ {"e", "e5"} -> 4
                [] o[1] \in {"t1", "t2"} -> 1
                [] o = <<"s", 1>> -> 6
                [] OTHER -> 2]
McTxTime == [t \in McTxs |-> CASE t \in {"c1", "c2", "c3", "t1", "t2"} -> 1
                               [] t = "t4" -> 0
                               [] t = "s" -> 4
                               [] t = "s2" -> 5
                               [] OTHER -> 2]

\* The contents after the coinbase, by block.
Contents(r, a2, a3, a5, b2, b3, b4) ==
  [g : {<< >>}, r : r, a2 : a2, a3 : a3, a5 : a5, b2 : b2, b3 : b3, b4 : b4]

McBodies ==
  Contents({<<"c1">>},
           {<<"c2">>, <<"c2", "t1">>, <<"c2", "t2">>, <<"c2", "t1", "t3">>,
            <<"c2", "t3", "t1">>, <<"e", "s", "t1">>},
           {<<"c3">>, <<"c3", "t3">>, <<"c3", "t2">>, <<"e", "s">>, <<"c2">>},
           {<<"c5">>, <<"c5", "t1">>, <<"e5", "s2">>},
           {<<"c2">>, <<"c2", "t1">>, <<"c2", "t2">>, <<"c4", "t4">>},
           {<<"c3">>, <<"c3", "t1", "t3">>, <<"c3", "t3">>, <<"e", "s">>, <<"c3", "bad">>},
           {<<"c4">>, <<"c4", "t1">>, <<"c4", "t2", "t4">>, <<"c4", "t1", "t2">>, <<"c2">>,
            <<"e5", "s2">>})
=============================================================================
