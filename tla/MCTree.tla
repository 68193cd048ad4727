------------------------------- MODULE MCTree -------------------------------
(***************************************************************************)
(* What BlockTree's constants have in common in every model: given the     *)
(* parents and the work of single blocks, the tables that BlockTree        *)
(* derives from them.                                                      *)
(***************************************************************************)
EXTENDS Naturals

\* The table F with F["g"] = base and F[b] = Step(F[parent of b], b).
AlongChain(parent, base, Step(_, _)) ==
  LET F[b \in DOMAIN parent \cup {"g"}] ==
        IF b = "g" THEN base ELSE Step(F[parent[b]], b)
  IN  F

Heights(parent) == AlongChain(parent, 0, LAMBDA h, b : h + 1)
Ancestries(parent) == AlongChain(parent, {"g"}, LAMBDA s, b : s \cup {b})
Works(parent, trust) == AlongChain(parent, trust["g"], LAMBDA w, b : w + trust[b])
=============================================================================
