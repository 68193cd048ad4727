-------------------------------- MODULE Powers --------------------------------
(***************************************************************************)
(* Powers, which the shifts of difficulty.go and kernel.go multiply with,  *)
(* by a definition that proofs can unfold.                                 *)
(***************************************************************************)
EXTENDS Integers

\* PowersOf(base)[k] is base ^ k.
PowersOf(base) ==
  LET power[k \in Nat] == IF k = 0 THEN 1 ELSE base * power[k - 1]
  IN  power
=============================================================================
