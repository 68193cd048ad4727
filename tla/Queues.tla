-------------------------------- MODULE Queues --------------------------------
(***************************************************************************)
(* Slices from which single elements are removed while the others keep     *)
(* their order.                                                            *)
(***************************************************************************)
EXTENDS Naturals, Sequences

\* The elements of s that are not in S, in the order of s.
Without(s, S) ==
  LET kept[n \in 0 .. Len(s)] ==
        IF n = 0 THEN <<>>
        ELSE IF s[n] \in S THEN kept[n - 1] ELSE Append(kept[n - 1], s[n])
  IN  kept[Len(s)]
=============================================================================
