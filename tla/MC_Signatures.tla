--------------------------- MODULE MC_Signatures ---------------------------
(* Three keys and three authorities: a single key; two keys that must both *)
(* sign; and a weighted one where k1 alone or k2 with k3 suffices.  k3 is  *)
(* a stray key for the first two.  Signers return up to three signatures. *)
EXTENDS Signatures, TLC

CONSTANTS k1, k2, k3

MC_Keys == {k1, k2, k3}
MC_Authorities ==
  { [threshold |-> 1, keys |-> (k1 :> 1)],
    [threshold |-> 2, keys |-> (k1 :> 1) @@ (k2 :> 1)],
    [threshold |-> 2, keys |-> (k1 :> 2) @@ (k2 :> 1) @@ (k3 :> 1)] }

=============================================================================
