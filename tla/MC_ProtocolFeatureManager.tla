--------------------- MODULE MC_ProtocolFeatureManager ---------------------
(* Three builtin features (f2 depends on f1), one unrecognized digest, and *)
(* two stored ledgers for init: a valid one and one naming the             *)
(* unrecognized digest, on which init stops half-way.                      *)
EXTENDS ProtocolFeatureManager, TLC

CONSTANTS f1, f2, f3, u

MC_Features == {f1, f2, f3}
MC_Digests == {f1, f2, f3, u}
MC_Dependencies == [f \in MC_Features |-> IF f = f2 THEN {f1} ELSE {}]
MC_StoredLedgers ==
  { <<[feature |-> f1, block |-> 1], [feature |-> f3, block |-> 1]>>,
    <<[feature |-> f3, block |-> 1], [feature |-> u, block |-> 2]>> }

=============================================================================
