----------------------- MODULE MC_BftConfirmation -----------------------
(* Three producers, schedules of all three or of two of them, and ranges  *)
(* of block numbers up to MaxBlock.  ThresholdIntersectionMatchesReference *)
(* compares the sweep with a direct definition on every map the tracker   *)
(* reaches, for every threshold.                                          *)
EXTENDS BftConfirmation

CONSTANTS p1, p2, p3, eosio

MC_Producers == {p1, p2, p3}
MC_Schedules == {{p1, p2, p3}, {p1, p2}}
MC_Symmetry == Permutations(MC_Producers)

\* The blocks that at least t ranges of m contain.
Quorate(m, t) == {y \in 0..MaxBlock : CoverCount(m, y) >= t}

\* threshold_intersection returns a non-empty range exactly when some block
\* is contained in at least t ranges, and then the highest maximal run of
\* such blocks, as {low, high}.
ThresholdIntersectionMatchesReference ==
  \A m \in {producer_to_last_confirmed, producer_to_second_confirmations} :
    \A t \in 1..Cardinality(DOMAIN m) + 1 :
      LET r == threshold_intersection(m, t)
          Q == Quorate(m, t)
      IN  IF Q = {}
          THEN ~(r[1] < r[2])
          ELSE LET top == CHOOSE y \in Q : \A z \in Q : z <= y
                   low == CHOOSE l \in Q : l..top \subseteq Q /\ l - 1 \notin Q
               IN  r = <<low, top + 1>>

==========================================================================
