--------------------------- MODULE MC_DposChain ---------------------------
(* Model-checking instance of DposChain: three or four producers, counters *)
(* of at most three slots.                                                 *)
EXTENDS DposChain, TLC

CONSTANTS p1, p2, p3, p4

MC_Producers == {p1, p2, p3}
MC_Producers4 == {p1, p2, p3, p4}

\* every non-empty producer set may be announced
MC_Schedules == (SUBSET MC_Producers) \ {{}}
\* the full set of four and the three left when p4 leaves
MC_Shrink4 == {MC_Producers4, MC_Producers4 \ {p4}}

\* Search restriction of run dpos_lib (an action constraint, so every
\* behaviour it keeps is a behaviour of Spec): while no schedule change is
\* pending and p4 has not left, the block announces the next one, first the
\* four producers, then the three without p4.
MC_Announces ==
  (pending_schedule.schedule.producers = {} /\ active_schedule.producers # MC_Producers4 \ {p4})
    => pending_schedule'.schedule.producers =
         IF active_schedule.producers = {p1} THEN MC_Producers4 ELSE MC_Producers4 \ {p4}

\* the history variables do not influence any step: runs whose properties
\* do not mention them may identify states that differ only there
MC_View == <<chain, tracker>>

\* p1 is the initial producer, so only the others are interchangeable
MC_Symmetry == Permutations({p2, p3})

=============================================================================
