--------------------------- MODULE BftConfirmation ---------------------------
(***************************************************************************)
(* confirmation_group_v1 of libraries/chain/block_header_state.cpp: the    *)
(* BFT confirmation tracker.  Each producer of the schedule has its last   *)
(* confirmed half-open range [first, second) of block numbers; a producer  *)
(* that confirms the top of a range that at least threshold producers      *)
(* confirm records a "second confirmation" range, and the same sweep over  *)
(* the second confirmations gives the irreversible block.                  *)
(*                                                                         *)
(* The operations are the ones the code exposes: set_producers (at a       *)
(* schedule change) and confirm(producer, range), called here with any     *)
(* range of block numbers up to MaxBlock as the unit tests do.  A call     *)
(* whose assert fails throws and leaves the group as it was, and confirm   *)
(* with an empty range returns the group unchanged: neither is a step.     *)
(***************************************************************************)
EXTENDS Naturals, Integers, FiniteSets, Sequences, SequencesExt, TLC

CONSTANTS
  Producers,   \* producer names a schedule may hold
  Eosio,       \* N(eosio), the producer an empty group falls back to
  Schedules,   \* producer sets set_producers may be called with
  MaxBlock     \* largest block number in a confirmed range (model bound)

ASSUME BftAssumption ==
  /\ Eosio \notin Producers
  /\ Schedules \subseteq (SUBSET Producers) \ {{}}
  /\ MaxBlock \in Nat

VARIABLES
  producer_to_last_confirmed,        \* producer -> <<first, second>>
  producer_to_second_confirmations,  \* producer -> <<first, second>>
  proposed_irreversible_blocknum,
  irreversible_blocknum

vars == <<producer_to_last_confirmed, producer_to_second_confirmations,
          proposed_irreversible_blocknum, irreversible_blocknum>>

\* A map with no entries (a cleared flat_map).
EmptyMap == [q \in {} |-> <<0, 0>>]

\* set_producers: every producer of the schedule starts at the empty range
\* {0,0}; all second confirmations are dropped.
SetProducers(ps) == [q \in ps |-> <<0, 0>>]

\* A default-constructed group: no producers, both block numbers 0.
Init ==
  /\ producer_to_last_confirmed = EmptyMap
  /\ producer_to_second_confirmations = EmptyMap
  /\ proposed_irreversible_blocknum = 0
  /\ irreversible_blocknum = 0

(***************************************************************************)
(* threshold_intersection(inputs, threshold): every range gives the event  *)
(* <<first, 1>> and <<second, -1>>; the events are sorted by               *)
(* std::greater<> on pairs and swept from the top.  When the position      *)
(* changes, total is the number of ranges covering [x, prev) and           *)
(* prev_total the number covering the span above it.  The uint32 total     *)
(* wraps below zero only between the start and the end event of an empty  *)
(* range at one position, and is never compared in between, so it is an   *)
(* integer here.                                                           *)
(***************************************************************************)
Counters(inputs) ==
  LET ps == SetToSeq(DOMAIN inputs)
  IN  [i \in 1..2 * Len(ps) |->
         IF i % 2 = 1 THEN <<inputs[ps[(i + 1) \div 2]][1], 1>>
                      ELSE <<inputs[ps[i \div 2]][2], -1>>]

\* std::greater<> on std::pair<uint32_t, int8_t>
Greater(a, b) == a[1] > b[1] \/ (a[1] = b[1] /\ a[2] > b[2])

\* Mutant: the start of the covered span taken at the new position x.
SweepStep_start_at_x(t, st, e) ==
  IF st.done THEN st
  ELSE IF e[1] # st.prev
       THEN IF st.prev_total >= t /\ st.total < t
            THEN [st EXCEPT !.done = TRUE]
            ELSE [st EXCEPT !.start = IF st.prev_total < t /\ st.total >= t
                                      THEN e[1] ELSE st.start,
                            !.prev_total = st.total,
                            !.prev = e[1],
                            !.total = st.total - e[2]]
       ELSE [st EXCEPT !.total = st.total - e[2]]

\* One iteration of the sweep loop; done is the break.
SweepStep(t, st, e) ==
  IF st.done THEN st
  ELSE IF e[1] # st.prev
       THEN IF st.prev_total >= t /\ st.total < t
            THEN [st EXCEPT !.done = TRUE]
            ELSE [st EXCEPT !.start = IF st.prev_total < t /\ st.total >= t
                                      THEN st.prev ELSE st.start,
                            !.prev_total = st.total,
                            !.prev = e[1],
                            !.total = st.total - e[2]]
       ELSE [st EXCEPT !.total = st.total - e[2]]

\* The highest range covered by at least t input ranges, as {prev, start}.
threshold_intersection(inputs, t) ==
  LET st == FoldLeft(LAMBDA s, e : SweepStep(t, s, e),
                     [start |-> 0, prev |-> 0, total |-> 0, prev_total |-> 0,
                      done |-> FALSE],
                     SortSeq(Counters(inputs), Greater))
  IN  <<st.prev, st.start>>

\* producer_to_last_confirmed.size()*2/3 + 1
Threshold(m) == (Cardinality(DOMAIN m) * 2) \div 3 + 1

MaxOf(a, b) == IF a >= b THEN a ELSE b

\* Mutant: the proposed block taken at the end of the covered span.
NewProposed_at_end(old, sc) == MaxOf(old, sc[2])

\* std::max(proposed_irreversible_blocknum, second_confirmations.second - 1)
NewProposed(old, sc) == MaxOf(old, sc[2] - 1)

\* Mutant: the irreversible block taken at the end of the covered span.
NewIrreversible_at_end(old, lh) == IF lh[1] < lh[2] THEN MaxOf(old, lh[2]) ELSE old

\* The second tier: if low < high, std::max(irreversible_blocknum, high - 1).
NewIrreversible(old, lh) == IF lh[1] < lh[2] THEN MaxOf(old, lh[2] - 1) ELSE old

\* confirm(producer, {lo, hi}): the empty-group fallback to {eosio}, the
\* threshold, the "Illegal confirmation" assert, the extend-or-replace of
\* the producer's range, then the two tiers.
Confirm(p, lo, hi) ==
  LET empty  == DOMAIN producer_to_last_confirmed = {}
      base   == IF empty THEN SetProducers({Eosio}) ELSE producer_to_last_confirmed
      second == IF empty THEN EmptyMap ELSE producer_to_second_confirmations
      t      == Threshold(base)
  IN  /\ lo # hi
      /\ p \in DOMAIN base
      /\ base[p][2] <= lo
      /\ lo <= hi
      /\ LET range == IF base[p][2] = lo THEN <<base[p][1], hi>> ELSE <<lo, hi>>
             last  == [base EXCEPT ![p] = range]
             sc    == <<range[1], threshold_intersection(last, t)[2]>>
             sec2  == (p :> sc) @@ second
         IN  /\ producer_to_last_confirmed' = last
             /\ IF sc[1] < sc[2]
                THEN /\ proposed_irreversible_blocknum' =
                          NewProposed(proposed_irreversible_blocknum, sc)
                     /\ producer_to_second_confirmations' = sec2
                     /\ irreversible_blocknum' =
                          NewIrreversible(irreversible_blocknum,
                                          threshold_intersection(sec2, t))
                ELSE /\ producer_to_second_confirmations' = second
                     /\ UNCHANGED <<proposed_irreversible_blocknum,
                                    irreversible_blocknum>>

\* set_producers at a schedule change; the two block numbers are kept.
ChangeSchedule(ps) ==
  /\ producer_to_last_confirmed' = SetProducers(ps)
  /\ producer_to_second_confirmations' = EmptyMap
  /\ UNCHANGED <<proposed_irreversible_blocknum, irreversible_blocknum>>

Next ==
  \/ \E ps \in Schedules : ChangeSchedule(ps)
  \/ \E p \in Producers \cup {Eosio}, lo, hi \in 0..MaxBlock : Confirm(p, lo, hi)

Spec == Init /\ [][Next]_vars

-----------------------------------------------------------------------------

\* The number of ranges of m that contain block y.
CoverCount(m, y) ==
  Cardinality({q \in DOMAIN m : m[q][1] <= y /\ y < m[q][2]})

\* Whenever confirm raises proposed_irreversible_blocknum to b, at least
\* threshold (2/3 + 1) producers of the schedule have a confirmed range that
\* contains b: the first tier never proposes a block without a quorum.
ProposedHasQuorum ==
  [][proposed_irreversible_blocknum' # proposed_irreversible_blocknum =>
       CoverCount(producer_to_last_confirmed', proposed_irreversible_blocknum')
         >= Threshold(producer_to_last_confirmed')]_vars

\* The tracker implements FinalityWatermarks: proposed_irreversible_blocknum
\* and irreversible_blocknum never decrease and the irreversible block never
\* passes the proposed one, through every confirm and every set_producers,
\* although the two are computed by separate sweeps over separate maps and
\* set_producers drops the second tier.
FW == INSTANCE FinalityWatermarks
        WITH proposed <- proposed_irreversible_blocknum,
             final <- irreversible_blocknum

ImplementsFinalityWatermarks == FW!Spec

=============================================================================
