----------------------------- MODULE DposChain -----------------------------
(***************************************************************************)
(* The block-header state machine of libraries/chain/block_header_state.cpp *)
(* running the DPOS confirmation tracker (detail::confirmation_group_v0).   *)
(*                                                                         *)
(* One step is one block: block_header_state::next(when, confirmed)        *)
(* builds the template (scheduled producer, confirmation update, possible  *)
(* promotion of the pending schedule) and pending_block_header_state::     *)
(* _finish_next turns it into the next state, possibly recording a newly   *)
(* proposed producer schedule.  A template whose header is rejected is     *)
(* discarded with no effect, so only the accepted outcome is a step.       *)
(*                                                                         *)
(* Abstracted: ids, merkle roots, timestamps (any future slot may be used, *)
(* so any producer of the active schedule may produce the next block),     *)
(* signatures (module of their own), header extensions other than the      *)
(* schedule change; the legacy new_producers field and the                 *)
(* producer_schedule_change_extension have the same guards and effect and *)
(* are one input here.                                                     *)
(***************************************************************************)
EXTENDS Naturals, Sequences, FiniteSets

CONSTANTS
  Producers,        \* account names that may appear in a producer schedule
  InitialProducer,  \* the single producer of the schedule at the snapshot
  SnapshotBlock,    \* block_num of the state the chain starts from
  MaxTracked,       \* config::maximum_tracked_dpos_confirmations
  MaxConfirm,       \* largest num_prev_blocks_to_confirm tried (uint16 in code)
  ProposedSchedules, \* producer sets a header may announce as new schedule
  MaxBlock          \* last block number explored (model bound)

ASSUME ConstantsAssumption ==
  /\ InitialProducer \in Producers
  \* a schedule has at most config::max_producers (125) producers, which
  \* keeps required_confs within the uint8 counters (static_assert, confirm)
  /\ IsFiniteSet(Producers) /\ Cardinality(Producers) <= 125
  /\ SnapshotBlock \in Nat \ {0}
  /\ MaxTracked \in Nat \ {0}
  /\ MaxConfirm \in Nat
  /\ ProposedSchedules \subseteq (SUBSET Producers) \ {{}}
  /\ MaxBlock \in Nat

VARIABLES
  block_num,                              \* block number of the head
  active_schedule,                        \* [version, producers]
  pending_schedule,                       \* [schedule, schedule_lib_num]
  confirm_count,                          \* outstanding confirmations per recent block (uint8)
  dpos_proposed_irreversible_blocknum,
  dpos_irreversible_blocknum,
  producer_to_last_produced,              \* partial map producer -> block
  producer_to_last_implied_irb,           \* partial map producer -> block
  (* history variables, not in the code: who decremented which block's   *)
  (* counter, and the counter each block's slot was created with          *)
  confirmations_of,
  schedule_size_of

chain == <<block_num, active_schedule, pending_schedule>>
tracker == <<confirm_count, dpos_proposed_irreversible_blocknum,
             dpos_irreversible_blocknum, producer_to_last_produced,
             producer_to_last_implied_irb>>
ghost == <<confirmations_of, schedule_size_of>>
vars == <<chain, tracker, ghost>>

Blocks == 1..MaxBlock
Schedule == [version : Nat, producers : SUBSET Producers]
NoSchedule == [version |-> 0, producers |-> {}]

-----------------------------------------------------------------------------
(* Helpers on partial maps (flat_map<account_name, uint32_t>).            *)

\* m[k] = v, inserting k when it is absent
MapPut(m, k, v) == [q \in DOMAIN m \cup {k} |-> IF q = k THEN v ELSE m[q]]

\* the largest element of S \subseteq 1..n, 0 when S is empty
Top(S, n) == Cardinality({t \in 1..n : \E s \in S : t <= s})

\* mutant: the order statistic taken at size/3 instead of (size-1)/3
calc_dpos_last_irreversible_at_third(m, p, v, bound) ==
  LET val(q) == IF q = p THEN v ELSE m[q]
      n == Cardinality(DOMAIN m)
  IN  IF n = 0 THEN 0
      ELSE Cardinality({t \in 1..bound :
                          Cardinality({q \in DOMAIN m : val(q) >= t}) >= n - n \div 3})

(* std::nth_element at index (size-1)/3 of the values of map m, with the  *)
(* value of producer p replaced by v: the largest t such that at least     *)
(* size - index values are >= t (all values are <= bound).                 *)
calc_dpos_last_irreversible(m, p, v, bound) ==
  LET val(q) == IF q = p THEN v ELSE m[q]
      n == Cardinality(DOMAIN m)
      index == (n - 1) \div 3
  IN  IF n = 0 THEN 0
      ELSE Cardinality({t \in 1..bound :
                          Cardinality({q \in DOMAIN m : val(q) >= t}) >= n - index})

num_active_producers ==
  IF DOMAIN producer_to_last_implied_irb = {} THEN 1
  ELSE Cardinality(DOMAIN producer_to_last_implied_irb)

\* a block of the chain produced by a scheduled producer
get_scheduled_producer == active_schedule.producers

-----------------------------------------------------------------------------
(* confirmation_group_v0::confirm(producer, {first, second}) for the new   *)
(* block nb = second - 1 with c = num_prev_blocks_to_confirm.              *)

\* confirmed_range.first = nb - c wraps around in uint32 when c > nb; the
\* wrapped value exceeds every block number the chain reaches
RangeWraps(nb, c) == c > nb

\* mutant: the double-confirmation test with <= for <
DoubleConfirmOk_le(p, nb, c) ==
  \/ p \notin DOMAIN producer_to_last_produced
  \/ RangeWraps(nb, c)
  \/ producer_to_last_produced[p] <= nb - c

DoubleConfirmOk(p, nb, c) ==
  \/ p \notin DOMAIN producer_to_last_produced
  \/ RangeWraps(nb, c)
  \/ producer_to_last_produced[p] < nb - c

required_confs == (num_active_producers * 2) \div 3 + 1

\* confirm_count with one slot appended, evicting the oldest at capacity
Grown == IF Len(confirm_count) < MaxTracked
         THEN Append(confirm_count, required_confs)
         ELSE Append(Tail(confirm_count), required_confs)

\* mutant: slot j taken one block too high
SlotBlock_off_by_one(j, n, nb) == nb - (n - j) + 1

\* slot j of a count of length n stands for block nb - (n - j)
SlotBlock(j, n, nb) == nb - (n - j)

\* mutant: blocks_to_confirm one too large (the walk covers c + 2 blocks)
Walk_one_more(n, c) == {j \in 1..n : j > n - (c + 2)}

\* the walk visits the top c + 1 slots; it stops at the first counter that
\* reaches zero (a uint8 decrement of 1), searching from the newest
Walk(n, c) == {j \in 1..n : j > n - (c + 1)}
Stop(g, c) == Top({j \in Walk(Len(g), c) : g[j] = 1}, Len(g))
Decremented(g, c) ==
  [j \in 1..Len(g) |->
     IF j \in Walk(Len(g), c) /\ j >= Stop(g, c) THEN (g[j] + 255) % 256 ELSE g[j]]

\* mutant: the counters at and below the zeroed one are not discarded
ConfirmedCount_untruncated(g, c) == Decremented(g, c)

ConfirmedCount(g, c) == SubSeq(Decremented(g, c), Stop(g, c) + 1, Len(g))
NewProposed(g, c, nb) ==
  IF Stop(g, c) = 0 THEN dpos_proposed_irreversible_blocknum
  ELSE SlotBlock(Stop(g, c), Len(g), nb)

-----------------------------------------------------------------------------
(* confirmation_group_v0::set_producers on the confirmed state: the new    *)
(* block's producer p keeps its last_produced entry (the carve-out).       *)

SetLastProduced(lp, sched, lib, p, nb) ==
  MapPut([q \in sched |-> IF q \in DOMAIN lp THEN lp[q] ELSE lib], p, nb)

SetLastImplied(li, sched, lib) ==
  [q \in sched |-> IF q \in DOMAIN li THEN li[q] ELSE lib]

\* _finish_next: a new schedule (always of version active + 1 here) is
\* refused in the block that promoted the pending one, or while one is
\* still pending
NewScheduleAccepted(ns, promoted) ==
  ns # {} => /\ ~promoted
             /\ pending_schedule.schedule.producers = {}

\* pending_schedule after _finish_next: the announced schedule, pending from
\* block nb; after a promotion only the version of the promoted one is kept
PendingAfter(ns, nb, promoted) ==
  IF ns # {}
  THEN [schedule |-> [version |-> active_schedule.version + 1, producers |-> ns],
        schedule_lib_num |-> nb]
  ELSE IF promoted
       THEN [pending_schedule EXCEPT !.schedule.producers = {}]
       ELSE pending_schedule

-----------------------------------------------------------------------------
\* state restored from a snapshot of a one-producer chain at SnapshotBlock
\* (block_header_state(snapshot_block_header_state_v2&&))
Init ==
  /\ block_num = SnapshotBlock
  /\ active_schedule = [version |-> 0, producers |-> {InitialProducer}]
  /\ pending_schedule = [schedule |-> NoSchedule, schedule_lib_num |-> 0]
  /\ confirm_count = <<>>
  /\ dpos_proposed_irreversible_blocknum = SnapshotBlock
  /\ dpos_irreversible_blocknum = SnapshotBlock - 1
  /\ producer_to_last_produced = [q \in {InitialProducer} |-> SnapshotBlock]
  /\ producer_to_last_implied_irb = [q \in {InitialProducer} |-> SnapshotBlock - 1]
  /\ confirmations_of = [b \in Blocks |-> [q \in Producers |-> 0]]
  /\ schedule_size_of = [b \in Blocks |-> 0]

(* block_header_state::next(when, c) then _finish_next on a header that   *)
(* matches the template, by producer p, announcing schedule ns ({} for a  *)
(* header with no new schedule).                                          *)
NextBlock(p, c, ns) ==
  LET nb == block_num + 1
      g == Grown
      lib == calc_dpos_last_irreversible(producer_to_last_implied_irb, p,
                                         dpos_proposed_irreversible_blocknum, nb)
      lp == MapPut(producer_to_last_produced, p, nb)
      li == MapPut(producer_to_last_implied_irb, p, dpos_proposed_irreversible_blocknum)
      promoted == /\ pending_schedule.schedule.producers # {}
                  /\ lib >= pending_schedule.schedule_lib_num
      walked == {j \in Walk(Len(g), c) : j >= Stop(g, c)}
  IN
  /\ nb <= MaxBlock
  /\ p \in get_scheduled_producer
  /\ DoubleConfirmOk(p, nb, c)
  /\ NewScheduleAccepted(ns, promoted)
  /\ block_num' = nb
  /\ confirm_count' = ConfirmedCount(g, c)
  /\ dpos_proposed_irreversible_blocknum' = NewProposed(g, c, nb)
  /\ dpos_irreversible_blocknum' = lib
  /\ IF promoted
       THEN /\ active_schedule' = pending_schedule.schedule
            /\ producer_to_last_produced' =
                 SetLastProduced(lp, pending_schedule.schedule.producers, lib, p, nb)
            /\ producer_to_last_implied_irb' =
                 SetLastImplied(li, pending_schedule.schedule.producers, lib)
       ELSE /\ UNCHANGED active_schedule
            /\ producer_to_last_produced' = lp
            /\ producer_to_last_implied_irb' = li
  /\ pending_schedule' = PendingAfter(ns, nb, promoted)
  /\ confirmations_of' =
       [b \in Blocks |->
          IF \E j \in walked : SlotBlock(j, Len(g), nb) = b
          THEN [confirmations_of[b] EXCEPT ![p] = @ + 1]
          ELSE confirmations_of[b]]
  /\ schedule_size_of' = [schedule_size_of EXCEPT ![nb] = num_active_producers]

Next ==
  \E p \in Producers, c \in 0..MaxConfirm, ns \in ProposedSchedules \cup {{}} :
    NextBlock(p, c, ns)

Spec == Init /\ [][Next]_vars

-----------------------------------------------------------------------------
(* Types; the uint8 counters of confirm_count are never 0 (a zero counter  *)
(* would wrap to 255 at its next decrement in confirm).                    *)
TypeOK ==
  /\ block_num \in Nat
  /\ active_schedule \in Schedule
  /\ pending_schedule \in [schedule : Schedule, schedule_lib_num : Nat]
  /\ confirm_count \in Seq(1..255)
  /\ dpos_proposed_irreversible_blocknum \in Nat
  /\ dpos_irreversible_blocknum \in Nat
  /\ DOMAIN producer_to_last_produced \subseteq Producers
  /\ \A q \in DOMAIN producer_to_last_produced : producer_to_last_produced[q] \in Nat
  /\ DOMAIN producer_to_last_implied_irb \subseteq Producers
  /\ \A q \in DOMAIN producer_to_last_implied_irb : producer_to_last_implied_irb[q] \in Nat
  /\ confirmations_of \in [Blocks -> [Producers -> Nat]]
  /\ schedule_size_of \in [Blocks -> Nat]

-----------------------------------------------------------------------------
(* Properties.                                                             *)

(* No producer's confirmation of a block is counted twice: the double-    *)
(* confirmation guard of confirm (last_produced < confirmed_range.first)   *)
(* and the last_produced entries kept by set_producers make the walks of   *)
(* one producer over confirm_count disjoint.                               *)
NoDoubleConfirmation ==
  \A b \in Blocks, q \in Producers : confirmations_of[b][q] <= 1

(* When confirm moves dpos_proposed_irreversible_blocknum to a block b,    *)
(* more than two thirds of the producers of the schedule that was active   *)
(* when b was produced have confirmed b, each counted once.                *)
ProposedHasQuorum ==
  [][dpos_proposed_irreversible_blocknum' # dpos_proposed_irreversible_blocknum =>
       LET b == dpos_proposed_irreversible_blocknum'
       IN  3 * Cardinality({q \in Producers : confirmations_of'[b][q] > 0})
             > 2 * schedule_size_of'[b]
    ]_vars

(* The DPOS tracker implements FinalityWatermarks (spec section 8: the    *)
(* proposed and the last irreversible block numbers never decrease, for    *)
(* both schemes), with dpos_proposed_irreversible_blocknum and             *)
(* dpos_irreversible_blocknum as the two watermarks.                       *)
FW == INSTANCE FinalityWatermarks
        WITH proposed <- dpos_proposed_irreversible_blocknum,
             final <- dpos_irreversible_blocknum

ImplementsFinalityWatermarks == FW!Spec

(* The LIB computed by calc_dpos_last_irreversible never passes the        *)
(* proposal, which never passes the head; every confirm_count slot is a    *)
(* block above the proposal.                                               *)
FinalityOrder ==
  /\ dpos_irreversible_blocknum <= dpos_proposed_irreversible_blocknum
  /\ dpos_proposed_irreversible_blocknum <= block_num
  /\ Len(confirm_count) <= block_num - dpos_proposed_irreversible_blocknum

(* calc_dpos_last_irreversible agrees with the textbook definition of the *)
(* element std::nth_element puts at index (size-1)/3: a value of the map   *)
(* with at most index values below it and more than index values at or    *)
(* below it, for every producer of the next block.                         *)
NthElementMatchesReference ==
  LET m == producer_to_last_implied_irb
      n == Cardinality(DOMAIN m)
  IN  \A p \in Producers :
        LET val(q) == IF q = p THEN dpos_proposed_irreversible_blocknum ELSE m[q]
            Ref == CHOOSE x \in {val(q) : q \in DOMAIN m} :
                     /\ Cardinality({q \in DOMAIN m : val(q) < x}) <= (n - 1) \div 3
                     /\ Cardinality({q \in DOMAIN m : val(q) <= x}) > (n - 1) \div 3
        IN  n > 0 =>
              calc_dpos_last_irreversible(m, p, dpos_proposed_irreversible_blocknum,
                                          block_num + 1) = Ref

(* Spec section 8: with a single producer every confirmation is final at  *)
(* once, the block just produced is both proposed and last irreversible.  *)
(* calc_dpos_last_irreversible is evaluated on the state before confirm,  *)
(* substituting the previous proposal for the producer.                   *)
SingleProducerImmediatelyFinal ==
  [][Cardinality(DOMAIN producer_to_last_implied_irb') = 1 =>
       /\ dpos_proposed_irreversible_blocknum' = block_num'
       /\ dpos_irreversible_blocknum' = block_num']_vars

=============================================================================
