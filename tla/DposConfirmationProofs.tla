----------------------- MODULE DposConfirmationProofs -----------------------
(***************************************************************************)
(* Proof that confirmation_group_v0::confirm never counts a producer's     *)
(* confirmation of a block twice, on every chain whose confirmed ranges do *)
(* not wrap in uint32 (num_prev_blocks_to_confirm never above block_num).  *)
(* Under the constants of run dpos_wrap the property fails.                *)
(*                                                                         *)
(* The double-confirmation guard only compares with the producer's own     *)
(* last_produced entry, and set_producers rebuilds that map.  So the       *)
(* invariant must say where the entry of every producer that has a         *)
(* confirmation still in confirm_count comes from:                         *)
(*  - it is kept, at or above the confirmed block; or                      *)
(*  - the producer left the schedule, and it can only come back through    *)
(*    a pending schedule that needs a LIB at or above that block, so it    *)
(*    re-enters with an entry set to that LIB.                             *)
(***************************************************************************)
EXTENDS DposChainProofs

\* No confirmed range starts below block 0: true of a chain restored past
\* its first MaxConfirm blocks.
NoWrap == MaxConfirm < SnapshotBlock

\* The blocks whose counters the walk of producer p's confirmation of c
\* blocks decrements, for the block after the head.
WalkedBlocks(c) ==
  {SlotBlock(j, Len(Grown), block_num + 1) :
     j \in {j \in Walk(Len(Grown), c) : j >= Stop(Grown, c)}}

\* Where the last_produced entry of a producer q that confirmed the block
\* b, still tracked above the proposed block, comes from.
EntryCovers(q, b) ==
  \/ /\ q \in DOMAIN producer_to_last_produced
     /\ producer_to_last_produced[q] >= b
  \/ /\ q \notin DOMAIN producer_to_last_produced
     /\ \/ pending_schedule.schedule.producers = {}
        \/ pending_schedule.schedule_lib_num >= b

\* What DInv says of one block and one producer.
ConfirmedOnce(b, q) ==
  /\ confirmations_of[b][q] <= 1
  /\ confirmations_of[b][q] = 1 => b <= block_num
  /\ (confirmations_of[b][q] = 1 /\ b > dpos_proposed_irreversible_blocknum)
       => EntryCovers(q, b)

DInv ==
  /\ FInv
  /\ block_num >= SnapshotBlock
  /\ active_schedule.producers \subseteq DOMAIN producer_to_last_produced
  /\ \A b \in Blocks, q \in Producers : ConfirmedOnce(b, q)

-----------------------------------------------------------------------------

(* Every block the walk of confirm visits lies in the confirmed range      *)
(* [nb - c, nb] and above the proposed block.                              *)
LEMMA WalkedBlocksRange ==
  ASSUME FInv, NEW c \in Nat
  PROVE  \A b \in WalkedBlocks(c) :
           /\ b \in Nat
           /\ (block_num + 1) - c <= b
           /\ b <= block_num + 1
           /\ dpos_proposed_irreversible_blocknum < b
<1> DEFINE nb == block_num + 1
           prop == dpos_proposed_irreversible_blocknum
           n == Len(Grown)
<1>1. /\ block_num \in Nat
      /\ prop \in Nat
      /\ confirm_count \in Seq(1..255)
      /\ DOMAIN producer_to_last_implied_irb \subseteq Producers
      /\ Len(confirm_count) <= block_num - prop
  BY Zenon DEF FInv, IInv, TypeOK, FinalityOrder
<1>2. n \in Nat /\ n <= nb - prop
  <2>1. Grown \in Seq(1..255) /\ n <= Len(confirm_count) + 1
    BY <1>1, GrownType
  <2>2. Len(confirm_count) \in Nat /\ n \in Nat
    BY <1>1, <2>1, LenProperties
  <2>3. QED
    BY <1>1, <2>1, <2>2
<1>3. \A j \in Walk(n, c) :
         /\ SlotBlock(j, n, nb) \in Nat
         /\ nb - c <= SlotBlock(j, n, nb)
         /\ SlotBlock(j, n, nb) <= nb
         /\ prop < SlotBlock(j, n, nb)
  <2> SUFFICES ASSUME NEW j \in Walk(n, c)
               PROVE  /\ SlotBlock(j, n, nb) \in Nat
                      /\ nb - c <= SlotBlock(j, n, nb)
                      /\ SlotBlock(j, n, nb) <= nb
                      /\ prop < SlotBlock(j, n, nb)
    OBVIOUS
  <2>1. j \in 1..n /\ j > n - (c + 1)
    BY DEF Walk
  <2>2. QED
    BY <1>1, <1>2, <2>1 DEF SlotBlock
<1>4. QED
  <2> SUFFICES ASSUME NEW b \in WalkedBlocks(c)
               PROVE  /\ b \in Nat
                      /\ (block_num + 1) - c <= b
                      /\ b <= block_num + 1
                      /\ dpos_proposed_irreversible_blocknum < b
    OBVIOUS
  <2>1. PICK j \in Walk(n, c) : b = SlotBlock(j, n, nb)
    BY Zenon DEF WalkedBlocks, n, nb
  <2>2. /\ SlotBlock(j, n, nb) \in Nat
        /\ nb - c <= SlotBlock(j, n, nb)
        /\ SlotBlock(j, n, nb) <= nb
        /\ prop < SlotBlock(j, n, nb)
    BY <1>3, <2>1, Zenon
  <2>3. QED
    BY <2>1, <2>2 DEF nb, prop

LEMMA InitDInv == Init => DInv
<1> SUFFICES ASSUME Init PROVE DInv
  OBVIOUS
<1>1. FInv
  BY InitFInv
<1>2. SnapshotBlock \in Nat
  BY ConstantsAssumption
<1>3. QED
  BY <1>1, <1>2 DEF Init, DInv, ConfirmedOnce

(* One block step keeps DInv on a chain whose ranges do not wrap.         *)
LEMMA NextBlockDInv ==
  ASSUME NoWrap, DInv, NEW p \in Producers, NEW c \in 0..MaxConfirm,
         NEW ns \in ProposedSchedules \cup {{}}, NextBlock(p, c, ns)
  PROVE  DInv'
<1> DEFINE nb == block_num + 1
           prop == dpos_proposed_irreversible_blocknum
           lpo == producer_to_last_produced
           lib == calc_dpos_last_irreversible(producer_to_last_implied_irb, p, prop, nb)
           lp == MapPut(lpo, p, nb)
           sched == pending_schedule.schedule.producers
           promoted == sched # {} /\ lib >= pending_schedule.schedule_lib_num
           WB == WalkedBlocks(c)
<1>0. FInv'
  BY NextBlockFInv DEF DInv
<1>1. /\ block_num \in Nat
      /\ prop \in Nat
      /\ NatMap(lpo)
      /\ pending_schedule \in [schedule : Schedule, schedule_lib_num : Nat]
      /\ active_schedule \in Schedule
      /\ confirmations_of \in [Blocks -> [Producers -> Nat]]
      /\ confirm_count \in Seq(1..255)
      /\ DOMAIN producer_to_last_implied_irb \subseteq Producers
      /\ Len(confirm_count) <= block_num - prop
      /\ block_num >= SnapshotBlock
      /\ active_schedule.producers \subseteq DOMAIN lpo
      /\ \A b \in Blocks, q \in Producers : ConfirmedOnce(b, q)
  BY Zenon DEF DInv, FInv, IInv, TypeOK, NatMap, FinalityOrder, prop, lpo
<1>c. c \in Nat /\ c < SnapshotBlock /\ SnapshotBlock \in Nat /\ MaxBlock \in Nat
  BY ConstantsAssumption DEF NoWrap
<1>b. Blocks \subseteq Nat
  BY <1>c DEF Blocks
<1>2. /\ block_num' = nb
      /\ p \in active_schedule.producers
      /\ DoubleConfirmOk(p, nb, c)
      /\ NewScheduleAccepted(ns, promoted)
      /\ pending_schedule' = PendingAfter(ns, nb, promoted)
      /\ confirmations_of' =
           [b \in Blocks |->
              IF b \in WB THEN [confirmations_of[b] EXCEPT ![p] = @ + 1]
              ELSE confirmations_of[b]]
  BY DEF NextBlock, get_scheduled_producer, WB, WalkedBlocks, nb, lib, sched,
         promoted, prop
<1>3. /\ promoted => /\ active_schedule' = pending_schedule.schedule
                     /\ producer_to_last_produced' =
                          SetLastProduced(lp, sched, lib, p, nb)
      /\ ~promoted => /\ active_schedule' = active_schedule
                      /\ producer_to_last_produced' = lp
  BY DEF NextBlock, nb, lib, lp, lpo, sched, promoted, prop
<1>w. \A b \in WB : /\ b \in Nat
                   /\ nb - c <= b
                   /\ b <= nb
                   /\ prop < b
  <2>1. FInv
    BY DEF DInv
  <2>2. \A b \in WalkedBlocks(c) :
           /\ b \in Nat
           /\ (block_num + 1) - c <= b
           /\ b <= block_num + 1
           /\ dpos_proposed_irreversible_blocknum < b
    BY <1>c, <2>1, WalkedBlocksRange
  <2>3. QED
    BY <2>2 DEF WB, nb, prop
<1>4. prop <= dpos_proposed_irreversible_blocknum'
  \* established on the way to FInv' (NextBlockFInv, step <1>6)
  <2>1. dpos_proposed_irreversible_blocknum' = NewProposed(Grown, c, nb)
    BY DEF NextBlock, nb
  <2>3. Grown \in Seq(1..255) /\ Len(Grown) <= Len(confirm_count) + 1
    BY <1>1, GrownType
  <2>4. Len(Grown) \in Nat /\ Len(confirm_count) \in Nat
    BY <1>1, <2>3, LenProperties
  <2>5. Stop(Grown, c) \in 0..Len(Grown)
    BY <1>c, <2>3, ConfirmedCountType
  <2>6. CASE Stop(Grown, c) = 0
    <3>1. NewProposed(Grown, c, nb) = prop
      BY <2>6, Zenon DEF NewProposed, prop
    <3>2. QED
      BY <1>1, <2>1, <3>1
  <2>7. CASE Stop(Grown, c) # 0
    <3>1. NewProposed(Grown, c, nb) = nb - (Len(Grown) - Stop(Grown, c))
      BY <2>7, Zenon DEF NewProposed, SlotBlock
    <3>2. Len(Grown) <= nb - prop
      BY ONLY <1>1, <2>3, <2>4 DEF nb
    <3>3. QED
      BY ONLY <1>1, <2>1, <2>4, <2>5, <2>7, <3>1, <3>2 DEF nb
  <2>8. QED
    BY <2>6, <2>7
<1>5. lib \in Nat
  BY <1>1, CalcLibType DEF lib, nb
\* The guard: no wrap, and p is scheduled so it has an entry below nb - c.
<1>6. p \in DOMAIN lpo /\ lpo[p] < nb - c
  <2>1. c <= block_num
    BY <1>1, <1>c
  <2>2. ~RangeWraps(nb, c)
    BY <1>1, <2>1 DEF RangeWraps, nb
  <2>3. p \in DOMAIN lpo
    BY <1>1, <1>2
  <2>4. QED
    BY <1>2, <2>2, <2>3 DEF DoubleConfirmOk, lpo
\* The walk never meets a block p has already confirmed.
<1>7. \A b \in WB \cap Blocks : confirmations_of[b][p] = 0
  <2> SUFFICES ASSUME NEW b \in WB \cap Blocks, confirmations_of[b][p] # 0
               PROVE  FALSE
    OBVIOUS
  <2>1. b \in Nat /\ nb - c <= b /\ prop < b
    BY <1>w
  <2>a. ConfirmedOnce(b, p) /\ confirmations_of[b][p] \in Nat
    BY <1>1
  <2>2. confirmations_of[b][p] = 1
    BY <2>a DEF ConfirmedOnce
  <2>3. EntryCovers(p, b)
    BY <2>1, <2>2, <2>a DEF ConfirmedOnce, prop
  <2>4. lpo[p] >= b
    BY <1>6, <2>3 DEF EntryCovers, lpo
  <2>5. QED
    BY <1>1, <1>6, <2>1, <2>4 DEF NatMap
\* p's entry after the step is nb, above every block it has confirmed.
<1>8. p \in DOMAIN producer_to_last_produced' /\ producer_to_last_produced'[p] = nb
  BY <1>3 DEF SetLastProduced, MapPut, lp
\* Entries of other producers are kept, or set to the LIB on promotion.
<1>9. ASSUME NEW q \in Producers, q # p
      PROVE  /\ ~promoted => /\ (q \in DOMAIN producer_to_last_produced'
                                   <=> q \in DOMAIN lpo)
                             /\ q \in DOMAIN lpo =>
                                  producer_to_last_produced'[q] = lpo[q]
             /\ promoted => /\ (q \in DOMAIN producer_to_last_produced' <=> q \in sched)
                            /\ q \in sched /\ q \in DOMAIN lpo =>
                                 producer_to_last_produced'[q] = lpo[q]
                            /\ q \in sched /\ q \notin DOMAIN lpo =>
                                 producer_to_last_produced'[q] = lib
  BY <1>3, <1>9 DEF SetLastProduced, MapPut, lp
<1>10. (active_schedule.producers \subseteq DOMAIN producer_to_last_produced)'
  <2>1. CASE promoted
    BY <1>3, <2>1 DEF SetLastProduced, MapPut, lp, sched
  <2>2. CASE ~promoted
    BY <1>1, <1>3, <2>2 DEF MapPut, lp, lpo
  <2>3. QED
    BY <2>1, <2>2
\* The conjunct about one block and one producer.
<1>11. ASSUME NEW b \in Blocks, NEW q \in Producers
       PROVE  ConfirmedOnce(b, q)'
  <2> SUFFICES /\ confirmations_of'[b][q] <= 1
               /\ confirmations_of'[b][q] = 1 => b <= block_num'
               /\ (confirmations_of'[b][q] = 1 /\ b > dpos_proposed_irreversible_blocknum')
                    => EntryCovers(q, b)'
    BY DEF ConfirmedOnce
  <2>1. /\ confirmations_of[b][q] \in Nat
        /\ confirmations_of[b][q] <= 1
        /\ confirmations_of[b][q] = 1 => b <= block_num
        /\ (confirmations_of[b][q] = 1 /\ b > prop) => EntryCovers(q, b)
    BY <1>1 DEF ConfirmedOnce, prop
  <2>b. b \in Nat /\ b <= MaxBlock
    BY <1>c DEF Blocks
  <2>p. dpos_proposed_irreversible_blocknum' \in Nat
    BY <1>0, Zenon DEF FInv, IInv, TypeOK
  \* the new confirmation: p walked b
  <2>2. CASE q = p /\ b \in WB
    <3>1. confirmations_of'[b][q] = 1
      BY <1>1, <1>2, <1>7, <2>2
    <3>2. b <= nb
      BY <1>w, <2>2
    <3>3. EntryCovers(q, b)'
      BY <1>8, <2>2, <3>2 DEF EntryCovers
    <3>4. QED
      BY <1>2, <3>1, <3>2, <3>3
  \* an old confirmation, unchanged by the step
  <2>3. CASE ~(q = p /\ b \in WB)
    <3>1. confirmations_of'[b][q] = confirmations_of[b][q]
      BY <1>1, <1>2, <2>3
    <3>2. SUFFICES ASSUME confirmations_of[b][q] = 1,
                          b > dpos_proposed_irreversible_blocknum'
                   PROVE  EntryCovers(q, b)'
      BY <1>1, <1>2, <2>1, <2>b, <3>1
    <3>3. b > prop /\ b <= block_num /\ EntryCovers(q, b)
      BY <1>1, <1>4, <2>1, <2>b, <2>p, <3>2 DEF prop
    <3>4. CASE q = p
      <4>1. p \in DOMAIN producer_to_last_produced' /\ producer_to_last_produced'[p] >= b
        BY <1>1, <1>8, <2>b, <3>3 DEF nb
      <4>2. QED
        BY <3>4, <4>1 DEF EntryCovers
    <3>5. CASE q # p /\ ~promoted
      <4>1. CASE ns = {}
        <5>1. pending_schedule' = pending_schedule
          BY <1>2, <3>5, <4>1 DEF PendingAfter
        <5>2. QED
          BY <1>9, <3>3, <3>5, <5>1 DEF EntryCovers, lpo
      <4>2. CASE ns # {}
        <5>1. pending_schedule'.schedule_lib_num = nb
          BY <1>2, <4>2 DEF PendingAfter
        <5>2. QED
          BY <1>1, <1>9, <2>b, <3>3, <3>5, <5>1 DEF EntryCovers, lpo, nb
      <4>3. QED
        BY <4>1, <4>2
    <3>6. CASE q # p /\ promoted
      <4>1. ns = {}
        BY <1>2, <3>6 DEF NewScheduleAccepted
      <4>2. pending_schedule'.schedule.producers = {}
        BY <1>1, <1>2, <3>6, <4>1 DEF PendingAfter, Schedule
      <4>3. CASE q \in sched /\ q \in DOMAIN lpo
        BY <1>9, <3>3, <3>6, <4>3 DEF EntryCovers, lpo
      <4>4. CASE q \in sched /\ q \notin DOMAIN lpo
        <5>1. pending_schedule.schedule_lib_num >= b
          BY <3>3, <3>6, <4>4 DEF EntryCovers, lpo, promoted, sched
        <5>2. producer_to_last_produced'[q] = lib
          BY <1>9, <3>6, <4>4
        <5>3. lib >= b
          BY <1>1, <1>5, <2>b, <3>6, <5>1 DEF promoted
        <5>4. QED
          BY <1>9, <3>6, <4>4, <5>2, <5>3 DEF EntryCovers
      <4>5. CASE q \notin sched
        BY <1>9, <3>6, <4>2, <4>5 DEF EntryCovers
      <4>6. QED
        BY <4>3, <4>4, <4>5
    <3>7. QED
      BY <3>4, <3>5, <3>6
  <2>4. QED
    BY <2>2, <2>3
<1>12. QED
  BY <1>0, <1>1, <1>2, <1>c, <1>10, <1>11 DEF DInv

LEMMA NextDInv == NoWrap /\ DInv /\ [Next]_vars => DInv'
<1> SUFFICES ASSUME NoWrap, DInv, [Next]_vars PROVE DInv'
  OBVIOUS
<1>1. CASE Next
  BY <1>1, NextBlockDInv DEF Next
<1>2. CASE UNCHANGED vars
  <2>1. FInv'
    BY <1>2, NextFInv DEF DInv
  <2>2. QED
    BY <1>2, <2>1 DEF vars, chain, tracker, ghost, DInv, ConfirmedOnce, EntryCovers
<1>3. QED
  BY <1>1, <1>2

-----------------------------------------------------------------------------

(* On every chain restored past its first MaxConfirm blocks, no producer   *)
(* decrements the confirm_count counter of a block twice: the guard        *)
(* last_produced < confirmed_range.first, with the entries set_producers   *)
(* keeps or resets to the LIB, makes the walks of one producer disjoint,   *)
(* across any number of schedule changes.                                  *)
THEOREM NoDoubleConfirmationHolds ==
  ASSUME NoWrap
  PROVE  Spec => []NoDoubleConfirmation
<1>1. DInv => NoDoubleConfirmation
  BY DEF DInv, ConfirmedOnce, NoDoubleConfirmation
<1>2. DInv /\ [Next]_vars => DInv'
  BY NextDInv
<1>3. QED
  BY <1>1, <1>2, InitDInv, PTL DEF Spec

=============================================================================
