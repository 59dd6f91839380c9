-------------------------- MODULE DposChainProofs --------------------------
(***************************************************************************)
(* Proofs about the DPOS block step of DposChain, for every value of the   *)
(* constants allowed by ConstantsAssumption.                               *)
(***************************************************************************)
EXTENDS DposChain, FiniteSetTheorems, SequenceTheorems, TLAPS

-----------------------------------------------------------------------------
(* Lemmas on the closed-form operators.                                    *)

(* Top(S, n), the number of t in 1..n below some element of S, is an      *)
(* upper bound of S within 0..n: the zero found by confirm's backward walk *)
(* is the newest one.                                                      *)
LEMMA TopBounds ==
  ASSUME NEW S, NEW n \in Nat, S \subseteq 1..n
  PROVE  /\ Top(S, n) \in 0..n
         /\ \A s \in S : s <= Top(S, n)
<1> DEFINE T == {t \in 1..n : \E s \in S : t <= s}
<1>1. IsFiniteSet(1..n) /\ Cardinality(1..n) = n
  BY FS_Interval
<1>2. IsFiniteSet(T) /\ Cardinality(T) <= n
  BY <1>1, FS_Subset
<1>3. Cardinality(T) \in Nat
  BY <1>2, FS_CardinalityType
<1>4. ASSUME NEW s \in S PROVE s <= Cardinality(T)
  <2>1. 1..s \subseteq T
    OBVIOUS
  <2>2. s \in Nat /\ Cardinality(1..s) = s
    BY FS_Interval
  <2>3. Cardinality(1..s) <= Cardinality(T)
    BY <1>2, <2>1, FS_Subset
  <2>4. QED
    BY <2>2, <2>3
<1>5. QED
  BY <1>2, <1>3, <1>4 DEF Top

(* A subset of an interval has a cardinality that is a natural number:    *)
(* calc_dpos_last_irreversible returns a block number.                     *)
LEMMA CardinalityOfBoundedSet ==
  ASSUME NEW n \in Nat, NEW T \in SUBSET (1..n)
  PROVE  Cardinality(T) \in 0..n
<1>1. IsFiniteSet(1..n) /\ Cardinality(1..n) = n
  BY FS_Interval
<1>2. IsFiniteSet(T) /\ Cardinality(T) <= n
  BY <1>1, FS_Subset
<1>3. QED
  BY <1>2, FS_CardinalityType

(* The uint8 counter confirm appends, (size * 2) / 3 + 1, is in 1..255:    *)
(* the schedule has at most 125 producers.                                 *)
LEMMA NumActiveRange ==
  ASSUME DOMAIN producer_to_last_implied_irb \subseteq Producers
  PROVE  num_active_producers \in 1..125
<1>1. CASE DOMAIN producer_to_last_implied_irb = {}
  BY <1>1 DEF num_active_producers
<1>2. CASE DOMAIN producer_to_last_implied_irb # {}
  <2>1. IsFiniteSet(DOMAIN producer_to_last_implied_irb)
        /\ Cardinality(DOMAIN producer_to_last_implied_irb) <= Cardinality(Producers)
    BY ConstantsAssumption, FS_Subset
  <2>2. Cardinality(DOMAIN producer_to_last_implied_irb) \in Nat
        /\ Cardinality(DOMAIN producer_to_last_implied_irb) # 0
    BY <1>2, <2>1, FS_CardinalityType, FS_EmptySet
  <2>3. Cardinality(Producers) \in Nat /\ Cardinality(Producers) <= 125
    BY ConstantsAssumption, FS_CardinalityType
  <2>4. num_active_producers = Cardinality(DOMAIN producer_to_last_implied_irb)
    BY <1>2 DEF num_active_producers
  <2>5. QED
    BY <2>1, <2>2, <2>3, <2>4
<1>3. QED
  BY <1>1, <1>2

LEMMA RequiredConfsRange ==
  ASSUME DOMAIN producer_to_last_implied_irb \subseteq Producers
  PROVE  required_confs \in 1..255
BY NumActiveRange DEF required_confs

(* Appending a counter to confirm_count, after evicting the oldest at     *)
(* capacity, keeps every counter in 1..255 and grows the length by at      *)
(* most one.                                                               *)
LEMMA GrownType ==
  ASSUME confirm_count \in Seq(1..255),
         DOMAIN producer_to_last_implied_irb \subseteq Producers
  PROVE  /\ Grown \in Seq(1..255)
         /\ Len(Grown) <= Len(confirm_count) + 1
<1>1. required_confs \in 1..255
  BY RequiredConfsRange
<1>2. MaxTracked \in Nat \ {0}
  BY ConstantsAssumption
<1>3. CASE Len(confirm_count) < MaxTracked
  BY <1>1, <1>3, AppendProperties DEF Grown
<1>4. CASE ~(Len(confirm_count) < MaxTracked)
  <2>1. confirm_count # <<>>
    BY <1>2, <1>4, EmptySeq
  <2>2. Tail(confirm_count) \in Seq(1..255)
        /\ Len(Tail(confirm_count)) = Len(confirm_count) - 1
    BY <2>1, HeadTailProperties
  <2>3. QED
    BY <1>1, <1>4, <2>2, AppendProperties DEF Grown
<1>5. QED
  BY <1>3, <1>4

(* The uint8 decrement --confirm_count[i] of a counter that does not     *)
(* reach zero.                                                             *)
LEMMA Uint8Decrement ==
  \A x \in 2..255 : (x + 255) % 256 = x - 1 /\ x - 1 \in 1..255
  OBVIOUS

(* After the walk of confirm, every counter left in confirm_count is      *)
(* still positive: the walk decrements only counters newer than the one   *)
(* that reached zero, and discards that one and all older ones.            *)
LEMMA ConfirmedCountType ==
  ASSUME NEW g \in Seq(1..255), NEW c \in Nat
  PROVE  /\ Stop(g, c) \in 0..Len(g)
         /\ ConfirmedCount(g, c) \in Seq(1..255)
         /\ Len(ConfirmedCount(g, c)) = Len(g) - Stop(g, c)
<1>1. Len(g) \in Nat
      /\ {j \in Walk(Len(g), c) : g[j] = 1} \subseteq 1..Len(g)
  BY LenProperties DEF Walk
<1>2. /\ Stop(g, c) \in 0..Len(g)
      /\ \A s \in {j \in Walk(Len(g), c) : g[j] = 1} : s <= Stop(g, c)
  BY <1>1, TopBounds DEF Stop
<1>3. ASSUME NEW j \in (Stop(g, c) + 1)..Len(g)
      PROVE  Decremented(g, c)[j] \in 1..255
  <2>1. j \in 1..Len(g)
    BY <1>2
  <2>2. g[j] \in 1..255
    BY <2>1, ElementOfSeq
  <2>3. j \in Walk(Len(g), c) => g[j] # 1
    BY <1>2
  <2>4. CASE j \in Walk(Len(g), c)
    <3>1. Decremented(g, c)[j] = (g[j] + 255) % 256
      BY <2>1, <2>4, <1>2 DEF Decremented
    <3>2. g[j] \in 2..255
      BY <2>2, <2>3, <2>4
    <3>3. QED
      BY <3>1, <3>2, Uint8Decrement, Zenon
  <2>5. CASE j \notin Walk(Len(g), c)
    BY <2>1, <2>2, <2>5 DEF Decremented
  <2>6. QED
    BY <2>4, <2>5
<1>4. QED
  BY <1>1, <1>2, <1>3, SubSeqProperties DEF ConfirmedCount

\* a flat_map<account_name, uint32_t> over scheduled producers
NatMap(m) == DOMAIN m \subseteq Producers /\ \A q \in DOMAIN m : m[q] \in Nat

(* Inserting or overwriting an entry keeps a producer map well formed.    *)
LEMMA MapPutType ==
  ASSUME NEW m, NatMap(m), NEW k \in Producers, NEW v \in Nat
  PROVE  NatMap(MapPut(m, k, v))
BY DEF NatMap, MapPut

(* set_producers rebuilds both producer maps over the new schedule.       *)
LEMMA SetProducersType ==
  ASSUME NEW lp, NatMap(lp), NEW li, NatMap(li),
         NEW sched \in SUBSET Producers, NEW lib \in Nat,
         NEW p \in Producers, NEW nb \in Nat
  PROVE  /\ NatMap(SetLastProduced(lp, sched, lib, p, nb))
         /\ NatMap(SetLastImplied(li, sched, lib))
<1>1. NatMap([q \in sched |-> IF q \in DOMAIN lp THEN lp[q] ELSE lib])
  BY DEF NatMap
<1>2. QED
  BY <1>1, MapPutType DEF SetLastProduced, SetLastImplied, NatMap

(* The LIB computed by calc_dpos_last_irreversible is a block number.     *)
LEMMA CalcLibType ==
  ASSUME NEW m, NEW p, NEW v, NEW bound \in Nat
  PROVE  calc_dpos_last_irreversible(m, p, v, bound) \in Nat
<1> DEFINE val(q) == IF q = p THEN v ELSE m[q]
           n == Cardinality(DOMAIN m)
           T == {t \in 1..bound :
                   Cardinality({q \in DOMAIN m : val(q) >= t}) >= n - (n - 1) \div 3}
<1>1. Cardinality(T) \in 0..bound
  BY CardinalityOfBoundedSet
<1>2. QED
  BY <1>1 DEF calc_dpos_last_irreversible

-----------------------------------------------------------------------------
(* The type invariant is not inductive by itself: the slot arithmetic of  *)
(* confirm names block nb - (Len(count) - j), a natural number only while *)
(* confirm_count tracks no more blocks than the chain has.                 *)
IInv == TypeOK /\ Len(confirm_count) <= block_num

LEMMA InitIInv == Init => IInv
<1> SUFFICES ASSUME Init PROVE IInv
  OBVIOUS
<1>1. SnapshotBlock \in Nat \ {0} /\ InitialProducer \in Producers
  BY ConstantsAssumption
<1>2. QED
  BY <1>1, EmptySeq DEF Init, IInv, TypeOK, Schedule, NoSchedule

(* One block step of next() and _finish_next keeps IInv.                   *)
LEMMA NextBlockIInv ==
  ASSUME IInv, NEW p \in Producers, NEW c \in 0..MaxConfirm,
         NEW ns \in ProposedSchedules \cup {{}}, NextBlock(p, c, ns)
  PROVE  IInv'
<1> DEFINE nb == block_num + 1
           lib == calc_dpos_last_irreversible(producer_to_last_implied_irb, p,
                                              dpos_proposed_irreversible_blocknum, nb)
           lp == MapPut(producer_to_last_produced, p, nb)
           li == MapPut(producer_to_last_implied_irb, p, dpos_proposed_irreversible_blocknum)
           sched == pending_schedule.schedule.producers
           promoted == sched # {} /\ lib >= pending_schedule.schedule_lib_num
<1>0. /\ block_num \in Nat
      /\ active_schedule \in Schedule
      /\ pending_schedule \in [schedule : Schedule, schedule_lib_num : Nat]
      /\ confirm_count \in Seq(1..255)
      /\ dpos_proposed_irreversible_blocknum \in Nat
      /\ NatMap(producer_to_last_produced)
      /\ NatMap(producer_to_last_implied_irb)
      /\ DOMAIN producer_to_last_implied_irb \subseteq Producers
      /\ confirmations_of \in [Blocks -> [Producers -> Nat]]
      /\ schedule_size_of \in [Blocks -> Nat]
      /\ Len(confirm_count) <= block_num
  BY Zenon DEF IInv, TypeOK, NatMap
<1>1. block_num' = nb /\ nb \in Nat
  BY <1>0 DEF NextBlock, nb
<1>2. /\ confirm_count' = ConfirmedCount(Grown, c)
      /\ dpos_proposed_irreversible_blocknum' = NewProposed(Grown, c, nb)
      /\ dpos_irreversible_blocknum' = lib
      /\ pending_schedule' = PendingAfter(ns, nb, promoted)
      /\ schedule_size_of' = [schedule_size_of EXCEPT ![nb] = num_active_producers]
      /\ confirmations_of' =
           [b \in Blocks |->
              IF \E j \in {j \in Walk(Len(Grown), c) : j >= Stop(Grown, c)} :
                   SlotBlock(j, Len(Grown), nb) = b
              THEN [confirmations_of[b] EXCEPT ![p] = @ + 1]
              ELSE confirmations_of[b]]
  BY DEF NextBlock, nb, lib, sched, promoted
<1>3. /\ Grown \in Seq(1..255)
      /\ Len(Grown) <= nb
  <2>1. Len(Grown) <= Len(confirm_count) + 1 /\ Grown \in Seq(1..255)
    BY <1>0, GrownType
  <2>2. Len(confirm_count) \in Nat
    BY <1>0, LenProperties
  <2>3. QED
    BY <1>0, <2>1, <2>2 DEF nb
<1>4. /\ Stop(Grown, c) \in 0..Len(Grown)
      /\ confirm_count' \in Seq(1..255)
      /\ Len(confirm_count') <= block_num'
  <2>1. c \in Nat
    BY ConstantsAssumption
  <2>2. Len(Grown) \in Nat
    BY <1>3, LenProperties
  <2>3. /\ Stop(Grown, c) \in 0..Len(Grown)
        /\ ConfirmedCount(Grown, c) \in Seq(1..255)
        /\ Len(ConfirmedCount(Grown, c)) = Len(Grown) - Stop(Grown, c)
    BY <1>3, <2>1, ConfirmedCountType
  <2>4. Len(ConfirmedCount(Grown, c)) <= nb
    <3>1. Len(Grown) <= nb
      BY <1>3
    <3>2. Stop(Grown, c) \in 0..Len(Grown)
      BY <2>3
    <3>3. Len(ConfirmedCount(Grown, c)) = Len(Grown) - Stop(Grown, c)
      BY <2>3
    <3>4. nb \in Nat
      BY <1>1
    <3>5. QED
      BY ONLY <2>2, <3>1, <3>2, <3>3, <3>4
  <2>5. QED
    BY ONLY <1>1, <1>2, <2>3, <2>4
<1>5. dpos_proposed_irreversible_blocknum' \in Nat
  <2>1. CASE Stop(Grown, c) = 0
    BY <1>0, <1>2, <2>1 DEF NewProposed
  <2>2. CASE Stop(Grown, c) # 0
    BY <1>1, <1>2, <1>3, <1>4, <2>2, LenProperties DEF NewProposed, SlotBlock
  <2>3. QED
    BY <2>1, <2>2
<1>6. lib \in Nat
  BY <1>1, CalcLibType DEF lib
<1>7. NatMap(lp) /\ NatMap(li)
  BY <1>0, <1>1, MapPutType DEF lp, li
<1>8. sched \in SUBSET Producers
  BY <1>0 DEF Schedule, sched
<1>9. /\ NatMap(producer_to_last_produced')
      /\ NatMap(producer_to_last_implied_irb')
      /\ active_schedule' \in Schedule
  <2>1. CASE promoted
    <3>1. /\ active_schedule' = pending_schedule.schedule
          /\ producer_to_last_produced' = SetLastProduced(lp, sched, lib, p, nb)
          /\ producer_to_last_implied_irb' = SetLastImplied(li, sched, lib)
      BY <2>1 DEF NextBlock, nb, lib, lp, li, sched, promoted
    <3>2. QED
      BY <1>0, <1>1, <1>6, <1>7, <1>8, <3>1, SetProducersType
  <2>2. CASE ~promoted
    <3>1. /\ active_schedule' = active_schedule
          /\ producer_to_last_produced' = lp
          /\ producer_to_last_implied_irb' = li
      BY <2>2 DEF NextBlock, nb, lib, lp, li, sched, promoted
    <3>2. QED
      BY <1>0, <1>7, <3>1
  <2>3. QED
    BY <2>1, <2>2
<1>10. pending_schedule' \in [schedule : Schedule, schedule_lib_num : Nat]
  <2>1. ns \in SUBSET Producers
    BY ConstantsAssumption
  <2>2. CASE ns # {}
    <3>1. pending_schedule' =
            [schedule |-> [version |-> active_schedule.version + 1, producers |-> ns],
             schedule_lib_num |-> nb]
      BY <1>2, <2>2 DEF PendingAfter
    <3>2. active_schedule.version \in Nat
      BY <1>0 DEF Schedule
    <3>3. active_schedule.version + 1 \in Nat
      BY <3>2
    <3>4. QED
      BY <1>1, <2>1, <3>1, <3>3, Zenon DEF Schedule
  <2>3. CASE ns = {} /\ promoted
    <3>1. pending_schedule' = [pending_schedule EXCEPT !.schedule.producers = {}]
      BY <1>2, <2>3 DEF PendingAfter
    <3>2. pending_schedule \in [schedule : Schedule, schedule_lib_num : Nat]
      BY <1>0
    <3>3. [pending_schedule EXCEPT !.schedule.producers = {}]
            = [schedule |-> [version |-> pending_schedule.schedule.version,
                             producers |-> {}],
               schedule_lib_num |-> pending_schedule.schedule_lib_num]
      BY <3>2, SMT DEF Schedule
    <3>4. QED
      BY <3>1, <3>2, <3>3 DEF Schedule
  <2>4. CASE ns = {} /\ ~promoted
    BY <1>0, <1>2, <2>4 DEF PendingAfter
  <2>5. QED
    BY <2>2, <2>3, <2>4
<1>11. /\ confirmations_of' \in [Blocks -> [Producers -> Nat]]
       /\ schedule_size_of' \in [Blocks -> Nat]
  <2>1. DOMAIN producer_to_last_implied_irb \subseteq Producers
    BY <1>0
  <2>2. num_active_producers \in Nat
    BY <2>1, NumActiveRange
  <2>3. confirmations_of \in [Blocks -> [Producers -> Nat]]
    BY <1>0
  <2>4. confirmations_of' \in [Blocks -> [Producers -> Nat]]
    BY <1>2, <2>3
  <2>5. schedule_size_of \in [Blocks -> Nat]
    BY <1>0
  <2>6. schedule_size_of' \in [Blocks -> Nat]
    BY <1>1, <1>2, <2>2, <2>5
  <2>7. QED
    BY <2>4, <2>6
<1>12. QED
  BY <1>1, <1>4, <1>5, <1>6, <1>9, <1>10, <1>11, <1>2, Zenon DEF IInv, TypeOK, NatMap

LEMMA NextIInv == IInv /\ [Next]_vars => IInv'
<1> SUFFICES ASSUME IInv, [Next]_vars PROVE IInv'
  OBVIOUS
<1>1. CASE Next
  BY <1>1, NextBlockIInv DEF Next
<1>2. CASE UNCHANGED vars
  BY <1>2 DEF vars, chain, tracker, ghost, IInv, TypeOK, Schedule
<1>3. QED
  BY <1>1, <1>2

(* Every state of the chain is well typed: in particular confirm_count    *)
(* only ever holds uint8 counters in 1..255 (never a zero or wrapped       *)
(* counter), whatever the schedules, confirmation counts and chain length. *)
THEOREM TypeCorrect == Spec => []TypeOK
<1>1. IInv => TypeOK
  BY DEF IInv
<1>2. QED
  BY InitIInv, NextIInv, <1>1, PTL DEF Spec

-----------------------------------------------------------------------------
(* FinalityOrder: dpos_irreversible_blocknum <= dpos_proposed_irreversible *)
(* _blocknum <= block_num, and confirm_count tracks only blocks above the  *)
(* proposed one.  Inductive with IInv and the fact that no producer's      *)
(* implied irreversible block is above the proposed one, which is what     *)
(* keeps the order statistic of calc_dpos_last_irreversible below it.      *)
ImpliedBelowProposed ==
  \A q \in DOMAIN producer_to_last_implied_irb :
    producer_to_last_implied_irb[q] <= dpos_proposed_irreversible_blocknum

FInv == IInv /\ FinalityOrder /\ ImpliedBelowProposed

(* When every value of the map, and the substituted one, is at most v,     *)
(* the LIB calc_dpos_last_irreversible picks is at most v.                 *)
LEMMA CalcLibBound ==
  ASSUME NEW m, NEW p, NEW v \in Nat, NEW bound \in Nat,
         IsFiniteSet(DOMAIN m),
         \A q \in DOMAIN m : m[q] \in Nat /\ m[q] <= v
  PROVE  calc_dpos_last_irreversible(m, p, v, bound) <= v
<1> DEFINE val(q) == IF q = p THEN v ELSE m[q]
           n == Cardinality(DOMAIN m)
           Above(t) == {q \in DOMAIN m : val(q) >= t}
           T == {t \in 1..bound : Cardinality(Above(t)) >= n - (n - 1) \div 3}
<1>1. n \in Nat
  BY FS_CardinalityType
<1>2. CASE n = 0
  BY <1>2 DEF calc_dpos_last_irreversible
<1>3. CASE n # 0
  <2>1. ASSUME NEW t \in T PROVE t <= v
    <3>1. SUFFICES ASSUME t > v PROVE FALSE
      BY SMT
    <3>2. Above(t) = {}
      BY <3>1
    <3>3. Cardinality(Above(t)) = 0
      BY <3>2, FS_EmptySet
    <3>4. n - (n - 1) \div 3 >= 1
      BY <1>1, <1>3
    <3>5. t \in 1..bound /\ Cardinality(Above(t)) >= n - (n - 1) \div 3
      BY DEF T
    <3>6. QED
      BY <1>1, <3>3, <3>4, <3>5
  <2>2. T \subseteq 1..v
    BY <2>1
  <2>3. Cardinality(T) \in 0..v
    BY <2>2, CardinalityOfBoundedSet
  <2>4. QED
    BY <1>3, <2>3 DEF calc_dpos_last_irreversible
<1>4. QED
  BY <1>2, <1>3

LEMMA InitFInv == Init => FInv
<1> SUFFICES ASSUME Init PROVE FInv
  OBVIOUS
<1>1. IInv
  BY InitIInv
<1>2. SnapshotBlock \in Nat \ {0}
  BY ConstantsAssumption
<1>3. QED
  BY <1>1, <1>2, EmptySeq DEF Init, FInv, FinalityOrder, ImpliedBelowProposed

(* One block step keeps FInv: the walk only zeroes counters of blocks     *)
(* above the proposed one, and the new LIB is an order statistic of        *)
(* implied values that are all at most the old proposed block.             *)
LEMMA NextBlockFInv ==
  ASSUME FInv, NEW p \in Producers, NEW c \in 0..MaxConfirm,
         NEW ns \in ProposedSchedules \cup {{}}, NextBlock(p, c, ns)
  PROVE  FInv'
<1> DEFINE nb == block_num + 1
           prop == dpos_proposed_irreversible_blocknum
           lib == calc_dpos_last_irreversible(producer_to_last_implied_irb, p, prop, nb)
           li == MapPut(producer_to_last_implied_irb, p, prop)
           sched == pending_schedule.schedule.producers
           promoted == sched # {} /\ lib >= pending_schedule.schedule_lib_num
<1>0. IInv'
  BY NextBlockIInv DEF FInv
<1>1. /\ block_num \in Nat
      /\ prop \in Nat
      /\ confirm_count \in Seq(1..255)
      /\ DOMAIN producer_to_last_implied_irb \subseteq Producers
      /\ NatMap(producer_to_last_implied_irb)
      /\ sched \in SUBSET Producers
  BY Zenon DEF FInv, IInv, TypeOK, NatMap, prop, sched, Schedule
<1>2. /\ Len(confirm_count) <= block_num - prop
      /\ prop <= block_num
      /\ ImpliedBelowProposed
  BY DEF FInv, FinalityOrder, prop
<1>3. /\ block_num' = nb
      /\ confirm_count' = ConfirmedCount(Grown, c)
      /\ dpos_proposed_irreversible_blocknum' = NewProposed(Grown, c, nb)
      /\ dpos_irreversible_blocknum' = lib
  BY DEF NextBlock, nb, lib, prop
<1>4. /\ Grown \in Seq(1..255)
      /\ Len(Grown) \in Nat
      /\ Len(Grown) <= nb - prop
  <2>1. Grown \in Seq(1..255) /\ Len(Grown) <= Len(confirm_count) + 1
    BY <1>1, GrownType
  <2>2. Len(Grown) \in Nat /\ Len(confirm_count) \in Nat
    BY <1>1, <2>1, LenProperties
  <2>3. QED
    BY <1>1, <1>2, <2>1, <2>2 DEF nb
<1>5. /\ Stop(Grown, c) \in 0..Len(Grown)
      /\ Len(confirm_count') = Len(Grown) - Stop(Grown, c)
  <2>1. c \in Nat
    BY ConstantsAssumption
  <2>2. QED
    BY <1>3, <1>4, <2>1, ConfirmedCountType
<1>6. /\ prop <= dpos_proposed_irreversible_blocknum'
      /\ dpos_proposed_irreversible_blocknum' <= block_num'
      /\ Len(confirm_count') <= block_num' - dpos_proposed_irreversible_blocknum'
  <2>1. CASE Stop(Grown, c) = 0
    <3>1. dpos_proposed_irreversible_blocknum' = prop
      BY <1>3, <2>1 DEF NewProposed, prop
    <3>2. QED
      BY <1>1, <1>2, <1>3, <1>4, <1>5, <2>1, <3>1 DEF nb
  <2>2. CASE Stop(Grown, c) # 0
    <3>1. dpos_proposed_irreversible_blocknum' = nb - (Len(Grown) - Stop(Grown, c))
      BY <1>3, <2>2 DEF NewProposed, SlotBlock
    <3>2. QED
      BY <1>1, <1>3, <1>4, <1>5, <2>2, <3>1 DEF nb
  <2>3. QED
    BY <2>1, <2>2
<1>7. lib <= prop
  <2>1. IsFiniteSet(DOMAIN producer_to_last_implied_irb)
    BY <1>1, ConstantsAssumption, FS_Subset
  <2>2. \A q \in DOMAIN producer_to_last_implied_irb :
          producer_to_last_implied_irb[q] \in Nat /\ producer_to_last_implied_irb[q] <= prop
    BY <1>1, <1>2 DEF NatMap, ImpliedBelowProposed, prop
  <2>3. QED
    BY <1>1, <2>1, <2>2, CalcLibBound DEF lib
<1>8. \A q \in DOMAIN li : li[q] <= prop
  BY <1>1, <1>2 DEF li, MapPut, ImpliedBelowProposed, NatMap, prop
<1>9. ImpliedBelowProposed'
  <2>1. CASE promoted
    <3>1. producer_to_last_implied_irb' = SetLastImplied(li, sched, lib)
      BY <2>1 DEF NextBlock, nb, lib, li, sched, promoted, prop
    <3>2. \A q \in DOMAIN producer_to_last_implied_irb' :
            producer_to_last_implied_irb'[q] <= prop
      BY <1>7, <1>8, <3>1 DEF SetLastImplied
    <3>3. QED
      BY <1>1, <1>6, <3>2, <1>0 DEF ImpliedBelowProposed, IInv, TypeOK
  <2>2. CASE ~promoted
    <3>1. producer_to_last_implied_irb' = li
      BY <2>2 DEF NextBlock, nb, lib, li, sched, promoted, prop
    <3>2. QED
      BY <1>1, <1>6, <1>8, <3>1, <1>0 DEF ImpliedBelowProposed, IInv, TypeOK
  <2>3. QED
    BY <2>1, <2>2
<1>10. dpos_irreversible_blocknum' <= dpos_proposed_irreversible_blocknum'
  <2>1. lib \in Nat
    BY <1>1, CalcLibType DEF lib, nb
  <2>2. dpos_proposed_irreversible_blocknum' \in Nat
    BY <1>0, Zenon DEF IInv, TypeOK
  <2>3. QED
    BY <1>1, <1>3, <1>6, <1>7, <2>1, <2>2
<1>11. QED
  BY <1>0, <1>6, <1>9, <1>10 DEF FInv, FinalityOrder

LEMMA NextFInv == FInv /\ [Next]_vars => FInv'
<1> SUFFICES ASSUME FInv, [Next]_vars PROVE FInv'
  OBVIOUS
<1>1. CASE Next
  BY <1>1, NextBlockFInv DEF Next
<1>2. CASE UNCHANGED vars
  <2>1. IInv'
    BY <1>2, NextIInv DEF FInv
  <2>2. QED
    BY <1>2, <2>1 DEF vars, chain, tracker, ghost, FInv, FinalityOrder,
                      ImpliedBelowProposed
<1>3. QED
  BY <1>1, <1>2

(* In every state the watermarks of confirm are ordered, LIB <= proposed  *)
(* irreversible <= head, and confirm_count holds counters only for blocks  *)
(* above the proposed one, for every schedule history and every number    *)
(* of confirmed blocks (including ranges that wrap in uint32).             *)
THEOREM FinalityOrderHolds == Spec => []FinalityOrder
<1>1. FInv => FinalityOrder
  BY DEF FInv
<1>2. QED
  BY InitFInv, NextFInv, <1>1, PTL DEF Spec

=============================================================================
