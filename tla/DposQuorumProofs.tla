-------------------------- MODULE DposQuorumProofs --------------------------
(***************************************************************************)
(* Proof that confirmation_group_v0::confirm only makes a block proposed   *)
(* irreversible once more than two thirds of the producers of its schedule *)
(* have confirmed it, on every chain whose confirmed ranges do not wrap.   *)
(*                                                                         *)
(* The uint8 counter of a block starts at required_confs and every walk    *)
(* over it subtracts one.  The counter alone says nothing about who        *)
(* confirmed: the invariant ties it to the confirmers, counter + number    *)
(* of distinct confirmers = required_confs of the block's schedule.  The   *)
(* confirmers are distinct because no producer confirms a block twice      *)
(* (DInv of DposConfirmationProofs), so the counter reaching zero means    *)
(* required_confs distinct producers confirmed the block.                  *)
(***************************************************************************)
EXTENDS DposConfirmationProofs

\* The producers whose confirmation of block b has been counted.
Confirmers(b) == {q \in Producers : confirmations_of[b][q] > 0}

\* The confirmers of block b after a step.
ConfirmersNext(b) == {q \in Producers : confirmations_of'[b][q] > 0}

\* The value confirm_count is given for a block of a schedule of s producers.
RequiredConfs(s) == (s * 2) \div 3 + 1

\* The block slot j of confirm_count stands for.
SlotOf(j) == block_num - (Len(confirm_count) - j)

\* Every tracked counter plus the confirmers of its block is the counter
\* the block started with.
CountMatches ==
  \A j \in 1..Len(confirm_count) :
    confirm_count[j] + Cardinality(Confirmers(SlotOf(j)))
      = RequiredConfs(schedule_size_of[SlotOf(j)])

QInv ==
  /\ DInv
  /\ confirm_count # <<>> => block_num <= MaxBlock
  /\ CountMatches

-----------------------------------------------------------------------------

(* When some slot of the walk holds a counter of 1, Top(S, n) is one of    *)
(* them: the newest zero of confirm's backward walk is a slot of the walk. *)
LEMMA TopInSet ==
  ASSUME NEW S, NEW n \in Nat, S \subseteq 1..n, S # {}
  PROVE  Top(S, n) \in S
<1> DEFINE T == {t \in 1..n : \E s \in S : t <= s}
           m == Top(S, n)
<1> USE DEF m
<1>1. m \in 0..n /\ \A s \in S : s <= m
  BY TopBounds
<1>2. m >= 1
  <2>1. PICK s \in S : TRUE
    OBVIOUS
  <2>2. QED
    BY <1>1, <2>1
<1>3. SUFFICES ASSUME m \notin S PROVE FALSE
  OBVIOUS
<1>4. T \subseteq 1..(m - 1)
  BY <1>1, <1>3
<1>5. IsFiniteSet(1..(m - 1)) /\ Cardinality(1..(m - 1)) = m - 1
  <2>1. m - 1 \in Nat /\ m - 1 \in Int /\ 1 \in Int
    BY <1>1, <1>2
  <2>2. /\ IsFiniteSet(1..(m - 1))
        /\ Cardinality(1..(m - 1)) = IF 1 > m - 1 THEN 0 ELSE (m - 1) - 1 + 1
    BY ONLY <2>1, FS_Interval
  <2>3. QED
    BY <2>1, <2>2
<1>6. Cardinality(T) <= m - 1
  BY <1>4, <1>5, FS_Subset
<1>7. QED
  BY <1>1, <1>6 DEF Top, T

(* With no slot holding 1, Top is 0: the walk finds no newly proposed      *)
(* block.                                                                  *)
LEMMA TopOfEmpty ==
  ASSUME NEW n \in Nat
  PROVE  Top({}, n) = 0
<1>1. {t \in 1..n : \E s \in {} : t <= s} = {}
  OBVIOUS
<1>2. QED
  BY <1>1, FS_EmptySet DEF Top

(* A counter started at required_confs = size * 2 / 3 + 1 stands for more  *)
(* than two thirds of a schedule of size producers.                        *)
LEMMA RequiredConfsQuorum ==
  ASSUME NEW s \in Nat
  PROVE  3 * RequiredConfs(s) > 2 * s
BY DEF RequiredConfs

(* The confirmers of a block are a finite set of producers.                *)
LEMMA ConfirmersFinite ==
  ASSUME NEW b
  PROVE  /\ IsFiniteSet(Confirmers(b))
         /\ Cardinality(Confirmers(b)) \in Nat
<1>1. IsFiniteSet(Confirmers(b))
  BY ConstantsAssumption, FS_Subset DEF Confirmers
<1>2. QED
  BY <1>1, FS_CardinalityType

LEMMA InitQInv == Init => QInv
<1> SUFFICES ASSUME Init PROVE QInv
  OBVIOUS
<1>1. DInv
  BY InitDInv
<1>2. confirm_count = <<>>
  BY DEF Init
<1>3. QED
  BY <1>1, <1>2 DEF QInv, CountMatches

\* The block slot j of Grown stands for, in the step to block nb.
GrownSlot(j) == SlotBlock(j, Len(Grown), block_num + 1)

(* Appending the new block's counter, after evicting the oldest at         *)
(* capacity, keeps every counter matched with the confirmers of its block; *)
(* the new block has none yet and its counter is required_confs of the    *)
(* active schedule, which the step records as its schedule size.           *)
LEMMA GrownMatches ==
  ASSUME QInv, NEW p \in Producers, NEW c \in 0..MaxConfirm,
         NEW ns \in ProposedSchedules \cup {{}}, NextBlock(p, c, ns)
  PROVE  \A j \in 1..Len(Grown) :
           /\ GrownSlot(j) \in Blocks
           /\ dpos_proposed_irreversible_blocknum < GrownSlot(j)
           /\ Grown[j] + Cardinality(Confirmers(GrownSlot(j)))
                = RequiredConfs(schedule_size_of'[GrownSlot(j)])
<1> DEFINE nb == block_num + 1
           L == Len(confirm_count)
           n == Len(Grown)
           d == L + 1 - n
<1> USE DEF nb, L, n, d
<1>1. /\ block_num \in Nat
      /\ dpos_proposed_irreversible_blocknum \in Nat
      /\ confirm_count \in Seq(1..255)
      /\ L <= block_num - dpos_proposed_irreversible_blocknum
      /\ DOMAIN producer_to_last_implied_irb \subseteq Producers
      /\ confirmations_of \in [Blocks -> [Producers -> Nat]]
      /\ schedule_size_of \in [Blocks -> Nat]
      /\ \A b \in Blocks, q \in Producers : ConfirmedOnce(b, q)
      /\ CountMatches
  BY Zenon DEF QInv, DInv, FInv, IInv, TypeOK, FinalityOrder, L
<1>2. /\ nb <= MaxBlock
      /\ schedule_size_of' = [schedule_size_of EXCEPT ![nb] = num_active_producers]
  BY DEF NextBlock, nb
<1>3. /\ L \in Nat
      /\ MaxTracked \in Nat \ {0}
      /\ MaxBlock \in Nat
      /\ required_confs = RequiredConfs(num_active_producers)
  BY <1>1, ConstantsAssumption, LenProperties DEF RequiredConfs, required_confs
<1>a. /\ block_num \in Nat
      /\ dpos_proposed_irreversible_blocknum \in Nat
      /\ L \in Nat
      /\ L <= block_num - dpos_proposed_irreversible_blocknum
      /\ MaxBlock \in Nat
      /\ nb <= MaxBlock
  BY <1>1, <1>2, <1>3
\* Grown is confirm_count with required_confs appended, the oldest slot
\* evicted at capacity.
<1>4. L < MaxTracked => /\ n = L + 1
                       /\ Grown[n] = required_confs
                       /\ \A j \in 1..L : Grown[j] = confirm_count[j]
  <2> HAVE L < MaxTracked
  <2>1. Grown = Append(confirm_count, required_confs)
    BY DEF Grown
  <2>2. QED
    BY <1>1, <2>1, AppendProperties
<1>5. ~(L < MaxTracked) => /\ n = L
                            /\ L >= 1
                            /\ Grown[n] = required_confs
                            /\ \A j \in 1..(L - 1) : Grown[j] = confirm_count[j + 1]
  <2> HAVE ~(L < MaxTracked)
  <2>1. Grown = Append(Tail(confirm_count), required_confs)
    BY DEF Grown
  <2>2. confirm_count # <<>> /\ L >= 1
    BY <1>1, <1>3, EmptySeq
  <2>3. /\ Tail(confirm_count) \in Seq(1..255)
        /\ Len(Tail(confirm_count)) = L - 1
        /\ \A i \in 1..(L - 1) : Tail(confirm_count)[i] = confirm_count[i + 1]
    BY <1>1, <2>2, HeadTailProperties
  <2>4. QED
    BY <1>1, <2>1, <2>2, <2>3, AppendProperties
<1>6. n \in Nat /\ n >= 1 /\ n <= L + 1 /\ Grown[n] = required_confs
  BY <1>3, <1>4, <1>5
<1>7. ASSUME NEW j \in 1..n
      PROVE  /\ GrownSlot(j) \in Blocks
             /\ dpos_proposed_irreversible_blocknum < GrownSlot(j)
  <2>1. GrownSlot(j) = nb - (n - j)
    BY DEF GrownSlot, SlotBlock
  <2>2. QED
    BY ONLY <1>a, <1>6, <2>1 DEF Blocks
\* the new block: no confirmer yet, counter required_confs
<1>8. Grown[n] + Cardinality(Confirmers(GrownSlot(n)))
        = RequiredConfs(schedule_size_of'[GrownSlot(n)])
  <2>1. GrownSlot(n) = nb
    BY ONLY <1>a, <1>6 DEF GrownSlot, SlotBlock
  <2>2. nb \in Blocks
    BY <1>6, <1>7, <2>1
  <2>3. Confirmers(nb) = {}
    <3>1. \A q \in Producers : ConfirmedOnce(nb, q)
      BY <1>1, <2>2
    <3>2. \A q \in Producers : confirmations_of[nb][q] \in Nat
      BY <1>1, <2>2
    <3>3. QED
      BY <1>1, <3>1, <3>2 DEF ConfirmedOnce, Confirmers
  <2>4. schedule_size_of'[nb] = num_active_producers
    BY <1>1, <1>2, <2>2
  <2>5. RequiredConfs(num_active_producers) \in Nat
    <3>1. num_active_producers \in 1..125
      BY <1>1, NumActiveRange
    <3>2. QED
      BY <3>1 DEF RequiredConfs
  <2>6. Cardinality(Confirmers(GrownSlot(n))) = 0
    BY <2>1, <2>3, FS_EmptySet
  <2>7. QED
    BY <1>3, <1>6, <2>1, <2>4, <2>5, <2>6
\* an older block: its counter moves down by the evicted slot, if any
<1>9. ASSUME NEW j \in 1..n, j # n,
             NEW i \in 1..L, Grown[j] = confirm_count[i], SlotOf(i) = GrownSlot(j)
      PROVE  Grown[j] + Cardinality(Confirmers(GrownSlot(j)))
               = RequiredConfs(schedule_size_of'[GrownSlot(j)])
  <2>1. GrownSlot(j) \in Blocks /\ GrownSlot(j) = nb - (n - j)
    BY <1>7 DEF GrownSlot, SlotBlock
  <2>2. GrownSlot(j) # nb
    BY <1>a, <1>6, <1>9, <2>1
  <2>3. schedule_size_of'[GrownSlot(j)] = schedule_size_of[GrownSlot(j)]
    BY <1>1, <1>2, <2>1, <2>2
  <2>4. confirm_count[i] + Cardinality(Confirmers(SlotOf(i)))
          = RequiredConfs(schedule_size_of[SlotOf(i)])
    BY <1>1 DEF CountMatches
  <2>5. QED
    BY <1>9, <2>3, <2>4
<1>10. ASSUME NEW j \in 1..n, j # n
       PROVE  Grown[j] + Cardinality(Confirmers(GrownSlot(j)))
                = RequiredConfs(schedule_size_of'[GrownSlot(j)])
  <2>1. GrownSlot(j) = nb - (n - j)
    BY DEF GrownSlot, SlotBlock
  <2>2. CASE L < MaxTracked
    <3>1. j \in 1..L /\ Grown[j] = confirm_count[j]
      BY <1>3, <1>4, <1>10, <2>2
    <3>2. SlotOf(j) = GrownSlot(j)
      BY <1>a, <1>4, <2>1, <2>2 DEF SlotOf
    <3>3. QED
      BY <1>9, <1>10, <3>1, <3>2
  <2>3. CASE ~(L < MaxTracked)
    <3>1. j \in 1..(L - 1) /\ j + 1 \in 1..L /\ Grown[j] = confirm_count[j + 1]
      BY <1>3, <1>5, <1>10, <2>3
    <3>2. SlotOf(j + 1) = GrownSlot(j)
      <4>1. n = L
        BY <1>5, <2>3
      <4>2. QED
        BY ONLY <1>a, <4>1, <2>1, <3>1 DEF SlotOf
    <3>3. QED
      BY <1>9, <1>10, <3>1, <3>2
  <2>4. QED
    BY <2>2, <2>3
<1>11. QED
  BY <1>7, <1>8, <1>10

\* The step of ProposedHasQuorum.
QuorumStep ==
  dpos_proposed_irreversible_blocknum' # dpos_proposed_irreversible_blocknum =>
    LET b == dpos_proposed_irreversible_blocknum'
    IN  3 * Cardinality({q \in Producers : confirmations_of'[b][q] > 0})
          > 2 * schedule_size_of'[b]

(* The walk of confirm over Grown: a walked slot loses one from its counter *)
(* and its block gains p as a new confirmer, which it did not have, since  *)
(* p never confirms a block twice; any other slot keeps both.             *)
LEMMA WalkMatches ==
  ASSUME NoWrap, QInv, NEW p \in Producers, NEW c \in 0..MaxConfirm,
         NEW ns \in ProposedSchedules \cup {{}}, NextBlock(p, c, ns),
         NEW j \in 1..Len(Grown)
  PROVE  /\ Cardinality(ConfirmersNext(GrownSlot(j))) \in Nat
         /\ Decremented(Grown, c)[j] + Cardinality(ConfirmersNext(GrownSlot(j)))
              = Grown[j] + Cardinality(Confirmers(GrownSlot(j)))
<1> DEFINE nb == block_num + 1
           n == Len(Grown)
           W == {i \in Walk(n, c) : i >= Stop(Grown, c)}
           b == GrownSlot(j)
           Now == ConfirmersNext(b)
<1>1. /\ block_num \in Nat
      /\ confirm_count \in Seq(1..255)
      /\ DOMAIN producer_to_last_implied_irb \subseteq Producers
      /\ confirmations_of \in [Blocks -> [Producers -> Nat]]
  BY Zenon DEF QInv, DInv, FInv, IInv, TypeOK
<1>g. Grown \in Seq(1..255)
  BY <1>1, GrownType
<1>2. /\ n \in Nat
      /\ j \in 1..n
      /\ Grown[j] \in 1..255
  BY <1>g, LenProperties, ElementOfSeq DEF n
<1>3. b \in Blocks /\ b = SlotBlock(j, n, nb)
  BY GrownMatches DEF GrownSlot, n, nb
<1>4. confirmations_of' =
        [x \in Blocks |->
           IF \E i \in W : SlotBlock(i, n, nb) = x
           THEN [confirmations_of[x] EXCEPT ![p] = @ + 1]
           ELSE confirmations_of[x]]
  BY DEF NextBlock, W, n, nb
\* the slot of a block is unique
<1>5. (\E i \in W : SlotBlock(i, n, nb) = b) <=> j \in W
  <2>1. W \subseteq 1..n
    BY DEF W, Walk
  <2>2. \A i \in 1..n : SlotBlock(i, n, nb) = b => i = j
    BY <1>1, <1>2, <1>3 DEF SlotBlock, nb
  <2>3. QED
    BY <1>3, <2>1, <2>2
<1>6. IsFiniteSet(Confirmers(b)) /\ Cardinality(Confirmers(b)) \in Nat
  BY ConfirmersFinite
<1>7. CASE j \in W
  <2>1. confirmations_of'[b] = [confirmations_of[b] EXCEPT ![p] = @ + 1]
    BY <1>3, <1>4, <1>5, <1>7
  <2>2. confirmations_of[b][p] = 0
    <3>1. \A x \in Blocks : confirmations_of'[x][p] <= 1
      <4>1. DInv'
        BY NextBlockDInv DEF QInv
      <4>2. QED
        BY <4>1 DEF DInv, ConfirmedOnce
    <3>2. confirmations_of'[b][p] <= 1
      BY <1>3, <3>1
    <3>3. confirmations_of[b][p] \in Nat
      BY <1>1, <1>3
    <3>4. QED
      BY <1>1, <1>3, <2>1, <3>2, <3>3
  <2>3. Now = Confirmers(b) \cup {p} /\ p \notin Confirmers(b)
    BY <1>1, <1>3, <2>1, <2>2 DEF Confirmers, ConfirmersNext, Now
  <2>4. Cardinality(Now) = Cardinality(Confirmers(b)) + 1
    BY <1>6, <2>3, FS_AddElement
  <2>5. Decremented(Grown, c)[j] = Grown[j] - 1
    <3>1. Decremented(Grown, c)[j] = (Grown[j] + 255) % 256
      BY <1>2, <1>7 DEF Decremented, W, n
    <3>2. CASE Grown[j] = 1
      BY <3>1, <3>2
    <3>3. CASE Grown[j] # 1
      <4>1. Grown[j] \in 2..255
        BY <1>2, <3>3
      <4>2. QED
        BY ONLY <3>1, <4>1, Uint8Decrement
    <3>4. QED
      BY <3>2, <3>3
  \* the arithmetic on fresh names: the prover loops on Grown[j] in a goal
  <2>6. QED
    <3>1. PICK gj \in 1..255 : gj = Grown[j]
      BY <1>2, Zenon
    <3>2. PICK dj : dj = Decremented(Grown, c)[j]
      OBVIOUS
    <3>3. PICK k \in Nat : k = Cardinality(Confirmers(b))
      BY <1>6, Zenon
    <3>4. PICK k1 : k1 = Cardinality(Now)
      OBVIOUS
    <3>5. dj = gj - 1 /\ k1 = k + 1
      BY <2>4, <2>5, <3>1, <3>2, <3>3, <3>4, Zenon
    <3>6. k1 \in Nat /\ dj + k1 = gj + k
      BY ONLY <3>5
    <3>7. QED
      BY <3>1, <3>2, <3>3, <3>4, <3>6, Zenon DEF Now, b
<1>8. CASE j \notin W
  <2>1. confirmations_of'[b] = confirmations_of[b]
    BY <1>3, <1>4, <1>5, <1>8
  <2>2. Now = Confirmers(b)
    BY <2>1 DEF Confirmers, ConfirmersNext, Now
  <2>3. Decremented(Grown, c)[j] = Grown[j]
    BY <1>2, <1>8 DEF Decremented, W, n
  <2>4. QED
    BY <1>6, <2>2, <2>3 DEF Now, b
<1>9. QED
  BY <1>7, <1>8

(* One block step keeps QInv and moves the proposed block only to a block  *)
(* with a quorum of confirmers.                                            *)
LEMMA NextBlockQInv ==
  ASSUME NoWrap, QInv, NEW p \in Producers, NEW c \in 0..MaxConfirm,
         NEW ns \in ProposedSchedules \cup {{}}, NextBlock(p, c, ns)
  PROVE  QInv' /\ QuorumStep
<1> DEFINE nb == block_num + 1
           n == Len(Grown)
           stop == Stop(Grown, c)
           Dec == Decremented(Grown, c)
<1>1. DInv'
  BY NextBlockDInv DEF QInv
<1>2. /\ block_num \in Nat
      /\ confirm_count \in Seq(1..255)
      /\ DOMAIN producer_to_last_implied_irb \subseteq Producers
  BY Zenon DEF QInv, DInv, FInv, IInv, TypeOK
<1>c. c \in Nat
  BY ConstantsAssumption
<1>3. /\ Grown \in Seq(1..255)
      /\ n \in Nat
      /\ stop \in 0..n
      /\ Len(ConfirmedCount(Grown, c)) = n - stop
  BY <1>2, <1>c, GrownType, ConfirmedCountType, LenProperties
<1>4. /\ block_num' = nb
      /\ nb <= MaxBlock
      /\ confirm_count' = ConfirmedCount(Grown, c)
      /\ dpos_proposed_irreversible_blocknum' = NewProposed(Grown, c, nb)
  BY DEF NextBlock
\* the counters kept are those above the stop, each matched after the walk
<1>5. CountMatches'
  <2> SUFFICES ASSUME NEW k \in 1..(n - stop)
               PROVE  confirm_count'[k]
                        + Cardinality(ConfirmersNext(nb - ((n - stop) - k)))
                        = RequiredConfs(schedule_size_of'[nb - ((n - stop) - k)])
    BY <1>3, <1>4 DEF CountMatches, SlotOf, Confirmers, ConfirmersNext
  <2>1. PICK j \in 1..n : j = stop + k
    BY <1>3
  <2>2. confirm_count'[k] = Dec[j]
    BY <1>3, <1>4, <2>1 DEF ConfirmedCount
  <2>3. nb - ((n - stop) - k) = GrownSlot(j)
    BY <1>2, <1>3, <2>1 DEF GrownSlot, SlotBlock
  <2>4. Dec[j] + Cardinality(ConfirmersNext(GrownSlot(j)))
          = Grown[j] + Cardinality(Confirmers(GrownSlot(j)))
    BY <2>1, WalkMatches
  <2>5. Grown[j] + Cardinality(Confirmers(GrownSlot(j)))
          = RequiredConfs(schedule_size_of'[GrownSlot(j)])
    BY <2>1, GrownMatches
  <2>6. QED
    BY <2>2, <2>3, <2>4, <2>5, Zenon
\* a new proposed block is the slot whose counter the walk took to zero
<1>6. QuorumStep
  <2> SUFFICES ASSUME dpos_proposed_irreversible_blocknum'
                        # dpos_proposed_irreversible_blocknum
               PROVE  3 * Cardinality(ConfirmersNext(dpos_proposed_irreversible_blocknum'))
                        > 2 * schedule_size_of'[dpos_proposed_irreversible_blocknum']
    BY DEF QuorumStep, ConfirmersNext
  <2> DEFINE S == {i \in Walk(n, c) : Grown[i] = 1}
  <2>1. S \subseteq 1..n
    BY DEF Walk
  <2>2. stop = Top(S, n)
    BY DEF Stop
  <2>3. stop # 0
    BY <1>4, Zenon DEF NewProposed
  <2>4. S # {}
    BY <1>3, <2>2, <2>3, TopOfEmpty
  <2>5. stop \in S
    BY <1>3, <2>1, <2>2, <2>4, TopInSet
  <2>6. stop \in 1..n /\ stop \in Walk(n, c) /\ Grown[stop] = 1
    BY <2>1, <2>5
  <2>7. dpos_proposed_irreversible_blocknum' = GrownSlot(stop)
    BY <1>4, <2>3, Zenon DEF NewProposed, GrownSlot
  <2>8. Dec[stop] = 0
    BY <2>6 DEF Decremented
  <2>9. Dec[stop] + Cardinality(ConfirmersNext(GrownSlot(stop)))
          = RequiredConfs(schedule_size_of'[GrownSlot(stop)])
    <3>1. Dec[stop] + Cardinality(ConfirmersNext(GrownSlot(stop)))
            = Grown[stop] + Cardinality(Confirmers(GrownSlot(stop)))
      BY <2>6, WalkMatches
    <3>2. Grown[stop] + Cardinality(Confirmers(GrownSlot(stop)))
            = RequiredConfs(schedule_size_of'[GrownSlot(stop)])
      BY <2>6, GrownMatches
    <3>3. QED
      BY <3>1, <3>2, Zenon
  <2>10. /\ GrownSlot(stop) \in Blocks
         /\ schedule_size_of' \in [Blocks -> Nat]
         /\ Cardinality(ConfirmersNext(GrownSlot(stop))) \in Nat
    <3>1. GrownSlot(stop) \in Blocks
      BY <2>6, GrownMatches
    <3>2. schedule_size_of' \in [Blocks -> Nat]
      BY <1>1, Zenon DEF DInv, FInv, IInv, TypeOK
    <3>3. QED
      BY <2>6, <3>1, <3>2, WalkMatches
  \* the arithmetic on fresh names
  <2>11. PICK sz \in Nat : sz = schedule_size_of'[GrownSlot(stop)]
    BY <2>10, Zenon
  <2>12. PICK cn \in Nat : cn = Cardinality(ConfirmersNext(GrownSlot(stop)))
    BY <2>10, Zenon
  <2>13. cn = RequiredConfs(sz)
    BY <2>8, <2>9, <2>11, <2>12
  <2>14. 3 * cn > 2 * sz
    BY <2>13, RequiredConfsQuorum
  <2>15. QED
    BY <2>7, <2>11, <2>12, <2>14, Zenon
<1>7. QED
  BY <1>1, <1>4, <1>5, <1>6 DEF QInv

LEMMA NextQInv ==
  ASSUME NoWrap, QInv, [Next]_vars
  PROVE  QInv' /\ [QuorumStep]_vars
<1>1. CASE Next
  BY <1>1, NextBlockQInv DEF Next
<1>2. CASE UNCHANGED vars
  <2>1. DInv'
    BY <1>2, NextDInv DEF QInv
  <2>2. QED
    BY <1>2, <2>1 DEF vars, chain, tracker, ghost, QInv, CountMatches, SlotOf,
                      Confirmers
<1>3. QED
  BY <1>1, <1>2

-----------------------------------------------------------------------------

(* On every chain restored past its first MaxConfirm blocks, confirm only  *)
(* moves dpos_proposed_irreversible_blocknum to a block that more than two *)
(* thirds of the producers of its schedule have confirmed, each counted    *)
(* once: the uint8 counter starts at required_confs, each walk over it     *)
(* takes one off and adds a confirmer the block did not have, and it only  *)
(* reaches zero once required_confs distinct producers have confirmed.     *)
THEOREM ProposedHasQuorumHolds ==
  ASSUME NoWrap
  PROVE  Spec => ProposedHasQuorum
<1>1. QInv /\ [Next]_vars => QInv' /\ [QuorumStep]_vars
  BY NextQInv
<1>2. QED
  BY <1>1, InitQInv, PTL DEF Spec, ProposedHasQuorum, QuorumStep

=============================================================================
