------------------------ MODULE DposNthElementProofs ------------------------
(***************************************************************************)
(* calc_dpos_last_irreversible (block_header_state.cpp) picks the LIB with *)
(* std::nth_element at index (size-1)/3.  DposChain models the result in   *)
(* closed form: the number of t in 1..bound such that at least size-index *)
(* values are >= t.  This module proves that the closed form is the        *)
(* element nth_element puts at the index, for every map of every size, so  *)
(* NthElementMatchesReference holds in every reachable state.             *)
(*                                                                         *)
(* The argument needs no induction.  The count of values >= t falls as t   *)
(* grows, so the t in 1..bound that pass the test are 1..x for x the size  *)
(* of the set of them; at most index values lie below x and more than      *)
(* index lie at or below it, which makes x a value of the map and the only *)
(* one with both properties.                                               *)
(***************************************************************************)
EXTENDS DposChainProofs

-----------------------------------------------------------------------------
(* Lemmas on counting the values of a function over a finite set.         *)

(* A higher threshold is met by fewer values.                              *)
LEMMA AboveAntitone ==
  ASSUME NEW D, IsFiniteSet(D), NEW f \in [D -> Nat],
         NEW s \in Nat, NEW t \in Nat, s <= t
  PROVE  /\ IsFiniteSet({q \in D : f[q] >= t})
         /\ Cardinality({q \in D : f[q] >= t}) <= Cardinality({q \in D : f[q] >= s})
<1>1. {q \in D : f[q] >= t} \subseteq {q \in D : f[q] >= s}
  OBVIOUS
<1>2. IsFiniteSet({q \in D : f[q] >= s})
  BY FS_Subset
<1>3. QED
  BY <1>1, <1>2, FS_Subset

(* The values below t are the others: their number is size minus the       *)
(* number of values >= t.                                                  *)
LEMMA BelowIsComplement ==
  ASSUME NEW D, IsFiniteSet(D), NEW f \in [D -> Nat], NEW t \in Nat
  PROVE  /\ Cardinality({q \in D : f[q] >= t}) \in 0..Cardinality(D)
         /\ Cardinality({q \in D : f[q] < t})
              = Cardinality(D) - Cardinality({q \in D : f[q] >= t})
<1> DEFINE A == {q \in D : f[q] >= t}
<1>1. IsFiniteSet(A) /\ Cardinality(A) <= Cardinality(D)
  BY FS_Subset
<1>2. Cardinality(A) \in Nat /\ Cardinality(D) \in Nat
  BY <1>1, FS_CardinalityType
<1>3. {q \in D : f[q] < t} = D \ A /\ D \cap A = A
  OBVIOUS
<1>4. Cardinality(D \ A) = Cardinality(D) - Cardinality(D \cap A)
  BY FS_Difference
<1>5. QED
  BY <1>1, <1>2, <1>3, <1>4

(* A set of numbers in 1..N that contains every smaller positive number    *)
(* with each of its elements is the interval up to its size.               *)
LEMMA DownClosedIsInterval ==
  ASSUME NEW N \in Nat, NEW T \in SUBSET (1..N),
         \A t \in T : \A s \in 1..t : s \in T
  PROVE  /\ Cardinality(T) \in 0..N
         /\ T = 1..Cardinality(T)
<1> DEFINE x == Cardinality(T)
<1> USE DEF x
<1>1. x \in 0..N
  BY CardinalityOfBoundedSet
<1>2. IsFiniteSet(T)
  <2>1. 1 \in Int /\ N \in Int
    OBVIOUS
  <2>2. IsFiniteSet(1..N)
    BY ONLY <2>1, FS_Interval
  <2>3. QED
    BY <2>2, FS_Subset
<1>3. ASSUME NEW t \in T PROVE t <= x
  <2>1. 1..t \subseteq T
    BY <1>3
  <2>2. t \in Nat /\ Cardinality(1..t) = t
    BY FS_Interval
  <2>3. QED
    BY <1>2, <2>1, <2>2, FS_Subset
<1>4. ASSUME NEW s \in 1..x PROVE s \in T
  <2> SUFFICES ASSUME s \notin T PROVE FALSE
    OBVIOUS
  <2>1. T \subseteq 1..(s - 1)
    <3> SUFFICES ASSUME NEW t \in T, s <= t PROVE FALSE
      BY <1>1
    <3>1. s \in 1..t
      BY <1>1
    <3>2. QED
      BY <3>1
  <2>2. s - 1 \in Nat /\ IsFiniteSet(1..(s - 1)) /\ Cardinality(1..(s - 1)) = s - 1
    <3>1. s - 1 \in Nat /\ 1 \in Int /\ s - 1 \in Int
      BY <1>1
    <3>2. QED
      BY ONLY <3>1, FS_Interval
  <2>3. Cardinality(T) <= Cardinality(1..(s - 1))
    BY ONLY <2>1, <2>2, FS_Subset
  <2>4. x <= s - 1
    BY <2>2, <2>3
  <2>5. QED
    BY <1>1, <2>4
<1>5. T \subseteq 1..x
  BY <1>1, <1>3
<1>6. 1..x \subseteq T
  BY <1>4
<1>7. QED
  BY <1>1, <1>5, <1>6

(* The number of t in 1..bound met by at least size-k values of f.        *)
NthClosedForm(D, f, bound, k) ==
  Cardinality({t \in 1..bound : Cardinality({q \in D : f[q] >= t}) >= Cardinality(D) - k})

(* y has at most k values of f below it and more than k at or below it.    *)
IsNthElement(D, f, k, y) ==
  /\ Cardinality({q \in D : f[q] < y}) <= k
  /\ Cardinality({q \in D : f[q] <= y}) > k

(* The closed form is the nth element: for a function f over a finite set  *)
(* D with values in 0..bound and an index k below the size of D, the       *)
(* number x of t in 1..bound met by at least size-k values is a value of f, *)
(* at most k values lie below x, more than k lie at or below it, and no    *)
(* other number has both properties.                                       *)
LEMMA ClosedFormIsNthElement ==
  ASSUME NEW D, IsFiniteSet(D), NEW f \in [D -> Nat], NEW bound \in Nat,
         \A q \in D : f[q] <= bound,
         NEW k \in Nat, k < Cardinality(D)
  PROVE  /\ NthClosedForm(D, f, bound, k) \in {f[q] : q \in D}
         /\ IsNthElement(D, f, k, NthClosedForm(D, f, bound, k))
         /\ \A y \in Nat : IsNthElement(D, f, k, y) => y = NthClosedForm(D, f, bound, k)
<1> DEFINE n == Cardinality(D)
<1> USE DEF n, NthClosedForm, IsNthElement
<1>1. n \in Nat
  BY FS_CardinalityType
<1> USE <1>1
\* the number of values >= t, as an opaque function of t
<1>2. \A t \in Nat : /\ Cardinality({q \in D : f[q] >= t}) \in Nat
                     /\ Cardinality({q \in D : f[q] >= t}) <= n
                     /\ Cardinality({q \in D : f[q] < t})
                          = n - Cardinality({q \in D : f[q] >= t})
  BY BelowIsComplement
<1>3. PICK C \in [Nat -> Nat] : \A t \in Nat : C[t] = Cardinality({q \in D : f[q] >= t})
  <2>1. [t \in Nat |-> Cardinality({q \in D : f[q] >= t})] \in [Nat -> Nat]
    BY <1>2
  <2>2. QED
    BY <2>1
<1>4. \A t \in Nat : /\ C[t] <= n
                     /\ Cardinality({q \in D : f[q] < t}) = n - C[t]
                     /\ Cardinality({q \in D : f[q] <= t}) = n - C[t + 1]
  <2> SUFFICES ASSUME NEW t \in Nat
               PROVE  /\ C[t] <= n
                      /\ Cardinality({q \in D : f[q] < t}) = n - C[t]
                      /\ Cardinality({q \in D : f[q] <= t}) = n - C[t + 1]
    OBVIOUS
  <2>1. {q \in D : f[q] <= t} = {q \in D : f[q] < t + 1}
    OBVIOUS
  <2>2. C[t] = Cardinality({q \in D : f[q] >= t})
        /\ C[t + 1] = Cardinality({q \in D : f[q] >= t + 1})
    BY <1>3
  <2>3. Cardinality({q \in D : f[q] >= t}) <= n
        /\ Cardinality({q \in D : f[q] < t}) = n - Cardinality({q \in D : f[q] >= t})
    BY <1>2
  <2>4. Cardinality({q \in D : f[q] < t + 1})
          = n - Cardinality({q \in D : f[q] >= t + 1})
    <3>1. t + 1 \in Nat
      OBVIOUS
    <3>2. QED
      BY <3>1, <1>2
  <2>5. QED
    BY <2>1, <2>2, <2>3, <2>4
<1>5. \A s, t \in Nat : s <= t => C[t] <= C[s]
  <2> SUFFICES ASSUME NEW s \in Nat, NEW t \in Nat, s <= t PROVE C[t] <= C[s]
    OBVIOUS
  <2>1. Cardinality({q \in D : f[q] >= t}) <= Cardinality({q \in D : f[q] >= s})
    BY AboveAntitone
  <2>2. QED
    BY <2>1, <1>3
<1> DEFINE T == {t \in 1..bound : C[t] >= n - k}
<1> USE DEF T
<1>6a. Cardinality(T) \in Nat
  <2>1. Cardinality(T) \in 0..bound
    BY CardinalityOfBoundedSet
  <2>2. QED
    BY <2>1
<1>6b. PICK x \in Nat : x = Cardinality(T)
  BY ONLY <1>6a
<1>6. Cardinality({t \in 1..bound : Cardinality({q \in D : f[q] >= t}) >= n - k}) = x
  <2>1. {t \in 1..bound : Cardinality({q \in D : f[q] >= t}) >= n - k} = T
    BY <1>3
  <2>2. QED
    BY <2>1, <1>6b
\* the t that pass the test are 1..x
<1>7. x \in 0..bound /\ T = 1..x
  <2>1. \A t \in T : \A s \in 1..t : s \in T
    BY <1>5
  <2>2. QED
    BY <2>1, <1>6b, DownClosedIsInterval
<1>8. x \in Nat /\ C[x] \in Nat /\ C[x + 1] \in Nat
  BY <1>3, <1>7
<1>9. C[x] >= n - k
  <2>1. CASE x = 0
    <3>1. {q \in D : f[q] >= 0} = D
      OBVIOUS
    <3>2. QED
      BY <2>1, <3>1, <1>3
  <2>2. CASE x # 0
    <3>1. x \in T
      BY <1>7, <2>2
    <3>2. QED
      BY <3>1
  <2>3. QED
    BY <2>1, <2>2
<1>10. C[x + 1] < n - k
  <2>1. CASE x + 1 <= bound
    <3>1. x + 1 \notin T
      BY <1>7, <1>8
    <3>2. x + 1 \in 1..bound
      BY <1>8, <2>1
    <3>3. QED
      BY <1>8, <3>1, <3>2
  <2>2. CASE x + 1 > bound
    <3>1. \A q \in D : ~(f[q] >= x + 1)
      BY <1>8, <2>2
    <3>2. {q \in D : f[q] >= x + 1} = {}
      BY <3>1
    <3>3. C[x + 1] = Cardinality({q \in D : f[q] >= x + 1})
      BY <1>3, <1>8
    <3>4. C[x + 1] = 0
      BY <3>2, <3>3, FS_EmptySet
    <3>5. QED
      BY <3>4
  <2>3. QED
    BY <2>1, <2>2, <1>8
<1>11. x \in {f[q] : q \in D}
  <2>1. C[x] = Cardinality({q \in D : f[q] >= x})
        /\ C[x + 1] = Cardinality({q \in D : f[q] >= x + 1})
    BY <1>3, <1>8
  <2>2. {q \in D : f[q] >= x + 1} # {q \in D : f[q] >= x}
    BY <1>8, <1>9, <1>10, <2>1
  <2>3. \E q \in D : f[q] >= x /\ ~(f[q] >= x + 1)
    BY <2>2, <1>8
  <2>4. PICK q \in D : f[q] >= x /\ ~(f[q] >= x + 1)
    BY <2>3
  <2>5. f[q] = x
    BY <2>4, <1>8
  <2>6. QED
    BY <2>5
<1>12. Cardinality({q \in D : f[q] < x}) <= k
  <2>1. Cardinality({q \in D : f[q] < x}) = n - C[x]
    BY <1>4, <1>8
  <2>2. QED
    BY <2>1, <1>8, <1>9
<1>13. Cardinality({q \in D : f[q] <= x}) > k
  <2>1. Cardinality({q \in D : f[q] <= x}) = n - C[x + 1]
    BY <1>4, <1>8
  <2>2. QED
    BY <2>1, <1>8, <1>10
<1>14. ASSUME NEW y \in Nat,
              Cardinality({q \in D : f[q] < y}) <= k,
              Cardinality({q \in D : f[q] <= y}) > k
       PROVE  y = x
  <2>1. Cardinality({q \in D : f[q] < y}) = n - C[y]
        /\ Cardinality({q \in D : f[q] <= y}) = n - C[y + 1]
    BY <1>4
  <2>2. C[y] \in Nat /\ C[y + 1] \in Nat
    BY <1>3
  <2>3. C[y] >= n - k /\ C[y + 1] < n - k
    BY <1>14, <2>1, <2>2
  <2>4. ~(y < x)
    <3> SUFFICES ASSUME y < x PROVE FALSE
      OBVIOUS
    <3>1. C[x] <= C[y + 1]
      BY <1>5, <1>8
    <3>2. QED
      BY <3>1, <1>8, <1>9, <2>2, <2>3
  <2>5. ~(y > x)
    <3> SUFFICES ASSUME y > x PROVE FALSE
      OBVIOUS
    <3>1. C[y] <= C[x + 1]
      BY <1>5, <1>8
    <3>2. QED
      BY <3>1, <1>8, <1>10, <2>2, <2>3
  <2>6. QED
    BY <1>8, <2>4, <2>5
<1>15. QED
  BY <1>6, <1>11, <1>12, <1>13, <1>14

-----------------------------------------------------------------------------
(* calc_dpos_last_irreversible on a non-empty map whose values, and the    *)
(* substituted one, are at most bound returns the element std::nth_element *)
(* puts at index (size-1)/3: the value the reference definition chooses.   *)
LEMMA CalcLibIsNthElement ==
  ASSUME NEW m, NEW p, NEW v \in Nat, NEW bound \in Nat,
         IsFiniteSet(DOMAIN m), DOMAIN m # {},
         \A q \in DOMAIN m : m[q] \in Nat /\ m[q] <= bound,
         v <= bound
  PROVE  LET val(q) == IF q = p THEN v ELSE m[q]
             n == Cardinality(DOMAIN m)
         IN  calc_dpos_last_irreversible(m, p, v, bound) =
               CHOOSE x \in {val(q) : q \in DOMAIN m} :
                 /\ Cardinality({q \in DOMAIN m : val(q) < x}) <= (n - 1) \div 3
                 /\ Cardinality({q \in DOMAIN m : val(q) <= x}) > (n - 1) \div 3
<1> DEFINE val(q) == IF q = p THEN v ELSE m[q]
           n == Cardinality(DOMAIN m)
           k == (n - 1) \div 3
           f == [q \in DOMAIN m |-> val(q)]
           Good(y) == /\ Cardinality({q \in DOMAIN m : f[q] < y}) <= k
                      /\ Cardinality({q \in DOMAIN m : f[q] <= y}) > k
<1>1. n \in Nat /\ n # 0
  BY FS_CardinalityType, FS_EmptySet
<1>2. k \in Nat /\ k < n
  BY <1>1
<1>3. f \in [DOMAIN m -> Nat] /\ \A q \in DOMAIN m : f[q] <= bound
  OBVIOUS
<1>4. /\ NthClosedForm(DOMAIN m, f, bound, k) \in {f[q] : q \in DOMAIN m}
      /\ IsNthElement(DOMAIN m, f, k, NthClosedForm(DOMAIN m, f, bound, k))
      /\ \A y \in Nat : IsNthElement(DOMAIN m, f, k, y)
                          => y = NthClosedForm(DOMAIN m, f, bound, k)
  BY <1>2, <1>3, ClosedFormIsNthElement
<1>4a. PICK x \in Nat : x = NthClosedForm(DOMAIN m, f, bound, k)
  <2>1. NthClosedForm(DOMAIN m, f, bound, k) \in 0..bound
    BY CardinalityOfBoundedSet DEF NthClosedForm
  <2>2. QED
    BY <2>1
\* the closed form of the code is x
<1>5. calc_dpos_last_irreversible(m, p, v, bound) = x
  <2>1. \A t \in 1..bound : {q \in DOMAIN m : val(q) >= t} = {q \in DOMAIN m : f[q] >= t}
    OBVIOUS
  <2>2. QED
    BY <1>1, <1>4a, <2>1 DEF calc_dpos_last_irreversible, NthClosedForm
\* the reference chooses x, the one value with both properties
<1>6. {val(q) : q \in DOMAIN m} = {f[q] : q \in DOMAIN m}
  OBVIOUS
<1>7. \A y : /\ Cardinality({q \in DOMAIN m : val(q) < y}) = Cardinality({q \in DOMAIN m : f[q] < y})
             /\ Cardinality({q \in DOMAIN m : val(q) <= y}) = Cardinality({q \in DOMAIN m : f[q] <= y})
  <2> SUFFICES ASSUME NEW y
               PROVE  /\ {q \in DOMAIN m : val(q) < y} = {q \in DOMAIN m : f[q] < y}
                      /\ {q \in DOMAIN m : val(q) <= y} = {q \in DOMAIN m : f[q] <= y}
    OBVIOUS
  <2> QED
    OBVIOUS
<1>8. (CHOOSE y \in {val(q) : q \in DOMAIN m} :
          /\ Cardinality({q \in DOMAIN m : val(q) < y}) <= k
          /\ Cardinality({q \in DOMAIN m : val(q) <= y}) > k) = x
  <2>1. \A y \in {val(q) : q \in DOMAIN m} : y \in Nat
    OBVIOUS
  <2>2. x \in {val(q) : q \in DOMAIN m} /\ Good(x)
    BY <1>4, <1>4a, <1>6 DEF IsNthElement
  <2>3. \A y \in {val(q) : q \in DOMAIN m} : Good(y) => y = x
    BY <1>4, <1>4a, <2>1 DEF IsNthElement
  <2>4. QED
    BY <2>2, <2>3, <1>7
<1>9. QED
  BY <1>5, <1>8

(* In every reachable state, and for every producer p, the irreversible    *)
(* block number that block_header_state::calc_dpos_last_irreversible       *)
(* computes with p's own entry replaced by the proposed number is the      *)
(* nth_element the code means: the value at index (n-1)/3 of the sorted    *)
(* implied numbers, with at most (n-1)/3 entries below it and more than    *)
(* (n-1)/3 at or below it. FInv bounds every entry by block_num, so the    *)
(* bound block_num + 1 of the closed form is never reached.                *)
THEOREM NthElementMatchesReferenceHolds == Spec => []NthElementMatchesReference
<1>1. FInv => NthElementMatchesReference
  <2> SUFFICES ASSUME FInv, NEW p \in Producers,
                      Cardinality(DOMAIN producer_to_last_implied_irb) > 0
               PROVE  LET m == producer_to_last_implied_irb
                          n == Cardinality(DOMAIN m)
                          val(q) == IF q = p THEN dpos_proposed_irreversible_blocknum ELSE m[q]
                      IN  calc_dpos_last_irreversible(m, p, dpos_proposed_irreversible_blocknum,
                                                      block_num + 1) =
                            CHOOSE x \in {val(q) : q \in DOMAIN m} :
                              /\ Cardinality({q \in DOMAIN m : val(q) < x}) <= (n - 1) \div 3
                              /\ Cardinality({q \in DOMAIN m : val(q) <= x}) > (n - 1) \div 3
    BY DEF NthElementMatchesReference
  <2>1. IsFiniteSet(DOMAIN producer_to_last_implied_irb)
    BY ConstantsAssumption, FS_Subset, FInv DEF FInv, IInv, TypeOK
  <2>2. DOMAIN producer_to_last_implied_irb # {}
    BY FS_EmptySet
  <2>3. /\ block_num + 1 \in Nat
        /\ dpos_proposed_irreversible_blocknum \in Nat
        /\ dpos_proposed_irreversible_blocknum <= block_num + 1
        /\ \A q \in DOMAIN producer_to_last_implied_irb :
             /\ producer_to_last_implied_irb[q] \in Nat
             /\ producer_to_last_implied_irb[q] <= block_num + 1
    BY FInv DEF FInv, IInv, TypeOK, FinalityOrder, ImpliedBelowProposed
  <2>4. QED
    BY ONLY <2>1, <2>2, <2>3, CalcLibIsNthElement, Zenon
<1>2. QED
  BY <1>1, InitFInv, NextFInv, PTL DEF Spec

=============================================================================
