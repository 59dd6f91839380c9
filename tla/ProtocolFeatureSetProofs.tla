----------------------- MODULE ProtocolFeatureSetProofs -----------------------
(***************************************************************************)
(* Proofs about add_feature of ProtocolFeatureSet, for every catalog and   *)
(* every set of candidate descriptions allowed by FeatureSetAssumption.    *)
(*                                                                         *)
(* None of the three properties is inductive on its own.  The index is    *)
(* exact only because the slot of a codename is empty exactly when no      *)
(* recognized feature carries it; the catalog check must be carried over  *)
(* from the step that added the feature; and acyclicity rests on every     *)
(* dependency of a recognized feature being a recognized digest, which     *)
(* with the digest-unique check keeps a new feature out of every old       *)
(* feature's dependencies.  IInv states all of it.                         *)
(***************************************************************************)
EXTENDS ProtocolFeatureSet, FiniteSetTheorems, TLAPS

\* The digests of the recognized features.
RecognizedDigests == {r.digest : r \in recognized}

IInv ==
  /\ recognized \subseteq Feature
  /\ \A f \in recognized : f.codename \in DOMAIN BuiltinDeps
  /\ builtin_index \in [Codenames -> Digests \cup {NoFeature}]
  /\ \A f \in recognized : f.dependencies \subseteq RecognizedDigests
  /\ BuiltinIndexExact
  /\ DependenciesSatisfied
  /\ DependenciesAcyclic

-----------------------------------------------------------------------------

(* A set that contains a finite set and has no more elements than it is    *)
(* that set: the size comparison of add_feature's builtin-dependency check *)
(* means every expected dependency is satisfied.                           *)
LEMMA SubsetOfNoLargerCardinality ==
  ASSUME NEW S, IsFiniteSet(S), NEW T \in SUBSET S,
         Cardinality(S) <= Cardinality(T)
  PROVE  S = T
<1>1. IsFiniteSet(T) /\ Cardinality(T) <= Cardinality(S)
  BY FS_Subset
<1>2. Cardinality(S) \in Nat /\ Cardinality(T) \in Nat
  BY <1>1, FS_CardinalityType
<1>3. Cardinality(S) = Cardinality(T)
  BY <1>1, <1>2
<1>4. QED
  BY <1>3, FS_Subset

LEMMA InitIInv == Init => IInv
BY FeatureSetAssumption
DEF Init, IInv, RecognizedDigests, BuiltinIndexExact, DependenciesSatisfied,
    DependenciesAcyclic

LEMMA NextIInv == IInv /\ [Next]_vars => IInv'
<1> SUFFICES ASSUME IInv, [Next]_vars PROVE IInv'
  OBVIOUS
<1>1. CASE UNCHANGED vars
  BY <1>1
  DEF vars, IInv, RecognizedDigests, BuiltinIndexExact, DependenciesSatisfied,
      DependenciesAcyclic, validate_dependencies, RecognizedWith
<1>2. CASE Next
  <2> PICK f \in Candidates : add_feature(f)
    BY <1>2 DEF Next
  <2>1. f \in Feature
    BY FeatureSetAssumption
  <2>2. recognized' = recognized \cup {f}
    BY DEF add_feature
  <2>3. builtin_index' = [builtin_index EXCEPT ![f.codename] = f.digest]
    BY DEF add_feature
  <2>4. f.codename \in DOMAIN BuiltinDeps
    BY DEF add_feature, Supported
  <2>5. builtin_index[f.codename] = NoFeature
    BY DEF add_feature, NotAlreadyAdded
  <2>6. \A d \in f.dependencies : \E r \in recognized : r.digest = d
    BY DEF add_feature, DependenciesRecognized, RecognizedWith
  <2>7. \A r \in recognized : r.digest # f.digest
    BY DEF add_feature, DigestUnique, RecognizedWith
  <2>8. BuiltinDeps[f.codename] \subseteq
          {r.codename : r \in RecognizedWith(f.dependencies)}
    <3>1. IsFiniteSet(BuiltinDeps[f.codename])
      BY <2>4, FeatureSetAssumption
    <3>2. Cardinality(BuiltinDeps[f.codename]) <= Cardinality(Satisfied(f))
      BY DEF add_feature, BuiltinDependenciesSatisfied
    <3>3. Satisfied(f) \subseteq BuiltinDeps[f.codename]
      BY DEF Satisfied
    <3>4. BuiltinDeps[f.codename] = Satisfied(f)
      BY <3>1, <3>2, <3>3, SubsetOfNoLargerCardinality
    <3>5. QED
      BY <3>4 DEF Satisfied
  \* The typing conjuncts and the dependency closure.
  <2>9. (recognized \subseteq Feature)'
    BY <2>1, <2>2 DEF IInv
  <2>10. (\A g \in recognized : g.codename \in DOMAIN BuiltinDeps)'
    BY <2>2, <2>4 DEF IInv
  <2>11. (builtin_index \in [Codenames -> Digests \cup {NoFeature}])'
    BY <2>1, <2>3 DEF IInv, Feature
  <2>12. (\A g \in recognized : g.dependencies \subseteq RecognizedDigests)'
    BY <2>2, <2>6 DEF IInv, RecognizedDigests
  \* The index: only the slot of f's codename changes, and it was empty.
  <2>13. BuiltinIndexExact'
    <3> SUFFICES ASSUME NEW k \in Codenames
                 PROVE  {r.digest : r \in {r \in recognized' : r.codename = k}}
                          = IF builtin_index'[k] = NoFeature
                            THEN {} ELSE {builtin_index'[k]}
      BY DEF BuiltinIndexExact
    <3>1. CASE k = f.codename
      <4>1. {r \in recognized : r.codename = k} = {}
        BY <2>5, <3>1 DEF IInv, BuiltinIndexExact
      <4>2. {r \in recognized' : r.codename = k} = {f}
        BY <2>2, <3>1, <4>1
      <4>3. builtin_index'[k] = f.digest /\ f.digest # NoFeature
        BY <2>1, <2>3, <3>1, FeatureSetAssumption DEF IInv, Feature
      <4>4. QED
        BY <4>2, <4>3
    <3>2. CASE k # f.codename
      <4>1. {r \in recognized' : r.codename = k}
              = {r \in recognized : r.codename = k}
        BY <2>2, <3>2
      <4>2. builtin_index'[k] = builtin_index[k]
        BY <2>3, <3>2 DEF IInv
      <4>3. QED
        BY <4>1, <4>2 DEF IInv, BuiltinIndexExact
    <3>3. QED
      BY <3>1, <3>2
  \* The dependency checks: what held of an old feature still holds in the
  \* larger set, and add_feature checked them of f.
  <2>14. DependenciesSatisfied'
    <3> SUFFICES ASSUME NEW g \in recognized'
                 PROVE  /\ validate_dependencies(g.digest,
                                                 {r.digest : r \in recognized})'
                        /\ (BuiltinDeps[g.codename] \subseteq
                              {r.codename : r \in RecognizedWith(g.dependencies)})'
      BY DEF DependenciesSatisfied
    <3>1. validate_dependencies(g.digest, {r.digest : r \in recognized})'
      BY <2>12 DEF validate_dependencies, RecognizedWith, RecognizedDigests
    <3>2. RecognizedWith(g.dependencies) \subseteq RecognizedWith(g.dependencies)'
      BY <2>2 DEF RecognizedWith
    <3>a. {r.codename : r \in RecognizedWith(g.dependencies)}
            \subseteq {r.codename : r \in RecognizedWith(g.dependencies)'}
      BY <3>2
    <3>b. (BuiltinDeps[g.codename] \subseteq
             {r.codename : r \in RecognizedWith(g.dependencies)})'
          = (BuiltinDeps[g.codename] \subseteq
             {r.codename : r \in RecognizedWith(g.dependencies)'})
      OBVIOUS
    <3>3. (BuiltinDeps[g.codename] \subseteq
             {r.codename : r \in RecognizedWith(g.dependencies)})'
      <4>1. CASE g \in recognized
        <5>1. BuiltinDeps[g.codename] \subseteq
                {r.codename : r \in RecognizedWith(g.dependencies)}
          BY <4>1 DEF IInv, DependenciesSatisfied
        <5>2. QED
          BY <5>1, <3>a, <3>b
      <4>2. CASE g = f
        BY <2>8, <3>a, <3>b, <4>2
      <4>3. QED
        BY <2>2, <4>1, <4>2
    <3>4. QED
      BY <3>1, <3>3
  \* Acyclicity: f's digest is in no recognized feature's dependencies, not
  \* even f's own, so a closed set is a closed set of the old features.
  <2>15. DependenciesAcyclic'
    <3> SUFFICES ASSUME NEW S \in SUBSET recognized',
                        \A h \in S : \E g \in S : g.digest \in h.dependencies
                 PROVE  S = {}
      BY DEF DependenciesAcyclic
    <3>1. \A h \in recognized : f.digest \notin h.dependencies
      BY <2>7 DEF IInv, RecognizedDigests
    <3>2. f.digest \notin f.dependencies
      BY <2>6, <2>7
    <3>3. \A h \in S : \E g \in S \ {f} : g.digest \in h.dependencies
      BY <2>2, <3>1, <3>2
    <3>4. S \ {f} \in SUBSET recognized
      BY <2>2
    <3>5. S \ {f} = {}
      BY <3>3, <3>4 DEF IInv, DependenciesAcyclic
    <3>6. QED
      BY <3>3, <3>5
  <2>16. QED
    BY <2>9, <2>10, <2>11, <2>12, <2>13, <2>14, <2>15 DEF IInv
<1>3. QED
  BY <1>1, <1>2

-----------------------------------------------------------------------------

(* IInv holds in every reachable state of the feature set.                 *)
THEOREM IInvHolds == Spec => []IInv
BY InitIInv, NextIInv, PTL DEF Spec

(* For every catalog and every order of add_feature calls, the codename    *)
(* index names exactly the one recognized feature of each codename (the    *)
(* "already added" check with the index write).                            *)
THEOREM BuiltinIndexExactHolds == Spec => []BuiltinIndexExact
<1>1. IInv => BuiltinIndexExact
  BY DEF IInv
<1>2. QED
  BY <1>1, IInvHolds, PTL

(* For every catalog, every recognized feature passes validate_dependencies *)
(* and its dependencies carry all of its catalog dependencies: the size    *)
(* comparison of add_feature's builtin-dependency check is enough.          *)
THEOREM DependenciesSatisfiedHolds == Spec => []DependenciesSatisfied
<1>1. IInv => DependenciesSatisfied
  BY DEF IInv
<1>2. QED
  BY <1>1, IInvHolds, PTL

(* For every catalog and candidate set, the dependency graph of the        *)
(* recognized features has no cycle, so the controller's recursive walk    *)
(* over validate_dependencies terminates: add_feature refuses unrecognized *)
(* dependencies and duplicate digests.                                     *)
THEOREM DependenciesAcyclicHolds == Spec => []DependenciesAcyclic
<1>1. IInv => DependenciesAcyclic
  BY DEF IInv
<1>2. QED
  BY <1>1, IInvHolds, PTL

=============================================================================
