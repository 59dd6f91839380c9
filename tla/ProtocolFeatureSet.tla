-------------------------- MODULE ProtocolFeatureSet --------------------------
(***************************************************************************)
(* protocol_feature_set of libraries/chain/protocol_feature_manager.cpp:   *)
(* the set of recognized builtin protocol features, filled by add_feature  *)
(* from the feature descriptions the node is given, and the index          *)
(* _recognized_builtin_protocol_features from a builtin codename to the    *)
(* recognized feature that carries it.                                     *)
(*                                                                         *)
(* A feature description is a record [codename, dependencies, digest]:     *)
(* its digest stands for f.digest(), the hash of the whole description,    *)
(* so two descriptions that differ have different digests.  The catalog    *)
(* builtin_protocol_feature_codenames is the constant BuiltinDeps, from    *)
(* each supported codename to its builtin_dependencies.  A call that       *)
(* throws leaves the set as it was, so only successful calls are steps.    *)
(***************************************************************************)
EXTENDS Naturals, FiniteSets

CONSTANTS
  Codenames,    \* values of builtin_protocol_feature_t a description may carry
  BuiltinDeps,  \* the catalog: supported codename -> its builtin dependencies
  Digests,      \* digests of descriptions and of the dependencies they name
  Candidates    \* feature descriptions offered to add_feature

\* _recognized_protocol_features.end(): an index slot with no feature
NoFeature == "no_feature"

Feature == [codename : Codenames, dependencies : SUBSET Digests, digest : Digests]

ASSUME FeatureSetAssumption ==
  /\ DOMAIN BuiltinDeps \subseteq Codenames
  /\ \A k \in DOMAIN BuiltinDeps : BuiltinDeps[k] \subseteq DOMAIN BuiltinDeps
  /\ \A k \in DOMAIN BuiltinDeps : IsFiniteSet(BuiltinDeps[k])
  /\ NoFeature \notin Digests
  /\ Candidates \subseteq Feature

VARIABLES
  recognized,     \* _recognized_protocol_features, unique on digest
  builtin_index   \* _recognized_builtin_protocol_features

vars == <<recognized, builtin_index>>

\* Constructor: nothing recognized, every index slot empty.
Init ==
  /\ recognized = {}
  /\ builtin_index = [k \in Codenames |-> NoFeature]

\* The recognized features whose digest is among ds.
RecognizedWith(ds) == {r \in recognized : r.digest \in ds}

\* The codename is in builtin_protocol_feature_codenames (the constructor of
\* builtin_protocol_feature makes the same check, so it always holds here).
Supported(f) == f.codename \in DOMAIN BuiltinDeps

\* Mutant: the "already added" assert left out.
NotAlreadyAdded_unchecked(f) == TRUE

\* No feature with this codename has been added yet.
NotAlreadyAdded(f) == builtin_index[f.codename] = NoFeature

\* Mutant: the "not recognized" dependency assert left out.
DependenciesRecognized_unchecked(f) == TRUE

\* Every dependency digest names a recognized feature.
DependenciesRecognized(f) == \A d \in f.dependencies : RecognizedWith({d}) # {}

\* Mutant: every dependency's codename counted as satisfied, without the
\* lookup in expected_builtin_dependencies.
Satisfied_unfiltered(f) == {r.codename : r \in RecognizedWith(f.dependencies)}

\* satisfied_builtin_dependencies: the expected builtin dependencies that
\* some dependency of f carries as its codename.
Satisfied(f) ==
  {r.codename : r \in RecognizedWith(f.dependencies)} \cap BuiltinDeps[f.codename]

\* Not expected.size() > satisfied.size(): no builtin dependency missing.
BuiltinDependenciesSatisfied(f) ==
  Cardinality(BuiltinDeps[f.codename]) <= Cardinality(Satisfied(f))

\* The insert into _recognized_protocol_features succeeds (res.second).
DigestUnique(f) == RecognizedWith({f.digest}) = {}

\* add_feature(f): the checks in the order the code makes them; a check
\* that throws leaves the set unchanged.  Then the insert, the index slot.
add_feature(f) ==
  /\ Supported(f)
  /\ NotAlreadyAdded(f)
  /\ DependenciesRecognized(f)
  /\ BuiltinDependenciesSatisfied(f)
  /\ DigestUnique(f)
  /\ recognized' = recognized \cup {f}
  /\ builtin_index' = [builtin_index EXCEPT ![f.codename] = f.digest]

\* validate_dependencies(d, validator) with the validator given as the set
\* of digests it accepts: d is recognized and all its dependencies pass.
validate_dependencies(d, Valid) ==
  \E r \in RecognizedWith({d}) : r.dependencies \subseteq Valid

Next == \E f \in Candidates : add_feature(f)

Spec == Init /\ [][Next]_vars

-----------------------------------------------------------------------------

\* The index the manager reads through get_builtin_digest is exact: the slot
\* of a codename holds the digest of the one recognized feature with that
\* codename, and is empty when there is none (add_feature's "already added"
\* check together with the index write).
BuiltinIndexExact ==
  \A k \in Codenames :
    {r.digest : r \in {r \in recognized : r.codename = k}}
      = IF builtin_index[k] = NoFeature THEN {} ELSE {builtin_index[k]}

\* Every recognized feature passes validate_dependencies against the set of
\* recognized digests, and its dependencies carry every builtin dependency
\* the catalog lists for its codename (the dependency checks of add_feature),
\* so a feature can never be activated without the features it needs being
\* known to the node.
DependenciesSatisfied ==
  \A f \in recognized :
    /\ validate_dependencies(f.digest, {r.digest : r \in recognized})
    /\ BuiltinDeps[f.codename] \subseteq
         {r.codename : r \in RecognizedWith(f.dependencies)}

\* No recognized feature depends on itself through a chain of dependencies:
\* the controller's recursive dependency walk over validate_dependencies
\* terminates on every feature of the set.  (A finite dependency graph has
\* a cycle exactly when some non-empty set of its features each names a
\* dependency inside the set.)
DependenciesAcyclic ==
  \A S \in SUBSET recognized :
    (\A f \in S : \E g \in S : g.digest \in f.dependencies) => S = {}

=============================================================================
