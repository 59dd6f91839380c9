------------------------ MODULE ProtocolFeatureManager ------------------------
(***************************************************************************)
(* protocol_feature_manager of libraries/chain/protocol_feature_manager.cpp *)
(* The ledger _activated_protocol_features (feature, activation block) and  *)
(* the table _builtin_protocol_features (one slot per builtin codename:     *)
(* activation block or not_active, and the previously activated builtin,    *)
(* a linked history headed by _head_of_builtin_activation_list) are kept    *)
(* together by activate_feature and rewound together by popped_blocks_to.  *)
(*                                                                         *)
(* A feature is its codename (every recognized feature is builtin); the    *)
(* digest lookup in _protocol_feature_set is the test f \in Features.      *)
(***************************************************************************)
EXTENDS Naturals, Sequences, FiniteSets

CONSTANTS
  Features,      \* builtin codenames recognized by the protocol_feature_set
  Digests,       \* digests a caller may pass; those not in Features are unrecognized
  Dependencies,  \* Dependencies[f]: the features f's catalog entry depends on
  StoredLedgers, \* contents the protocol_state_object read by init may have
  MaxBlock       \* last block number explored (model bound)

\* builtin_protocol_feature_entry::not_active is the largest uint32, after
\* every block the chain reaches
NotActive == MaxBlock + 1
NoPrevious == "no_previous"    \* builtin_protocol_feature_entry::no_previous

ASSUME FeatureAssumption ==
  /\ Features \subseteq Digests
  /\ NoPrevious \notin Digests
  /\ Dependencies \in [Features -> SUBSET Features]
  /\ StoredLedgers \subseteq Seq([feature : Digests, block : Nat])
  /\ StoredLedgers # {}
  /\ MaxBlock \in Nat

VARIABLES
  initialized,                      \* _initialized
  activated_protocol_features,      \* the ledger, a sequence of [feature, block]
  builtin_protocol_features,        \* [activation_block_num, previous] per feature
  head_of_builtin_activation_list,
  stored                            \* protocol_state_object::activated_protocol_features

vars == <<initialized, activated_protocol_features,
          builtin_protocol_features, head_of_builtin_activation_list, stored>>

Blocks == 0..MaxBlock
Entry == [feature : Features, block : Blocks]
Slot == [activation_block_num : 0..NotActive,
         previous : Features \cup {NoPrevious}]

\* the largest element of S \subseteq 1..n, 0 when S is empty
Top(S, n) == Cardinality({t \in 1..n : \E s \in S : t <= s})

-----------------------------------------------------------------------------
(* activate_feature(d, b): the conditions it asserts, in order.           *)
CanActivate(d, b) ==
  /\ initialized
  /\ d \in Features
  /\ activated_protocol_features # <<>> =>
       activated_protocol_features[Len(activated_protocol_features)].block <= b
  /\ builtin_protocol_features[d].activation_block_num = NotActive

\* mutant: the head is moved before the previous link is saved
Activated_head_first(d, b) ==
  /\ activated_protocol_features' =
       Append(activated_protocol_features, [feature |-> d, block |-> b])
  /\ builtin_protocol_features' =
       [builtin_protocol_features EXCEPT
          ![d] = [activation_block_num |-> b, previous |-> d]]
  /\ head_of_builtin_activation_list' = d

\* what activate_feature does once its assertions hold
Activated(d, b) ==
  /\ activated_protocol_features' =
       Append(activated_protocol_features, [feature |-> d, block |-> b])
  /\ builtin_protocol_features' =
       [builtin_protocol_features EXCEPT
          ![d] = [activation_block_num |-> b,
                  previous |-> head_of_builtin_activation_list]]
  /\ head_of_builtin_activation_list' = d

activate_feature(d, b) ==
  /\ CanActivate(d, b)
  /\ Activated(d, b)
  /\ UNCHANGED <<initialized, stored>>

-----------------------------------------------------------------------------
(* init(db): _initialized is set, then the stored ledger is replayed      *)
(* through activate_feature; the scoped exit clears _initialized again if *)
(* one of them throws, keeping the activations already made.              *)

\* the stored entry i is refused by activate_feature after entries 1..i-1
\* were accepted: unrecognized, before the last activation, or already active
DbFails(i) ==
  LET d == stored[i].feature
  IN  \/ d \notin Features
      \/ i > 1 /\ stored[i].block < stored[i - 1].block
      \/ /\ i = 1 /\ activated_protocol_features # <<>>
         /\ stored[1].block <
              activated_protocol_features[Len(activated_protocol_features)].block
      \/ builtin_protocol_features[d].activation_block_num # NotActive
      \/ \E j \in 1..(i - 1) : stored[j].feature = d

\* number of stored entries activated before the first refusal
DbAccepted ==
  LET bad == {i \in 1..Len(stored) : DbFails(i)}
  IN  IF bad = {} THEN Len(stored)
      ELSE (CHOOSE i \in bad : \A k \in bad : i <= k) - 1

\* the state after activate_feature on the first k stored entries
Replayed(k) ==
  /\ activated_protocol_features' =
       activated_protocol_features \o SubSeq(stored, 1, k)
  /\ builtin_protocol_features' =
       [f \in Features |->
          IF \E i \in 1..k : stored[i].feature = f
          THEN LET i == CHOOSE i \in 1..k : stored[i].feature = f
               IN  [activation_block_num |-> stored[i].block,
                    previous |-> IF i = 1 THEN head_of_builtin_activation_list
                                 ELSE stored[i - 1].feature]
          ELSE builtin_protocol_features[f]]
  /\ head_of_builtin_activation_list' =
       IF k = 0 THEN head_of_builtin_activation_list ELSE stored[k].feature

init ==
  /\ ~initialized
  /\ Replayed(DbAccepted)
  /\ initialized' = (DbAccepted = Len(stored))
  /\ UNCHANGED stored

-----------------------------------------------------------------------------
(* popped_blocks_to(b): walk the linked history from its head clearing    *)
(* the activations after block b, then pop the ledger back to block b.    *)

\* Chain[k]: the k-th feature of the linked history, NoPrevious past its end
Chain[k \in Nat] ==
  IF k = 0 THEN head_of_builtin_activation_list
  ELSE IF Chain[k - 1] = NoPrevious THEN NoPrevious
       ELSE builtin_protocol_features[Chain[k - 1]].previous

\* the loop clears Chain[0..Cleared(b)-1]: entries activated after b
ClearedHere(b, k) ==
  /\ Chain[k] # NoPrevious
  /\ builtin_protocol_features[Chain[k]].activation_block_num > b
Cleared(b) ==
  Cardinality({k \in 0..Cardinality(Features) :
                 \A i \in 0..k : ClearedHere(b, i)})

\* length of the ledger once every entry after block b is popped
Kept(b) == Top({k \in 1..Len(activated_protocol_features) :
                  activated_protocol_features[k].block <= b},
               Len(activated_protocol_features))

popped_blocks_to(b) ==
  LET gone == {Chain[k] : k \in 0..(Cleared(b) - 1)}
  IN
  /\ initialized
  /\ head_of_builtin_activation_list' = Chain[Cleared(b)]
  /\ builtin_protocol_features' =
       [f \in Features |->
          IF f \in gone THEN [activation_block_num |-> NotActive,
                              previous |-> NoPrevious]
          ELSE builtin_protocol_features[f]]
  /\ activated_protocol_features' = SubSeq(activated_protocol_features, 1, Kept(b))
  /\ UNCHANGED <<initialized, stored>>

\* is_builtin_activated(f, current_block_num)
is_builtin_activated(f, cur) ==
  builtin_protocol_features[f].activation_block_num <= cur

-----------------------------------------------------------------------------
Init ==
  /\ initialized = FALSE
  /\ activated_protocol_features = <<>>
  /\ builtin_protocol_features =
       [f \in Features |-> [activation_block_num |-> NotActive, previous |-> NoPrevious]]
  /\ head_of_builtin_activation_list = NoPrevious
  /\ stored \in StoredLedgers

Next ==
  \/ init
  \/ \E d \in Digests, b \in Blocks : activate_feature(d, b)
  \/ \E b \in Blocks : popped_blocks_to(b)

Spec == Init /\ [][Next]_vars

-----------------------------------------------------------------------------
TypeOK ==
  /\ initialized \in BOOLEAN
  /\ activated_protocol_features \in Seq(Entry)
  /\ builtin_protocol_features \in [Features -> Slot]
  /\ head_of_builtin_activation_list \in Features \cup {NoPrevious}
  /\ stored \in StoredLedgers

(* The ledger and the builtin table tell the same history: the ledger     *)
(* holds each feature at most once in non-decreasing block order; a       *)
(* feature's slot is active, at the ledger's block, exactly when the      *)
(* feature is in the ledger; and the linked history from the head visits  *)
(* the ledger from its last entry back to its first, then ends.  This is  *)
(* what lets popped_blocks_to rewind the table by the list and the ledger *)
(* by its tail independently.                                             *)
HistoryMatchesLedger ==
  LET L == activated_protocol_features
      n == Len(L)
  IN  /\ \A i, j \in 1..n : i < j => /\ L[i].feature # L[j].feature
                                     /\ L[i].block <= L[j].block
      /\ \A f \in Features :
           IF \E i \in 1..n : L[i].feature = f
           THEN \E i \in 1..n : /\ L[i].feature = f
                                /\ builtin_protocol_features[f].activation_block_num = L[i].block
           ELSE builtin_protocol_features[f].activation_block_num = NotActive
      /\ \A k \in 0..(n - 1) : Chain[k] = L[n - k].feature
      /\ Chain[n] = NoPrevious

(* Spec sections 3 and 8: a feature is activated only after every feature *)
(* its catalog entry depends on; activating it first fails with a         *)
(* missing-dependency error.                                               *)
DependenciesActivatedFirst ==
  LET L == activated_protocol_features
  IN  \A i \in 1..Len(L) : \A d \in Dependencies[L[i].feature] :
        \E j \in 1..(i - 1) : L[j].feature = d

=============================================================================
