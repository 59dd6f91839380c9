------------------------------ MODULE Signatures ------------------------------
(***************************************************************************)
(* Block signing of libraries/chain/block_header_state.cpp: next() gives   *)
(* the pending block the scheduled producer's block-signing authority,     *)
(* sign() stores the signer's signatures in the header and calls           *)
(* verify_signee(), which recovers one key per signature and checks them   *)
(* against that authority.                                                 *)
(*                                                                         *)
(* Recovery against sig_digest() is modelled by what it does: a signature  *)
(* is represented by the key it recovers to, so a signature by a key       *)
(* outside the authority is a key outside the authority.  An authority is  *)
(* block_signing_authority_v0: a threshold and a weight per key.           *)
(***************************************************************************)
EXTENDS Naturals, Sequences, FiniteSets, Functions, Folds

CONSTANTS
  Keys,         \* public keys signatures may recover to
  Authorities,  \* block-signing authorities of the producers
  MaxSigs       \* longest signature list a signer returns (model bound)

ASSUME SignaturesAssumption ==
  /\ \A a \in Authorities :
       /\ a.threshold \in Nat
       /\ DOMAIN a.keys \subseteq Keys
       /\ \A k \in DOMAIN a.keys : a.keys[k] \in Nat
  /\ MaxSigs \in Nat

\* Outcomes of the last sign() call, as its caller sees them.
Outcomes == {"none", "signed", "no_signatures", "wrong_signing_key"}

VARIABLES
  valid_block_signing_authority,
  producer_signature,      \* header.producer_signature (<<>> when unsigned)
  additional_signatures,
  outcome

vars == <<valid_block_signing_authority, producer_signature,
          additional_signatures, outcome>>

\* The signature lists a signer callback may return.
SignerResults == UNION {[1..n -> Keys] : n \in 0..MaxSigs}

Init ==
  /\ valid_block_signing_authority \in Authorities
  /\ producer_signature = <<>>
  /\ additional_signatures = <<>>
  /\ outcome = "none"

\* next(): the pending block carries the scheduled producer's authority and
\* no signatures yet.
NextBlock(a) ==
  /\ valid_block_signing_authority' = a
  /\ producer_signature' = <<>>
  /\ additional_signatures' = <<>>
  /\ outcome' = "none"

\* producer_authority::keys_satisfy_and_relevant: whether the weights of
\* the authority's keys among ks reach the threshold, and how many of ks
\* the authority names.
keys_satisfy_and_relevant(ks, a) ==
  LET relevant == ks \cap DOMAIN a.keys
  IN  <<MapThenFoldSet(+, 0, LAMBDA k : a.keys[k], LAMBDA s : CHOOSE k \in s : TRUE,
                       relevant) >= a.threshold,
        Cardinality(relevant)>>

\* Mutant: a key that signs twice is not refused.
NoDuplicateKey_unchecked(sigs) == TRUE

\* keys.emplace(...) of every additional signature succeeds: no key
\* recovered from two signatures.
NoDuplicateKey(sigs) == IsInjective(sigs)

\* verify_signee(): the signature count against the authority's keys, the
\* duplicate-key assert, then "unexpected key" and "not satisfied".
verify_signee(sigs, a) ==
  LET ks == Range(sigs)
      sr == keys_satisfy_and_relevant(ks, a)
  IN  /\ Len(sigs) <= Cardinality(DOMAIN a.keys)
      /\ NoDuplicateKey(sigs)
      /\ sr[2] = Cardinality(ks)
      /\ sr[1]

\* sign(signer): the signatures are stored before verify_signee runs, so a
\* rejected list stays in the header when sign throws.
Sign(sigs) ==
  IF sigs = <<>>
  THEN /\ outcome' = "no_signatures"
       /\ UNCHANGED <<valid_block_signing_authority, producer_signature,
                      additional_signatures>>
  ELSE /\ producer_signature' = <<sigs[Len(sigs)]>>
       /\ additional_signatures' = SubSeq(sigs, 1, Len(sigs) - 1)
       /\ outcome' = IF verify_signee(sigs, valid_block_signing_authority)
                     THEN "signed" ELSE "wrong_signing_key"
       /\ UNCHANGED valid_block_signing_authority

Next ==
  \/ \E a \in Authorities : NextBlock(a)
  \/ \E sigs \in SignerResults : Sign(sigs)

Spec == Init /\ [][Next]_vars

-----------------------------------------------------------------------------

\* The keys the stored signatures recover to, in signing order.
StoredKeys == additional_signatures \o producer_signature

\* The sum of the authority's weights over a set of its keys.
Weight(ks, a) == MapThenFoldSet(+, 0, LAMBDA k : a.keys[k],
                                LAMBDA s : CHOOSE k \in s : TRUE, ks)

\* sign() succeeds exactly when the block is signed by distinct keys, all
\* of them keys of the producer's block-signing authority, whose weights
\* reach its threshold: a key counted twice, a stray signature, or too
\* little weight makes it throw wrong_signing_key.
SignedIffAuthorized ==
  outcome \in {"signed", "wrong_signing_key"} =>
    LET a  == valid_block_signing_authority
        ks == Range(StoredKeys)
    IN  (outcome = "signed") <=>
          /\ Cardinality(ks) = Len(StoredKeys)
          /\ ks \subseteq DOMAIN a.keys
          /\ Weight(ks, a) >= a.threshold

=============================================================================
