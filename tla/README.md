# TLA+ verification of the block-header state and protocol-feature manager

This directory holds TLA+ models of the chain library under `src/libraries/chain/`:
- TLC configurations that model-check them on small instances;
- TLAPS proofs of their main invariants for every value of the constants.

`PROJECT.json` lists the components, runs, mutants, source map, findings, hazards and
theorems in machine-readable form.

## 1. The system

| Part | Source | State | Operations |
|---|---|---|---|
| Block-header state transition | `block_header_state.cpp` `next`, `_finish_next`, `finish_next`, `get_scheduled_producer` | `block_num`, `active_schedule`, `pending_schedule` (schedule, `schedule_lib_num`), the confirmation group | next block: scheduled producer, confirmation, promotion of the pending schedule, optional new pending schedule |
| DPOS confirmation tracker `confirmation_group_v0` | `block_header_state.cpp:26-158` | `confirm_count` (uint8 per recent block), `dpos_proposed_irreversible_blocknum`, `dpos_irreversible_blocknum`, `producer_to_last_produced`, `producer_to_last_implied_irb` | `confirm`, `calc_dpos_last_irreversible`, `set_producers`, `num_active_producers` |
| BFT tracker `confirmation_group_v1` | `block_header_state.cpp:160-260` | `producer_to_last_confirmed`, `producer_to_second_confirmations` (half-open ranges per producer), `proposed_irreversible_blocknum`, `irreversible_blocknum` | `set_producers`, `threshold_intersection`, `confirm` |
| Signing | `block_header_state.cpp:528-577` | `valid_block_signing_authority`, `header.producer_signature`, `additional_signatures` | `sign`, `verify_signee` |
| Protocol-feature set and builtin catalog | `protocol_feature_manager.cpp:13-554` | recognized features, builtin index | `add_feature`, `validate_dependencies`, `is_recognized`, `make_default_builtin_protocol_feature` |
| Protocol-feature manager | `protocol_feature_manager.cpp:556-768` | `_initialized`, the activation ledger `_activated_protocol_features`, the builtin table `_builtin_protocol_features` with its linked history from `_head_of_builtin_activation_list` | `init`, `activate_feature`, `popped_blocks_to`, `is_builtin_activated` |

Other sources:
- `wasm_eosio_injection.cpp` is empty stubs.
- `src/benchmark/` is a timing command-line tool.
- `src/unittests/` are tests. They serve as the expected behaviour in the findings.

### How the parts interact

- `next()` calls the active tracker's `confirm` with the range `{block_num - confirmed, block_num + 1}`. If the new LIB reaches `schedule_lib_num`, it promotes the pending schedule and calls `set_producers`.
- `_finish_next` accepts a new pending schedule from the header, under three guards:
  - not in the promotion block;
  - version = active + 1;
  - no schedule is pending.
- Whether a schedule may use the new extension depends on `is_builtin_activated(wtmsig_block_signatures)`. That question is about the feature set of the previous block, which the feature manager keeps.
- The controller, which is not in `src/`, drives the feature manager:
  - `init` at start-up, from the `protocol_state_object`;
  - `activate_feature` per block;
  - `popped_blocks_to` on a fork switch.

### What is hard to get right

These are the hazards listed in `PROJECT.json`:
- uint32 arithmetic on the confirmed range near genesis;
- the endpoint sweep of `threshold_intersection`, with ties between a range's end and another's start, and a uint32 total that passes below zero;
- `set_producers` clearing the v1 range maps while keeping both watermarks;
- `sign` storing the signatures before `verify_signee` may reject them;
- uint8 counters that must never underflow;
- eviction of counters at `maximum_tracked_dpos_confirmations`;
- a LIB computed from the state before the block's own confirmation;
- schedule changes that rebuild the producer maps in the middle of a step;
- `init`'s scoped exit, which leaves partial activations behind;
- the two rollback loops of `popped_blocks_to`, which must agree.

## 2. Modules

### `DposChain` (block step with the DPOS tracker)

One action, `NextBlock(p, c, ns)`, is one accepted block:
- `p` is any producer of the active schedule. Timestamps are abstracted, and any future slot may be used.
- `c` is `num_prev_blocks_to_confirm`, in `0..MaxConfirm`.
- `ns` is a new schedule announced by the header, or `{}` for none.

A header that `_finish_next` rejects leaves no state, so it is not a step.

The action performs the whole handler in code order. It is built from these definitions:

| Definition | Code |
|---|---|
| `DoubleConfirmOk` | the assert at `:103-110` |
| `Grown` | grow/evict at `:112-121` |
| `Walk`, `Stop`, `Decremented` | the backward walk `:123-147` |
| `ConfirmedCount` | the truncation (`memmove`/`resize`) |
| `NewProposed`, `SlotBlock` | `block_num_for_i` |
| `calc_dpos_last_irreversible` | `:65-77`, evaluated on the old state as the code does |
| `MapPut` | the two map updates |
| `SetLastProduced`, `SetLastImplied` | `set_producers` on promotion (`:26-62`), including the carve-out for the block's producer |
| `NewScheduleAccepted` | the guards `:384-398` |
| `PendingAfter` | `:436-448` |

- `RangeWraps(nb, c) == c > nb` models the uint32 wrap of `block_num - num_prev_blocks_to_confirm`. A wrapped start exceeds every block number, so the guard passes.
- uint8 decrements are `(x + 255) % 256`.
- `std::nth_element` at index `(size-1)/3` is the closed form "largest `t` with at least `size - index` values `>= t`". `DposChain` states the textbook definition next to it (`NthElementMatchesReference`). Run `dpos_main` checks the two agree, and `DposNthElementProofs` proves it.
- `Init` is the snapshot constructor (`:591-610`) for a chain with one producer at block `SnapshotBlock`.
- Two history variables are not in the code:
  - `confirmations_of[b][q]` counts how often producer `q` decremented block `b`'s counter;
  - `schedule_size_of[b]` is the size of the schedule that produced `b`.

  The quorum properties need them.

### `ProtocolFeatureManager`

A feature is its builtin codename (`Features`). `Digests \ Features` are unrecognized digests.

| Action | Code |
|---|---|
| `activate_feature(d, b)` | the asserts in order (`CanActivate`), then the push and the link update (`Activated`) |
| `init` | replays the stored ledger through the same checks (`DbFails`, `DbAccepted`, `Replayed`). If one throws, the scoped exit leaves `_initialized` false with the earlier activations in place, so a later `init` replays again on top of them. |
| `popped_blocks_to(b)` | walks the linked history (`Chain`, `Cleared`), then pops the ledger (`Kept`) |

- `not_active` (uint32 max) is `MaxBlock + 1`, which is above every block explored.
- The `protocol_state_object` contents are a constant choice from `StoredLedgers`. One of them is corrupt half-way.

### `ProtocolFeatureSet` (recognized features)

`add_feature(f)` is one action for a successful call. It is built from the code's checks, in code order:
- `Supported`;
- `NotAlreadyAdded`, which reads the codename index;
- `DependenciesRecognized`;
- `BuiltinDependenciesSatisfied`, the size comparison of the catalog's builtin dependencies with `Satisfied`. `Satisfied` is the dependencies' codenames that the catalog expects;
- `DigestUnique` (`res.second`).

After the checks come the insert and the index write. A call that throws changes nothing, so it is not a step.

Modelling choices:
- A description is `[codename, dependencies, digest]`. Its digest stands for the hash of the whole description.
- The catalog `builtin_protocol_feature_codenames` is the constant `BuiltinDeps`.
- The lazily grown index vector is a function on all codenames that starts empty. A codename past the vector's end reads as "not added", as in the code.
- `validate_dependencies` is a query, with the validator given as the set of digests it accepts.

### `BftConfirmation` (`confirmation_group_v1`)

Two actions:

| Action | Code |
|---|---|
| `ChangeSchedule(ps)` | `set_producers` (`:160-180`) as `next()` calls it on promotion (`:294-301`): every range `{0,0}`, second confirmations cleared, watermarks kept |
| `Confirm(p, lo, hi)` | `confirm` (`:217-260`) in code order |

`Confirm` follows the code's order:
- An empty range returns the group unchanged, so it is not a step.
- An empty group falls back to `set_producers({eosio})`.
- The threshold is `size*2/3 + 1` (`Threshold`).
- The "Illegal confirmation" assert is the guard. A call that throws is not a step.
- The range is extended when it starts at the last one's end, and replaced otherwise.
- The first sweep gives the second confirmation `sc`. If `sc` is non-empty, the proposed block rises (`NewProposed`), `sc` is recorded, and the second sweep may raise the LIB (`NewIrreversible`).

`threshold_intersection` is a fold (`FoldLeft`) of `SweepStep` over the endpoint events `Counters` sorted by `Greater` (`std::greater<>` on pairs). `SweepStep` is one iteration of the loop `:197-213`, with the `break` as a `done` flag.

The uint32 `total` is an integer. It only goes below zero between the start and the end event of an empty range at the same block, which sort next to each other, and it is never compared in between. So the wrap changes no result.

`confirm` is driven with every range up to `MaxBlock`, as `src/unittests/bft.cpp` drives it, and not only with the `{block_num - confirmed, block_num + 1}` ranges of `next()`. In `next()`, a wrapped range has `first > second`, so v1's assert throws and the block is rejected. The wrap that bypasses v0's guard (`dpos_wrap`) cannot happen here.

`Init` is a default-constructed group; its declaration is not under `src/`.

### `FinalityWatermarks` (abstract)

This is what either tracker promises the chain. It has two variables, `proposed` and `final`. A step may raise either, never lower one, and keeps `final <= proposed`. This is spec section 8's law for both schemes.

Both trackers map onto it with `INSTANCE ... WITH`:
- `BftConfirmation` maps `proposed_irreversible_blocknum` and `irreversible_blocknum`;
- `DposChain` maps the `dpos_` pair.

`ImplementsFinalityWatermarks == FW!Spec` is checked as a `PROPERTY`.

### `Signatures` (`sign`, `verify_signee`)

A signature is represented by the key it recovers to (`sig_digest` and key recovery are left out). An authority is `block_signing_authority_v0`: a threshold and a weight per key.

| Action | Code |
|---|---|
| `NextBlock(a)` | `next()` gives the pending block the scheduled producer's authority (`:275-285`) |
| `Sign(sigs)` | `sign` (`:533-544`) |

- An empty list sets the outcome `no_signatures` and stores nothing: the assert comes first.
- Otherwise the last signature becomes `producer_signature` and the rest `additional_signatures`, both stored before `verify_signee` runs. The outcome is `signed` or `wrong_signing_key`.

`verify_signee` is a conjunction of its four asserts in order:
- the count against the authority's keys;
- `NoDuplicateKey`, the `emplace` check;
- the unexpected-key check;
- the satisfaction check.

`keys_satisfy_and_relevant` is not under `src/`. It is modelled from the spec: the weights of the authority's keys that signed, against the threshold, and the number of those keys.

### MC modules

- `MC_DposChain` gives the producers as model values with a symmetry set. It defines the schedule sets and a `VIEW` that drops the history variables, for runs whose property does not read them.
- `MC_ProtocolFeatureSet` gives six catalog entries, with `NO_DUPLICATE_DEFERRED_ID` depending on `REPLACE_DEFERRED`. It offers 21 descriptions: the default ones, and variants with missing, wrong, extra or not-yet-known dependencies, two of which name each other.
- `MC_BftConfirmation` gives producers `p1, p2, p3` and `eosio` as model values, with symmetry on `p1..p3`. Its schedules are `{p1,p2,p3}` and `{p1,p2}`, and blocks run up to 4. It defines `ThresholdIntersectionMatchesReference`, which compares the sweep with a reference definition of "the highest maximal run of blocks covered by at least `t` ranges", over both maps and every threshold `1..size+1`.
- `MC_Signatures` gives keys `k1, k2, k3` and three authorities:
  - `k1` alone;
  - `k1, k2` with weight 1 each and threshold 2;
  - `k1:2, k2:1, k3:1` with threshold 2.

  Signer results are all lists of up to 3 keys.
- `MC_ProtocolFeatureManager` gives three features (`f2` depends on `f1`, as `NO_DUPLICATE_DEFERRED_ID` depends on `REPLACE_DEFERRED`), one unrecognized digest `u`, and two stored ledgers.

## 3. Runs

| Run | Expect | What it shows |
|---|---|---|
| `dpos_main` | pass | Covers three producers and every schedule change among them. Checks `TypeOK`, `NoDoubleConfirmation`, `FinalityOrder`, `NthElementMatchesReference` and `ProposedHasQuorum`. A block only becomes proposed-irreversible when more than 2/3 of the producers of its schedule have confirmed it, each once. No producer decrements a block twice. The watermarks stay ordered. The closed-form LIB is the nth element. |
| `dpos_wrap` | violation of `ProposedHasQuorum` | Starts at block 1 and confirms up to 6 blocks. `block_num - confirmed` wraps, the double-confirmation guard passes, and p1 alone makes block 4 proposed-irreversible while the schedule has two producers. |
| `dpos_single` | violation of `SingleProducerImmediatelyFinal` | With one producer the LIB is head - 1, not head. |
| `dpos_lib` | violation of `ImplementsFinalityWatermarks` | The v0 tracker does not refine `FinalityWatermarks`. Four producers shrink to three, and `dpos_irreversible_blocknum` falls from 7 to 5 at block 13. |
| `bft_main` | pass | Checks three properties over every confirm and schedule change. `ThresholdIntersectionMatchesReference`: the sweep equals the reference intersection on every reachable map and threshold. `ProposedHasQuorum`: every rise of the proposed block lands on a block that at least `2/3+1` current ranges contain. `ImplementsFinalityWatermarks`: the v1 tracker refines the abstract watermarks, although `set_producers` drops the second tier. It reaches 13,167 distinct states. |
| `sig_main` | pass | `SignedIffAuthorized`: `sign` succeeds exactly when the stored signatures are by distinct keys, all of the authority, whose weights reach its threshold. |
| `pfm_main` | pass | `HistoryMatchesLedger` holds under init (also a half-failed one), activation, rollback and re-activation. The ledger has distinct features with non-decreasing blocks. A table slot is active with block `b` exactly when its feature is in the ledger at `b`. The linked history from the head lists the ledger backwards. |
| `pfs_main` | pass | Whatever descriptions a node is given, and in any order, three things hold: the codename index names exactly the one recognized feature of each codename (`BuiltinIndexExact`); every recognized feature passes `validate_dependencies` and covers its catalog dependencies (`DependenciesSatisfied`); and the dependency graph is acyclic (`DependenciesAcyclic`). It reaches 245 states, one for each set of descriptions that some order of calls can leave recognized. |
| `pfm_deps` | violation of `DependenciesActivatedFirst` | `activate_feature` accepts a feature whose dependency is not active. |

Each property of a passing run has a mutant in `PROJECT.json`: a plausible bug in a mapped definition that makes TLC find the property violated. The mutants are:

| Property | Mutant |
|---|---|
| `TypeOK` | counters not truncated |
| `NoDoubleConfirmation` | `<=` for `<` in the guard |
| `FinalityOrder` | slot arithmetic off by one |
| `NthElementMatchesReference` | index `size/3` |
| `ProposedHasQuorum` | walk one block too long |
| `HistoryMatchesLedger` | head moved before the previous link is saved |
| `BuiltinIndexExact` | "already added" check dropped |
| `DependenciesSatisfied` | every dependency's codename counted as satisfied |
| `DependenciesAcyclic` | "not recognized" dependency check dropped |
| `ThresholdIntersectionMatchesReference` | run start taken at the new position `x` instead of `prev` |
| `ProposedHasQuorum` (v1) | proposed block set to `second` instead of `second - 1` |
| `ImplementsFinalityWatermarks` (v1) | LIB set to `high` instead of `high - 1` |
| `SignedIffAuthorized` | duplicate-key check dropped |

`ProposedMonotone` was dropped: no plausible mutant of the code breaks it without breaking `FinalityOrder` first, and it follows from `FinalityOrder`.

### Bounds and why they are enough

`dpos_main` uses `SnapshotBlock = 4`, `MaxBlock = 11`, `MaxTracked = 3` and `MaxConfirm = 3`. The schedules are all non-empty subsets of `{p1,p2,p3}`. These bounds reach:
- the eviction of counters at capacity;
- two promotions (version 2);
- a carve-out entry;
- LIB advances under a three-producer schedule.

The uint32 wrap is excluded there by `MaxConfirm < SnapshotBlock`, which is the situation of any chain past its first blocks. The `dpos_wrap` run covers the wrap.

`dpos_lib` needs four producers, since with three `(n-1)/3 = 0`. It also needs `MaxConfirm = 2` and 13 blocks. Smaller bounds do not reach the regression. The announced schedules are the four producers and the three left when `p4` leaves. The action constraint `MC_Announces` searches only the behaviours that announce each change as soon as none is pending. Every behaviour it keeps is one of `Spec`, so the violation it finds is real. It cuts the search from about 200,000 states to about 8,000.

In `pfs_main`, every description is offered at every step. The bound is the set of descriptions, chosen so that each check of `add_feature` both passes and fails. Deadlock checking is off because loading ends when nothing more can be added.

`bft_main` uses three producers, a shrink to two, and blocks `0..4`. Three producers give threshold 3 (all of them), two give 2, and the `eosio` fallback gives 1. Blocks up to 4 allow extensions, replacements with gaps, and runs that end at equal or adjacent blocks, which are the tie cases of the sweep.

`sig_main` covers lists of up to 3 keys, which is the largest authority. So every assert of `verify_signee` both passes and fails: too many signatures, a key twice, a stray key, and too little weight with and without the heavy key.

`pfm_main` uses blocks `0..3`. That is enough for activation at equal and increasing blocks, rollback to each block, and re-activation.

Deadlock checking is off in the DPOS runs, because the block bound `MaxBlock` is where they stop. `pfm_main` checks deadlock: `popped_blocks_to` is always enabled once initialized, and `init` is enabled otherwise.

### Fairness

No fairness is assumed and no liveness property is checked.

Every operation modelled here is called by a driver outside this repository:
- blocks are produced on wall-clock slots;
- confirmations arrive with blocks;
- features are loaded and activated by the controller.

A liveness claim such as "the LIB eventually advances" would need fairness on the producers of the active schedule. Nothing in `src/` guarantees that, so asserting it would prove a property of the assumption, not of the code.

## 4. Proofs (TLAPS)

`DposChainProofs` proves two theorems for every value of the constants allowed by `ConstantsAssumption`. The assumption includes at most 125 producers (`config::max_producers`, from the `static_assert` in `confirm`).

`DposConfirmationProofs` extends it with `NoDoubleConfirmationHolds`, and `DposQuorumProofs` extends that with `ProposedHasQuorumHolds`. Each of these rests on the inductive invariant of the module before it. Both add the hypothesis `NoWrap`. `DposNthElementProofs` also extends `DposChainProofs`, with `NthElementMatchesReferenceHolds`.

### `TypeCorrect == Spec => []TypeOK`

The inductive invariant is `IInv == TypeOK /\ Len(confirm_count) <= block_num`. The length bound is what makes `SlotBlock`, `nb - (Len - j)`, a natural number.

The step proof uses these lemmas:
- `TopBounds`: `Top(S, n)` bounds `S` within `0..n`, so the zero the walk finds is the newest one.
- `ConfirmedCountType`: every counter left after the walk is in `1..255`. A walked counter above the stop is not 1, so its uint8 decrement stays positive (`Uint8Decrement`).
- `RequiredConfsRange`: `required_confs` fits in a uint8.
- `GrownType`, `MapPutType`, `SetProducersType`, `CalcLibType`.

### `FinalityOrderHolds == Spec => []FinalityOrder`

The inductive invariant is `FInv == IInv /\ FinalityOrder /\ ImpliedBelowProposed`, where no `producer_to_last_implied_irb` entry is above the proposed block. That extra conjunct is needed because the new LIB is an order statistic of those entries and the old proposed block (`CalcLibBound`). The walk only zeroes counters of blocks above the proposed one, so the proposed block never falls.

Both proofs cover the wrapped-range case: `FinalityOrder` holds even where the quorum does not.

### `DposConfirmationProofs`: `NoDoubleConfirmationHolds`

The theorem is `ASSUME NoWrap PROVE Spec => []NoDoubleConfirmation`. `NoWrap` says `MaxConfirm < SnapshotBlock`, so no confirmed range `[nb - c, nb]` starts below block 0. It is a hypothesis of the theorem, not an assumption of the module, because the code does not guarantee it. Under the constants of run `dpos_wrap` (`MaxConfirm >= SnapshotBlock`), TLC finds `NoDoubleConfirmation` violated through the uint32 wrap. The run itself checks the consequence, a block made proposed-irreversible without a quorum.

The inductive invariant is `DInv`. It adds to `FInv`:
- `block_num >= SnapshotBlock`;
- every producer of the active schedule has a `producer_to_last_produced` entry;
- for every block `b` and producer `q`, `ConfirmedOnce(b, q)`: `q` confirmed `b` at most once, only if `b <= block_num`, and if `b` is still above the proposed block then `EntryCovers(q, b)`.

`EntryCovers(q, b)` says where `q`'s last-produced entry comes from. Either it is kept and is at least `b`, or `q` is out of the map and can only come back through a pending schedule whose `schedule_lib_num` is at least `b`. A pending schedule is announced after the block that carries it, and `set_producers` re-adds a producer with the new LIB, which is at least `schedule_lib_num`.

This is why `NoDoubleConfirmation` alone is not inductive: `set_producers` drops and re-adds entries, so the guard in `confirm` compares with a rebuilt value. The invariant says the rebuilt value still covers every confirmation that is still counted.

The lemma `WalkedBlocksRange` says every block the walk visits lies in `[nb - c, nb]` and above the proposed block. `NextBlockDInv` takes one block step per conjunct. TLC checked `DInv` as an invariant of `dpos_main` before the proof was written.

### `DposQuorumProofs`: `ProposedHasQuorumHolds`

The theorem is `ASSUME NoWrap PROVE Spec => ProposedHasQuorum`. It is an action property: every step that moves `dpos_proposed_irreversible_blocknum` moves it to a block `b` with `3 * |confirmers of b| > 2 * schedule_size_of[b]`. Run `dpos_wrap` violates it, so `NoWrap` is needed here too.

The counter alone says nothing about who confirmed. The inductive invariant `QInv` adds to `DInv`:
- `CountMatches`: for every slot `j` of `confirm_count`, the counter plus the number of distinct confirmers of its block (`Confirmers(SlotOf(j))`) equals `RequiredConfs(schedule_size_of[SlotOf(j)])`, the value the slot was created with;
- a non-empty `confirm_count` means `block_num <= MaxBlock`, so every slot's block is in the domain of the history variables.

The step proof has three lemmas:
- `GrownMatches`: appending the new block's counter, after evicting the oldest slot at capacity, keeps the match. The new block has no confirmer yet, and its counter is `required_confs` of the active schedule, which the step records as its schedule size.
- `WalkMatches`: a walked slot loses one from its counter and its block gains `p` as a confirmer. `p` is new there because `DInv'` says no producer confirms a block twice, so the sum is kept. Other slots keep both.
- `TopInSet` and `TopOfEmpty`: when the walk's stop is not 0, it is a walked slot whose counter was 1. So the new proposed block's counter went to 0, and its confirmers number `required_confs`.

`RequiredConfsQuorum` closes the argument: `3 * (s * 2 \div 3 + 1) > 2 * s`.

### `DposNthElementProofs`: `NthElementMatchesReferenceHolds`

The theorem is `Spec => []NthElementMatchesReference`. It needs no new invariant: `FInv` already bounds every implied number and the proposed block by `block_num`. So the closed form's search range `1..block_num + 1` holds every value, and `DOMAIN producer_to_last_implied_irb ⊆ Producers` is finite.

The argument is about any function `f` on a finite set `D` with values at most `bound`. Let `Cnt(t)` be the number of `q` with `f[q] >= t`, and let `k < |D|`.
- `AboveAntitone`: `Cnt` does not increase as `t` grows.
- So `T == {t \in 1..bound : Cnt(t) >= |D| - k}` is down-closed. `DownClosedIsInterval` gives `T = 1..|T|`.
- Let `x == |T|`, the closed form (`NthClosedForm`). Then `Cnt(x) >= |D| - k > Cnt(x + 1)`.
- `BelowIsComplement` turns these into at most `k` values below `x` and more than `k` at or below it (`IsNthElement`).
- Hence some value equals `x`, and any `y` with both properties equals `x`.

`ClosedFormIsNthElement` states this. `CalcLibIsNthElement` applies it to the code's function, with `p`'s entry replaced by the proposed block, so the reference's `CHOOSE` picks `x`. No induction over the data is needed, because the closed form is a cardinality and not a recursion.

### `ProtocolFeatureSetProofs`

Three theorems hold for every catalog and candidate set allowed by `FeatureSetAssumption`:
- `BuiltinIndexExactHolds`;
- `DependenciesSatisfiedHolds`;
- `DependenciesAcyclicHolds`.

The assumption includes that each catalog entry's dependency set is finite. They rest on one inductive invariant, `IInv`. It contains typing, plus "every dependency of a recognized feature is a recognized digest", plus the three properties.

Why the extra conjuncts are needed:
- The index needs the empty-slot-means-absent half of `BuiltinIndexExact` at the step that fills the slot.
- The catalog half of `DependenciesSatisfied` for a new feature comes from the size check. The lemma `SubsetOfNoLargerCardinality` turns `satisfied ⊆ expected` and `|expected| <= |satisfied|` into equality.
- Acyclicity needs the dependency closure. With the digest-unique check, it keeps the new feature's digest out of every old feature's dependencies, including its own. So a dependency-closed set containing the new feature minus that feature is closed among the old ones, hence empty.

### What stays with TLC only

- `NoDoubleConfirmation` and `ProposedHasQuorum` without `NoWrap`. They are false there: see `dpos_wrap`.
- `HistoryMatchesLedger`. Both the invariant and the `popped_blocks_to` action walk the linked history through the recursive function `Chain`. The provers know such a function only as a `CHOOSE`, and its defining equation comes from `NaturalsInduction`'s recursive-definition theorems, whose operator parameter none of the installed provers can instantiate.
- The `BftConfirmation` and `Signatures` properties: their modules use `SortSeq`, `FoldLeft` and `MapThenFoldSet`, which reach RECURSIVE definitions, so they cannot be given to the prover.
- Liveness and `ENABLED`. These are outside TLAPS.

## 5. Not modelled yet, and the plan

Not modelled yet:
- `sig_digest`: hashing, which changes no state.
- The header-extension handling of `_finish_next`, including the `exts.count(...)` at `:414`.
- `is_recognized` time restrictions and `make_default_builtin_protocol_feature`. These compute values and change no state.

Modules planned:
1. A composition of `ProtocolFeatureSet` with `ProtocolFeatureManager`, where activation looks features up in the built set.
2. `BftConfirmation` composed into the block step, with the `next()` range and the v1 assert that rejects a wrapped range.

Proofs planned: `HistoryMatchesLedger`, once the history has a formulation that needs no recursive function. The `BftConfirmation` refinement, once the sweep is written without `SortSeq` and `FoldLeft`.

Left out for good:
- hashing, digests and merkle roots (modelled as equality of model values);
- JSON/variant conversion;
- deep-mind logging, which has no effect on state;
- the WASM stubs;
- the benchmark tool.
