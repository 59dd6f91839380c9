----------------------- MODULE MC_ProtocolFeatureSet -----------------------
(* Six catalog entries as in builtin_protocol_feature_codenames:            *)
(* PREACTIVATE_FEATURE, REPLACE_DEFERRED, NO_DUPLICATE_DEFERRED_ID (which  *)
(* depends on REPLACE_DEFERRED), ONLY_LINK_TO_EXISTING_PERMISSION,         *)
(* FIX_LINKAUTH_RESTRICTION and DISALLOW_EMPTY_PRODUCER_SCHEDULE.  The      *)
(* offered descriptions are the default ones and variants a node's feature *)
(* files may hold: a missing or wrong builtin dependency, extra            *)
(* dependencies, dependencies on digests not yet known, and two            *)
(* descriptions naming each other.                                         *)
EXTENDS ProtocolFeatureSet, TLC

CONSTANTS PRE, REP, NDD, OLP, FLR, DEP,
          d1, d2, d3, d4, d5, d6, d7, d9, d10, d11, d12, d13, d14,
          d15, d16, d17, d18, d19, d20, d21, d22

MC_Codenames == {PRE, REP, NDD, OLP, FLR, DEP}
MC_BuiltinDeps == (PRE :> {}) @@ (REP :> {}) @@ (NDD :> {REP}) @@ (OLP :> {})
                  @@ (FLR :> {}) @@ (DEP :> {})
MC_Digests == {d1, d2, d3, d4, d5, d6, d7, d9, d10, d11, d12, d13, d14,
               d15, d16, d17, d18, d19, d20, d21, d22}

Desc(k, ds, d) == [codename |-> k, dependencies |-> ds, digest |-> d]

MC_Candidates ==
  { Desc(PRE, {}, d1),        \* default PREACTIVATE_FEATURE
    Desc(PRE, {d2}, d9),      \* an extra, allowed dependency
    Desc(PRE, {d6}, d7),      \* d6 and d7 name each other
    Desc(PRE, {d13}, d15),
    Desc(REP, {}, d2),        \* default REPLACE_DEFERRED
    Desc(REP, {d7}, d6),
    Desc(REP, {d1}, d10),
    Desc(REP, {d13}, d16),
    Desc(NDD, {d2}, d3),      \* default NO_DUPLICATE_DEFERRED_ID
    Desc(NDD, {}, d4),        \* its builtin dependency left out
    Desc(NDD, {d1}, d5),      \* depends on the wrong builtin
    Desc(NDD, {d1, d2}, d11),
    Desc(NDD, {d6}, d12),     \* on a non-default REPLACE_DEFERRED
    Desc(OLP, {}, d13),       \* default ONLY_LINK_TO_EXISTING_PERMISSION
    Desc(OLP, {d3}, d14),
    Desc(OLP, {d1}, d17),
    Desc(OLP, {d2}, d18),
    Desc(FLR, {}, d19),       \* default FIX_LINKAUTH_RESTRICTION
    Desc(FLR, {d1}, d20),
    Desc(DEP, {}, d21),       \* default DISALLOW_EMPTY_PRODUCER_SCHEDULE
    Desc(DEP, {d19}, d22) }

=============================================================================
