CONSTANTS
  PRE = PRE
  REP = REP
  NDD = NDD
  OLP = OLP
  FLR = FLR
  DEP = DEP
  d1 = d1
  d2 = d2
  d3 = d3
  d4 = d4
  d5 = d5
  d6 = d6
  d7 = d7
  d9 = d9
  d10 = d10
  d11 = d11
  d12 = d12
  d13 = d13
  d14 = d14
  d15 = d15
  d16 = d16
  d17 = d17
  d18 = d18
  d19 = d19
  d20 = d20
  d21 = d21
  d22 = d22
  Codenames <- MC_Codenames
  BuiltinDeps <- MC_BuiltinDeps
  Digests <- MC_Digests
  Candidates <- MC_Candidates

SPECIFICATION Spec

INVARIANTS
  BuiltinIndexExact
  DependenciesSatisfied
  DependenciesAcyclic

CHECK_DEADLOCK FALSE
