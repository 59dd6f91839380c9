CONSTANTS
  p1 = p1
  p2 = p2
  p3 = p3
  eosio = eosio
  Producers <- MC_Producers
  Eosio <- eosio
  Schedules <- MC_Schedules
  MaxBlock = 4

SYMMETRY MC_Symmetry

SPECIFICATION Spec

INVARIANTS
  ThresholdIntersectionMatchesReference

PROPERTIES
  ProposedHasQuorum
  ImplementsFinalityWatermarks
