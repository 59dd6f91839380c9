\* A chain restored at block 4 with confirmations of up to 3 blocks: no
\* confirmed range can start below block 0 (the uint32 wrap is unreachable,
\* as on any chain past block 65536).
CONSTANTS
  p1 = p1
  p2 = p2
  p3 = p3
  p4 = p4
  Producers <- MC_Producers
  InitialProducer = p1
  SnapshotBlock = 4
  MaxTracked = 3
  MaxConfirm = 3
  ProposedSchedules <- MC_Schedules
  MaxBlock = 11
SYMMETRY MC_Symmetry
SPECIFICATION Spec
CHECK_DEADLOCK FALSE
INVARIANTS
  TypeOK
  NoDoubleConfirmation
  FinalityOrder
  NthElementMatchesReference
PROPERTIES
  ProposedHasQuorum
