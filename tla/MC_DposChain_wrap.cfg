\* A chain from block 1 (as at genesis) where a producer may confirm up to 6
\* previous blocks: confirmed_range.first = block_num - confirmed wraps.
CONSTANTS
  p1 = p1
  p2 = p2
  p3 = p3
  p4 = p4
  Producers <- MC_Producers
  InitialProducer = p1
  SnapshotBlock = 1
  MaxTracked = 3
  MaxConfirm = 6
  ProposedSchedules <- MC_Schedules
  MaxBlock = 7
SYMMETRY MC_Symmetry
SPECIFICATION Spec
CHECK_DEADLOCK FALSE
PROPERTY ProposedHasQuorum
