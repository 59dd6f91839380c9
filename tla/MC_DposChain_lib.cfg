\* Four producers, so that calc_dpos_last_irreversible picks index 1, not
\* the minimum, and a schedule of four that shrinks to three when p4 leaves.
\* Only the behaviours that announce each change as early as they can are
\* searched, so that the shrink happens within MaxBlock.
CONSTANTS
  p1 = p1
  p2 = p2
  p3 = p3
  p4 = p4
  Producers <- MC_Producers4
  InitialProducer = p1
  SnapshotBlock = 4
  MaxTracked = 3
  MaxConfirm = 2
  ProposedSchedules <- MC_Shrink4
  MaxBlock = 13
SYMMETRY MC_Symmetry
VIEW MC_View
SPECIFICATION Spec
CHECK_DEADLOCK FALSE
ACTION_CONSTRAINT MC_Announces
PROPERTY ImplementsFinalityWatermarks
