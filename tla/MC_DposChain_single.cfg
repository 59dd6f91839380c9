\* One producer only: spec section 8 claims proposed == LIB == head.
CONSTANTS
  p1 = p1
  p2 = p2
  p3 = p3
  p4 = p4
  Producers <- MC_Producers
  InitialProducer = p1
  SnapshotBlock = 4
  MaxTracked = 3
  MaxConfirm = 1
  ProposedSchedules <- MC_Schedules
  MaxBlock = 6
SYMMETRY MC_Symmetry
SPECIFICATION Spec
CHECK_DEADLOCK FALSE
PROPERTY SingleProducerImmediatelyFinal
