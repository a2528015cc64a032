CONSTANTS
  NbRanks = 3
  Batch <- MCBatch
  Problems <- Crossing
  Maker <- MCMaker
  Owner <- MCOwner
  Size <- MCSize
  NextHop <- MCNextHop
  SegmentSize = 4
  MaxElts = 2
SPECIFICATION Spec
INVARIANTS TypeOK BufferAsserts NotificationsMatch EveryBatchOnce QuietWhenComplete
PROPERTIES ImplementsTransport
