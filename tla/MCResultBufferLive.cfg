CONSTANTS
  NbRanks = 3
  Batch <- MCBatch
  Problems <- Stream
  Maker <- MCMaker
  Owner <- MCOwner
  Size <- MCSize
  NextHop <- MCNextHop
  SegmentSize = 4
  MaxElts = 2
SPECIFICATION FairSpec
PROPERTIES AllSubmitted
