CONSTANTS
  NbRanks = 6
  Degree = 1
  LocalReach = 1
SPECIFICATION Spec
INVARIANTS TypeOK NoOneWayEdge HopIsNearest HopIsRegistered
PROPERTIES HopIsCloser
