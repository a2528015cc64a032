CONSTANTS
    NbRanks = 8
    Self = 2
    Graph <- Chords
    DVS_SW_SMALLEST_SIZE = 8
    MaxContexts = 2
    MaxDvs = 4
SPECIFICATION Spec
INVARIANTS SelectionIsUsable
CHECK_DEADLOCK FALSE
