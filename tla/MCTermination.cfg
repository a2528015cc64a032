CONSTANTS
  NbRanks = 6
  MaxSessions = 2
SPECIFICATION FairSpec
INVARIANTS TypeOK SafeTermination FlagAsserts FlagsOfThisSession
PROPERTIES ImplementsSessions Completion
