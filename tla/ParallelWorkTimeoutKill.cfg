CONSTANTS
    UserSignals = {"SIGTERM", "SIGINT"}
    MaxCalls = 2
SPECIFICATION Spec
INVARIANTS KilledOnlyLate
