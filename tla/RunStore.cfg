SPECIFICATION MCSpec
CONSTANTS
    MaxSteps = 2
    NoProgressLimit = 1
    MaxCost = 1
    CostCeiling = 1
    None = None
    Candidates = {c1}
    Scores = {5}
    Advices = {a1}
    Receipts = {r1}
    Observations = {"supervisor_failed"}
    MaxJournal = 6
    MaxRows = 7
    MaxMemory = 1
INVARIANTS
    StoreTypeOK
    JournalReplays
PROPERTIES
    LifecycleSpec
CHECK_DEADLOCK FALSE
