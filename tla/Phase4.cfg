SPECIFICATION FairSpec
CONSTANTS
    MaxSteps = 1
    NoProgressLimit = 1
    MaxCost = 1
    CostCeiling = 1
    None = None
    Candidates = {good, bad}
    Fixes = {good}
    MaxUpgrades = 1
    Scores = {0, 1}
    Advices = {}
    Receipts <- MCReceipts
    Observations = {"prepared", "child_result", "attempt_failed", "interrupted", "evaluation_missing", "sandbox_result"}
    Sessions = {s1, s2}
    MaxCrashes = 2
INVARIANTS
    TypeOK
    EffectsOnce
    ArtifactRetained
    ReceiptTruthful
PROPERTIES
    RunFinishes
CHECK_DEADLOCK FALSE
