SPECIFICATION Phase1Spec
CONSTANTS
    MaxSteps = 1
    NoProgressLimit = 1
    MaxCost = 1
    CostCeiling = 1
    None = None
    Candidates = {1}
    Scores = {10, 5}
    Advices = {a1}
    Receipts = {}
    Observations = {"child_launch_error", "child_result", "interrupted", "evaluation_missing", "supervisor_missing", "supervisor_failed", "supervisor_result"}
    Sessions = {s1, s2}
    BaselineScore = 10
    MaxCrashes = 3
    Overlap = TRUE
INVARIANTS
    AttemptsCounted
PROPERTIES
    RunFinishesGated
    AttemptFinishes
    CallsReturn
CHECK_DEADLOCK FALSE
