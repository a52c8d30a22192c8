SPECIFICATION Spec
CONSTANTS
    MaxSteps = 3
    NoProgressLimit = 1
    MaxCost = 1
    CostCeiling = 1
    None = None
    Candidates = {1, 2, 3}
    Scores = {10, 7, 5}
    Advices = {a1, a2}
    Receipts = {}
    Observations = {"child_launch_error", "child_result", "interrupted", "evaluation_missing", "supervisor_missing", "supervisor_failed", "supervisor_result"}
    Sessions = {s1}
    BaselineScore = 10
    MaxCrashes = 3
    Overlap = TRUE
INVARIANTS
    WallBound
CHECK_DEADLOCK FALSE
