SPECIFICATION Spec
CONSTANTS
    MaxSteps = 2
    NoProgressLimit = 1
    MaxCost = 1
    CostCeiling = 1
    None = None
    Candidates = {1, 2}
    Scores = {7, 5}
    Advices = {a1}
    Receipts = {}
    Observations = {"child_launch_error", "child_result", "interrupted", "evaluation_missing", "supervisor_missing", "supervisor_failed", "supervisor_result"}
    Sessions = {s1, s2}
    BaselineScore = 7
    MaxCrashes = 0
    Overlap = TRUE
SYMMETRY Interchangeable
INVARIANTS
    BestIsEligible
CHECK_DEADLOCK FALSE
