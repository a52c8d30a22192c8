SPECIFICATION MCSpec
CONSTANTS
    MaxSteps = 4
    NoProgressLimit = 2
    MaxCost = 3
    CostCeiling = 3
    None = None
    Candidates = {c1, c2}
    CostDeltas = {0, 1, 2, 4}
    MaxRevision = 16
INVARIANTS
    TypeOK
    BudgetRespected
    OutcomeHonest
    StagnationHeld
PROPERTIES
    BestKept
CHECK_DEADLOCK FALSE
