SPECIFICATION Spec
CONSTANTS
    Lines = {a, b}
    MaxSource = 3
    MaxNumber = 4
    MaxBody = 3
    Sources <- MCSources
    Hunks <- MCHunks
INVARIANTS
    AppliesHunk
    ChangesOnlyTheHunk
CHECK_DEADLOCK FALSE
