CONSTANTS
    ExactLimit = 4
    Drawn <- MCDrawn
    Unit = 16
    Level = 2
    None = None
    Groups <- MCGroups
    Grid <- MCGrid
    BatchOutcomes <- MCBatchOutcomes
    MaxBatches = 5
    Margins = {4, 24}
    PercentScale = 1200
    PrimaryOptions <- MCPrimaryOptions
    Failed = Failed
    NaN = NaN
SPECIFICATION Spec
INVARIANTS TypeOK ContrastsAgree HolmIsClosedTest EquivalenceIsSound WiderMarginsHold FloorNoteIsRight PrimaryAgrees FormalConclusionHolds
