CONSTANTS
    Groups = {"g"}
    RttHalfMs <- MCRtts
    LossPercent <- MCLosses
    Batches = 1
    Planned <- MCPlanned
    Configs = {c1, c2}
    Binaries = {v1, v2}
    Backends = {"netns"}
    Attempts = 1
    MaxResumes = 1
    WritesMayFail = FALSE
    EditsWhileRunning = FALSE
    Unshaped = Unshaped
    None = None
SYMMETRY MCSymmetry
SPECIFICATION Spec
INVARIANTS TypeOK EvidenceInv EvidenceMatchesSchedule MeasuredUnderCellProfile
    CompletedIsWhole MeasuredByFrozenInputs StoppedRunIsSealed HistoryInv
PROPERTIES RawCreateOnly ImplementsLedger
