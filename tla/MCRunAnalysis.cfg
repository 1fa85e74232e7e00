CONSTANTS
    Groups = {"g"}
    RttHalfMs <- MCRtts
    LossPercent <- MCLosses
    Batches = 2
    Planned <- MCPlanned
    Configs = {c1}
    Binaries = {v1}
    Backends = {"netns"}
    Attempts = 1
    MaxResumes = 1
    WritesMayFail = TRUE
    EditsWhileRunning = FALSE
    Unshaped = Unshaped
    None = None
SPECIFICATION AnalysisSpec
INVARIANTS ValidMeansComplete EvidenceMatchesSchedule
PROPERTIES FinishedRunIsValid RunEnds
