CONSTANTS
    Groups = {"g"}
    RttHalfMs <- MCRtts
    LossPercent <- MCLosses
    Batches = 1
    Planned <- MCPlanned
    Configs = {c1}
    Binaries = {v1}
    Backends = {"netns"}
    Attempts = 1
    MaxResumes = 1
    WritesMayFail = FALSE
    EditsWhileRunning = FALSE
    Unshaped = Unshaped
    None = None
SPECIFICATION ResumingSpec
PROPERTY ResumeRecovers
