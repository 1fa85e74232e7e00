CONSTANTS
    Groups <- MCGroups
    Tries = 2
    Jobs = {1, 2}
    MaxUps = 2
    MaxCalls = 3
    Attempts = 2
    PerArm = 2
    Batches = 2
    Probes = 2
    RttOf <- MCRttOf
    Expectations <- MCExpectations
    RttTolerance = 5
    LossTolerance = 2
    MaxReshapes = 1
    None = None
SPECIFICATION Spec
INVARIANTS TypeOK ReadyLabIsOwn StoppedMeansGone ThroughputAccounted ArmsBalanced CalibrationIsReal
PROPERTIES ScriptsEnd WorkloadsEnd
