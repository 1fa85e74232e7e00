CONSTANTS
    Warmups = 1
    Attempts = 2
    Addresses = 2
    IntMax = 7
    TimeoutMs = 7
    MaxChunks = 2
    None = None
SPECIFICATION Spec
INVARIANTS TypeOK OneRecordPerAttempt LatencyOnlyOfHandshakes CountsMatchWire
    NothingLeaks
PROPERTY Terminates
