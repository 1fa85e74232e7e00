CONSTANTS
    Threads = {t1}
    MaxSessions = 1
    LiveRun = TRUE
    Timeouts = FALSE
SPECIFICATION Spec
INVARIANT StaleIsNoticed
