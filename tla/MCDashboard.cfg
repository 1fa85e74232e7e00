CONSTANTS
    Threads = {t1, t2}
    MaxSessions = 2
    LiveRun = FALSE
    Timeouts = TRUE
SPECIFICATION Spec
INVARIANTS TypeOK StaleIsNoticed UnnoticedPageIsCurrent
PROPERTY RequestsEnd
