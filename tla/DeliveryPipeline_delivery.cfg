\* Fair scheduling, an operator that pauses, resumes and flushes, and a destination that
\* keeps failing but not for ever; no crash and a queue that never fills.
CONSTANTS
    e1 = e1
    e2 = e2
    Ids = {e1, e2}
    HighValue = {e2}
    Overlong = {}
    Torn = Torn
    NoEvent = NoEvent
    Ingesters = {i1}
    Operators = {op1}
    Worker = Worker
    Boot = Boot
    Configs <- Toggling
    InitialConfig <- SyslogOnly
    QueueCap = 4
    BatchSize = 2
    MayFail <- NoFile
    MaxFailures = 0
    MaxCrashes = 0
SPECIFICATION FairSpec
INVARIANTS
    BacklogIsQueued
PROPERTIES
    QueuedIsForwarded
    AckedIsForwarded
    NothingIsLeftBehind
