\* Two goroutines ingest two events, one longer than the scanner's limit; one file
\* operation fails, sends fail at will and the process dies once, at any step.
CONSTANTS
    e1 = e1
    e2 = e2
    Ids = {e1, e2}
    HighValue = {e2}
    Overlong = {e2}
    Torn = Torn
    NoEvent = NoEvent
    Ingesters = {i1, i2}
    Operators = {}
    Worker = Worker
    Boot = Boot
    Configs <- AlwaysOn
    InitialConfig <- SyslogOnly
    QueueCap = 1
    BatchSize = 2
    MayFail <- DataFiles
    MaxFailures = 1
    MaxCrashes = 1
SPECIFICATION Spec
SYMMETRY Workload
INVARIANTS
    StoredOnce
    CheckpointIsForwarded
PROPERTIES
    ImplementsEventRelay
