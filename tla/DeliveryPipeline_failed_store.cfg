\* Two goroutines submit one event twice; the first append to the events file fails.
CONSTANTS
    e1 = e1
    e2 = e2
    Ids = {e1, e2}
    HighValue = {}
    Overlong = {}
    Torn = Torn
    NoEvent = NoEvent
    Ingesters = {i1, i2}
    Operators = {}
    Worker = Worker
    Boot = Boot
    Configs <- AlwaysOn
    InitialConfig <- SyslogOnly
    QueueCap = 2
    BatchSize = 2
    MayFail <- DataFiles
    MaxFailures = 1
    MaxCrashes = 0
SPECIFICATION Spec
INVARIANTS
    SeenIsStored
