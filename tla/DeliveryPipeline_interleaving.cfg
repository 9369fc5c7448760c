\* Two goroutines ingest two events while the worker forwards them and an operator
\* pauses, resumes and flushes; the queue holds one event, and one write of the
\* configuration may fail.
CONSTANTS
    e1 = e1
    e2 = e2
    Ids = {e1, e2}
    HighValue = {e2}
    Overlong = {}
    Torn = Torn
    NoEvent = NoEvent
    Ingesters = {i1, i2}
    Operators = {op1}
    Worker = Worker
    Boot = Boot
    Configs <- Toggling
    InitialConfig <- SyslogOnly
    QueueCap = 1
    BatchSize = 2
    MayFail <- ConfigFile
    MaxFailures = 1
    MaxCrashes = 0
SPECIFICATION Spec
SYMMETRY Workload
INVARIANTS
    TypeOK
    InflightIsHeld
    PauseTakesEffect
