\* The collector starts with forwarding off, spools one event, and is enabled.
CONSTANTS
    e1 = e1
    e2 = e2
    Ids = {e1, e2}
    HighValue = {}
    Overlong = {}
    Torn = Torn
    NoEvent = NoEvent
    Ingesters = {i1}
    Operators = {op1}
    Worker = Worker
    Boot = Boot
    Configs <- Enabling
    InitialConfig <- Off
    QueueCap = 2
    BatchSize = 2
    MayFail <- NoFile
    MaxFailures = 0
    MaxCrashes = 0
SPECIFICATION Spec
INVARIANTS
    FirstRecordIsRecoverable
