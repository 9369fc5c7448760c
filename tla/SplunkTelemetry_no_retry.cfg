\* One event and one tick under fair scheduling; attempts may fail but not for ever.
SPECIFICATION FairSpec
CONSTANTS
    SplunkEnabled = TRUE
    EmitFlowCounters = TRUE
    MaxEvents = 1
    MaxTicks = 1
    MaxLost = 0
PROPERTY AcceptedReachesSplunk
CHECK_DEADLOCK FALSE
