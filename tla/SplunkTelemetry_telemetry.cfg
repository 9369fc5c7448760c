\* One event from outside and two ticks, which emit up to twelve events of their own, one of
\* which is refused; every attempt may fail.
SPECIFICATION Spec
CONSTANTS
    SplunkEnabled = TRUE
    EmitFlowCounters = TRUE
    MaxEvents = 1
    MaxTicks = 2
    MaxLost = 1
INVARIANTS TypeOK DeltasDoNotOverlap
PROPERTY RecoveryNeedsSuccess
CHECK_DEADLOCK FALSE
