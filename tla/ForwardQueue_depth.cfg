SPECIFICATION Spec
CONSTANTS
    Pushers = {g1, g2, g3}
    Cap = 3
    BatchSize = 2
    MaxPushes = 8
    MaxFailures = 2
SYMMETRY PusherSymmetry
INVARIANTS TypeOK BacklogIsReported DriftIsBounded
CHECK_DEADLOCK FALSE
