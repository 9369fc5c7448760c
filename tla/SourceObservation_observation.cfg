\* A sender and the poller of the OT collector bring the same two events, one of
\* them too long to be read back, while the sources are asked for, the OT
\* configuration changes, one append fails and the process restarts once.
CONSTANTS
    e1 = e1
    e2 = e2
    Events = {e1, e2}
    Attr <- TheEvents
    Overlong = {e2}
    Posters = {p1}
    Streamers = {}
    Pullers = {pull}
    Requests = {r1}
    OTConfigs <- TheConfigs
    FirstConfig <- Before
    MaxFailures = 1
    MaxRestarts = 1
    MaxConfigChanges = 1
SPECIFICATION Spec
INVARIANTS
    TypeOK
    CountedOnce
    StoredIsCounted
PROPERTIES
    NothingIsForgotten
    AnswerFollowsOT
    PanelsAgree
