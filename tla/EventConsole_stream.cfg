\* Two goroutines publish three events to a browser and to a plain reader of
\* the stream; the browser loads its table of two rows twice.
SPECIFICATION ConsoleFairSpec
CONSTANTS
    p1 = p1
    p2 = p2
    Publishers = {p1, p2}
    Viewers = {v1, v2}
    Consoles = {v1}
    TypeOf <- TheTypes
    Types = {"firewall"}
    TableSize = 2
    MaxLoads = 2
    Supply <- TheSupply
    ChanCap = 1
    MaxSubs = 2
    MaxEvents = 2
INVARIANTS TypeOK NoSendOnClosed OnlySlowViewersMiss InOrder TableIsFaithful AnswerIsNewest
PROPERTY PublishEnds
CHECK_DEADLOCK FALSE
