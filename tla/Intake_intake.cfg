\* One sender posts two bodies of any kind or one of them twice, around the end of
\* a second and a minute, while the counters are polled.
CONSTANTS
    Senders = {s1}
    Deliveries <- TheDeliveries
    Instants <- TheInstants
    MaxPosts = 2
    MaxResends = 1
SPECIFICATION Spec
INVARIANTS
    TypeOK
    RowsAreAnswered
    RetryStoresOnce
    StoredIsStable
    AlarmIsRaised
    SameLineSameMessage
    StatsAddUp
    LatestIsThisSecond
PROPERTIES
    StatsAnswerIsForward
