------------------------------ MODULE Statistics ------------------------------
(***************************************************************************)
(* The counters of GET /stats (internal/stats/stats.go).  Each operation   *)
(* holds the mutex of Stats, so each is one operator here, from the        *)
(* counters before to the counters after.                                  *)
(***************************************************************************)
EXTENDS EventNormalization, Counters

(* A time as a string: the digits and, after them, "Z" or an offset. *)
Written(e) == [digits |-> e.received + e.offset, zoned |-> e.offset # 0]
NotWritten == [digits |-> NoTime, zoned |-> FALSE]

NewStats ==
    [totalReceived |-> 0, securityCount |-> 0, highValue |-> 0,
     bySource |-> <<>>, bySeverity |-> <<>>, byCategory |-> <<>>, bySourcetype |-> <<>>,
     timeline |-> <<>>, sources |-> <<>>, latest |-> NotWritten,
     rateSecond |-> 0, rateCount |-> 0, rateEPS |-> 0]

(* The order of two times compared as strings: zeros at the end of a fraction are
   not written, and what follows the last digit sorts before the point and the
   digits when it is the sign of an offset, after them when it is "Z". *)
FractionOrder(time) ==
    LET tenth == 1 + (time.digits % 100) \div 10
        hundredth == 1 + (time.digits % 10)
        end == IF time.zoned THEN 0 ELSE 11
    IN CASE time.digits % 100 = 0 -> ((end * 12) * 12) * 12
         [] ~ (time.digits % 100 = 0) /\ time.digits % 10 = 0 -> ((12 + tenth) * 12 + end) * 12
         [] OTHER -> ((12 + tenth) * 12 + hundredth) * 12 + end

FractionOrders == 12 * 12 * 12 * 12

StringOrder(time) == (time.digits \div 100) * FractionOrders + FractionOrder(time)

(* Faulty variant: the event that is added last is the latest. *)
LastAdded(s, e) == Written(e)

LaterOf(s, e) ==
    IF s.latest = NotWritten \/ StringOrder(Written(e)) > StringOrder(s.latest)
    THEN Written(e) ELSE s.latest

BumpRate(s, now) ==
    IF s.rateSecond # now
    THEN [s EXCEPT !.rateSecond = now, !.rateEPS = s.rateCount, !.rateCount = 1]
    ELSE [s EXCEPT !.rateCount = @ + 1]

(* of the time in UTC *)
Bucket(t) == t \div 6000

StatsAdd(s, e, now) ==
    BumpRate([s EXCEPT !.totalReceived = @ + 1,
                       !.securityCount = @ + (IF e.category = "security" THEN 1 ELSE 0),
                       !.highValue     = @ + (IF e.high THEN 1 ELSE 0),
                       !.bySource      = Incremented(@, e.type),
                       !.bySeverity    = Incremented(@, e.severity),
                       !.byCategory    = Incremented(@, e.category),
                       !.bySourcetype  = Incremented(@, e.sourcetype),
                       !.timeline      = Incremented(@, Bucket(e.received)),
                       !.sources       = Incremented(@, IF e.ip # "" THEN e.ip ELSE e.name),
                       !.latest        = LaterOf(s, e)], now)

SeverityCount(s, level) == CountOf(s.bySeverity, level)
=============================================================================
