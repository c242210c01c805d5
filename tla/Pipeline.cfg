SPECIFICATION MCFairSpec
CONSTANTS
    t1 = t1
    g1 = g1
    g2 = g2
    r1 = r1
    r2 = r2
    Requests = {t1, g1, g2}
    Size <- MCSize
    Traced = {t1}
    Http = {}
    RequestKind <- MCRequestKind
    TracedMetrics <- MCTracedMetrics
    SpanID <- MCSpanID
    Replicas = {r1, r2}
    MaxAckPending = 1
    Prefetch = 1
    MaxFaults = 2
CHECK_DEADLOCK FALSE
INVARIANTS
    AcceptedIsKept
    SpanRowHasItsMetrics
PROPERTIES
    AcceptedIsStoredInTheEnd
    SpansSettleWithoutFaults
