SPECIFICATION MCSpec
CONSTANTS
    r1 = r1
    r2 = r2
    c1 = c1
    c2 = c2
    c3 = c3
    c4 = c4
    s1 = s1
    s2 = s2
    s3 = s3
    t1 = t1
    t2 = t2
    m1 = m1
    m2 = m2
    m3 = m3
    m4 = m4
    Rows = {r1, r2}
    Span = 1
    Limit = 1
    MaxTime = 5
    Word = 4
    MaxBytes = 6
    Calls = {c1, c2, c3, c4}
    Client <- MCClient
    Rate = 1
    Burst = 1
    MaxTicks = 2
    Spans = {s1, s2, s3}
    TraceOf <- MCTraceOf
    Traces = {t1, t2}
    Start <- MCStart
    NoParent = NoParent
    Metrics = {m1, m2, m3, m4}
    Service <- MCService
    Name <- MCName
    Written <- MCWritten
    MaxRefreshes = 2
\* The clocks stop at their bounds.
CHECK_DEADLOCK FALSE
INVARIANTS
    PartsTypeOK
    MissedForAReason
    SentAtMostTwice
    RatesAddUp
    BurstIsBound
    RefusedForOwnFlood
    ShownOnce
    SpansAreOfTheTraceNamed
PROPERTIES
    ListCatchesUp
    LastSeenAdvances
