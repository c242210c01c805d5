SPECIFICATION FairProcessSpec
CONSTANTS
    t1 = t1
    g1 = g1
    e1 = e1
    h1 = h1
    Requests = {t1, g1, h1, e1}
    Size <- MCSize
    Traced <- MCTraced
    Http <- MCHttp
CHECK_DEADLOCK FALSE
INVARIANTS
    ProcessTypeOK
    OkMeansStored
    SpanHasItsMetrics
    StoredIsPrefix
    StopCutsNothing
PROPERTIES
    StopEnds
