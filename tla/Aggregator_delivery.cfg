SPECIFICATION FairSpec
CONSTANTS
    m1 = m1
    m2 = m2
    l1 = l1
    s1 = s1
    s2 = s2
    s3 = s3
    Messages = {s1, s2}
    Replicas = {r1}
    Kind <- MCKind
    Decodable <- MCDecodable
    Traced <- MCTraced
    SpanID <- MCSpanID
    MaxAckPending = 1
    Prefetch = 1
    MaxFaults = 1
CHECK_DEADLOCK FALSE
PROPERTIES
    SpansAreDelivered
