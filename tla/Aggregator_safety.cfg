SPECIFICATION Spec
CONSTANTS
    m1 = m1
    m2 = m2
    l1 = l1
    s1 = s1
    s2 = s2
    s3 = s3
    Messages = {m1, l1, s1, s3}
    Replicas = {r1, r2}
    Kind <- MCKind
    Decodable <- MCDecodable
    Traced <- MCTraced
    SpanID <- MCSpanID
    MaxAckPending = 2
    Prefetch = 2
    MaxFaults = 1
SYMMETRY ReplicaSymmetry
CHECK_DEADLOCK FALSE
INVARIANTS
    TypeOK
    NoLoss
    DuplicatesNeedFaults
    AggregatorSpansMatchRows
PROPERTIES
    ImplementsSink
