SPECIFICATION FairSpec
CONSTANTS
    metric = metric
    log = log
    Kinds = {metric, log}
    MaxReconnects = 2
CHECK_DEADLOCK FALSE
INVARIANTS
    TypeOK
    NothingClosedInUse
PROPERTIES
    StopsOnSignal
    StartsInTheEnd
