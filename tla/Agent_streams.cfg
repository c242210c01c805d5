SPECIFICATION FairSpec
CONSTANTS
    cpu = cpu
    network = network
    Streams = {cpu, network}
    Watched = {cpu}
    MaxOutages = 1
CHECK_DEADLOCK FALSE
INVARIANTS
    TypeOK
    ErrorOncePerReset
    NoFalseAlarm
PROPERTIES
    StatusOnlyPopped
    OutageNoticed
    RecoveryNoticed
    AgentStops
