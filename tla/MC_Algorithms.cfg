CONSTANTS
    MaxRecords = 3
    MaxTick = 4
    Ids = {0, 3, 4, 7}
    Events = {22, 273}
    \* main's join spin runs as long as the other thread's work: at least
    \* one stretch of BASE_WORK_COUNT packets
    JOIN_SPIN_PKTS = 100
    MAX_SPINS = 1
SPECIFICATION MCSpec
INVARIANT ScanDecidesDisjointness
INVARIANT EventsAsConfigured
INVARIANT NoCheckFails
INVARIANT VwctrlTestPasses
INVARIANT FramelimitStackBalanced
INVARIANT FramelimitTestPasses
INVARIANT CheckForPrivTestPasses
INVARIANT UdmaTestPasses
PROPERTY CheckForPrivOnlyProbesSkipped
