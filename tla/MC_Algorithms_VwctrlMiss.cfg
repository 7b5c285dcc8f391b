CONSTANTS
    MaxRecords = 3
    MaxTick = 4
    Ids = {0, 3, 4, 7}
    Events = {22, 273}
    \* main's join spin runs as long as the other thread's work: at least
    \* one stretch of BASE_WORK_COUNT packets
    JOIN_SPIN_PKTS = 100
    MAX_SPINS = 1
SPECIFICATION MCSpec
\* The comment "out of bounds access" and expect_failure = true say the
\* third phase's accesses miss the moved window; TLC shows they need not.
INVARIANT VwctrlExpectedMissOccurs
