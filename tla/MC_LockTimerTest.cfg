CONSTANTS
    N = 2
    RoundsPerThread = 1
    Lines <- MCLines
    MinTotalInts = 1
    Phases = 2
    MaxSwi = 2
SPECIFICATION Spec
INVARIANT TypeOK
INVARIANT NoOverlapReported
INVARIANT InterruptConservation
INVARIANT BarrierReleasesTogether
INVARIANT RecordsComplete
PROPERTY BarrierEventuallyReleases
PROPERTY HarnessTerminates
