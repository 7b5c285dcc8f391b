\* A target with more than THCNT hardware threads: tid THCNT exists.
CONSTANTS
    THCNT = 4
    HwThreads = {0, 1, 2, 3, 4}
SPECIFICATION Spec
INVARIANT AssertHolds
CHECK_DEADLOCK FALSE
