\* swi.c with MAX_THREADS = 5: four ring threads.  swi2.c with two lines,
\* one task thread, two raises per iteration and two iterations.  k0lock.c
\* with two threads per batch and three rounds each, tlblock.c the same
\* with five (TLBLOCK_ITERS in ProbeTests).  test-thread.c on a
\* target with THCNT hardware threads: tid THCNT does not exist.
CONSTANTS
    MAX_THREADS = 5
    Lines = {0, 1}
    NTasks = 1
    INTS_PER_ITER = 2
    TEST_ITER_COUNT = 2
    COMPUTE_THREADS = 2
    ITERS = 3
    THCNT = 4
    HwThreads = {0, 1, 2, 3}
SPECIFICATION Spec
INVARIANT OwnLineOnly CountsTrackRaises MainHoldExclusive NoLostIncrement
PROPERTY RingCompletes TestPasses ProbeTerminates PassReported ImplementsThreadLaunch
\* Every program returns after its last step: it ends there.
CHECK_DEADLOCK FALSE
