----------------------------- MODULE ProbeTests -----------------------------
(***************************************************************************)
(* swi.c, swi2.c, k0lock.c, tlblock.c and test-thread.c, five programs   *)
(* each on its own target, and the start barrier of thread_common.c under *)
(* the launch programs of four tests: they share nothing.  One run checks *)
(* them all as disjoint parts of one state space: part says which program *)
(* a behaviour runs, the others stay at their initial state, and each     *)
(* program keeps its own fairness in its own part.  A property of a       *)
(* program holds here exactly when it holds for that program alone.      *)
(***************************************************************************)
EXTENDS Naturals

CONSTANTS MAX_THREADS, Lines, NTasks, INTS_PER_ITER, TEST_ITER_COUNT,
          COMPUTE_THREADS, ITERS, THCNT, HwThreads

VARIABLES
    part,
    tpc, imask, pending, registered, intcnt, takenBy, cpc, cidx,
    intsByIrq, cPending, gie, cycImask, cyc, half, task, tasksEnabled,
    mpc, iter, i, cCidx,
    owner, kTpc, titer, kMpc, j, kI,
    lOwner, lTpc, lTiter, lMpc, lJ, lI,
    mx, tTpc, tmp, thcnt, thid, tMpc, tI, aborted,
    sbProg, sbIp, sbCpc, sbCidx, sem, sbWpc

Ring == INSTANCE SwiRing
Cycle == INSTANCE SwiCycle WITH pending <- cPending, cidx <- cCidx
K0 == INSTANCE K0LockProbe WITH tpc <- kTpc, mpc <- kMpc, i <- kI

(* tlblock.c: k0lock.c on the TLB lock, with thread_func's loop run 5 times *)
TLBLOCK_ITERS == 5
TL == INSTANCE K0LockProbe WITH ITERS <- TLBLOCK_ITERS, owner <- lOwner,
    tpc <- lTpc, titer <- lTiter, mpc <- lMpc, j <- lJ, i <- lI
TT == INSTANCE TestThread WITH tpc <- tTpc, mpc <- tMpc, i <- tI

(* thread_common.c with thread ids 1..3 and the launch sequences of        *)
(* lock_timer_test.c and swi_wait.c (three threads each), k0lock-syscfg.c  *)
(* and pmu.c (three thread_run_blocked calls).                             *)
LaunchIds == 1..3
Launches == INSTANCE StartBarrier WITH Ids <- LaunchIds, Programs <- {},
    prog <- sbProg, ip <- sbIp, cpc <- sbCpc, cidx <- sbCidx, wpc <- sbWpc
LaunchPrograms ==
    { Launches!LockTimerLaunch(3), Launches!SwiWaitLaunch(3),
      Launches!K0SyscfgLaunch, Launches!PmuLaunch(3) }
SB == INSTANCE StartBarrier WITH Ids <- LaunchIds, Programs <- LaunchPrograms,
    prog <- sbProg, ip <- sbIp, cpc <- sbCpc, cidx <- sbCidx, wpc <- sbWpc

ringVars == <<tpc, imask, pending, registered, intcnt, takenBy, cpc, cidx>>
cycleVars == <<intsByIrq, cPending, gie, cycImask, cyc, half, task,
               tasksEnabled, mpc, iter, i, cCidx>>
k0Vars == <<owner, kTpc, titer, kMpc, j, kI>>
tlVars == <<lOwner, lTpc, lTiter, lMpc, lJ, lI>>
ttVars == <<mx, tTpc, tmp, thcnt, thid, tMpc, tI, aborted>>
sbVars == <<sbProg, sbIp, sbCpc, sbCidx, sem, sbWpc>>
allVars == <<part, ringVars, cycleVars, k0Vars, tlVars, ttVars, sbVars>>

Parts == {"swi.c", "swi2.c", "k0lock.c", "tlblock.c", "test-thread.c",
          "thread_common.c"}

Init ==
    /\ part \in Parts
    /\ Ring!Init /\ Cycle!Init /\ K0!Init /\ TL!Init /\ TT!Init /\ SB!Init
    /\ part # "thread_common.c" => sbProg = Launches!K0SyscfgLaunch

Next ==
    \/ part = "swi.c" /\ Ring!Next
       /\ UNCHANGED <<part, cycleVars, k0Vars, tlVars, ttVars, sbVars>>
    \/ part = "swi2.c" /\ Cycle!Next
       /\ UNCHANGED <<part, ringVars, k0Vars, tlVars, ttVars, sbVars>>
    \/ part = "k0lock.c" /\ K0!Next
       /\ UNCHANGED <<part, ringVars, cycleVars, tlVars, ttVars, sbVars>>
    \/ part = "tlblock.c" /\ TL!Next
       /\ UNCHANGED <<part, ringVars, cycleVars, k0Vars, ttVars, sbVars>>
    \/ part = "test-thread.c" /\ TT!Next
       /\ UNCHANGED <<part, ringVars, cycleVars, k0Vars, tlVars, sbVars>>
    \/ part = "thread_common.c" /\ SB!Next
       /\ UNCHANGED <<part, ringVars, cycleVars, k0Vars, tlVars, ttVars>>

Spec ==
    /\ Init /\ [][Next]_allVars
    /\ part = "swi.c" => Ring!Fairness
    /\ part = "swi2.c" => Cycle!Fairness
    /\ part = "k0lock.c" => K0!Fairness
    /\ part = "tlblock.c" => TL!Fairness
    /\ part = "test-thread.c" => TT!Fairness
    /\ part = "thread_common.c" => SB!Fairness

(* swi.c: each raised line is taken by the thread it belongs to only. *)
OwnLineOnly == Ring!OwnLineOnly

(* swi.c: the ring closes and main's thread_join returns. *)
RingCompletes == part = "swi.c" => Ring!RingCompletes

(* swi2.c: every raise is counted once before the next round. *)
CountsTrackRaises == Cycle!CountsTrackRaises

(* swi2.c: the test reaches PASS while thread 1 cycles the enables. *)
TestPasses == part = "swi2.c" => Cycle!TestPasses

(* k0lock.c and tlblock.c: main's hold during thread creation is exclusive. *)
MainHoldExclusive == K0!MainHoldExclusive /\ TL!MainHoldExclusive

(* k0lock.c and tlblock.c: every batch finishes and main prints PASS. *)
ProbeTerminates ==
    /\ part = "k0lock.c" => K0!ProbeTerminates
    /\ part = "tlblock.c" => TL!ProbeTerminates

(* test-thread.c: no thcnt++ is lost under Mx. *)
NoLostIncrement == TT!NoLostIncrement

(* test-thread.c: main compares thid[] after every record and prints PASS. *)
PassReported == part = "test-thread.c" => TT!PassReported

(* thread_common.c: the slot-by-slot barrier implements the atomic launch *)
(* contract ThreadLaunch under the refinement mapping of StartBarrier      *)
(* (SB!ImplementsThreadLaunch, conjunct by conjunct, in its own part).     *)
absVars == <<sbProg, SB!AbsIp, SB!AbsSt>>

ImplementsThreadLaunch ==
    /\ part = "thread_common.c" => SB!Launch!LaunchInit
    /\ [][part = "thread_common.c" =>
            SB!Launch!LaunchNext \/ UNCHANGED absVars]_allVars
    /\ part = "thread_common.c" => SB!Launch!LaunchFairness
=============================================================================
