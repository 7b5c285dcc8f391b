---------------------------- MODULE MC_Algorithms ----------------------------
(***************************************************************************)
(* The sequential computations of the repository, checked over bounded     *)
(* inputs: verify_no_overlaps against the reference definition over every  *)
(* log of up to MaxRecords records with timer readings in 0..MaxTick; the  *)
(* PMU event-selection registers of pmu.h driven through every sequence of *)
(* pmu_config, pmu_reset, pmu_start and pmu_stop calls; and the PMU tests  *)
(* of pmu.c; the VTCM window test of vwctrl.c from every VWCTRL reset     *)
(* value in MCResetVwctrl; and framelimit.c, checkforpriv.c and udma.c as  *)
(* their main runs them.  The harness aborts on a zero-length interval     *)
(* ("clock malfunction"), so every record has start < end.  The checks     *)
(* share the run as disjoint parts of its state space.                     *)
(***************************************************************************)
EXTENDS PmuTest, OverlapCheck

CONSTANTS MaxRecords, MaxTick

Intervals == { r \in [start : 0..MaxTick, end : 0..MaxTick] : r.start < r.end }

Logs == [0..(MaxRecords - 1) -> Intervals]

VARIABLES
    part,       \* "log", "pmu", "pmu.c" or "vwctrl.c": which computation
                \* this behaviour checks
    log,        \* lock_records[] as verify_no_overlaps is handed it
    vwctrl, mode, window_miss_seen, vwErr, enable, vwctrl_lo, vwctrl_hi,
    wmin, wmax, pc, step,   \* vwctrl.c; vwErr is its err
    framelimit_exception_found, flErr, flMode, sp, fp, frames, framelimit,
    flPc, flStep,           \* framelimit.c
    priv_exception_found, guest_exception_found, cpErr, cpMode, prog, cpPc,
    cause, elr,             \* checkforpriv.c
    ut, ustep, mem, desc, dma, uFail    \* udma.c

(* Reset values of VWCTRL: enabled or not, LOW at 0, 1 and its maximum,     *)
(* HIGH giving windows of 1 page, just short of and just long enough for   *)
(* the DMA of test_vtcm_dma, the whole 2MB VTCM, and the maximum.          *)
MCResetVwctrl ==
    [enable : BOOLEAN, lo : {0, 1, 4095}, hi : {0, 8, 9, 511, 4095}]

VW == INSTANCE Vwctrl WITH err <- vwErr, VTCM_BASE <- 13 * 65536,
                           ResetVwctrl <- MCResetVwctrl

vwVars == <<vwctrl, mode, window_miss_seen, vwErr, enable, vwctrl_lo, vwctrl_hi,
            wmin, wmax, pc, step>>

FL == INSTANCE Framelimit WITH err <- flErr, mode <- flMode, pc <- flPc,
                               step <- flStep
flVars == <<framelimit_exception_found, flErr, flMode, sp, fp, frames,
            framelimit, flPc, flStep>>

(* Up to two privileged instructions in the library code after the probes *)
CP == INSTANCE CheckForPriv WITH err <- cpErr, mode <- cpMode, pc <- cpPc,
                                 MaxLibPriv <- 2
cpVars == <<priv_exception_found, guest_exception_found, cpErr, cpMode, prog,
            cpPc, cause, elr>>

UD == INSTANCE Udma WITH fail <- uFail
udVars == <<ut, ustep, mem, desc, dma, uFail>>

otherVars == <<vwVars, flVars, cpVars, udVars>>

NoLog == [r \in {} |-> 0]

MCInit ==
    /\ \/ part = "log" /\ log \in Logs
       \/ part \in {"pmu", "pmu.c", "vwctrl.c", "framelimit.c", "checkforpriv.c",
                   "udma.c"}
          /\ log = NoLog
    /\ TestInit
    /\ VW!Init /\ FL!Init /\ CP!Init /\ UD!Init
    /\ part # "checkforpriv.c" => Len(prog) = 5
    /\ part # "vwctrl.c" => vwctrl = [enable |-> TRUE, lo |-> 0, hi |-> 0]

(* The log is fixed once the workers are joined; the registers change only *)
(* by the calls of pmu.h, in any order or in the order of pmu.c.           *)
MCNext ==
    \/ part = "log" /\ UNCHANGED <<allVars, part, log, otherVars>>
    \/ part = "pmu" /\ Next /\ UNCHANGED <<testVars, part, log, otherVars>>
    \/ part = "pmu.c" /\ TestNext /\ UNCHANGED <<part, log, otherVars>>
    \/ part = "vwctrl.c" /\ VW!Next /\ UNCHANGED <<allVars, part, log, flVars, cpVars, udVars>>
    \/ part = "framelimit.c" /\ FL!Next
       /\ UNCHANGED <<allVars, part, log, vwVars, cpVars, udVars>>
    \/ part = "checkforpriv.c" /\ CP!Next
       /\ UNCHANGED <<allVars, part, log, vwVars, flVars, udVars>>
    \/ part = "udma.c" /\ UD!Next
       /\ UNCHANGED <<allVars, part, log, vwVars, flVars, cpVars>>

mcVars == <<allVars, part, log, otherVars>>

MCSpec == MCInit /\ [][MCNext]_mcVars

(* Sorting by start time and scanning adjacent pairs decides exactly the   *)
(* pairwise-disjointness of the recorded critical sections, for every log  *)
(* and every prefix the code may be asked to verify, whichever order qsort *)
(* leaves equal start times in (verify_no_overlaps, compare_records).      *)
ScanDecidesDisjointness ==
    part = "log" =>
    \A n \in 0..MaxRecords :
        VerifyNoOverlaps(log, n) = { PairwiseDisjoint(log, n) }

(* vwctrl.c returns PASS whenever VWCTRL comes out of reset enabled with a *)
(* window that holds the bytes test_vtcm_dma touches above wmin: the       *)
(* window calc_win_boundaries computes is the one the hardware enforces,   *)
(* and the set_vwctrl calls issued from the user mode the previous test    *)
(* left take effect after the privilege trap.                              *)
VwctrlTestPasses == VW!TestPasses

(* vwctrl.c: every check that expects a window miss follows an access that *)
(* missed, in the disabled phase and in the "out of bounds access" phase.  *)
VwctrlExpectedMissOccurs == VW!ExpectedMissOccurs

(* framelimit.c: each test_framelimit returns with SP, FP and the saved    *)
(* frames as main called it with, the user-mode overflow whose allocframe *)
(* the handler skipped included.                                           *)
FramelimitStackBalanced == FL!StackBalanced

(* framelimit.c prints PASS: the stack-limit exception is raised for the  *)
(* user-mode overflow only.                                               *)
FramelimitTestPasses == FL!TestPasses

(* checkforpriv.c: the error handler steps over the rte and gelr probes   *)
(* only, never over a privileged instruction of the code after them.     *)
CheckForPrivOnlyProbesSkipped == [][CP!SkipsOnlyProbe]_mcVars

(* checkforpriv.c prints PASS: each probe traps with its own cause. *)
CheckForPrivTestPasses == CP!TestPasses

(* udma.c prints PASS: for both buffer sizes the engine, following the    *)
(* chain from desc0_1, copies each source area to its destination and no  *)
(* transfer overwrites what another reads or the memcmp checks.            *)
UdmaTestPasses == UD!TestPasses
=============================================================================
