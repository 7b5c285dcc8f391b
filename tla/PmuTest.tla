------------------------------- MODULE PmuTest -------------------------------
(***************************************************************************)
(* pmu.c: the PMU counter tests.  main runs ten tests in a row; each is a  *)
(* straight-line sequence of pmu.h calls (pmu_reset, pmu_config,           *)
(* pmu_set_counters, pmu_start, pmu_stop, toggle_ssr_pe), packets run by   *)
(* main, thread_run_blocked of work or config_thread on another hardware   *)
(* thread, and range checks of the counters read through the system,      *)
(* guest or user registers.  A failed check sets err; main prints PASS     *)
(* when err is still 0.                                                    *)
(*                                                                         *)
(* Each test function is an operator giving its calls as a sequence of     *)
(* operation records; main() is their concatenation, and one action per    *)
(* kind of operation carries it out.  While main waits in                  *)
(* thread_run_blocked for the other thread, it commits packets of its own  *)
(* (the join spin).                                                        *)
(***************************************************************************)
EXTENDS PmuConfig, SequencesExt

CONSTANTS
    JOIN_SPIN_PKTS, \* packets main commits in one stretch of its join spin
    MAX_SPINS       \* stretches of join spin per thread_run_blocked

BASE_WORK_COUNT == 100
NUM_THREADS == 8
COMMITTED_PKT_ANY == 3
HVX_PKT == 273
(* COMMITTED_PKT_T0 .. COMMITTED_PKT_T7 *)
COMMITTED_PKT_T(t) == <<12, 13, 14, 15, 16, 17, 21, 22>>[t + 1]

VARIABLES
    cnt,    \* pmucnt0..7
    pe,     \* SSR bit PE_SSR_BIT
    err,    \* static int err
    ip,     \* main's position in the sequence of operations
    wpc,    \* the thread thread_run_blocked started: "idle", "start", "run",
            \* "stop" (work), "setcnt", "config", "pmstart" (config_thread),
            \* "done"
    wtid,   \* its hardware thread id
    warg,   \* work's id argument
    spins   \* stretches of join spin so far in this thread_run_blocked

testVars == <<cnt, pe, err, ip, wpc, wtid, warg, spins>>
allVars == <<vars, testVars>>

-----------------------------------------------------------------------------
(* The operations of the tests. *)
Reset == [k |-> "reset"]
Config(c, e) == [k |-> "config", c |-> c, e |-> e]
SetCounters(v) == [k |-> "setcnt", v |-> v]
SetCounter0(v) == [k |-> "setcnt0", v |-> v]
SetPairs == [k |-> "setpairs"]
Start == [k |-> "start"]
Stop == [k |-> "stop"]
Packets(n, hvx) == [k |-> "pkts", n |-> n, hvx |-> hvx]
TogglePe(b) == [k |-> "pe", b |-> b]
GuestWrite == [k |-> "gwrite"]
CheckRange(c, type, lo, hi) == [k |-> "check", c |-> c, type |-> type, lo |-> lo, hi |-> hi]
CheckAny == [k |-> "checkany"]
RunBlocked(t, func, arg) == [k |-> "run", t |-> t, func |-> func, arg |-> arg]

(* BASE_WORK_COUNT * (i + 1) * ERR, a double converted to uint32_t: 1.1 *)
(* is stored just above 1.1, so the product is never below the exact     *)
(* value and the conversion truncates it.                                *)
ErrBound(n) == (n * 11) \div 10

(* work(id) run by main: pmu_start; RUN_N_PACKETS((id + 1) * 100); pmu_stop *)
Work(id) == <<Start, Packets((id + 1) * BASE_WORK_COUNT, FALSE), Stop>>

ConfigThreads == [i \in 1..7 |-> Config(i, COMMITTED_PKT_T(i))]
RunThreads == [i \in 1..7 |-> RunBlocked(i, "work", i)]

TestConfigWithPmuEnabled(off) ==
    << Reset, SetCounters(off), Start, Packets(800, FALSE),
       Config(0, COMMITTED_PKT_T(0)), Stop, CheckRange(0, "SREG", off, off + 15) >>

TestThreadedPktCountConfigFirst(type, ssrPe) ==
    <<Reset, Config(0, COMMITTED_PKT_T(0))>> \o ConfigThreads \o RunThreads
    \o Work(0) \o <<TogglePe(ssrPe)>>
    \o [i \in 1..8 |->
          IF type # "SREG" /\ ~ssrPe THEN CheckRange(i - 1, type, 0, 0)
          ELSE CheckRange(i - 1, type, BASE_WORK_COUNT * i,
                          ErrBound(BASE_WORK_COUNT * i))]

TestThreadedPktCount(type, ssrPe) ==
    <<Reset>> \o ConfigThreads \o RunThreads
    \o <<Config(0, COMMITTED_PKT_T(0))>> \o Work(0) \o <<TogglePe(ssrPe)>>
    \o [i \in 1..8 |->
          IF type # "SREG" /\ ~ssrPe THEN CheckRange(i - 1, type, 0, 0)
          ELSE CheckRange(i - 1, type, BASE_WORK_COUNT * i,
                          ErrBound(BASE_WORK_COUNT * i))]

(* The counters are read by pairs into v[] after SSR:PE is set; nothing   *)
(* runs between the reads and the checks.                                 *)
TestPairedAccess(type, ssrPe) ==
    <<Reset>> \o ConfigThreads \o <<SetPairs>> \o RunThreads
    \o <<Config(0, COMMITTED_PKT_T(0))>> \o Work(0)
    \o (IF type = "SREG" THEN <<>> ELSE <<TogglePe(ssrPe)>>)
    \o [i \in 1..8 |->
          IF type # "SREG" /\ ~ssrPe THEN CheckRange(i - 1, type, 0, 0)
          ELSE LET off == IF (i - 1) % 2 = 1 THEN 1000 ELSE 0
               IN  CheckRange(i - 1, type, off + BASE_WORK_COUNT * i,
                              off + ErrBound(BASE_WORK_COUNT * i))]

(* test_gpmucnt and test_upmucnt *)
TestGuestCounters(type) ==
    <<Reset>> \o TestThreadedPktCount(type, FALSE)
    \o <<Reset>> \o TestPairedAccess(type, FALSE)
    \o <<Reset>> \o TestThreadedPktCount(type, TRUE)
    \o <<Reset>> \o TestPairedAccess(type, TRUE)
    \o <<TogglePe(TRUE), Reset, GuestWrite>>
    \o [i \in 1..8 |-> CheckRange(i - 1, type, 0, 0)]

TestConfigFromAnotherThread ==
    << Reset, RunBlocked(1, "config_thread", 0), Stop,
       CheckRange(0, "SREG", 100, 100000) >>

(* nop; nop; then two packets with HVX instructions *)
TestHvxPackets ==
    << Reset, Config(0, HVX_PKT), Start, Packets(2, FALSE), Packets(2, TRUE),
       CheckRange(0, "SREG", 2, 2), Stop >>

TestEventChange ==
    <<Reset, SetCounter0(500), Config(0, COMMITTED_PKT_T(0))>> \o Work(0)
    \o <<Config(0, COMMITTED_PKT_T(1)), RunBlocked(1, "work", 0),
         Config(0, COMMITTED_PKT_T(0))>> \o Work(0)
    \o <<CheckRange(0, "SREG", 800, ErrBound(800))>>

TestCommittedPktAny ==
    << Reset, Config(0, COMMITTED_PKT_ANY), Config(1, COMMITTED_PKT_T(0)),
       Config(2, COMMITTED_PKT_T(1)), RunBlocked(1, "work", 1) >>
    \o Work(0) \o <<CheckAny>>

MainProgram ==
    FlattenSeq(<< TestConfigWithPmuEnabled(0), TestConfigWithPmuEnabled(100),
                  TestThreadedPktCount("SREG", FALSE),
                  TestPairedAccess("SREG", FALSE),
                  TestGuestCounters("GREG"), TestGuestCounters("CREG"),
                  TestConfigFromAnotherThread, TestHvxPackets,
                  TestEventChange, TestCommittedPktAny >>)

-----------------------------------------------------------------------------
(* What the hardware does, as the tests expect it: a packet committed by   *)
(* hardware thread t while SYSCFG:PM is set counts in every counter whose  *)
(* event is COMMITTED_PKT_T(t) or COMMITTED_PKT_ANY, and in a counter of   *)
(* HVX_PKT when it holds an HVX instruction.  Event 0 counts nothing.      *)
(* The 32-bit counters stay below 2^31 in every test: no wrap.            *)
Counts(e, t, hvx) ==
    e = COMMITTED_PKT_T(t) \/ e = COMMITTED_PKT_ANY \/ (hvx /\ e = HVX_PKT)

Commit(t, n, hvx) ==
    cnt' = [c \in Counters |->
              IF pmOn /\ Counts(EventOf(c), t, hvx) THEN cnt[c] + n
                                                    ELSE cnt[c]]

(* get_counter(regnum, type): the guest (gpmucnt) and user (upmucnt)       *)
(* views read 0 unless SSR:PE is set; the system view is pmucnt.           *)
GetCounter(c, type) == IF type = "SREG" \/ pe THEN cnt[c] ELSE 0

(* __check_val_range: err = 1 when the value is outside [lo, hi] *)
CheckVal(v, lo, hi) == err' = (err \/ v < lo \/ v > hi)

-----------------------------------------------------------------------------
Op == MainProgram[ip]

Running == ip <= Len(MainProgram) /\ wpc = "idle"

Next1 == ip' = ip + 1

(* pmu_reset: pmu_stop(); pmu_set_counters(0); pmu_config(i, 0) for all i *)
DoReset ==
    /\ Op.k = "reset" /\ PmuReset
    /\ cnt' = [c \in Counters |-> 0]
    /\ UNCHANGED <<pe, err>>

DoConfig ==
    /\ Op.k = "config" /\ PmuConfig(Op.c, Op.e)
    /\ UNCHANGED <<cnt, pe, err>>

(* pmu_set_counters(val), PMU_SET_COUNTER(0, val), and the writes of       *)
(* s49:48, s51:50, s45:44, s47:46 = 1000:0 (pmucnt1, 3, 5, 7 = 1000)        *)
DoSetCounters ==
    /\ \/ Op.k = "setcnt" /\ cnt' = [c \in Counters |-> Op.v]
       \/ Op.k = "setcnt0" /\ cnt' = [cnt EXCEPT ![0] = Op.v]
       \/ Op.k = "setpairs" /\ cnt' = [c \in Counters |-> IF c % 2 = 1 THEN 1000 ELSE 0]
    /\ UNCHANGED <<vars, pe, err>>

(* pmu_start / pmu_stop *)
DoStartStop ==
    /\ \/ Op.k = "start" /\ PmuStart
       \/ Op.k = "stop" /\ PmuStop
    /\ UNCHANGED <<cnt, pe, err>>

(* RUN_N_PACKETS, the nop loop, the HVX packets: committed by main *)
DoPackets ==
    /\ Op.k = "pkts" /\ Commit(0, Op.n, Op.hvx)
    /\ UNCHANGED <<vars, pe, err>>

(* toggle_ssr_pe(enable) *)
DoTogglePe ==
    /\ Op.k = "pe" /\ pe' = Op.b
    /\ UNCHANGED <<vars, cnt, err>>

(* gpmucnt0..7 = r0, c20..c27 = r0: guest and user writes are ignored *)
DoGuestWrite ==
    /\ Op.k = "gwrite"
    /\ UNCHANGED <<vars, cnt, pe, err>>

(* check_range(regnum, type, lo, hi), check_val_range on v[], check();    *)
(* test_committed_pkt_any checks counter 0 against                        *)
(* get_pmu_counter(1) + get_pmu_counter(2).                                *)
DoCheck ==
    /\ \/ Op.k = "check" /\ CheckVal(GetCounter(Op.c, Op.type), Op.lo, Op.hi)
       \/ Op.k = "checkany" /\ LET expect == cnt[1] + cnt[2]
                                IN  CheckVal(cnt[0], expect, ErrBound(expect))
    /\ UNCHANGED <<vars, cnt, pe>>

MainStep ==
    /\ Running
    /\ \/ DoReset \/ DoConfig \/ DoSetCounters \/ DoStartStop \/ DoPackets
       \/ DoTogglePe \/ DoGuestWrite \/ DoCheck
    /\ Next1
    /\ UNCHANGED <<wpc, wtid, warg, spins>>

(* thread_run_blocked(func, stack, tid, arg): the thread is created and    *)
(* released, and main waits in thread_join until it has returned.          *)
ThreadRunBlocked ==
    /\ Running /\ Op.k = "run"
    /\ wpc' = IF Op.func = "work" THEN "start" ELSE "setcnt"
    /\ wtid' = Op.t /\ warg' = Op.arg
    /\ UNCHANGED <<vars, cnt, pe, err, ip, spins>>

(* main's own packets while it spins in the barrier and in thread_join *)
JoinSpin ==
    /\ wpc # "idle" /\ spins < MAX_SPINS
    /\ Commit(0, JOIN_SPIN_PKTS, FALSE)
    /\ spins' = spins + 1
    /\ UNCHANGED <<vars, pe, err, ip, wpc, wtid, warg>>

ThreadJoin ==
    /\ wpc = "done"
    /\ wpc' = "idle" /\ spins' = 0 /\ Next1
    /\ UNCHANGED <<vars, cnt, pe, err, wtid, warg>>

-----------------------------------------------------------------------------
(* The other hardware thread *)
WGo(to) == wpc' = to

(* work(id): pmu_start(); RUN_N_PACKETS((id + 1) * BASE_WORK_COUNT); pmu_stop() *)
WorkStep ==
    \/ wpc = "start" /\ PmuStart /\ WGo("run") /\ UNCHANGED cnt
    \/ wpc = "run" /\ Commit(wtid, (warg + 1) * BASE_WORK_COUNT, FALSE)
                   /\ WGo("stop") /\ UNCHANGED vars
    \/ wpc = "stop" /\ PmuStop /\ WGo("done") /\ UNCHANGED cnt

(* config_thread: pmu_set_counters(100); pmu_config(0, COMMITTED_PKT_T0);  *)
(* pmu_start()                                                             *)
ConfigThreadStep ==
    \/ wpc = "setcnt" /\ cnt' = [c \in Counters |-> 100] /\ WGo("config")
                      /\ UNCHANGED vars
    \/ wpc = "config" /\ PmuConfig(0, COMMITTED_PKT_T(0)) /\ WGo("pmstart")
                      /\ UNCHANGED cnt
    \/ wpc = "pmstart" /\ PmuStart /\ WGo("done") /\ UNCHANGED cnt

Worker ==
    /\ WorkStep \/ ConfigThreadStep
    /\ UNCHANGED <<pe, err, ip, wtid, warg, spins>>

(* main returns after printf("%s\n", err ? "FAIL" : "PASS") *)
Exit ==
    /\ ip > Len(MainProgram)
    /\ UNCHANGED allVars

-----------------------------------------------------------------------------
(* The PMU is reset and stopped at boot, SSR:PE clear. *)
TestInit ==
    /\ Init
    /\ cnt = [c \in Counters |-> 0]
    /\ pe = FALSE /\ err = FALSE
    /\ ip = 1 /\ wpc = "idle" /\ wtid = 1 /\ warg = 0 /\ spins = 0

TestNext ==
    \/ MainStep \/ ThreadRunBlocked \/ JoinSpin \/ ThreadJoin
    \/ Worker \/ Exit

TestSpec == TestInit /\ [][TestNext]_allVars

-----------------------------------------------------------------------------
(* Every check of pmu.c passes: each counter reads back the packets of     *)
(* the thread its event selects, through the system, guest and user views, *)
(* although main keeps committing packets of its own while it waits in    *)
(* thread_run_blocked with the PMU running, and SSR:PE is left over from   *)
(* the previous test.                                                      *)
NoCheckFails == ~err
====
