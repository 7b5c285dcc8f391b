---------------------------- MODULE LockTimerTest ----------------------------
(***************************************************************************)
(* The lock/timer stress test of lock_timer_test.c together with the start *)
(* barrier of thread_common.c it launches its workers through.             *)
(*                                                                         *)
(* Thread 0 is the controller (main / run_lock_test); threads 1..N are the *)
(* workers (thread_wrapper + thread_func).  Each phase tests one global    *)
(* hardware lock (k0lock, then tlblock): the controller resets the shared  *)
(* state, creates the workers waiting, releases them through the barrier,  *)
(* routes the interrupt lines away from itself, raises software            *)
(* interrupts while the workers contend for the lock, stops them, joins    *)
(* them and checks the interrupt counts and the recorded intervals.        *)
(***************************************************************************)
EXTENDS Integers, FiniteSets, Functions, OverlapCheck

CONSTANTS
    N,               \* N_THREADS: worker thread ids are 1..N
    RoundsPerThread, \* ROUNDS_PER_THREAD
    Lines,           \* interrupt numbers 0..MAX_INT_NUM-1
    MinTotalInts,    \* the "greater than 10" threshold of the count checks
    Phases,          \* lock phases run by main(): k0lock, then tlblock
    MaxSwi           \* bound on swi_issued_count (the controller's loop is unbounded)

ASSUME N \in Nat \ {0} /\ RoundsPerThread \in Nat \ {0}
ASSUME Lines # {} /\ MinTotalInts \in Nat /\ Phases \in 1..2 /\ MaxSwi \in Nat \ {0}

Workers == 1..N
Tids    == 0..N                        \* 0 is the controller
Quota   == N * RoundsPerThread         \* size of lock_records[]
Slots   == 0..(Quota - 1)
NoTid   == -1

(* thread_semaphore[] values, thread_common.h *)
OFF == 0
ON_WAIT == 1
GO == 2

NoRecord == [start |-> 0, end |-> 0, tid |-> 0]   \* memset() zero record

VARIABLES
    sem,          \* thread_semaphore[tid]
    wpc,          \* program counter of each worker thread
    myRound,      \* thread_func local: round
    tStart,       \* thread_func local: start_time
    tEnd,         \* thread_func local: end_time
    counter,      \* global_round_counter
    records,      \* lock_records[]
    lockHolder,   \* the hardware lock under test: holding thread or NoTid
    testComplete, \* test_complete
    now,          \* the last value read from the QTimer (monotonic)
    pending,      \* interrupt lines raised by swi() and not yet taken
    disabled,     \* iassignw: per line, the threads it is not routed to
    imask,        \* per thread, the lines masked by set_thread_imask
    byIrq,        \* ints_by_irq[]
    byTid,        \* ints_by_tid[]
    swiIssued,    \* swi_issued_count
    cpc,          \* program counter of the controller
    cidx,         \* the controller's loop index over thread ids
    phase,        \* which lock is under test
    result,       \* run_lock_test's verdict per phase
    aborted       \* abort() / failed assert(): the whole program stops

workerVars == <<sem, wpc, myRound, tStart, tEnd, counter, records, lockHolder, now>>
intVars    == <<pending, disabled, imask, byIrq, byTid, swiIssued>>
ctlVars    == <<testComplete, cpc, cidx, phase, result, aborted>>
vars       == <<workerVars, intVars, ctlVars>>

WorkerStates == {"off", "created", "spin", "loop", "lock", "claim", "brk",
                 "t_start", "t_end", "unlock", "record", "done"}
CtlStates == {"arm", "create", "wait_sem", "set_go", "assign", "swi_loop",
              "wait_ints", "complete", "join", "check", "finished"}
Verdicts == {"none", "pass", "main_int", "worker_no_int", "few_ints",
             "tid_irq_mismatch", "overlap", "undefined"}

-----------------------------------------------------------------------------
(* Interrupt delivery (the platform).  A line is taken by one thread that  *)
(* is running, has not masked it and is not excluded by iassignw; the     *)
(* handler runs on that thread.                                            *)
Running(t) == IF t = 0 THEN TRUE ELSE wpc[t] \notin {"off", "done"}

Eligible(t, l) == Running(t) /\ l \notin imask[t] /\ t \notin disabled[l]

(* The hardware takes a deliverable interrupt at the next instruction     *)
(* boundary: a thread with one pending for it does not step first.         *)
NoneDeliverable(t) == \A l \in pending : ~Eligible(t, l)

(* interrupt_handler(intno) on thread t *)
InterruptHandler(l, t) ==
    /\ l \in pending
    /\ Eligible(t, l)
    /\ pending' = pending \ {l}
    /\ byIrq' = [byIrq EXCEPT ![l] = @ + 1]
    /\ byTid' = [byTid EXCEPT ![t] = @ + 1]
    /\ UNCHANGED <<workerVars, disabled, imask, swiIssued, ctlVars>>

-----------------------------------------------------------------------------
(* Worker threads *)
Goto(t, to) == wpc' = [wpc EXCEPT ![t] = to]

(* wait_on_semaphore(), first half: announce arrival at the barrier. *)
WaitOnSemaphoreArrive(t) ==
    /\ wpc[t] = "created"
    /\ sem' = [sem EXCEPT ![t] = ON_WAIT]
    /\ Goto(t, "spin")
    /\ UNCHANGED <<myRound, tStart, tEnd, counter, records, lockHolder, now>>

(* wait_on_semaphore(), second half: leave once released, call func. *)
WaitOnSemaphoreGo(t) ==
    /\ wpc[t] = "spin"
    /\ sem[t] = GO
    /\ Goto(t, "loop")
    /\ UNCHANGED <<sem, myRound, tStart, tEnd, counter, records, lockHolder, now>>

(* while (!test_complete): on exit thread_func returns and the thread ends *)
LoopTest(t) ==
    /\ wpc[t] = "loop"
    /\ Goto(t, IF testComplete THEN "done" ELSE "lock")
    /\ UNCHANGED <<sem, myRound, tStart, tEnd, counter, records, lockHolder, now>>

(* Mutant: a lock that does not wait for its holder to release it. *)
LockFuncNoWait(t) ==
    /\ wpc[t] = "lock"
    /\ lockHolder' = t
    /\ Goto(t, "claim")
    /\ UNCHANGED <<sem, myRound, tStart, tEnd, counter, records, now>>

(* current_lock_ops->lock_func(): blocks while another thread holds it *)
LockFunc(t) ==
    /\ wpc[t] = "lock"
    /\ lockHolder = NoTid
    /\ lockHolder' = t
    /\ Goto(t, "claim")
    /\ UNCHANGED <<sem, myRound, tStart, tEnd, counter, records, now>>

(* round = __sync_fetch_and_add(&global_round_counter, 1), then the quota test *)
ClaimRound(t) ==
    /\ wpc[t] = "claim"
    /\ myRound' = [myRound EXCEPT ![t] = counter]
    /\ counter' = counter + 1
    /\ Goto(t, IF counter >= Quota THEN "brk" ELSE "t_start")
    /\ UNCHANGED <<sem, tStart, tEnd, records, lockHolder, now>>

(* quota exhausted: unlock_func() and break *)
BreakUnlock(t) ==
    /\ wpc[t] = "brk"
    /\ lockHolder' = NoTid
    /\ Goto(t, "done")
    /\ UNCHANGED <<sem, myRound, tStart, tEnd, counter, records, now>>

(* A QTimer read returns the last value read or a later one; one tick     *)
(* between reads stands for any positive gap.                             *)
TimerValues == {now, now + 1}

(* start_time = timer_read_pair() *)
ReadStartTime(t) ==
    /\ wpc[t] = "t_start"
    /\ \E v \in TimerValues :
         /\ tStart' = [tStart EXCEPT ![t] = v]
         /\ now' = v
    /\ Goto(t, "t_end")
    /\ UNCHANGED <<sem, myRound, tEnd, counter, records, lockHolder>>

(* do_work(); end_time = timer_read_pair(); a zero duration aborts *)
ReadEndTime(t) ==
    /\ wpc[t] = "t_end"
    /\ \E v \in TimerValues :
         /\ tEnd' = [tEnd EXCEPT ![t] = v]
         /\ now' = v
         /\ IF v - tStart[t] = 0
              THEN aborted' = "clock" /\ UNCHANGED wpc
              ELSE Goto(t, "unlock") /\ UNCHANGED aborted
    /\ UNCHANGED <<sem, myRound, tStart, counter, records, lockHolder>>

(* current_lock_ops->unlock_func() *)
UnlockFunc(t) ==
    /\ wpc[t] = "unlock"
    /\ lockHolder' = NoTid
    /\ Goto(t, "record")
    /\ UNCHANGED <<sem, myRound, tStart, tEnd, counter, records, now>>

(* lock_records[round] = {start_time, end_time, thread_id, round} *)
RecordTiming(t) ==
    /\ wpc[t] = "record"
    /\ records' = [records EXCEPT ![myRound[t]] =
                     [start |-> tStart[t], end |-> tEnd[t], tid |-> t]]
    /\ Goto(t, "loop")
    /\ UNCHANGED <<sem, myRound, tStart, tEnd, counter, lockHolder, now>>

WorkerCtl(t) ==
    \/ LoopTest(t) \/ LockFunc(t) \/ ClaimRound(t) \/ BreakUnlock(t)
    \/ ReadStartTime(t) \/ UnlockFunc(t) \/ RecordTiming(t)

Worker(t) ==
    /\ NoneDeliverable(t)
    /\ \/ (WaitOnSemaphoreArrive(t) \/ WaitOnSemaphoreGo(t) \/ WorkerCtl(t))
          /\ UNCHANGED <<intVars, ctlVars>>
       \/ ReadEndTime(t) /\ UNCHANGED <<intVars, testComplete, cpc, cidx, phase, result>>

-----------------------------------------------------------------------------
(* The controller: run_lock_test(), called once per phase by main(). *)
CtlGoto(to) == cpc' = to

(* reset_test_state(); register_interrupt() for every line;              *)
(* set_thread_imask(ALL_INTERRUPTS_MASK) masks every line on thread 0.   *)
ResetTestState ==
    /\ cpc = "arm"
    /\ swiIssued' = 0
    /\ counter' = 0
    /\ testComplete' = FALSE
    /\ byIrq' = [l \in Lines |-> 0]
    /\ byTid' = [t \in Tids |-> 0]
    /\ records' = [r \in Slots |-> NoRecord]
    /\ imask' = [imask EXCEPT ![0] = Lines]
    /\ CtlGoto("create") /\ cidx' = 1
    /\ UNCHANGED <<sem, wpc, myRound, tStart, tEnd, lockHolder, now,
                   pending, disabled, phase, result, aborted>>

(* create_waiting_thread(thread_func, ..., i + 1, ...) for i = 0..N-1:   *)
(* thread_semaphore[tid] = OFF, then thread_create(thread_wrapper, ...). *)
CreateWaitingThread ==
    /\ cpc = "create"
    /\ sem' = [sem EXCEPT ![cidx] = OFF]
    /\ wpc' = [wpc EXCEPT ![cidx] = "created"]
    /\ myRound' = [myRound EXCEPT ![cidx] = 0]
    /\ tStart' = [tStart EXCEPT ![cidx] = 0]
    /\ tEnd' = [tEnd EXCEPT ![cidx] = 0]
    /\ IF cidx = N THEN CtlGoto("wait_sem") /\ cidx' = 1
                   ELSE UNCHANGED cpc /\ cidx' = cidx + 1
    /\ UNCHANGED <<counter, records, lockHolder, now, intVars,
                   testComplete, phase, result, aborted>>

(* Mutant: the wait loop stops one thread short of the mask. *)
WaitSemaphoreStateSkipLast ==
    /\ cpc = "wait_sem"
    /\ sem[cidx] = ON_WAIT
    /\ IF cidx >= N - 1 THEN CtlGoto("set_go") /\ cidx' = 1
                       ELSE UNCHANGED cpc /\ cidx' = cidx + 1
    /\ UNCHANGED <<workerVars, intVars, testComplete, phase, result, aborted>>

(* start_waiting_threads(mask), first loop (wait_semaphore_state): spin  *)
(* on each thread of the mask in turn until it is ON_WAIT.  The mask     *)
(* (1 << (N + 1)) - 2 never holds thread 0, so remove_myself removes     *)
(* nothing.                                                              *)
WaitSemaphoreState ==
    /\ cpc = "wait_sem"
    /\ sem[cidx] = ON_WAIT
    /\ IF cidx = N THEN CtlGoto("set_go") /\ cidx' = 1
                   ELSE UNCHANGED cpc /\ cidx' = cidx + 1
    /\ UNCHANGED <<workerVars, intVars, testComplete, phase, result, aborted>>

(* Mutant: the release loop runs one index past the mask. *)
SetSemaphoreStatePastEnd ==
    /\ cpc = "set_go"
    /\ sem' = [sem EXCEPT ![cidx] = GO]
    /\ IF cidx > N THEN CtlGoto("assign") /\ cidx' = 1
                   ELSE UNCHANGED cpc /\ cidx' = cidx + 1
    /\ UNCHANGED <<wpc, myRound, tStart, tEnd, counter, records, lockHolder, now,
                   intVars, testComplete, phase, result, aborted>>

(* Mutant: the release loop stops one thread short of the mask. *)
SetSemaphoreStateSkipLast ==
    /\ cpc = "set_go"
    /\ sem' = [sem EXCEPT ![cidx] = GO]
    /\ IF cidx >= N - 1 THEN CtlGoto("assign") /\ cidx' = 1
                       ELSE UNCHANGED cpc /\ cidx' = cidx + 1
    /\ UNCHANGED <<wpc, myRound, tStart, tEnd, counter, records, lockHolder, now,
                   intVars, testComplete, phase, result, aborted>>

(* start_waiting_threads(mask), second loop (set_semaphore_state): GO is *)
(* written thread by thread, so early threads run before later ones are *)
(* released.                                                             *)
SetSemaphoreState ==
    /\ cpc = "set_go"
    /\ sem' = [sem EXCEPT ![cidx] = GO]
    /\ IF cidx = N THEN CtlGoto("assign") /\ cidx' = 1
                   ELSE UNCHANGED cpc /\ cidx' = cidx + 1
    /\ UNCHANGED <<wpc, myRound, tStart, tEnd, counter, records, lockHolder, now,
                   intVars, testComplete, phase, result, aborted>>

(* iassignw(i, 1 << 0) for every line: no line is routed to thread 0. *)
AssignInterrupts ==
    /\ cpc = "assign"
    /\ disabled' = [l \in Lines |-> {0}]
    /\ CtlGoto("swi_loop")
    /\ UNCHANGED <<workerVars, pending, imask, byIrq, byTid, swiIssued,
                   testComplete, cidx, phase, result, aborted>>

(* while (global_round_counter < ROUNDS_PER_THREAD) { swi(ALL); swi_issued_count++; ... } *)
SwiLoop ==
    /\ cpc = "swi_loop"
    /\ \/ /\ counter < RoundsPerThread
          /\ swiIssued < MaxSwi
          /\ pending' = pending \cup Lines
          /\ swiIssued' = swiIssued + 1
          /\ CtlGoto("wait_ints")
       \/ /\ counter >= RoundsPerThread
          /\ CtlGoto("complete")
          /\ UNCHANGED <<pending, swiIssued>>
    /\ UNCHANGED <<workerVars, disabled, imask, byIrq, byTid,
                   testComplete, cidx, phase, result, aborted>>

(* Mutant: pacing waits for the interrupts of the previous swi only. *)
WaitForIntCountEarly ==
    /\ cpc = "wait_ints"
    /\ SumFunction(byTid) >= (swiIssued - 1) * Cardinality(Lines)
    /\ CtlGoto("swi_loop")
    /\ UNCHANGED <<workerVars, intVars, testComplete, cidx, phase, result, aborted>>

(* Mutant: pacing waits for one interrupt more than was raised. *)
WaitForIntCountLate ==
    /\ cpc = "wait_ints"
    /\ SumFunction(byTid) > swiIssued * Cardinality(Lines)
    /\ CtlGoto("swi_loop")
    /\ UNCHANGED <<workerVars, intVars, testComplete, cidx, phase, result, aborted>>

(* wait_for_int_count(swi_issued_count * MAX_INT_NUM): total_int_count() *)
(* sums ints_by_tid[]; the counters only grow, so reading the sum at     *)
(* once admits every value the entry-by-entry loop can see pass.         *)
WaitForIntCount ==
    /\ cpc = "wait_ints"
    /\ SumFunction(byTid) >= swiIssued * Cardinality(Lines)
    /\ CtlGoto("swi_loop")
    /\ UNCHANGED <<workerVars, intVars, testComplete, cidx, phase, result, aborted>>

(* test_complete = true *)
SignalComplete ==
    /\ cpc = "complete"
    /\ testComplete' = TRUE
    /\ CtlGoto("join")
    /\ UNCHANGED <<workerVars, intVars, cidx, phase, result, aborted>>

(* Mutant: a join mask that leaves out the last worker. *)
ThreadJoinMissingLast ==
    /\ cpc = "join"
    /\ \A t \in 1..(N - 1) : wpc[t] = "done"
    /\ CtlGoto("check")
    /\ UNCHANGED <<workerVars, intVars, testComplete, cidx, phase, result, aborted>>

(* thread_join((1 << (N_THREADS + 1)) - 2) *)
ThreadJoin ==
    /\ cpc = "join"
    /\ \A t \in Workers : wpc[t] = "done"
    /\ CtlGoto("check")
    /\ UNCHANGED <<workerVars, intVars, testComplete, cidx, phase, result, aborted>>

(* verify_no_overlaps() sorts and scans global_round_counter records.  When *)
(* that exceeds the size of lock_records[], qsort reads and writes past the *)
(* array: the verdict is undefined.                                         *)
OverlapVerdicts ==
    IF counter > Quota THEN {"undefined"}
    ELSE { IF ok THEN "pass" ELSE "overlap" : ok \in VerifyNoOverlaps(records, counter) }

(* The checks after the join, in the order run_lock_test makes them. *)
CountVerdict ==
    LET totalTid == SumFunction(byTid)
        totalIrq == SumFunction(byIrq)
    IN CASE byTid[0] # 0                                     -> "main_int"
         [] \E w \in Workers : byTid[w] = 0                  -> "worker_no_int"
         [] totalTid <= MinTotalInts \/ totalIrq <= MinTotalInts -> "few_ints"
         [] totalTid # totalIrq                              -> "tid_irq_mismatch"
         [] OTHER                                            -> "pass"

(* The verification tail of run_lock_test and main()'s move to the next phase. *)
CheckResults ==
    /\ cpc = "check"
    /\ IF SumFunction(byTid) # swiIssued * Cardinality(Lines)
         THEN aborted' = "assert" /\ UNCHANGED <<cpc, phase, result>>
         ELSE /\ \E v \in IF CountVerdict # "pass" THEN {CountVerdict} ELSE OverlapVerdicts :
                   result' = [result EXCEPT ![phase] = v]
              /\ IF phase < Phases THEN phase' = phase + 1 /\ CtlGoto("arm")
                                   ELSE CtlGoto("finished") /\ UNCHANGED phase
              /\ UNCHANGED aborted
    /\ UNCHANGED <<workerVars, intVars, testComplete, cidx>>

Controller ==
    /\ NoneDeliverable(0)
    /\ \/ ResetTestState \/ CreateWaitingThread \/ WaitSemaphoreState
       \/ SetSemaphoreState \/ AssignInterrupts \/ SwiLoop \/ WaitForIntCount
       \/ SignalComplete \/ ThreadJoin \/ CheckResults

-----------------------------------------------------------------------------
Init ==
    /\ sem = [t \in Tids |-> OFF]
    /\ wpc = [t \in Workers |-> "off"]
    /\ myRound = [t \in Workers |-> 0]
    /\ tStart = [t \in Workers |-> 0]
    /\ tEnd = [t \in Workers |-> 0]
    /\ counter = 0
    /\ records = [r \in Slots |-> NoRecord]
    /\ lockHolder = NoTid
    /\ testComplete = FALSE
    /\ now = 0
    /\ pending = {}
    /\ disabled = [l \in Lines |-> {}]
    /\ imask = [t \in Tids |-> {}]
    /\ byIrq = [l \in Lines |-> 0]
    /\ byTid = [t \in Tids |-> 0]
    /\ swiIssued = 0
    /\ cpc = "arm"
    /\ cidx = 1
    /\ phase = 1
    /\ result = [p \in 1..Phases |-> "none"]
    /\ aborted = "no"

(* main() returned, or abort() stopped the program. *)
Terminated ==
    /\ cpc = "finished" \/ aborted # "no"
    /\ UNCHANGED vars

Next ==
    \/ /\ aborted = "no"
       /\ \/ \E t \in Workers : Worker(t)
          \/ Controller
          \/ \E l \in Lines, t \in Tids : InterruptHandler(l, t)
    \/ Terminated

(* Hardware threads run in parallel, so every thread that can step         *)
(* eventually does; a raised line is eventually taken while some thread    *)
(* can take it.                                                            *)
Fairness ==
    /\ \A t \in Workers : WF_vars(Worker(t))
    /\ WF_vars(Controller)
    /\ \A l \in Lines : WF_vars(\E t \in Tids : InterruptHandler(l, t))

Spec == Init /\ [][Next]_vars /\ Fairness

-----------------------------------------------------------------------------
TypeOK ==
    /\ sem \in [Tids -> {OFF, ON_WAIT, GO}]
    /\ wpc \in [Workers -> WorkerStates]
    /\ myRound \in [Workers -> Nat] /\ tStart \in [Workers -> Nat] /\ tEnd \in [Workers -> Nat]
    /\ counter \in 0..(Quota + N)
    /\ records \in [Slots -> [start : Nat, end : Nat, tid : Tids]]
    /\ lockHolder \in Tids \cup {NoTid}
    /\ testComplete \in BOOLEAN /\ now \in Nat
    /\ pending \subseteq Lines
    /\ disabled \in [Lines -> SUBSET Tids] /\ imask \in [Tids -> SUBSET Lines]
    /\ byIrq \in [Lines -> 0..MaxSwi] /\ byTid \in [Tids -> 0..(MaxSwi * Cardinality(Lines))]
    /\ swiIssued \in 0..MaxSwi
    /\ cpc \in CtlStates /\ cidx \in Workers /\ phase \in 1..Phases
    /\ result \in [1..Phases -> Verdicts]
    /\ aborted \in {"no", "clock", "assert"}

-----------------------------------------------------------------------------
(* Safety *)

(* Mutual exclusion as the harness sees it: with a lock that excludes, no  *)
(* phase of run_lock_test ever reports an overlap of the recorded          *)
(* intervals.  It needs the timer reads inside the lock, the record write  *)
(* after it, the abort on a zero duration (an empty interval sorts either  *)
(* side of one that starts with it) and the sort+scan of                   *)
(* verify_no_overlaps to agree.                                            *)
NoOverlapReported == \A p \in 1..Phases : result[p] # "overlap"

(* No software interrupt is lost or counted twice: every line has been     *)
(* taken once per swi() of this phase except the one still pending, and    *)
(* the per-thread and per-line tables agree.  It fails if the controller   *)
(* raised a line again before the last raise of it was taken (swi() would  *)
(* merge the two), i.e. if wait_for_int_count paces wrongly, or if a phase *)
(* inherits counts from the previous one.                                  *)
InterruptConservation ==
    /\ \A l \in Lines : byIrq[l] + (IF l \in pending THEN 1 ELSE 0) = swiIssued
    /\ SumFunction(byTid) = SumFunction(byIrq)

(* The start barrier: no worker runs thread_func before every worker of    *)
(* the start mask has reached wait_on_semaphore (start_waiting_threads).   *)
PastBarrier == {"loop", "lock", "claim", "brk", "t_start", "t_end", "unlock", "record"}

BarrierReleasesTogether ==
    \A t \in Workers : wpc[t] \in PastBarrier =>
        \A u \in Workers : wpc[u] \notin {"off", "created"}

(* When run_lock_test verifies the log, every round below                  *)
(* global_round_counter that fits in lock_records[] has been recorded:    *)
(* thread_join waited for every record write, which happens after unlock. *)
RecordsComplete ==
    cpc = "check" => \A r \in Slots : r < counter => records[r] # NoRecord

-----------------------------------------------------------------------------
(* Liveness *)

(* Every worker waiting at the barrier is eventually released (or the     *)
(* program aborted).                                                      *)
BarrierEventuallyReleases ==
    \A t \in Workers : wpc[t] = "spin" ~> (wpc[t] # "spin" \/ aborted # "no")

(* The harness finishes both phases (or aborts): the interrupt pacing loop *)
(* and the join never wait forever.                                       *)
HarnessTerminates == <>(cpc = "finished" \/ aborted # "no")

-----------------------------------------------------------------------------
(* Statements of the spec the code is checked against *)

(* Round completeness (spec 8.2, 8.6): when the log is verified it holds   *)
(* exactly N_THREADS * ROUNDS_PER_THREAD records.                          *)
RoundsComplete == cpc = "check" => counter = Quota

(* verify_no_overlaps sorts global_round_counter records: that count must  *)
(* not exceed the N_THREADS * ROUNDS_PER_THREAD entries of lock_records[]. *)
RecordsWithinArray == cpc = "check" => counter <= Quota

(* With a lock that excludes, run_lock_test passes (spec 8.4, 8.6: every   *)
(* worker thread receives interrupts, the controller none).                *)
CorrectLockPasses == \A p \in 1..Phases : result[p] \in {"none", "pass"}
=============================================================================
