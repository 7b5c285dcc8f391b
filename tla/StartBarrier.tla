---------------------------- MODULE StartBarrier ----------------------------
(***************************************************************************)
(* The start barrier of thread_common.c / thread_common.h, step by step,   *)
(* driven by the launch sequences of the programs that use it.             *)
(*                                                                         *)
(* The controller (thread 0) runs a launch program of create, start and    *)
(* join operations: create_waiting_thread, start_waiting_threads (a loop   *)
(* waiting for each slot of the mask to read ON_WAIT, then a loop writing  *)
(* GO slot by slot) and thread_join; thread_create_blocked and             *)
(* thread_run_blocked are sequences of these.  A thread runs               *)
(* thread_wrapper: wait_on_semaphore (write ON_WAIT, spin until GO), then  *)
(* its func.  The module is shown to implement ThreadLaunch, where start   *)
(* is one atomic step.                                                     *)
(***************************************************************************)
EXTENDS Integers, Sequences, FiniteSetsExt, SequencesExt

CONSTANTS
    Ids,        \* thread ids the programs name (1..)
    Programs    \* the launch programs the controller may run

Slots == {0} \cup Ids         \* thread_semaphore[] entries used

OFF == 0
ON_WAIT == 1
GO == 2

VARIABLES
    prog,   \* the program the controller runs
    ip,     \* the controller's current operation
    cpc,    \* "exec", or inside start_waiting_threads: "wait", "set"
    cidx,   \* the tid the current loop of start_waiting_threads is at
    sem,    \* thread_semaphore[]
    wpc     \* per thread: "off", "created", "spin", "run", "done"

vars == <<prog, ip, cpc, cidx, sem, wpc>>

Op(kind, ids) == [op |-> kind, ids |-> ids]

-----------------------------------------------------------------------------
(* Launch sequences of the programs that use the barrier *)

(* thread_create_blocked(func, sp, tid, param) *)
CreateBlocked(t) == <<Op("create", {t}), Op("start", {t})>>

(* thread_run_blocked(func, sp, tid, param) *)
RunBlocked(t) == CreateBlocked(t) \o <<Op("join", {t})>>

(* lock_timer_test.c: create_waiting_thread for tids 1..N, then          *)
(* start_waiting_threads and thread_join of (1 << (N + 1)) - 2            *)
LockTimerLaunch(n) ==
    [i \in 1..n |-> Op("create", {i})] \o <<Op("start", 1..n), Op("join", 1..n)>>

(* swi_wait.c: thread_create_blocked for 1..3, later thread_join of each *)
SwiWaitLaunch(n) ==
    FlattenSeq([i \in 1..n |-> CreateBlocked(i)])
    \o [i \in 1..n |-> Op("join", {i})]

(* k0lock-syscfg.c: two create_waiting_thread, start_waiting_threads(0x6) *)
K0SyscfgLaunch ==
    <<Op("create", {1}), Op("create", {2}), Op("start", {1, 2}),
      Op("join", {1}), Op("join", {2})>>

(* pmu.c test_threaded_pkt_count: thread_run_blocked for i = 1..n *)
PmuLaunch(n) == FlattenSeq([i \in 1..n |-> RunBlocked(i)])

-----------------------------------------------------------------------------
Goto(t, to) == wpc' = [wpc EXCEPT ![t] = to]

(* wait_on_semaphore(): thread_semaphore[htid] = ON_WAIT *)
WaitOnSemaphoreArrive(t) ==
    /\ wpc[t] = "created"
    /\ sem' = [sem EXCEPT ![t] = ON_WAIT]
    /\ Goto(t, "spin")
    /\ UNCHANGED <<prog, ip, cpc, cidx>>

(* wait_on_semaphore(): while (thread_semaphore[htid] != GO) pause *)
WaitOnSemaphoreGo(t) ==
    /\ wpc[t] = "spin"
    /\ sem[t] = GO
    /\ Goto(t, "run")
    /\ UNCHANGED <<prog, ip, cpc, cidx, sem>>

(* work->func(work->param); free(work): the thread ends *)
RunFunc(t) ==
    /\ wpc[t] = "run"
    /\ Goto(t, "done")
    /\ UNCHANGED <<prog, ip, cpc, cidx, sem>>

Thread(t) == WaitOnSemaphoreArrive(t) \/ WaitOnSemaphoreGo(t) \/ RunFunc(t)

-----------------------------------------------------------------------------
CurOp == prog[ip]

(* remove_myself(mask): the slots the wait loop visits *)
WaitMask == CurOp.ids \ {0}

(* The first tid of mask above i: the loops run tid = 0..31 upwards and   *)
(* act only on the tids of the mask.                                       *)
NextTid(mask, i) == Min({t \in mask : t > i})

Next1(mask, i) == {t \in mask : t > i} # {}

(* create_waiting_thread: thread_semaphore[tid] = OFF; thread_create() *)
CreateWaitingThread ==
    /\ cpc = "exec" /\ ip <= Len(prog) /\ CurOp.op = "create"
    /\ \E t \in CurOp.ids :
         /\ sem' = [sem EXCEPT ![t] = OFF]
         /\ Goto(t, "created")
    /\ ip' = ip + 1
    /\ UNCHANGED <<prog, cpc, cidx>>

(* start_waiting_threads(mask): enter wait_semaphore_state *)
StartWaitingThreads ==
    /\ cpc = "exec" /\ ip <= Len(prog) /\ CurOp.op = "start"
    /\ IF WaitMask # {} THEN cpc' = "wait" /\ cidx' = Min(WaitMask)
                        ELSE cpc' = "set" /\ cidx' = Min(CurOp.ids)
    /\ UNCHANGED <<prog, ip, sem, wpc>>

(* Mutant: the wait loop stops before the last tid of the mask. *)
WaitSemaphoreStateSkipLast ==
    /\ cpc = "wait"
    /\ sem[cidx] = ON_WAIT
    /\ IF Next1(WaitMask, cidx) /\ NextTid(WaitMask, cidx) # Max(WaitMask)
         THEN cidx' = NextTid(WaitMask, cidx) /\ UNCHANGED cpc
         ELSE cpc' = "set" /\ cidx' = Min(CurOp.ids)
    /\ UNCHANGED <<prog, ip, sem, wpc>>

(* wait_semaphore_state(mask, ON_WAIT): spin on slot tid until ON_WAIT,   *)
(* then the next tid of the mask; after the last, set_semaphore_state.    *)
WaitSemaphoreState ==
    /\ cpc = "wait"
    /\ sem[cidx] = ON_WAIT
    /\ IF Next1(WaitMask, cidx)
         THEN cidx' = NextTid(WaitMask, cidx) /\ UNCHANGED cpc
         ELSE cpc' = "set" /\ cidx' = Min(CurOp.ids)
    /\ UNCHANGED <<prog, ip, sem, wpc>>

(* set_semaphore_state(mask, GO): one slot per iteration; the operation   *)
(* ends after the last.                                                    *)
SetSemaphoreState ==
    /\ cpc = "set"
    /\ sem' = [sem EXCEPT ![cidx] = GO]
    /\ IF Next1(CurOp.ids, cidx)
         THEN cidx' = NextTid(CurOp.ids, cidx) /\ UNCHANGED <<cpc, ip>>
         ELSE cpc' = "exec" /\ ip' = ip + 1 /\ UNCHANGED cidx
    /\ UNCHANGED <<prog, wpc>>

(* thread_join(mask) *)
ThreadJoin ==
    /\ cpc = "exec" /\ ip <= Len(prog) /\ CurOp.op = "join"
    /\ \A t \in CurOp.ids : wpc[t] = "done"
    /\ ip' = ip + 1
    /\ UNCHANGED <<prog, cpc, cidx, sem, wpc>>

Controller ==
    \/ CreateWaitingThread \/ StartWaitingThreads \/ WaitSemaphoreState
    \/ SetSemaphoreState \/ ThreadJoin

(* The program has returned. *)
Finished == cpc = "exec" /\ ip > Len(prog) /\ UNCHANGED vars

-----------------------------------------------------------------------------
Init ==
    /\ prog \in Programs
    /\ ip = 1 /\ cpc = "exec" /\ cidx = 0
    /\ sem = [s \in Slots |-> OFF]
    /\ wpc = [t \in Ids |-> "off"]

Next == Controller \/ (\E t \in Ids : Thread(t)) \/ Finished

(* Every hardware thread that can step eventually does. *)
Fairness == WF_vars(Controller) /\ \A t \in Ids : WF_vars(Thread(t))

Spec == Init /\ [][Next]_vars /\ Fairness

-----------------------------------------------------------------------------
(* The refinement mapping.  The abstract start happens when the wait loop  *)
(* has seen every thread of the mask at ON_WAIT: from then on the threads  *)
(* of the mask count as released, the GO writes that follow and the        *)
(* threads leaving their spin are internal steps.                          *)
Released(t) ==
    \/ wpc[t] = "run"
    \/ wpc[t] = "spin" /\ (sem[t] = GO \/ (cpc = "set" /\ t \in CurOp.ids))

AbsSt == [t \in Ids |->
            CASE wpc[t] = "off"      -> "off"
              [] wpc[t] = "created"  -> "created"
              [] Released(t)         -> "go"
              [] wpc[t] = "spin"     -> "waiting"
              [] wpc[t] = "done"     -> "done"]

AbsIp == IF cpc = "set" THEN ip + 1 ELSE ip

Launch == INSTANCE ThreadLaunch WITH st <- AbsSt, ip <- AbsIp

(* The barrier implements its contract: no thread of a start mask runs     *)
(* before every one of them has announced ON_WAIT, a created thread        *)
(* reaches its wait point, the threads of the mask are released, and every *)
(* launch program runs to its end, for the launch sequences of             *)
(* lock_timer_test.c, swi_wait.c, k0lock-syscfg.c and pmu.c.               *)
ImplementsThreadLaunch == Launch!LaunchSpec
=============================================================================
