------------------------------ MODULE SwiWait ------------------------------
(***************************************************************************)
(* The wait-mode software-interrupt test of swi_wait.c.                    *)
(*                                                                         *)
(* Thread 0 (main) masks every line on itself, launches WAIT_THREAD_COUNT  *)
(* wait threads one by one with thread_create_blocked, and runs three      *)
(* scenarios: swi(ALL) while interrupts are on; swi(ALL) while they are    *)
(* globally disabled, then enabled; swi(ALL) while iassignw routes every   *)
(* line away from every thread, then routes them to the wait threads.      *)
(* After each, wait_for_ints_delivered(n) waits for every line to have     *)
(* been handled n times and for the wait threads to have woken n times.   *)
(* Then it checks the counts, clears tasks_enabled, keeps raising line 0   *)
(* (wait_for_wait) until no wait thread is in wait mode, and joins them.   *)
(* A wait thread loops: wait(), which an interrupt ends once its handler   *)
(* has run, then times_woken[id]++.                                        *)
(***************************************************************************)
EXTENDS Integers, FiniteSets, Functions

CONSTANTS
    W,       \* WAIT_THREAD_COUNT: wait thread ids are 1..W
    Lines    \* interrupt numbers 0..MAX_INT_NUM-1; line 0 is the teardown line

ASSUME W \in Nat \ {0} /\ 0 \in Lines /\ Lines \subseteq Nat

WaitTids  == 1..W
Tids      == 0..W
Scenarios == 1..3        \* the three "waiting for wake #n" scenarios of main()

OFF == 0
ON_WAIT == 1
GO == 2

VARIABLES
    sem,          \* thread_semaphore[tid]
    wpc,          \* program counter of each wait thread
    timesWoken,   \* times_woken[]
    tasksEnabled, \* tasks_enabled
    pending,      \* lines raised by swi() and not yet taken
    gie,          \* SYSCFG global interrupt enable (global_int_disable/enable)
    disabled,     \* iassignw: per line, the threads it is not routed to
    byIrq,        \* ints_by_irq[]
    byTid,        \* ints_by_tid[]
    cpc,          \* program counter of main
    cidx,         \* main's loop index over wait thread ids
    scenario,     \* the n of the scenario main is in
    wsum,         \* wait_for_ints_delivered local: times_woken_sum
    waitMask,     \* wait_for_wait local: wait_mask
    aborted       \* a failed assert() stopped the program

vars == <<sem, wpc, timesWoken, tasksEnabled, pending, gie, disabled, byIrq,
          byTid, cpc, cidx, scenario, wsum, waitMask, aborted>>

ThreadStates == {"off", "created", "spin", "loop", "wait_insn", "waiting",
                 "woken", "done"}
MainStates == {"create", "ct_wait", "ct_go", "wft", "disable", "mask", "swi",
               "enable", "unmask", "delivered", "sum", "spin", "asserts",
               "teardown", "ww_read", "ww_swi", "join", "finished"}

-----------------------------------------------------------------------------
(* Interrupt delivery *)

(* Mutant: main never masks the lines on itself. *)
ImaskUnset(t) == {}

(* set_thread_imask(ALL_INTERRUPTS_MASK) on thread 0 before any thread is  *)
(* created; the wait threads never set theirs.                            *)
Imask(t) == IF t = 0 THEN Lines ELSE {}

Running(t) == IF t = 0 THEN TRUE ELSE wpc[t] \notin {"off", "done"}

(* A thread in wait mode is running for delivery: the interrupt wakes it. *)
Eligible(t, l) == gie /\ Running(t) /\ l \notin Imask(t) /\ t \notin disabled[l]

(* The hardware takes a deliverable interrupt at the next instruction     *)
(* boundary: a thread with one pending for it does not step first.         *)
NoneDeliverable(t) == \A l \in pending : ~Eligible(t, l)

(* interrupt_handler(intno) on thread t: the two increments under k0lock,  *)
(* which makes them atomic against the handlers of other threads; a        *)
(* thread in wait mode leaves it once the handler returns.  Once           *)
(* tasks_enabled is cleared main never reads the counts again, and the     *)
(* model stops counting (they would grow with every teardown swi).         *)
InterruptHandler(l, t) ==
    /\ l \in pending
    /\ Eligible(t, l)
    /\ pending' = pending \ {l}
    /\ IF tasksEnabled
         THEN /\ byIrq' = [byIrq EXCEPT ![l] = @ + 1]
              /\ byTid' = [byTid EXCEPT ![t] = @ + 1]
         ELSE UNCHANGED <<byIrq, byTid>>
    /\ wpc' = IF t # 0 /\ wpc[t] = "waiting" THEN [wpc EXCEPT ![t] = "woken"] ELSE wpc
    /\ UNCHANGED <<sem, timesWoken, tasksEnabled, gie, disabled, cpc, cidx,
                   scenario, wsum, waitMask, aborted>>

-----------------------------------------------------------------------------
(* Wait threads: thread_wrapper + wait_thread *)
Goto(t, to) == wpc' = [wpc EXCEPT ![t] = to]

(* wait_on_semaphore(): announce arrival, then spin until GO *)
WaitOnSemaphoreArrive(t) ==
    /\ wpc[t] = "created"
    /\ sem' = [sem EXCEPT ![t] = ON_WAIT]
    /\ Goto(t, "spin")
    /\ UNCHANGED timesWoken

WaitOnSemaphoreGo(t) ==
    /\ wpc[t] = "spin"
    /\ sem[t] = GO
    /\ Goto(t, "loop")
    /\ UNCHANGED <<sem, timesWoken>>

(* while (tasks_enabled): on exit wait_thread returns and the thread ends *)
LoopTest(t) ==
    /\ wpc[t] = "loop"
    /\ Goto(t, IF tasksEnabled THEN "wait_insn" ELSE "done")
    /\ UNCHANGED <<sem, timesWoken>>

(* wait_for_interrupts(): the thread enters wait mode *)
WaitForInterrupts(t) ==
    /\ wpc[t] = "wait_insn"
    /\ Goto(t, "waiting")
    /\ UNCHANGED <<sem, timesWoken>>

(* Mutant: a wait thread that returns after its first wake. *)
CountWakeExits(t) ==
    /\ wpc[t] = "woken"
    /\ timesWoken' = [timesWoken EXCEPT ![t] = @ + 1]
    /\ Goto(t, "done")
    /\ UNCHANGED sem

(* set_task_prio(get_task_prio() - 5); times_woken[thread_id]++ *)
CountWake(t) ==
    /\ wpc[t] = "woken"
    /\ timesWoken' = [timesWoken EXCEPT ![t] = @ + 1]
    /\ Goto(t, "loop")
    /\ UNCHANGED sem

WaitThread(t) ==
    /\ NoneDeliverable(t)
    /\ \/ WaitOnSemaphoreArrive(t) \/ WaitOnSemaphoreGo(t) \/ LoopTest(t)
       \/ WaitForInterrupts(t) \/ CountWake(t)
    /\ UNCHANGED <<tasksEnabled, pending, gie, disabled, byIrq, byTid, cpc,
                   cidx, scenario, wsum, waitMask, aborted>>

-----------------------------------------------------------------------------
(* Main (thread 0) *)
MainGoto(to) == cpc' = to

(* thread_create_blocked(wait_thread, ..., i, NULL), i = 1..W, first part: *)
(* create_waiting_thread sets thread_semaphore[i] = OFF and creates i.     *)
CreateWaitingThread ==
    /\ cpc = "create"
    /\ sem' = [sem EXCEPT ![cidx] = OFF]
    /\ wpc' = [wpc EXCEPT ![cidx] = "created"]
    /\ MainGoto("ct_wait")
    /\ UNCHANGED <<timesWoken, tasksEnabled, pending, gie, disabled, byIrq,
                   byTid, cidx, scenario, wsum, waitMask>>

(* start_waiting_threads(1 << i), wait_semaphore_state: spin until ON_WAIT *)
WaitSemaphoreState ==
    /\ cpc = "ct_wait"
    /\ sem[cidx] = ON_WAIT
    /\ MainGoto("ct_go")
    /\ UNCHANGED <<sem, wpc, timesWoken, tasksEnabled, pending, gie, disabled,
                   byIrq, byTid, cidx, scenario, wsum, waitMask>>

(* start_waiting_threads(1 << i), set_semaphore_state(GO); then the next *)
(* thread_create_blocked, or the first wait_for_thread.                   *)
SetSemaphoreState ==
    /\ cpc = "ct_go"
    /\ sem' = [sem EXCEPT ![cidx] = GO]
    /\ IF cidx = W THEN MainGoto("wft") /\ cidx' = 1
                   ELSE MainGoto("create") /\ cidx' = cidx + 1
    /\ UNCHANGED <<wpc, timesWoken, tasksEnabled, pending, gie, disabled,
                   byIrq, byTid, scenario, wsum, waitMask>>

(* What main does after wait_for_thread(1..3) in each scenario, and after *)
(* its swi(INT_MASK).                                                      *)
AfterWaitForThreads == <<"swi", "disable", "mask">>
AfterSwi            == <<"delivered", "enable", "unmask">>

(* wait_for_thread(tid): spin until MODECTL shows tid in wait mode *)
WaitForThread ==
    /\ cpc = "wft"
    /\ wpc[cidx] = "waiting"
    /\ IF cidx = W THEN MainGoto(AfterWaitForThreads[scenario]) /\ cidx' = 1
                   ELSE UNCHANGED cpc /\ cidx' = cidx + 1
    /\ UNCHANGED <<sem, wpc, timesWoken, tasksEnabled, pending, gie, disabled,
                   byIrq, byTid, scenario, wsum, waitMask>>

(* global_int_disable() *)
GlobalIntDisable ==
    /\ cpc = "disable"
    /\ gie' = FALSE
    /\ MainGoto("swi")
    /\ UNCHANGED <<sem, wpc, timesWoken, tasksEnabled, pending, disabled,
                   byIrq, byTid, cidx, scenario, wsum, waitMask>>

(* iassignw(i, 0x1f) for every line: no line is routed to threads 0..4 *)
MaskedThreads == {t \in Tids : t <= 4}

AssignMaskAll ==
    /\ cpc = "mask"
    /\ disabled' = [l \in Lines |-> MaskedThreads]
    /\ MainGoto("swi")
    /\ UNCHANGED <<sem, wpc, timesWoken, tasksEnabled, pending, gie, byIrq,
                   byTid, cidx, scenario, wsum, waitMask>>

(* swi(INT_MASK): every line raised; a line still pending merges *)
SwiAll ==
    /\ cpc = "swi"
    /\ pending' = pending \cup Lines
    /\ MainGoto(AfterSwi[scenario])
    /\ UNCHANGED <<sem, wpc, timesWoken, tasksEnabled, gie, disabled, byIrq,
                   byTid, cidx, scenario, wsum, waitMask>>

(* Mutant: the enable after the masked swi is left out. *)
GlobalIntEnableMissing ==
    /\ cpc = "enable"
    /\ MainGoto("delivered")
    /\ UNCHANGED <<sem, wpc, timesWoken, tasksEnabled, pending, gie, disabled,
                   byIrq, byTid, cidx, scenario, wsum, waitMask>>

(* global_int_enable() *)
GlobalIntEnable ==
    /\ cpc = "enable"
    /\ gie' = TRUE
    /\ MainGoto("delivered")
    /\ UNCHANGED <<sem, wpc, timesWoken, tasksEnabled, pending, disabled,
                   byIrq, byTid, cidx, scenario, wsum, waitMask>>

(* iassignw(i, ~(1 << 1 | 1 << 2 | 1 << 3)): only threads 1..3 take lines *)
UnmaskedThreads == {t \in Tids : t \notin {1, 2, 3}}

AssignUnmask ==
    /\ cpc = "unmask"
    /\ disabled' = [l \in Lines |-> UnmaskedThreads]
    /\ MainGoto("delivered")
    /\ UNCHANGED <<sem, wpc, timesWoken, tasksEnabled, pending, gie, byIrq,
                   byTid, cidx, scenario, wsum, waitMask>>

(* wait_for_ints_delivered(n), first loop: all_ints_delivered(n) reads    *)
(* ints_by_irq[] entry by entry; an entry that reached n keeps it in the *)
(* scenario, so reading them at once admits the same exits.               *)
AllIntsDelivered ==
    /\ cpc = "delivered"
    /\ \A l \in Lines : byIrq[l] = scenario
    /\ MainGoto("sum") /\ cidx' = 1 /\ wsum' = 0
    /\ UNCHANGED <<sem, wpc, timesWoken, tasksEnabled, pending, gie, disabled,
                   byIrq, byTid, scenario, waitMask>>

(* times_woken_sum += times_woken[i], i = 0..WAIT_THREAD_COUNT-1 *)
SumTimesWoken ==
    /\ cpc = "sum"
    /\ wsum' = wsum + timesWoken[cidx]
    /\ IF cidx = W THEN MainGoto("spin") /\ cidx' = 1
                   ELSE UNCHANGED cpc /\ cidx' = cidx + 1
    /\ UNCHANGED <<sem, wpc, timesWoken, tasksEnabled, pending, gie, disabled,
                   byIrq, byTid, scenario, waitMask>>

(* Mutant: one scenario more than main runs. *)
WaitWokenSumOneMore ==
    /\ cpc = "spin"
    /\ wsum >= scenario
    /\ IF scenario < 4 THEN MainGoto("wft") /\ scenario' = scenario + 1
                       ELSE MainGoto("asserts") /\ UNCHANGED scenario
    /\ UNCHANGED <<sem, wpc, timesWoken, tasksEnabled, pending, gie, disabled,
                   byIrq, byTid, cidx, wsum, waitMask>>

(* while (times_woken_sum < n) pcycle_pause(): the local is never read    *)
(* again, so the loop exits at once or never.  Then the next scenario.    *)
WaitWokenSum ==
    /\ cpc = "spin"
    /\ wsum >= scenario
    /\ IF scenario < 3 THEN MainGoto("wft") /\ scenario' = scenario + 1
                       ELSE MainGoto("asserts") /\ UNCHANGED scenario
    /\ UNCHANGED <<sem, wpc, timesWoken, tasksEnabled, pending, gie, disabled,
                   byIrq, byTid, cidx, wsum, waitMask>>

(* The asserts after the third scenario *)
CountsAsExpected ==
    /\ byTid[0] = 0
    /\ \A l \in Lines : byIrq[l] = 3
    /\ SumFunction(byIrq) = Cardinality(Lines) * 3
    /\ SumFunction(byTid) = Cardinality(Lines) * 3

CheckCounts ==
    /\ cpc = "asserts"
    /\ IF CountsAsExpected THEN MainGoto("teardown") /\ UNCHANGED aborted
                           ELSE aborted' = TRUE /\ UNCHANGED cpc
    /\ UNCHANGED <<sem, wpc, timesWoken, tasksEnabled, pending, gie, disabled,
                   byIrq, byTid, cidx, scenario, wsum, waitMask>>

(* tasks_enabled = false *)
ClearTasksEnabled ==
    /\ cpc = "teardown"
    /\ tasksEnabled' = FALSE
    /\ MainGoto("ww_read")
    /\ UNCHANGED <<sem, wpc, timesWoken, pending, gie, disabled, byIrq, byTid,
                   cidx, scenario, wsum, waitMask>>

(* wait_for_wait(): wait_mask = the wait threads MODECTL shows waiting *)
WaitForWaitRead ==
    /\ cpc = "ww_read"
    /\ waitMask' = {t \in WaitTids : wpc[t] = "waiting"}
    /\ MainGoto("ww_swi")
    /\ UNCHANGED <<sem, wpc, timesWoken, tasksEnabled, pending, gie, disabled,
                   byIrq, byTid, cidx, scenario, wsum>>

(* swi(0x1); } while (wait_mask != 0) *)
WaitForWaitSwi ==
    /\ cpc = "ww_swi"
    /\ pending' = pending \cup {0}
    /\ IF waitMask # {} THEN MainGoto("ww_read") /\ UNCHANGED cidx
                        ELSE MainGoto("join") /\ cidx' = 1
    /\ UNCHANGED <<sem, wpc, timesWoken, tasksEnabled, gie, disabled, byIrq,
                   byTid, scenario, wsum, waitMask>>

(* thread_join(1 << 1); thread_join(1 << 2); thread_join(1 << 3) *)
ThreadJoin ==
    /\ cpc = "join"
    /\ wpc[cidx] = "done"
    /\ IF cidx = W THEN MainGoto("finished") /\ UNCHANGED cidx
                   ELSE UNCHANGED cpc /\ cidx' = cidx + 1
    /\ UNCHANGED <<sem, wpc, timesWoken, tasksEnabled, pending, gie, disabled,
                   byIrq, byTid, scenario, wsum, waitMask>>

Main ==
    /\ NoneDeliverable(0)
    /\ \/ /\ \/ CreateWaitingThread \/ WaitSemaphoreState \/ SetSemaphoreState
             \/ WaitForThread \/ GlobalIntDisable \/ AssignMaskAll \/ SwiAll
             \/ GlobalIntEnable \/ AssignUnmask \/ AllIntsDelivered
             \/ SumTimesWoken \/ WaitWokenSum \/ ClearTasksEnabled
             \/ WaitForWaitRead \/ WaitForWaitSwi \/ ThreadJoin
          /\ UNCHANGED aborted
       \/ CheckCounts

-----------------------------------------------------------------------------
Init ==
    /\ sem = [t \in WaitTids |-> OFF]
    /\ wpc = [t \in WaitTids |-> "off"]
    /\ timesWoken = [t \in WaitTids |-> 0]
    /\ tasksEnabled = TRUE
    /\ pending = {}
    /\ gie = TRUE
    /\ disabled = [l \in Lines |-> {}]
    /\ byIrq = [l \in Lines |-> 0]
    /\ byTid = [t \in Tids |-> 0]
    /\ cpc = "create"
    /\ cidx = 1
    /\ scenario = 1
    /\ wsum = 0
    /\ waitMask = {}
    /\ aborted = FALSE

Next ==
    \/ ~aborted /\ \E t \in WaitTids : WaitThread(t)
    \/ ~aborted /\ Main
    \/ ~aborted /\ \E l \in Lines, t \in Tids : InterruptHandler(l, t)

(* Hardware threads run in parallel: every thread that can step eventually *)
(* does, and a raised line is eventually taken while a thread can take it. *)
(* A wait thread is kept from stepping only while an interrupt is pending  *)
(* for it; a handler returns to the interrupted code, which runs before    *)
(* main's next raise (one swi per iteration of a loop that also reads      *)
(* MODECTL), so a thread enabled again and again does step: strong         *)
(* fairness.                                                               *)
Fairness ==
    /\ \A t \in WaitTids : SF_vars(WaitThread(t))
    /\ WF_vars(Main)
    /\ \A l \in Lines : WF_vars(\E t \in Tids : InterruptHandler(l, t))

Spec == Init /\ [][Next]_vars /\ Fairness

-----------------------------------------------------------------------------
TypeOK ==
    /\ sem \in [WaitTids -> {OFF, ON_WAIT, GO}]
    /\ wpc \in [WaitTids -> ThreadStates]
    /\ timesWoken \in [WaitTids -> Nat]
    /\ tasksEnabled \in BOOLEAN /\ gie \in BOOLEAN /\ aborted \in BOOLEAN
    /\ pending \subseteq Lines
    /\ disabled \in [Lines -> SUBSET Tids]
    /\ byIrq \in [Lines -> 0..3] /\ byTid \in [Tids -> 0..(3 * Cardinality(Lines))]
    /\ cpc \in MainStates /\ cidx \in WaitTids /\ scenario \in Scenarios
    /\ wsum \in Nat /\ waitMask \subseteq WaitTids

(* The asserts of main() hold: after the three scenarios main took no      *)
(* interrupt and every line was handled exactly three times, once per      *)
(* swi(INT_MASK), also when it was raised while interrupts were globally   *)
(* disabled or routed to no thread.                                        *)
CountsAssertsHold == ~aborted

(* Every scenario's raise is delivered: wait_for_ints_delivered's first    *)
(* loop ends, also for the lines raised while disabled (scenario 2) or     *)
(* routed to no thread (scenario 3), once main re-enables or re-routes     *)
(* them.                                                                   *)
RaisedLinesDelivered == cpc = "delivered" ~> cpc # "delivered"

(* Every wait_for_thread returns: a woken wait thread counts the wake and  *)
(* goes back into wait mode before main raises the next scenario.          *)
WaitForThreadReturns == cpc = "wft" ~> cpc # "wft"

-----------------------------------------------------------------------------
(* Statements about the program the code is checked against *)

(* main() gets through the three scenarios to its asserts:                *)
(* wait_for_ints_delivered(n) returns once the wait threads have woken n   *)
(* times (the comment at its second loop).                                 *)
ScenariosComplete == <>(cpc = "asserts" \/ aborted)

(* The teardown ends: once tasks_enabled is cleared, wait_for_wait wakes   *)
(* every wait thread and the thread_join calls return.                     *)
TeardownJoins == ~tasksEnabled ~> cpc = "finished"
=============================================================================
