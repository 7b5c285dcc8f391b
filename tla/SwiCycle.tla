------------------------------ MODULE SwiCycle ------------------------------
(***************************************************************************)
(* swi2.c: interrupts raised while their routing keeps changing.  main     *)
(* registers interrupt_handler for every line, creates thread 1 running    *)
(* interrupt_cycles and task threads 2.. running task_thread, then runs    *)
(* run_test TEST_ITER_COUNT times: clear ints_by_irq, and INTS_PER_ITER    *)
(* times raise every line and spin until every line has been counted once  *)
(* more.  Thread 1 meanwhile turns SYSCFG's global enable off and on and   *)
(* opens and closes its own imask; the task threads compute.  Then main    *)
(* clears tasks_enabled and joins thread 1 and the task threads.           *)
(***************************************************************************)
EXTENDS Integers

CONSTANTS
    Lines,          \* the interrupt lines (0..MAX_INT_NUM-1)
    NTasks,         \* MAX_THREADS: task threads 2..NTasks+1
    INTS_PER_ITER,
    TEST_ITER_COUNT

ASSUME NTasks \in Nat \ {0} /\ INTS_PER_ITER \in Nat \ {0}
       /\ TEST_ITER_COUNT \in Nat \ {0}

CYCLER == 1
TaskTids == 2..(NTasks + 1)

VARIABLES
    intsByIrq,      \* ints_by_irq[]
    pending,        \* lines raised and not yet taken
    gie,            \* SYSCFG global interrupt enable
    cycImask,       \* thread 1's imask
    cyc,            \* thread 1: "off", "test", "dis", "en", "open", "close", "done"
    half,           \* which of the two cycle pairs of an iteration thread 1 is in
    task,           \* per task thread: "off", "run", "done"
    tasksEnabled,   \* tasks_enabled
    mpc,            \* main's program counter
    iter,           \* main's run_test loop index
    i,              \* run_test's loop index
    cidx            \* main's thread_create / thread_join loop index

vars == <<intsByIrq, pending, gie, cycImask, cyc, half, task, tasksEnabled,
          mpc, iter, i, cidx>>

-----------------------------------------------------------------------------
(* Which threads take a line.  main never sets its imask and thread_create *)
(* leaves a task thread's at its reset value: nothing masked.              *)
Eligible(t) ==
    CASE t = 0        -> mpc # "finished"
      [] t = CYCLER   -> cyc \notin {"off", "done"} /\ cycImask = {}
      [] OTHER        -> task[t] = "run"

(* interrupt_handler(intno): ints_by_irq[intno]++ *)
InterruptHandler(l) ==
    /\ l \in pending /\ gie
    /\ \E t \in {0, CYCLER} \cup TaskTids : Eligible(t)
    /\ pending' = pending \ {l}
    /\ intsByIrq' = [intsByIrq EXCEPT ![l] = @ + 1]
    /\ UNCHANGED <<gie, cycImask, cyc, half, task, tasksEnabled, mpc, iter,
                   i, cidx>>

-----------------------------------------------------------------------------
(* interrupt_cycles: while (tasks_enabled) { cycle_ints; cycle_thread_imask; *)
(* cycle_ints; cycle_thread_imask; set_task_prio; iters++ }                *)
CycGo(to) == cyc' = to

CycLoopTest ==
    /\ cyc = "test"
    /\ IF tasksEnabled THEN CycGo("dis") /\ half' = 1
                       ELSE CycGo("done") /\ UNCHANGED half
    /\ UNCHANGED <<gie, cycImask>>

(* Mutant: cycle_ints does not turn the global enable back on. *)
GlobalIntEnableMissing == cyc = "en" /\ CycGo("open")
                          /\ UNCHANGED <<gie, cycImask, half>>

(* cycle_ints: global_int_disable(); delay(); global_int_enable() *)
GlobalIntDisable == cyc = "dis" /\ gie' = FALSE /\ CycGo("en")
                    /\ UNCHANGED <<cycImask, half>>

GlobalIntEnable == cyc = "en" /\ gie' = TRUE /\ CycGo("open")
                   /\ UNCHANGED <<cycImask, half>>

(* cycle_thread_imask: set_thread_imask(0); delay();                       *)
(* set_thread_imask(ALL_INTERRUPTS_MASK)                                   *)
ImaskOpen == cyc = "open" /\ cycImask' = {} /\ CycGo("close")
             /\ UNCHANGED <<gie, half>>

ImaskClose ==
    /\ cyc = "close"
    /\ cycImask' = Lines
    /\ IF half = 1 THEN CycGo("dis") /\ half' = 2
                   ELSE CycGo("test") /\ UNCHANGED half
    /\ UNCHANGED gie

InterruptCycles ==
    /\ \/ CycLoopTest \/ GlobalIntDisable \/ GlobalIntEnable
       \/ ImaskOpen \/ ImaskClose
    /\ UNCHANGED <<intsByIrq, pending, task, tasksEnabled, mpc, iter, i, cidx>>

(* task_thread: computes while tasks_enabled, then returns *)
TaskThread(t) ==
    /\ task[t] = "run" /\ ~tasksEnabled
    /\ task' = [task EXCEPT ![t] = "done"]
    /\ UNCHANGED <<intsByIrq, pending, gie, cycImask, cyc, half, tasksEnabled,
                   mpc, iter, i, cidx>>

-----------------------------------------------------------------------------
(* main *)
MGo(to) == mpc' = to

(* thread_create(interrupt_cycles, ..., 1, NULL) *)
CreateCycler ==
    /\ mpc = "create_cyc"
    /\ cyc' = "test" /\ MGo("create_tasks") /\ cidx' = 2
    /\ UNCHANGED <<intsByIrq, pending, gie, cycImask, half, task, tasksEnabled,
                   iter, i>>

(* thread_create(task_thread, ..., i + 1 + 1, i) for each task thread *)
CreateTask ==
    /\ mpc = "create_tasks"
    /\ task' = [task EXCEPT ![cidx] = "run"]
    /\ IF cidx < NTasks + 1 THEN cidx' = cidx + 1 /\ UNCHANGED mpc
                            ELSE MGo("tests") /\ UNCHANGED cidx
    /\ UNCHANGED <<intsByIrq, pending, gie, cycImask, cyc, half, tasksEnabled,
                   iter, i>>

(* Mutant: a later run_test starts without clearing ints_by_irq. *)
RunTestNoClear ==
    /\ mpc = "tests"
    /\ IF iter < TEST_ITER_COUNT
         THEN /\ i' = 0 /\ MGo("swi") /\ UNCHANGED <<tasksEnabled, intsByIrq>>
         ELSE /\ tasksEnabled' = FALSE /\ MGo("join_cyc")
              /\ UNCHANGED <<intsByIrq, i>>
    /\ UNCHANGED <<pending, gie, cycImask, cyc, half, task, iter, cidx>>

(* for (i < TEST_ITER_COUNT) run_test(): memset(ints_by_irq, 0);  after    *)
(* the loop tasks_enabled = false                                          *)
RunTest ==
    /\ mpc = "tests"
    /\ IF iter < TEST_ITER_COUNT
         THEN /\ intsByIrq' = [l \in Lines |-> 0] /\ i' = 0 /\ MGo("swi")
              /\ UNCHANGED tasksEnabled
         ELSE /\ tasksEnabled' = FALSE /\ MGo("join_cyc")
              /\ UNCHANGED <<intsByIrq, i>>
    /\ UNCHANGED <<pending, gie, cycImask, cyc, half, task, iter, cidx>>

(* run_test: for (i < INTS_PER_ITER) swi(ALL_INTERRUPTS_MASK) *)
RaiseAll ==
    /\ mpc = "swi"
    /\ IF i < INTS_PER_ITER
         THEN pending' = pending \cup Lines /\ MGo("spin") /\ UNCHANGED iter
         ELSE iter' = iter + 1 /\ MGo("tests") /\ UNCHANGED pending
    /\ UNCHANGED <<intsByIrq, gie, cycImask, cyc, half, task, tasksEnabled,
                   i, cidx>>

(* all_ints_delivered(n): every ints_by_irq[i] == n *)
AllIntsDelivered(n) == \A l \in Lines : intsByIrq[l] = n

(* while (!all_ints_delivered(i + 1)) delay(5) *)
WaitDelivered ==
    /\ mpc = "spin"
    /\ AllIntsDelivered(i + 1)
    /\ i' = i + 1 /\ MGo("swi")
    /\ UNCHANGED <<intsByIrq, pending, gie, cycImask, cyc, half, task,
                   tasksEnabled, iter, cidx>>

(* thread_join(1 << 1) *)
JoinCycler ==
    /\ mpc = "join_cyc" /\ cyc = "done"
    /\ MGo("join_tasks") /\ cidx' = 2
    /\ UNCHANGED <<intsByIrq, pending, gie, cycImask, cyc, half, task,
                   tasksEnabled, iter, i>>

(* thread_join(1 << (i + 1 + 1)) for each task thread *)
JoinTask ==
    /\ mpc = "join_tasks" /\ task[cidx] = "done"
    /\ IF cidx < NTasks + 1 THEN cidx' = cidx + 1 /\ UNCHANGED mpc
                            ELSE MGo("finished") /\ UNCHANGED cidx
    /\ UNCHANGED <<intsByIrq, pending, gie, cycImask, cyc, half, task,
                   tasksEnabled, iter, i>>

Main == \/ CreateCycler \/ CreateTask \/ RunTest \/ RaiseAll
        \/ WaitDelivered \/ JoinCycler \/ JoinTask

-----------------------------------------------------------------------------
Init ==
    /\ intsByIrq = [l \in Lines |-> 0]
    /\ pending = {}
    /\ gie = TRUE
    /\ cycImask = {}
    /\ cyc = "off" /\ half = 1
    /\ task = [t \in TaskTids |-> "off"]
    /\ tasksEnabled = TRUE
    /\ mpc = "create_cyc" /\ iter = 0 /\ i = 0 /\ cidx = 2

Next ==
    \/ Main \/ InterruptCycles
    \/ \E t \in TaskTids : TaskThread(t)
    \/ \E l \in Lines : InterruptHandler(l)

(* Each thread is a hardware thread and runs on its own.  The global       *)
(* enable goes off and on forever while the test runs, so a pending line   *)
(* is only intermittently deliverable: the hardware takes it at an enabled *)
(* packet, which strong fairness on its delivery states.                   *)
Fairness ==
    /\ WF_vars(Main) /\ WF_vars(InterruptCycles)
    /\ \A t \in TaskTids : WF_vars(TaskThread(t))
    /\ \A l \in Lines : SF_vars(InterruptHandler(l))

Spec == Init /\ [][Next]_vars /\ Fairness

-----------------------------------------------------------------------------
(* Every swi raise is counted once before the next: while main waits for   *)
(* round i + 1, a line still pending has been counted i times and a taken  *)
(* one i + 1 times, whichever thread took it while thread 1 cycles the     *)
(* routing.                                                                *)
CountsTrackRaises ==
    mpc = "spin" =>
        \A l \in Lines : intsByIrq[l] = IF l \in pending THEN i ELSE i + 1

(* The test reaches PASS: every raise is eventually taken although thread  *)
(* 1 keeps disabling interrupts, and every thread ends once tasks_enabled  *)
(* is cleared.                                                             *)
TestPasses == <>(mpc = "finished")
=============================================================================
