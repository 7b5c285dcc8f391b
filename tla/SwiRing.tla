------------------------------- MODULE SwiRing -------------------------------
(***************************************************************************)
(* swi.c: a ring of software interrupts.  main creates threads             *)
(* 1..MAX_THREADS-1 with thread_create; each registers a handler for the   *)
(* line of its own tid and enters wait mode.  main waits until MODECTL     *)
(* shows them all waiting, masks every line for itself, gives thread t an  *)
(* imask that admits line t only, and resumes them all.  Each thread then  *)
(* raises the line of the next thread (the last raises line 1) and spins   *)
(* until intcnt[tid] is non-zero; main joins them.                         *)
(***************************************************************************)
EXTENDS Integers, FiniteSets

CONSTANT MAX_THREADS        \* including main thread

ASSUME MAX_THREADS \in Nat /\ MAX_THREADS >= 3

Tids == 1..(MAX_THREADS - 1)      \* the threads main creates
AllTids == 0..(MAX_THREADS - 1)
Lines == 0..31

VARIABLES
    tpc,        \* per thread: "off", "init", "waiting", "send", "spin", "done"
    imask,      \* per hardware thread: the lines it masks
    pending,    \* lines raised by swi and not yet taken
    registered, \* lines with a handler (register_interrupt)
    intcnt,     \* intcnt[]
    takenBy,    \* per line: the threads that took it (history)
    cpc,        \* main's program counter
    cidx        \* main's loop index

vars == <<tpc, imask, pending, registered, intcnt, takenBy, cpc, cidx>>

-----------------------------------------------------------------------------
(* Interrupt delivery.  A thread takes an unmasked pending line while it   *)
(* runs or while it is in wait mode; taking it in wait mode ends the wait  *)
(* once the handler returns.  SYSCFG's global enable is left set by this   *)
(* program.                                                                *)
Accepting(t) ==
    IF t = 0 THEN TRUE ELSE tpc[t] \in {"init", "waiting", "send", "spin"}

Eligible(t, l) == Accepting(t) /\ l \notin imask[t]

(* int_hdl(intno): intcnt[intno]++ *)
IntHdl(l, t) ==
    /\ l \in pending /\ l \in registered
    /\ Eligible(t, l)
    /\ pending' = pending \ {l}
    /\ intcnt' = [intcnt EXCEPT ![l] = @ + 1]
    /\ takenBy' = [takenBy EXCEPT ![l] = @ \cup {t}]
    /\ tpc' = IF t # 0 /\ tpc[t] = "waiting"
                THEN [tpc EXCEPT ![t] = "send"] ELSE tpc
    /\ UNCHANGED <<imask, registered, cpc, cidx>>

-----------------------------------------------------------------------------
(* my_thread_function *)

(* register_interrupt(tid, int_hdl) *)
RegisterInterrupt(t) ==
    /\ tpc[t] = "init"
    /\ registered' = registered \cup {t}
    /\ tpc' = [tpc EXCEPT ![t] = "waiting"]
    /\ UNCHANGED <<imask, pending, intcnt, takenBy, cpc, cidx>>

(* The line a thread raises: the next tid, and line 1 from the last. *)
SendIntLineOffByOne(t) == IF t = MAX_THREADS - 1 THEN 0 ELSE t + 1

SendIntLine(t) == IF t = MAX_THREADS - 1 THEN 1 ELSE t + 1

(* send_swi(send_int_mask) after the resume *)
SendSwi(t) ==
    /\ tpc[t] = "send"
    /\ pending' = pending \cup {SendIntLine(t)}
    /\ tpc' = [tpc EXCEPT ![t] = "spin"]
    /\ UNCHANGED <<imask, registered, intcnt, takenBy, cpc, cidx>>

(* while (intcnt[tid] == 0); then the thread returns *)
SpinOnIntcnt(t) ==
    /\ tpc[t] = "spin"
    /\ intcnt[t] # 0
    /\ tpc' = [tpc EXCEPT ![t] = "done"]
    /\ UNCHANGED <<imask, pending, registered, intcnt, takenBy, cpc, cidx>>

Thread(t) == RegisterInterrupt(t) \/ SendSwi(t) \/ SpinOnIntcnt(t)

-----------------------------------------------------------------------------
(* main *)

Goto(to) == cpc' = to

(* thread_create(my_thread_function, ..., tid, &id[tid]) for 1..          *)
(* MAX_THREADS-1                                                           *)
ThreadCreate ==
    /\ cpc = "create"
    /\ tpc' = [tpc EXCEPT ![cidx] = "init"]
    /\ IF cidx < MAX_THREADS - 1
         THEN cidx' = cidx + 1 /\ UNCHANGED cpc
         ELSE Goto("wft") /\ cidx' = 1
    /\ UNCHANGED <<imask, pending, registered, intcnt, takenBy>>

(* wait_for_threads: until the MODECTL wait bits hold every thread *)
WaitForThreads ==
    /\ cpc = "wft"
    /\ \A t \in Tids : tpc[t] = "waiting"
    /\ Goto("imask0")
    /\ UNCHANGED <<tpc, imask, pending, registered, intcnt, takenBy, cidx>>

(* setimask(0, 0xffffffff) *)
SetImaskMain ==
    /\ cpc = "imask0"
    /\ imask' = [imask EXCEPT ![0] = Lines]
    /\ Goto("imask")
    /\ UNCHANGED <<tpc, pending, registered, intcnt, takenBy, cidx>>

(* Mutant: each thread is given the line of the next tid. *)
SetImaskOffByOne ==
    /\ cpc = "imask"
    /\ imask' = [imask EXCEPT ![cidx] = Lines \ {cidx + 1}]
    /\ IF cidx < MAX_THREADS - 1
         THEN cidx' = cidx + 1 /\ UNCHANGED cpc
         ELSE Goto("resume") /\ UNCHANGED cidx
    /\ UNCHANGED <<tpc, pending, registered, intcnt, takenBy>>

(* setimask(tid, ~(0x1 << tid)) for tid = 1..MAX_THREADS-1 *)
SetImask ==
    /\ cpc = "imask"
    /\ imask' = [imask EXCEPT ![cidx] = Lines \ {cidx}]
    /\ IF cidx < MAX_THREADS - 1
         THEN cidx' = cidx + 1 /\ UNCHANGED cpc
         ELSE Goto("resume") /\ UNCHANGED cidx
    /\ UNCHANGED <<tpc, pending, registered, intcnt, takenBy>>

(* do_resume(join_mask): every thread of the mask leaves wait mode *)
DoResume ==
    /\ cpc = "resume"
    /\ tpc' = [t \in Tids |-> IF tpc[t] = "waiting" THEN "send" ELSE tpc[t]]
    /\ Goto("join")
    /\ UNCHANGED <<imask, pending, registered, intcnt, takenBy, cidx>>

(* thread_join(join_mask) *)
ThreadJoin ==
    /\ cpc = "join"
    /\ \A t \in Tids : tpc[t] = "done"
    /\ Goto("finished")
    /\ UNCHANGED <<tpc, imask, pending, registered, intcnt, takenBy, cidx>>

Main == ThreadCreate \/ WaitForThreads \/ SetImaskMain \/ SetImask
        \/ DoResume \/ ThreadJoin

-----------------------------------------------------------------------------
Init ==
    /\ tpc = [t \in Tids |-> "off"]
    /\ imask = [t \in AllTids |-> {}]
    /\ pending = {}
    /\ registered = {}
    /\ intcnt = [l \in Lines |-> 0]
    /\ takenBy = [l \in Lines |-> {}]
    /\ cpc = "create"
    /\ cidx = 1

Next ==
    \/ Main
    \/ \E t \in Tids : Thread(t)
    \/ \E l \in Lines, t \in AllTids : IntHdl(l, t)

(* Threads are hardware threads: each runs on its own, and a pending line *)
(* an eligible thread keeps accepting is taken.                            *)
Fairness ==
    /\ WF_vars(Main)
    /\ \A t \in Tids : WF_vars(Thread(t))
    /\ \A l \in Lines : WF_vars(\E t \in AllTids : IntHdl(l, t))

Spec == Init /\ [][Next]_vars /\ Fairness

-----------------------------------------------------------------------------
TypeOK ==
    /\ tpc \in [Tids -> {"off", "init", "waiting", "send", "spin", "done"}]
    /\ imask \in [AllTids -> SUBSET Lines]
    /\ pending \subseteq Lines /\ registered \subseteq Lines
    /\ intcnt \in [Lines -> Nat] /\ takenBy \in [Lines -> SUBSET AllTids]

(* "accept only our interrupt": every line a thread of the ring raises is  *)
(* taken by the thread of that tid, never by main or a neighbour.          *)
OwnLineOnly == \A l \in Lines : takenBy[l] \subseteq {l}

(* The ring closes: every thread's spin on intcnt ends and main's          *)
(* thread_join returns.                                                    *)
RingCompletes == <>(cpc = "finished")
=============================================================================
