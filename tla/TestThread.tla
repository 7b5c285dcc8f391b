------------------------------ MODULE TestThread ------------------------------
(***************************************************************************)
(* test-thread.c: main takes mutex Mx, calls thread_create for tids        *)
(* 1..THCNT, releases Mx, spins until thcnt reaches THCNT - 1, joins the   *)
(* threads and compares thid[] with expect[].  Each thread asserts its     *)
(* hardware id is below THCNT, takes Mx by trylockMutex in a pause loop,   *)
(* increments thcnt, records its id in thid[id] and releases Mx.           *)
(***************************************************************************)
EXTENDS Integers, FiniteSets

CONSTANTS
    THCNT,
    HwThreads   \* the hardware thread ids the target has (0 is main)

ASSUME THCNT \in Nat /\ THCNT >= 2 /\ 0 \in HwThreads

Created == 1..THCNT                 \* for (i = 1; i <= THCNT; i++)
Slots == 0..(THCNT - 1)             \* thid[], expect[]
NoOwner == -1

VARIABLES
    mx,         \* the owner of Mx, or NoOwner
    tpc,        \* per tid: "off", "assert", "try", "load", "store", "rec",
                \* "unlock", "done"
    tmp,        \* per tid: the value thcnt++ loaded
    thcnt,
    thid,
    mpc,        \* main: "create", "unlock", "wait", "join", "cmp", "pass",
                \* "fail"
    i,          \* main's create loop index
    aborted     \* a failed assert has ended the program

vars == <<mx, tpc, tmp, thcnt, thid, mpc, i, aborted>>

-----------------------------------------------------------------------------
(* thread(): the hardware thread of tid t *)
TGo(t, to) == tpc' = [tpc EXCEPT ![t] = to]

(* assert(id < THCNT): abort() ends the whole program *)
AssertId(t) ==
    /\ tpc[t] = "assert"
    /\ IF t < THCNT THEN TGo(t, "try") /\ UNCHANGED aborted
                    ELSE aborted' = TRUE /\ UNCHANGED tpc
    /\ UNCHANGED <<mx, tmp, thcnt, thid>>

(* Mutant: trylockMutex succeeds whoever holds Mx. *)
TryLockAlways(t) ==
    /\ tpc[t] = "try"
    /\ mx' = t /\ TGo(t, "load")
    /\ UNCHANGED <<tmp, thcnt, thid, aborted>>

(* if (trylockMutex(&Mx)) break; a failed try pauses and tries again *)
TryLock(t) ==
    /\ tpc[t] = "try" /\ mx = NoOwner
    /\ mx' = t /\ TGo(t, "load")
    /\ UNCHANGED <<tmp, thcnt, thid, aborted>>

(* thcnt++ on the volatile counter: a load, then a store *)
IncLoad(t) ==
    /\ tpc[t] = "load"
    /\ tmp' = [tmp EXCEPT ![t] = thcnt] /\ TGo(t, "store")
    /\ UNCHANGED <<mx, thcnt, thid, aborted>>

IncStore(t) ==
    /\ tpc[t] = "store"
    /\ thcnt' = tmp[t] + 1 /\ TGo(t, "rec")
    /\ UNCHANGED <<mx, tmp, thid, aborted>>

(* thid[id] = id *)
RecordId(t) ==
    /\ tpc[t] = "rec"
    /\ thid' = [thid EXCEPT ![t] = t] /\ TGo(t, "unlock")
    /\ UNCHANGED <<mx, tmp, thcnt, aborted>>

(* unlockMutex(&Mx) *)
ThreadUnlock(t) ==
    /\ tpc[t] = "unlock"
    /\ mx' = NoOwner /\ TGo(t, "done")
    /\ UNCHANGED <<tmp, thcnt, thid, aborted>>

Thread(t) ==
    /\ ~aborted
    /\ \/ AssertId(t) \/ TryLock(t) \/ IncLoad(t) \/ IncStore(t)
       \/ RecordId(t) \/ ThreadUnlock(t)
    /\ UNCHANGED <<mpc, i>>

-----------------------------------------------------------------------------
(* main *)
MGo(to) == mpc' = to

(* thread_create(thread, &stack[i - 1][...], i, NULL): a tid the target    *)
(* does not have starts nothing.                                          *)
ThreadCreate ==
    /\ mpc = "create"
    /\ tpc' = IF i \in HwThreads THEN [tpc EXCEPT ![i] = "assert"] ELSE tpc
    /\ IF i < THCNT THEN i' = i + 1 /\ UNCHANGED mpc
                    ELSE MGo("unlock") /\ UNCHANGED i
    /\ UNCHANGED <<mx, tmp, thcnt, thid, aborted>>

(* unlockMutex(&Mx) *)
MainUnlock ==
    /\ mpc = "unlock"
    /\ mx' = NoOwner /\ MGo("wait")
    /\ UNCHANGED <<tpc, tmp, thcnt, thid, i, aborted>>

(* while (thcnt < (THCNT - 1)) pause *)
WaitCount ==
    /\ mpc = "wait" /\ thcnt >= THCNT - 1
    /\ MGo("join")
    /\ UNCHANGED <<mx, tpc, tmp, thcnt, thid, i, aborted>>

(* Mutant: main goes on to the comparison without thread_join. *)
ThreadJoinSkipped ==
    /\ mpc = "join"
    /\ MGo("cmp")
    /\ UNCHANGED <<mx, tpc, tmp, thcnt, thid, i, aborted>>

(* thread_join(thmask): every started thread has returned *)
ThreadJoin ==
    /\ mpc = "join"
    /\ \A t \in Created : tpc[t] \in {"off", "done"}
    /\ MGo("cmp")
    /\ UNCHANGED <<mx, tpc, tmp, thcnt, thid, i, aborted>>

(* memcmp(thid, expect, sizeof(expect)) *)
Compare ==
    /\ mpc = "cmp"
    /\ MGo(IF \A s \in Slots : thid[s] = s THEN "pass" ELSE "fail")
    /\ UNCHANGED <<mx, tpc, tmp, thcnt, thid, i, aborted>>

Main ==
    /\ ~aborted
    /\ ThreadCreate \/ MainUnlock \/ WaitCount \/ ThreadJoin \/ Compare

-----------------------------------------------------------------------------
(* lockMutex(&Mx) is main's first statement: Init has main holding Mx. *)
Init ==
    /\ mx = 0
    /\ tpc = [t \in Created |-> "off"]
    /\ tmp = [t \in Created |-> 0]
    /\ thcnt = 0
    /\ thid = [s \in Slots |-> 0]
    /\ mpc = "create" /\ i = 1
    /\ aborted = FALSE

Next == Main \/ \E t \in Created : Thread(t)

(* Hardware threads run on their own; a thread pausing in its trylock loop *)
(* finds Mx free again and again until it gets it.                        *)
Fairness ==
    /\ WF_vars(Main)
    /\ \A t \in Created : WF_vars(Thread(t)) /\ SF_vars(Thread(t) /\ TryLock(t))

Spec == Init /\ [][Next]_vars /\ Fairness

-----------------------------------------------------------------------------
(* assert(id < (THCNT)) holds in every thread main creates. *)
AssertHolds == ~aborted

(* No increment of thcnt is lost: it counts the threads that have been     *)
(* through their thcnt++.                                                  *)
NoLostIncrement ==
    thcnt = Cardinality({t \in Created : tpc[t] \in {"rec", "unlock", "done"}})

(* The program prints PASS: main compares thid[] only after every thread  *)
(* has recorded its id, although its spin on thcnt ends before the last   *)
(* thread writes thid[].                                                   *)
PassReported == <>(mpc = "pass")
=============================================================================
