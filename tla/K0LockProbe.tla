----------------------------- MODULE K0LockProbe -----------------------------
(***************************************************************************)
(* k0lock.c (and tlblock.c, the same program on the TLB lock): main takes  *)
(* the lock, creates a batch of COMPUTE_THREADS threads while holding it,  *)
(* releases it and joins the batch, until `work` threads have run.  Each   *)
(* thread runs ITERS rounds of lock; unlock; unlock -- the second unlock   *)
(* is made by a thread that no longer holds the lock.                      *)
(***************************************************************************)
EXTENDS Integers

CONSTANTS
    COMPUTE_THREADS,
    ITERS           \* rounds of thread_func: 3 in k0lock.c, 5 in tlblock.c

ASSUME COMPUTE_THREADS \in Nat \ {0} /\ ITERS \in Nat \ {0}

Tids == 1..COMPUTE_THREADS
Work == COMPUTE_THREADS * 3         \* const int work
NoOwner == -1

VARIABLES
    owner,      \* the thread holding the lock (0 is main), or NoOwner
    tpc,        \* per thread: "off", "lock", "unlock1", "unlock2", "done"
    titer,      \* per thread: thread_func's i
    mpc,        \* main: "loop", "lock", "create", "unlock", "join", "finished"
    j,          \* main's count of created threads
    i           \* main's index in the current batch

vars == <<owner, tpc, titer, mpc, j, i>>

-----------------------------------------------------------------------------
(* The lock instructions.  k0lock stalls the thread until the lock is      *)
(* free.  k0unlock by the holder frees it; k0unlock by a thread that does  *)
(* not hold it is not defined by the code, and the model lets it either    *)
(* have no effect or free the lock whoever holds it.                       *)
CanLock == owner = NoOwner

Unlocked(t) ==
    IF owner = t THEN {NoOwner} ELSE {owner, NoOwner}

-----------------------------------------------------------------------------
(* thread_func: for (i < ITERS) { k0lock(); k0unlock(); k0unlock(); } *)
TGo(t, to) == tpc' = [tpc EXCEPT ![t] = to]

LockStep(t) ==
    /\ tpc[t] = "lock" /\ CanLock
    /\ owner' = t /\ TGo(t, "unlock1")
    /\ UNCHANGED titer

Unlock1(t) ==
    /\ tpc[t] = "unlock1"
    /\ owner' \in Unlocked(t) /\ TGo(t, "unlock2")
    /\ UNCHANGED titer

Unlock2(t) ==
    /\ tpc[t] = "unlock2"
    /\ owner' \in Unlocked(t)
    /\ titer' = [titer EXCEPT ![t] = @ + 1]
    /\ TGo(t, IF titer[t] + 1 < ITERS THEN "lock" ELSE "done")

ThreadFunc(t) ==
    /\ LockStep(t) \/ Unlock1(t) \/ Unlock2(t)
    /\ UNCHANGED <<mpc, j, i>>

-----------------------------------------------------------------------------
(* main *)
MGo(to) == mpc' = to

(* thread_join(((1 << COMPUTE_THREADS) - 1) << 1) *)
JoinMaskShort == 1..(COMPUTE_THREADS - 1)

JoinMask == Tids

(* for (j = 0; j < work; ) *)
MainLoopTest ==
    /\ mpc = "loop"
    /\ MGo(IF j < Work THEN "lock" ELSE "finished")
    /\ UNCHANGED <<owner, tpc, titer, j, i>>

(* k0lock() *)
MainLock ==
    /\ mpc = "lock" /\ CanLock
    /\ owner' = 0 /\ MGo("create") /\ i' = 0
    /\ UNCHANGED <<tpc, titer, j>>

(* for (i < COMPUTE_THREADS && j < work; i++, j++) thread_create(..., i + 1) *)
ThreadCreate ==
    /\ mpc = "create"
    /\ IF i < COMPUTE_THREADS /\ j < Work
         THEN /\ tpc' = [tpc EXCEPT ![i + 1] = "lock"]
              /\ titer' = [titer EXCEPT ![i + 1] = 0]
              /\ i' = i + 1 /\ j' = j + 1
              /\ UNCHANGED mpc
         ELSE MGo("unlock") /\ UNCHANGED <<tpc, titer, i, j>>
    /\ UNCHANGED owner

(* Mutant: main joins without releasing the lock. *)
MainUnlockMissing ==
    /\ mpc = "unlock"
    /\ MGo("join")
    /\ UNCHANGED <<owner, tpc, titer, j, i>>

(* k0unlock() *)
MainUnlock ==
    /\ mpc = "unlock"
    /\ owner' \in Unlocked(0) /\ MGo("join")
    /\ UNCHANGED <<tpc, titer, j, i>>

ThreadJoin ==
    /\ mpc = "join"
    /\ \A t \in JoinMask : tpc[t] \in {"off", "done"}
    /\ MGo("loop")
    /\ UNCHANGED <<owner, tpc, titer, j, i>>

Main ==
    \/ MainLoopTest \/ MainLock \/ ThreadCreate \/ MainUnlock \/ ThreadJoin

-----------------------------------------------------------------------------
Init ==
    /\ owner = NoOwner
    /\ tpc = [t \in Tids |-> "off"]
    /\ titer = [t \in Tids |-> 0]
    /\ mpc = "loop" /\ j = 0 /\ i = 0

Next == Main \/ \E t \in Tids : ThreadFunc(t)

(* Hardware threads each run on their own.  A thread stalled in k0lock    *)
(* waits while other threads take and free the lock; the hardware grants  *)
(* the free lock to a stalled thread, which strong fairness states.       *)
Fairness ==
    /\ WF_vars(Main) /\ SF_vars(MainLock)
    /\ \A t \in Tids : /\ WF_vars(ThreadFunc(t))
                     /\ SF_vars(LockStep(t) /\ UNCHANGED <<mpc, j, i>>)

Spec == Init /\ [][Next]_vars /\ Fairness

-----------------------------------------------------------------------------
(* The lock main holds while it creates a batch is its own: no thread of  *)
(* the batch -- nor a stray second k0unlock of an earlier batch -- lets a *)
(* thread past k0lock before main's k0unlock.                              *)
MainHoldExclusive ==
    mpc = "create" => \A t \in Tids : tpc[t] # "unlock1"

(* The probe prints PASS: every batch's threads finish their rounds       *)
(* although half of their k0unlocks are made without the lock, and main's  *)
(* loop creates `work` threads in all.                                     *)
ProbeTerminates == <>(mpc = "finished" /\ j = Work)
=============================================================================
