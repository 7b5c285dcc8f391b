---------------------------- MODULE ThreadLaunch ----------------------------
(***************************************************************************)
(* What the start barrier of thread_common.c promises (spec 4.1), with     *)
(* every operation atomic.  A controller runs a launch program: a          *)
(* sequence of create, start and join operations on sets of thread ids.    *)
(* A created thread reaches its wait point on its own; start(mask) lets    *)
(* the threads of mask run only once every one of them is waiting, and     *)
(* releases them together; join(mask) returns once they have all           *)
(* finished.                                                               *)
(***************************************************************************)
EXTENDS Integers, Sequences

CONSTANTS
    Ids,        \* thread ids a program may name (the controller is 0)
    Programs    \* the launch programs the controller may run

VARIABLES
    prog,   \* the launch program, fixed by Init
    ip,     \* index of the controller's next operation in prog
    st      \* per thread: "off", "created", "waiting", "go", "done"

Op(kind, ids) == [op |-> kind, ids |-> ids]

Waiters(o) == o.ids \ {0}

(* create_waiting(func, tid, arg) *)
Create ==
    /\ ip <= Len(prog) /\ prog[ip].op = "create"
    /\ st' = [t \in Ids |-> IF t \in prog[ip].ids THEN "created" ELSE st[t]]
    /\ ip' = ip + 1
    /\ UNCHANGED prog

(* the thread reaches its wait point *)
Arrive(t) ==
    /\ st[t] = "created"
    /\ st' = [st EXCEPT ![t] = "waiting"]
    /\ UNCHANGED <<prog, ip>>

(* start(mask): all of mask (but the caller) waiting, then all released *)
Start ==
    /\ ip <= Len(prog) /\ prog[ip].op = "start"
    /\ \A t \in Waiters(prog[ip]) : st[t] = "waiting"
    /\ st' = [t \in Ids |-> IF t \in Waiters(prog[ip]) THEN "go" ELSE st[t]]
    /\ ip' = ip + 1
    /\ UNCHANGED prog

(* the released thread runs func(arg) to its end *)
Finish(t) ==
    /\ st[t] = "go"
    /\ st' = [st EXCEPT ![t] = "done"]
    /\ UNCHANGED <<prog, ip>>

(* join(mask) *)
Join ==
    /\ ip <= Len(prog) /\ prog[ip].op = "join"
    /\ \A t \in prog[ip].ids : st[t] = "done"
    /\ ip' = ip + 1
    /\ UNCHANGED <<prog, st>>

Done == ip > Len(prog) /\ UNCHANGED <<prog, ip, st>>

LaunchInit ==
    /\ prog \in Programs
    /\ ip = 1
    /\ st = [t \in Ids |-> "off"]

LaunchNext ==
    Create \/ Start \/ Join \/ Done \/ \E t \in Ids : Arrive(t) \/ Finish(t)

(* Every operation that can go ahead eventually does: every program runs   *)
(* to its end.                                                             *)
LaunchFairness ==
    /\ WF_<<prog, ip, st>>(Create \/ Start \/ Join)
    /\ \A t \in Ids : WF_<<prog, ip, st>>(Arrive(t) \/ Finish(t))

LaunchSpec == LaunchInit /\ [][LaunchNext]_<<prog, ip, st>> /\ LaunchFairness
=============================================================================
