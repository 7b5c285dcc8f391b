----------------------------- MODULE CheckForPriv -----------------------------
(***************************************************************************)
(* checkforpriv.c: main enters user mode and executes a supervisor         *)
(* instruction (rte) and a guest one (gelr = r0).  Each traps; the error   *)
(* handler records the cause and skips the instruction (increment_elr(4)). *)
(* Once both are recorded the handler instead returns to kernel mode and   *)
(* lets the trapping instruction run again, because the code after the    *)
(* probes (printf, exit) still runs in user mode and may use a privileged *)
(* instruction.  How many it uses is the library's: each is a "sys" step.  *)
(***************************************************************************)
EXTENDS Integers, Sequences

CONSTANT MaxLibPriv     \* privileged instructions after the probes

NO_SINS == "PRIV_USER_NO_SINS"     \* 0x1b
NO_GINS == "PRIV_USER_NO_GINS"     \* 0x1a

(* What each instruction needs outside user mode, if anything. *)
Needs == [rte |-> NO_SINS, gelr |-> NO_GINS, sys |-> NO_SINS]

VARIABLES
    priv_exception_found, guest_exception_found, err,
    mode,       \* SSR:UM
    prog,       \* main's instructions, from enter_user_mode to return
    pc,
    cause,      \* SSR:CAUSE of the trap being handled, or "none"
    elr         \* the instruction the handler returns to

vars == <<priv_exception_found, guest_exception_found, err, mode, prog, pc,
          cause, elr>>

Instr == prog[pc]

(* The handler's first test, with the probe causes only. *)
ProbesDoneNever(c) == FALSE
ProbesDonePrivOnly(c) == priv_exception_found /\ c \in {NO_SINS, NO_GINS}
ProbesDone(c) ==
    priv_exception_found /\ guest_exception_found /\ c \in {NO_SINS, NO_GINS}

-----------------------------------------------------------------------------
Privileged == Instr \in DOMAIN Needs /\ mode = "user"

(* A privileged instruction in user mode traps: SSR:CAUSE and ELR are set *)
(* and the error event handler runs.                                      *)
Trap ==
    /\ pc \in 1..Len(prog) /\ cause = "none" /\ Privileged
    /\ cause' = Needs[Instr] /\ elr' = pc
    /\ UNCHANGED <<priv_exception_found, guest_exception_found, err, mode,
                   prog, pc>>

(* Any other instruction runs: enter_user_mode, a check32, or a privileged *)
(* one in kernel mode.                                                     *)
Execute ==
    /\ pc \in 1..Len(prog) /\ cause = "none" /\ ~Privileged
    /\ mode' = IF Instr = "user" THEN "user" ELSE mode
    /\ err' = CASE Instr = "check_priv" -> err \/ ~priv_exception_found
                [] Instr = "check_guest" -> err \/ ~guest_exception_found
                [] OTHER -> err
    /\ pc' = pc + 1
    /\ UNCHANGED <<priv_exception_found, guest_exception_found, prog, cause,
                   elr>>

(* checkforpriv_event_handle_error_helper, then the return to ELR *)
Handler ==
    /\ cause # "none"
    /\ \/ ProbesDone(cause) /\ mode' = "kernel" /\ pc' = elr
          /\ UNCHANGED <<priv_exception_found, guest_exception_found>>
       \/ ~ProbesDone(cause)
          /\ priv_exception_found' = (priv_exception_found \/ cause = NO_SINS)
          /\ guest_exception_found' = (guest_exception_found \/ cause = NO_GINS)
          /\ pc' = elr + 1     \* increment_elr(4)
          /\ UNCHANGED mode
    /\ cause' = "none"
    /\ UNCHANGED <<err, prog, elr>>

Finished == pc = Len(prog) + 1 /\ UNCHANGED vars

(* main starts in kernel mode; the probes run after install_my_event_vectors *)
Init ==
    /\ priv_exception_found = FALSE /\ guest_exception_found = FALSE
    /\ err = FALSE /\ mode = "kernel" /\ cause = "none" /\ elr = 0 /\ pc = 1
    /\ \E k \in 0..MaxLibPriv :
         prog = <<"user", "rte", "check_priv", "gelr", "check_guest">>
                \o [n \in 1..k |-> "sys"]

Next == Trap \/ Execute \/ Handler \/ Finished

Spec == Init /\ [][Next]_vars

-----------------------------------------------------------------------------
(* The handler skips only the two probe instructions: a privileged         *)
(* instruction of the code after them is run again in kernel mode, never  *)
(* stepped over, because the early return catches it once both probes are  *)
(* recorded.                                                               *)
SkipsOnlyProbe == Handler /\ pc' # elr => prog[elr] \in {"rte", "gelr"}

OnlyProbesSkipped == [][SkipsOnlyProbe]_vars

(* main prints PASS: each probe trapped with its own cause. *)
TestPasses == pc = Len(prog) + 1 => ~err
=============================================================================
