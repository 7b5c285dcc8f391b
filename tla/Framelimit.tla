------------------------------ MODULE Framelimit ------------------------------
(***************************************************************************)
(* framelimit.c: main runs test_framelimit(overflow, user_mode) for        *)
(* (T,F), (F,T), (T,T).  Each sets FRAMELIMIT one STACK_SIZE below SP,     *)
(* makes one allocframe (of OVERFLOW_SIZE or MIN_ALLOC_SIZE), undoes it    *)
(* with deallocframe unless an overflow was made in user mode, clears      *)
(* FRAMELIMIT, returns to kernel mode and checks framelimit_exception_found.*)
(*                                                                         *)
(* SP and FP are offsets from main's SP; frames is the stack of FP values  *)
(* allocframe saved, the caller's first.                                   *)
(***************************************************************************)
EXTENDS Integers, Sequences

MIN_ALLOC_SIZE == 8
STACK_SIZE == 4096
OVERFLOW_SIZE == STACK_SIZE + MIN_ALLOC_SIZE

(* SP and FP with which main calls test_framelimit, and the FP saved in    *)
(* test_framelimit's own frame (main's).                                   *)
SP0 == -32
FP0 == -16
MAIN_FP == 64

VARIABLES
    framelimit_exception_found,
    err,
    mode,           \* SSR:UM
    sp, fp, frames,
    framelimit,
    pc,             \* the test main is running
    step

vars == <<framelimit_exception_found, err, mode, sp, fp, frames, framelimit,
          pc, step>>

Tests == << [overflow |-> TRUE,  user |-> FALSE],
            [overflow |-> FALSE, user |-> TRUE],
            [overflow |-> TRUE,  user |-> TRUE] >>

T == Tests[pc]

(* allocframe(#n) (v79 system specification): the frame record goes to    *)
(* SP - 8 and SP becomes SP - 8 - n.  In user mode a new SP below          *)
(* FRAMELIMIT raises HEX_CAUSE_STACK_LIMIT before anything is written; the *)
(* test expects no check in kernel mode.                                    *)
StackLimit(n) == mode = "user" /\ sp - 8 - n < framelimit

AllocFrame(n) ==
    /\ frames' = <<fp>> \o frames
    /\ fp' = sp - 8 /\ sp' = sp - 8 - n

(* deallocframe: SP = FP + 8 and FP is reloaded from the frame record. *)
DeallocFrame ==
    /\ sp' = fp + 8 /\ fp' = Head(frames) /\ frames' = Tail(frames)

(* An expectation that leaves out the mode. *)
ExpectedOverflowOnly(t) == t.overflow

(* check32(framelimit_exception_found, overflow && user_mode) *)
Expected(t) == t.overflow /\ t.user

(* A deallocframe that does not depend on the mode. *)
AfterAllocAlwaysDealloc(t) == "dealloc"

(* if (!user_mode) deallocframe, after the overflow; the small frame is *)
(* always released.                                                      *)
AfterAlloc(t) == IF t.overflow /\ t.user THEN "leave" ELSE "dealloc"

-----------------------------------------------------------------------------
(* framelimit_exception_found = false; enter_user_mode() if user_mode;    *)
(* set_framelimit(get_stack_ptr() - STACK_SIZE)                           *)
Enter ==
    /\ pc \in 1..Len(Tests) /\ step = "enter"
    /\ framelimit_exception_found' = FALSE
    /\ mode' = IF T.user THEN "user" ELSE mode
    /\ framelimit' = sp - STACK_SIZE
    /\ step' = "alloc"
    /\ UNCHANGED <<err, sp, fp, frames, pc>>

(* allocframe(#OVERFLOW_SIZE) or allocframe(#MIN_ALLOC_SIZE).  On a stack *)
(* limit the handler sets framelimit_exception_found and inc_elr(4) skips  *)
(* the allocframe.                                                         *)
Alloc ==
    LET n == IF T.overflow THEN OVERFLOW_SIZE ELSE MIN_ALLOC_SIZE IN
    /\ pc \in 1..Len(Tests) /\ step = "alloc"
    /\ \/ StackLimit(n) /\ framelimit_exception_found' = TRUE
          /\ UNCHANGED <<sp, fp, frames>>
       \/ ~StackLimit(n) /\ AllocFrame(n)
          /\ UNCHANGED framelimit_exception_found
    /\ step' = AfterAlloc(T)
    /\ UNCHANGED <<err, mode, framelimit, pc>>

(* deallocframe: after the small frame, or after the overflow in kernel mode *)
Dealloc ==
    /\ pc \in 1..Len(Tests) /\ step = "dealloc"
    /\ DeallocFrame
    /\ step' = "leave"
    /\ UNCHANGED <<framelimit_exception_found, err, mode, framelimit, pc>>

(* set_framelimit(0); enter_kernel_mode(), which in user mode traps with  *)
(* PRIV_USER_NO_SINS and the handler enters kernel mode; check32.         *)
Leave ==
    /\ pc \in 1..Len(Tests) /\ step = "leave"
    /\ framelimit' = 0 /\ mode' = "kernel"
    /\ err' = (err \/ framelimit_exception_found # Expected(T))
    /\ pc' = pc + 1 /\ step' = "enter"
    /\ UNCHANGED <<framelimit_exception_found, sp, fp, frames>>

(* puts(err ? "FAIL" : "PASS"); return err *)
Finished == pc = Len(Tests) + 1 /\ UNCHANGED vars

Init ==
    /\ framelimit_exception_found = FALSE /\ err = FALSE /\ mode = "kernel"
    /\ sp = SP0 /\ fp = FP0 /\ frames = <<MAIN_FP>> /\ framelimit = 0
    /\ pc = 1 /\ step = "enter"

Next == Enter \/ Alloc \/ Dealloc \/ Leave \/ Finished

Spec == Init /\ [][Next]_vars

-----------------------------------------------------------------------------
(* Every test_framelimit leaves SP, FP and the saved frames as main called *)
(* it with: a frame is released exactly when one was allocated, also when *)
(* the user-mode overflow's allocframe was skipped by the handler.         *)
StackBalanced ==
    step = "enter" => sp = SP0 /\ fp = FP0 /\ frames = <<MAIN_FP>>

(* main prints PASS: the exception is seen exactly for the user-mode overflow. *)
TestPasses == pc = Len(Tests) + 1 => ~err
=============================================================================
