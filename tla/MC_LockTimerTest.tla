------------------------- MODULE MC_LockTimerTest -------------------------
(***************************************************************************)
(* Model-checking instance of LockTimerTest: two workers contending for    *)
(* the lock over both phases.  The values are given in the cfg files.     *)
(***************************************************************************)
EXTENDS LockTimerTest

MCLines == 0..0
=============================================================================
