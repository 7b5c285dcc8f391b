----------------------------- MODULE MC_SwiWait -----------------------------
EXTENDS SwiWait

(* Two of the eight interrupt lines; line 0 is the one wait_for_wait raises. *)
MCLines == 0..1
=============================================================================
