----------------------------- MODULE MCHookDir -----------------------------
(* Model values for HookDir.                                                     *)
EXTENDS HookDir, TLC
=============================================================================
