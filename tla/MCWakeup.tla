------------------------------- MODULE MCWakeup -------------------------------
(***************************************************************************)
(* Model-checking instances of Wakeup.                                     *)
(***************************************************************************)
EXTENDS Wakeup, TLC
===============================================================================
