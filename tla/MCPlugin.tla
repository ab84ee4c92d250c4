------------------------------- MODULE MCPlugin -------------------------------
(***************************************************************************)
(* Model-checking instances of Plugin.                                     *)
(***************************************************************************)
EXTENDS Plugin, TLC
===============================================================================
