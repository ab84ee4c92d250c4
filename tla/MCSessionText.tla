---------------------------- MODULE MCSessionText -----------------------------
(***************************************************************************)
(* Model-checking instances of SessionText.                                *)
(***************************************************************************)
EXTENDS SessionText

\* A letter of either case, and a keyword of two letters.
SomeKeywords == {<<"x">>, <<"X", "x">>, <<"s", "x">>}
===============================================================================
