----------------------------- MODULE MCFrontEnd -----------------------------
(* Every program of three instances with bodies of at most one step of any *)
(* kind, and of two steps over the names of Pairs; the second copy of two  *)
(* may be hidden from phase 4 below the first.                             *)
EXTENDS FrontEnd

CONSTANTS a, b, c, u, Pairs

MCName == {a, b, c, u}
MCDeclOrder == <<a, b, c>>
MCBody == {<< >>} \cup [1 .. 1 -> MCName \cup {Fail, Crash}] \cup [1 .. 2 -> Pairs]
=============================================================================
