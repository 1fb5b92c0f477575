----------------------------- MODULE MCResolve -----------------------------
(* Three instances and one undeclared name, under every set of refused     *)
(* instances that leaves no cycle among the others; bodies of at most one  *)
(* step of any kind, and of two steps of Steps.                            *)
EXTENDS Resolve

CONSTANTS a, b, c, u, Steps

MCName == {a, b, c, u}
MCDeclOrder == <<a, b, c>>
MCBody == {<< >>} \cup [1 .. 1 -> Step] \cup [1 .. 2 -> Steps]
=============================================================================
