--------------------------- MODULE MCCycleDetect ---------------------------
(* Every graph over three declared instances and one undeclared name, and  *)
(* every order in which the neighbours of a node can be visited.           *)
EXTENDS CycleDetect

CONSTANTS a, b, c, u

MCName == {a, b, c, u}
MCDeclOrder == <<a, b, c>>
=============================================================================
