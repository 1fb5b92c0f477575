------------------------------ MODULE TopoSort ------------------------------
(***************************************************************************)
(* The order in which the C and C++ exporters emit struct types: the       *)
(* depth-first search _topo_sort_defines, from all the defines or, for the *)
(* 68000 exporter, from the types that were asked for.  "uses" is what the *)
(* search reads of the defines: the struct types of a type's fields, field *)
(* by field.  The recursion of visit is "stack", and at[t] is the field    *)
(* that the frame of t looks at next.                                      *)
(***************************************************************************)
EXTENDS Naturals, Sequences, Functions

CONSTANT Type               \* the names of the defines

VARIABLES uses, roots,      \* the input, which the search leaves alone
          visited, visiting, stack, at, next,
          order,            \* the types left, in the order they were left
          raised            \* the ValueError about a circular composition

topoVars == <<uses, roots, visited, visiting, stack, at, next, order, raised>>

TopoTypeOK ==
  /\ uses \in [Type -> Seq(Type)]
  /\ roots \in Seq(Type)
  /\ visited \in SUBSET Type /\ visiting \in SUBSET Type
  /\ stack \in Seq(Type) /\ order \in Seq(Type)
  /\ at \in [Type -> Nat \ {0}]
  /\ next \in 1 .. Len(roots) + 1
  /\ raised \in BOOLEAN

TopoStart ==
  /\ visited = {} /\ visiting = {}
  /\ stack = << >> /\ order = << >>
  /\ at = [t \in Type |-> 1]
  /\ next = 1
  /\ raised = FALSE

TopoInit ==
  /\ uses \in [Type -> Seq(Type)]
  /\ roots \in Seq(Type)
  /\ TopoStart

Frame == stack[Len(stack)]

(* visit(t) goes on past its first two tests. *)
Enter(t) ==
  /\ visiting' = visiting \cup {t}
  /\ stack' = Append(stack, t)

VisitRoot ==
  /\ ~raised /\ stack = << >> /\ next <= Len(roots)
  /\ roots[next] \notin visited
  /\ Enter(roots[next])
  /\ next' = next + 1
  /\ UNCHANGED <<uses, roots, visited, at, order, raised>>

SkipRoot ==
  /\ ~raised /\ stack = << >> /\ next <= Len(roots)
  /\ roots[next] \in visited
  /\ next' = next + 1
  /\ UNCHANGED <<uses, roots, visited, visiting, stack, at, order, raised>>

AtField == ~raised /\ stack # << >> /\ at[Frame] <= Len(uses[Frame])
FieldType == uses[Frame][at[Frame]]

MeetVisited ==
  /\ AtField
  /\ FieldType \in visited
  /\ at' = [at EXCEPT ![Frame] = @ + 1]
  /\ UNCHANGED <<uses, roots, visited, visiting, stack, next, order, raised>>

(* Mutant of Circular: any type not yet left counts as being visited. *)
CircularIfNotLeft ==
  /\ AtField
  /\ FieldType \notin visited
  /\ raised' = TRUE
  /\ UNCHANGED <<uses, roots, visited, visiting, stack, at, next, order>>

Circular ==
  /\ AtField
  /\ FieldType \notin visited /\ FieldType \in visiting
  /\ raised' = TRUE
  /\ UNCHANGED <<uses, roots, visited, visiting, stack, at, next, order>>

(* The frame waits at this field: when it looks again the type is visited. *)
Descend ==
  /\ AtField
  /\ FieldType \notin visited /\ FieldType \notin visiting
  /\ Enter(FieldType)
  /\ UNCHANGED <<uses, roots, visited, at, next, order, raised>>

(* Mutant of Leave: a type is emitted before the types it composes. *)
LeaveFirst ==
  /\ ~raised /\ stack # << >> /\ at[Frame] > Len(uses[Frame])
  /\ stack' = SubSeq(stack, 1, Len(stack) - 1)
  /\ visiting' = visiting \ {Frame}
  /\ visited' = visited \cup {Frame}
  /\ order' = <<Frame>> \o order
  /\ UNCHANGED <<uses, roots, at, next, raised>>

(* Mutant of Leave: a type may be left with its last field not looked at. *)
LeaveEarly ==
  /\ ~raised /\ stack # << >> /\ at[Frame] >= Len(uses[Frame])
  /\ stack' = SubSeq(stack, 1, Len(stack) - 1)
  /\ visiting' = visiting \ {Frame}
  /\ visited' = visited \cup {Frame}
  /\ order' = Append(order, Frame)
  /\ UNCHANGED <<uses, roots, at, next, raised>>

Leave ==
  /\ ~raised /\ stack # << >> /\ at[Frame] > Len(uses[Frame])
  /\ stack' = SubSeq(stack, 1, Len(stack) - 1)
  /\ visiting' = visiting \ {Frame}
  /\ visited' = visited \cup {Frame}
  /\ order' = Append(order, Frame)
  /\ UNCHANGED <<uses, roots, at, next, raised>>

TopoNext == VisitRoot \/ SkipRoot \/ MeetVisited \/ Circular \/ Descend \/ Leave

Ordered == ~raised /\ stack = << >> /\ next > Len(roots)

TopoSpec == TopoInit /\ [][TopoNext]_topoVars

-----------------------------------------------------------------------------
(* A set of types that all the types composed into its members belong to.  *)
Closed(S) == \A t \in S : Range(uses[t]) \subseteq S

(* A struct is emitted after every struct it has a member of, and once: a  *)
(* C++ member needs a complete type and a second definition is an error.   *)
NestedFirst ==
  \A k \in 1 .. Len(order) :
    /\ \A u \in Range(uses[order[k]]) : \E j \in 1 .. k - 1 : order[j] = u
    /\ \A j \in 1 .. k - 1 : order[j] # order[k]

(* The exporter refuses a schema as circular only when some types really   *)
(* do contain each other: a type that two others share is not a cycle.     *)
RaisedOnCycle ==
  raised => \E S \in SUBSET Type :
              S # {} /\ \A t \in S : Range(uses[t]) \cap S # {}

(* A request for a subset of the types emits exactly the structs it needs: *)
(* those asked for, what they are composed of, and nothing else of the     *)
(* same file (the reason "roots" was added).                               *)
ExactlyNeeded ==
  Ordered =>
    /\ Range(roots) \subseteq Range(order)
    /\ Closed(Range(order))
    /\ \A S \in SUBSET Type :
         Range(roots) \subseteq S /\ Closed(S) => Range(order) \subseteq S
=============================================================================
