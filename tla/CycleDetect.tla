---------------------------- MODULE CycleDetect ----------------------------
(***************************************************************************)
(* Phase 4's detection of circular instance copies: the depth-first search *)
(* Registry._detect_circular_dependencies runs over the graph whose edge   *)
(* n -> m says that instance n copies from m.  The graph is an input; the  *)
(* recursion of dfs is the stack "path", and the neighbours a frame has    *)
(* still to iterate over are "pending".  The neighbours of a node are a    *)
(* Python set, iterated over in no order the program fixes.                *)
(***************************************************************************)
EXTENDS Naturals, Sequences, Functions

CONSTANTS Name,         \* names a source file may mention
          DeclOrder     \* the declared instances, in the order of the file

ASSUME DeclOrderAssumption == DeclOrder \in Seq(Name)

Instance == Range(DeclOrder)

VARIABLES graph,    \* graph[n]: the names n depends on, declared or not
          color,    \* white: not reached, gray: on the path, black: left
          path,     \* the frames of dfs, root first
          pending,  \* neighbours the frame of a gray node has not visited
          errors,   \* errors[n]: the cycle reported for n, << >> if none
          next      \* position in DeclOrder of the outer loop

vars == <<graph, color, path, pending, errors, next>>

TypeOK ==
  /\ graph \in [Instance -> SUBSET Name]
  /\ color \in [Instance -> {"white", "gray", "black"}]
  /\ path \in Seq(Instance)
  /\ pending \in [Instance -> SUBSET Name]
  /\ errors \in [Instance -> Seq(Instance)]
  /\ next \in 1 .. Len(DeclOrder) + 1

Reported == {n \in Instance : errors[n] # << >>}

Top == path[Len(path)]

Init ==
  /\ graph \in [Instance -> SUBSET Name]
  /\ color = [n \in Instance |-> "white"]
  /\ path = << >>
  /\ pending = [n \in Instance |-> {}]
  /\ errors = [n \in Instance |-> << >>]
  /\ next = 1

(* dfs(n) begins: n turns gray and all its neighbours are to be visited. *)
Push(n) ==
  /\ color' = [color EXCEPT ![n] = "gray"]
  /\ path' = Append(path, n)

(* The loop "for name in graph" calls dfs on every instance still white. *)
StartRoot ==
  /\ path = << >>
  /\ next <= Len(DeclOrder)
  /\ color[DeclOrder[next]] = "white"
  /\ Push(DeclOrder[next])
  /\ pending' = [pending EXCEPT ![DeclOrder[next]] = graph[DeclOrder[next]]]
  /\ next' = next + 1
  /\ UNCHANGED <<graph, errors>>

SkipRoot ==
  /\ path = << >>
  /\ next <= Len(DeclOrder)
  /\ color[DeclOrder[next]] # "white"
  /\ next' = next + 1
  /\ UNCHANGED <<graph, color, path, pending, errors>>

(* Mutant of ClosedBy: the path is not cut at m. *)
ClosedByWholePath(m) == Append(path, m)

(* The part of the path that an edge from its top to m closes.  m is on    *)
(* the path at most once, so path.index(m) is the only position.           *)
ClosedBy(m) ==
  LET i == CHOOSE k \in 1 .. Len(path) : path[k] = m
  IN  Append(SubSeq(path, i, Len(path)), m)

(* record_cycle: every participant that has no report yet gets this one. *)
RecordCycle(cycle) ==
  [n \in Instance |->
     IF n \in Range(cycle) /\ errors[n] = << >> THEN cycle ELSE errors[n]]

(* One iteration of dfs's loop: an undeclared name is some other phase's   *)
(* error and a black neighbour is done with.                               *)
VisitDone(m) ==
  /\ m \in Instance => color[m] = "black"
  /\ pending' = [pending EXCEPT ![Top] = @ \ {m}]
  /\ UNCHANGED <<graph, color, path, errors, next>>

(* Mutant of VisitGray: a node on the path is passed over. *)
VisitGraySilent(m) ==
  /\ m \in Instance /\ color[m] = "gray"
  /\ pending' = [pending EXCEPT ![Top] = @ \ {m}]
  /\ UNCHANGED <<graph, color, path, errors, next>>

VisitGray(m) ==
  /\ m \in Instance /\ color[m] = "gray"
  /\ errors' = RecordCycle(ClosedBy(m))
  /\ pending' = [pending EXCEPT ![Top] = @ \ {m}]
  /\ UNCHANGED <<graph, color, path, next>>

VisitWhite(m) ==
  /\ m \in Instance /\ color[m] = "white"
  /\ Push(m)
  /\ pending' = [pending EXCEPT ![Top] = @ \ {m}, ![m] = graph[m]]
  /\ UNCHANGED <<graph, errors, next>>

Visit ==
  /\ path # << >>
  /\ \E m \in pending[Top] : VisitDone(m) \/ VisitGray(m) \/ VisitWhite(m)

(* dfs returns: its node leaves the path and turns black. *)
Leave ==
  /\ path # << >>
  /\ pending[Top] = {}
  /\ path' = SubSeq(path, 1, Len(path) - 1)
  /\ color' = [color EXCEPT ![Top] = "black"]
  /\ UNCHANGED <<graph, pending, errors, next>>

Done == path = << >> /\ next > Len(DeclOrder)

Finished == Done /\ UNCHANGED vars

Next == StartRoot \/ SkipRoot \/ Visit \/ Leave \/ Finished

Spec == Init /\ [][Next]_vars

-----------------------------------------------------------------------------
(* c is a cycle of the dependency graph, its first node repeated last. *)
IsCycle(c) ==
  /\ Len(c) > 1
  /\ c[1] = c[Len(c)]
  /\ \A i \in 1 .. Len(c) - 1 : c[i + 1] \in graph[c[i]]

(* Some nonempty set of clean instances, each depending on another of the  *)
(* set, is what a cycle made of clean instances only comes to.             *)
AcyclicOn(clean) ==
  \A S \in SUBSET clean :
    S # {} => \E n \in S : graph[n] \cap S = {}

(* Soundness: an instance is reported as circular only with a real cycle   *)
(* of the dependency graph that runs through that very instance, so no     *)
(* instance is refused for a cycle it is merely reachable from.            *)
ReportedOnCycle ==
  \A n \in Reported : IsCycle(errors[n]) /\ n \in Range(errors[n])

(* Every participant of a cycle named in a report is itself reported (with *)
(* this cycle or with one found earlier): no half-reported cycle.          *)
WholeCycleReported ==
  \A n \in Reported : Range(errors[n]) \subseteq Reported

(* Completeness, which phase 6 relies on to terminate: when the search is  *)
(* over, every cycle of the graph contains a reported instance.            *)
NoCleanCycle == Done => AcyclicOn(Instance \ Reported)

(* "First cycle found involving this instance wins": a report, once made,  *)
(* is never replaced by a cycle that is found later.                       *)
FirstReportWins ==
  [][\A n \in Reported : errors'[n] = errors[n]]_vars
=============================================================================
