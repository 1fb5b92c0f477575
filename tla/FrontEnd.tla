------------------------------ MODULE FrontEnd ------------------------------
(***************************************************************************)
(* The compiler from registration to the build gate, as one pipeline:      *)
(* resolve.resolve_all runs phase 4's cycle detection (CycleDetect), seeds *)
(* the resolver with its reports and with phase 5's, runs phase 6          *)
(* (Resolve), and validate.check_and_report lets an exporter run or not.   *)
(*                                                                         *)
(* Phase 4 does not see the references themselves but what                 *)
(* _instance_dependencies finds by walking the body with the DECLARED      *)
(* types of the fields.  A field given a value of another type (nothing    *)
(* checks it) is walked with the value's type in phase 6, so a reference   *)
(* below it can be hidden from phase 4: "hidden".                          *)
(***************************************************************************)
EXTENDS Naturals, Sequences, FiniteSets, Functions

CONSTANTS Name, DeclOrder, Fail, Crash, NoRoot, NoExc, OwnError, Body,
          MayHide   \* whether the program may confuse types

ASSUME FrontEndAssumption ==
  /\ Body \subseteq Seq(Name \cup {Fail, Crash})
  /\ DeclOrder \in Seq(Name)
  /\ Fail \notin Name /\ Crash \notin Name /\ NoRoot \notin Name
  /\ NoExc \notin Name /\ OwnError \notin Name
  /\ Fail # Crash /\ NoExc # OwnError /\ NoExc # Crash /\ OwnError # Crash

Instance == Range(DeclOrder)

VARIABLES
  body, hidden,                        \* the program
  color, path, pending, cycles, node,  \* phase 4
  phase,                               \* "cycles", "resolve", "report", "end"
  diagnosis,  \* the phase that reported each instance's own error, 0 if none
  cache, errors, blocked, resolving, stack, pc, raised, next,  \* phase 6
  verdict     \* what check_and_report returned, "none" before it did

detectVars == <<color, path, pending, cycles, node>>
resolveVars == <<cache, errors, blocked, resolving, stack, pc, raised, next>>
vars == <<body, hidden, detectVars, phase, diagnosis, resolveVars, verdict>>

Refs(n) == Range(body[n]) \cap Name

(* _instance_dependencies: the references the static walk comes across. *)
Dependencies == [n \in Instance |-> Refs(n) \ hidden[n]]

Detect == INSTANCE CycleDetect
            WITH graph <- Dependencies, errors <- cycles, next <- node
Resolver == INSTANCE Resolve

Circular == Detect!Reported

(* Only a reference below a field already assigned an instance can hide:   *)
(* at the top of a body the value has the declared type.                   *)
Hideable(n) ==
  /\ hidden[n] \subseteq Refs(n)
  /\ \A j \in DOMAIN body[n] : body[n][j] \in hidden[n] =>
       \E i \in 1 .. j - 1 : body[n][i] \in Instance \ hidden[n]

Init ==
  /\ body \in [Instance -> Body]
  /\ hidden \in [Instance -> IF MayHide THEN SUBSET Name ELSE {{}}]
  /\ \A n \in Instance : Hideable(n)
  /\ color = [n \in Instance |-> "white"]
  /\ path = << >>
  /\ pending = [n \in Instance |-> {}]
  /\ cycles = [n \in Instance |-> << >>]
  /\ node = 1
  /\ phase = "cycles"
  /\ diagnosis = [n \in Instance |-> 0]
  /\ cache = {}
  /\ errors = {}
  /\ blocked = [n \in Instance |-> NoRoot]
  /\ resolving = {}
  /\ stack = << >>
  /\ pc = [n \in Instance |-> 1]
  /\ raised = NoExc
  /\ next = 1
  /\ verdict = "none"

DetectStep ==
  /\ phase = "cycles"
  /\ ~Detect!Done
  /\ UNCHANGED <<body, hidden, phase, diagnosis, resolveVars, verdict>>
  /\ Detect!Next

(* Mutant of Seed: only phase 5's errors are seeded. *)
SeedMalformed ==
  /\ phase = "cycles" /\ Detect!Done
  /\ \E malformed \in SUBSET Instance :
       /\ errors' = malformed
       /\ diagnosis' = [n \in Instance |-> IF n \in malformed THEN 5 ELSE 0]
  /\ phase' = "resolve"
  /\ UNCHANGED <<body, hidden, detectVars, cache, blocked, resolving, stack,
                 pc, raised, next, verdict>>

(* Mutant of Seed: phase 5's diagnosis replaces phase 4's. *)
SeedLatest ==
  /\ phase = "cycles" /\ Detect!Done
  /\ \E malformed \in SUBSET Instance :
       /\ errors' = Circular \cup malformed
       /\ diagnosis' = [n \in Instance |-> IF n \in malformed THEN 5
                                           ELSE IF n \in Circular THEN 4 ELSE 0]
  /\ phase' = "resolve"
  /\ UNCHANGED <<body, hidden, detectVars, cache, blocked, resolving, stack,
                 pc, raised, next, verdict>>

(* resolver.errors.update(circular), then setdefault with phase 5's:       *)
(* malformed is the set of instances run_phase5 found an error in.         *)
Seed ==
  /\ phase = "cycles"
  /\ Detect!Done
  /\ \E malformed \in SUBSET Instance :
       /\ errors' = Circular \cup malformed
       /\ diagnosis' = [n \in Instance |->
                          IF n \in Circular THEN 4
                          ELSE IF n \in malformed THEN 5 ELSE 0]
  /\ phase' = "resolve"
  /\ UNCHANGED <<body, hidden, detectVars, cache, blocked, resolving, stack,
                 pc, raised, next, verdict>>

ResolveStep ==
  /\ phase = "resolve"
  /\ ~Resolver!Ended
  /\ Resolver!Next
  /\ diagnosis' = [n \in Instance |->
                     IF n \in errors' \ errors THEN 6 ELSE diagnosis[n]]
  /\ UNCHANGED <<hidden, detectVars, phase, verdict>>

(* Mutant of Return: the compiler waits for every instance. *)
ReturnComplete ==
  /\ phase = "resolve" /\ Resolver!Ended
  /\ phase' = IF Resolver!Filed = Instance THEN "report" ELSE phase
  /\ UNCHANGED <<body, hidden, detectVars, diagnosis, resolveVars, verdict>>

(* An exception resolve_all lets through ends the compiler: no report. *)
Return ==
  /\ phase = "resolve"
  /\ Resolver!Ended
  /\ phase' = IF Resolver!Aborted THEN "end" ELSE "report"
  /\ UNCHANGED <<body, hidden, detectVars, diagnosis, resolveVars, verdict>>

(* compile_report's status of n: "deleted" and "unset" are the delete      *)
(* templates and the instances a field of which has no value.              *)
Status(n, deleted, unset) ==
  IF n \in errors THEN "error"
  ELSE IF n \in Resolver!Blocked THEN "blocked"
  ELSE IF n \in deleted THEN "delete"
  ELSE IF n \in cache \cap unset THEN "incomplete"
  ELSE "ok"

(* Mutant of Report: only phase 4's errors stop the build. *)
ReportStructural ==
  /\ phase = "report"
  /\ \E invalid \in BOOLEAN :
       verdict' = IF ~invalid /\ Circular = {} THEN "build" ELSE "blocked"
  /\ phase' = "end"
  /\ UNCHANGED <<body, hidden, detectVars, diagnosis, resolveVars>>

(* check_and_report: phase 4's list of errors holds the circular ones and, *)
(* if "invalid", others about names, IDs, widths or field types.           *)
Report ==
  /\ phase = "report"
  /\ \E deleted, unset \in SUBSET Instance, invalid \in BOOLEAN :
       verdict' =
         IF /\ ~invalid /\ Circular = {}
            /\ \A n \in Instance : Status(n, deleted, unset) \in {"ok", "delete"}
         THEN "build" ELSE "blocked"
  /\ phase' = "end"
  /\ UNCHANGED <<body, hidden, detectVars, diagnosis, resolveVars>>

Finished == phase = "end" /\ UNCHANGED vars

Next == DetectStep \/ Seed \/ ResolveStep \/ Return \/ Report \/ Finished

Spec == Init /\ [][Next]_vars /\ WF_vars(Next)

-----------------------------------------------------------------------------
(* "it short-circuits at the name in self.errors check above and never     *)
(* reaches here in practice": with every reference visible to phase 4, the *)
(* seeds keep phase 6 off its circular-reference backstop.                 *)
BackstopUnreached ==
  phase = "resolve" /\ (\A n \in Instance : hidden[n] = {}) => ~Resolver!Backstop

(* An exporter runs only on a program all of whose instances resolved and  *)
(* none of whose copies, in the whole graph, are circular.                 *)
BuildIsSound ==
  verdict = "build" =>
    /\ cache = Instance
    /\ Resolver!AcyclicOn(Instance)
    /\ \A n \in Instance : Refs(n) \subseteq cache

(* Each instance that failed for itself is reported once, by the earliest  *)
(* phase that found it at fault, and that diagnosis is never replaced.     *)
EarliestPhaseWins ==
  [][\A n \in Instance : /\ diagnosis[n] # 0 => diagnosis'[n] = diagnosis[n]
                         /\ n \in errors' <=> diagnosis'[n] # 0
                         /\ diagnosis'[n] # 0 /\ n \in Circular'
                              => diagnosis'[n] = 4]_vars

(* The compiler comes to an end on every program. *)
Terminates == <>(phase = "end")
=============================================================================
