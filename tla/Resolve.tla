------------------------------ MODULE Resolve ------------------------------
(***************************************************************************)
(* Phase 6, resolve.Resolver: the recursion of resolve_instance over the   *)
(* instances' bodies, the three tables it files instances in, and the      *)
(* exceptions that unwind it.  A body is the sequence of the calls its     *)
(* statements make into resolve_instance ("Human = Base", "weapon = Axe"), *)
(* with Fail standing for a statement that raises GDDLResolveError and     *)
(* Crash for one that raises an exception that is not a GDDLResolveError;  *)
(* statements that only store a value do not move the control and are left *)
(* out.  "errors" starts with the instances phases 4 and 5 refused.        *)
(***************************************************************************)
EXTENDS Naturals, Sequences, Functions

CONSTANTS Name, DeclOrder, Fail, Crash, NoRoot,
          NoExc,    \* no exception is unwinding the stack
          OwnError, \* a GDDLResolveError that is not a DependencyFailedError
          Body      \* the bodies an instance may have

Step == Name \cup {Fail, Crash}

ASSUME ResolveAssumption ==
  /\ Body \subseteq Seq(Step)
  /\ DeclOrder \in Seq(Name)
  /\ Fail \notin Name /\ Crash \notin Name /\ NoRoot \notin Name
  /\ NoExc \notin Name /\ OwnError \notin Name
  /\ Fail # Crash /\ NoExc # OwnError /\ NoExc # Crash /\ OwnError # Crash

Instance == Range(DeclOrder)

VARIABLES body, cache, errors, blocked,
          resolving,  \* Resolver._resolving
          stack,      \* the active resolve_instance calls, outermost first
          pc,         \* the step of its body an active instance is at
          raised,     \* NoExc, OwnError, Crash, or the root of a
                      \* DependencyFailedError
          next        \* position of resolve_all in DeclOrder

vars == <<body, cache, errors, blocked, resolving, stack, pc, raised, next>>

Blocked == {n \in Instance : blocked[n] # NoRoot}
Filed == cache \cup errors \cup Blocked
RootOf(m) == IF m \in errors THEN m ELSE blocked[m]

Top == stack[Len(stack)]
Caller == stack[Len(stack) - 1]

TypeOK ==
  /\ body \in [Instance -> Body]
  /\ cache \subseteq Instance
  /\ errors \subseteq Instance
  /\ blocked \in [Instance -> Instance \cup {NoRoot}]
  /\ resolving \subseteq Instance
  /\ stack \in Seq(Instance)
  /\ pc \in [Instance -> Nat \ {0}]
  /\ raised \in Instance \cup {NoExc, OwnError, Crash}
  /\ next \in 1 .. Len(DeclOrder) + 1

(* The instances n's body copies from: the edges of phase 4's graph. *)
Refs(n) == Range(body[n]) \cap Name

(* A set of instances phase 4 left clean has no cycle of references. *)
AcyclicOn(clean) ==
  \A S \in SUBSET clean :
    S # {} => \E n \in S : Refs(n) \cap S = {}

Init ==
  /\ body \in [Instance -> Body]
  /\ cache = {}
  /\ errors \in SUBSET Instance
  /\ AcyclicOn(Instance \ errors)
  /\ blocked = [n \in Instance |-> NoRoot]
  /\ resolving = {}
  /\ stack = << >>
  /\ pc = [n \in Instance |-> 1]
  /\ raised = NoExc
  /\ next = 1

Idle == stack = << >> /\ raised = NoExc

(* resolve_instance(n) gets past its checks and begins n's body. *)
Enter(n) ==
  /\ stack' = Append(stack, n)
  /\ resolving' = resolving \cup {n}

(* Mutant of StartInstance: only the cache is looked up. *)
StartUncached ==
  /\ Idle /\ next <= Len(DeclOrder) /\ DeclOrder[next] \notin cache
  /\ Enter(DeclOrder[next])
  /\ next' = next + 1
  /\ UNCHANGED <<body, cache, errors, blocked, pc, raised>>

StartInstance ==
  /\ Idle
  /\ next <= Len(DeclOrder)
  /\ DeclOrder[next] \notin Filed
  /\ Enter(DeclOrder[next])
  /\ next' = next + 1
  /\ UNCHANGED <<body, cache, errors, blocked, pc, raised>>

SkipInstance ==
  /\ Idle
  /\ next <= Len(DeclOrder)
  /\ DeclOrder[next] \in Filed
  /\ next' = next + 1
  /\ UNCHANGED <<body, cache, errors, blocked, resolving, stack, pc, raised>>

AtStep ==
  /\ stack # << >>
  /\ raised = NoExc
  /\ pc[Top] <= Len(body[Top])

Current == body[Top][pc[Top]]

(* A step that copies: the checks of resolve_instance in their order. *)
UseCached ==
  /\ AtStep
  /\ Current \in cache
  /\ pc' = [pc EXCEPT ![Top] = @ + 1]
  /\ UNCHANGED <<body, cache, errors, blocked, resolving, stack, raised, next>>

(* Mutant of MeetFailed: the direct dependency stands in for its root. *)
MeetFailedDirect ==
  /\ AtStep
  /\ Current \in (errors \cup Blocked) \ cache
  /\ raised' = Current
  /\ UNCHANGED <<body, cache, errors, blocked, resolving, stack, pc, next>>

MeetFailed ==
  /\ AtStep
  /\ Current \in (errors \cup Blocked) \ cache
  /\ raised' = RootOf(Current)
  /\ UNCHANGED <<body, cache, errors, blocked, resolving, stack, pc, next>>

Backstop == AtStep /\ Current \in resolving \ Filed

(* The step is itself at fault, names no instance, or meets the backstop. *)
MeetOwnError ==
  /\ AtStep
  /\ Current \in (Step \ (Instance \cup {Crash})) \/ Backstop
  /\ raised' = OwnError
  /\ UNCHANGED <<body, cache, errors, blocked, resolving, stack, pc, next>>

Descend ==
  /\ AtStep
  /\ Current \in Instance \ (Filed \cup resolving)
  /\ Enter(Current)
  /\ UNCHANGED <<body, cache, errors, blocked, pc, raised, next>>

MeetCrash ==
  /\ AtStep
  /\ Current = Crash
  /\ raised' = Crash
  /\ UNCHANGED <<body, cache, errors, blocked, resolving, stack, pc, next>>

(* The top call is over: its caller, if any, is on top again. *)
Leave ==
  /\ stack' = SubSeq(stack, 1, Len(stack) - 1)
  /\ resolving' = resolving \ {Top}

(* The body is done: Top is cached and its caller goes on past the call. *)
Complete ==
  /\ stack # << >>
  /\ raised = NoExc
  /\ pc[Top] > Len(body[Top])
  /\ cache' = cache \cup {Top}
  /\ Leave
  /\ pc' = IF Len(stack) > 1 THEN [pc EXCEPT ![Caller] = @ + 1] ELSE pc
  /\ UNCHANGED <<body, errors, blocked, raised, next>>

(* Mutant of FileBlocked: the handlers are in the other order. *)
FileBlockedAsError ==
  /\ stack # << >> /\ raised \in Instance
  /\ errors' = errors \cup {Top}
  /\ raised' = Top
  /\ Leave
  /\ UNCHANGED <<body, cache, blocked, pc, next>>

(* except DependencyFailedError: the exception goes on with the same root. *)
FileBlocked ==
  /\ stack # << >>
  /\ raised \in Instance
  /\ blocked' = [blocked EXCEPT ![Top] = raised]
  /\ Leave
  /\ UNCHANGED <<body, cache, errors, pc, raised, next>>

(* except GDDLResolveError: whoever called is blocked on Top. *)
FileError ==
  /\ stack # << >>
  /\ raised = OwnError
  /\ errors' = errors \cup {Top}
  /\ raised' = Top
  /\ Leave
  /\ UNCHANGED <<body, cache, blocked, pc, next>>

(* resolve_all swallows the DependencyFailedError and goes on. *)
Swallow ==
  /\ stack = << >>
  /\ raised \in Instance
  /\ raised' = NoExc
  /\ UNCHANGED <<body, cache, errors, blocked, resolving, stack, pc, next>>

(* Any other exception leaves resolve_all with the stack it has unwound. *)
Aborted == raised = Crash
Done == Idle /\ next > Len(DeclOrder)
Ended == Done \/ Aborted

Finished == Ended /\ UNCHANGED vars

Next ==
  \/ StartInstance \/ SkipInstance
  \/ UseCached \/ MeetFailed \/ MeetOwnError \/ Descend \/ MeetCrash
  \/ Complete \/ FileBlocked \/ FileError \/ Swallow
  \/ Finished

Spec == Init /\ [][Next]_vars /\ WF_vars(Next)

-----------------------------------------------------------------------------
(* Each instance is in at most one of cache, errors and blocked, at every  *)
(* moment, and in exactly one when the pass is over.                       *)
FiledOnce ==
  /\ cache \cap errors = {}
  /\ (cache \cup errors) \cap Blocked = {}
  /\ Done => Filed = Instance

(* A blocked instance points at a failed instance, and the first step its  *)
(* body could not get past leads there: directly, or through an instance   *)
(* blocked on the same root.  Everything before that step is resolved.     *)
BlockedOnRootCause ==
  \A n \in Blocked :
    /\ blocked[n] \in errors
    /\ \E i \in DOMAIN body[n] :
         /\ \A j \in 1 .. i - 1 : body[n][j] \in cache
         /\ body[n][i] \in errors \cup Blocked
         /\ blocked[n] = RootOf(body[n][i])

(* A resolved instance was built from resolved instances only. *)
CachedFromCached == \A n \in cache : Range(body[n]) \subseteq cache

(* The circular-reference backstop "never reaches here in practice", given *)
(* the instances phase 4 has put in errors.                                *)
BackstopUnreached == ~Backstop

(* An instance's verdict is final: no later call changes or moves it. *)
VerdictFinal ==
  [][/\ cache \subseteq cache'
     /\ errors \subseteq errors'
     /\ \A n \in Blocked : blocked'[n] = blocked[n]]_vars

(* The detailed recursion implements the contract: every step is one of    *)
(* the contract's or changes nothing it tells of, and the pass goes on     *)
(* until every instance is filed, unless an exception ends it.             *)
Outcome == INSTANCE ResolveOutcome
ImplementsOutcome ==
  /\ Outcome!Init
  /\ [][Outcome!Next]_(Outcome!vars)
  /\ <>Aborted \/ WF_(Outcome!vars)(Outcome!Next)
=============================================================================
