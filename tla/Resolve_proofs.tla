-------------------------- MODULE Resolve_proofs --------------------------
(***************************************************************************)
(* Proofs about the resolver of Resolve, for every list of instances and   *)
(* every body they may have, failing and crashing statements included.     *)
(***************************************************************************)
EXTENDS Resolve, SeqLemmas, TLAPS

-----------------------------------------------------------------------------
(* The inductive invariant, in named parts.                                *)

(* _resolving is the set of the instances on the stack, each there once    *)
(* and with no verdict yet.                                                *)
OnStack(n) == \E k \in 1 .. Len(stack) : stack[k] = n
StackResolving == \A n \in Instance : n \in resolving <=> OnStack(n)
StackDistinct == \A j, k \in 1 .. Len(stack) : stack[j] = stack[k] => j = k
StackUnfiled == \A k \in 1 .. Len(stack) : stack[k] \notin Filed

(* A call on the stack is at a step of its body, everything before which   *)
(* it has copied from resolved instances.                                  *)
StepOf(n) == body[n][pc[n]]
HasStep(n) == pc[n] <= Len(body[n])
PrefixCached(n) ==
  /\ pc[n] <= Len(body[n]) + 1
  /\ \A j \in 1 .. pc[n] - 1 : body[n][j] \in cache
StackPrefix == \A k \in 1 .. Len(stack) : PrefixCached(stack[k])
StackCalls ==
  \A k \in 1 .. Len(stack) - 1 :
    HasStep(stack[k]) /\ StepOf(stack[k]) = stack[k + 1]
Unstarted == \A n \in Instance \ Filed : OnStack(n) \/ pc[n] = 1

(* The premise phase 4 provides.  It is no part of the invariant, so that   *)
(* what needs no premise is known of every program.                        *)
CleanAcyclic == AcyclicOn(Instance \ errors)

(* What an exception that unwinds the stack says of the step it comes from; *)
(* an instance's name is at fault itself only where a cycle is left.       *)
RaisedCause ==
  /\ raised \in Instance =>
       /\ raised \in errors
       /\ stack # << >> =>
            /\ HasStep(Top) /\ StepOf(Top) \in errors \cup Blocked
            /\ RootOf(StepOf(Top)) = raised
  /\ raised = OwnError =>
       stack # << >> /\ HasStep(Top) /\ (CleanAcyclic => StepOf(Top) \notin Instance)

(* The instances resolve_all has passed have a verdict or are being given  *)
(* one.                                                                    *)
RootsReached ==
  \A i \in 1 .. next - 1 : DeclOrder[i] \in Filed \/ OnStack(DeclOrder[i])

Disjoint == cache \cap errors = {} /\ (cache \cup errors) \cap Blocked = {}

(* What is resolved has no cycle: an instance is cached after all it names. *)
CachedAcyclic == AcyclicOn(cache)

IInv ==
  /\ TypeOK
  /\ StackResolving
  /\ StackDistinct
  /\ StackUnfiled
  /\ StackPrefix
  /\ StackCalls
  /\ Unstarted
  /\ RaisedCause
  /\ RootsReached
  /\ Disjoint
  /\ BlockedOnRootCause
  /\ CachedFromCached
  /\ CachedAcyclic

-----------------------------------------------------------------------------
(* Type correctness, and the stack.                                        *)
LEMMA InstanceIndexed ==
  /\ Instance \subseteq Name
  /\ Len(DeclOrder) \in Nat
  /\ \A i \in 1 .. Len(DeclOrder) : DeclOrder[i] \in Instance
  /\ \A n \in Instance : \E i \in 1 .. Len(DeclOrder) : DeclOrder[i] = n
  /\ NoRoot \notin Instance /\ NoExc \notin Instance /\ OwnError \notin Instance
  /\ Crash \notin Instance /\ Fail \notin Instance
BY ResolveAssumption DEF Instance, Range

LEMMA TopFacts ==
  ASSUME TypeOK, stack # << >>
  PROVE  Len(stack) \in Nat \ {0} /\ Top \in Instance /\ Top = stack[Len(stack)]
BY DEF TypeOK, Top

LEMMA StackFacts ==
  ASSUME TypeOK
  PROVE  Len(stack) \in Nat /\ \A k \in 1 .. Len(stack) : stack[k] \in Instance
BY DEF TypeOK

LEMMA BodyFacts ==
  ASSUME TypeOK, NEW n \in Instance
  PROVE  /\ body[n] \in Seq(Step) /\ Len(body[n]) \in Nat
         /\ DOMAIN body[n] = 1 .. Len(body[n])
         /\ pc[n] \in Nat \ {0}
BY ResolveAssumption DEF TypeOK

LEMMA PushFacts ==
  ASSUME TypeOK, NEW n \in Instance, Enter(n)
  PROVE  /\ stack' \in Seq(Instance)
         /\ Len(stack') = Len(stack) + 1
         /\ stack'[Len(stack) + 1] = n
         /\ \A k \in 1 .. Len(stack) : stack'[k] = stack[k]
         /\ resolving' = resolving \cup {n}
BY DEF Enter, TypeOK

LEMMA PopFacts ==
  ASSUME TypeOK, stack # << >>, Leave
  PROVE  /\ stack' \in Seq(Instance)
         /\ Len(stack') = Len(stack) - 1
         /\ \A k \in 1 .. Len(stack) - 1 : stack'[k] = stack[k]
         /\ resolving' = resolving \ {Top}
<1>1. stack \in Seq(Instance) /\ stack' = SubSeq(stack, 1, Len(stack) - 1)
      /\ resolving' = resolving \ {Top}
  BY DEF TypeOK, Leave
<1> QED
  BY <1>1, FrontFacts

LEMMA AtStepFacts ==
  ASSUME TypeOK, AtStep
  PROVE  /\ Len(stack) \in Nat \ {0} /\ Top \in Instance /\ HasStep(Top)
         /\ Current = StepOf(Top) /\ Current \in Step
         /\ pc[Top] \in 1 .. Len(body[Top])
<1>1. Len(stack) \in Nat \ {0} /\ Top \in Instance
  BY TopFacts DEF AtStep
<1>2. pc[Top] \in 1 .. Len(body[Top])
  BY <1>1, BodyFacts DEF AtStep
<1> QED
  BY <1>1, <1>2, BodyFacts DEF AtStep, HasStep, StepOf, Current

(* The root a MeetFailed raises is an instance, and one that failed.       *)
LEMMA RootFacts ==
  ASSUME TypeOK, BlockedOnRootCause, NEW m \in errors \cup Blocked
  PROVE  RootOf(m) \in errors /\ RootOf(m) \in Instance
BY DEF TypeOK, BlockedOnRootCause, RootOf, Blocked

LEMMA TypeStep ==
  ASSUME TypeOK, BlockedOnRootCause, [Next]_vars
  PROVE  TypeOK'
<1> USE DEF TypeOK
<1>1. CASE StartInstance
  <2>1. DeclOrder[next] \in Instance /\ Enter(DeclOrder[next])
    BY <1>1, InstanceIndexed DEF StartInstance
  <2>2. stack' \in Seq(Instance) /\ resolving' \subseteq Instance
    BY <2>1, PushFacts
  <2> QED
    BY <1>1, <2>2, InstanceIndexed DEF StartInstance
<1>2. CASE SkipInstance
  BY <1>2, InstanceIndexed DEF SkipInstance
<1>3. CASE UseCached
  BY <1>3, AtStepFacts DEF UseCached
<1>4. CASE MeetFailed
  BY <1>4, RootFacts DEF MeetFailed
<1>5. CASE MeetOwnError \/ MeetCrash
  BY <1>5 DEF MeetOwnError, MeetCrash
<1>6. CASE Descend
  <2>1. Current \in Instance /\ Enter(Current)
    BY <1>6 DEF Descend
  <2>2. stack' \in Seq(Instance) /\ resolving' \subseteq Instance
    BY <2>1, PushFacts
  <2> QED
    BY <1>6, <2>2 DEF Descend
<1>7. CASE Complete
  <2>1. stack' \in Seq(Instance) /\ resolving' \subseteq Instance
    BY <1>7, PopFacts DEF Complete
  <2>2. pc' \in [Instance -> Nat \ {0}]
    <3>1. CASE Len(stack) > 1
      <4>1. Caller \in Instance
        BY <1>7, <3>1, TopFacts DEF Complete, Caller
      <4> QED
        BY <1>7, <3>1, <4>1 DEF Complete
    <3>2. CASE ~(Len(stack) > 1)
      BY <1>7, <3>2 DEF Complete
    <3> QED
      BY <3>1, <3>2
  <2> QED
    BY <1>7, <2>1, <2>2, TopFacts DEF Complete
<1>8. CASE FileBlocked
  <2>1. stack' \in Seq(Instance) /\ resolving' \subseteq Instance
    BY <1>8, PopFacts DEF FileBlocked
  <2> QED
    BY <1>8, <2>1 DEF FileBlocked
<1>9. CASE FileError
  <2>1. stack' \in Seq(Instance) /\ resolving' \subseteq Instance
    BY <1>9, PopFacts DEF FileError
  <2> QED
    BY <1>9, <2>1, TopFacts DEF FileError
<1>10. CASE Swallow
  BY <1>10 DEF Swallow
<1>11. CASE UNCHANGED vars
  BY <1>11 DEF vars
<1> QED
  BY <1>1, <1>2, <1>3, <1>4, <1>5, <1>6, <1>7, <1>8, <1>9, <1>10, <1>11
     DEF Next, Finished

-----------------------------------------------------------------------------
(* What entering and leaving a call does to the stack part of the          *)
(* invariant.                                                              *)
StackInv == StackResolving /\ StackDistinct /\ StackUnfiled

LEMMA PushStack ==
  ASSUME TypeOK, StackInv, NEW n \in Instance, n \notin Filed, ~OnStack(n), Enter(n),
         Filed' = Filed
  PROVE  /\ StackInv'
         /\ \A d : OnStack(d)' <=> OnStack(d) \/ d = n
<1>1. /\ Len(stack') = Len(stack) + 1
      /\ stack'[Len(stack) + 1] = n
      /\ \A k \in 1 .. Len(stack) : stack'[k] = stack[k]
      /\ resolving' = resolving \cup {n}
      /\ Len(stack) \in Nat
  BY PushFacts, StackFacts
<1>2. 1 .. Len(stack') = 1 .. Len(stack) \cup {Len(stack) + 1}
  BY <1>1
<1>3. \A d : OnStack(d)' <=> OnStack(d) \/ d = n
  BY <1>1, <1>2 DEF OnStack
<1>4. StackResolving'
  BY <1>1, <1>3 DEF StackInv, StackResolving
<1>5. StackDistinct'
  BY <1>1, <1>2 DEF StackInv, StackDistinct, OnStack
<1>6. StackUnfiled'
  BY <1>1, <1>2 DEF StackInv, StackUnfiled
<1> QED
  BY <1>3, <1>4, <1>5, <1>6 DEF StackInv

LEMMA PopStack ==
  ASSUME TypeOK, StackInv, stack # << >>, Leave, Filed' = Filed \cup {Top}
  PROVE  /\ StackInv'
         /\ \A d : OnStack(d)' <=> OnStack(d) /\ d # Top
<1>1. /\ Len(stack') = Len(stack) - 1
      /\ \A k \in 1 .. Len(stack) - 1 : stack'[k] = stack[k]
      /\ resolving' = resolving \ {Top}
      /\ Len(stack) \in Nat \ {0} /\ Top = stack[Len(stack)]
  BY PopFacts, TopFacts
<1>2. 1 .. Len(stack) = 1 .. Len(stack') \cup {Len(stack)}
  BY <1>1
<1>3. \A k \in 1 .. Len(stack') : stack'[k] = stack[k] /\ stack[k] # Top
  <2>1. \A k \in 1 .. Len(stack') : k \in 1 .. Len(stack) /\ k # Len(stack)
    BY <1>1
  <2> QED
    BY <1>1, <2>1 DEF StackInv, StackDistinct
<1>4. \A d : OnStack(d)' <=> OnStack(d) /\ d # Top
  BY <1>1, <1>2, <1>3 DEF OnStack
<1>5. StackResolving'
  BY <1>1, <1>4 DEF StackInv, StackResolving
<1>6. StackDistinct'
  BY <1>2, <1>3 DEF StackInv, StackDistinct
<1>7. StackUnfiled'
  BY <1>2, <1>3 DEF StackInv, StackUnfiled
<1> QED
  BY <1>4, <1>5, <1>6, <1>7 DEF StackInv

(* A call whose references lead back to the stack closes a cycle there     *)
(* that phase 4 would have reported: the backstop is not reached.          *)
LEMMA NoBackstop ==
  ASSUME TypeOK, StackResolving, StackUnfiled, StackCalls, CleanAcyclic
  PROVE  ~Backstop
<1> SUFFICES ASSUME Backstop PROVE FALSE
  OBVIOUS
<1>1. /\ Len(stack) \in Nat \ {0} /\ Top \in Instance
      /\ Current = StepOf(Top) /\ HasStep(Top)
  BY AtStepFacts DEF Backstop
<1>2. PICK i \in 1 .. Len(stack) : stack[i] = Current
  BY DEF Backstop, StackResolving, OnStack, TypeOK
<1> DEFINE S == {stack[k] : k \in i .. Len(stack)}
<1>3. S \in SUBSET (Instance \ errors) /\ S # {}
  <2>1. \A k \in i .. Len(stack) : stack[k] \in Instance /\ stack[k] \notin errors
    BY <1>1, <1>2, StackFacts DEF StackUnfiled, Filed
  <2>2. i \in i .. Len(stack)
    BY <1>1, <1>2
  <2> QED
    BY <2>1, <2>2
<1>4. ASSUME NEW n \in S
      PROVE  Refs(n) \cap S # {}
  <2>1. PICK k \in i .. Len(stack) : stack[k] = n
    OBVIOUS
  <2>2. k \in 1 .. Len(stack) /\ n \in Instance
    BY <1>1, <1>2, <2>1, StackFacts
  <2>3. HasStep(n) /\ StepOf(n) \in S
    <3>1. CASE k = Len(stack)
      BY <1>1, <1>2, <2>1, <3>1 DEF Top
    <3>2. CASE k # Len(stack)
      <4>1. k \in 1 .. Len(stack) - 1 /\ k + 1 \in i .. Len(stack)
        BY <1>1, <1>2, <2>1, <2>2, <3>2
      <4> QED
        BY <2>1, <4>1 DEF StackCalls
    <3> QED
      BY <3>1, <3>2
  <2>4. StepOf(n) \in Range(body[n])
    BY <2>2, <2>3, BodyFacts DEF HasStep, StepOf, Range
  <2>5. StepOf(n) \in Name
    BY <1>3, <2>3, InstanceIndexed
  <2> QED
    BY <2>3, <2>4, <2>5 DEF Refs
<1> HIDE DEF S
<1>5. PICK n \in S : Refs(n) \cap S = {}
  BY <1>3 DEF CleanAcyclic, AcyclicOn
<1> QED
  BY <1>4, <1>5

-----------------------------------------------------------------------------
(* Each action preserves the invariant.                                    *)

(* StartInstance and Descend: a call of n begins.                          *)
LEMMA EnterStep ==
  ASSUME IInv, TypeOK', NEW n \in Instance \ Filed, ~OnStack(n), Enter(n),
         raised = NoExc, UNCHANGED <<body, cache, errors, blocked, pc, raised>>,
         stack = << >> \/ (HasStep(Top) /\ StepOf(Top) = n),
         next' = next \/ (next' = next + 1 /\ DeclOrder[next] = n)
  PROVE  IInv'
<1> USE DEF IInv
<1>1. Filed' = Filed /\ Blocked' = Blocked
  BY DEF Filed, Blocked
<1>2. StackInv' /\ \A d : OnStack(d)' <=> OnStack(d) \/ d = n
  BY <1>1, PushStack DEF StackInv
<1>3. /\ Len(stack') = Len(stack) + 1
      /\ stack'[Len(stack) + 1] = n
      /\ \A k \in 1 .. Len(stack) : stack'[k] = stack[k]
      /\ Len(stack) \in Nat
      /\ \A k \in 1 .. Len(stack) : stack[k] \in Instance
  BY PushFacts, StackFacts
<1>4. \A k \in 1 .. Len(stack') : k \in 1 .. Len(stack) \/ k = Len(stack) + 1
  BY <1>3
<1>5. pc[n] = 1
  BY DEF Unstarted
<1>6. PrefixCached(n)
  BY <1>5, BodyFacts DEF PrefixCached
<1>7. StackPrefix'
  BY <1>3, <1>4, <1>6 DEF StackPrefix, PrefixCached
<1>8. StackCalls'
  <2> SUFFICES ASSUME NEW k \in 1 .. Len(stack') - 1
               PROVE  HasStep(stack'[k]) /\ StepOf(stack'[k]) = stack'[k + 1]
    BY DEF StackCalls, HasStep, StepOf
  <2>1. CASE k = Len(stack)
    <3>1. stack # << >>
      BY <1>3, <2>1
    <3> QED
      BY <1>3, <2>1, <3>1 DEF Top
  <2>2. CASE k \in 1 .. Len(stack) - 1
    <3>1. stack'[k] = stack[k] /\ stack'[k + 1] = stack[k + 1]
      BY <1>3, <2>2
    <3> QED
      BY <2>2, <3>1 DEF StackCalls
  <2>3. k = Len(stack) \/ k \in 1 .. Len(stack) - 1
    BY <1>3
  <2> QED
    BY <2>1, <2>2, <2>3
<1>9. Unstarted'
  BY <1>1, <1>2 DEF Unstarted
<1>10. RaisedCause'
  BY InstanceIndexed, ResolveAssumption DEF RaisedCause
<1>11. RootsReached'
  <2> SUFFICES ASSUME NEW i \in 1 .. next' - 1
               PROVE  DeclOrder[i] \in Filed \/ OnStack(DeclOrder[i])'
    BY <1>1 DEF RootsReached
  <2>1. i \in 1 .. next - 1 \/ DeclOrder[i] = n
    BY InstanceIndexed DEF TypeOK
  <2> QED
    BY <1>2, <2>1 DEF RootsReached
<1>12. CachedAcyclic' /\ Disjoint' /\ BlockedOnRootCause' /\ CachedFromCached'
  BY <1>1 DEF CachedAcyclic, AcyclicOn, Refs, Disjoint, BlockedOnRootCause, RootOf,
              CachedFromCached
<1> QED
  BY <1>2, <1>7, <1>8, <1>9, <1>10, <1>11, <1>12 DEF StackInv

(* The steps that enter, leave and file nothing.                           *)
LEMMA QuietStep ==
  ASSUME IInv, TypeOK', UNCHANGED <<body, cache, errors, blocked, resolving, stack, pc>>,
         RaisedCause', RootsReached'
  PROVE  IInv'
<1> USE DEF IInv
<1>1. Filed' = Filed /\ Blocked' = Blocked /\ \A d : OnStack(d)' <=> OnStack(d)
  BY DEF Filed, Blocked, OnStack
<1>2. StackResolving' /\ StackDistinct' /\ StackUnfiled' /\ StackPrefix'
      /\ StackCalls' /\ Unstarted'
  BY <1>1 DEF StackResolving, StackDistinct, StackUnfiled, StackPrefix, PrefixCached,
              StackCalls, HasStep, StepOf, Unstarted
<1>3. CachedAcyclic' /\ Disjoint' /\ BlockedOnRootCause' /\ CachedFromCached'
  BY <1>1 DEF CachedAcyclic, AcyclicOn, Refs, Disjoint, BlockedOnRootCause, RootOf,
              CachedFromCached
<1> QED
  BY <1>2, <1>3

LEMMA RaiseStep ==
  ASSUME IInv, TypeOK', MeetFailed \/ MeetOwnError \/ MeetCrash
  PROVE  IInv'
<1> USE DEF IInv
<1>1. /\ UNCHANGED <<body, cache, errors, blocked, resolving, stack, pc, next>>
      /\ AtStep
  BY DEF MeetFailed, MeetOwnError, MeetCrash
<1>2. /\ stack # << >> /\ HasStep(Top) /\ Current = StepOf(Top)
      /\ Top' = Top /\ StepOf(Top)' = StepOf(Top) /\ HasStep(Top)' = HasStep(Top)
  BY <1>1, AtStepFacts DEF AtStep, Top, StepOf, HasStep
<1>3. RaisedCause'
  <2>1. CASE MeetFailed
    <3>1. Current \in errors \cup Blocked /\ raised' = RootOf(Current)
      BY <2>1 DEF MeetFailed
    <3>2. RootOf(Current) \in errors /\ RootOf(Current) \in Instance
      BY <3>1, RootFacts
    <3>3. Blocked' = Blocked /\ RootOf(Current)' = RootOf(Current)'
      BY <1>1 DEF Blocked
    <3>4. raised' # OwnError
      BY <3>1, <3>2, InstanceIndexed
    <3>5. errors' = errors /\ blocked' = blocked
      BY <1>1
    <3> QED
      BY <1>2, <3>1, <3>2, <3>3, <3>4, <3>5 DEF RaisedCause, RootOf
  <2>2. CASE MeetOwnError
    <3>1. raised' = OwnError /\ OwnError \notin Instance /\ stack' # << >>
      BY <1>1, <1>2, <2>2, InstanceIndexed DEF MeetOwnError
    <3>2. CleanAcyclic => StepOf(Top) \notin Instance
      BY <1>2, <2>2, NoBackstop DEF MeetOwnError
    <3>3. CleanAcyclic' = CleanAcyclic
      BY <1>1 DEF CleanAcyclic, AcyclicOn, Refs
    <3> QED
      BY <1>2, <3>1, <3>2, <3>3 DEF RaisedCause
  <2>3. CASE MeetCrash
    BY <2>3, InstanceIndexed, ResolveAssumption DEF MeetCrash, RaisedCause
  <2> QED
    BY <2>1, <2>2, <2>3
<1>4. RootsReached'
  BY <1>1 DEF RootsReached, Filed, Blocked, OnStack
<1> QED
  BY <1>1, <1>3, <1>4, QuietStep

LEMMA IdleStep ==
  ASSUME IInv, TypeOK', SkipInstance \/ Swallow
  PROVE  IInv'
<1> USE DEF IInv
<1>1. /\ UNCHANGED <<body, cache, errors, blocked, resolving, stack, pc>>
      /\ stack = << >> /\ raised' = NoExc
      /\ \/ next' = next
         \/ next' = next + 1 /\ DeclOrder[next] \in Filed
  <2>1. CASE SkipInstance
    BY <2>1 DEF SkipInstance, Idle
  <2>2. CASE Swallow
    BY <2>2 DEF Swallow
  <2> QED
    BY <2>1, <2>2
<1>2. RaisedCause'
  BY <1>1, InstanceIndexed, ResolveAssumption DEF RaisedCause
<1>3. RootsReached'
  <2>1. Filed' = Filed /\ \A d : OnStack(d)' <=> OnStack(d)
    BY <1>1 DEF Filed, Blocked, OnStack
  <2>2. \A i \in 1 .. next' - 1 : i \in 1 .. next - 1 \/ (i = next /\ DeclOrder[next] \in Filed)
    <3>1. next \in Nat \ {0}
      BY InstanceIndexed DEF TypeOK
    <3> QED
      BY <1>1, <3>1
  <2> QED
    BY <2>1, <2>2 DEF RootsReached
<1> QED
  BY <1>1, <1>2, <1>3, QuietStep

LEMMA UseCachedStep ==
  ASSUME IInv, TypeOK', UseCached
  PROVE  IInv'
<1> USE DEF IInv
<1>1. /\ UNCHANGED <<body, cache, errors, blocked, resolving, stack, raised, next>>
      /\ AtStep /\ Current \in cache /\ raised = NoExc
      /\ pc' = [pc EXCEPT ![Top] = @ + 1]
  BY DEF UseCached, AtStep
<1>2. /\ Len(stack) \in Nat \ {0} /\ Top \in Instance /\ Top = stack[Len(stack)]
      /\ pc[Top] \in 1 .. Len(body[Top]) /\ Current = body[Top][pc[Top]]
      /\ Len(body[Top]) \in Nat
  BY <1>1, AtStepFacts, TopFacts, BodyFacts DEF AtStep, StepOf
<1>3. /\ pc'[Top] = pc[Top] + 1
      /\ \A n \in Instance : n # Top => pc'[n] = pc[n]
  BY <1>1, <1>2 DEF TypeOK
<1>4. Filed' = Filed /\ Blocked' = Blocked /\ \A d : OnStack(d)' <=> OnStack(d)
  BY <1>1 DEF Filed, Blocked, OnStack
<1>5. OnStack(Top)
  BY <1>2 DEF OnStack
<1>6. StackResolving' /\ StackDistinct' /\ StackUnfiled' /\ RootsReached' /\ Disjoint'
      /\ CachedAcyclic' /\ BlockedOnRootCause' /\ CachedFromCached'
  BY <1>1, <1>4 DEF StackResolving, StackDistinct, StackUnfiled, RootsReached, Disjoint,
              CachedAcyclic, AcyclicOn, Refs, BlockedOnRootCause, RootOf, CachedFromCached
<1>7. StackPrefix'
  <2> SUFFICES ASSUME NEW k \in 1 .. Len(stack), NEW n, n = stack[k]
               PROVE  PrefixCached(n)'
    BY <1>1 DEF StackPrefix, PrefixCached
  <2>1. n \in Instance /\ PrefixCached(n)
    BY StackFacts DEF StackPrefix
  <2>2. CASE n # Top
    BY <1>1, <1>3, <2>1, <2>2 DEF PrefixCached
  <2>3. CASE n = Top
    <3>1. \A j \in 1 .. pc'[n] - 1 : j \in 1 .. pc[n] - 1 \/ j = pc[n]
      BY <1>2, <1>3, <2>3
    <3>2. pc'[n] <= Len(body[n]) + 1
      BY <1>2, <1>3, <2>3
    <3> QED
      BY <1>1, <1>2, <2>1, <2>3, <3>1, <3>2 DEF PrefixCached
  <2> QED
    BY <2>2, <2>3
<1>8. StackCalls'
  <2>1. \A k \in 1 .. Len(stack) - 1 : stack[k] \in Instance /\ stack[k] # Top
    <3>1. \A k \in 1 .. Len(stack) - 1 : k \in 1 .. Len(stack) /\ k # Len(stack)
      BY <1>2
    <3> QED
      BY <1>2, <3>1, StackFacts DEF StackDistinct
  <2> QED
    BY <1>1, <1>3, <2>1 DEF StackCalls, HasStep, StepOf
<1>9. Unstarted'
  BY <1>3, <1>4, <1>5 DEF Unstarted
<1>10. RaisedCause'
  BY <1>1, InstanceIndexed, ResolveAssumption DEF RaisedCause
<1> QED
  BY <1>6, <1>7, <1>8, <1>9, <1>10

(* Complete, FileBlocked and FileError: Top's call ends and Top is filed.  *)
LEMMA PopStep ==
  ASSUME IInv, TypeOK', stack # << >>, Leave, Filed' = Filed \cup {Top},
         body' = body, next' = next, errors \subseteq errors',
         \A n \in Instance : (OnStack(n) /\ n # Top) => PrefixCached(n)',
         \A k \in 1 .. Len(stack) - 2 : pc'[stack[k]] = pc[stack[k]],
         \A n \in Instance : OnStack(n) \/ pc'[n] = pc[n]
  PROVE  StackInv' /\ StackPrefix' /\ StackCalls' /\ Unstarted' /\ RootsReached'
<1> USE DEF IInv
<1>1. StackInv' /\ \A d : OnStack(d)' <=> OnStack(d) /\ d # Top
  BY PopStack DEF StackInv
<1>2. /\ Len(stack') = Len(stack) - 1
      /\ \A k \in 1 .. Len(stack) - 1 : stack'[k] = stack[k]
      /\ Len(stack) \in Nat \ {0}
      /\ \A k \in 1 .. Len(stack) : stack[k] \in Instance
  BY PopFacts, TopFacts, StackFacts
<1>3. StackPrefix'
  <2> SUFFICES ASSUME NEW k \in 1 .. Len(stack'), NEW n, n = stack'[k]
               PROVE  PrefixCached(n)'
    BY DEF StackPrefix, PrefixCached
  <2>1. OnStack(n)'
    BY DEF OnStack
  <2>2. n \in Instance
    BY <1>2
  <2> QED
    BY <1>1, <2>1, <2>2
<1>4. StackCalls'
  <2> SUFFICES ASSUME NEW k \in 1 .. Len(stack') - 1
               PROVE  /\ pc'[stack'[k]] <= Len(body'[stack'[k]])
                      /\ body'[stack'[k]][pc'[stack'[k]]] = stack'[k + 1]
    BY DEF StackCalls, HasStep, StepOf
  <2>1. k \in 1 .. Len(stack) - 2 /\ k \in 1 .. Len(stack) - 1
    BY <1>2
  <2>2. stack'[k] = stack[k] /\ stack'[k + 1] = stack[k + 1]
    BY <1>2
  <2> QED
    BY <2>1, <2>2 DEF StackCalls, HasStep, StepOf
<1>5. Unstarted'
  BY <1>1 DEF Unstarted
<1>6. RootsReached'
  BY <1>1 DEF RootsReached
<1> QED
  BY <1>1, <1>3, <1>4, <1>5, <1>6

(* The caller's step is the call that just ended.                          *)
LEMMA CallerFacts ==
  ASSUME TypeOK, StackCalls, StackDistinct, stack # << >>, Leave, stack' # << >>
  PROVE  /\ Caller \in Instance /\ Caller # Top /\ Len(stack) > 1
         /\ Top' = Caller
         /\ HasStep(Caller) /\ StepOf(Caller) = Top
         /\ OnStack(Caller)
         /\ \A k \in 1 .. Len(stack) - 2 : stack[k] # Caller
<1>1. /\ stack' \in Seq(Instance)
      /\ Len(stack') = Len(stack) - 1
      /\ \A k \in 1 .. Len(stack) - 1 : stack'[k] = stack[k]
      /\ Len(stack) \in Nat \ {0}
      /\ \A k \in 1 .. Len(stack) : stack[k] \in Instance
      /\ Top = stack[Len(stack)]
  BY PopFacts, TopFacts, StackFacts
<1>2. Len(stack') # 0
  BY <1>1
<1>3. /\ Len(stack) - 1 \in 1 .. Len(stack) - 1 /\ Len(stack) - 1 \in 1 .. Len(stack)
      /\ Len(stack) - 1 # Len(stack) /\ Len(stack) \in 1 .. Len(stack)
      /\ Len(stack) - 1 + 1 = Len(stack) /\ Len(stack) > 1
  BY <1>1, <1>2
<1>4. Caller = stack[Len(stack) - 1]
  BY DEF Caller
<1>5. Top' = Caller
  BY <1>1, <1>3, <1>4 DEF Top
<1>6. Caller # Top
  BY <1>1, <1>3, <1>4 DEF StackDistinct
<1>7. HasStep(Caller) /\ StepOf(Caller) = Top
  BY <1>1, <1>3, <1>4 DEF StackCalls
<1>8. \A k \in 1 .. Len(stack) - 2 : stack[k] # Caller
  <2>1. \A k \in 1 .. Len(stack) - 2 : k \in 1 .. Len(stack) /\ k # Len(stack) - 1
    BY <1>1
  <2> QED
    BY <1>3, <1>4, <2>1 DEF StackDistinct
<1> QED
  BY <1>1, <1>3, <1>4, <1>5, <1>6, <1>7, <1>8 DEF OnStack

-----------------------------------------------------------------------------
(* The verdicts.  Cause(n) is what BlockedOnRootCause says of n.           *)
Cause(n) ==
  /\ blocked[n] \in errors
  /\ \E i \in DOMAIN body[n] :
       /\ \A j \in 1 .. i - 1 : body[n][j] \in cache
       /\ body[n][i] \in errors \cup Blocked
       /\ blocked[n] = RootOf(body[n][i])

LEMMA CauseKept ==
  ASSUME BlockedOnRootCause, Disjoint, Disjoint', body' = body, cache \subseteq cache',
         errors \subseteq errors', Blocked \subseteq Blocked',
         \A m \in Blocked : blocked'[m] = blocked[m],
         NEW n \in Blocked
  PROVE  Cause(n)'
<1>1. \A m \in errors \cup Blocked : RootOf(m)' = RootOf(m) /\ m \in errors' \cup Blocked'
  BY DEF RootOf, Disjoint
<1> QED
  BY <1>1 DEF BlockedOnRootCause, Cause, RootOf

(* The step an instance on the stack is at, when its prefix is resolved and *)
(* it names the root of a failure, is a cause.                             *)
LEMMA CauseFound ==
  ASSUME TypeOK, NEW n \in Instance, PrefixCached(n), HasStep(n),
         StepOf(n) \in errors \cup Blocked
  PROVE  \E i \in DOMAIN body[n] :
           /\ \A j \in 1 .. i - 1 : body[n][j] \in cache
           /\ body[n][i] \in errors \cup Blocked
           /\ RootOf(StepOf(n)) = RootOf(body[n][i])
<1>1. pc[n] \in DOMAIN body[n]
  BY BodyFacts DEF HasStep
<1> QED
  BY <1>1 DEF PrefixCached, StepOf

LEMMA CompleteStep ==
  ASSUME IInv, TypeOK', Complete
  PROVE  IInv'
<1> USE DEF IInv
<1>1. /\ stack # << >> /\ raised = NoExc /\ pc[Top] > Len(body[Top]) /\ Leave
      /\ cache' = cache \cup {Top}
      /\ UNCHANGED <<body, errors, blocked, raised, next>>
      /\ pc' = IF Len(stack) > 1 THEN [pc EXCEPT ![Caller] = @ + 1] ELSE pc
  BY DEF Complete
<1>2. /\ Top \in Instance /\ Top \notin Filed /\ OnStack(Top) /\ PrefixCached(Top)
      /\ Len(stack) \in Nat \ {0}
  <2>1. Len(stack) \in 1 .. Len(stack) /\ Top = stack[Len(stack)]
    BY <1>1, TopFacts
  <2> QED
    BY <1>1, <2>1, TopFacts DEF StackUnfiled, StackPrefix, OnStack
<1>3. Blocked' = Blocked /\ Filed' = Filed \cup {Top}
  BY <1>1 DEF Filed, Blocked
<1>4. \A j \in 1 .. Len(body[Top]) : body[Top][j] \in cache
  <2>1. pc[Top] - 1 = Len(body[Top])
    BY <1>1, <1>2, BodyFacts DEF PrefixCached
  <2> QED
    BY <1>2, <2>1 DEF PrefixCached
<1>5. \A n \in Instance : (OnStack(n) /\ n # Top) => PrefixCached(n)
  BY DEF StackPrefix, OnStack
<1>6. /\ \A n \in Instance : (OnStack(n) /\ n # Top) => PrefixCached(n)'
      /\ \A k \in 1 .. Len(stack) - 2 : pc'[stack[k]] = pc[stack[k]]
      /\ \A n \in Instance : OnStack(n) \/ pc'[n] = pc[n]
  <2>1. CASE Len(stack) > 1
    <3>1. stack' # << >>
      BY <1>1, <2>1, PopFacts
    <3>2. /\ Caller \in Instance /\ Caller # Top
          /\ HasStep(Caller) /\ StepOf(Caller) = Top
          /\ OnStack(Caller)
          /\ \A k \in 1 .. Len(stack) - 2 : stack[k] # Caller
      BY <1>1, <3>1, CallerFacts
    <3>3. /\ pc'[Caller] = pc[Caller] + 1
          /\ \A n \in Instance : n # Caller => pc'[n] = pc[n]
      BY <1>1, <2>1, <3>2 DEF TypeOK
    <3>4. \A n \in Instance : n = Caller => PrefixCached(n)'
      <4> SUFFICES ASSUME NEW n \in Instance, n = Caller
                   PROVE  PrefixCached(n)'
        OBVIOUS
      <4>1. pc'[n] = pc[n] + 1 /\ pc[n] <= Len(body[n]) /\ body[n][pc[n]] = Top
            /\ pc[n] \in Nat \ {0} /\ Len(body[n]) \in Nat
        BY <3>2, <3>3, BodyFacts DEF HasStep, StepOf
      <4>2. \A j \in 1 .. pc'[n] - 1 : j \in 1 .. pc[n] - 1 \/ j = pc[n]
        BY <4>1
      <4>3. PrefixCached(n)
        BY <1>5, <3>2
      <4> QED
        BY <1>1, <4>1, <4>2, <4>3 DEF PrefixCached
    <3>5. \A n \in Instance : (OnStack(n) /\ n # Top /\ n # Caller) => PrefixCached(n)'
      BY <1>1, <1>5, <3>3 DEF PrefixCached
    <3>6. \A k \in 1 .. Len(stack) - 2 : stack[k] \in Instance
      BY <1>2, StackFacts
    <3> QED
      BY <3>2, <3>3, <3>4, <3>5, <3>6
  <2>2. CASE ~(Len(stack) > 1)
    BY <1>1, <1>5, <2>2 DEF PrefixCached
  <2> QED
    BY <2>1, <2>2
<1>7. StackInv' /\ StackPrefix' /\ StackCalls' /\ Unstarted' /\ RootsReached'
  BY <1>1, <1>3, <1>6, PopStep
<1>8. RaisedCause'
  BY <1>1, InstanceIndexed, ResolveAssumption DEF RaisedCause
<1>9. Disjoint'
  BY <1>1, <1>2, <1>3 DEF Disjoint, Filed
<1>10. BlockedOnRootCause'
  <2>1. \A n \in Blocked : Cause(n)'
    BY <1>1, <1>3, <1>9, CauseKept
  <2> QED
    BY <1>3, <2>1 DEF BlockedOnRootCause, Cause
<1>11. CachedFromCached'
  <2>1. Range(body[Top]) \subseteq cache
    BY <1>2, <1>4, BodyFacts DEF Range
  <2> QED
    BY <1>1, <2>1 DEF CachedFromCached
<1>12. CachedAcyclic'
  <2> SUFFICES ASSUME NEW S \in SUBSET cache', S # {}
               PROVE  \E n \in S : Refs(n) \cap S = {}
    BY <1>1 DEF CachedAcyclic, AcyclicOn, Refs
  <2>1. Top \notin cache
    BY <1>2 DEF Filed
  <2>2. CASE S \ {Top} = {}
    <3>1. Range(body[Top]) \subseteq cache
      BY <1>2, <1>4, BodyFacts DEF Range
    <3> QED
      BY <2>1, <2>2, <3>1 DEF Refs
  <2>3. CASE S \ {Top} # {}
    <3>1. S \ {Top} \in SUBSET cache
      BY <1>1
    <3>2. PICK n \in S \ {Top} : Refs(n) \cap (S \ {Top}) = {}
      BY <2>3, <3>1 DEF CachedAcyclic, AcyclicOn
    <3>3. Refs(n) \subseteq cache
      BY <3>1, <3>2 DEF CachedFromCached, Refs
    <3> QED
      BY <2>1, <3>2, <3>3
  <2> QED
    BY <2>2, <2>3
<1> QED
  BY <1>7, <1>8, <1>9, <1>10, <1>11, <1>12 DEF StackInv

LEMMA FileBlockedStep ==
  ASSUME IInv, TypeOK', FileBlocked
  PROVE  IInv'
<1> USE DEF IInv
<1>1. /\ stack # << >> /\ raised \in Instance /\ Leave
      /\ blocked' = [blocked EXCEPT ![Top] = raised]
      /\ UNCHANGED <<body, cache, errors, pc, raised, next>>
  BY DEF FileBlocked
<1>2. /\ Top \in Instance /\ Top \notin Filed /\ PrefixCached(Top)
      /\ Len(stack) \in Nat \ {0}
  <2>1. Len(stack) \in 1 .. Len(stack) /\ Top = stack[Len(stack)]
    BY <1>1, TopFacts
  <2> QED
    BY <1>1, <2>1, TopFacts DEF StackUnfiled, StackPrefix
<1>3. /\ raised \in errors /\ HasStep(Top) /\ StepOf(Top) \in errors \cup Blocked
      /\ RootOf(StepOf(Top)) = raised
  BY <1>1 DEF RaisedCause
<1>4. raised # NoRoot
  BY <1>1, InstanceIndexed
<1>5. /\ blocked'[Top] = raised
      /\ \A n \in Instance : n # Top => blocked'[n] = blocked[n]
  BY <1>1, <1>2 DEF TypeOK
<1>6. Blocked' = Blocked \cup {Top} /\ Filed' = Filed \cup {Top}
  <2>1. Blocked' = Blocked \cup {Top}
    BY <1>2, <1>4, <1>5 DEF Blocked
  <2> QED
    BY <1>1, <2>1 DEF Filed
<1>7. \A n \in Instance : OnStack(n) => PrefixCached(n)'
  BY <1>1 DEF StackPrefix, OnStack, PrefixCached
<1>8. StackInv' /\ StackPrefix' /\ StackCalls' /\ Unstarted' /\ RootsReached'
  BY <1>1, <1>6, <1>7, PopStep
<1>9. Disjoint'
  BY <1>1, <1>2, <1>6 DEF Disjoint, Filed
<1>10. RaisedCause'
  <2> SUFFICES ASSUME stack' # << >>
               PROVE  (HasStep(Top) /\ StepOf(Top) \in errors \cup Blocked
                       /\ RootOf(StepOf(Top)) = raised)'
    BY <1>1, <1>3, InstanceIndexed DEF RaisedCause
  <2>1. Top' = Caller /\ HasStep(Caller) /\ StepOf(Caller) = Top
    BY <1>1, CallerFacts
  <2>2. HasStep(Top)' /\ StepOf(Top)' = Top
    BY <1>1, <2>1 DEF HasStep, StepOf
  <2>3. Top \notin errors'
    BY <1>1, <1>2 DEF Filed
  <2> QED
    BY <1>1, <1>5, <1>6, <2>2, <2>3 DEF RootOf
<1>11. BlockedOnRootCause'
  <2>1. \A n \in Blocked : Cause(n)'
    <3>1. \A m \in Blocked : m \in Instance /\ m # Top
      BY <1>2 DEF Blocked, Filed
    <3> QED
      BY <1>1, <1>5, <1>6, <1>9, <3>1, CauseKept
  <2>2. ASSUME NEW n, n = Top
        PROVE  Cause(n)'
    <3>1. PICK i \in DOMAIN body[n] :
            /\ \A j \in 1 .. i - 1 : body[n][j] \in cache
            /\ body[n][i] \in errors \cup Blocked
            /\ raised = RootOf(body[n][i])
      BY <1>2, <1>3, <2>2, CauseFound
    <3>2. body[n][i] # Top
      BY <1>2, <3>1 DEF Filed
    <3>3. RootOf(body[n][i]) = IF body[n][i] \in errors THEN body[n][i]
                               ELSE blocked[body[n][i]]
      BY DEF RootOf
    <3>4. body[n][i] \in Instance
      BY <3>1 DEF TypeOK, Blocked
    <3>5. raised = IF body[n][i] \in errors THEN body[n][i] ELSE blocked'[body[n][i]]
      BY <1>5, <3>1, <3>2, <3>3, <3>4
    <3> QED
      BY <1>1, <1>3, <1>5, <1>6, <2>2, <3>1, <3>5 DEF Cause, RootOf
  <2> QED
    BY <1>6, <2>1, <2>2 DEF BlockedOnRootCause, Cause
<1>12. CachedFromCached' /\ CachedAcyclic'
  BY <1>1 DEF CachedFromCached, CachedAcyclic, AcyclicOn, Refs
<1> QED
  BY <1>8, <1>9, <1>10, <1>11, <1>12 DEF StackInv

LEMMA FileErrorStep ==
  ASSUME IInv, TypeOK', FileError
  PROVE  IInv'
<1> USE DEF IInv
<1>1. /\ stack # << >> /\ raised = OwnError /\ Leave
      /\ errors' = errors \cup {Top} /\ raised' = Top
      /\ UNCHANGED <<body, cache, blocked, pc, next>>
  BY DEF FileError
<1>2. Top \in Instance /\ Top \notin Filed /\ Len(stack) \in Nat \ {0}
  <2>1. Len(stack) \in 1 .. Len(stack) /\ Top = stack[Len(stack)]
    BY <1>1, TopFacts
  <2> QED
    BY <1>1, <2>1, TopFacts DEF StackUnfiled
<1>3. Blocked' = Blocked /\ Filed' = Filed \cup {Top}
  BY <1>1 DEF Filed, Blocked
<1>4. \A n \in Instance : OnStack(n) => PrefixCached(n)'
  BY <1>1 DEF StackPrefix, OnStack, PrefixCached
<1>5. StackInv' /\ StackPrefix' /\ StackCalls' /\ Unstarted' /\ RootsReached'
  BY <1>1, <1>3, <1>4, PopStep
<1>6. Disjoint'
  BY <1>1, <1>2, <1>3 DEF Disjoint, Filed
<1>7. RaisedCause'
  <2>1. raised' # OwnError
    BY <1>1, <1>2, InstanceIndexed
  <2> SUFFICES ASSUME stack' # << >>
               PROVE  (HasStep(Top) /\ StepOf(Top) \in errors \cup Blocked
                       /\ RootOf(StepOf(Top)) = raised)'
    BY <1>1, <2>1 DEF RaisedCause
  <2>2. Top' = Caller /\ HasStep(Caller) /\ StepOf(Caller) = Top
    BY <1>1, CallerFacts
  <2>3. HasStep(Top)' /\ StepOf(Top)' = Top
    BY <1>1, <2>2 DEF HasStep, StepOf
  <2> QED
    BY <1>1, <2>3 DEF RootOf
<1>8. BlockedOnRootCause'
  <2>1. \A n \in Blocked : Cause(n)'
    BY <1>1, <1>3, <1>6, CauseKept
  <2> QED
    BY <1>3, <2>1 DEF BlockedOnRootCause, Cause
<1>9. CachedFromCached' /\ CachedAcyclic'
  BY <1>1 DEF CachedFromCached, CachedAcyclic, AcyclicOn, Refs
<1> QED
  BY <1>5, <1>6, <1>7, <1>8, <1>9 DEF StackInv

-----------------------------------------------------------------------------
(* The invariant.                                                          *)
(* Whatever is seeded into errors, before the pass has begun.              *)
Fresh ==
  /\ body \in [Instance -> Body]
  /\ cache = {}
  /\ errors \in SUBSET Instance
  /\ blocked = [n \in Instance |-> NoRoot]
  /\ resolving = {}
  /\ stack = << >>
  /\ pc = [n \in Instance |-> 1]
  /\ raised = NoExc
  /\ next = 1

LEMMA InvFresh == Fresh => IInv
<1> SUFFICES ASSUME Fresh PROVE IInv
  OBVIOUS
<1>1. TypeOK
  BY InstanceIndexed DEF Fresh, TypeOK
<1>2. Blocked = {} /\ cache = {} /\ stack = << >> /\ Len(stack) = 0 /\ 1 .. 0 = {}
  BY DEF Fresh, Blocked
<1>3. /\ StackResolving /\ StackDistinct /\ StackUnfiled /\ StackPrefix /\ StackCalls
  BY <1>2 DEF Fresh, StackResolving, StackDistinct, StackUnfiled, StackPrefix, StackCalls,
              OnStack
<1>4. Unstarted /\ RootsReached /\ Disjoint
  BY <1>2 DEF Fresh, Unstarted, RootsReached, Disjoint
<1>5. RaisedCause
  BY InstanceIndexed, ResolveAssumption DEF Fresh, RaisedCause
<1>6. BlockedOnRootCause /\ CachedFromCached /\ CachedAcyclic
  BY <1>2 DEF BlockedOnRootCause, CachedFromCached, CachedAcyclic, AcyclicOn
<1> QED
  BY <1>1, <1>3, <1>4, <1>5, <1>6 DEF IInv

(* Before the pass, errors can be given what earlier phases have found. *)
LEMMA SeedStep ==
  ASSUME Fresh, IInv, errors' \in SUBSET Instance,
         UNCHANGED <<body, cache, blocked, resolving, stack, pc, raised, next>>
  PROVE  IInv'
<1>1. TypeOK'
  BY DEF IInv, TypeOK
<1>2. /\ Blocked' = {} /\ cache' = {} /\ stack' = << >> /\ Len(stack') = 0 /\ 1 .. 0 = {}
      /\ next' = 1 /\ raised' = NoExc
  BY DEF Fresh, Blocked
<1>3. /\ StackResolving' /\ StackDistinct' /\ StackUnfiled' /\ StackPrefix' /\ StackCalls'
  BY <1>2 DEF Fresh, StackResolving, StackDistinct, StackUnfiled, StackPrefix, StackCalls,
              OnStack
<1>4. Unstarted' /\ RootsReached' /\ Disjoint'
  BY <1>2 DEF Fresh, Unstarted, RootsReached, Disjoint
<1>5. RaisedCause'
  BY <1>2, InstanceIndexed, ResolveAssumption DEF RaisedCause
<1>6. BlockedOnRootCause' /\ CachedFromCached' /\ CachedAcyclic'
  BY <1>2 DEF BlockedOnRootCause, CachedFromCached, CachedAcyclic, AcyclicOn
<1> QED
  BY <1>1, <1>3, <1>4, <1>5, <1>6 DEF IInv

LEMMA InvInit == Init => IInv /\ CleanAcyclic
BY InvFresh DEF Init, Fresh, CleanAcyclic

LEMMA InvStep == IInv /\ [Next]_vars => IInv'
<1> SUFFICES ASSUME IInv, [Next]_vars PROVE IInv'
  OBVIOUS
<1>0. TypeOK'
  BY TypeStep DEF IInv
<1>1. CASE StartInstance
  <2>1. /\ DeclOrder[next] \in Instance \ Filed /\ Enter(DeclOrder[next])
        /\ raised = NoExc /\ stack = << >> /\ next' = next + 1
        /\ UNCHANGED <<body, cache, errors, blocked, pc, raised>>
    BY <1>1, InstanceIndexed DEF StartInstance, Idle, IInv, TypeOK
  <2>2. ~OnStack(DeclOrder[next])
    BY <2>1 DEF OnStack
  <2>3. PICK n \in Instance \ Filed : n = DeclOrder[next]
    BY <2>1
  <2> QED
    BY <1>0, <2>1, <2>2, <2>3, EnterStep
<1>2. CASE Descend
  <2>1. /\ Current \in Instance \ Filed /\ Current \notin resolving /\ Enter(Current)
        /\ AtStep /\ raised = NoExc
        /\ UNCHANGED <<body, cache, errors, blocked, pc, raised, next>>
    BY <1>2 DEF Descend, AtStep
  <2>2. HasStep(Top) /\ StepOf(Top) = Current
    BY <2>1, AtStepFacts DEF IInv
  <2>3. PICK n \in Instance \ Filed : n = Current
    BY <2>1
  <2>4. ~OnStack(n)
    BY <2>1, <2>3 DEF IInv, StackResolving
  <2> QED
    BY <1>0, <2>1, <2>2, <2>3, <2>4, EnterStep
<1>3. CASE MeetFailed \/ MeetOwnError \/ MeetCrash
  BY <1>0, <1>3, RaiseStep
<1>4. CASE SkipInstance \/ Swallow
  BY <1>0, <1>4, IdleStep
<1>5. CASE UseCached
  BY <1>0, <1>5, UseCachedStep
<1>6. CASE Complete
  BY <1>0, <1>6, CompleteStep
<1>7. CASE FileBlocked
  BY <1>0, <1>7, FileBlockedStep
<1>8. CASE FileError
  BY <1>0, <1>8, FileErrorStep
<1>9. CASE UNCHANGED vars
  <2>1. UNCHANGED <<body, cache, errors, blocked, resolving, stack, pc, raised, next>>
    BY <1>9 DEF vars
  <2>2. RaisedCause' /\ RootsReached'
    BY <2>1 DEF IInv, RaisedCause, CleanAcyclic, AcyclicOn, Refs, RootsReached,
                HasStep, StepOf, RootOf, Top, Filed, Blocked, OnStack
  <2> QED
    BY <1>0, <2>1, <2>2, QuietStep
<1> QED
  BY <1>1, <1>2, <1>3, <1>4, <1>5, <1>6, <1>7, <1>8, <1>9 DEF Next, Finished

(* No later call changes a verdict or moves an instance between tables.    *)
LEMMA VerdictsStay ==
  ASSUME IInv, [Next]_vars
  PROVE  /\ cache \subseteq cache' /\ errors \subseteq errors' /\ body' = body
         /\ \A n \in Blocked : blocked'[n] = blocked[n]
<1>1. CASE FileBlocked
  <2>1. /\ blocked' = [blocked EXCEPT ![Top] = raised] /\ stack # << >>
        /\ UNCHANGED <<body, cache, errors>>
    BY <1>1 DEF FileBlocked
  <2>2. Top \notin Filed
    <3>1. Len(stack) \in 1 .. Len(stack) /\ Top = stack[Len(stack)]
      BY <2>1, TopFacts DEF IInv
    <3> QED
      BY <3>1 DEF IInv, StackUnfiled
  <2> QED
    BY <2>1, <2>2 DEF Filed, Blocked, IInv, TypeOK
<1>2. CASE ~FileBlocked
  BY <1>2 DEF Next, StartInstance, SkipInstance, UseCached, MeetFailed, MeetOwnError,
              Descend, MeetCrash, Complete, FileError, Swallow, Finished, vars
<1> QED
  BY <1>1, <1>2

LEMMA CleanStep == IInv /\ CleanAcyclic /\ [Next]_vars => CleanAcyclic'
BY VerdictsStay DEF CleanAcyclic, AcyclicOn, Refs

LEMMA Invariant == Spec => [](IInv /\ CleanAcyclic)
BY InvInit, InvStep, CleanStep, PTL DEF Spec

(* When the pass is over, every instance has its verdict. *)
LEMMA DoneFiled == ASSUME IInv, Done PROVE Filed = Instance
<1>1. \A n : ~OnStack(n)
  BY DEF Done, Idle, OnStack
<1>2. \A i \in 1 .. Len(DeclOrder) : i \in 1 .. next - 1
  BY InstanceIndexed DEF Done, IInv, TypeOK
<1>3. Instance \subseteq Filed
  BY <1>1, <1>2, InstanceIndexed DEF IInv, RootsReached
<1> QED
  BY <1>3 DEF Filed, Blocked, IInv, TypeOK

-----------------------------------------------------------------------------
(* The theorems.                                                           *)

(* The resolver's tables, stack and counters keep their types.             *)
THEOREM TypeCorrect == Spec => []TypeOK
BY Invariant, PTL DEF IInv

(* Every instance is filed at most once at every moment, and exactly once  *)
(* when resolve_all is over, whatever the bodies: "Every instance ends up  *)
(* in exactly one of cache / errors / blocked".                            *)
THEOREM AllFiledOnce == Spec => []FiledOnce
<1>1. IInv => FiledOnce
  BY DoneFiled DEF IInv, Disjoint, FiledOnce
<1> QED
  BY <1>1, Invariant, PTL

(* With phase 4's cycles in errors, the circular-reference check of        *)
(* resolve_instance is dead code.                                          *)
THEOREM NoRuntimeCycle == Spec => []BackstopUnreached
<1>1. IInv /\ CleanAcyclic => BackstopUnreached
  BY NoBackstop DEF IInv, BackstopUnreached
<1> QED
  BY <1>1, Invariant, PTL

(* A blocked instance names the failure its own body runs into first, and  *)
(* a resolved one was copied from resolved instances only.                 *)
THEOREM VerdictsSound == Spec => [](BlockedOnRootCause /\ CachedFromCached)
BY Invariant, PTL DEF IInv

(* No later call changes a verdict or moves an instance between tables.    *)
THEOREM VerdictsFinal == Spec => VerdictFinal
<1>1. IInv /\ [Next]_vars =>
        [/\ cache \subseteq cache'
         /\ errors \subseteq errors'
         /\ \A n \in Blocked : blocked'[n] = blocked[n]]_vars
  BY VerdictsStay
<1> QED
  BY <1>1, Invariant, PTL DEF Spec, VerdictFinal

(* The recursion implements the contract, step for step: only the three    *)
(* ways a call ends change the tables, each as the contract allows.        *)
LEMMA OutcomeStep ==
  ASSUME IInv, CleanAcyclic, [Next]_vars
  PROVE  [Outcome!Next]_(Outcome!vars)
<1> USE DEF Outcome!vars, Outcome!Filed, Outcome!Blocked, Outcome!Instance
<1>1. Outcome!Filed = Filed /\ Outcome!Instance = Instance /\ Outcome!Blocked = Blocked
  BY DEF Filed, Blocked, Instance, Range, Outcome!Range
<1>2. ASSUME stack # << >>
      PROVE  /\ Top \in Instance \ Filed /\ PrefixCached(Top)
             /\ Len(stack) \in Nat \ {0}
  <2>1. Len(stack) \in 1 .. Len(stack) /\ Top = stack[Len(stack)]
    BY <1>2, TopFacts DEF IInv
  <2> QED
    BY <1>2, <2>1, TopFacts DEF IInv, StackUnfiled, StackPrefix
<1>3. CASE Complete
  <2>1. Top \in Instance \ Filed /\ PrefixCached(Top)
    BY <1>2, <1>3 DEF Complete
  <2>2. pc[Top] = Len(body[Top]) + 1
    BY <1>3, <2>1, BodyFacts DEF IInv, Complete, PrefixCached
  <2>3. Outcome!Resolve(Top)
    BY <1>3, <2>1, <2>2 DEF Complete, PrefixCached, Outcome!Resolve, Outcome!ReachesStep
  <2> QED
    BY <1>1, <2>1, <2>3 DEF Outcome!Next
<1>4. CASE FileBlocked \/ FileError
  <2>1. Top \in Instance \ Filed /\ PrefixCached(Top) /\ body' = body /\ cache' = cache
    BY <1>2, <1>4 DEF FileBlocked, FileError
  <2>2. HasStep(Top)
    BY <1>4 DEF IInv, RaisedCause, FileBlocked, FileError
  <2>3. pc[Top] \in DOMAIN body[Top]
    BY <2>1, <2>2, BodyFacts DEF IInv, HasStep
  <2>4. Outcome!ReachesStep(Top, pc[Top])
    BY <2>1 DEF PrefixCached, Outcome!ReachesStep
  <2>5. Outcome!FailBy(Top, pc[Top]) \/ Outcome!BlockBy(Top, pc[Top])
    <3>1. CASE FileError
      BY <1>1, <2>1, <2>4, <3>1
         DEF IInv, RaisedCause, FileError, StepOf, Outcome!FailBy
    <3>2. CASE FileBlocked
      <4>1. /\ body[Top][pc[Top]] \in errors \cup Blocked
            /\ raised = RootOf(body[Top][pc[Top]])
            /\ blocked' = [blocked EXCEPT ![Top] = raised]
            /\ errors' = errors
        BY <3>2 DEF IInv, RaisedCause, FileBlocked, StepOf
      <4> QED
        BY <1>1, <2>1, <2>4, <4>1 DEF Outcome!BlockBy, Outcome!RootOf, RootOf
    <3> QED
      BY <1>4, <3>1, <3>2
  <2> QED
    BY <1>1, <2>1, <2>3, <2>5 DEF Outcome!Next
<1>5. CASE ~(Complete \/ FileBlocked \/ FileError)
  BY <1>5 DEF Next, StartInstance, SkipInstance, UseCached, MeetFailed, MeetOwnError,
              Descend, MeetCrash, Swallow, Finished, vars
<1> QED
  BY <1>3, <1>4, <1>5

(* The safety part of the contract, for every program of instances: what   *)
(* is left of ImplementsOutcome is its fairness, which TLC checks.         *)
THEOREM SafeImplementation == Spec => Outcome!Init /\ [][Outcome!Next]_(Outcome!vars)
<1>1. Init => Outcome!Init
  BY DEF Init, Outcome!Init, Instance, Outcome!Instance, Range, Outcome!Range
<1>2. IInv /\ CleanAcyclic /\ [Next]_vars => [Outcome!Next]_(Outcome!vars)
  BY OutcomeStep
<1> QED
  BY <1>1, <1>2, Invariant, PTL DEF Spec
=============================================================================
