-------------------------- MODULE FrontEnd_proofs --------------------------
(***************************************************************************)
(* Proofs about the pipeline as a whole, for every program, and about its  *)
(* first steps: the descent of phase 3 over the lines of any text, and     *)
(* compile_multi, which makes that text of files and takes the lines of    *)
(* diagnostics back to them.                                               *)
(*                                                                         *)
(* The first put together what is proved of the parts: Search is the       *)
(* proofs about phase 4's search with the pipeline's variables in place of *)
(* its own, Pass those about phase 6, and the invariant says what each     *)
(* phase leaves to the next one.                                           *)
(***************************************************************************)
EXTENDS FrontEnd, Parser, CompileMulti, SeqLemmas, TLAPS

Search == INSTANCE CycleDetect_proofs
            WITH graph <- Dependencies, errors <- cycles, next <- node
Pass == INSTANCE Resolve_proofs

-----------------------------------------------------------------------------
(* The proofs speak of the same things under their own names.              *)
LEMMA SearchNames ==
  /\ Search!Instance = Instance /\ Search!Done = Detect!Done
  /\ Search!Reported = Circular
BY DEF Search!Instance, Search!Range, Instance, Range, Search!Done, Detect!Done,
       Search!Reported, Circular, Detect!Reported, Detect!Instance, Detect!Range

LEMMA SearchStep == Detect!Next => Search!Next
BY DEF Detect!Next, Search!Next, Detect!StartRoot, Search!StartRoot,
       Detect!SkipRoot, Search!SkipRoot, Detect!Visit, Search!Visit,
       Detect!VisitDone, Search!VisitDone, Detect!VisitGray, Search!VisitGray,
       Detect!VisitWhite, Search!VisitWhite, Detect!Push, Search!Push,
       Detect!Leave, Search!Leave, Detect!Top, Search!Top,
       Detect!RecordCycle, Search!RecordCycle, Detect!ClosedBy, Search!ClosedBy,
       Detect!Finished, Search!Finished, Detect!Done, Search!Done,
       Detect!vars, Search!vars, Detect!Instance, Search!Instance,
       Detect!Range, Search!Range

LEMMA PassNames ==
  /\ Pass!Instance = Instance /\ Pass!Filed = Resolver!Filed
  /\ Pass!Blocked = Resolver!Blocked /\ Pass!Done = Resolver!Done
  /\ Pass!Backstop <=> Resolver!Backstop
  /\ \A n : Pass!Refs(n) = Refs(n)
  /\ \A S : Pass!AcyclicOn(S) <=> Resolver!AcyclicOn(S)
BY DEF Pass!Instance, Pass!Range, Instance, Range, Resolver!Instance, Resolver!Range,
       Pass!Filed, Resolver!Filed, Pass!Blocked, Resolver!Blocked,
       Pass!Done, Resolver!Done, Pass!Idle, Resolver!Idle,
       Pass!Backstop, Resolver!Backstop, Pass!AtStep, Resolver!AtStep,
       Pass!Current, Resolver!Current, Pass!Top, Resolver!Top,
       Pass!Refs, Refs, Resolver!Refs, Pass!AcyclicOn, Resolver!AcyclicOn

LEMMA PassStep == Resolver!Next => Pass!Next
BY DEF Resolver!Next, Pass!Next, Resolver!StartInstance, Pass!StartInstance,
       Resolver!SkipInstance, Pass!SkipInstance, Resolver!UseCached, Pass!UseCached,
       Resolver!MeetFailed, Pass!MeetFailed, Resolver!MeetOwnError, Pass!MeetOwnError,
       Resolver!Descend, Pass!Descend, Resolver!MeetCrash, Pass!MeetCrash,
       Resolver!Complete, Pass!Complete, Resolver!FileBlocked, Pass!FileBlocked,
       Resolver!FileError, Pass!FileError, Resolver!Swallow, Pass!Swallow,
       Resolver!Finished, Pass!Finished, Resolver!Ended, Pass!Ended,
       Resolver!Done, Pass!Done, Resolver!Aborted, Pass!Aborted,
       Resolver!Idle, Pass!Idle, Resolver!Enter, Pass!Enter, Resolver!Leave, Pass!Leave,
       Resolver!AtStep, Pass!AtStep, Resolver!Current, Pass!Current,
       Resolver!Backstop, Pass!Backstop, Resolver!Top, Pass!Top,
       Resolver!Caller, Pass!Caller, Resolver!RootOf, Pass!RootOf,
       Resolver!Step, Pass!Step, Resolver!Filed, Pass!Filed,
       Resolver!Blocked, Pass!Blocked, Resolver!Instance, Pass!Instance,
       Resolver!Range, Pass!Range, Resolver!vars, Pass!vars

-----------------------------------------------------------------------------
(* What the two proofs say, for the names and bodies of the pipeline.      *)
LEMMA SearchInv ==
  /\ Search!Init => Search!IInv
  /\ Search!IInv /\ [Search!Next]_(Search!vars) => Search!IInv'
  /\ Search!IInv /\ Search!Done => Search!AcyclicOn(Search!Instance \ Search!Reported)
BY FrontEndAssumption, Search!InvInit, Search!InvStep, Search!DoneClean

LEMMA PassInv ==
  /\ Pass!Fresh => Pass!IInv
  /\ Pass!IInv /\ [Pass!Next]_(Pass!vars) => Pass!IInv'
  /\ Pass!IInv /\ Pass!Done => Pass!Filed = Pass!Instance
BY FrontEndAssumption, Pass!InvFresh, Pass!InvStep, Pass!DoneFiled DEF Pass!Step

LEMMA PassStays ==
  ASSUME Pass!IInv, [Pass!Next]_(Pass!vars)
  PROVE  errors \subseteq errors' /\ body' = body
BY FrontEndAssumption, Pass!VerdictsStay DEF Pass!Step

LEMMA PassSeed ==
  ASSUME Pass!Fresh, Pass!IInv, errors' \in SUBSET Instance,
         UNCHANGED <<body, cache, blocked, resolving, stack, pc, raised, next>>
  PROVE  Pass!IInv'
BY FrontEndAssumption, PassNames, Pass!SeedStep DEF Pass!Step

LEMMA PassBackstop ==
  ASSUME Pass!IInv, Pass!CleanAcyclic
  PROVE  ~Pass!Backstop
BY FrontEndAssumption, Pass!NoBackstop DEF Pass!Step, Pass!IInv

-----------------------------------------------------------------------------
(* The invariant of the pipeline: what each phase has when it begins.      *)

(* diagnosis tells whose error is in errors, and 4 of no one but circular  *)
(* instances, whose error is never another phase's.                        *)
Diagnosed ==
  /\ diagnosis \in [Instance -> 0 .. 6]
  /\ \A n \in Instance : n \in errors <=> diagnosis[n] # 0
  /\ \A n \in Circular : diagnosis[n] \in {0, 4}

Handed ==
  /\ phase = "cycles" => Pass!Fresh /\ errors = {}
  /\ phase # "cycles" => Detect!Done /\ Circular \subseteq errors
  /\ phase = "report" => Resolver!Done
  /\ verdict = "build" => phase = "end" /\ cache = Instance

PipeInv ==
  /\ hidden \in [Instance -> SUBSET Name]
  /\ Search!IInv
  /\ Pass!IInv
  /\ Diagnosed
  /\ Handed

LEMMA PipeInit == Init => PipeInv
<1> SUFFICES ASSUME Init PROVE PipeInv
  OBVIOUS
<1>1. hidden \in [Instance -> SUBSET Name]
  BY DEF Init
<1>2. Search!IInv
  <2>1. Dependencies \in [Instance -> SUBSET Name]
    BY DEF Dependencies, Refs
  <2> QED
    BY <2>1, SearchInv, SearchNames DEF Init, Search!Init
<1>3. Pass!Fresh /\ errors = {}
  BY PassNames DEF Init, Pass!Fresh
<1>4. Pass!IInv
  BY <1>3, PassInv
<1>5. Circular = {}
  BY DEF Init, Circular, Detect!Reported, Detect!Instance, Detect!Range, Instance, Range
<1>6. Diagnosed
  BY <1>3, <1>5 DEF Init, Diagnosed
<1>7. Handed
  BY <1>3 DEF Init, Handed
<1> QED
  BY <1>1, <1>2, <1>4, <1>6, <1>7 DEF PipeInv

(* Of a step that changes nothing of phase 4's, phase 4's part is kept.    *)
LEMMA SearchKept ==
  ASSUME Search!IInv, UNCHANGED <<body, hidden, detectVars>>
  PROVE  /\ Search!IInv' /\ Circular' = Circular /\ Detect!Done' = Detect!Done
<1>1. Dependencies' = Dependencies
  BY DEF Dependencies, Refs
<1>2. UNCHANGED Search!vars
  BY <1>1 DEF Search!vars, detectVars
<1> QED
  BY <1>2, SearchInv
     DEF detectVars, Circular, Detect!Reported, Detect!Instance, Detect!Range, Detect!Done

LEMMA PassKept ==
  ASSUME Pass!IInv, UNCHANGED <<body, resolveVars>>
  PROVE  Pass!IInv' /\ Resolver!Done' = Resolver!Done /\ Pass!Fresh' = Pass!Fresh
<1>1. UNCHANGED Pass!vars
  BY DEF Pass!vars, resolveVars
<1> QED
  BY <1>1, PassInv DEF resolveVars, Resolver!Done, Resolver!Idle, Pass!Fresh

LEMMA PipeStep == PipeInv /\ [Next]_vars => PipeInv'
<1> SUFFICES ASSUME PipeInv, [Next]_vars PROVE PipeInv'
  OBVIOUS
<1> USE DEF PipeInv
<1>1. CASE DetectStep
  <2>1. /\ phase = "cycles" /\ Detect!Next
        /\ UNCHANGED <<body, hidden, phase, diagnosis, resolveVars, verdict>>
    BY <1>1 DEF DetectStep
  <2>2. Search!IInv'
    BY <2>1, SearchStep, SearchInv
  <2>3. Pass!IInv' /\ Pass!Fresh' /\ errors' = {}
    BY <2>1, PassKept DEF Handed, resolveVars
  <2>4. Diagnosed'
    <3>1. \A n \in Instance : diagnosis[n] = 0
      BY <2>1 DEF Diagnosed, Handed
    <3>2. Circular' \subseteq Instance
      BY DEF Circular, Detect!Reported, Detect!Instance, Detect!Range, Instance, Range
    <3> QED
      BY <2>1, <2>3, <3>1, <3>2 DEF Diagnosed
  <2>5. Handed'
    BY <2>1, <2>3 DEF Handed
  <2> QED
    BY <2>1, <2>2, <2>3, <2>4, <2>5
<1>2. CASE Seed
  <2>1. PICK malformed \in SUBSET Instance :
          /\ errors' = Circular \cup malformed
          /\ diagnosis' = [n \in Instance |->
                             IF n \in Circular THEN 4
                             ELSE IF n \in malformed THEN 5 ELSE 0]
    BY <1>2 DEF Seed
  <2>2. /\ phase = "cycles" /\ Detect!Done /\ phase' = "resolve"
        /\ UNCHANGED <<body, hidden, detectVars, cache, blocked, resolving, stack,
                       pc, raised, next, verdict>>
    BY <1>2 DEF Seed
  <2>3. Search!IInv' /\ Circular' = Circular /\ Detect!Done'
    BY <2>2, SearchKept
  <2>4. Circular \subseteq Instance
    BY DEF Circular, Detect!Reported, Detect!Instance, Detect!Range, Instance, Range
  <2>5. Pass!IInv'
    BY <2>1, <2>2, <2>4, PassSeed DEF Handed
  <2>6. Diagnosed'
    BY <2>1, <2>3, <2>4 DEF Diagnosed
  <2>7. Handed'
    BY <2>1, <2>2, <2>3 DEF Handed
  <2> QED
    BY <2>2, <2>3, <2>5, <2>6, <2>7
<1>3. CASE ResolveStep
  <2>1. /\ phase = "resolve" /\ Resolver!Next
        /\ diagnosis' = [n \in Instance |->
                           IF n \in errors' \ errors THEN 6 ELSE diagnosis[n]]
        /\ UNCHANGED <<hidden, detectVars, phase, verdict>>
    BY <1>3 DEF ResolveStep
  <2>2. Pass!Next
    BY <2>1, PassStep
  <2>3. errors \subseteq errors' /\ body' = body
    BY <2>2, PassStays
  <2>4. Search!IInv' /\ Circular' = Circular /\ Detect!Done' = Detect!Done
    BY <2>1, <2>3, SearchKept
  <2>5. Pass!IInv'
    BY <2>2, PassInv
  <2>6. Diagnosed'
    <3>1. Circular \subseteq errors
      BY <2>1 DEF Handed
    <3>2. Circular \subseteq Instance
      BY DEF Circular, Detect!Reported, Detect!Instance, Detect!Range, Instance, Range
    <3>3. \A n \in Instance : diagnosis'[n] \in 0 .. 6
                             /\ (n \in errors' <=> diagnosis'[n] # 0)
      BY <2>1, <2>3 DEF Diagnosed
    <3>4. \A n \in Circular : diagnosis'[n] = diagnosis[n]
      BY <2>1, <3>1, <3>2
    <3> QED
      BY <2>1, <2>4, <3>3, <3>4 DEF Diagnosed
  <2>7. Handed'
    BY <2>1, <2>3, <2>4 DEF Handed
  <2> QED
    BY <2>1, <2>4, <2>5, <2>6, <2>7
<1>4. CASE Return
  <2>1. /\ phase = "resolve" /\ Resolver!Ended
        /\ phase' = IF Resolver!Aborted THEN "end" ELSE "report"
        /\ UNCHANGED <<body, hidden, detectVars, diagnosis, resolveVars, verdict>>
    BY <1>4 DEF Return
  <2>2. Search!IInv' /\ Circular' = Circular /\ Detect!Done' = Detect!Done
    BY <2>1, SearchKept
  <2>3. Pass!IInv' /\ Resolver!Done' = Resolver!Done
    BY <2>1, PassKept
  <2>4. errors' = errors /\ cache' = cache
    BY <2>1 DEF resolveVars
  <2>5. Diagnosed'
    BY <2>1, <2>2, <2>4 DEF Diagnosed
  <2>6. Handed'
    BY <2>1, <2>2, <2>3, <2>4 DEF Handed, Resolver!Ended
  <2> QED
    BY <2>1, <2>2, <2>3, <2>5, <2>6
<1>5. CASE Report
  <2>1. /\ phase = "report" /\ phase' = "end"
        /\ UNCHANGED <<body, hidden, detectVars, diagnosis, resolveVars>>
    BY <1>5 DEF Report
  <2>2. Search!IInv' /\ Circular' = Circular /\ Detect!Done' = Detect!Done
    BY <2>1, SearchKept
  <2>3. Pass!IInv'
    BY <2>1, PassKept
  <2>4. errors' = errors /\ cache' = cache
    BY <2>1 DEF resolveVars
  <2>5. Diagnosed'
    BY <2>1, <2>2, <2>4 DEF Diagnosed
  <2>6. ASSUME verdict' = "build" PROVE cache = Instance
    <3>1. PICK deleted, unset \in SUBSET Instance :
            \A n \in Instance : Status(n, deleted, unset) \in {"ok", "delete"}
      BY <1>5, <2>6 DEF Report
    <3>2. ASSUME NEW n \in Instance
          PROVE  n \notin errors /\ n \notin Resolver!Blocked
      <4>1. n \in errors => Status(n, deleted, unset) = "error"
        BY DEF Status
      <4>2. n \notin errors /\ n \in Resolver!Blocked
              => Status(n, deleted, unset) = "blocked"
        BY DEF Status
      <4> QED
        BY <3>1, <4>1, <4>2
    <3>3. Resolver!Filed = Instance
      BY <2>1, PassInv, PassNames DEF Handed
    <3> QED
      BY <3>2, <3>3 DEF Resolver!Filed
  <2>7. Handed'
    BY <2>1, <2>2, <2>4, <2>6 DEF Handed
  <2> QED
    BY <2>1, <2>2, <2>3, <2>5, <2>7
<1>6. CASE UNCHANGED vars
  <2>1. UNCHANGED <<body, hidden, detectVars, phase, diagnosis, resolveVars, verdict>>
    BY <1>6 DEF vars
  <2>2. Search!IInv' /\ Circular' = Circular /\ Detect!Done' = Detect!Done
    BY <2>1, SearchKept
  <2>3. Pass!IInv' /\ Resolver!Done' = Resolver!Done /\ Pass!Fresh' = Pass!Fresh
    BY <2>1, PassKept
  <2>4. errors' = errors /\ cache' = cache
    BY <2>1 DEF resolveVars
  <2> QED
    BY <2>1, <2>2, <2>3, <2>4 DEF Diagnosed, Handed
<1> QED
  BY <1>1, <1>2, <1>3, <1>4, <1>5, <1>6 DEF Next, Finished

LEMMA Pipeline == Spec => []PipeInv
BY PipeInit, PipeStep, PTL DEF Spec

-----------------------------------------------------------------------------
(* The theorems.                                                           *)

(* The circular-reference check that resolve.py:230 calls unreachable is   *)
(* so, for every program all of whose copies phase 4 sees: the search      *)
(* leaves no cycle among the instances it does not report, and its reports *)
(* are errors when phase 6 begins.                                         *)
THEOREM BackstopIsDead == Spec => []BackstopUnreached
<1>1. PipeInv => BackstopUnreached
  <2> SUFFICES ASSUME PipeInv, phase = "resolve", \A n \in Instance : hidden[n] = {}
               PROVE  ~Resolver!Backstop
    BY DEF BackstopUnreached
  <2>1. Search!AcyclicOn(Instance \ Circular) /\ Circular \subseteq errors
    BY SearchInv, SearchNames DEF PipeInv, Handed
  <2>2. Pass!CleanAcyclic
    <3> SUFFICES ASSUME NEW S \in SUBSET (Instance \ errors), S # {}
                 PROVE  \E n \in S : Refs(n) \cap S = {}
      BY PassNames DEF Pass!CleanAcyclic, Pass!AcyclicOn
    <3>1. PICK n \in S : Dependencies[n] \cap S = {}
      BY <2>1 DEF Search!AcyclicOn
    <3>2. Dependencies[n] = Refs(n)
      BY DEF Dependencies
    <3> QED
      BY <3>1, <3>2
  <2> QED
    BY <2>2, PassBackstop, PassNames DEF PipeInv
<1> QED
  BY <1>1, Pipeline, PTL

(* An exporter runs only on instances that are all resolved, from resolved *)
(* ones, in an order without a cycle: also where phase 4 does not see a    *)
(* copy, since phase 6 then fails at the backstop.                         *)
THEOREM BuildsAreSound == Spec => []BuildIsSound
<1>1. PipeInv => BuildIsSound
  <2> SUFFICES ASSUME PipeInv, verdict = "build"
               PROVE  /\ cache = Instance /\ Resolver!AcyclicOn(Instance)
                      /\ \A n \in Instance : Refs(n) \subseteq cache
    BY DEF BuildIsSound
  <2>1. cache = Instance
    BY DEF PipeInv, Handed
  <2>2. Pass!CachedAcyclic /\ Pass!CachedFromCached
    BY DEF PipeInv, Pass!IInv
  <2>3. Resolver!AcyclicOn(Instance)
    BY <2>1, <2>2, PassNames DEF Pass!CachedAcyclic
  <2>4. \A n \in Instance : Refs(n) \subseteq cache
    BY <2>1, <2>2 DEF Pass!CachedFromCached, Refs, Pass!Range, Range
  <2> QED
    BY <2>1, <2>3, <2>4
<1> QED
  BY <1>1, Pipeline, PTL

(* Who failed for itself has one diagnosis, of the earliest phase that     *)
(* found a fault, for good: seeding does not overwrite phase 4's report,   *)
(* and phase 6 never comes to an instance refused before.                  *)
THEOREM EarliestDiagnosis == Spec => EarliestPhaseWins
<1> DEFINE Kept == \A n \in Instance :
                     /\ diagnosis[n] # 0 => diagnosis'[n] = diagnosis[n]
                     /\ n \in errors' <=> diagnosis'[n] # 0
                     /\ diagnosis'[n] # 0 /\ n \in Circular'
                          => diagnosis'[n] = 4
<1>1. PipeInv /\ [Next]_vars => [Kept]_vars
  <2> SUFFICES ASSUME PipeInv, PipeInv', Next, NEW n \in Instance
               PROVE  /\ diagnosis[n] # 0 => diagnosis'[n] = diagnosis[n]
                      /\ n \in errors' <=> diagnosis'[n] # 0
                      /\ diagnosis'[n] # 0 /\ n \in Circular' => diagnosis'[n] = 4
    BY PipeStep
  <2>1. n \in errors' <=> diagnosis'[n] # 0
    BY DEF PipeInv, Diagnosed
  <2>2. diagnosis'[n] # 0 /\ n \in Circular' => diagnosis'[n] = 4
    BY DEF PipeInv, Diagnosed
  <2>3. diagnosis[n] # 0 => diagnosis'[n] = diagnosis[n]
    <3>1. CASE Seed
      BY <3>1 DEF Seed, PipeInv, Handed, Diagnosed
    <3>2. CASE ResolveStep
      BY <3>2 DEF ResolveStep, PipeInv, Diagnosed
    <3>3. CASE ~(Seed \/ ResolveStep)
      BY <3>3 DEF Next, DetectStep, Return, Report, Finished, vars
    <3> QED
      BY <3>1, <3>2, <3>3
  <2> QED
    BY <2>1, <2>2, <2>3
<1> HIDE DEF Kept
<1>2. Spec => [][Kept]_vars
  BY <1>1, Pipeline, PTL DEF Spec
<1> QED
  BY <1>2 DEF Kept, EarliestPhaseWins

-----------------------------------------------------------------------------
(* The descent over the lines of a text.                                   *)
Size(j) == recs[j].indent.len

LEMMA LineFacts ==
  ASSUME recs \in Texts
  PROVE  /\ recs \in Seq(SourceLine) /\ Len(recs) \in Nat /\ DOMAIN recs = 1 .. Len(recs)
         /\ \A j \in 1 .. Len(recs) :
              /\ recs[j].indent \in Indent /\ recs[j].shape \in Shape
              /\ Size(j) \in Nat /\ recs[j].indent # Unset
              /\ Size(j) # 0 => recs[j].indent.char # "none"
<1>1. recs \in Seq(SourceLine) /\ Len(recs) \in Nat /\ DOMAIN recs = 1 .. Len(recs)
  BY TextsAssumption, LenProperties
<1>2. ASSUME NEW j \in 1 .. Len(recs)
      PROVE  /\ recs[j].indent \in Indent /\ recs[j].shape \in Shape
             /\ Size(j) \in Nat /\ recs[j].indent # Unset
             /\ Size(j) # 0 => recs[j].indent.char # "none"
  <2>1. recs[j] \in SourceLine
    BY <1>1, ElementOfSeq
  <2>2. recs[j].indent \in Indent /\ recs[j].shape \in Shape
    BY <2>1 DEF SourceLine
  <2>3. /\ recs[j].indent.len \in Nat
        /\ recs[j].indent.char \in {"none", "space", "tab", "mixed"}
        /\ recs[j].indent.len # 0 => recs[j].indent.char # "none"
    BY <2>2 DEF Indent
  <2>4. recs[j].indent # Unset
    BY <2>3 DEF Unset
  <2> QED
    BY <2>2, <2>3, <2>4 DEF Size
<1> QED
  BY <1>1, <1>2

(* The line above a line in the layout.                                    *)
LEMMA ShapeFacts ==
  ASSUME recs \in Texts, NEW j \in 1 .. Len(recs)
  PROVE  LET shape == recs[j].shape IN
         /\ shape.top \in Listing \cup {"instance", "none"} /\ shape.entry \subseteq Listing
         /\ shape.body \in {"assign", "op", "bare", "raw", "none"}
         /\ "none" \notin Listing /\ "instance" \notin Listing
<1>1. recs[j].shape \in Shape
  BY LineFacts
<1>2. "none" \notin Listing /\ "instance" \notin Listing
  BY DEF Listing
<1> QED
  BY <1>1, <1>2 DEF Shape

LEMMA BelowFacts ==
  ASSUME recs \in Texts, NEW j \in 1 .. Len(recs)
  PROVE  /\ Below(j) \in 0 .. j - 1
         /\ (\A k \in 1 .. j - 1 : Size(j) <= Size(k)) => Below(j) = 0
         /\ \A k \in 1 .. j - 1 : Size(k) < Size(j) => Below(j) # 0
         /\ \A b \in 1 .. j - 1 :
              Size(b) < Size(j) /\ (\A k \in b + 1 .. j - 1 : Size(j) <= Size(k))
                => Below(j) = b
<1> DEFINE less == {k \in 1 .. j - 1 : recs[k].indent.len < recs[j].indent.len}
           Latest(k) == \A l \in less : l <= k
<1>1. /\ j \in Nat \ {0} /\ Len(recs) \in Nat
      /\ \A k \in 1 .. j : k \in Nat /\ Size(k) \in Nat
  BY LineFacts
<1>2. Below(j) = IF less = {} THEN 0 ELSE CHOOSE k \in less : Latest(k)
  BY DEF Below
<1>3. less \in SUBSET (1 .. j - 1) /\ less \in SUBSET Nat /\ IsFiniteSet(less)
  <2>1. less \in SUBSET (1 .. j - 1)
    OBVIOUS
  <2>2. IsFiniteSet(1 .. j - 1)
    BY <1>1, FS_Interval
  <2>3. IsFiniteSet(less)
    BY <2>1, <2>2, FS_Subset
  <2>4. less \in SUBSET Nat
    OBVIOUS
  <2> QED
    BY <2>1, <2>3, <2>4
<1>4. \A k \in 1 .. j - 1 : k \in less <=> Size(k) < Size(j)
  BY DEF Size
<1> HIDE DEF less
<1>5. ASSUME less # {}
      PROVE  Below(j) \in less /\ Latest(Below(j))
  <2>1. \E k \in less : Latest(k)
    BY <1>3, <1>5, NatMax
  <2> HIDE DEF Latest
  <2>2. (CHOOSE k \in less : Latest(k)) \in less /\ Latest(CHOOSE k \in less : Latest(k))
    BY <2>1
  <2> QED
    BY <1>2, <1>5, <2>2
<1>6. Below(j) \in 0 .. j - 1
  <2>1. CASE less = {}
    BY <1>1, <1>2, <2>1
  <2>2. CASE less # {}
    <3>1. Below(j) \in 1 .. j - 1
      BY <1>3, <1>5, <2>2
    <3> QED
      BY <1>1, <3>1
  <2> QED
    BY <2>1, <2>2
<1>7. ASSUME \A k \in 1 .. j - 1 : Size(j) <= Size(k)
      PROVE  Below(j) = 0
  <2>1. \A k \in 1 .. j - 1 : k \notin less
    <3>1. ASSUME NEW k \in 1 .. j - 1
          PROVE  k \notin less
      <4>1. Size(j) <= Size(k) /\ Size(k) \in Nat /\ Size(j) \in Nat
        BY <1>1, <1>7
      <4> QED
        BY <1>4, <4>1
    <3> QED
      BY <3>1
  <2> QED
    BY <1>2, <1>3, <2>1
<1>8. ASSUME NEW k \in 1 .. j - 1, Size(k) < Size(j)
      PROVE  Below(j) # 0
  <2>1. less # {}
    BY <1>4, <1>8
  <2>2. Below(j) \in 1 .. j - 1
    BY <1>3, <1>5, <2>1
  <2> QED
    BY <2>2
<1>9. ASSUME NEW b \in 1 .. j - 1, Size(b) < Size(j),
             \A k \in b + 1 .. j - 1 : Size(j) <= Size(k)
      PROVE  Below(j) = b
  <2>1. b \in less
    BY <1>4, <1>9
  <2>2. Below(j) \in less /\ b <= Below(j) /\ Below(j) \in 1 .. j - 1
    BY <1>3, <1>5, <2>1
  <2>3. Size(Below(j)) < Size(j) /\ Size(j) \in Nat /\ Size(Below(j)) \in Nat
    BY <1>1, <1>4, <2>2
  <2>4. Below(j) \notin b + 1 .. j - 1
    <3>1. ~(Size(j) <= Size(Below(j)))
      BY <2>3
    <3> QED
      BY <1>9, <3>1
  <2> QED
    BY <2>2, <2>4
<1> QED
  BY <1>6, <1>7, <1>8, <1>9

LEMMA StructureIs ==
  ASSUME recs \in Texts, NEW j \in 1 .. Len(recs), NEW r \in 1 .. j,
         Below(r) = 0, \A l \in r + 1 .. j : Below(l) # 0
  PROVE  Structure(j) = r
<1> DEFINE Is(k) == Below(k) = 0 /\ \A l \in k + 1 .. j : Below(l) # 0
<1>1. Is(r)
  OBVIOUS
<1>2. ASSUME NEW k \in 1 .. j, Is(k)
      PROVE  k = r
  <2>1. k \notin r + 1 .. j /\ r \notin k + 1 .. j
    BY <1>2
  <2> QED
    BY <2>1
<1> HIDE DEF Is
<1>3. (CHOOSE k \in 1 .. j : Is(k)) = r
  BY <1>1, <1>2
<1> QED
  BY <1>3 DEF Structure, Is

LEMMA ShorterIsWellFormed ==
  ASSUME NEW n \in Nat, NEW m \in 0 .. n, WellFormed(n)
  PROVE  WellFormed(m)
<1>1. \A j \in 1 .. m : j \in 1 .. n
  OBVIOUS
<1> QED
  BY <1>1 DEF WellFormed

(* Three ways for the first n lines not to be well formed.                 *)
LEMMA Malformed ==
  ASSUME NEW n \in Nat, NEW j \in 1 .. n,
         \/ ~Fits(j)
         \/ \E k \in 1 .. n : Below(j) = Below(k) /\ recs[j].indent # recs[k].indent
         \/ \E k \in 1 .. n : /\ Structure(j) = Structure(k)
                              /\ Below(j) # 0 /\ Below(k) # 0
                              /\ recs[j].indent.char # recs[k].indent.char
         \/ recs[j].indent.char = "mixed"
  PROVE  ~WellFormed(n)
BY DEF WellFormed

-----------------------------------------------------------------------------
(* The stack of open blocks when n is the line to be read: every block but *)
(* the last is open because of the line the next one is below; its first   *)
(* line is the one after its owner, indented deeper than the owner, and no *)
(* line since is indented less.                                            *)
OpenBlock == [kind : {"top", "body", "entries", "assign", "op", "bare"},
              owner : Nat, indent : Indent \cup {Unset}]

Placed(blocks, n, k) ==
  LET b == blocks[k]
  IN  /\ k = 1 => b.kind = "top" /\ b.owner = 0
      /\ k # 1 => /\ b.owner \in 1 .. n - 1
                  /\ blocks[k - 1].indent = recs[b.owner].indent
      /\ k = 2 => /\ Below(b.owner) = 0
                  /\ \/ b.kind = "body" /\ recs[b.owner].shape.top = "instance"
                     \/ b.kind = "entries" /\ recs[b.owner].shape.top \in Listing
      /\ 2 < k => /\ b.kind = recs[b.owner].shape.body /\ b.kind \in {"assign", "op", "bare"}
                  /\ blocks[2].kind = "body"
      /\ \A l \in 1 .. k - 1 : blocks[l].owner < b.owner
      /\ b.indent = Unset => n = b.owner + 1
      /\ b.indent # Unset =>
           /\ b.owner + 1 < n
           /\ recs[b.owner + 1].indent = b.indent
           /\ k # 1 => Size(b.owner) < b.indent.len
           /\ \A j \in b.owner + 1 .. n - 1 : b.indent.len <= Size(j)

Stacked(blocks, n) ==
  /\ n \in 1 .. Len(recs) + 1
  /\ blocks \in Seq(OpenBlock)
  /\ \A k \in 1 .. Len(blocks) : Placed(blocks, n, k)

LEMMA BlockFacts ==
  ASSUME recs \in Texts, NEW blocks, NEW n, Stacked(blocks, n), NEW k \in 1 .. Len(blocks)
  PROVE  /\ Len(blocks) \in Nat /\ n \in Nat \ {0} /\ n <= Len(recs) + 1
         /\ blocks[k].owner \in 0 .. n - 1 /\ blocks[k].indent \in Indent \cup {Unset}
         /\ (blocks[k].owner = 0 <=> k = 1) /\ (blocks[k].kind = "top" <=> k = 1)
         /\ blocks[k].indent.len \in Nat
         /\ k # 1 => blocks[k].owner \in 1 .. Len(recs)
<1>1. /\ n \in 1 .. Len(recs) + 1 /\ blocks \in Seq(OpenBlock) /\ Placed(blocks, n, k)
      /\ Len(recs) \in Nat /\ Len(blocks) \in Nat
  BY LineFacts, LenProperties DEF Stacked
<1>2. blocks[k] \in OpenBlock
  BY <1>1, ElementOfSeq
<1>3. blocks[k].owner \in Nat /\ blocks[k].indent \in Indent \cup {Unset}
  BY <1>2 DEF OpenBlock
<1>4. /\ k = 1 => blocks[k].kind = "top" /\ blocks[k].owner = 0
      /\ k # 1 => blocks[k].owner \in 1 .. n - 1
      /\ k = 2 => blocks[k].kind \in {"body", "entries"}
      /\ 2 < k => blocks[k].kind \in {"assign", "op", "bare"}
  BY <1>1 DEF Placed
<1>5. blocks[k].indent.len \in Nat
  BY <1>3 DEF Indent, Unset
<1>6. k = 1 \/ k = 2 \/ 2 < k
  BY <1>1
<1> QED
  BY <1>1, <1>3, <1>4, <1>5, <1>6

(* A line of a block, the first or one to be read, is below its owner.     *)
LEMMA BelowOwner ==
  ASSUME recs \in Texts, NEW blocks, NEW n, Stacked(blocks, n), NEW k \in 1 .. Len(blocks),
         NEW j \in 1 .. Len(recs), blocks[k].owner < j, j <= n,
         k # 1 => Size(blocks[k].owner) < Size(j),
         \/ j = blocks[k].owner + 1
         \/ blocks[k].indent # Unset /\ Size(j) <= blocks[k].indent.len
  PROVE  Below(j) = blocks[k].owner
<1> DEFINE o == blocks[k].owner
<1>1. /\ n \in Nat /\ o \in 0 .. n - 1 /\ (o = 0 <=> k = 1) /\ j \in Nat
      /\ blocks[k].indent.len \in Nat /\ n <= Len(recs) + 1 /\ Len(recs) \in Nat
      /\ \A l \in 1 .. Len(recs) : Size(l) \in Nat
  BY BlockFacts, LineFacts
<1>2. ASSUME NEW l \in o + 1 .. j - 1
      PROVE  Size(j) <= Size(l) /\ l \in 1 .. Len(recs)
  <2>1. l \in 1 .. Len(recs) /\ l \in o + 1 .. n - 1 /\ j # o + 1
    BY <1>1
  <2>2. blocks[k].indent # Unset /\ Size(j) <= blocks[k].indent.len
    BY <2>1
  <2>3. blocks[k].indent.len <= Size(l)
    BY <2>1, <2>2 DEF Stacked, Placed
  <2> QED
    BY <1>1, <2>1, <2>2, <2>3
<1>3. CASE k = 1
  <2>1. \A l \in 1 .. j - 1 : Size(j) <= Size(l)
    BY <1>1, <1>2, <1>3
  <2> QED
    BY <1>1, <1>3, <2>1, BelowFacts
<1>4. CASE k # 1
  <2>1. o \in 1 .. j - 1 /\ Size(o) < Size(j)
    BY <1>1, <1>4
  <2> QED
    BY <1>2, <2>1, BelowFacts
<1> QED
  BY <1>3, <1>4

(* The text is never changed, nor is anything said of it alone.            *)
LEMMA TextKept ==
  ASSUME recs' = recs
  PROVE  /\ \A j : Size(j)' = Size(j) /\ Below(j)' = Below(j)
         /\ \A j : Structure(j)' = Structure(j)
         /\ \A j : Fits(j)' = Fits(j)
         /\ \A n : WellFormed(n)' = WellFormed(n)
<1>1. \A j : Size(j)' = Size(j)
  BY DEF Size
<1>2. \A j : Below(j)' = Below(j)
  BY DEF Below
<1>3. \A j : Structure(j)' = Structure(j)
  BY <1>2 DEF Structure
<1>4. \A j : Fits(j)' = Fits(j)
  BY <1>2, <1>3 DEF Fits
<1>5. \A n : WellFormed(n)' = WellFormed(n)
  BY <1>2, <1>3, <1>4 DEF WellFormed
<1> QED
  BY <1>1, <1>2, <1>3, <1>4, <1>5

LEMMA StructureFacts ==
  ASSUME recs \in Texts, NEW j \in 1 .. Len(recs)
  PROVE  Structure(j) \in 1 .. j /\ Below(Structure(j)) = 0
<1> DEFINE Is(k) == Below(k) = 0 /\ \A l \in k + 1 .. j : Below(l) # 0
           Tops == {k \in 1 .. j : Below(k) = 0}
<1>1. j \in Nat /\ Len(recs) \in Nat
  BY LineFacts
<1>2. 1 \in Tops
  <2>1. 1 \in 1 .. Len(recs) /\ 1 \in 1 .. j
    BY <1>1
  <2>2. Below(1) \in 0 .. 1 - 1
    BY <2>1, BelowFacts
  <2>3. Below(1) = 0
    BY <2>2
  <2> QED
    BY <2>1, <2>3
<1>3. Tops \in SUBSET Nat /\ IsFiniteSet(Tops)
  <2>1. IsFiniteSet(1 .. j)
    BY <1>1, FS_Interval
  <2>2. Tops \in SUBSET (1 .. j)
    OBVIOUS
  <2>3. IsFiniteSet(Tops)
    BY <2>1, <2>2, FS_Subset
  <2> QED
    BY <2>3
<1>4. PICK k \in Tops : \A l \in Tops : l <= k
  BY <1>2, <1>3, NatMax
<1>5. k \in 1 .. j /\ Is(k)
  <2>1. k \in 1 .. j /\ Below(k) = 0
    OBVIOUS
  <2>2. ASSUME NEW l \in k + 1 .. j
        PROVE  Below(l) # 0
    <3>1. l \in 1 .. j /\ ~(l <= k)
      BY <2>1
    <3> QED
      BY <1>4, <3>1
  <2> QED
    BY <2>1, <2>2
<1> HIDE DEF Is
<1>6. (CHOOSE x \in 1 .. j : Is(x)) \in 1 .. j /\ Is(CHOOSE x \in 1 .. j : Is(x))
  BY <1>5
<1>7. Structure(j) \in 1 .. j /\ Is(Structure(j))
  BY <1>6 DEF Structure, Is
<1> QED
  BY <1>7 DEF Is

(* One line more is well formed when it fits and agrees with those before. *)
LEMMA LongerIsWellFormed ==
  ASSUME NEW n \in Nat \ {0}, WellFormed(n - 1), Fits(n), recs[n].indent.char # "mixed",
         \A j \in 1 .. n - 1 :
           /\ Below(j) = Below(n) => recs[j].indent = recs[n].indent
           /\ Structure(j) = Structure(n) /\ Below(j) # 0 /\ Below(n) # 0
                => recs[j].indent.char = recs[n].indent.char
  PROVE  WellFormed(n)
<1>1. \A j \in 1 .. n : j \in 1 .. n - 1 \/ j = n
  OBVIOUS
<1> QED
  BY <1>1 DEF WellFormed

-----------------------------------------------------------------------------
(* What the stack says of the lines.                                       *)
LEMMA FirstLine ==
  ASSUME recs \in Texts, NEW blocks, NEW n, Stacked(blocks, n), NEW k \in 1 .. Len(blocks),
         blocks[k].indent # Unset
  PROVE  /\ blocks[k].owner + 1 \in 1 .. Len(recs) /\ blocks[k].owner + 1 \in 1 .. n - 1
         /\ Below(blocks[k].owner + 1) = blocks[k].owner
         /\ recs[blocks[k].owner + 1].indent = blocks[k].indent
<1> DEFINE f == blocks[k].owner + 1
<1>1. /\ n \in Nat /\ blocks[k].owner \in 0 .. n - 1 /\ n <= Len(recs) + 1 /\ Len(recs) \in Nat
  BY BlockFacts, LineFacts
<1>2. /\ f < n /\ recs[f].indent = blocks[k].indent
      /\ k # 1 => Size(blocks[k].owner) < blocks[k].indent.len
  BY DEF Stacked, Placed
<1>3. f \in 1 .. Len(recs) /\ f \in 1 .. n - 1 /\ blocks[k].owner < f /\ f <= n
  BY <1>1, <1>2
<1>4. k # 1 => Size(blocks[k].owner) < Size(f)
  BY <1>2 DEF Size
<1>5. Below(f) = blocks[k].owner
  BY <1>3, <1>4, BelowOwner
<1> QED
  BY <1>2, <1>3, <1>5

LEMMA Outer ==
  ASSUME recs \in Texts, NEW blocks, NEW n, Stacked(blocks, n),
         NEW m \in 1 .. Len(blocks), NEW k \in 1 .. m - 1
  PROVE  /\ k \in 1 .. Len(blocks)
         /\ blocks[k].owner < blocks[m].owner /\ blocks[k].indent # Unset
         /\ blocks[m].owner \in 1 .. Len(recs)
         /\ blocks[k].indent.len <= Size(blocks[m].owner)
         /\ k # 1 => Size(blocks[k].owner) < Size(blocks[m].owner)
<1>1. k \in 1 .. Len(blocks) /\ m # 1 /\ Len(blocks) \in Nat
  BY BlockFacts
<1>2. blocks[k].owner < blocks[m].owner
  BY DEF Stacked, Placed
<1>3. /\ n \in Nat /\ blocks[k].owner \in 0 .. n - 1 /\ blocks[m].owner \in 0 .. n - 1
      /\ blocks[m].owner \in 1 .. Len(recs) /\ blocks[k].indent.len \in Nat
      /\ k # 1 => blocks[k].owner \in 1 .. Len(recs)
  BY <1>1, BlockFacts
<1>4. blocks[k].indent # Unset
  <2>1. n # blocks[k].owner + 1
    BY <1>2, <1>3
  <2> QED
    BY <1>1, <2>1 DEF Stacked, Placed
<1>5. blocks[m].owner \in blocks[k].owner + 1 .. n - 1
  BY <1>2, <1>3
<1>6. /\ blocks[k].indent.len <= Size(blocks[m].owner)
      /\ k # 1 => Size(blocks[k].owner) < blocks[k].indent.len
  BY <1>1, <1>4, <1>5 DEF Stacked, Placed
<1>7. \A l \in 1 .. Len(recs) : Size(l) \in Nat
  BY LineFacts
<1>8. k # 1 => Size(blocks[k].owner) < Size(blocks[m].owner)
  BY <1>3, <1>6, <1>7
<1> QED
  BY <1>1, <1>2, <1>3, <1>4, <1>6, <1>8

(* A line inside the last block is deeper than every line of the blocks    *)
(* around it, and the structure they are all in is the second block's.     *)
Inside(blocks, j) ==
  Len(blocks) # 1 => Size(blocks[Len(blocks)].owner) < Size(j)

LEMMA Counted ==
  ASSUME NEW m \in Nat \ {0}
  PROVE  /\ m \in 1 .. m /\ (m = 1 \/ m = 2 \/ 2 < m)
         /\ \A k \in 1 .. m - 1 : k \in 1 .. m /\ k # m /\ m # 1
         /\ \A k \in 1 .. m : k \in 1 .. m - 1 \/ k = m
         /\ 2 < m => 2 \in 1 .. m - 1
         /\ m # 1 => 2 \in 1 .. m /\ (m = 2 \/ 2 \in 1 .. m - 1)
OBVIOUS

LEMMA NextUp ==
  ASSUME NEW n \in Nat, NEW l \in 1 .. n, NEW j \in 1 .. l - 1, NEW o \in 1 .. l - 1, o < j
  PROVE  o + 1 \in 1 .. l - 1 /\ o + 1 \in 1 .. n /\ o < o + 1 /\ o + 1 <= l /\ o + 1 # l
OBVIOUS

LEMMA OneLess ==
  ASSUME NEW n \in Nat \ {0}
  PROVE  /\ n - 1 \in Nat /\ n = (n - 1) + 1
         /\ n # 1 => n - 1 \in Nat \ {0}
OBVIOUS

LEMMA InsideAll ==
  ASSUME recs \in Texts, NEW blocks, NEW n, Stacked(blocks, n), Len(blocks) # 0,
         NEW j \in 1 .. Len(recs), Inside(blocks, j)
  PROVE  /\ \A k \in 1 .. Len(blocks) : k # 1 => Size(blocks[k].owner) < Size(j)
         /\ \A k \in 1 .. Len(blocks) - 1 : blocks[k].indent.len <= Size(j)
<1> DEFINE m == Len(blocks)
<1>1. m \in Nat \ {0}
  <2>1. blocks \in Seq(OpenBlock)
    BY DEF Stacked
  <2> QED
    BY <2>1
<1>2. ASSUME NEW k \in 1 .. m - 1
      PROVE  (k # 1 => Size(blocks[k].owner) < Size(j)) /\ blocks[k].indent.len <= Size(j)
  <2>1. m \in 1 .. m /\ m # 1
    BY <1>1, Counted
  <2>2. /\ k \in 1 .. m /\ blocks[m].owner \in 1 .. Len(recs)
        /\ blocks[k].indent.len <= Size(blocks[m].owner)
        /\ k # 1 => Size(blocks[k].owner) < Size(blocks[m].owner)
    BY <2>1, Outer
  <2>3. Size(blocks[m].owner) < Size(j)
    BY <2>1 DEF Inside
  <2>4. /\ blocks[k].indent.len \in Nat
        /\ k # 1 => blocks[k].owner \in 1 .. Len(recs)
    BY <2>2, BlockFacts
  <2>5. \A l \in 1 .. Len(recs) : Size(l) \in Nat
    BY LineFacts
  <2> QED
    BY <2>2, <2>3, <2>4, <2>5
<1>3. m # 1 => Size(blocks[m].owner) < Size(j)
  BY DEF Inside
<1>4. \A k \in 1 .. m : k \in 1 .. m - 1 \/ k = m
  BY <1>1
<1> QED
  BY <1>2, <1>3, <1>4

LEMMA InStructure ==
  ASSUME recs \in Texts, NEW blocks, NEW n, Stacked(blocks, n), 2 \in 1 .. Len(blocks),
         NEW j \in 1 .. Len(recs), blocks[2].owner < j, j <= n,
         j = n => Size(blocks[2].owner) < Size(j)
  PROVE  Structure(j) = blocks[2].owner /\ Below(j) # 0
<1> DEFINE o == blocks[2].owner
<1>1. /\ n \in Nat /\ o \in 0 .. n - 1 /\ o \in 1 .. Len(recs) /\ j \in Nat
      /\ blocks[2].indent.len \in Nat /\ n <= Len(recs) + 1 /\ Len(recs) \in Nat
      /\ \A l \in 1 .. Len(recs) : Size(l) \in Nat
  BY BlockFacts, LineFacts
<1>2. Below(o) = 0
  BY DEF Stacked, Placed
<1>3. ASSUME NEW l \in o + 1 .. j
      PROVE  Below(l) # 0
  <2>1. l \in 1 .. Len(recs) /\ o \in 1 .. l - 1
    BY <1>1
  <2>2. Size(o) < Size(l)
    <3>1. CASE l = n
      <4>1. j = n
        BY <1>1, <3>1
      <4> QED
        BY <3>1, <4>1
    <3>2. CASE l # n
      <4>1. l \in o + 1 .. n - 1 /\ n # o + 1
        BY <1>1, <3>2
      <4>2. Size(o) < blocks[2].indent.len /\ blocks[2].indent.len <= Size(l)
        BY <4>1 DEF Stacked, Placed
      <4> QED
        BY <1>1, <2>1, <4>2
    <3> QED
      BY <3>1, <3>2
  <2> QED
    BY <2>1, <2>2, BelowFacts
<1>4. o \in 1 .. j /\ j \in o + 1 .. j
  BY <1>1
<1>5. Structure(j) = o
  BY <1>2, <1>3, <1>4, StructureIs
<1> QED
  BY <1>3, <1>4, <1>5

(* A line no deeper than its block's lines, and not indented as they are.  *)
LEMMA ShallowSibling ==
  ASSUME recs \in Texts, NEW blocks, NEW n \in 1 .. Len(recs), Stacked(blocks, n),
         NEW k \in 1 .. Len(blocks), blocks[k].indent # Unset,
         k # 1 => Size(blocks[k].owner) < Size(n),
         Size(n) <= blocks[k].indent.len, recs[n].indent # blocks[k].indent
  PROVE  ~WellFormed(n)
<1> DEFINE f == blocks[k].owner + 1
<1>1. /\ f \in 1 .. Len(recs) /\ f \in 1 .. n - 1 /\ Below(f) = blocks[k].owner
      /\ recs[f].indent = blocks[k].indent
  BY FirstLine
<1>2. n \in Nat /\ blocks[k].owner \in 0 .. n - 1
  BY BlockFacts
<1>3. Below(n) = blocks[k].owner
  BY <1>2, BelowOwner
<1>4. n \in 1 .. n /\ f \in 1 .. n
  BY <1>1, <1>2
<1>5. Below(n) = Below(f) /\ recs[n].indent # recs[f].indent
  BY <1>1, <1>3
<1> QED
  BY <1>2, <1>4, <1>5, Malformed

(* What a block holds is what the layout admits, but for the children of   *)
(* an operator statement, which are read before they are refused.          *)
LEMMA HoldsIsFits ==
  ASSUME recs \in Texts, NEW blocks, NEW n \in 1 .. Len(recs), Stacked(blocks, n),
         Len(blocks) # 0, Inside(blocks, n),
         Below(n) = blocks[Len(blocks)].owner
  PROVE  Fits(n) <=> /\ Holds(blocks[Len(blocks)], recs[n].shape)
                     /\ blocks[Len(blocks)].kind # "op"
<1> DEFINE m == Len(blocks)
           b == blocks[m]
           shape == recs[n].shape
<1>1. m \in Nat \ {0} /\ n \in Nat
  <2>1. blocks \in Seq(OpenBlock)
    BY DEF Stacked
  <2> QED
    BY <2>1
<1>2. m \in 1 .. m /\ (m = 1 \/ m = 2 \/ 2 < m)
  BY <1>1, Counted
<1>3. /\ (b.owner = 0 <=> m = 1) /\ (b.kind = "top" <=> m = 1) /\ Placed(blocks, n, m)
      /\ n \in Nat /\ b.owner \in 0 .. n - 1
  BY <1>2, BlockFacts DEF Stacked
<1>4. CASE m = 1
  BY <1>3, <1>4 DEF Fits, Holds
<1>5. ASSUME m # 1
      PROVE  Structure(n) = blocks[2].owner /\ 2 \in 1 .. m
  <2>1. 2 \in 1 .. m
    <3>1. m = 2 \/ 2 < m
      BY <1>2, <1>5
    <3> HIDE DEF m
    <3> QED
      BY <1>1, <3>1
  <2>2. Size(blocks[2].owner) < Size(n)
    BY <1>2, <2>1, InsideAll
  <2>3. blocks[2].owner < n
    BY <1>1, <2>1, BlockFacts
  <2> QED
    BY <1>1, <2>1, <2>2, <2>3, InStructure
<1>6. CASE m = 2
  <2>1. /\ Below(b.owner) = 0 /\ b.owner # 0 /\ b.kind # "top"
        /\ \/ b.kind = "body" /\ recs[b.owner].shape.top = "instance"
           \/ b.kind = "entries" /\ recs[b.owner].shape.top \in Listing
    BY <1>3, <1>6 DEF Placed
  <2>2. Structure(n) = b.owner
    BY <1>5, <1>6
  <2>3. shape.entry \subseteq Listing /\ "instance" \notin Listing
    BY ShapeFacts
  <2>4. Fits(n) <=> \/ recs[b.owner].shape.top \in shape.entry
                    \/ recs[b.owner].shape.top = "instance" /\ shape.body # "none"
    BY <2>1, <2>2 DEF Fits
  <2>5. CASE b.kind = "body"
    BY <2>1, <2>3, <2>4, <2>5 DEF Holds
  <2>6. CASE b.kind = "entries"
    <3>1. recs[b.owner].shape.top # "instance"
      BY <2>1, <2>3, <2>6
    <3>2. Holds(b, shape) <=> recs[b.owner].shape.top \in shape.entry
      BY <2>6 DEF Holds
    <3> QED
      BY <2>4, <2>6, <3>1, <3>2
  <2> QED
    BY <2>1, <2>5, <2>6
<1>7. CASE 2 < m
  <2>1. 2 \in 1 .. m /\ 2 \in 1 .. m - 1 /\ m # 1
    BY <1>1, <1>7
  <2>2. /\ b.kind = recs[b.owner].shape.body /\ b.kind \in {"assign", "op", "bare"}
        /\ blocks[2].kind = "body" /\ b.owner # 0 /\ blocks[2].owner < b.owner
    BY <1>3, <1>7, <2>1 DEF Placed
  <2>3. recs[blocks[2].owner].shape.top = "instance"
    BY <2>1, <2>2 DEF Stacked, Placed
  <2>4. Below(b.owner) # 0
    <3>1. b.owner \in 1 .. Len(recs) /\ b.owner <= n /\ b.owner # n
      BY <1>2, <1>3, <2>2, BlockFacts
    <3> QED
      BY <2>1, <2>2, <3>1, InStructure
  <2>5. Structure(n) = blocks[2].owner
    BY <1>5, <2>1
  <2>6. Fits(n) <=> b.kind \in {"assign", "bare"} /\ shape.body # "none"
    BY <2>2, <2>3, <2>4, <2>5 DEF Fits
  <2>7. Holds(b, shape) <=> shape.body # "none"
    BY <2>2 DEF Holds
  <2> QED
    BY <2>2, <2>6, <2>7
<1> QED
  BY <1>2, <1>4, <1>6, <1>7

-----------------------------------------------------------------------------
(* The invariant of the descent when n is the line to be read.  The lines  *)
(* read so far are well formed, unless an open operator statement has      *)
(* children: that one is refused only when its block is over.  A line that *)
(* is deeper than the lines of the last block opens nothing, so the line   *)
(* before it is one that nothing can be below.                              *)
Doomed(blocks) ==
  \E k \in 1 .. Len(blocks) : blocks[k].kind = "op" /\ blocks[k].indent # Unset

Scoped(blocks, n, char) ==
  Len(blocks) \notin {0, 1} =>
    char = IF n = blocks[2].owner + 1 THEN "none"
           ELSE recs[blocks[2].owner + 1].indent.char

Deeper(blocks, n) ==
  n <= Len(recs) =>
    /\ Len(blocks) = 0 => ~WellFormed(n)
    /\ Len(blocks) # 0 =>
         \/ blocks[Len(blocks)].indent = Unset
         \/ Size(n) <= blocks[Len(blocks)].indent.len
         \/ ~WellFormed(n)

BareField(j) ==
  recs[j].shape.body = "bare" /\ recs[Structure(j)].shape.top = "instance" /\ Below(j) # 0
Warned(blocks, n) ==
  {j \in 1 .. n - 1 : /\ BareField(j)
                      /\ \A k \in 1 .. n - 1 : Below(k) # j
                      /\ \A k \in 1 .. Len(blocks) : blocks[k].owner # j}

Above(par, n) ==
  par \in Seq(Nat) /\ Len(par) = n - 1 /\ \A j \in 1 .. n - 1 : par[j] = Below(j)

Reading(blocks, n, char, par, warned) ==
  /\ Stacked(blocks, n) /\ Scoped(blocks, n, char) /\ Deeper(blocks, n)
  /\ Doomed(blocks) \/ WellFormed(n - 1)
  /\ Above(par, n) /\ warned = Warned(blocks, n)
  /\ \A j \in 1 .. Len(recs) : recs[j].indent.char # "mixed"

ParseInv ==
  /\ recs \in Texts
  /\ status \in {"records", "parsing", "accepted", "refused"}
  /\ status = "records" =>
       /\ row = 1 /\ open = <<Block("top", 0)>> /\ scopeChar = "none"
       /\ parent = << >> /\ warnings = {}
  /\ status \in {"parsing", "accepted"} => Reading(open, row, scopeChar, parent, warnings)
  /\ status = "accepted" => open = << >> /\ row = Len(recs) + 1
  /\ status = "refused" => failure \in 1 .. Len(recs) /\ ~WellFormed(failure)

(* What is said of the text stays true of it, which no step changes.       *)
LEMMA ReadingKept ==
  ASSUME recs' = recs, Reading(open', row', scopeChar', parent', warnings')
  PROVE  Reading(open, row, scopeChar, parent, warnings)'
<1>1. /\ \A j : Size(j)' = Size(j) /\ Below(j)' = Below(j) /\ Structure(j)' = Structure(j)
      /\ \A l : WellFormed(l)' = WellFormed(l)
  BY TextKept
<1>2. Stacked(open, row)'
  BY <1>1 DEF Reading, Stacked, Placed
<1>3. Scoped(open, row, scopeChar)'
  BY DEF Reading, Scoped
<1>4. Deeper(open, row)'
  <2>1. ~WellFormed(row') => ~WellFormed(row)'
    BY <1>1 DEF WellFormed
  <2> QED
    BY <1>1, <2>1 DEF Reading, Deeper
<1>5. Doomed(open)' \/ WellFormed(row - 1)'
  <2>1. WellFormed(row' - 1) => WellFormed(row - 1)'
    BY <1>1 DEF WellFormed, Fits
  <2> QED
    BY <2>1 DEF Reading, Doomed
<1>6. Above(parent, row)'
  BY <1>1 DEF Reading, Above
<1>7. (warnings = Warned(open, row))'
  BY <1>1 DEF Reading, Warned, BareField
<1> QED
  BY <1>2, <1>3, <1>4, <1>5, <1>6, <1>7 DEF Reading

(* The invariant is kept when the descent reads on or is refused.          *)
LEMMA ReadsOn ==
  ASSUME recs \in Texts, recs' = recs, status' = "parsing",
         Reading(open', row', scopeChar', parent', warnings')
  PROVE  ParseInv'
<1>1. Reading(open, row, scopeChar, parent, warnings)'
  BY ReadingKept
<1> QED
  BY <1>1 DEF ParseInv

LEMMA Refused ==
  ASSUME recs \in Texts, NEW line \in 1 .. Len(recs), ~WellFormed(line), Raise(line)
  PROVE  ParseInv'
<1>1. recs' = recs /\ status' = "refused" /\ failure' = line
  BY DEF Raise
<1>2. WellFormed(line)' = WellFormed(line)
  BY <1>1, TextKept
<1>3. ~WellFormed(failure)'
  BY <1>1, <1>2 DEF WellFormed
<1> QED
  BY <1>1, <1>3 DEF ParseInv

LEMMA ParseInit == ParserInit => ParseInv
BY DEF ParserInit, ParseInv

LEMMA StartReads ==
  ASSUME recs \in Texts, \A j \in 1 .. Len(recs) : recs[j].indent.char # "mixed"
  PROVE  Reading(<<Block("top", 0)>>, 1, "none", << >>, {})
<1> DEFINE top == Block("top", 0)
           blocks == <<top>>
<1>1. top.kind = "top" /\ top.owner = 0 /\ top.indent = Unset /\ top \in OpenBlock
  BY DEF Block, OpenBlock
<1>2. Len(recs) \in Nat
  BY LineFacts
<1> HIDE DEF top
<1>3. blocks \in Seq(OpenBlock) /\ Len(blocks) = 1 /\ blocks[1] = top
  BY <1>1
<1> HIDE DEF blocks
<1>4. Stacked(blocks, 1)
  BY <1>1, <1>2, <1>3 DEF Stacked, Placed
<1>5. Scoped(blocks, 1, "none") /\ Deeper(blocks, 1) /\ WellFormed(1 - 1) /\ Warned(blocks, 1) = {}
  <2>1. Scoped(blocks, 1, "none") /\ Deeper(blocks, 1)
    <3>1. Len(blocks) = 1 /\ blocks[1].indent = Unset
      BY <1>1, <1>3
    <3>2. Scoped(blocks, 1, "none")
      BY <3>1 DEF Scoped
    <3>3. Deeper(blocks, 1)
      BY <3>1 DEF Deeper
    <3> QED
      BY <3>2, <3>3
  <2>2. \A j : j \notin 1 .. 1 - 1
    OBVIOUS
  <2>3. WellFormed(1 - 1)
    BY <2>2 DEF WellFormed
  <2>4. Warned(blocks, 1) = {}
    BY <2>2 DEF Warned
  <2> QED
    BY <2>1, <2>3, <2>4
<1>6. Above(<< >>, 1)
  BY DEF Above
<1>7. Reading(blocks, 1, "none", << >>, {})
  BY <1>4, <1>5, <1>6 DEF Reading
<1> QED
  BY <1>7 DEF blocks, top

LEMMA ParseBuildRecords == ParseInv /\ BuildRecords => ParseInv'
<1> SUFFICES ASSUME ParseInv, BuildRecords PROVE ParseInv'
  OBVIOUS
<1> DEFINE mixed == {j \in DOMAIN recs : recs[j].indent.char = "mixed"}
<1>1. /\ recs \in Texts /\ DOMAIN recs = 1 .. Len(recs) /\ Len(recs) \in Nat
      /\ row = 1 /\ open = <<Block("top", 0)>> /\ scopeChar = "none"
      /\ parent = << >> /\ warnings = {}
  BY LineFacts DEF ParseInv, BuildRecords
<1>2. CASE mixed # {}
  <2> DEFINE line == CHOOSE j \in mixed : \A k \in mixed : j <= k
  <2>1. mixed \in SUBSET Nat /\ mixed \in SUBSET (1 .. Len(recs))
    BY <1>1
  <2>2. \E j \in mixed : \A k \in mixed : j <= k
    BY <1>2, <2>1, NatMin
  <2>3. line \in mixed
    BY <2>2
  <2>4. Raise(line)
    BY <1>2 DEF BuildRecords
  <2>5. line \in 1 .. Len(recs) /\ line \in Nat /\ line \in 1 .. line
        /\ recs[line].indent.char = "mixed"
    BY <2>1, <2>3
  <2> HIDE DEF line
  <2>6. ~WellFormed(line)
    BY <2>5, Malformed
  <2> QED
    BY <1>1, <2>4, <2>5, <2>6, Refused
<1>3. CASE mixed = {}
  <2>1. /\ status' = "parsing" /\ recs' = recs /\ row' = row /\ open' = open
        /\ scopeChar' = scopeChar /\ parent' = parent /\ warnings' = warnings
    BY <1>3 DEF BuildRecords
  <2>2. \A j \in 1 .. Len(recs) : recs[j].indent.char # "mixed"
    BY <1>1, <1>3
  <2>3. Reading(open', row', scopeChar', parent', warnings')
    BY <1>1, <2>1, <2>2, StartReads
  <2> QED
    BY <1>1, <2>1, <2>3, ReadsOn
<1> QED
  BY <1>2, <1>3

LEMMA ParsingFacts ==
  ASSUME ParseInv, status = "parsing"
  PROVE  /\ recs \in Texts /\ Reading(open, row, scopeChar, parent, warnings)
         /\ Stacked(open, row) /\ Scoped(open, row, scopeChar) /\ Deeper(open, row)
         /\ open \in Seq(OpenBlock) /\ Len(open) \in Nat
         /\ open # << >> => /\ Len(open) \in Nat \ {0} /\ Len(open) \in 1 .. Len(open)
                            /\ Current = open[Len(open)] /\ Current \in OpenBlock
         /\ row \in Nat \ {0} /\ row <= Len(recs) + 1 /\ Len(recs) \in Nat
<1>1. /\ recs \in Texts /\ Reading(open, row, scopeChar, parent, warnings)
      /\ Stacked(open, row) /\ Scoped(open, row, scopeChar) /\ Deeper(open, row)
  BY DEF ParseInv, Reading
<1>2. /\ open \in Seq(OpenBlock) /\ Len(open) \in Nat /\ row \in 1 .. Len(recs) + 1
      /\ Len(recs) \in Nat
  BY <1>1, LineFacts, LenProperties DEF Stacked
<1>3. open # << >> => Len(open) # 0
  BY <1>2, EmptySeq
<1>4. open # << >> => Len(open) \in Nat \ {0} /\ Len(open) \in 1 .. Len(open)
  BY <1>2, <1>3, Counted
<1>5. Current = open[Len(open)]
  BY DEF Current, Last
<1>6. open # << >> => Current \in OpenBlock
  BY <1>2, <1>4, <1>5, ElementOfSeq
<1> QED
  BY <1>1, <1>2, <1>4, <1>5, <1>6

(* A block ends at a line that is not inside it, or is not deep enough.    *)
LEMMA LeavesFacts ==
  ASSUME ParseInv, status = "parsing", open # << >>, row <= Len(recs)
  PROVE  /\ ~Leaves(Current, Here) => Inside(open, row)
         /\ Leaves(Current, Here) /\ Inside(open, row) =>
              Current.indent # Unset /\ Size(row) < Current.indent.len
<1>1. /\ recs \in Texts /\ Stacked(open, row) /\ Len(open) \in 1 .. Len(open)
      /\ Current = open[Len(open)] /\ row \in 1 .. Len(recs)
  BY ParsingFacts
<1>2. (Current.owner = 0 <=> Len(open) = 1) /\ (Len(open) # 1 => Current.owner \in 1 .. Len(recs))
  BY <1>1, BlockFacts
<1>3. \A l \in 1 .. Len(recs) : Size(l) \in Nat
  BY <1>1, LineFacts
<1>4. Outside(Current, Here) <=> Len(open) # 1 /\ Size(row) <= Size(Current.owner)
  BY <1>2 DEF Outside, Here, Size
<1>5. Inside(open, row) <=> (Len(open) # 1 => Size(Current.owner) < Size(row))
  BY <1>1 DEF Inside
<1>6. Outside(Current, Here) <=> ~Inside(open, row)
  BY <1>1, <1>2, <1>3, <1>4, <1>5
<1>7. Dedents(Current, Here) => Current.indent # Unset /\ Size(row) < Current.indent.len
  BY DEF Dedents, Here, Size
<1> QED
  BY <1>6, <1>7 DEF Leaves

(* Closing a block does not change what is said of those around it.        *)
LEMMA PoppedStack ==
  ASSUME ParseInv, status = "parsing", open # << >>
  PROVE  /\ Len(Front(open)) = Len(open) - 1
         /\ \A k \in 1 .. Len(open) - 1 : Front(open)[k] = open[k]
         /\ Stacked(Front(open), row) /\ Scoped(Front(open), row, scopeChar)
<1> DEFINE rest == Front(open)
<1>1. /\ recs \in Texts /\ Stacked(open, row) /\ Scoped(open, row, scopeChar)
      /\ open \in Seq(OpenBlock) /\ Len(open) \in Nat \ {0}
  BY ParsingFacts
<1>2. /\ rest \in Seq(OpenBlock) /\ Len(rest) = Len(open) - 1
      /\ \A k \in 1 .. Len(open) - 1 : rest[k] = open[k]
  BY <1>1, FrontFacts DEF Front
<1> HIDE DEF rest
<1>3. PICK m \in Nat : Len(open) = m + 1
  BY <1>1, Len(open) - 1 \in Nat
<1>4. Len(rest) = m /\ \A k \in 1 .. m : rest[k] = open[k]
  BY <1>2, <1>3
<1>5. ASSUME NEW k \in 1 .. m
      PROVE  Placed(rest, row, k)
  <2>1. Placed(open, row, k)
    BY <1>1, <1>3 DEF Stacked
  <2>2. /\ rest[k] = open[k] /\ \A l \in 1 .. k - 1 : rest[l] = open[l]
        /\ k # 1 => rest[k - 1] = open[k - 1]
        /\ 2 < k => rest[2] = open[2]
    BY <1>4
  <2> QED
    BY <2>1, <2>2 DEF Placed
<1>6. Stacked(rest, row)
  BY <1>1, <1>2, <1>4, <1>5 DEF Stacked
<1>7. Scoped(rest, row, scopeChar)
  <2>1. m \notin {0, 1} => m + 1 \notin {0, 1} /\ rest[2] = open[2]
    BY <1>4
  <2> QED
    BY <1>1, <1>3, <1>4, <2>1 DEF Scoped
<1>8. /\ Len(rest) = Len(open) - 1
      /\ \A k \in 1 .. Len(open) - 1 : rest[k] = open[k]
      /\ Stacked(rest, row) /\ Scoped(rest, row, scopeChar)
  BY <1>2, <1>6, <1>7
<1> QED
  BY <1>8 DEF rest

(* The line a block is left at, when it is not the line of a block around. *)
LEMMA PoppedDeeper ==
  ASSUME ParseInv, CloseBlock
  PROVE  Deeper(Front(open), row)
<1> DEFINE rest == Front(open)
<1>1. SUFFICES ASSUME row <= Len(recs),
                      \/ Len(rest) = 0
                      \/ /\ Len(rest) # 0 /\ rest[Len(rest)].indent # Unset
                         /\ ~(Size(row) <= rest[Len(rest)].indent.len)
               PROVE  ~WellFormed(row)
  BY DEF Deeper
<1>2. status = "parsing" /\ open # << >> /\ Leaves(Current, Here)
  BY <1>1 DEF CloseBlock, Parsing, AtLine
<1>3. /\ recs \in Texts /\ Stacked(open, row) /\ row \in 1 .. Len(recs)
      /\ Current = open[Len(open)] /\ Len(open) \in 1 .. Len(open)
      /\ Len(open) \in Nat \ {0}
  BY <1>1, <1>2, ParsingFacts
<1>4. /\ Len(rest) = Len(open) - 1
      /\ \A k \in 1 .. Len(open) - 1 : rest[k] = open[k]
  BY <1>2, PoppedStack
<1> HIDE DEF rest
<1>5. Inside(open, row)
  <2>1. CASE Len(open) = 1
    BY <2>1 DEF Inside
  <2>2. CASE Len(open) # 1
    <3>1. PICK m \in Nat \ {0} : Len(open) = m + 1
      BY <1>3, <2>2, OneLess
    <3>2. Len(rest) = m /\ rest[m] = open[m]
      BY <1>4, <3>1
    <3>3. ~(Size(row) <= open[m].indent.len)
      BY <1>1, <3>1, <3>2
    <3>4. open[m].indent = recs[Current.owner].indent
      BY <1>3, <3>1 DEF Stacked, Placed
    <3>5. open[m].indent.len = Size(Current.owner)
      BY <3>4 DEF Size
    <3>6. Current.owner \in 1 .. Len(recs)
      BY <1>3, <2>2, BlockFacts
    <3>7. Size(Current.owner) \in Nat /\ Size(row) \in Nat
      BY <1>3, <3>6, LineFacts
    <3>8. Size(Current.owner) < Size(row)
      BY <3>3, <3>5, <3>7
    <3> QED
      BY <1>3, <3>8 DEF Inside
  <2> QED
    BY <2>1, <2>2
<1>6. Current.indent # Unset /\ Size(row) < Current.indent.len
  BY <1>1, <1>2, <1>5, LeavesFacts
<1>7. Size(row) \in Nat /\ Current.indent.len \in Nat
  BY <1>3, BlockFacts, LineFacts
<1>8. Size(row) <= Current.indent.len /\ Size(row) # Current.indent.len
  BY <1>6, <1>7
<1>9. recs[row].indent # Current.indent
  BY <1>8 DEF Size
<1>10. Len(open) # 1 => Size(open[Len(open)].owner) < Size(row)
  BY <1>5 DEF Inside
<1> QED
  BY <1>3, <1>6, <1>8, <1>9, <1>10, ShallowSibling

LEMMA PoppedWarned ==
  ASSUME ParseInv, status = "parsing", open # << >>
  PROVE  Warned(Front(open), row) =
           IF Current.kind = "bare" /\ Current.indent = Unset
           THEN Warned(open, row) \cup {Current.owner} ELSE Warned(open, row)
<1> DEFINE rest == Front(open)
           o == Current.owner
           Childless(j) == \A k \in 1 .. row - 1 : Below(k) # j
<1>1. /\ recs \in Texts /\ Stacked(open, row) /\ row \in Nat \ {0} /\ row <= Len(recs) + 1
      /\ Current = open[Len(open)] /\ Len(open) \in 1 .. Len(open)
      /\ Len(open) \in Nat \ {0} /\ Len(recs) \in Nat
  BY ParsingFacts
<1>2. PICK m \in Nat : Len(open) = m + 1
  BY <1>1, Len(open) - 1 \in Nat
<1>3. Len(rest) = m /\ \A k \in 1 .. m : rest[k] = open[k]
  <2>1. /\ Len(rest) = Len(open) - 1
        /\ \A k \in 1 .. Len(open) - 1 : rest[k] = open[k]
    BY PoppedStack
  <2> QED
    BY <1>2, <2>1
<1> HIDE DEF rest
<1>4. \A k \in 1 .. m : open[k].owner < o /\ open[k].owner \in Nat
  <2>1. \A k \in 1 .. m : k \in 1 .. Len(open) - 1 /\ k \in 1 .. Len(open)
    BY <1>2
  <2> QED
    BY <1>1, <2>1, Outer, BlockFacts
<1>5. /\ o \in 0 .. row - 1 /\ (o = 0 <=> m = 0) /\ o \in Nat
      /\ m # 0 => o \in 1 .. Len(recs) /\ o \in 1 .. row - 1
  BY <1>1, <1>2, BlockFacts
<1>6. m # 0 => (Childless(o) <=> Current.indent = Unset)
  <2>1. ASSUME Current.indent # Unset
        PROVE  ~Childless(o)
    BY <1>1, <2>1, FirstLine
  <2>2. ASSUME Current.indent = Unset
        PROVE  Childless(o)
    <3>1. row = o + 1
      BY <1>1, <2>2 DEF Stacked, Placed
    <3>2. ASSUME NEW k \in 1 .. row - 1
          PROVE  Below(k) # o
      <4>1. k \in 1 .. Len(recs)
        BY <1>1
      <4>2. Below(k) \in 0 .. k - 1
        BY <1>1, <4>1, BelowFacts
      <4> QED
        BY <1>5, <3>1, <4>2
    <3> QED
      BY <3>2
  <2> QED
    BY <2>1, <2>2
<1>7. m # 0 => (BareField(o) <=> Current.kind = "bare")
  <2>1. CASE m = 1
    <3>1. Len(open) = 2
      BY <1>2, <2>1
    <3>2. \/ Current.kind = "body" /\ recs[o].shape.top = "instance"
          \/ Current.kind = "entries" /\ recs[o].shape.top \in Listing
      BY <1>1, <3>1 DEF Stacked, Placed
    <3>3. Below(o) = 0
      BY <1>1, <3>1 DEF Stacked, Placed
    <3> QED
      BY <3>2, <3>3 DEF BareField
  <2>2. CASE m \notin {0, 1}
    <3>1. 2 < Len(open) /\ 2 \in 1 .. m /\ 2 \in 1 .. Len(open)
      BY <1>2, <2>2
    <3>2. Current.kind = recs[o].shape.body /\ open[2].kind = "body"
      BY <1>1, <3>1 DEF Stacked, Placed
    <3>3. recs[open[2].owner].shape.top = "instance"
      BY <1>1, <3>1, <3>2 DEF Stacked, Placed
    <3>4. open[2].owner < o /\ o \in 1 .. Len(recs) /\ o <= row /\ o # row
      BY <1>1, <1>4, <1>5, <2>2, <3>1
    <3>5. Structure(o) = open[2].owner /\ Below(o) # 0
      BY <1>1, <3>1, <3>4, InStructure
    <3> QED
      BY <3>2, <3>3, <3>5 DEF BareField
  <2> QED
    BY <2>1, <2>2
<1>8. m = 0 => Current.kind # "bare"
  BY <1>1, <1>2, <1>5, BlockFacts
<1>9. \A j : (\A k \in 1 .. Len(open) : open[k].owner # j) <=>
             (\A k \in 1 .. m : rest[k].owner # j) /\ j # o
  <2>1. \A k \in 1 .. Len(open) : k \in 1 .. m \/ k = Len(open)
    BY <1>2
  <2>2. \A k \in 1 .. m : k \in 1 .. Len(open)
    BY <1>2
  <2> QED
    BY <1>1, <1>3, <2>1, <2>2
<1>10. \A k \in 1 .. m : rest[k].owner # o
  <2>1. ASSUME NEW k \in 1 .. m
        PROVE  rest[k].owner # o
    <3>1. rest[k].owner = open[k].owner /\ open[k].owner < o /\ open[k].owner \in Nat
      BY <1>3, <1>4
    <3> QED
      BY <1>5, <3>1
  <2> QED
    BY <2>1
<1>11. \A j \in 1 .. row - 1 :
         /\ j \in Warned(open, row) <=>
              BareField(j) /\ Childless(j) /\ (\A k \in 1 .. m : rest[k].owner # j) /\ j # o
         /\ j \in Warned(rest, row) <=>
              BareField(j) /\ Childless(j) /\ (\A k \in 1 .. m : rest[k].owner # j)
  BY <1>3, <1>9 DEF Warned
<1>12. Warned(open, row) \subseteq 1 .. row - 1 /\ Warned(rest, row) \subseteq 1 .. row - 1
  BY DEF Warned
<1>13. o \in 1 .. row - 1 => (o \in Warned(rest, row) <=> Current.kind = "bare" /\ Current.indent = Unset)
  <2>1. o \in 1 .. row - 1 => m # 0
    BY <1>5
  <2> QED
    BY <1>6, <1>7, <1>10, <1>11, <2>1
<1>14. Current.kind = "bare" => o \in 1 .. row - 1
  BY <1>5, <1>8
<1>15. \A j \in 1 .. row - 1 : j # o => (j \in Warned(open, row) <=> j \in Warned(rest, row))
  BY <1>11
<1>16. o \notin Warned(open, row)
  BY <1>11, <1>12
<1>17. Warned(rest, row) = IF Current.kind = "bare" /\ Current.indent = Unset
                        THEN Warned(open, row) \cup {o} ELSE Warned(open, row)
  BY <1>12, <1>13, <1>14, <1>15, <1>16
<1> QED
  BY <1>17 DEF rest

LEMMA ParseCloseBlock == ParseInv /\ CloseBlock => ParseInv'
<1> SUFFICES ASSUME ParseInv, CloseBlock PROVE ParseInv'
  OBVIOUS
<1>1. status = "parsing" /\ open # << >>
  BY DEF CloseBlock, Parsing
<1>2. /\ recs \in Texts /\ Reading(open, row, scopeChar, parent, warnings) /\ Stacked(open, row)
      /\ Current = open[Len(open)] /\ Len(open) \in 1 .. Len(open)
      /\ Len(open) \in Nat \ {0} /\ row \in Nat \ {0}
  BY <1>1, ParsingFacts
<1>3. CASE Current.kind = "op" /\ Current.indent # Unset
  <2> DEFINE f == Current.owner + 1
  <2>1. f \in 1 .. Len(recs) /\ Below(f) = Current.owner
    BY <1>2, <1>3, FirstLine
  <2>2. /\ Current.owner # 0 /\ recs[Current.owner].shape.body = "op"
        /\ Below(Current.owner) # 0
    <3>1. Len(open) = 1 \/ Len(open) = 2 \/ 2 < Len(open)
      BY <1>2, Counted
    <3>2. Placed(open, row, Len(open))
      BY <1>2 DEF Stacked
    <3>3. Current.owner # 0 /\ 2 < Len(open)
      BY <1>2, <1>3, <3>1, <3>2, BlockFacts DEF Placed
    <3>4. 2 \in 1 .. Len(open) /\ 2 \in 1 .. Len(open) - 1 /\ Len(open) # 1
      BY <1>2, <3>3
    <3>5. /\ open[2].owner < Current.owner /\ Current.owner \in 1 .. Len(recs)
          /\ Current.owner <= row /\ Current.owner # row
      BY <1>2, <3>2, <3>4, BlockFacts DEF Placed
    <3>6. Below(Current.owner) # 0
      BY <1>2, <3>4, <3>5, InStructure
    <3> QED
      BY <1>2, <1>3, <3>2, <3>3, <3>6 DEF Placed
  <2>3. ~Fits(f)
    BY <2>1, <2>2 DEF Fits
  <2>4. f \in Nat /\ f \in 1 .. f
    BY <2>1
  <2>5. ~WellFormed(f)
    BY <2>3, <2>4, Malformed
  <2>6. Raise(f)
    BY <1>3 DEF CloseBlock
  <2> QED
    BY <1>2, <2>1, <2>5, <2>6, Refused
<1>4. CASE ~(Current.kind = "op" /\ Current.indent # Unset)
  <2>1. /\ open' = Front(open) /\ recs' = recs /\ row' = row /\ scopeChar' = scopeChar
        /\ parent' = parent /\ status' = status
        /\ warnings' = IF Current.kind = "bare" /\ Current.indent = Unset
                       THEN warnings \cup {Current.owner} ELSE warnings
    BY <1>4 DEF CloseBlock
  <2>2. /\ Len(Front(open)) = Len(open) - 1
        /\ \A k \in 1 .. Len(open) - 1 : Front(open)[k] = open[k]
        /\ Stacked(Front(open), row) /\ Scoped(Front(open), row, scopeChar)
    BY <1>1, PoppedStack
  <2>3. Deeper(Front(open), row)
    BY PoppedDeeper
  <2>4. Doomed(Front(open)) \/ WellFormed(row - 1)
    <3>1. Doomed(open) \/ WellFormed(row - 1)
      BY <1>2 DEF Reading
    <3>2. ASSUME Doomed(open)
          PROVE  Doomed(Front(open))
      <4>1. PICK k \in 1 .. Len(open) : open[k].kind = "op" /\ open[k].indent # Unset
        BY <3>2 DEF Doomed
      <4>2. k # Len(open)
        BY <1>2, <1>4, <4>1
      <4>3. k \in 1 .. Len(open) - 1
        BY <1>2, <4>2, Counted
      <4> QED
        BY <2>2, <4>1, <4>3 DEF Doomed
    <3> QED
      BY <3>1, <3>2
  <2>5. warnings' = Warned(Front(open), row)
    <3>1. warnings = Warned(open, row)
      BY <1>2 DEF Reading
    <3> QED
      BY <1>1, <2>1, <3>1, PoppedWarned
  <2>6. /\ Above(parent, row)
        /\ \A j \in 1 .. Len(recs) : recs[j].indent.char # "mixed"
    BY <1>2 DEF Reading
  <2>7. Reading(Front(open), row, scopeChar, parent, warnings')
    BY <2>2, <2>3, <2>4, <2>5, <2>6 DEF Reading
  <2>8. Reading(open', row', scopeChar', parent', warnings')
    BY <2>1, <2>7
  <2> QED
    BY <1>1, <1>2, <2>1, <2>8, ReadsOn
<1> QED
  BY <1>3, <1>4

-----------------------------------------------------------------------------
(* A line that is refused makes the text up to it malformed.               *)
LEMMA ParseRefuseLine == ParseInv /\ RefuseLine => ParseInv'
<1> SUFFICES ASSUME ParseInv, RefuseLine PROVE ParseInv'
  OBVIOUS
<1>1. /\ status = "parsing" /\ open # << >> /\ row <= Len(recs)
      /\ ~Leaves(Current, Here) /\ Raise(row)
  BY DEF RefuseLine, AtLine, Parsing
<1>2. /\ recs \in Texts /\ Stacked(open, row) /\ Scoped(open, row, scopeChar) /\ Deeper(open, row)
      /\ row \in Nat \ {0} /\ row \in 1 .. Len(recs) /\ row \in 1 .. row
      /\ Current = open[Len(open)] /\ Len(open) \in 1 .. Len(open)
      /\ Len(open) \in Nat \ {0}
  BY <1>1, ParsingFacts
<1>3. Inside(open, row) /\ Len(open) # 0
  BY <1>1, <1>2, LeavesFacts
<1>4. (Current.kind = "top" <=> Len(open) = 1) /\ Current.owner \in 0 .. row - 1
      /\ Current.indent.len \in Nat
  BY <1>2, BlockFacts
<1>5. Len(open) # 1 => Size(Current.owner) < Size(row)
  BY <1>2, <1>3 DEF Inside
<1>6. Size(row) \in Nat
  BY <1>2, LineFacts
<1>7. ASSUME Clashes(Current, Here)
      PROVE  ~WellFormed(row)
  <2>1. Len(open) # 1 /\ scopeChar # "none" /\ recs[row].indent.char # scopeChar
    BY <1>4, <1>7 DEF Clashes, Here
  <2>2. 2 \in 1 .. Len(open)
    <3>1. PICK n \in Nat : n = Len(open) /\ n # 0 /\ n # 1
      BY <1>2, <2>1
    <3>2. 2 \in 1 .. n
      BY <3>1
    <3> QED
      BY <3>1, <3>2
  <2> DEFINE o == open[2].owner
  <2>3. row # o + 1 /\ scopeChar = recs[o + 1].indent.char
    BY <1>2, <1>3, <2>1 DEF Scoped
  <2>4. o \in 0 .. row - 1 /\ o \in 1 .. Len(recs)
    BY <1>2, <2>2, BlockFacts
  <2>5. o < row /\ o < o + 1 /\ o + 1 \in 1 .. Len(recs) /\ o + 1 <= row /\ o + 1 \in 1 .. row
    BY <1>2, <2>3, <2>4
  <2>6. Size(o) < Size(row)
    BY <1>2, <1>3, <2>2, InsideAll
  <2>7. Structure(row) = o /\ Below(row) # 0
    BY <1>2, <2>2, <2>5, <2>6, InStructure
  <2>8. Structure(o + 1) = o /\ Below(o + 1) # 0
    BY <1>2, <2>2, <2>3, <2>5, InStructure
  <2>9. /\ Structure(row) = Structure(o + 1) /\ Below(row) # 0 /\ Below(o + 1) # 0
        /\ recs[row].indent.char # recs[o + 1].indent.char
    BY <2>1, <2>3, <2>7, <2>8
  <2> QED
    BY <1>2, <2>5, <2>9, Malformed
<1>8. ASSUME Misfits(Current, Here)
      PROVE  ~WellFormed(row)
  <2>1. Current.indent # Unset /\ recs[row].indent # Current.indent
    BY <1>8 DEF Misfits, Here
  <2>2. CASE Size(row) <= Current.indent.len
    BY <1>2, <1>5, <2>1, <2>2, ShallowSibling
  <2>3. CASE ~(Size(row) <= Current.indent.len)
    BY <1>1, <1>2, <1>3, <2>1, <2>3 DEF Deeper
  <2> QED
    BY <2>2, <2>3
<1>9. ASSUME ~Misfits(Current, Here), ~Holds(Current, Here.shape)
      PROVE  ~WellFormed(row)
  <2>1. Current.indent # Unset => Size(row) <= Current.indent.len
    BY <1>6, <1>9 DEF Misfits, Here, Size
  <2>2. Current.indent = Unset => row = Current.owner + 1
    BY <1>2 DEF Stacked, Placed
  <2>3. Current.owner < row /\ row <= row
    BY <1>2, <1>4
  <2>4. Below(row) = Current.owner
    BY <1>2, <1>5, <2>1, <2>2, <2>3, BelowOwner
  <2>5. ~Holds(Current, recs[row].shape)
    BY <1>9 DEF Here
  <2>6. ~Fits(row)
    BY <1>2, <1>3, <2>4, <2>5, HoldsIsFits
  <2> QED
    BY <1>2, <2>6, Malformed
<1>10. ~WellFormed(row)
  BY <1>7, <1>8, <1>9 DEF RefuseLine
<1> QED
  BY <1>1, <1>2, <1>10, Refused

LEMMA ParseEndParse == ParseInv /\ EndParse => ParseInv'
<1> SUFFICES ASSUME ParseInv, EndParse PROVE ParseInv'
  OBVIOUS
<1>1. status = "parsing" /\ open = << >> /\ Len(open) = 0
  BY DEF EndParse
<1>2. /\ recs \in Texts /\ Reading(open, row, scopeChar, parent, warnings) /\ Deeper(open, row)
      /\ row \in Nat \ {0} /\ row <= Len(recs) + 1 /\ Len(recs) \in Nat
  BY <1>1, ParsingFacts
<1>3. CASE row <= Len(recs)
  <2>1. ~WellFormed(row) /\ row \in 1 .. Len(recs)
    BY <1>1, <1>2, <1>3 DEF Deeper
  <2>2. Raise(row)
    BY <1>3 DEF EndParse
  <2> QED
    BY <1>2, <2>1, <2>2, Refused
<1>4. CASE ~(row <= Len(recs))
  <2>1. /\ status' = "accepted" /\ recs' = recs /\ row' = row /\ open' = open
        /\ scopeChar' = scopeChar /\ parent' = parent /\ warnings' = warnings
    BY <1>4 DEF EndParse
  <2>2. row = Len(recs) + 1
    BY <1>2, <1>4
  <2>3. Reading(open', row', scopeChar', parent', warnings')
    BY <1>2, <2>1
  <2>4. Reading(open, row, scopeChar, parent, warnings)'
    BY <1>2, <2>1, <2>3, ReadingKept
  <2> QED
    BY <1>1, <1>2, <2>1, <2>2, <2>4 DEF ParseInv
<1> QED
  BY <1>3, <1>4

-----------------------------------------------------------------------------
(* The stack after a line is read: the last block has lines now, and the   *)
(* line may open a block of its own.                                       *)
Opens ==
  \/ Current.kind = "top"
  \/ Current.kind # "entries" /\ Here.shape.body \in {"assign", "op", "bare"}
Grown == [open EXCEPT ![Len(open)].indent = Here.indent] \o Opened(Current, Here.shape)

LEMMA GrownFacts ==
  ASSUME ParseInv, ReadLine
  PROVE  /\ Grown \in Seq(OpenBlock)
         /\ Len(Grown) = IF Opens THEN Len(open) + 1 ELSE Len(open)
         /\ \A k \in 1 .. Len(open) - 1 : Grown[k] = open[k]
         /\ /\ Grown[Len(open)].kind = Current.kind
            /\ Grown[Len(open)].owner = Current.owner
            /\ Grown[Len(open)].indent = recs[row].indent
         /\ Opens =>
              /\ Grown[Len(open) + 1].owner = row /\ Grown[Len(open) + 1].indent = Unset
              /\ Grown[Len(open) + 1].kind =
                   IF Current.kind # "top" THEN recs[row].shape.body
                   ELSE IF recs[row].shape.top = "instance" THEN "body" ELSE "entries"
<1>1. /\ open \in Seq(OpenBlock) /\ Len(open) \in Nat \ {0} /\ Len(open) \in 1 .. Len(open)
      /\ Current = open[Len(open)] /\ Current \in OpenBlock /\ recs \in Texts
      /\ row \in 1 .. Len(recs) /\ row \in Nat
  <2>1. status = "parsing" /\ open # << >> /\ row <= Len(recs)
    BY DEF ReadLine, AtLine, Parsing
  <2> QED
    BY <2>1, ParsingFacts
<1> DEFINE m == Len(open)
           last == [Current EXCEPT !.indent = Here.indent]
           base == [open EXCEPT ![m].indent = Here.indent]
           block == Block(IF Current.kind # "top" THEN Here.shape.body
                          ELSE IF Here.shape.top = "instance" THEN "body" ELSE "entries", row)
           more == IF Opens THEN <<block>> ELSE << >>
<1>2. /\ last \in OpenBlock /\ last.kind = Current.kind /\ last.owner = Current.owner
      /\ last.indent = recs[row].indent
  <2>1. recs[row].indent \in Indent
    BY <1>1, LineFacts
  <2> QED
    BY <1>1, <2>1 DEF OpenBlock, Here
<1>3. base = [open EXCEPT ![m] = last]
  BY <1>1
<1> HIDE DEF last, base
<1>4. /\ base \in Seq(OpenBlock) /\ Len(base) = m /\ base[m] = last
      /\ \A k \in 1 .. m - 1 : base[k] = open[k]
  <2>1. base \in Seq(OpenBlock) /\ Len(base) = m
    BY <1>1, <1>2, <1>3, ExceptSeq
  <2>2. base[m] = last
    BY <1>1, <1>3
  <2>3. \A k \in 1 .. m - 1 : base[k] = open[k]
    <3>1. \A k \in 1 .. m - 1 : k \in 1 .. m /\ k # m
      BY <1>1, Counted
    <3> QED
      BY <1>1, <1>3, <3>1
  <2> QED
    BY <2>1, <2>2, <2>3
<1>5. Opened(Current, Here.shape) = more
  BY DEF Opened, Opens
<1>6. /\ block.owner = row /\ block.indent = Unset
      /\ block.kind = IF Current.kind # "top" THEN recs[row].shape.body
                      ELSE IF recs[row].shape.top = "instance" THEN "body" ELSE "entries"
  BY DEF Block, Here
<1>7. Opens => block \in OpenBlock
  BY <1>1 DEF Opens, Block, OpenBlock, Here
<1> HIDE DEF block
<1>8. /\ more \in Seq(OpenBlock) /\ Len(more) = IF Opens THEN 1 ELSE 0
      /\ Opens => more[1] = block
  BY <1>7
<1>9. Grown = base \o more
  BY <1>5 DEF Grown, base
<1> HIDE DEF more
<1>10. /\ base \o more \in Seq(OpenBlock) /\ Len(base \o more) = m + Len(more)
       /\ \A k \in 1 .. m : (base \o more)[k] = base[k]
       /\ Opens => (base \o more)[m + 1] = block
  <2>1. /\ base \o more \in Seq(OpenBlock) /\ Len(base \o more) = Len(base) + Len(more)
        /\ \A k \in 1 .. Len(base) + Len(more) :
             (base \o more)[k] = IF k <= Len(base) THEN base[k] ELSE more[k - Len(base)]
    BY <1>4, <1>8, ConcatProperties
  <2>2. \A k \in 1 .. m : k \in 1 .. m + Len(more) /\ k <= m
    BY <1>1, <1>8
  <2>3. Opens => m + 1 \in 1 .. m + Len(more) /\ ~(m + 1 <= m) /\ (m + 1) - m = 1
    BY <1>1, <1>8
  <2> QED
    BY <1>4, <1>8, <2>1, <2>2, <2>3
<1>11. \A k \in 1 .. m - 1 : k \in 1 .. m
  BY <1>1, Counted
<1>12. m + Len(more) = IF Opens THEN m + 1 ELSE m
  BY <1>1, <1>8
<1> QED
  BY <1>1, <1>2, <1>4, <1>6, <1>9, <1>10, <1>11, <1>12

LEMMA ReadFacts ==
  ASSUME ParseInv, ReadLine
  PROVE  /\ recs \in Texts /\ Reading(open, row, scopeChar, parent, warnings)
         /\ Stacked(open, row) /\ Scoped(open, row, scopeChar)
         /\ row \in Nat \ {0} /\ row \in 1 .. Len(recs) /\ Len(recs) \in Nat
         /\ Len(open) \in Nat \ {0} /\ Len(open) \in 1 .. Len(open)
         /\ Current = open[Len(open)] /\ Current.owner \in 0 .. row - 1
         /\ (Current.owner = 0 <=> Len(open) = 1) /\ (Current.kind = "top" <=> Len(open) = 1)
         /\ Inside(open, row) /\ Below(row) = Current.owner
         /\ Current.indent # Unset => recs[row].indent = Current.indent
         /\ Current.indent = Unset => row = Current.owner + 1
         /\ Holds(Current, recs[row].shape)
         /\ Fits(row) <=> Current.kind # "op"
         /\ \A l \in 1 .. Len(recs) : Size(l) \in Nat
<1>1. /\ status = "parsing" /\ open # << >> /\ row <= Len(recs)
      /\ ~Leaves(Current, Here) /\ ~Misfits(Current, Here)
      /\ Holds(Current, recs[row].shape)
  BY DEF ReadLine, AtLine, Parsing, Here
<1>2. /\ recs \in Texts /\ Reading(open, row, scopeChar, parent, warnings)
      /\ Stacked(open, row) /\ Scoped(open, row, scopeChar)
      /\ row \in Nat \ {0} /\ row \in 1 .. Len(recs) /\ Len(recs) \in Nat
      /\ Len(open) \in Nat \ {0} /\ Len(open) \in 1 .. Len(open) /\ Len(open) # 0
      /\ Current = open[Len(open)]
  BY <1>1, ParsingFacts
<1>3. /\ Current.owner \in 0 .. row - 1
      /\ (Current.owner = 0 <=> Len(open) = 1) /\ (Current.kind = "top" <=> Len(open) = 1)
      /\ Current.indent.len \in Nat
  BY <1>2, BlockFacts
<1>4. Inside(open, row)
  BY <1>1, LeavesFacts
<1>5. \A l \in 1 .. Len(recs) : Size(l) \in Nat
  BY <1>2, LineFacts
<1>6. Current.indent # Unset => recs[row].indent = Current.indent
  BY <1>1 DEF Misfits, Here
<1>7. Current.indent = Unset => row = Current.owner + 1
  BY <1>2 DEF Stacked, Placed
<1>8. Below(row) = Current.owner
  <2>1. Current.owner < row /\ row <= row
    BY <1>2, <1>3
  <2>2. Current.indent # Unset => Size(row) <= Current.indent.len
    BY <1>3, <1>6 DEF Size
  <2>3. Len(open) # 1 => Size(open[Len(open)].owner) < Size(row)
    BY <1>4 DEF Inside
  <2> QED
    BY <1>2, <1>7, <2>1, <2>2, <2>3, BelowOwner
<1>9. Fits(row) <=> Current.kind # "op"
  BY <1>1, <1>2, <1>4, <1>8, HoldsIsFits
<1> QED
  BY <1>1, <1>2, <1>3, <1>4, <1>5, <1>6, <1>7, <1>8, <1>9

(* Below the second block, the structure of the line read is its owner.    *)
LEMMA ReadStructure ==
  ASSUME ParseInv, ReadLine, Len(open) # 1
  PROVE  /\ 2 \in 1 .. Len(open) /\ open[2].owner \in 1 .. row - 1
         /\ open[2].owner \in 1 .. Len(recs)
         /\ Size(open[2].owner) < Size(row)
         /\ Structure(row) = open[2].owner /\ Below(row) # 0 /\ Below(open[2].owner) = 0
         /\ Current.kind = "entries" =>
              Len(open) = 2 /\ recs[open[2].owner].shape.top \in Listing
         /\ Current.kind # "entries" => open[2].kind = "body"
         /\ open[2].kind = "body" => recs[open[2].owner].shape.top = "instance"
<1>1. /\ recs \in Texts /\ Stacked(open, row) /\ row \in 1 .. Len(recs) /\ Inside(open, row)
      /\ Len(open) \in Nat \ {0} /\ Current = open[Len(open)] /\ row \in Nat
      /\ Len(open) \in 1 .. Len(open) /\ Len(open) # 0 /\ row <= row
  BY ReadFacts
<1>2. 2 \in 1 .. Len(open)
  BY <1>1, Counted
<1>3. open[2].owner \in 1 .. row - 1 /\ open[2].owner \in 1 .. Len(recs) /\ open[2].owner < row
  <2>1. open[2].owner \in 0 .. row - 1 /\ open[2].owner \in 1 .. Len(recs)
    BY <1>1, <1>2, BlockFacts
  <2> QED
    BY <1>1, <2>1
<1>4. Size(open[2].owner) < Size(row)
  BY <1>1, <1>2, InsideAll
<1>5. Structure(row) = open[2].owner /\ Below(row) # 0
  BY <1>1, <1>2, <1>3, <1>4, InStructure
<1>6. /\ Below(open[2].owner) = 0
      /\ open[2].kind = "body" => recs[open[2].owner].shape.top = "instance"
      /\ open[2].kind # "body" =>
           open[2].kind = "entries" /\ recs[open[2].owner].shape.top \in Listing
  BY <1>1, <1>2 DEF Stacked, Placed
<1>7. 2 < Len(open) => Current.kind # "entries" /\ open[2].kind = "body"
  BY <1>1 DEF Stacked, Placed
<1>8. Len(open) = 2 \/ 2 < Len(open)
  BY <1>1, Counted
<1>9. (Current.kind = "entries" => Len(open) = 2) /\ (Current.kind # "entries" => open[2].kind = "body")
  BY <1>1, <1>6, <1>7, <1>8
<1> QED
  BY <1>1, <1>2, <1>3, <1>4, <1>5, <1>6, <1>9

LEMMA GrownStack ==
  ASSUME ParseInv, ReadLine
  PROVE  Stacked(Grown, row + 1)
<1>1. /\ recs \in Texts /\ Stacked(open, row) /\ Inside(open, row) /\ Below(row) = Current.owner
      /\ row \in Nat \ {0} /\ row \in 1 .. Len(recs) /\ Len(recs) \in Nat
      /\ Len(open) \in Nat \ {0} /\ Len(open) \in 1 .. Len(open)
      /\ Current = open[Len(open)] /\ Current.owner \in 0 .. row - 1
      /\ (Current.owner = 0 <=> Len(open) = 1) /\ (Current.kind = "top" <=> Len(open) = 1)
      /\ Current.indent # Unset => recs[row].indent = Current.indent
      /\ Current.indent = Unset => row = Current.owner + 1
      /\ Holds(Current, recs[row].shape) /\ Len(open) # 0
      /\ \A l \in 1 .. Len(recs) : Size(l) \in Nat /\ recs[l].indent # Unset
  BY ReadFacts, LineFacts
<1> DEFINE new == Grown
           m == Len(open)
<1>2. /\ new \in Seq(OpenBlock) /\ Len(new) = IF Opens THEN m + 1 ELSE m
      /\ \A k \in 1 .. m - 1 : new[k] = open[k]
      /\ new[m].kind = Current.kind /\ new[m].owner = Current.owner
      /\ new[m].indent = recs[row].indent
      /\ Opens => /\ new[m + 1].owner = row /\ new[m + 1].indent = Unset
                  /\ new[m + 1].kind =
                       IF Current.kind # "top" THEN recs[row].shape.body
                       ELSE IF recs[row].shape.top = "instance" THEN "body" ELSE "entries"
  BY GrownFacts
<1> HIDE DEF new, m
<1>3. m \in Nat \ {0} /\ m = Len(open) /\ m \in 1 .. m /\ m # 0
  BY <1>1 DEF m
<1>4. ASSUME NEW k \in 1 .. m - 1
      PROVE  Placed(new, row + 1, k)
  <2>1. k \in 1 .. m /\ k # m /\ m # 1
    BY <1>3, Counted
  <2>2. Placed(open, row, k) /\ open[k].indent # Unset /\ open[k].owner \in 0 .. row - 1
        /\ (k # 1 => open[k].owner \in 1 .. row - 1)
        /\ (open[k].owner = 0 <=> k = 1)
    <3>1. Placed(open, row, k)
      BY <1>1, <1>3, <2>1 DEF Stacked
    <3>2. open[k].indent # Unset
      BY <1>1, <1>3, Outer
    <3>3. open[k].owner \in 0 .. row - 1 /\ (open[k].owner = 0 <=> k = 1)
      BY <1>1, <1>3, <2>1, BlockFacts
    <3> QED
      BY <3>1, <3>2, <3>3
  <2>3. open[k].indent.len <= Size(row)
    BY <1>1, <1>3, InsideAll
  <2>4. new[k] = open[k] /\ \A l \in 1 .. k - 1 : new[l] = open[l]
    <3>1. \A l \in 1 .. k - 1 : l \in 1 .. m - 1
      BY <1>3
    <3> QED
      BY <1>2, <3>1
  <2>5. k # 1 => new[k - 1] = open[k - 1]
    <3>1. k # 1 => k - 1 \in 1 .. k - 1
      OBVIOUS
    <3> QED
      BY <2>4, <3>1
  <2>6. 2 < k => new[2] = open[2]
    <3>1. 2 < k => 2 \in 1 .. k - 1
      OBVIOUS
    <3> QED
      BY <2>4, <3>1
  <2>7. /\ open[k].owner + 1 < row + 1 /\ (k # 1 => open[k].owner \in 1 .. (row + 1) - 1)
        /\ \A j \in open[k].owner + 1 .. (row + 1) - 1 : open[k].indent.len <= Size(j)
    <3>1. \A j \in open[k].owner + 1 .. row - 1 : open[k].indent.len <= Size(j)
      BY <2>2 DEF Placed
    <3>2. open[k].owner + 1 < row
      BY <2>2 DEF Placed
    <3>3. \A j \in open[k].owner + 1 .. (row + 1) - 1 : j \in open[k].owner + 1 .. row - 1 \/ j = row
      BY <1>1, <2>2
    <3>4. open[k].owner + 1 < row + 1 /\ (k # 1 => open[k].owner \in 1 .. (row + 1) - 1)
      BY <1>1, <2>2, <3>2
    <3> QED
      BY <2>3, <3>1, <3>3, <3>4
  <2> QED
    BY <2>2, <2>4, <2>5, <2>6, <2>7 DEF Placed
<1>5. Placed(new, row + 1, m)
  <2>1. Placed(open, row, m) /\ recs[row].indent # Unset /\ Size(row) \in Nat
    BY <1>1, <1>3 DEF Stacked
  <2>2. \A l \in 1 .. m - 1 : new[l].owner = open[l].owner /\ new[l].indent = open[l].indent
    BY <1>2
  <2>3. m # 1 => m - 1 \in 1 .. m - 1
    BY <1>3
  <2>4. 2 < m => 2 \in 1 .. m - 1 /\ new[2].kind = open[2].kind
    BY <1>2, <1>3
  <2>5. Current.owner + 1 < row + 1 /\ (m # 1 => Current.owner \in 1 .. (row + 1) - 1)
    BY <1>1, <1>3
  <2>6. recs[Current.owner + 1].indent = recs[row].indent
    <3>1. Current.indent # Unset => recs[Current.owner + 1].indent = Current.indent
      BY <1>1, <1>3, <2>1 DEF Placed
    <3> QED
      BY <1>1, <3>1
  <2>7. m # 1 => Size(Current.owner) < recs[row].indent.len
    BY <1>1, <1>3 DEF Inside, Size
  <2>8. ASSUME NEW j \in Current.owner + 1 .. (row + 1) - 1
        PROVE  recs[row].indent.len <= Size(j)
    <3>1. j = row \/ j \in Current.owner + 1 .. row - 1
      BY <1>1
    <3>2. Size(row) = recs[row].indent.len /\ Size(row) <= Size(row)
      BY <2>1 DEF Size
    <3>3. j # row => Current.indent # Unset
      BY <1>1, <3>1
    <3>4. j # row => Current.indent.len <= Size(j)
      BY <1>1, <1>3, <2>1, <3>1, <3>3 DEF Placed
    <3> QED
      BY <1>1, <3>2, <3>3, <3>4
  <2> QED
    BY <1>1, <1>2, <1>3, <2>1, <2>2, <2>3, <2>4, <2>5, <2>6, <2>7, <2>8 DEF Placed
<1>6. ASSUME Opens
      PROVE  Placed(new, row + 1, m + 1)
  <2>1. /\ new[m + 1].owner = row /\ new[m + 1].indent = Unset
        /\ new[m + 1].kind = IF Current.kind # "top" THEN recs[row].shape.body
                             ELSE IF recs[row].shape.top = "instance" THEN "body" ELSE "entries"
    BY <1>2, <1>6
  <2>2. /\ m + 1 # 1 /\ (m + 1) - 1 = m /\ row \in 1 .. (row + 1) - 1
        /\ (m + 1 = 2 <=> m = 1) /\ (2 < m + 1 <=> m # 1)
    BY <1>1, <1>3
  <2>3. m = 1 => /\ Below(row) = 0
                 /\ \/ new[m + 1].kind = "body" /\ recs[row].shape.top = "instance"
                    \/ new[m + 1].kind = "entries" /\ recs[row].shape.top \in Listing
    <3>1. recs[row].shape.top \in Listing \cup {"instance", "none"}
      BY <1>1, ShapeFacts
    <3> QED
      BY <1>1, <1>3, <2>1, <3>1 DEF Holds
  <2>4. m # 1 => /\ new[m + 1].kind = recs[row].shape.body
                 /\ recs[row].shape.body \in {"assign", "op", "bare"}
                 /\ new[2].kind = "body"
    <3>1. ASSUME m # 1
          PROVE  /\ new[m + 1].kind = recs[row].shape.body
                 /\ recs[row].shape.body \in {"assign", "op", "bare"}
                 /\ new[2].kind = "body"
      <4>1. Current.kind # "top" /\ Current.kind # "entries" /\ Len(open) # 1
        BY <1>1, <1>3, <1>6, <3>1 DEF Opens
      <4>2. recs[row].shape.body \in {"assign", "op", "bare"}
        BY <1>6, <4>1 DEF Opens, Here
      <4>3. open[2].kind = "body"
        BY <4>1, ReadStructure
      <4>4. m = 2 \/ 2 \in 1 .. m - 1
        BY <1>3, <3>1
      <4>5. new[2].kind = "body"
        BY <1>1, <1>2, <1>3, <4>3, <4>4
      <4> QED
        BY <2>1, <4>1, <4>2, <4>5
    <3> QED
      BY <3>1
  <2>5. \A l \in 1 .. (m + 1) - 1 : new[l].owner < row
    <3>1. ASSUME NEW l \in 1 .. m - 1
          PROVE  new[l].owner < row
      <4>1. l \in 1 .. m /\ new[l] = open[l]
        BY <1>2, <1>3, Counted
      <4>2. open[l].owner \in 0 .. row - 1
        BY <1>1, <1>3, <4>1, BlockFacts
      <4> QED
        BY <1>1, <4>1, <4>2
    <3>2. new[m].owner < row
      BY <1>1, <1>2
    <3>3. \A l \in 1 .. (m + 1) - 1 : l \in 1 .. m - 1 \/ l = m
      BY <1>3
    <3> QED
      BY <3>1, <3>2, <3>3
  <2> QED
    BY <1>2, <2>1, <2>2, <2>3, <2>4, <2>5 DEF Placed
<1>7. ASSUME NEW k \in 1 .. Len(new)
      PROVE  Placed(new, row + 1, k)
  <2>1. k \in 1 .. m - 1 \/ k = m \/ (Opens /\ k = m + 1)
    <3>1. CASE Opens
      <4>1. k \in 1 .. m + 1
        BY <1>2, <3>1
      <4> QED
        BY <1>3, <3>1, <4>1
    <3>2. CASE ~Opens
      <4>1. k \in 1 .. m
        BY <1>2, <3>2
      <4> QED
        BY <1>3, <4>1
    <3> QED
      BY <3>1, <3>2
  <2> QED
    BY <1>4, <1>5, <1>6, <2>1
<1>8. row + 1 \in 1 .. Len(recs) + 1
  BY <1>1
<1>9. Stacked(new, row + 1)
  BY <1>2, <1>7, <1>8 DEF Stacked
<1> QED
  BY <1>9 DEF new

(* The line has the character of the first line below the header.          *)
LEMMA SameChar ==
  ASSUME ParseInv, ReadLine, Len(open) # 1
  PROVE  recs[row].indent.char = recs[open[2].owner + 1].indent.char
<1> DEFINE f == open[2].owner + 1
<1>1. /\ recs \in Texts /\ Scoped(open, row, scopeChar) /\ Len(open) # 0
      /\ Current.kind # "top" /\ row \in Nat /\ row \in 1 .. Len(recs) /\ Stacked(open, row)
  <2>1. Len(open) \in Nat \ {0}
    BY ReadFacts
  <2>2. Len(open) # 0
    BY <2>1
  <2> QED
    BY <2>2, ReadFacts
<1>2. 2 \in 1 .. Len(open) /\ open[2].owner \in 1 .. row - 1 /\ open[2].owner \in 1 .. Len(recs)
  BY ReadStructure
<1>3. CASE row = f
  BY <1>3
<1>4. CASE row # f
  <2>1. scopeChar = recs[f].indent.char
    BY <1>1, <1>4 DEF Scoped
  <2>2. f \in 1 .. Len(recs) /\ open[2].owner < f /\ f <= row
    BY <1>1, <1>2, <1>4
  <2>3. scopeChar # "none"
    <3>1. Structure(f) = open[2].owner /\ Below(f) # 0
      BY <1>1, <1>2, <1>4, <2>2, InStructure
    <3>2. row # open[2].owner + 1
      BY <1>4
    <3>3. open[2].indent # Unset
      BY <1>1, <1>2, <3>2 DEF Stacked, Placed
    <3>4. Size(open[2].owner) < open[2].indent.len /\ recs[f].indent = open[2].indent
      BY <1>1, <1>2, <3>3 DEF Stacked, Placed
    <3>5. Size(open[2].owner) \in Nat /\ Size(f) \in Nat
      BY <1>1, <1>2, <2>2, LineFacts
    <3>6. Size(open[2].owner) < Size(f)
      BY <3>4 DEF Size
    <3>7. Size(f) # 0
      BY <3>5, <3>6
    <3> QED
      BY <1>1, <2>1, <2>2, <3>7, LineFacts
  <2>4. ~Clashes(Current, Here)
    BY DEF ReadLine
  <2>5. recs[row].indent.char = scopeChar
    BY <1>1, <2>3, <2>4 DEF Clashes, Here
  <2> QED
    BY <2>1, <2>5
<1> QED
  BY <1>3, <1>4

LEMMA GrownScoped ==
  ASSUME ParseInv, ReadLine
  PROVE  Scoped(Grown, row + 1, scopeChar')
<1> DEFINE m == Len(open)
<1>1. /\ m \in Nat \ {0} /\ Current = open[m] /\ (Current.kind = "top" <=> m = 1)
      /\ (Current.owner = 0 <=> m = 1) /\ row \in Nat \ {0}
  BY ReadFacts
<1>2. scopeChar' = IF m = 1 THEN "none" ELSE recs[row].indent.char
  BY <1>1 DEF ReadLine, Here
<1>3. /\ Len(Grown) = IF Opens THEN m + 1 ELSE m
      /\ \A k \in 1 .. m - 1 : Grown[k] = open[k]
      /\ Grown[m].owner = Current.owner
      /\ Opens => Grown[m + 1].owner = row
  BY GrownFacts
<1>4. SUFFICES ASSUME Len(Grown) \notin {0, 1}
      PROVE  scopeChar' = IF row + 1 = Grown[2].owner + 1 THEN "none"
                          ELSE recs[Grown[2].owner + 1].indent.char
  BY DEF Scoped
<1>5. CASE m = 1
  <2>1. Opens /\ Grown[2].owner = row
    BY <1>1, <1>3, <1>4, <1>5
  <2> QED
    BY <1>2, <1>5, <2>1
<1>6. CASE m # 1
  <2>1. Grown[2].owner = open[2].owner
    <3>1. m = 2 \/ 2 \in 1 .. m - 1
      BY <1>1, <1>6, Counted
    <3> QED
      BY <1>1, <1>3, <3>1
  <2>2. open[2].owner \in 1 .. row - 1
    BY <1>6, ReadStructure
  <2>3. row + 1 # open[2].owner + 1
    BY <1>1, <2>2
  <2>4. recs[row].indent.char = recs[open[2].owner + 1].indent.char
    BY <1>6, SameChar
  <2> QED
    BY <1>2, <1>6, <2>1, <2>3, <2>4
<1> QED
  BY <1>5, <1>6

(* The lines up to this one are well formed if those before it are.        *)
LEMMA GrownWell ==
  ASSUME ParseInv, ReadLine, WellFormed(row - 1), Current.kind # "op"
  PROVE  WellFormed(row)
<1> DEFINE o == Current.owner
<1>1. /\ recs \in Texts /\ Stacked(open, row) /\ row \in Nat \ {0} /\ row \in 1 .. Len(recs)
      /\ Len(open) \in 1 .. Len(open) /\ Current = open[Len(open)] /\ o \in 0 .. row - 1
      /\ (o = 0 <=> Len(open) = 1) /\ Below(row) = o /\ Fits(row)
      /\ Current.indent # Unset => recs[row].indent = Current.indent
      /\ Current.indent = Unset => row = o + 1
      /\ Len(recs) \in Nat
  BY ReadFacts
<1>2. recs[row].indent.char # "mixed"
  BY <1>1, ReadFacts DEF Reading
<1>3. ASSUME NEW j \in 1 .. row - 1
      PROVE  j \in 1 .. Len(recs) /\ j \in Nat /\ Below(j) \in 0 .. j - 1
  <2>1. j \in 1 .. Len(recs) /\ j \in Nat
    BY <1>1
  <2> QED
    BY <1>1, <2>1, BelowFacts
<1>4. ASSUME NEW j \in 1 .. row - 1, Below(j) = Below(row)
      PROVE  recs[j].indent = recs[row].indent
  <2>1. o < j /\ o # row - 1
    BY <1>1, <1>3, <1>4
  <2>2. Current.indent # Unset
    BY <1>1, <2>1
  <2>3. o + 1 \in 1 .. row - 1 /\ Below(o + 1) = o /\ recs[o + 1].indent = Current.indent
    BY <1>1, <2>2, FirstLine
  <2>4. Below(j) = Below(o + 1)
    BY <1>1, <1>4, <2>3
  <2>5. recs[j].indent = recs[o + 1].indent
    BY <2>3, <2>4 DEF WellFormed
  <2> QED
    BY <1>1, <2>2, <2>3, <2>5
<1>5. ASSUME NEW j \in 1 .. row - 1,
             Structure(j) = Structure(row), Below(j) # 0, Below(row) # 0
      PROVE  recs[j].indent.char = recs[row].indent.char
  <2> DEFINE f == open[2].owner + 1
  <2>1. Len(open) # 1
    BY <1>1, <1>5
  <2>2. /\ 2 \in 1 .. Len(open) /\ open[2].owner \in 1 .. row - 1
        /\ open[2].owner \in 1 .. Len(recs)
        /\ Structure(row) = open[2].owner /\ Below(open[2].owner) = 0
    BY <2>1, ReadStructure
  <2>3. recs[row].indent.char = recs[f].indent.char
    BY <2>1, SameChar
  <2>4. Structure(j) \in 1 .. j
    BY <1>1, <1>3, StructureFacts
  <2>5. j # open[2].owner
    BY <1>5, <2>2
  <2>6. open[2].owner < j
    BY <1>3, <1>5, <2>2, <2>4, <2>5
  <2>7. f \in 1 .. row - 1 /\ f \in 1 .. Len(recs) /\ open[2].owner < f /\ f <= row /\ f # row
    BY <1>1, <2>2, <2>6, NextUp
  <2>8. Structure(f) = open[2].owner /\ Below(f) # 0
    BY <1>1, <2>2, <2>7, InStructure
  <2>9. Structure(j) = Structure(f)
    BY <1>5, <2>2, <2>8
  <2>10. recs[j].indent.char = recs[f].indent.char
    BY <1>5, <2>7, <2>8, <2>9 DEF WellFormed
  <2> QED
    BY <2>3, <2>10
<1> QED
  BY <1>1, <1>2, <1>4, <1>5, LongerIsWellFormed

(* A line that opens no block is one that nothing can be below.            *)
LEMMA GrownDeeper ==
  ASSUME ParseInv, ReadLine
  PROVE  Deeper(Grown, row + 1)
<1> DEFINE m == Len(open)
           n == row + 1
<1>1. /\ recs \in Texts /\ m \in Nat \ {0} /\ row \in Nat \ {0} /\ row \in 1 .. Len(recs)
      /\ (Current.kind = "top" <=> m = 1) /\ (Current.owner = 0 <=> m = 1)
      /\ Below(row) = Current.owner /\ Holds(Current, recs[row].shape)
      /\ \A l \in 1 .. Len(recs) : Size(l) \in Nat
  BY ReadFacts
<1>2. /\ Len(Grown) = IF Opens THEN m + 1 ELSE m
      /\ \A k \in 1 .. m - 1 : Grown[k] = open[k]
      /\ Grown[m].indent = recs[row].indent /\ Grown[m].owner = Current.owner
      /\ Opens => Grown[m + 1].indent = Unset
  BY GrownFacts
<1>3. Len(Grown) # 0
  BY <1>1, <1>2
<1>4. SUFFICES ASSUME n <= Len(recs), Grown[Len(Grown)].indent # Unset,
                      ~(Size(n) <= Grown[Len(Grown)].indent.len)
               PROVE  ~WellFormed(n)
  BY <1>3 DEF Deeper
<1>5. ~Opens /\ Len(Grown) = m
  BY <1>2, <1>4
<1>6. n \in 1 .. Len(recs) /\ n \in Nat /\ n \in 1 .. n /\ row \in 1 .. n - 1
      /\ \A k \in row + 1 .. n - 1 : Size(n) <= Size(k)
  BY <1>1, <1>4, LineFacts
<1>7. Size(row) < Size(n)
  <2>1. ~(Size(n) <= Size(row))
    BY <1>2, <1>4, <1>5 DEF Size
  <2>2. Size(n) \in Nat /\ Size(row) \in Nat
    BY <1>1, <1>6
  <2> QED
    BY <2>1, <2>2
<1>8. Below(n) = row
  BY <1>1, <1>6, <1>7, BelowFacts
<1>9. m # 1 /\ Below(row) # 0
  BY <1>1, <1>5 DEF Opens
<1>10. CASE Current.kind = "entries"
  <2>2. /\ 2 \in 1 .. m /\ open[2].owner \in 1 .. row - 1 /\ open[2].owner \in 1 .. Len(recs)
        /\ Size(open[2].owner) < Size(row) /\ Len(open) = 2
        /\ recs[open[2].owner].shape.top \in Listing
    BY <1>9, <1>10, ReadStructure
  <2>3. Grown[2].owner = open[2].owner /\ 2 \in 1 .. Len(Grown)
    <3>1. m = 2
      BY <2>2
    <3>2. Grown[2].owner = Current.owner /\ 2 \in 1 .. Len(Grown)
      BY <1>2, <1>5, <3>1
    <3>3. Current = open[2]
      BY <3>1, ReadFacts
    <3> QED
      BY <3>2, <3>3
  <2>4. Size(Grown[2].owner) < Size(n)
    <3>1. Size(open[2].owner) \in Nat /\ Size(row) \in Nat /\ Size(n) \in Nat
      BY <1>1, <1>6, <2>2
    <3> QED
      BY <1>7, <2>2, <2>3, <3>1
  <2>5. Grown[2].owner < n /\ n <= n
    BY <1>6, <2>2, <2>3
  <2>6. Stacked(Grown, n)
    BY GrownStack
  <2>7. Structure(n) = open[2].owner
    BY <1>1, <1>6, <2>3, <2>4, <2>5, <2>6, InStructure
  <2>8. ~Fits(n)
    <3>1. row # 0
      BY <1>1
    <3>2. "instance" \notin Listing
      BY DEF Listing
    <3> QED
      BY <1>8, <1>9, <2>2, <2>7, <3>1, <3>2 DEF Fits
  <2> QED
    BY <1>6, <2>8, Malformed
<1>11. CASE Current.kind # "entries"
  <2>1. recs[row].shape.body \notin {"assign", "op", "bare"}
    BY <1>5, <1>11 DEF Opens, Here
  <2>2. ~Fits(n)
    <3>1. row # 0
      BY <1>1
    <3> QED
      BY <1>8, <1>9, <2>1, <3>1 DEF Fits
  <2> QED
    BY <1>6, <2>2, Malformed
<1> QED
  BY <1>10, <1>11

(* The line read is a child of an open block, and is open itself when it   *)
(* is a bare field: no warning is due yet.                                 *)
LEMMA GrownWarned ==
  ASSUME ParseInv, ReadLine
  PROVE  Warned(Grown, row + 1) = Warned(open, row)
<1> DEFINE m == Len(open)
           o == Current.owner
           Owns(blocks, j) == \E k \in 1 .. Len(blocks) : blocks[k].owner = j
<1>1. /\ recs \in Texts /\ m \in Nat \ {0} /\ row \in Nat \ {0} /\ row \in 1 .. Len(recs)
      /\ (Current.kind = "top" <=> m = 1) /\ Current = open[m] /\ m \in 1 .. m
      /\ Below(row) = o /\ Holds(Current, recs[row].shape) /\ o \in 0 .. row - 1
  BY ReadFacts
<1>2. /\ Len(Grown) = IF Opens THEN m + 1 ELSE m
      /\ \A k \in 1 .. m - 1 : Grown[k] = open[k]
      /\ Grown[m].owner = o
      /\ Opens => Grown[m + 1].owner = row
  BY GrownFacts
<1>3. \A k \in 1 .. m : k \in 1 .. Len(Grown) /\ Grown[k].owner = open[k].owner
  <2>1. \A k \in 1 .. m : k \in 1 .. m - 1 \/ k = m
    BY <1>1, Counted
  <2>2. \A k \in 1 .. m : k \in 1 .. Len(Grown)
    BY <1>1, <1>2
  <2> QED
    BY <1>1, <1>2, <2>1, <2>2
<1>4. \A k \in 1 .. Len(Grown) : k \in 1 .. m \/ (Opens /\ k = m + 1)
  BY <1>1, <1>2
<1>5. \A j \in 1 .. row - 1 : Owns(Grown, j) <=> Owns(open, j)
  <2>1. \A j \in 1 .. row - 1 : j # row
    BY <1>1
  <2> QED
    BY <1>2, <1>3, <1>4, <2>1
<1>6. Owns(open, o)
  BY <1>1
<1>7. BareField(row) => Owns(Grown, row)
  <2>1. SUFFICES ASSUME BareField(row), ~Opens PROVE FALSE
    <3>1. Opens => m + 1 \in 1 .. Len(Grown)
      BY <1>1, <1>2
    <3> QED
      BY <1>2, <3>1
  <2>2. recs[row].shape.body = "bare" /\ recs[Structure(row)].shape.top = "instance"
    BY <2>1 DEF BareField
  <2>3. m # 1 /\ Current.kind = "entries"
    BY <1>1, <2>1, <2>2 DEF Opens, Here
  <2>4. "instance" \notin Listing
    BY DEF Listing
  <2> QED
    BY <2>2, <2>3, <2>4, ReadStructure
<1>8. /\ \A j \in 1 .. row - 1 : j \in 1 .. (row + 1) - 1
      /\ \A j \in 1 .. (row + 1) - 1 : j \in 1 .. row - 1 \/ j = row
      /\ row \in 1 .. (row + 1) - 1
  BY <1>1
<1>9. /\ \A j : j \in Warned(open, row) <=>
              /\ j \in 1 .. row - 1 /\ BareField(j) /\ ~Owns(open, j)
              /\ \A k \in 1 .. row - 1 : Below(k) # j
      /\ \A j : j \in Warned(Grown, row + 1) <=>
              /\ j \in 1 .. (row + 1) - 1 /\ BareField(j) /\ ~Owns(Grown, j)
              /\ \A k \in 1 .. (row + 1) - 1 : Below(k) # j
  BY DEF Warned
<1> HIDE DEF Owns
<1>10. ASSUME NEW j
       PROVE  j \in Warned(Grown, row + 1) <=> j \in Warned(open, row)
  <2>1. CASE j \in 1 .. row - 1
    BY <1>1, <1>5, <1>6, <1>8, <1>9, <2>1
  <2>2. CASE j \notin 1 .. row - 1
    BY <1>7, <1>8, <1>9, <2>2
  <2> QED
    BY <2>1, <2>2
<1>11. Warned(Grown, row + 1) \subseteq 1 .. (row + 1) - 1 /\ Warned(open, row) \subseteq 1 .. row - 1
  BY DEF Warned
<1> QED
  BY <1>10, <1>11

LEMMA ParseReadLine == ParseInv /\ ReadLine => ParseInv'
<1> SUFFICES ASSUME ParseInv, ReadLine PROVE ParseInv'
  OBVIOUS
<1>1. /\ recs' = recs /\ status' = status /\ status = "parsing" /\ row' = row + 1
      /\ open' = Grown /\ parent' = Append(parent, Current.owner) /\ warnings' = warnings
  BY DEF ReadLine, Grown, AtLine, Parsing
<1>2. /\ recs \in Texts /\ Reading(open, row, scopeChar, parent, warnings)
      /\ Len(open) \in Nat \ {0} /\ Len(open) \in 1 .. Len(open) /\ Current = open[Len(open)]
      /\ row \in Nat \ {0} /\ Below(row) = Current.owner /\ Current.owner \in 0 .. row - 1
  BY ReadFacts
<1>3. Stacked(Grown, row + 1) /\ Scoped(Grown, row + 1, scopeChar') /\ Deeper(Grown, row + 1)
  BY GrownStack, GrownScoped, GrownDeeper
<1>4. Doomed(Grown) \/ WellFormed((row + 1) - 1)
  <2>1. /\ Len(Grown) = IF Opens THEN Len(open) + 1 ELSE Len(open)
        /\ \A k \in 1 .. Len(open) - 1 : Grown[k] = open[k]
        /\ Grown[Len(open)].kind = Current.kind
        /\ Grown[Len(open)].indent = recs[row].indent
    BY GrownFacts
  <2>2. \A k \in 1 .. Len(open) : k \in 1 .. Len(Grown)
    BY <1>2, <2>1
  <2>3. recs[row].indent # Unset
    BY ReadFacts, LineFacts
  <2>4. ASSUME Current.kind = "op"
        PROVE  Doomed(Grown)
    BY <1>2, <2>1, <2>2, <2>3, <2>4 DEF Doomed
  <2>5. ASSUME Current.kind # "op", Doomed(open)
        PROVE  Doomed(Grown)
    <3>1. PICK k \in 1 .. Len(open) : open[k].kind = "op" /\ open[k].indent # Unset
      BY <2>5 DEF Doomed
    <3>2. k \in 1 .. Len(open) - 1
      BY <1>2, <2>5, <3>1, Counted
    <3> QED
      BY <2>1, <2>2, <3>1, <3>2 DEF Doomed
  <2>6. ASSUME Current.kind # "op", WellFormed(row - 1)
        PROVE  WellFormed(row)
    BY <2>6, GrownWell
  <2>7. (row + 1) - 1 = row
    BY <1>2
  <2> QED
    BY <1>2, <2>4, <2>5, <2>6, <2>7 DEF Reading
<1>5. Above(parent', row + 1)
  <2>1. parent \in Seq(Nat) /\ Len(parent) = row - 1 /\ \A j \in 1 .. row - 1 : parent[j] = Below(j)
    BY <1>2 DEF Reading, Above
  <2>2. Current.owner \in Nat
    BY <1>2
  <2>3. /\ parent' \in Seq(Nat) /\ Len(parent') = Len(parent) + 1
        /\ \A j \in 1 .. Len(parent) : parent'[j] = parent[j]
        /\ parent'[Len(parent) + 1] = Current.owner
    BY <1>1, <2>1, <2>2, AppendProperties
  <2>4. Len(parent) + 1 = row /\ (row + 1) - 1 = row
    BY <1>2, <2>1
  <2>5. \A j \in 1 .. row : j \in 1 .. row - 1 \/ j = row
    BY <1>2
  <2> QED
    BY <1>2, <2>1, <2>3, <2>4, <2>5 DEF Above
<1>6. warnings' = Warned(Grown, row + 1)
  BY <1>1, <1>2, GrownWarned DEF Reading
<1>7. \A j \in 1 .. Len(recs) : recs[j].indent.char # "mixed"
  BY <1>2 DEF Reading
<1>8. Reading(Grown, row + 1, scopeChar', parent', warnings')
  BY <1>3, <1>4, <1>5, <1>6, <1>7 DEF Reading
<1>9. Reading(open', row', scopeChar', parent', warnings')
  BY <1>1, <1>8
<1> QED
  BY <1>1, <1>2, <1>9, ReadsOn

-----------------------------------------------------------------------------
LEMMA ParseStutter == ParseInv /\ UNCHANGED parserVars => ParseInv'
<1> SUFFICES ASSUME ParseInv, UNCHANGED parserVars PROVE ParseInv'
  OBVIOUS
<1>1. /\ recs' = recs /\ row' = row /\ open' = open /\ scopeChar' = scopeChar
      /\ parent' = parent /\ warnings' = warnings /\ status' = status /\ failure' = failure
  BY DEF parserVars
<1>2. CASE status \in {"parsing", "accepted"}
  <2>1. Reading(open', row', scopeChar', parent', warnings')
    BY <1>1, <1>2 DEF ParseInv
  <2>2. Reading(open, row, scopeChar, parent, warnings)'
    BY <1>1, <2>1, ReadingKept
  <2> QED
    BY <1>1, <1>2, <2>2 DEF ParseInv
<1>3. CASE status \notin {"parsing", "accepted"}
  <2>1. status = "refused" => ~WellFormed(failure)'
    <3>1. /\ \A j : Below(j)' = Below(j) /\ Structure(j)' = Structure(j)
          /\ \A j : Fits(j)' = Fits(j)
      BY <1>1, TextKept
    <3>2. WellFormed(failure') => WellFormed(failure)
      BY <1>1
    <3>3. WellFormed(failure)' => WellFormed(failure')
      BY <1>1, <3>1 DEF WellFormed
    <3> QED
      BY <3>2, <3>3 DEF ParseInv
  <2> QED
    BY <1>1, <1>3, <2>1 DEF ParseInv
<1> QED
  BY <1>2, <1>3

LEMMA ParseStep == ParseInv /\ [ParserNext]_parserVars => ParseInv'
BY ParseBuildRecords, ParseCloseBlock, ParseRefuseLine, ParseReadLine, ParseEndParse,
   ParseStutter DEF ParserNext, ParserFinished

LEMMA ParseMeans == ParseInv => AcceptsWellFormed /\ TreeIsLayout /\ ErrorAtFault
<1> SUFFICES ASSUME ParseInv PROVE AcceptsWellFormed /\ TreeIsLayout /\ ErrorAtFault
  OBVIOUS
<1>1. recs \in Texts /\ Len(recs) \in Nat /\ DOMAIN recs = 1 .. Len(recs)
  BY LineFacts DEF ParseInv
<1>2. ASSUME status = "refused"
      PROVE  ~WellFormed(failure) /\ ~WellFormed(Len(recs))
  <2>1. failure \in 1 .. Len(recs) /\ ~WellFormed(failure)
    BY <1>2 DEF ParseInv
  <2>2. failure \in 0 .. Len(recs)
    BY <1>1, <2>1
  <2> QED
    BY <1>1, <2>1, <2>2, ShorterIsWellFormed
<1>3. ASSUME status = "accepted"
      PROVE  /\ WellFormed(Len(recs)) /\ Above(parent, Len(recs) + 1)
             /\ warnings = Warned(<< >>, Len(recs) + 1)
  <2>1. open = << >> /\ row = Len(recs) + 1 /\ Reading(open, row, scopeChar, parent, warnings)
    BY <1>3 DEF ParseInv
  <2>2. ~Doomed(<< >>) /\ (Len(recs) + 1) - 1 = Len(recs)
    BY <1>1 DEF Doomed
  <2> QED
    BY <2>1, <2>2 DEF Reading
<1>4. AcceptsWellFormed
  BY <1>2, <1>3 DEF AcceptsWellFormed, Done
<1>5. ErrorAtFault
  BY <1>2 DEF ErrorAtFault
<1>6. TreeIsLayout
  <2>1. SUFFICES ASSUME status = "accepted"
                 PROVE  /\ Len(parent) = Len(recs)
                        /\ \A j \in 1 .. Len(recs) : parent[j] = Below(j)
                        /\ warnings = {j \in 1 .. Len(recs) :
                             /\ recs[j].shape.body = "bare" /\ recs[Structure(j)].shape.top = "instance"
                             /\ Below(j) # 0
                             /\ \A k \in 1 .. Len(recs) : Below(k) # j}
    BY <1>1 DEF TreeIsLayout
  <2>2. (Len(recs) + 1) - 1 = Len(recs)
    BY <1>1
  <2>3. Len(parent) = Len(recs) /\ \A j \in 1 .. Len(recs) : parent[j] = Below(j)
    BY <1>3, <2>1, <2>2 DEF Above
  <2>4. \A k : k \notin 1 .. Len(<< >>)
    OBVIOUS
  <2>5. warnings = {j \in 1 .. Len(recs) : BareField(j) /\ \A k \in 1 .. Len(recs) : Below(k) # j}
    BY <1>3, <2>1, <2>2, <2>4 DEF Warned
  <2> QED
    BY <2>3, <2>5 DEF BareField
<1> QED
  BY <1>4, <1>5, <1>6

(* Exactly the well-formed texts are accepted.                             *)
THEOREM AcceptedIsWellFormed == ParserSpec => []AcceptsWellFormed
BY ParseInit, ParseStep, ParseMeans, PTL DEF ParserSpec

(* The tree of an accepted text is the one its layout describes, and the   *)
(* bare fields with nothing below them are those warned about.             *)
THEOREM TheTreeIsTheLayout == ParserSpec => []TreeIsLayout
BY ParseInit, ParseStep, ParseMeans, PTL DEF ParserSpec

(* A refused text is malformed within its lines up to the error's.         *)
THEOREM ErrorsAreAtTheFault == ParserSpec => []ErrorAtFault
BY ParseInit, ParseStep, ParseMeans, PTL DEF ParserSpec

-----------------------------------------------------------------------------
(* compile_multi: the order of combination does not depend on how the file *)
(* system lists the matches of a pattern, and where the lines of the text  *)
(* and of the files agree every diagnostic names the file and the line it  *)
(* is about.                                                               *)

(* The definitions of ResolveInputs over this module's finite sets and     *)
(* functions.                                                              *)
LEMMA AscendingDef ==
  ASSUME NEW S
  PROVE  Inputs!Ascending(S) =
           [k \in 1 .. Cardinality(S) |-> CHOOSE n \in S : Cardinality({m \in S : m <= n}) = k]
BY DEF Inputs!Ascending, Inputs!Cardinality, Cardinality

LEMMA SortedDef ==
  ASSUME NEW s
  PROVE  Inputs!Sorted(s) =
           [k \in DOMAIN s |->
              CHOOSE p \in Range(s) : /\ Cardinality({i \in DOMAIN s : s[i] < p}) < k
                                      /\ k <= Cardinality({i \in DOMAIN s : s[i] <= p})]
BY DEF Inputs!Sorted, Inputs!Cardinality, Cardinality, Inputs!Range, Range

LEMMA RangeDef ==
  ASSUME NEW s
  PROVE  Inputs!Range(s) = Range(s)
BY DEF Inputs!Range, Range

LEMMA ListingsDef ==
  ASSUME NEW S
  PROVE  Inputs!Listings(S) =
           {f \in [1 .. Cardinality(S) -> S] :
              \A i, j \in 1 .. Cardinality(S) : i # j => f[i] # f[j]}
BY DEF Inputs!Listings, Inputs!SetToSeqs, Inputs!Cardinality, Cardinality

-----------------------------------------------------------------------------
(* Ascending: the element of each rank, by RankExists and RankUnique.      *)
LEMMA UpToCount ==
  ASSUME NEW S \in SUBSET Nat, IsFiniteSet(S), NEW n \in S
  PROVE  /\ Cardinality({m \in S : m <= n}) \in 1 .. Cardinality(S)
         /\ Cardinality({m \in S : m <= n}) = Cardinality({m \in S : m < n}) + 1
         /\ Cardinality({m \in S : m < n}) \in Nat
<1> DEFINE U == {m \in S : m <= n}
           B == {m \in S : m < n}
<1>1. U = B \cup {n} /\ n \notin B
  <2>1. n \in Nat /\ S \subseteq Nat
    OBVIOUS
  <2>2. \A m \in S : m <= n <=> m < n \/ m = n
    BY <2>1
  <2>3. ~(n < n)
    BY <2>1
  <2> QED
    BY <2>1, <2>2, <2>3
<1>2. /\ IsFiniteSet(B) /\ IsFiniteSet(U) /\ Cardinality(U) <= Cardinality(S)
      /\ Cardinality(S) \in Nat /\ Cardinality(U) \in Nat /\ Cardinality(B) \in Nat
  <2>1. U \subseteq S /\ B \subseteq S
    OBVIOUS
  <2> HIDE DEF U, B
  <2> QED
    BY <2>1, FS_Subset, FS_CardinalityType
<1>3. Cardinality(B \cup {n}) = Cardinality(B) + 1
  <2> HIDE DEF U, B
  <2> QED
    BY <1>1, <1>2, FS_AddElement
<1> QED
  BY <1>1, <1>2, <1>3

LEMMA AscendingAt ==
  ASSUME NEW S \in SUBSET Nat, IsFiniteSet(S), NEW k \in 1 .. Cardinality(S)
  PROVE  /\ Inputs!Ascending(S)[k] \in S
         /\ Cardinality({m \in S : m <= Inputs!Ascending(S)[k]}) = k
<1> DEFINE v == [m \in S |-> m]
<1>1. \E n \in S : NumBelow(S, v, v[n]) < k /\ k <= NumUpTo(S, v, v[n])
  <2>1. v \in [S -> Nat]
    OBVIOUS
  <2> HIDE DEF v
  <2> QED
    BY <2>1, RankExists
<1>2. PICK n \in S : /\ Cardinality({m \in S : m < n}) < k
                    /\ k <= Cardinality({m \in S : m <= n})
  <2>1. PICK n \in S : NumBelow(S, v, v[n]) < k /\ k <= NumUpTo(S, v, v[n])
    BY <1>1
  <2>2. v[n] = n
    OBVIOUS
  <2>3. /\ {m \in S : v[m] < n} = {m \in S : m < n}
        /\ {m \in S : v[m] <= n} = {m \in S : m <= n}
    OBVIOUS
  <2>4. /\ NumBelow(S, v, n) = Cardinality({m \in S : m < n})
        /\ NumUpTo(S, v, n) = Cardinality({m \in S : m <= n})
    BY <2>3 DEF NumBelow, NumUpTo
  <2> QED
    BY <2>1, <2>2, <2>4
<1>3. Cardinality({m \in S : m <= n}) = k
  <2>1. Cardinality({m \in S : m <= n}) = Cardinality({m \in S : m < n}) + 1
    BY UpToCount
  <2>2. Cardinality({m \in S : m < n}) \in Nat
    BY UpToCount
  <2> QED
    BY <1>2, <2>1, <2>2
<1> QED
  BY <1>2, <1>3, AscendingDef

LEMMA AscendingIs ==
  ASSUME NEW S \in SUBSET Nat, IsFiniteSet(S), NEW k \in 1 .. Cardinality(S),
         NEW n \in S, Cardinality({m \in S : m <= n}) = k
  PROVE  Inputs!Ascending(S)[k] = n
<1> DEFINE v == [m \in S |-> m]
           a == Inputs!Ascending(S)[k]
<1>1. a \in S /\ Cardinality({m \in S : m <= a}) = k
  BY AscendingAt
<1>2. \A x, y \in S : /\ Cardinality({m \in S : m <= x}) = k
                     /\ Cardinality({m \in S : m <= y}) = k => y <= x
  <2> SUFFICES ASSUME NEW x \in S, NEW y \in S,
                      Cardinality({m \in S : m <= x}) = k,
                      Cardinality({m \in S : m <= y}) = k
               PROVE  y <= x
    OBVIOUS
  <2>1. Cardinality({m \in S : m < y}) < k
    <3>1. Cardinality({m \in S : m <= y}) = Cardinality({m \in S : m < y}) + 1
      BY UpToCount
    <3>2. Cardinality({m \in S : m < y}) \in Nat
      BY UpToCount
    <3> QED
      BY <3>1, <3>2
  <2>2. /\ {m \in S : v[m] < y} = {m \in S : m < y}
        /\ {m \in S : v[m] <= x} = {m \in S : m <= x}
    OBVIOUS
  <2>3. /\ NumBelow(S, v, y) < k /\ k <= NumUpTo(S, v, x)
        /\ k \in Nat /\ x \in Nat /\ y \in Nat
    <3>1. /\ NumBelow(S, v, y) = Cardinality({m \in S : m < y})
          /\ NumUpTo(S, v, x) = Cardinality({m \in S : m <= x})
      BY <2>2 DEF NumBelow, NumUpTo
    <3>2. Cardinality(S) \in Nat
      BY FS_CardinalityType
    <3> QED
      BY <2>1, <3>1, <3>2
  <2>4. v \in [S -> Nat]
    OBVIOUS
  <2> HIDE DEF v
  <2> QED
    BY <2>3, <2>4, RankUnique
<1> HIDE DEF a
<1>3. a <= n /\ n <= a
  BY <1>1, <1>2
<1>4. a = n
  BY <1>1, <1>3
<1> QED
  BY <1>4 DEF a

LEMMA AscendingSeq ==
  ASSUME NEW S \in SUBSET Nat, IsFiniteSet(S)
  PROVE  /\ Inputs!Ascending(S) \in Seq(S)
         /\ Len(Inputs!Ascending(S)) = Cardinality(S)
<1>1. \A k \in 1 .. Cardinality(S) : Inputs!Ascending(S)[k] \in S
  BY AscendingAt
<1>2. Cardinality(S) \in Nat
  BY FS_CardinalityType
<1> DEFINE a == Inputs!Ascending(S)
           e(k) == CHOOSE n \in S : Cardinality({m \in S : m <= n}) = k
<1>3. a = [k \in 1 .. Cardinality(S) |-> e(k)]
  BY AscendingDef
<1>4. \A k \in 1 .. Cardinality(S) : a[k] \in S
  BY <1>1
<1> HIDE DEF a, e
<1>5. a \in Seq(S) /\ Len(a) = Cardinality(S)
  <2>1. \A k \in 1 .. Cardinality(S) : e(k) \in S
    BY <1>3, <1>4
  <2> QED
    BY <1>2, <1>3, <2>1
<1> QED
  BY <1>5 DEF a

(* A number above all of a set comes last. *)
LEMMA AscendingAppend ==
  ASSUME NEW S \in SUBSET Nat, IsFiniteSet(S), NEW n \in Nat, \A m \in S : m < n
  PROVE  /\ IsFiniteSet(S \cup {n}) /\ Cardinality(S \cup {n}) = Cardinality(S) + 1
         /\ \A k \in 1 .. Cardinality(S) : Inputs!Ascending(S \cup {n})[k] = Inputs!Ascending(S)[k]
         /\ Inputs!Ascending(S \cup {n})[Cardinality(S) + 1] = n
         /\ Inputs!Ascending(S \cup {n}) = Append(Inputs!Ascending(S), n)
<1> DEFINE T == S \cup {n}
           c == Cardinality(S)
<1>1. n \notin S /\ T \in SUBSET Nat /\ c \in Nat
  BY FS_CardinalityType
<1>2. IsFiniteSet(T) /\ Cardinality(T) = c + 1
  BY <1>1, FS_AddElement
<1>3. \A k \in 1 .. c : Inputs!Ascending(T)[k] = Inputs!Ascending(S)[k]
  <2> SUFFICES ASSUME NEW k \in 1 .. c
               PROVE  Inputs!Ascending(T)[k] = Inputs!Ascending(S)[k]
    OBVIOUS
  <2> DEFINE a == Inputs!Ascending(S)[k]
  <2>1. a \in S /\ Cardinality({m \in S : m <= a}) = k
    BY AscendingAt
  <2> HIDE DEF a
  <2>2. {m \in T : m <= a} = {m \in S : m <= a}
    BY <2>1
  <2>3. k \in 1 .. Cardinality(T) /\ a \in T
    BY <1>1, <1>2, <2>1
  <2> HIDE DEF T, c
  <2>4. Inputs!Ascending(T)[k] = a
    BY <1>1, <1>2, <2>1, <2>2, <2>3, AscendingIs
  <2> QED
    BY <2>4 DEF a
<1>4. Inputs!Ascending(T)[c + 1] = n
  <2>1. {m \in T : m <= n} = T
    <3>1. \A m \in T : m <= n
      OBVIOUS
    <3> QED
      BY <3>1
  <2>2. c + 1 \in 1 .. Cardinality(T) /\ n \in T
    BY <1>1, <1>2
  <2> HIDE DEF T, c
  <2> QED
    BY <1>1, <1>2, <2>1, <2>2, AscendingIs
<1>5. Inputs!Ascending(T) = Append(Inputs!Ascending(S), n)
  <2>1. /\ Inputs!Ascending(T) \in Seq(Nat) /\ Len(Inputs!Ascending(T)) = c + 1
        /\ Inputs!Ascending(S) \in Seq(Nat) /\ Len(Inputs!Ascending(S)) = c
    <3>1. Inputs!Ascending(T) \in Seq(T) /\ Len(Inputs!Ascending(T)) = c + 1
      <4> HIDE DEF T
      <4> QED
        BY <1>1, <1>2, AscendingSeq
    <3>2. Inputs!Ascending(S) \in Seq(S) /\ Len(Inputs!Ascending(S)) = c
      BY AscendingSeq
    <3> HIDE DEF T
    <3> QED
      BY <1>1, <3>1, <3>2, SeqMonotonic
  <2> HIDE DEF T, c
  <2> QED
    BY <1>1, <1>3, <1>4, <2>1
<1> QED
  BY <1>2, <1>3, <1>4, <1>5

(* Sorted: ascending, and of the same elements. *)
LEMMA SortedFacts ==
  ASSUME NEW s \in Seq(Nat)
  PROVE  /\ Inputs!Sorted(s) \in Seq(Range(s))
         /\ Len(Inputs!Sorted(s)) = Len(s)
         /\ Range(Inputs!Sorted(s)) = Range(s)
         /\ \A k, l \in 1 .. Len(s) : k < l => Inputs!Sorted(s)[k] <= Inputs!Sorted(s)[l]
<1> DEFINE I == DOMAIN s
           At(k, p) == NumBelow(I, s, p) < k /\ k <= NumUpTo(I, s, p)
           r == Inputs!Sorted(s)
<1>1. /\ I = 1 .. Len(s) /\ Len(s) \in Nat /\ IsFiniteSet(I) /\ Cardinality(I) = Len(s)
      /\ s \in [I -> Nat]
  <2>1. I = 1 .. Len(s) /\ Len(s) \in Nat /\ s \in [I -> Nat]
    OBVIOUS
  <2>2. IsFiniteSet(1 .. Len(s)) /\ Cardinality(1 .. Len(s)) = Len(s)
    <3>1. \A n \in Nat : IsFiniteSet(1 .. n) /\ Cardinality(1 .. n) = n
      BY FS_Interval
    <3> QED
      BY <2>1, <3>1
  <2> QED
    BY <2>1, <2>2
<1>2. Range(s) = {s[i] : i \in I} /\ Range(s) \subseteq Nat
  BY DEF Range
<1> HIDE DEF I
<1>3. \A k \in I : \E p \in Range(s) : At(k, p)
  <2> SUFFICES ASSUME NEW k \in I PROVE \E p \in Range(s) : At(k, p)
    OBVIOUS
  <2>1. PICK i \in I : At(k, s[i])
    <3>1. k \in 1 .. Cardinality(I)
      BY <1>1
    <3> QED
      BY <1>1, <3>1, RankExists
  <2> QED
    BY <2>1, <1>2
<1>4. r = [k \in I |-> CHOOSE p \in Range(s) : At(k, p)]
  BY SortedDef DEF I, NumBelow, NumUpTo
<1>5. \A k \in I : r[k] \in Range(s) /\ At(k, r[k])
  <2> HIDE DEF At
  <2> QED
    BY <1>3, <1>4
<1>6. \A k, l \in I, x, y \in Nat : k <= l /\ At(k, x) /\ At(l, y) => x <= y
  <2> SUFFICES ASSUME NEW k \in I, NEW l \in I, NEW x \in Nat, NEW y \in Nat,
                      k <= l, At(k, x), At(l, y)
               PROVE  x <= y
    OBVIOUS
  <2>1. k \in Nat /\ l \in Nat
    BY <1>1
  <2>2. NumBelow(I, s, x) < k /\ k <= NumUpTo(I, s, y)
    <3>1. NumUpTo(I, s, y) \in Nat
      <4>1. {i \in I : s[i] <= y} \subseteq I
        OBVIOUS
      <4> QED
        BY <4>1, <1>1, FS_Subset, FS_CardinalityType DEF NumUpTo
    <3> QED
      BY <2>1, <3>1
  <2> QED
    BY <1>1, <2>1, <2>2, RankUnique
<1>7. r \in Seq(Range(s)) /\ Len(r) = Len(s)
  BY <1>1, <1>4, <1>5
<1>8. \A k, l \in 1 .. Len(s) : k < l => r[k] <= r[l]
  <2> HIDE DEF At, r
  <2> SUFFICES ASSUME NEW k \in I, NEW l \in I, k < l PROVE r[k] <= r[l]
    BY <1>1
  <2>1. r[k] \in Nat /\ r[l] \in Nat /\ At(k, r[k]) /\ At(l, r[l]) /\ k <= l
    BY <1>1, <1>2, <1>5
  <2> QED
    BY <2>1, <1>6
<1>9. Range(s) \subseteq Range(r)
  <2> SUFFICES ASSUME NEW i \in I PROVE s[i] \in Range(r)
    BY <1>2
  <2> DEFINE p == s[i]
             B == {j \in I : s[j] < p}
             U == {j \in I : s[j] <= p}
  <2>1. p \in Nat /\ i \in U /\ i \notin B /\ B \subseteq U /\ U \subseteq I
    BY <1>1
  <2>2. /\ IsFiniteSet(U) /\ Cardinality(U) \in 1 .. Len(s)
        /\ Cardinality(B) < Cardinality(U)
    <3> HIDE DEF p, B, U
    <3>1. IsFiniteSet(U) /\ Cardinality(U) <= Len(s) /\ Cardinality(U) \in Nat
      BY <1>1, <2>1, FS_Subset, FS_CardinalityType
    <3>2. B \subseteq U \ {i} /\ IsFiniteSet(U \ {i}) /\ Cardinality(U \ {i}) = Cardinality(U) - 1
      BY <2>1, <3>1, FS_RemoveElement
    <3>3. Cardinality(B) <= Cardinality(U \ {i}) /\ Cardinality(B) \in Nat
      BY <3>2, FS_Subset, FS_CardinalityType
    <3> QED
      BY <1>1, <3>1, <3>2, <3>3
  <2>3. Cardinality(U) \in I /\ At(Cardinality(U), p)
    <3>1. NumBelow(I, s, p) = Cardinality(B) /\ NumUpTo(I, s, p) = Cardinality(U)
      BY DEF NumBelow, NumUpTo
    <3> QED
      BY <1>1, <2>1, <2>2, <3>1
  <2>4. r[Cardinality(U)] = p
    <3> DEFINE k == Cardinality(U)
    <3>1. k \in I /\ At(k, p) /\ p \in Nat /\ r[k] \in Nat /\ At(k, r[k])
      BY <1>2, <1>5, <2>1, <2>3
    <3>2. k \in Nat
      BY <1>1, <2>2
    <3> HIDE DEF At, r, k, p
    <3>3. p <= r[k] /\ r[k] <= p
      BY <1>6, <3>1, <3>2
    <3> QED
      BY <3>1, <3>3 DEF k
  <2> HIDE DEF r, p
  <2>5. p \in Range(r)
    BY <1>4, <2>3, <2>4 DEF Range, r
  <2> QED
    BY <2>5 DEF p
<1>10. Range(r) \subseteq Range(s)
  <2> HIDE DEF r
  <2> QED
    BY <1>4, <1>5 DEF Range, r
<1> QED
  BY <1>7, <1>8, <1>9, <1>10

(* Every listing of a finite set of files has exactly its elements. *)
LEMMA ListingsFacts ==
  ASSUME NEW S, IsFiniteSet(S), NEW f \in Inputs!Listings(S)
  PROVE  f \in Seq(S) /\ Range(f) = S
<1> DEFINE D == 1 .. Cardinality(S)
<1>1. f \in [D -> S] /\ \A i, j \in D : i # j => f[i] # f[j]
  BY ListingsDef
<1>2. Cardinality(S) \in Nat /\ IsFiniteSet(D) /\ Cardinality(D) = Cardinality(S)
  <2>1. Cardinality(S) \in Nat
    BY FS_CardinalityType
  <2> QED
    BY <2>1, FS_Interval
<1>3. f \in Seq(S)
  BY <1>1, <1>2
<1>4. f \in Injection(D, S)
  BY <1>1 DEF Injection, IsInjective
<1>5. f \in Surjection(D, S)
  <2> HIDE DEF D
  <2> QED
    BY <1>2, <1>4, FS_Injection
<1>6. Range(f) = S
  BY <1>1, <1>5 DEF Surjection, Range
<1> QED
  BY <1>3, <1>6

-----------------------------------------------------------------------------
(***************************************************************************)
(* resolve_inputs.  While the arguments are read, literals and matches     *)
(* hold what the arguments before the current one name.                    *)
(***************************************************************************)
Before == {i \in 1 .. arg - 1 : ~args[i].pattern}
MatchedBefore == UNION {args[i].files : i \in (1 .. arg - 1) \ Before}

Literal(S) == [k \in 1 .. Cardinality(S) |-> Inputs!TheFile(Inputs!Ascending(S)[k])]

(* Of the files to be added, those whose normal form is already used. *)
Taken == {p \in Inputs!Added : Norm[p] \in used}

InputsTypeOK ==
  /\ args \in Args
  /\ arg \in 1 .. Len(args) + 1
  /\ stage \in {"args", "dedup", "done", "failed"}
  /\ literals \in Seq(Path) /\ matches \in Seq(Path) /\ result \in Seq(Path)
  /\ used \subseteq Path

ArgsInv ==
  stage = "args" =>
    /\ \A i \in 1 .. arg - 1 : args[i].files # {}
    /\ literals = Literal(Before)
    /\ Range(matches) = MatchedBefore

(* While the sorted matches are taken, what was added is ascending, each   *)
(* the least spelling of its file, and below everything left.              *)
DedupInv ==
  stage \in {"dedup", "done"} =>
    /\ arg = Len(args) + 1
    /\ \A i \in DOMAIN args : args[i].files # {}
    /\ result = Inputs!AsGiven \o Inputs!Ascending(Taken)
    /\ used = {Norm[p] : p \in Inputs!LiteralFiles} \cup {Norm[p] : p \in Taken}
    /\ \A k \in 1 .. Len(matches) : \A p \in Taken : p <= matches[k]
    /\ \A k, l \in 1 .. Len(matches) : k < l => matches[k] <= matches[l]
    /\ Range(matches) \subseteq Inputs!Matched
    /\ \A p \in Inputs!Matched : p \in Range(matches) \/ Norm[p] \in used
    /\ stage = "done" => matches = << >>

InputsInv == InputsTypeOK /\ ArgsInv /\ DedupInv

-----------------------------------------------------------------------------
LEMMA ArgFacts ==
  ASSUME NEW a \in Inputs!Arg
  PROVE  /\ a.pattern \in BOOLEAN
         /\ a.files \subseteq Path /\ IsFiniteSet(a.files)
         /\ ~a.pattern => a.files = {} \/ \E p \in Path : a.files = {p}
<1>1. a.pattern \in BOOLEAN /\ a.files \subseteq Path
  BY DEF Inputs!Arg
<1>2. ~a.pattern => a.files = {} \/ \E p \in Path : a.files = {p}
  BY DEF Inputs!Arg
<1>3. IsFiniteSet(a.files)
  BY <1>1, ContentsAssumption, FS_Subset
<1> QED
  BY <1>1, <1>2, <1>3

LEMMA ArgsFacts ==
  ASSUME InputsTypeOK
  PROVE  /\ args \in Seq(Inputs!Arg) /\ Len(args) \in Nat /\ DOMAIN args = 1 .. Len(args)
         /\ \A i \in 1 .. Len(args) : args[i] \in Inputs!Arg
BY InputsAssumption DEF InputsTypeOK

LEMMA Finite ==
  ASSUME InputsTypeOK
  PROVE  /\ Before \in SUBSET Nat /\ IsFiniteSet(Before)
         /\ Inputs!LiteralArgs \in SUBSET Nat /\ IsFiniteSet(Inputs!LiteralArgs)
         /\ Inputs!Matched \subseteq Path /\ Inputs!LiteralFiles \subseteq Path
         /\ Taken \in SUBSET Nat /\ IsFiniteSet(Taken) /\ Taken \subseteq Path
<1>1. Len(args) \in Nat /\ DOMAIN args = 1 .. Len(args) /\ arg - 1 \in Nat
  BY ArgsFacts DEF InputsTypeOK
<1>2. Before \subseteq 1 .. arg - 1 /\ Inputs!LiteralArgs \subseteq 1 .. Len(args)
  BY <1>1 DEF Before, Inputs!LiteralArgs
<1>3. \A n \in Nat : IsFiniteSet(1 .. n)
  BY FS_Interval
<1>4. IsFiniteSet(Before) /\ IsFiniteSet(Inputs!LiteralArgs)
  BY <1>1, <1>2, <1>3, FS_Subset
<1>5. \A i \in 1 .. Len(args) : args[i].files \subseteq Path
  BY ArgsFacts, ArgFacts
<1>6. Inputs!Matched \subseteq Path /\ Inputs!LiteralFiles \subseteq Path
  BY <1>1, <1>5 DEF Inputs!Matched, Inputs!LiteralFiles, Inputs!LiteralArgs
<1>7. Taken \subseteq Path /\ Path \subseteq Nat /\ IsFiniteSet(Path)
  BY <1>6, ContentsAssumption DEF Taken, Inputs!Added
<1>8. IsFiniteSet(Taken)
  BY <1>7, FS_Subset
<1> QED
  BY <1>1, <1>2, <1>4, <1>6, <1>7, <1>8

(* What a step that leaves the arguments alone leaves alone. *)
LEMMA ArgsKept ==
  ASSUME args' = args
  PROVE  /\ Inputs!Added' = Inputs!Added /\ Inputs!Matched' = Inputs!Matched
         /\ Inputs!LiteralFiles' = Inputs!LiteralFiles
         /\ Inputs!AsGiven' = Inputs!AsGiven
         /\ arg' = arg => Before' = Before /\ MatchedBefore' = MatchedBefore
         /\ Before' = Before => Literal(Before)' = Literal(Before)
         /\ used' = used => Taken' = Taken
<1>1. Inputs!LiteralArgs' = Inputs!LiteralArgs
  BY DEF Inputs!LiteralArgs
<1>2. /\ Inputs!Matched' = Inputs!Matched
      /\ Inputs!LiteralFiles' = Inputs!LiteralFiles
  BY <1>1 DEF Inputs!Matched, Inputs!LiteralFiles
<1>3. Inputs!Added' = Inputs!Added
  BY <1>2 DEF Inputs!Added
<1>4. Inputs!AsGiven' = Inputs!AsGiven
  BY <1>1 DEF Inputs!AsGiven, Inputs!TheFile
<1>5. arg' = arg => Before' = Before /\ MatchedBefore' = MatchedBefore
  BY DEF Before, MatchedBefore
<1>6. Before' = Before => Literal(Before)' = Literal(Before)
  BY DEF Literal, Inputs!TheFile
<1>7. used' = used => Taken' = Taken
  BY <1>3 DEF Taken
<1> QED
  BY <1>2, <1>3, <1>4, <1>5, <1>6, <1>7

LEMMA InputsInit == Inputs!Init => InputsInv
<1> SUFFICES ASSUME Inputs!Init PROVE InputsInv
  OBVIOUS
<1>1. InputsTypeOK
  BY InputsAssumption DEF Inputs!Init, InputsTypeOK
<1>2. Before = {} /\ MatchedBefore = {}
  BY DEF Inputs!Init, Before, MatchedBefore
<1>3. Literal(Before) = << >>
  <2>1. Cardinality(Before) = 0
    BY <1>2, FS_EmptySet
  <2> QED
    BY <2>1 DEF Literal
<1>4. Range(matches) = {}
  BY DEF Inputs!Init, Range
<1> QED
  BY <1>1, <1>2, <1>3, <1>4 DEF Inputs!Init, InputsInv, ArgsInv, DedupInv

LEMMA RefuseArgInv == InputsInv /\ Inputs!RefuseArg => InputsInv'
BY DEF InputsInv, InputsTypeOK, ArgsInv, DedupInv, Inputs!RefuseArg

LEMMA TakeLiteralInv == InputsInv /\ Inputs!TakeLiteral => InputsInv'
<1> SUFFICES ASSUME InputsInv, Inputs!TakeLiteral PROVE InputsInv'
  OBVIOUS
<1>1. /\ stage = "args" /\ stage' = "args" /\ arg \in 1 .. Len(args) /\ arg' = arg + 1
      /\ ~args[arg].pattern /\ args' = args /\ matches' = matches
      /\ used' = used /\ result' = result /\ InputsTypeOK /\ ArgsInv
  BY DEF InputsInv, InputsTypeOK, Inputs!TakeLiteral, Inputs!AtArg
<1>2. PICK p \in args[arg].files : literals' = Append(literals, p)
  BY DEF Inputs!TakeLiteral
<1>3. args[arg].files = {p} /\ p \in Path /\ Inputs!TheFile(arg) = p
  <2>1. args[arg].files = {p} /\ p \in Path
    BY <1>1, <1>2, ArgsFacts, ArgFacts
  <2> QED
    BY <2>1 DEF Inputs!TheFile
<1>4. InputsTypeOK'
  BY <1>1, <1>2, <1>3 DEF InputsTypeOK
<1>5. /\ Before \in SUBSET Nat /\ IsFiniteSet(Before) /\ Before' = Before \cup {arg}
      /\ \A m \in Before : m < arg
      /\ arg \in Nat /\ Cardinality(Before) \in Nat
  <2>1. Before' = Before \cup {arg}
    BY <1>1, ArgsFacts DEF Before
  <2> QED
    BY <1>1, <2>1, Finite, FS_CardinalityType DEF Before
<1>6. Literal(Before)' = Append(Literal(Before), p)
  <2> DEFINE c == Cardinality(Before)
             T == Before \cup {arg}
  <2>1. /\ Cardinality(T) = c + 1
        /\ \A k \in 1 .. c : Inputs!Ascending(T)[k] = Inputs!Ascending(Before)[k]
        /\ Inputs!Ascending(T)[c + 1] = arg
    BY <1>5, AscendingAppend
  <2>2. Literal(Before)' = [k \in 1 .. Cardinality(T) |-> Inputs!TheFile(Inputs!Ascending(T)[k])]
    BY <1>1, <1>5 DEF Literal, Inputs!TheFile
  <2>3. Literal(Before) = [k \in 1 .. c |-> Inputs!TheFile(Inputs!Ascending(Before)[k])]
    BY DEF Literal
  <2> DEFINE new(k) == Inputs!TheFile(Inputs!Ascending(T)[k])
             old(k) == Inputs!TheFile(Inputs!Ascending(Before)[k])
  <2>4. \A k \in 1 .. c : new(k) = old(k)
    BY <2>1
  <2>5. new(c + 1) = p
    BY <2>1, <1>3
  <2>6. c \in Nat
    BY <1>5
  <2>7. Literal(Before)' = [k \in 1 .. c + 1 |-> new(k)]
    BY <2>1, <2>2
  <2> DEFINE X == [k \in 1 .. c + 1 |-> new(k)]
             Y == [k \in 1 .. c |-> old(k)]
             S == {new(k) : k \in 1 .. c + 1} \cup {p}
  <2>8. X = Append(Y, p)
    <3> HIDE DEF new, old, c
    <3>1. \A k \in 1 .. c : old(k) \in S
      BY <2>4, <2>6
    <3>2. X \in Seq(S) /\ Len(X) = c + 1 /\ \A k \in 1 .. c + 1 : X[k] = new(k)
      BY <2>6
    <3>3. Y \in Seq(S) /\ Len(Y) = c /\ \A k \in 1 .. c : Y[k] = old(k)
      BY <2>6, <3>1
    <3> HIDE DEF X, Y, S
    <3>4. p \in S
      BY DEF S
    <3> QED
      BY <2>4, <2>5, <2>6, <3>2, <3>3, <3>4
  <2>9. Literal(Before)' = X
    BY <2>7
  <2>10. Literal(Before) = Y
    BY <2>3
  <2> HIDE DEF X, Y
  <2> QED
    BY <2>8, <2>9, <2>10
<1>7. MatchedBefore' = MatchedBefore
  <2>1. (1 .. arg' - 1) \ Before' = (1 .. arg - 1) \ Before
    BY <1>1, <1>5
  <2> QED
    BY <1>1, <2>1 DEF MatchedBefore
<1>8. \A i \in 1 .. arg' - 1 : args'[i].files # {}
  BY <1>1, <1>3, <1>5 DEF ArgsInv
<1>9. ArgsInv'
  BY <1>1, <1>2, <1>6, <1>7, <1>8 DEF ArgsInv
<1> QED
  BY <1>1, <1>4, <1>9 DEF InputsInv, DedupInv

LEMMA TakePatternInv == InputsInv /\ Inputs!TakePattern => InputsInv'
<1> SUFFICES ASSUME InputsInv, Inputs!TakePattern PROVE InputsInv'
  OBVIOUS
<1>1. /\ stage = "args" /\ stage' = "args" /\ arg \in 1 .. Len(args) /\ arg' = arg + 1
      /\ args[arg].pattern /\ args[arg].files # {} /\ args' = args /\ literals' = literals
      /\ used' = used /\ result' = result /\ InputsTypeOK /\ ArgsInv
  BY DEF InputsInv, InputsTypeOK, Inputs!TakePattern, Inputs!AtArg
<1>2. PICK found \in Inputs!Listings(args[arg].files) : matches' = matches \o found
  BY DEF Inputs!TakePattern
<1>3. /\ args[arg].files \subseteq Path
      /\ found \in Seq(args[arg].files) /\ Range(found) = args[arg].files
  <2>1. args[arg].files \subseteq Path /\ IsFiniteSet(args[arg].files)
    BY <1>1, ArgsFacts, ArgFacts
  <2> QED
    BY <2>1, <1>2, ListingsFacts
<1>4. found \in Seq(Path) /\ matches \in Seq(Path) /\ matches' \in Seq(Path)
  BY <1>1, <1>2, <1>3 DEF InputsTypeOK
<1>5. InputsTypeOK'
  BY <1>1, <1>4 DEF InputsTypeOK
<1>6. Range(matches') = Range(matches) \cup args[arg].files
  BY <1>2, <1>3, <1>4, RangeConcatenation
<1>7. arg \in Nat /\ Before' = Before
  BY <1>1, ArgsFacts DEF Before
<1>8. MatchedBefore' = MatchedBefore \cup args[arg].files
  <2>1. (1 .. arg' - 1) \ Before' = ((1 .. arg - 1) \ Before) \cup {arg}
    BY <1>1, <1>7 DEF Before
  <2> QED
    BY <1>1, <2>1 DEF MatchedBefore
<1>9. \A i \in 1 .. arg' - 1 : args'[i].files # {}
  BY <1>1, <1>7 DEF ArgsInv
<1>10. ArgsInv'
  BY <1>1, <1>6, <1>7, <1>8, <1>9, ArgsKept DEF ArgsInv
<1> QED
  BY <1>1, <1>5, <1>10 DEF InputsInv, DedupInv

(* The literal files are all there, each at the place of its argument. *)
LEMMA AsGivenFacts ==
  ASSUME InputsTypeOK, \A i \in DOMAIN args : args[i].files # {}
  PROVE  Inputs!AsGiven \in Seq(Path) /\ Range(Inputs!AsGiven) = Inputs!LiteralFiles
<1> DEFINE L == Inputs!LiteralArgs
           c == Cardinality(L)
           g == Inputs!AsGiven
<1>1. L \in SUBSET Nat /\ IsFiniteSet(L) /\ c \in Nat /\ L \subseteq DOMAIN args
  BY Finite, FS_CardinalityType DEF Inputs!LiteralArgs
<1>2. \A i \in L : Inputs!TheFile(i) \in Path /\ args[i].files = {Inputs!TheFile(i)}
  <2> SUFFICES ASSUME NEW i \in L
               PROVE  Inputs!TheFile(i) \in Path /\ args[i].files = {Inputs!TheFile(i)}
    OBVIOUS
  <2>1. args[i] \in Inputs!Arg /\ ~args[i].pattern /\ args[i].files # {}
    BY <1>1, ArgsFacts DEF Inputs!LiteralArgs
  <2>2. PICK p \in Path : args[i].files = {p}
    BY <2>1, ArgFacts
  <2> QED
    BY <2>2 DEF Inputs!TheFile
<1>3. /\ \A k \in 1 .. c : Inputs!Ascending(L)[k] \in L
      /\ \A i \in L : \E k \in 1 .. c : Inputs!Ascending(L)[k] = i
  <2>1. \A i \in L : Cardinality({m \in L : m <= i}) \in 1 .. c
    BY <1>1, UpToCount
  <2> HIDE DEF L, c
  <2>2. ASSUME NEW i \in L
        PROVE  \E k \in 1 .. c : Inputs!Ascending(L)[k] = i
    <3>1. Inputs!Ascending(L)[Cardinality({m \in L : m <= i})] = i
      BY <1>1, <2>1, AscendingIs DEF c
    <3> QED
      BY <2>1, <3>1
  <2>3. \A k \in 1 .. c : Inputs!Ascending(L)[k] \in L
    BY <1>1, AscendingAt DEF c
  <2> QED
    BY <2>2, <2>3
<1>4. g = [k \in 1 .. c |-> Inputs!TheFile(Inputs!Ascending(L)[k])]
  BY DEF Inputs!AsGiven, Inputs!Cardinality, Cardinality
<1>5. g \in Seq(Path) /\ DOMAIN g = 1 .. c
  <2> DEFINE e(k) == Inputs!TheFile(Inputs!Ascending(L)[k])
  <2>1. \A k \in 1 .. c : e(k) \in Path
    <3> HIDE DEF L, c
    <3> QED
      BY <1>2, <1>3
  <2>2. g = [k \in 1 .. c |-> e(k)]
    BY <1>4
  <2> HIDE DEF L, g, c, e
  <2> QED
    BY <1>1, <2>1, <2>2
<1>6. Inputs!LiteralFiles = {Inputs!TheFile(i) : i \in L}
  <2>1. Inputs!LiteralFiles = UNION {args[i].files : i \in L}
    BY DEF Inputs!LiteralFiles
  <2> HIDE DEF L
  <2> QED
    BY <1>2, <2>1
<1>7. Range(g) = {Inputs!TheFile(Inputs!Ascending(L)[k]) : k \in 1 .. c}
  <2> HIDE DEF L, g, c
  <2> QED
    BY <1>4, <1>5 DEF Range
<1>8. Range(g) = Inputs!LiteralFiles
  <2> HIDE DEF L, g, c
  <2> QED
    BY <1>3, <1>6, <1>7
<1> QED
  BY <1>5, <1>8

LEMMA StartDedupInv == InputsInv /\ Inputs!StartDedup => InputsInv'
<1> SUFFICES ASSUME InputsInv, Inputs!StartDedup PROVE InputsInv'
  OBVIOUS
<1>1. /\ stage = "args" /\ stage' = "dedup" /\ arg = Len(args) + 1 /\ Len(args) \in Nat
      /\ args' = args /\ arg' = arg /\ literals' = literals /\ result' = literals
      /\ matches' = Inputs!Sorted(matches)
      /\ used' = {Norm[p] : p \in Range(literals)}
      /\ InputsTypeOK /\ ArgsInv
  <2>1. arg \in 1 .. Len(args) + 1 /\ Len(args) \in Nat /\ arg > Len(args)
    BY ArgsFacts DEF InputsInv, InputsTypeOK, Inputs!StartDedup
  <2>2. arg = Len(args) + 1
    BY <2>1
  <2> QED
    BY <2>1, <2>2, RangeDef DEF InputsInv, Inputs!StartDedup
<1>2. Before = Inputs!LiteralArgs /\ MatchedBefore = Inputs!Matched
  <2>1. arg - 1 = Len(args) /\ DOMAIN args = 1 .. arg - 1
    BY <1>1, ArgsFacts
  <2>2. Before = Inputs!LiteralArgs
    BY <2>1 DEF Before, Inputs!LiteralArgs
  <2> QED
    BY <2>1, <2>2 DEF MatchedBefore, Inputs!Matched
<1>3. literals = Inputs!AsGiven
  BY <1>1, <1>2 DEF ArgsInv, Literal, Inputs!AsGiven, Inputs!Cardinality, Cardinality
<1>4. \A i \in DOMAIN args : args[i].files # {}
  BY <1>1, ArgsFacts DEF ArgsInv
<1>5. Range(literals) = Inputs!LiteralFiles
  BY <1>1, <1>3, <1>4, AsGivenFacts
<1>6. /\ matches' \in Seq(Path) /\ Range(matches') = Inputs!Matched
      /\ \A k, l \in 1 .. Len(matches') : k < l => matches'[k] <= matches'[l]
  <2>1. matches \in Seq(Path) /\ matches \in Seq(Nat) /\ Range(matches) = Inputs!Matched
        /\ Inputs!Matched \subseteq Path
    BY <1>1, <1>2, ContentsAssumption, SeqMonotonic, Finite DEF InputsTypeOK, ArgsInv
  <2>2. Inputs!Sorted(matches) \in Seq(Path)
    BY <2>1, SortedFacts, SeqMonotonic
  <2> QED
    BY <1>1, <2>1, <2>2, SortedFacts
<1>7. Taken' = {}
  BY <1>1, <1>5, ArgsKept DEF Taken, Inputs!Added
<1>8. result' = Inputs!AsGiven \o Inputs!Ascending({})
  <2>1. Inputs!Ascending({}) = << >>
    <3>1. Cardinality({}) = 0
      BY FS_EmptySet
    <3> QED
      BY <3>1, AscendingDef
  <2> QED
    BY <1>1, <1>3, <2>1 DEF InputsTypeOK
<1>9. InputsTypeOK'
  <2>1. used' \subseteq Path
    BY <1>1, <1>5, Finite, ContentsAssumption
  <2> QED
    BY <1>1, <1>6, <2>1 DEF InputsTypeOK
<1>10. DedupInv'
  BY <1>1, <1>4, <1>5, <1>6, <1>7, <1>8, ArgsKept DEF DedupInv
<1> QED
  BY <1>1, <1>9, <1>10 DEF InputsInv, ArgsInv

(* The head of what is left is the least path of its file: a lesser one    *)
(* would be left too, and the matches ascend, or its normal form be used.  *)
LEMMA TakeMatchInv == InputsInv /\ Inputs!TakeMatch => InputsInv'
<1> SUFFICES ASSUME InputsInv, Inputs!TakeMatch PROVE InputsInv'
  OBVIOUS
<1> DEFINE m == Head(matches)
<1>1. /\ stage = "dedup" /\ stage' = "dedup" /\ args' = args /\ arg' = arg
      /\ literals' = literals /\ matches # << >> /\ matches' = Tail(matches)
      /\ InputsTypeOK /\ DedupInv
  BY DEF InputsInv, Inputs!TakeMatch
<1>2. /\ matches \in Seq(Path) /\ Len(matches) \in Nat \ {0} /\ m = matches[1]
      /\ matches' \in Seq(Path) /\ Len(matches') = Len(matches) - 1
      /\ \A k \in 1 .. Len(matches') : matches'[k] = matches[k + 1]
  BY <1>1 DEF InputsTypeOK
<1>3. /\ m \in Path /\ m \in Inputs!Matched /\ Path \subseteq Nat /\ Norm[m] \in Path
      /\ Range(matches) = Range(matches') \cup {m}
  <2>1. Range(matches) = {matches[k] : k \in 1 .. Len(matches)}
    BY <1>2, RangeIndexed
  <2>2. Range(matches') = {matches'[k] : k \in 1 .. Len(matches')}
    BY <1>2, RangeIndexed
  <2>3. \A k \in 1 .. Len(matches) : k = 1 \/ (k - 1 \in 1 .. Len(matches') /\ k = (k - 1) + 1)
    BY <1>2
  <2>4. Range(matches) = Range(matches') \cup {m}
    <3>1. \A k \in 1 .. Len(matches) : matches[k] = m \/ matches[k] \in Range(matches')
      BY <1>2, <2>2, <2>3
    <3>2. \A k \in 1 .. Len(matches') : matches'[k] \in Range(matches)
      BY <1>2, <2>1
    <3> QED
      BY <1>2, <2>1, <2>2, <3>1, <3>2
  <2>5. m \in Path /\ Path \subseteq Nat /\ Norm[m] \in Path
    <3> HIDE DEF m
    <3>1. m \in Path
      <4>1. 1 \in 1 .. Len(matches)
        BY <1>2
      <4> QED
        BY <1>2, <4>1, ElementOfSeq
    <3> QED
      BY <3>1, ContentsAssumption
  <2>6. m \in Inputs!Matched
    BY <1>1, <2>4 DEF DedupInv
  <2> QED
    BY <2>4, <2>5, <2>6
<1>4. \A k \in 1 .. Len(matches) : m <= matches[k]
  <2>1. m \in Nat /\ 1 \in 1 .. Len(matches)
    <3> HIDE DEF m
    <3> QED
      BY <1>2, <1>3
  <2> SUFFICES ASSUME NEW k \in 1 .. Len(matches) PROVE m <= matches[k]
    OBVIOUS
  <2>2. k = 1 \/ 1 < k
    OBVIOUS
  <2>3. 1 < k => matches[1] <= matches[k]
    BY <1>1, <2>1 DEF DedupInv
  <2> HIDE DEF m
  <2> QED
    BY <1>2, <2>1, <2>2, <2>3
<1>5. \A k, l \in 1 .. Len(matches') : k < l => matches'[k] <= matches'[l]
  BY <1>1, <1>2 DEF DedupInv
<1>6. \A k \in 1 .. Len(matches') : m <= matches'[k] /\ \A p \in Taken : p <= matches'[k]
  BY <1>1, <1>2, <1>4 DEF DedupInv
<1>7. CASE Norm[m] \in used
  <2>1. used' = used /\ result' = result
    BY <1>7 DEF Inputs!TakeMatch
  <2>2. Taken' = Taken
    BY <1>1, <2>1, ArgsKept
  <2>3. \A p \in Inputs!Matched : p \in Range(matches') \/ Norm[p] \in used'
    BY <1>1, <1>3, <1>7, <2>1 DEF DedupInv
  <2>4. InputsTypeOK'
    BY <1>1, <1>2, <2>1 DEF InputsTypeOK
  <2>5. DedupInv'
    BY <1>1, <1>2, <1>3, <1>5, <1>6, <2>1, <2>2, <2>3, ArgsKept DEF DedupInv
  <2> QED
    BY <1>1, <2>4, <2>5 DEF InputsInv, ArgsInv
<1>8. CASE Norm[m] \notin used
  <2>1. used' = used \cup {Norm[m]} /\ result' = Append(result, m)
    BY <1>8 DEF Inputs!TakeMatch
  <2>2. \A p \in Inputs!Matched : Norm[p] = Norm[m] => m <= p
    <3> SUFFICES ASSUME NEW p \in Inputs!Matched, Norm[p] = Norm[m] PROVE m <= p
      OBVIOUS
    <3>1. p \in Range(matches)
      BY <1>1, <1>8 DEF DedupInv
    <3> QED
      BY <1>2, <1>4, <3>1, RangeIndexed
  <2>3. m \in Inputs!Added
    BY <1>1, <1>3, <1>8, <2>2 DEF DedupInv, Inputs!Added
  <2>4. \A p \in Inputs!Added : Norm[p] = Norm[m] => p = m
    <3> SUFFICES ASSUME NEW p \in Inputs!Added, Norm[p] = Norm[m] PROVE p = m
      OBVIOUS
    <3>1. p \in Inputs!Matched /\ p <= m /\ m <= p
      BY <1>3, <2>2 DEF Inputs!Added
    <3>2. p \in Nat /\ m \in Nat
      BY <1>1, <1>3, <3>1, Finite
    <3> QED
      BY <3>1, <3>2
  <2>5. Taken' = Taken \cup {m}
    <3>1. Taken' = {p \in Inputs!Added : Norm[p] \in used'}
      BY <1>1, ArgsKept DEF Taken
    <3>2. \A p \in Inputs!Added : Norm[p] \in used' <=> Norm[p] \in used \/ p = m
      BY <2>1, <2>4
    <3> QED
      BY <2>3, <3>1, <3>2 DEF Taken
  <2>6. \A p \in Taken : p < m
    <3>1. \A p \in Taken : p <= m /\ p # m /\ p \in Nat
      BY <1>1, <1>2, <1>8, Finite DEF DedupInv, Taken
    <3>2. m \in Nat
      BY <1>3
    <3> HIDE DEF m
    <3> QED
      BY <3>1, <3>2
  <2>7. result' = Inputs!AsGiven \o Inputs!Ascending(Taken \cup {m})
    <3>1. Inputs!Ascending(Taken \cup {m}) = Append(Inputs!Ascending(Taken), m)
      BY <1>1, <1>3, <2>6, Finite, AscendingAppend
    <3>2. Inputs!AsGiven \in Seq(Path) /\ Inputs!Ascending(Taken) \in Seq(Path)
      <4>1. Inputs!AsGiven \in Seq(Path)
        BY <1>1, AsGivenFacts DEF DedupInv
      <4>2. Inputs!Ascending(Taken) \in Seq(Taken) /\ Taken \subseteq Path
        BY <1>1, Finite, AscendingSeq
      <4> QED
        BY <4>1, <4>2, SeqMonotonic
    <3>3. result = Inputs!AsGiven \o Inputs!Ascending(Taken)
      BY <1>1 DEF DedupInv
    <3>4. \A a, b \in Seq(Path), x \in Path : Append(a \o b, x) = a \o Append(b, x)
      OBVIOUS
    <3>5. m \in Path
      BY <1>3
    <3> HIDE DEF m
    <3>6. Append(result, m) = Inputs!AsGiven \o Append(Inputs!Ascending(Taken), m)
      BY <3>2, <3>3, <3>4, <3>5
    <3> QED
      BY <2>1, <3>1, <3>6
  <2>8. used' = {Norm[p] : p \in Inputs!LiteralFiles} \cup {Norm[p] : p \in Taken'}
    <3>1. used = {Norm[p] : p \in Inputs!LiteralFiles} \cup {Norm[p] : p \in Taken}
      BY <1>1 DEF DedupInv
    <3> HIDE DEF m
    <3> QED
      BY <2>1, <2>5, <3>1
  <2>9. \A p \in Inputs!Matched : p \in Range(matches') \/ Norm[p] \in used'
    BY <1>1, <1>3, <2>1 DEF DedupInv
  <2>10. InputsTypeOK'
    <3>1. m \in Path /\ Norm[m] \in Path
      BY <1>3
    <3> HIDE DEF m
    <3> QED
      BY <1>1, <1>2, <2>1, <3>1 DEF InputsTypeOK
  <2>11. \A k \in 1 .. Len(matches') : \A p \in Taken' : p <= matches'[k]
    BY <1>6, <2>5
  <2>12. Range(matches') \subseteq Inputs!Matched
    BY <1>1, <1>3 DEF DedupInv
  <2> HIDE DEF m
  <2>13. DedupInv'
    BY <1>1, <1>5, <2>5, <2>7, <2>8, <2>9, <2>11, <2>12, ArgsKept DEF DedupInv
  <2> QED
    BY <1>1, <2>10, <2>13 DEF InputsInv, ArgsInv
<1> QED
  BY <1>7, <1>8

LEMMA EndDedupInv == InputsInv /\ Inputs!EndDedup => InputsInv'
<1> SUFFICES ASSUME InputsInv, Inputs!EndDedup PROVE InputsInv'
  OBVIOUS
<1>1. /\ stage = "dedup" /\ stage' = "done" /\ args' = args /\ arg' = arg
      /\ literals' = literals /\ matches = << >> /\ matches' = matches
      /\ used' = used /\ result' = result /\ InputsTypeOK /\ DedupInv
  BY DEF InputsInv, Inputs!EndDedup
<1>2. InputsTypeOK'
  BY <1>1 DEF InputsTypeOK
<1>3. Taken' = Taken
  BY <1>1, ArgsKept
<1>4. DedupInv'
  BY <1>1, <1>3, ArgsKept DEF DedupInv
<1> QED
  BY <1>1, <1>2, <1>4 DEF InputsInv, ArgsInv

LEMMA InputsStep ==
  ASSUME InputsInv, Inputs!Next
  PROVE  InputsInv'
BY RefuseArgInv, TakeLiteralInv, TakePatternInv, StartDedupInv, TakeMatchInv, EndDedupInv
   DEF Inputs!Next

LEMMA InputsKept ==
  ASSUME InputsInv, UNCHANGED inputVars
  PROVE  InputsInv'
<1>1. /\ args' = args /\ arg' = arg /\ literals' = literals /\ matches' = matches
      /\ used' = used /\ result' = result /\ stage' = stage
  BY DEF inputVars
<1>2. InputsTypeOK' /\ ArgsInv'
  BY <1>1, ArgsKept DEF InputsInv, InputsTypeOK, ArgsInv
<1>3. Taken' = Taken
  BY <1>1, ArgsKept
<1>4. DedupInv'
  BY <1>1, <1>3, ArgsKept DEF InputsInv, DedupInv
<1> QED
  BY <1>2, <1>4 DEF InputsInv

(* When no match is left every file to be added has been.                  *)
LEMMA InputsInvImplies == InputsInv => OrderReproducible
<1> SUFFICES ASSUME InputsInv, stage = "done" PROVE Inputs!OrderReproducible
  BY DEF OrderReproducible, Inputs!OrderReproducible
<1>1. InputsTypeOK /\ DedupInv /\ matches = << >>
  BY DEF InputsInv, DedupInv
<1>2. \A p \in Inputs!Added : Norm[p] \in used
  <2>1. Range(matches) = {}
    BY <1>1 DEF Range
  <2> QED
    BY <1>1, <2>1 DEF DedupInv, Inputs!Added
<1>3. Taken = Inputs!Added
  BY <1>2 DEF Taken
<1> QED
  BY <1>1, <1>3 DEF DedupInv, Inputs!OrderReproducible

(* The order in which the inputs are combined does not depend on the order *)
(* in which the file system lists the matches of a pattern: literals as    *)
(* given, then the least spelling of each matched file, ascending.         *)
THEOREM OrderIsReproducible == CompileSpec => []OrderReproducible
<1>1. CompileInit => InputsInv
  BY InputsInit DEF CompileInit
<1>2. InputsInv /\ [CompileNext]_compileVars => InputsInv'
  <2> SUFFICES ASSUME InputsInv, [CompileNext]_compileVars PROVE InputsInv'
    OBVIOUS
  <2>1. CASE InputStep
    BY <2>1, InputsStep DEF InputStep
  <2>2. CASE UNCHANGED inputVars
    BY <2>2, InputsKept
  <2>3. Open \/ TextStep \/ Diagnose \/ CompileFinished \/ UNCHANGED compileVars => UNCHANGED inputVars
    BY DEF Open, TextStep, Diagnose, CompileFinished, compileVars
  <2> QED
    BY <2>1, <2>2, <2>3 DEF CompileNext
<1> QED
  BY <1>1, <1>2, InputsInvImplies, PTL DEF CompileSpec

-----------------------------------------------------------------------------
(***************************************************************************)
(* combine_sources: the spans follow one another, and if no input is       *)
(* empty the span that holds a line of the text tells where it is from.    *)
(***************************************************************************)
End(i) == spans[i].start + spans[i].count

FromSpan(n) ==
  \E i \in 1 .. Len(spans) : /\ spans[i].start <= n /\ n < End(i)
                             /\ combined[n] = <<i, n - spans[i].start + 1>>

Place == Nat \X Nat
Span == [start : Nat \ {0}, count : Nat \ {0}]

TextTypeOK ==
  /\ files \in Seq(File)
  /\ file \in 1 .. Len(files) + 1
  /\ combined \in Seq(Place)
  /\ spans \in Seq(Span) /\ Len(spans) = file - 1
  /\ start \in Nat \ {0}
  /\ at \in 0 .. Len(combined) + 1 /\ number \in Nat \ {0}

NotStarted ==
  files = << >> => file = 1 /\ combined = << >> /\ start = 1 /\ at = 0

NoneEmpty == \A i \in DOMAIN files : files[i] # << >>

SpansInv ==
  /\ \A i \in 1 .. Len(spans) : /\ End(i) <= start
                                /\ \A j \in i + 1 .. Len(spans) : End(i) <= spans[j].start
  /\ NoneEmpty => /\ Len(combined) = start - 1
                  /\ \A n \in 1 .. Len(combined) : FromSpan(n)

(* strip_comments: the line being written never runs ahead of the line     *)
(* read; while they agree nothing was carried over a line break.           *)
StripInv ==
  /\ at = 0 => number = 1 /\ here = {} /\ records = {}
  /\ at > 0 => file > Len(files) /\ number <= at
  /\ number = at =>
       /\ here = {}
       /\ \A r \in records : r[1] \in 1 .. at - 1 /\ r[2] = {combined[r[1]]}

ReportInv ==
  /\ report.outcome # "none" => Text!Done
  /\ ExactLineByLine

TextInv == TextTypeOK /\ NotStarted /\ SpansInv /\ StripInv /\ ReportInv

Placing == content \in Contents /\ TextInv

-----------------------------------------------------------------------------
LEMMA TextInit == CompileInit => Placing
<1> SUFFICES ASSUME CompileInit PROVE Placing
  OBVIOUS
<1>1. TextTypeOK
  BY DEF CompileInit, Text!Init, TextTypeOK
<1>2. NotStarted /\ StripInv
  BY DEF CompileInit, Text!Init, NotStarted, StripInv
<1>3. SpansInv
  BY DEF CompileInit, Text!Init, SpansInv
<1>4. ReportInv
  BY DEF CompileInit, NoReport, ReportInv, ExactLineByLine
<1> QED
  BY <1>1, <1>2, <1>3, <1>4 DEF CompileInit, Placing, TextInv

(* One more file: its lines follow those that are there, its span the      *)
(* spans before it.                                                        *)
LEMMA AddFileInv ==
  ASSUME TextInv, Text!AddFile, files # << >>, report.outcome = "none", report' = report
  PROVE  TextInv'
<1> DEFINE lines == files[file]
           l == Len(lines)
           c == Len(combined)
           count == Text!AtLeastOne(l)
           added == [i \in DOMAIN lines |-> <<file, i>>]
           span == [start |-> start, count |-> count]
<1>1. /\ file \in 1 .. Len(files) /\ Len(files) \in Nat /\ file' = file + 1
      /\ combined' = combined \o added /\ spans' = Append(spans, span)
      /\ start' = start + count
      /\ files' = files /\ at' = at /\ number' = number /\ here' = here
      /\ records' = records /\ error' = error /\ depth' = depth /\ quoted' = quoted
      /\ TextTypeOK /\ SpansInv /\ StripInv
  BY DEF TextInv, TextTypeOK, Text!AddFile
<1>2. lines \in Seq(Line) /\ l \in Nat /\ DOMAIN lines = 1 .. l /\ c \in Nat
      /\ count \in Nat \ {0} /\ l <= count /\ (l # 0 => count = l)
  <2>1. lines \in Seq(Line)
    BY <1>1, ContentsAssumption DEF TextTypeOK
  <2>2. l \in Nat /\ DOMAIN lines = 1 .. l /\ c \in Nat
    BY <1>1, <2>1 DEF TextTypeOK
  <2>3. count \in Nat \ {0} /\ l <= count /\ (l # 0 => count = l)
    <3> HIDE DEF l
    <3> QED
      BY <2>2 DEF Text!AtLeastOne
  <2> QED
    BY <2>1, <2>2, <2>3
<1>3. added \in Seq(Place) /\ Len(added) = l /\ \A k \in 1 .. l : added[k] = <<file, k>>
  <2>1. added = [k \in 1 .. l |-> <<file, k>>]
    BY <1>2
  <2>2. \A k \in 1 .. l : <<file, k>> \in Place
    BY <1>1 DEF Place
  <2> HIDE DEF lines, l, added
  <2> QED
    BY <1>2, <2>1, <2>2
<1> HIDE DEF lines, l, count, added
<1>4. /\ combined' \in Seq(Place) /\ Len(combined') = c + l
      /\ \A n \in 1 .. c : combined'[n] = combined[n]
      /\ \A n \in c + 1 .. c + l : combined'[n] = <<file, n - c>>
  <2>1. combined \in Seq(Place)
    BY <1>1 DEF TextTypeOK
  <2>2. /\ combined \o added \in Seq(Place) /\ Len(combined \o added) = c + l
        /\ \A n \in 1 .. c : (combined \o added)[n] = combined[n]
        /\ \A n \in c + 1 .. c + l : (combined \o added)[n] = added[n - c]
    BY <1>3, <2>1, ConcatProperties
  <2>3. \A n \in c + 1 .. c + l : n - c \in 1 .. l
    BY <1>2
  <2> HIDE DEF c
  <2> QED
    BY <1>1, <1>3, <2>2, <2>3
<1>5. /\ spans' \in Seq(Span) /\ Len(spans') = file
      /\ Len(spans) = file - 1 /\ start \in Nat \ {0}
      /\ \A i \in 1 .. file - 1 : spans'[i] = spans[i]
      /\ \A i \in 1 .. file - 1 : spans[i] \in Span
      /\ spans'[file] = span /\ file \in Nat \ {0}
  <2>1. span \in Span /\ spans \in Seq(Span) /\ Len(spans) = file - 1
    BY <1>1, <1>2 DEF TextTypeOK, Span
  <2>2. start \in Nat \ {0} /\ file \in Nat \ {0}
    BY <1>1 DEF TextTypeOK
  <2> HIDE DEF span
  <2> QED
    BY <1>1, <2>1, <2>2
<1>6. at = 0
  BY <1>1 DEF StripInv, TextTypeOK
<1>7. TextTypeOK'
  BY <1>1, <1>2, <1>4, <1>5, <1>6 DEF TextTypeOK
<1>8. SpansInv'
  <2>1. ASSUME NEW i \in 1 .. file
        PROVE  /\ End(i)' <= start'
               /\ \A j \in i + 1 .. file : End(i)' <= spans'[j].start
    <3>1. CASE i = file
      BY <1>1, <1>2, <1>5, <3>1 DEF End
    <3>2. CASE i \in 1 .. file - 1
      <4>1. /\ End(i)' = End(i) /\ End(i) <= start /\ End(i) \in Nat
            /\ \A j \in i + 1 .. file - 1 : End(i) <= spans[j].start
        <5>1. spans[i] \in Span /\ spans'[i] = spans[i] /\ i \in 1 .. Len(spans)
          BY <1>5, <3>2
        <5>2. End(i)' = End(i) /\ End(i) \in Nat
          BY <5>1 DEF End, Span
        <5> QED
          BY <1>1, <1>5, <5>1, <5>2 DEF SpansInv
      <4>2. \A j \in i + 1 .. file : End(i)' <= spans'[j].start
        <5> SUFFICES ASSUME NEW j \in i + 1 .. file PROVE End(i)' <= spans'[j].start
          OBVIOUS
        <5>1. j = file \/ j \in i + 1 .. file - 1
          BY <1>1, <3>2
        <5>2. j = file => spans'[j].start = start
          BY <1>5
        <5>3. j \in i + 1 .. file - 1 => spans'[j] = spans[j]
          BY <1>5, <3>2
        <5> QED
          BY <4>1, <5>1, <5>2, <5>3
      <4>3. End(i)' <= start'
        BY <1>1, <1>2, <1>5, <4>1
      <4> QED
        BY <4>2, <4>3
    <3>3. i = file \/ i \in 1 .. file - 1
      BY <1>5
    <3> QED
      BY <3>1, <3>2, <3>3
  <2>2. ASSUME NoneEmpty'
        PROVE  /\ Len(combined') = start' - 1
               /\ \A n \in 1 .. Len(combined') : FromSpan(n)'
    <3>1. NoneEmpty /\ l # 0
      BY <1>1, <1>2, <2>2 DEF NoneEmpty, l, lines
    <3>2. c = start - 1 /\ \A n \in 1 .. c : FromSpan(n)
      BY <1>1, <3>1 DEF SpansInv
    <3>3. Len(combined') = start' - 1
      BY <1>1, <1>2, <1>4, <1>5, <3>1, <3>2
    <3>4. ASSUME NEW n \in 1 .. c PROVE FromSpan(n)'
      <4>1. PICK i \in 1 .. file - 1 : /\ spans[i].start <= n /\ n < End(i)
                                      /\ combined[n] = <<i, n - spans[i].start + 1>>
        BY <1>5, <3>2, <3>4 DEF FromSpan
      <4>2. /\ i \in 1 .. Len(spans') /\ spans'[i] = spans[i] /\ End(i)' = End(i)
            /\ combined'[n] = combined[n]
        BY <1>4, <1>5, <3>4 DEF End
      <4> QED
        BY <4>1, <4>2 DEF FromSpan
    <3>5. ASSUME NEW n \in c + 1 .. c + l PROVE FromSpan(n)'
      <4>1. c + 1 = start /\ count = l /\ start \in Nat
        BY <1>2, <1>5, <3>1, <3>2
      <4>2. /\ file \in 1 .. Len(spans')
            /\ spans'[file].start = c + 1 /\ spans'[file].count = l
        BY <1>5, <4>1
      <4>3. combined'[n] = <<file, n - c>> /\ n - (c + 1) + 1 = n - c
        BY <1>2, <1>4, <3>5
      <4>4. c + 1 <= n /\ n < c + 1 + l
        BY <1>2, <3>5
      <4>5. PICK i \in 1 .. Len(spans') : i = file
        BY <4>2
      <4>6. /\ spans'[i].start <= n /\ n < End(i)'
            /\ combined'[n] = <<i, n - spans'[i].start + 1>>
        BY <4>2, <4>3, <4>4, <4>5 DEF End
      <4> QED
        BY <4>6 DEF FromSpan
    <3>6. \A n \in 1 .. c + l : n \in 1 .. c \/ n \in c + 1 .. c + l
      BY <1>2
    <3> QED
      BY <1>4, <3>3, <3>4, <3>5, <3>6
  <2> QED
    BY <1>5, <2>1, <2>2 DEF SpansInv
<1>9. StripInv'
  BY <1>1, <1>6 DEF StripInv
<1>10. ReportInv'
  BY DEF ReportInv, ExactLineByLine
<1> QED
  BY <1>1, <1>7, <1>8, <1>9, <1>10 DEF TextInv, NotStarted

LEMMA SpansKept ==
  ASSUME SpansInv, files' = files, spans' = spans, start' = start, combined' = combined
  PROVE  SpansInv'
BY DEF SpansInv, NoneEmpty, FromSpan, End

LEMMA StartStripInv ==
  ASSUME TextInv, Text!StartStrip, files # << >>, report.outcome = "none", report' = report
  PROVE  TextInv'
<1>1. /\ files' = files /\ file' = file /\ combined' = combined /\ spans' = spans
      /\ start' = start /\ at = 0 /\ at' = 1 /\ number' = number /\ here' = here
      /\ records' = records /\ file > Len(files)
      /\ TextTypeOK /\ SpansInv /\ StripInv
  BY DEF TextInv, Text!StartStrip
<1>2. TextTypeOK'
  BY <1>1 DEF TextTypeOK
<1>3. SpansInv'
  BY <1>1, SpansKept
<1>4. StripInv'
  BY <1>1 DEF StripInv
<1>5. ReportInv'
  BY DEF ReportInv, ExactLineByLine
<1> QED
  BY <1>1, <1>2, <1>3, <1>4, <1>5 DEF TextInv, NotStarted

(* A line that ends outside a comment flushes the line being written; if   *)
(* the numbers agreed, it held text of that line alone.                    *)
LEMMA StripLineInv ==
  ASSUME TextInv, Text!StripLine, files # << >>, report.outcome = "none", report' = report
  PROVE  TextInv'
<1>1. /\ files' = files /\ file' = file /\ combined' = combined /\ spans' = spans
      /\ start' = start /\ at > 0 /\ at <= Len(combined) /\ at' = at + 1
      /\ TextTypeOK /\ SpansInv /\ StripInv
  BY DEF TextInv, Text!StripLine, Text!Scanning
<1>2. at \in Nat \ {0} /\ number \in Nat \ {0} /\ Len(combined) \in Nat /\ number <= at
  BY <1>1 DEF TextTypeOK, StripInv
<1>3. number' = number \/ number' = number + 1
  BY DEF Text!StripLine
<1>4. TextTypeOK'
  BY <1>1, <1>2, <1>3 DEF TextTypeOK
<1>5. SpansInv'
  BY <1>1, SpansKept
<1>6. StripInv'
  <2>1. at' > 0 /\ at' # 0 /\ number' <= at' /\ file' > Len(files')
    BY <1>1, <1>2, <1>3 DEF StripInv
  <2>2. ASSUME number' = at'
        PROVE  /\ here' = {}
               /\ \A r \in records' : r[1] \in 1 .. at' - 1 /\ r[2] = {combined'[r[1]]}
    <3>1. number = at /\ number' = number + 1
      BY <1>1, <1>2, <1>3, <2>2
    <3>2. here' = {} /\ records' = Text!Flushed
      BY <1>2, <3>1 DEF Text!StripLine
    <3>3. /\ here = {}
          /\ \A r \in records : r[1] \in 1 .. at - 1 /\ r[2] = {combined[r[1]]}
      BY <1>1, <3>1 DEF StripInv
    <3>4. Text!Kept = {} \/ Text!Kept = {combined[at]}
      BY <3>3 DEF Text!Kept
    <3>5. \A r \in Text!Flushed : r \in records \/ r = <<at, {combined[at]}>>
      BY <3>1, <3>4 DEF Text!Flushed
    <3> QED
      BY <1>1, <1>2, <3>2, <3>3, <3>5
  <2> QED
    BY <2>1, <2>2 DEF StripInv
<1>7. ReportInv'
  BY DEF ReportInv, ExactLineByLine
<1> QED
  BY <1>1, <1>4, <1>5, <1>6, <1>7 DEF TextInv, NotStarted

LEMMA EndStripInv ==
  ASSUME TextInv, Text!EndStrip, files # << >>, report.outcome = "none", report' = report
  PROVE  TextInv'
<1>1. /\ files' = files /\ file' = file /\ combined' = combined /\ spans' = spans
      /\ start' = start /\ at' = at /\ number' = number /\ here' = here /\ records' = {}
      /\ TextTypeOK /\ SpansInv /\ StripInv
  BY DEF TextInv, Text!EndStrip
<1>2. TextTypeOK'
  BY <1>1 DEF TextTypeOK
<1>3. SpansInv'
  BY <1>1, SpansKept
<1>4. StripInv'
  BY <1>1 DEF StripInv
<1>5. ReportInv'
  BY DEF ReportInv, ExactLineByLine
<1> QED
  BY <1>1, <1>2, <1>3, <1>4, <1>5 DEF TextInv, NotStarted

LEMMA OpenInv ==
  ASSUME Placing, InputsInv, Open
  PROVE  Placing'
<1>1. /\ files = << >> /\ files' = [i \in DOMAIN result |-> content[result[i]]]
      /\ content' = content /\ file' = file /\ combined' = combined /\ spans' = spans
      /\ start' = start /\ at' = at /\ depth' = depth /\ quoted' = quoted
      /\ number' = number /\ here' = here /\ records' = records /\ error' = error
      /\ report' = report /\ TextTypeOK /\ content \in Contents /\ StripInv /\ ReportInv
  BY DEF Open, Placing, TextInv
<1>2. file = 1 /\ combined = << >> /\ start = 1 /\ at = 0 /\ Len(spans) = 0
  BY <1>1 DEF Placing, TextInv, NotStarted, TextTypeOK
<1>3. files' \in Seq(File)
  <2>1. result \in Seq(Path) /\ content \in [Path -> File]
    BY <1>1, ContentsAssumption DEF InputsInv, InputsTypeOK
  <2> QED
    BY <1>1, <2>1
<1>4. TextTypeOK'
  BY <1>1, <1>2, <1>3 DEF TextTypeOK
<1>5. SpansInv'
  BY <1>1, <1>2 DEF SpansInv
<1>6. StripInv' /\ NotStarted'
  BY <1>1, <1>2 DEF StripInv, NotStarted
<1>7. report.outcome = "none"
  BY <1>1, <1>2 DEF ReportInv, Text!Done
<1>8. ReportInv'
  BY <1>1, <1>7 DEF ReportInv, ExactLineByLine
<1> QED
  BY <1>1, <1>4, <1>5, <1>6, <1>8 DEF Placing, TextInv

(* The spans are disjoint: the first that holds a line is the one it is    *)
(* from.                                                                   *)
LEMMA RemapIs ==
  ASSUME TextTypeOK, SpansInv, NoneEmpty, NEW n \in 1 .. Len(combined)
  PROVE  Text!SpansOf(n) # {} /\ Text!Remap(n) = combined[n]
<1>1. PICK i \in 1 .. Len(spans) : /\ spans[i].start <= n /\ n < End(i)
                                  /\ combined[n] = <<i, n - spans[i].start + 1>>
  BY DEF SpansInv, FromSpan
<1>2. /\ Len(spans) \in Nat /\ n \in Nat
      /\ \A j \in 1 .. Len(spans) : spans[j] \in Span
      /\ DOMAIN spans = 1 .. Len(spans)
  BY DEF TextTypeOK
<1>3. \A j \in 1 .. Len(spans) : spans[j].start <= n /\ n < End(j) => j = i
  <2> SUFFICES ASSUME NEW j \in 1 .. Len(spans), spans[j].start <= n, n < End(j), j # i
               PROVE  FALSE
    OBVIOUS
  <2>1. j \in i + 1 .. Len(spans) \/ i \in j + 1 .. Len(spans)
    BY <1>2
  <2>2. spans[i].start \in Nat /\ spans[j].start \in Nat /\ End(i) \in Nat /\ End(j) \in Nat
    BY <1>2 DEF End, Span
  <2>3. CASE j \in i + 1 .. Len(spans)
    BY <1>1, <1>2, <2>2, <2>3 DEF SpansInv
  <2>4. CASE i \in j + 1 .. Len(spans)
    BY <1>1, <1>2, <2>2, <2>4 DEF SpansInv
  <2> QED
    BY <2>1, <2>3, <2>4
<1>4. Text!SpansOf(n) = {i}
  <2>1. Text!SpansOf(n) = {j \in 1 .. Len(spans) : spans[j].start <= n /\ n < End(j)}
    BY <1>2 DEF Text!SpansOf, End
  <2> QED
    BY <1>1, <1>3, <2>1
<1>5. i <= i
  BY <1>2
<1>6. (CHOOSE k \in Text!SpansOf(n) : \A j \in Text!SpansOf(n) : k <= j) = i
  BY <1>4, <1>5
<1> QED
  BY <1>1, <1>4, <1>6 DEF Text!Remap

LEMMA DiagnoseInv ==
  ASSUME Placing, Diagnose
  PROVE  Placing'
<1>1. /\ content' = content /\ UNCHANGED textVars /\ Text!Done
      /\ TextTypeOK /\ NotStarted /\ SpansInv /\ StripInv /\ content \in Contents
  BY DEF Diagnose, Placing, TextInv
<1>2. /\ files' = files /\ file' = file /\ combined' = combined /\ spans' = spans
      /\ start' = start /\ at' = at /\ depth' = depth /\ quoted' = quoted
      /\ number' = number /\ here' = here /\ records' = records /\ error' = error
  BY <1>1 DEF textVars
<1>3. TextTypeOK' /\ NotStarted' /\ StripInv'
  BY <1>1, <1>2 DEF TextTypeOK, NotStarted, StripInv
<1>4. SpansInv'
  BY <1>1, <1>2, SpansKept
<1>5. Text!Done'
  BY <1>1, <1>2 DEF Text!Done
<1>6. ASSUME report'.outcome = "reported", error = 0, LineByLine
      PROVE  \E r \in records : r[1] = report'.line /\ report'.at \in r[2]
  <2>1. PICK line \in Text!DiagnosticLines \cup {NoLine} :
          report' = IF line = NoLine \/ Text!SpansOf(line) = {}
                    THEN NoReport("failed") ELSE Reported(line, Text!Remap(line))
    BY <1>6 DEF Diagnose
  <2>2. report' = Reported(line, Text!Remap(line)) /\ line # NoLine
    BY <1>6, <2>1 DEF NoReport
  <2>3. PICK r \in records : r[1] = line
    BY <1>6, <2>1, <2>2 DEF Text!DiagnosticLines
  <2>4. r[1] \in 1 .. at - 1 /\ r[2] = {combined[r[1]]}
    BY <1>1, <1>6 DEF StripInv, LineByLine
  <2>5. line \in 1 .. Len(combined)
    BY <1>1, <2>3, <2>4 DEF TextTypeOK
  <2>6. Text!Remap(line) = combined[line]
    BY <1>1, <1>6, <2>5, RemapIs DEF LineByLine, NoneEmpty
  <2> QED
    BY <2>2, <2>3, <2>4, <2>6 DEF Reported
<1>7. ReportInv'
  BY <1>2, <1>5, <1>6 DEF ReportInv, ExactLineByLine, LineByLine
<1> QED
  BY <1>1, <1>3, <1>4, <1>7 DEF Placing, TextInv

LEMMA ReadTextKept ==
  ASSUME Placing, UNCHANGED <<content, textVars, report>>
  PROVE  Placing'
<1>1. /\ files' = files /\ file' = file /\ combined' = combined /\ spans' = spans
      /\ start' = start /\ at' = at /\ depth' = depth /\ quoted' = quoted
      /\ number' = number /\ here' = here /\ records' = records /\ error' = error
      /\ content' = content /\ report' = report
  BY DEF textVars
<1>2. TextTypeOK' /\ NotStarted' /\ StripInv'
  BY <1>1 DEF Placing, TextInv, TextTypeOK, NotStarted, StripInv
<1>3. SpansInv'
  BY <1>1, SpansKept DEF Placing, TextInv
<1>4. ReportInv'
  BY <1>1 DEF Placing, TextInv, ReportInv, ExactLineByLine, LineByLine, Text!Done
<1> QED
  BY <1>1, <1>2, <1>3, <1>4 DEF Placing, TextInv

(* Where no file is empty and no comment spans a line break, a diagnostic  *)
(* is reported at the file and the line of the statement it is about.      *)
THEOREM LinesAreExact == CompileSpec => []ExactLineByLine
<1>1. CompileInit => InputsInv /\ Placing
  BY InputsInit, TextInit DEF CompileInit
<1>2. InputsInv /\ Placing /\ [CompileNext]_compileVars => (InputsInv /\ Placing)'
  <2> SUFFICES ASSUME InputsInv, Placing, [CompileNext]_compileVars PROVE InputsInv' /\ Placing'
    OBVIOUS
  <2>1. CASE InputStep
    BY <2>1, InputsStep, ReadTextKept DEF InputStep
  <2>2. CASE Open
    BY <2>2, InputsKept, OpenInv DEF Open
  <2>3. CASE TextStep
    <3>1. /\ files # << >> /\ ~Text!Done /\ Text!Next /\ report' = report
          /\ content' = content /\ UNCHANGED inputVars
      BY <2>3 DEF TextStep
    <3>2. TextInv /\ report.outcome = "none" /\ content \in Contents
      BY <3>1 DEF Placing, TextInv, ReportInv
    <3>3. TextInv'
      BY <3>1, <3>2, AddFileInv, StartStripInv, StripLineInv, EndStripInv DEF Text!Next
    <3> QED
      BY <3>1, <3>2, <3>3, InputsKept DEF Placing
  <2>4. CASE Diagnose
    BY <2>4, InputsKept, DiagnoseInv DEF Diagnose
  <2>5. CASE CompileFinished \/ UNCHANGED compileVars
    <3>1. UNCHANGED <<content, textVars, report>> /\ UNCHANGED inputVars
      BY <2>5 DEF CompileFinished, compileVars
    <3> QED
      BY <3>1, InputsKept, ReadTextKept
  <2> QED
    BY <2>1, <2>2, <2>3, <2>4, <2>5 DEF CompileNext
<1>3. Placing => ExactLineByLine
  BY DEF Placing, TextInv, ReportInv
<1> QED
  BY <1>1, <1>2, <1>3, PTL DEF CompileSpec
=============================================================================
