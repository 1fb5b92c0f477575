------------------------ MODULE CycleDetect_proofs ------------------------
(***************************************************************************)
(* Proofs about the cycle detection of CycleDetect, for every list of      *)
(* declared instances and every dependency graph over them.                *)
(***************************************************************************)
EXTENDS CycleDetect, SeqLemmas, TLAPS

-----------------------------------------------------------------------------
(* The inductive invariant, in named parts.                                *)

(* The gray nodes are those of the path, each on it once, and the path is  *)
(* a path of the graph.                                                    *)
OnPath(n) == \E k \in 1 .. Len(path) : path[k] = n
GrayOnPath == \A n \in Instance : color[n] = "gray" => OnPath(n)
PathGray == \A k \in 1 .. Len(path) : color[path[k]] = "gray"
PathDistinct ==
  \A j, k \in 1 .. Len(path) : path[j] = path[k] => j = k
PathEdges ==
  \A k \in 1 .. Len(path) - 1 : path[k + 1] \in graph[path[k]]

PendingDeps == \A n \in Instance : pending[n] \subseteq graph[n]

(* A neighbour that a frame has visited is black, or the frame's node is   *)
(* reported, or the neighbour is the next frame.                           *)
VisitedDeps ==
  \A k \in 1 .. Len(path) :
    \A d \in (graph[path[k]] \ pending[path[k]]) \cap Instance :
      \/ color[d] = "black"
      \/ path[k] \in Reported
      \/ k < Len(path) /\ path[k + 1] = d

(* A black node that is not reported depends on black nodes only.          *)
BlackDeps ==
  \A n \in Instance : color[n] = "black" =>
    n \in Reported \/ \A d \in graph[n] \cap Instance : color[d] = "black"

Clean == {n \in Instance : color[n] = "black"} \ Reported

(* The instances the outer loop has passed are not white.                  *)
RootsReached == \A i \in 1 .. next - 1 : color[DeclOrder[i]] # "white"

IInv ==
  /\ TypeOK
  /\ GrayOnPath
  /\ PathGray
  /\ PathDistinct
  /\ PathEdges
  /\ PendingDeps
  /\ VisitedDeps
  /\ BlackDeps
  /\ AcyclicOn(Clean)
  /\ RootsReached
  /\ ReportedOnCycle
  /\ WholeCycleReported

-----------------------------------------------------------------------------
(* Type correctness.                                                       *)

LEMMA InstanceIndexed ==
  /\ Instance \subseteq Name
  /\ \A i \in 1 .. Len(DeclOrder) : DeclOrder[i] \in Instance
  /\ \A n \in Instance : \E i \in 1 .. Len(DeclOrder) : DeclOrder[i] = n
  /\ Len(DeclOrder) \in Nat
BY DeclOrderAssumption DEF Instance, Range

LEMMA TopInstance ==
  ASSUME TypeOK, path # << >>
  PROVE  Len(path) \in Nat \ {0} /\ Top \in Instance
BY DEF TypeOK, Top

(* A path closed by an edge from its top is a sequence of instances that   *)
(* begins and ends with m and whose other members are the path's from m on. *)
LEMMA ClosedByFacts ==
  ASSUME TypeOK, path # << >>, NEW m, OnPath(m)
  PROVE  \E i \in 1 .. Len(path) :
           /\ path[i] = m
           /\ ClosedBy(m) \in Seq(Instance)
           /\ Len(ClosedBy(m)) = Len(path) - i + 2
           /\ \A k \in 1 .. Len(path) - i + 1 : ClosedBy(m)[k] = path[i + k - 1]
           /\ ClosedBy(m)[Len(path) - i + 2] = m
<1> DEFINE i == CHOOSE k \in 1 .. Len(path) : path[k] = m
<1>1. path \in Seq(Instance) /\ Len(path) \in Nat
  BY DEF TypeOK
<1>2. \E k \in 1 .. Len(path) : path[k] = m
  BY DEF OnPath
<1>3. i \in 1 .. Len(path) /\ path[i] = m
  BY <1>2
<1> HIDE DEF i
<1> DEFINE tail == SubSeq(path, i, Len(path))
<1>4. /\ tail \in Seq(Instance)
      /\ Len(tail) = Len(path) - i + 1
      /\ \A k \in 1 .. Len(path) - i + 1 : tail[k] = path[i + k - 1]
  BY <1>1, <1>3
<1>5. m \in Instance
  BY <1>1, <1>3
<1>6. ClosedBy(m) = Append(tail, m)
  BY DEF ClosedBy, i
<1> HIDE DEF tail
<1>7. /\ Append(tail, m) \in Seq(Instance)
      /\ Len(Append(tail, m)) = Len(path) - i + 2
      /\ \A k \in 1 .. Len(path) - i + 1 : Append(tail, m)[k] = tail[k]
      /\ Append(tail, m)[Len(path) - i + 2] = m
  <2>1. /\ Append(tail, m) \in Seq(Instance)
        /\ Len(Append(tail, m)) = Len(tail) + 1
        /\ \A k \in 1 .. Len(tail) : Append(tail, m)[k] = tail[k]
        /\ Append(tail, m)[Len(tail) + 1] = m
    BY <1>4, <1>5
  <2>2. i \in Nat /\ Len(tail) + 1 = Len(path) - i + 2
    BY <1>1, <1>3, <1>4
  <2> QED
    BY <2>1, <2>2, <1>4
<1> QED
  BY <1>3, <1>4, <1>6, <1>7

LEMMA RecordCycleType ==
  ASSUME TypeOK, path # << >>, NEW m, OnPath(m)
  PROVE  RecordCycle(ClosedBy(m)) \in [Instance -> Seq(Instance)]
BY ClosedByFacts DEF TypeOK, RecordCycle

(* The disjuncts of Next, and of Visit for the neighbour visited.          *)
LEMMA StepCases ==
  ASSUME [Next]_vars
  PROVE  \/ StartRoot \/ SkipRoot \/ Leave \/ UNCHANGED vars
         \/ /\ path # << >>
            /\ \E m \in pending[Top] : VisitDone(m) \/ VisitGray(m) \/ VisitWhite(m)
BY DEF Next, Visit, Finished

LEMMA PushFacts ==
  ASSUME TypeOK, NEW n \in Instance, Push(n)
  PROVE  /\ path' \in Seq(Instance)
         /\ Len(path') = Len(path) + 1
         /\ path'[Len(path) + 1] = n
         /\ \A k \in 1 .. Len(path) : path'[k] = path[k]
         /\ color' \in [Instance -> {"white", "gray", "black"}]
         /\ color'[n] = "gray"
         /\ \A d \in Instance \ {n} : color'[d] = color[d]
BY DEF Push, TypeOK

LEMMA PushOnPath ==
  ASSUME TypeOK, NEW n \in Instance, Push(n), NEW d, OnPath(d) \/ d = n
  PROVE  OnPath(d)'
<1>1. Len(path) \in Nat /\ Len(path') = Len(path) + 1
  BY PushFacts DEF TypeOK
<1>2. CASE d = n
  BY <1>1, <1>2, PushFacts DEF OnPath
<1>3. CASE OnPath(d)
  <2>1. PICK k \in 1 .. Len(path) : path[k] = d
    BY <1>3 DEF OnPath
  <2>2. k \in 1 .. Len(path') /\ path'[k] = d
    BY <2>1, <1>1, PushFacts
  <2> QED
    BY <2>2 DEF OnPath
<1> QED
  BY <1>2, <1>3

LEMMA LeaveFacts ==
  ASSUME TypeOK, Leave
  PROVE  /\ path' \in Seq(Instance)
         /\ Len(path') = Len(path) - 1
         /\ \A k \in 1 .. Len(path) - 1 : path'[k] = path[k]
         /\ color' \in [Instance -> {"white", "gray", "black"}]
         /\ color'[Top] = "black"
         /\ \A d \in Instance \ {Top} : color'[d] = color[d]
<1>1. path # << >> /\ Len(path) \in Nat \ {0} /\ Top \in Instance
  BY TopInstance DEF Leave
<1>2. /\ path' \in Seq(Instance)
      /\ Len(path') = Len(path) - 1
      /\ \A k \in 1 .. Len(path) - 1 : path'[k] = path[k]
  <2>1. path' = SubSeq(path, 1, Len(path) - 1) /\ path \in Seq(Instance)
    BY DEF Leave, TypeOK
  <2> QED
    BY <1>1, <2>1, FrontFacts
<1>3. /\ color' \in [Instance -> {"white", "gray", "black"}]
      /\ color'[Top] = "black"
      /\ \A d \in Instance \ {Top} : color'[d] = color[d]
  BY <1>1 DEF Leave, TypeOK
<1> QED
  BY <1>2, <1>3

LEMMA LeaveOnPath ==
  ASSUME TypeOK, Leave, NEW d, OnPath(d), d # Top
  PROVE  OnPath(d)'
<1>1. Len(path) \in Nat \ {0} /\ Len(path') = Len(path) - 1
  BY LeaveFacts, TopInstance DEF Leave
<1>2. PICK k \in 1 .. Len(path) : path[k] = d
  BY DEF OnPath
<1>3. k \in 1 .. Len(path') /\ path'[k] = d
  BY <1>1, <1>2, LeaveFacts DEF Top
<1> QED
  BY <1>3 DEF OnPath

LEMMA TypeStep ==
  ASSUME TypeOK, GrayOnPath, [Next]_vars
  PROVE  TypeOK' /\ GrayOnPath'
<1> USE InstanceIndexed
<1>1. CASE StartRoot
  <2>1. DeclOrder[next] \in Instance /\ Push(DeclOrder[next])
    BY <1>1 DEF StartRoot, TypeOK
  <2>2. TypeOK'
    BY <1>1, <2>1, PushFacts DEF StartRoot, TypeOK
  <2>3. GrayOnPath'
    BY <2>1, PushFacts, PushOnPath DEF GrayOnPath
  <2> QED
    BY <2>2, <2>3
<1>2. CASE SkipRoot
  BY <1>2 DEF SkipRoot, TypeOK, GrayOnPath, OnPath
<1>3. CASE Leave
  <2>1. path # << >> /\ Len(path) \in Nat \ {0} /\ Top \in Instance
    BY <1>3, TopInstance DEF Leave
  <2>2. TypeOK'
    BY <1>3, LeaveFacts DEF Leave, TypeOK
  <2>3. GrayOnPath'
    BY <1>3, <2>1, LeaveFacts, LeaveOnPath DEF GrayOnPath
  <2> QED
    BY <2>2, <2>3
<1>4. ASSUME path # << >>, NEW m \in pending[Top], VisitDone(m)
      PROVE  TypeOK' /\ GrayOnPath'
  BY <1>4, TopInstance DEF VisitDone, TypeOK, GrayOnPath, OnPath
<1>5. ASSUME path # << >>, NEW m \in pending[Top], VisitGray(m)
      PROVE  TypeOK' /\ GrayOnPath'
  <2>1. OnPath(m)
    BY <1>5 DEF VisitGray, GrayOnPath
  <2> QED
    BY <1>5, <2>1, TopInstance, RecordCycleType DEF VisitGray, TypeOK, GrayOnPath, OnPath
<1>6. ASSUME path # << >>, NEW m \in pending[Top], VisitWhite(m)
      PROVE  TypeOK' /\ GrayOnPath'
  <2>1. m \in Instance /\ Push(m)
    BY <1>6 DEF VisitWhite
  <2>2. TypeOK'
    BY <1>6, <2>1, PushFacts, TopInstance DEF VisitWhite, TypeOK
  <2>3. GrayOnPath'
    BY <2>1, PushFacts, PushOnPath DEF GrayOnPath
  <2> QED
    BY <2>2, <2>3
<1>7. CASE UNCHANGED vars
  BY <1>7 DEF vars, TypeOK, GrayOnPath, OnPath
<1> QED
  BY <1>1, <1>2, <1>3, <1>4, <1>5, <1>6, <1>7, StepCases

(* Every variable keeps its type: in particular a report is always a       *)
(* sequence of declared instances, whatever undeclared names a source      *)
(* file copies from.                                                       *)
THEOREM TypeCorrect == Spec => []TypeOK
<1>1. Init => TypeOK /\ GrayOnPath
  BY InstanceIndexed DEF Init, TypeOK, GrayOnPath
<1>2. TypeOK /\ GrayOnPath /\ [Next]_vars => (TypeOK /\ GrayOnPath)'
  BY TypeStep
<1> QED
  BY <1>1, <1>2, PTL DEF Spec

-----------------------------------------------------------------------------
(* What recording a cycle does to the reports.                             *)
LEMMA RecordFacts ==
  ASSUME TypeOK, path # << >>, NEW m, OnPath(m),
         errors' = RecordCycle(ClosedBy(m))
  PROVE  /\ Reported \subseteq Reported'
         /\ \A n \in Reported : errors'[n] = errors[n]
         /\ Range(ClosedBy(m)) \subseteq Reported'
         /\ \A n \in Reported' \ Reported :
              n \in Range(ClosedBy(m)) /\ errors'[n] = ClosedBy(m)
         /\ Top \in Range(ClosedBy(m))
<1> DEFINE cycle == ClosedBy(m)
<1>1. PICK i \in 1 .. Len(path) :
        /\ path[i] = m
        /\ cycle \in Seq(Instance)
        /\ Len(cycle) = Len(path) - i + 2
        /\ \A k \in 1 .. Len(path) - i + 1 : cycle[k] = path[i + k - 1]
        /\ cycle[Len(path) - i + 2] = m
  BY ClosedByFacts
<1>2. Len(path) \in Nat \ {0} /\ Top \in Instance
  BY TopInstance
<1>3. Top \in Range(cycle)
  <2>1. Len(path) - i + 1 \in 1 .. Len(cycle) /\ i + (Len(path) - i + 1) - 1 = Len(path)
    BY <1>1, <1>2
  <2>2. cycle[Len(path) - i + 1] = Top
    BY <1>1, <1>2, <2>1 DEF Top
  <2> QED
    BY <1>1, <2>1, <2>2 DEF Range
<1>4. Range(cycle) \subseteq Instance /\ cycle # << >>
  BY <1>1, <1>2 DEF Range
<1> HIDE DEF cycle
<1>5. errors' = [n \in Instance |->
                   IF n \in Range(cycle) /\ errors[n] = << >> THEN cycle ELSE errors[n]]
  BY DEF RecordCycle, cycle
<1>6. /\ Reported \subseteq Reported'
      /\ \A n \in Reported : errors'[n] = errors[n]
      /\ Range(cycle) \subseteq Reported'
      /\ \A n \in Reported' \ Reported : n \in Range(cycle) /\ errors'[n] = cycle
  BY <1>4, <1>5 DEF Reported
<1> QED
  BY <1>3, <1>6 DEF cycle

(* No step takes a report back or changes it.                              *)
LEMMA ReportsStay ==
  ASSUME TypeOK, GrayOnPath, [Next]_vars
  PROVE  Reported \subseteq Reported' /\ \A n \in Reported : errors'[n] = errors[n]
<1>1. ASSUME path # << >>, NEW m \in pending[Top], VisitGray(m)
      PROVE  Reported \subseteq Reported' /\ \A n \in Reported : errors'[n] = errors[n]
  BY <1>1, RecordFacts DEF VisitGray, GrayOnPath
<1>2. errors' = errors =>
        Reported \subseteq Reported' /\ \A n \in Reported : errors'[n] = errors[n]
  BY DEF Reported
<1> QED
  BY <1>1, <1>2, StepCases
     DEF StartRoot, SkipRoot, Leave, VisitDone, VisitWhite, vars

(* "First cycle found involving this instance wins": a report, once made,  *)
(* stays as it is.                                                         *)
THEOREM FirstReportStays == Spec => FirstReportWins
<1>1. Init => TypeOK /\ GrayOnPath
  BY InstanceIndexed DEF Init, TypeOK, GrayOnPath
<1>2. TypeOK /\ GrayOnPath /\ [Next]_vars => (TypeOK /\ GrayOnPath)'
  BY TypeStep
<1>3. TypeOK /\ GrayOnPath /\ [Next]_vars =>
        [\A n \in Reported : errors'[n] = errors[n]]_vars
  BY ReportsStay
<1> QED
  BY <1>1, <1>2, <1>3, PTL DEF Spec, FirstReportWins

-----------------------------------------------------------------------------
(* The path and the frames on it.                                          *)

(* The pending sets of a node that is not on the path do not change, and   *)
(* a step changes that of the top, or of a node it pushes, only.           *)
LEMMA PathStep ==
  ASSUME TypeOK, GrayOnPath, PathGray, PathDistinct, PathEdges, PendingDeps,
         [Next]_vars
  PROVE  PathGray' /\ PathDistinct' /\ PathEdges' /\ PendingDeps'
<1>0. Len(path) \in Nat /\ \A k \in 1 .. Len(path) : path[k] \in Instance
  BY DEF TypeOK
<1>1. CASE StartRoot
  <2>1. DeclOrder[next] \in Instance /\ Push(DeclOrder[next]) /\ Len(path) = 0
    BY <1>1, InstanceIndexed DEF StartRoot, TypeOK
  <2>2. PathGray' /\ PathDistinct' /\ PathEdges'
    BY <2>1, PushFacts DEF PathGray, PathDistinct, PathEdges
  <2>3. PendingDeps'
    BY <1>1, <2>1 DEF StartRoot, PendingDeps, TypeOK
  <2> QED
    BY <2>2, <2>3
<1>2. CASE SkipRoot
  BY <1>2 DEF SkipRoot, PathGray, PathDistinct, PathEdges, PendingDeps
<1>3. CASE Leave
  <2>1. path # << >> /\ Len(path) \in Nat \ {0} /\ Top \in Instance
    BY <1>3, TopInstance DEF Leave
  <2>2. \A k \in 1 .. Len(path) - 1 : path[k] # Top
    BY <2>1 DEF PathDistinct, Top
  <2>0. /\ Len(path') = Len(path) - 1
        /\ \A k \in 1 .. Len(path) - 1 : path'[k] = path[k]
        /\ \A d \in Instance \ {Top} : color'[d] = color[d]
    BY <1>3, LeaveFacts
  <2>3. PathGray'
    BY <1>0, <2>1, <2>2, <2>0 DEF PathGray
  <2>4. PathDistinct'
    BY <2>1, <2>0 DEF PathDistinct
  <2>5. PathEdges' /\ PendingDeps'
    BY <1>3, <2>1, <2>0 DEF Leave, PathEdges, PendingDeps
  <2> QED
    BY <2>3, <2>4, <2>5
<1>4. ASSUME path # << >>, NEW m \in pending[Top], VisitDone(m) \/ VisitGray(m)
      PROVE  PathGray' /\ PathDistinct' /\ PathEdges' /\ PendingDeps'
  <2>1. /\ UNCHANGED <<graph, color, path>>
        /\ pending' = [pending EXCEPT ![Top] = @ \ {m}]
    BY <1>4 DEF VisitDone, VisitGray
  <2>2. PathGray' /\ PathDistinct' /\ PathEdges'
    BY <2>1 DEF PathGray, PathDistinct, PathEdges
  <2>3. PendingDeps'
    BY <1>4, <2>1, TopInstance DEF PendingDeps, TypeOK
  <2> QED
    BY <2>2, <2>3
<1>5. ASSUME path # << >>, NEW m \in pending[Top], VisitWhite(m)
      PROVE  PathGray' /\ PathDistinct' /\ PathEdges' /\ PendingDeps'
  <2>1. /\ m \in Instance /\ Push(m) /\ color[m] = "white" /\ graph' = graph
        /\ pending' = [pending EXCEPT ![Top] = @ \ {m}, ![m] = graph[m]]
    BY <1>5 DEF VisitWhite
  <2>2. Len(path) \in Nat \ {0} /\ Top \in Instance /\ m \in graph[Top]
    BY <1>5, TopInstance DEF PendingDeps
  <2>3. \A k \in 1 .. Len(path) : path[k] # m
    BY <2>1 DEF PathGray
  <2>0. /\ Len(path') = Len(path) + 1
        /\ path'[Len(path) + 1] = m
        /\ \A k \in 1 .. Len(path) : path'[k] = path[k]
        /\ color'[m] = "gray"
        /\ \A d \in Instance \ {m} : color'[d] = color[d]
    BY <2>1, PushFacts
  <2>4. PathGray'
    BY <1>0, <2>1, <2>3, <2>0 DEF PathGray
  <2>5. PathDistinct'
    BY <1>0, <2>3, <2>0 DEF PathDistinct
  <2>6. PathEdges'
    <3> SUFFICES ASSUME NEW k \in 1 .. Len(path') - 1
                 PROVE  path'[k + 1] \in graph[path'[k]]
      BY <2>1 DEF PathEdges
    <3>1. CASE k = Len(path)
      BY <2>2, <2>0, <3>1 DEF Top
    <3>2. CASE k \in 1 .. Len(path) - 1
      BY <2>2, <2>0, <3>2 DEF PathEdges
    <3> QED
      BY <2>2, <2>0, <3>1, <3>2
  <2>7. PendingDeps'
    BY <2>1, <2>2 DEF PendingDeps, TypeOK
  <2> QED
    BY <2>4, <2>5, <2>6, <2>7
<1>6. CASE UNCHANGED vars
  BY <1>6 DEF vars, PathGray, PathDistinct, PathEdges, PendingDeps
<1> QED
  BY <1>1, <1>2, <1>3, <1>4, <1>5, <1>6, StepCases

-----------------------------------------------------------------------------
(* What has been visited.                                                  *)
LEMMA VisitedStep ==
  ASSUME TypeOK, GrayOnPath, PathGray, PathDistinct, PendingDeps, VisitedDeps,
         [Next]_vars
  PROVE  VisitedDeps'
<1>0. Len(path) \in Nat /\ \A k \in 1 .. Len(path) : path[k] \in Instance
  BY DEF TypeOK
<1>1. CASE StartRoot
  <2>1. /\ DeclOrder[next] \in Instance /\ Push(DeclOrder[next]) /\ Len(path) = 0
        /\ graph' = graph
        /\ pending' = [pending EXCEPT ![DeclOrder[next]] = graph[DeclOrder[next]]]
    BY <1>1, InstanceIndexed DEF StartRoot, TypeOK
  <2>2. Len(path') = 1 /\ path'[1] = DeclOrder[next]
    BY <2>1, PushFacts
  <2>3. pending'[DeclOrder[next]] = graph'[DeclOrder[next]]
    BY <2>1 DEF TypeOK
  <2> QED
    BY <2>2, <2>3 DEF VisitedDeps
<1>2. CASE SkipRoot
  BY <1>2 DEF SkipRoot, VisitedDeps, Reported
<1>3. CASE Leave
  <2>1. Len(path) \in Nat \ {0}
    BY <1>3, TopInstance DEF Leave
  <2>2. /\ Len(path') = Len(path) - 1
        /\ \A k \in 1 .. Len(path) - 1 : path'[k] = path[k]
        /\ color'[Top] = "black"
        /\ \A d \in Instance \ {Top} : color'[d] = color[d]
        /\ UNCHANGED <<graph, pending, errors>>
    BY <1>3, LeaveFacts DEF Leave
  <2>3. \A d \in Instance : color[d] = "black" => color'[d] = "black"
    BY <2>2
  <2> SUFFICES ASSUME NEW k \in 1 .. Len(path) - 1,
                      NEW d \in (graph[path[k]] \ pending[path[k]]) \cap Instance
               PROVE  \/ color'[d] = "black"
                      \/ path[k] \in Reported
                      \/ k < Len(path) - 1 /\ path[k + 1] = d
    <3>1. Reported' = Reported
      BY <2>2 DEF Reported
    <3>2. \A k \in 1 .. Len(path') : k \in 1 .. Len(path) - 1
      BY <2>1, <2>2
    <3>3. \A k \in 1 .. Len(path) - 1 : k < Len(path) - 1 => path'[k + 1] = path[k + 1]
      BY <2>1, <2>2
    <3> QED
      BY <2>2, <3>1, <3>2, <3>3 DEF VisitedDeps
  <2>4. \/ color[d] = "black" \/ path[k] \in Reported \/ path[k + 1] = d
    BY <2>1 DEF VisitedDeps
  <2>5. CASE k = Len(path) - 1 /\ path[k + 1] = d
    BY <2>1, <2>2, <2>5 DEF Top
  <2> QED
    BY <2>1, <2>3, <2>4, <2>5
<1>4. ASSUME path # << >>, NEW m \in pending[Top], VisitDone(m) \/ VisitGray(m)
      PROVE  VisitedDeps'
  <2>1. /\ UNCHANGED <<graph, color, path>>
        /\ pending' = [pending EXCEPT ![Top] = @ \ {m}]
    BY <1>4 DEF VisitDone, VisitGray
  <2>2. Len(path) \in Nat \ {0} /\ Top \in Instance
    BY <1>4, TopInstance
  <2>3. Reported \subseteq Reported'
    BY ReportsStay
  <2>4. m \in Instance => color[m] = "black" \/ Top \in Reported'
    BY <1>4, RecordFacts DEF VisitDone, VisitGray, GrayOnPath
  <2> SUFFICES ASSUME NEW k \in 1 .. Len(path),
                      NEW d \in (graph[path[k]] \ pending'[path[k]]) \cap Instance
               PROVE  \/ color[d] = "black"
                      \/ path[k] \in Reported'
                      \/ k < Len(path) /\ path[k + 1] = d
    BY <2>1 DEF VisitedDeps
  <2>5. CASE d \in pending[path[k]]
    <3>1. path[k] = Top /\ d = m
      BY <1>0, <2>1, <2>2, <2>5 DEF TypeOK
    <3> QED
      BY <2>4, <3>1
  <2>6. CASE d \notin pending[path[k]]
    BY <2>3, <2>6 DEF VisitedDeps
  <2> QED
    BY <2>5, <2>6
<1>5. ASSUME path # << >>, NEW m \in pending[Top], VisitWhite(m)
      PROVE  VisitedDeps'
  <2>1. /\ m \in Instance /\ Push(m) /\ color[m] = "white"
        /\ UNCHANGED <<graph, errors>>
        /\ pending' = [pending EXCEPT ![Top] = @ \ {m}, ![m] = graph[m]]
    BY <1>5 DEF VisitWhite
  <2>2. Len(path) \in Nat \ {0} /\ Top \in Instance
    BY <1>5, TopInstance
  <2>3. /\ Len(path') = Len(path) + 1
        /\ path'[Len(path) + 1] = m
        /\ \A k \in 1 .. Len(path) : path'[k] = path[k]
        /\ \A d \in Instance \ {m} : color'[d] = color[d]
    BY <2>1, PushFacts
  <2>4. \A k \in 1 .. Len(path) : path[k] # m
    BY <2>1 DEF PathGray
  <2>5. /\ pending'[m] = graph[m]
        /\ Top # m => pending'[Top] = pending[Top] \ {m}
        /\ \A n \in Instance \ {m, Top} : pending'[n] = pending[n]
    BY <2>1, <2>2 DEF TypeOK
  <2> SUFFICES ASSUME NEW k \in 1 .. Len(path) + 1,
                      NEW d \in (graph[path'[k]] \ pending'[path'[k]]) \cap Instance
               PROVE  \/ color'[d] = "black"
                      \/ path'[k] \in Reported
                      \/ k < Len(path) + 1 /\ path'[k + 1] = d
    <3>1. Reported' = Reported
      BY <2>1 DEF Reported
    <3> QED
      BY <2>1, <2>3, <3>1 DEF VisitedDeps
  <2>6. k \in 1 .. Len(path)
    BY <2>2, <2>3, <2>5
  <2>7. path'[k] = path[k] /\ path[k] \in Instance /\ path[k] # m
    BY <1>0, <2>3, <2>4, <2>6
  <2>8. CASE d \in pending[path[k]]
    <3>1. path[k] = Top /\ d = m
      BY <2>5, <2>7, <2>8
    <3>2. k = Len(path)
      BY <2>2, <2>6, <3>1 DEF PathDistinct, Top
    <3> QED
      BY <2>2, <2>3, <3>1, <3>2
  <2>9. CASE d \notin pending[path[k]]
    <3>1. \/ color[d] = "black" \/ path[k] \in Reported
          \/ k < Len(path) /\ path[k + 1] = d
      BY <2>6, <2>7, <2>9 DEF VisitedDeps
    <3>2. color[d] = "black" => color'[d] = "black"
      BY <2>1, <2>3
    <3>3. k < Len(path) => path'[k + 1] = path[k + 1]
      BY <2>2, <2>3, <2>6
    <3> QED
      BY <2>2, <2>6, <2>7, <3>1, <3>2, <3>3
  <2> QED
    BY <2>8, <2>9
<1>6. CASE UNCHANGED vars
  BY <1>6 DEF vars, VisitedDeps, Reported
<1> QED
  BY <1>1, <1>2, <1>3, <1>4, <1>5, <1>6, StepCases

(* When dfs leaves a node that is not reported, the node depends on black  *)
(* nodes only.                                                             *)
LEMMA LeavingDeps ==
  ASSUME TypeOK, VisitedDeps, Leave, Top \notin Reported
  PROVE  \A d \in graph[Top] \cap Instance : color[d] = "black"
<1>1. path # << >> /\ pending[Top] = {} /\ Len(path) \in Nat \ {0}
  BY TopInstance DEF Leave
<1> QED
  BY <1>1 DEF VisitedDeps, Top

(* How the set of black nodes changes: Leave adds the top to it, and no    *)
(* other step changes it.                                                  *)
LEMMA BlackChange ==
  ASSUME TypeOK, GrayOnPath, PathGray, [Next]_vars
  PROVE  /\ graph' = graph
         /\ \/ Leave
            \/ \A n \in Instance : color'[n] = "black" <=> color[n] = "black"
<1>1. CASE StartRoot
  <2>1. DeclOrder[next] \in Instance /\ Push(DeclOrder[next])
        /\ color[DeclOrder[next]] = "white" /\ graph' = graph
    BY <1>1, InstanceIndexed DEF StartRoot, TypeOK
  <2> QED
    BY <2>1, PushFacts
<1>2. ASSUME path # << >>, NEW m \in pending[Top], VisitWhite(m)
      PROVE  graph' = graph
             /\ \A n \in Instance : color'[n] = "black" <=> color[n] = "black"
  <2>1. m \in Instance /\ Push(m) /\ color[m] = "white" /\ graph' = graph
    BY <1>2 DEF VisitWhite
  <2> QED
    BY <2>1, PushFacts
<1>3. CASE Leave
  BY <1>3 DEF Leave
<1> QED
  BY <1>1, <1>2, <1>3, StepCases DEF SkipRoot, VisitDone, VisitGray, vars

LEMMA BlackStep ==
  ASSUME TypeOK, GrayOnPath, PathGray, VisitedDeps, BlackDeps, AcyclicOn(Clean),
         [Next]_vars
  PROVE  BlackDeps' /\ AcyclicOn(Clean)'
<1>1. graph' = graph /\ Reported \subseteq Reported'
  BY BlackChange, ReportsStay
<1>2. CASE Leave
  <2>1. Top \in Instance /\ color[Top] = "gray" /\ color'[Top] = "black"
        /\ \A d \in Instance \ {Top} : color'[d] = color[d]
    <3>1. Top \in Instance /\ color[Top] = "gray"
      BY <1>2, TopInstance DEF Leave, PathGray, Top
    <3> QED
      BY <1>2, <3>1, LeaveFacts
  <2>2. Reported' = Reported
    BY <1>2 DEF Leave, Reported
  <2>3. Top \notin Reported => \A d \in graph[Top] \cap Instance : color[d] = "black"
    BY <1>2, LeavingDeps
  <2>4. \A d \in Instance : color[d] = "black" => color'[d] = "black"
    BY <2>1
  <2>5. BlackDeps'
    BY <1>1, <2>1, <2>2, <2>3, <2>4 DEF BlackDeps
  <2>6. AcyclicOn(Clean)'
    <3> SUFFICES ASSUME NEW S \in SUBSET Clean', S # {}
                 PROVE  \E n \in S : graph[n] \cap S = {}
      BY <1>1 DEF AcyclicOn
    <3>1. S \ {Top} \subseteq Clean
      BY <2>1, <2>2 DEF Clean
    <3>2. \A n \in S \ {Top} : Top \notin graph[n]
      BY <2>1, <3>1 DEF Clean, BlackDeps
    <3>3. CASE S \ {Top} # {}
      <4>1. PICK n \in S \ {Top} : graph[n] \cap (S \ {Top}) = {}
        BY <3>1, <3>3 DEF AcyclicOn
      <4> QED
        BY <3>2, <4>1
    <3>4. CASE S = {Top}
      <4>1. Top \notin Reported
        BY <2>2, <3>4 DEF Clean
      <4> QED
        BY <2>1, <2>3, <3>4, <4>1
    <3> QED
      BY <3>3, <3>4
  <2> QED
    BY <2>5, <2>6
<1>3. CASE \A n \in Instance : color'[n] = "black" <=> color[n] = "black"
  <2>1. BlackDeps'
    BY <1>1, <1>3 DEF BlackDeps
  <2>2. Clean' \subseteq Clean
    BY <1>1, <1>3 DEF Clean
  <2> QED
    BY <1>1, <2>1, <2>2 DEF AcyclicOn
<1> QED
  BY <1>2, <1>3, BlackChange

LEMMA RootsStep ==
  ASSUME TypeOK, GrayOnPath, RootsReached, [Next]_vars
  PROVE  RootsReached'
<1>0. next \in 1 .. Len(DeclOrder) + 1 /\ Len(DeclOrder) \in Nat
      /\ \A i \in 1 .. Len(DeclOrder) : DeclOrder[i] \in Instance
  BY InstanceIndexed DEF TypeOK
<1>1. CASE StartRoot
  <2>1. DeclOrder[next] \in Instance /\ Push(DeclOrder[next]) /\ next' = next + 1
    BY <1>1, <1>0 DEF StartRoot
  <2>2. color'[DeclOrder[next]] = "gray"
        /\ \A d \in Instance \ {DeclOrder[next]} : color'[d] = color[d]
    BY <2>1, PushFacts
  <2> QED
    BY <1>0, <2>1, <2>2 DEF RootsReached
<1>2. CASE SkipRoot
  BY <1>0, <1>2 DEF SkipRoot, RootsReached
<1>3. CASE Leave
  <2>1. Top \in Instance /\ color'[Top] = "black" /\ next' = next
        /\ \A d \in Instance \ {Top} : color'[d] = color[d]
    BY <1>3, LeaveFacts, TopInstance DEF Leave
  <2> QED
    BY <1>0, <2>1 DEF RootsReached
<1>4. ASSUME path # << >>, NEW m \in pending[Top], VisitWhite(m)
      PROVE  RootsReached'
  <2>1. m \in Instance /\ Push(m) /\ next' = next
    BY <1>4 DEF VisitWhite
  <2>2. color'[m] = "gray" /\ \A d \in Instance \ {m} : color'[d] = color[d]
    BY <2>1, PushFacts
  <2> QED
    BY <1>0, <2>1, <2>2 DEF RootsReached
<1>5. next' = next /\ color' = color => RootsReached'
  BY DEF RootsReached
<1> QED
  BY <1>1, <1>2, <1>3, <1>4, <1>5, StepCases DEF VisitDone, VisitGray, vars

-----------------------------------------------------------------------------
(* The reports.                                                            *)

(* What a frame closes is a cycle of the graph.                            *)
LEMMA ClosedIsCycle ==
  ASSUME TypeOK, PathEdges, PendingDeps, path # << >>,
         NEW m \in pending[Top], OnPath(m)
  PROVE  IsCycle(ClosedBy(m))
<1> DEFINE cycle == ClosedBy(m)
<1>1. PICK i \in 1 .. Len(path) :
        /\ path[i] = m
        /\ cycle \in Seq(Instance)
        /\ Len(cycle) = Len(path) - i + 2
        /\ \A k \in 1 .. Len(path) - i + 1 : cycle[k] = path[i + k - 1]
        /\ cycle[Len(path) - i + 2] = m
  BY ClosedByFacts
<1>2. Len(path) \in Nat \ {0} /\ Top \in Instance /\ m \in graph[Top]
  BY TopInstance DEF PendingDeps
<1> HIDE DEF cycle
<1>3. Len(cycle) > 1 /\ cycle[1] = m /\ cycle[Len(cycle)] = m
  BY <1>1, <1>2
<1>4. ASSUME NEW k \in 1 .. Len(cycle) - 1
      PROVE  cycle[k + 1] \in graph[cycle[k]]
  <2>1. CASE k = Len(path) - i + 1
    <3>1. cycle[k] = path[Len(path)] /\ cycle[k + 1] = m
      BY <1>1, <1>2, <2>1
    <3> QED
      BY <1>2, <3>1 DEF Top
  <2>2. CASE k \in 1 .. Len(path) - i
    <3>1. cycle[k] = path[i + k - 1] /\ cycle[k + 1] = path[(i + k - 1) + 1]
      <4>1. k \in 1 .. Len(path) - i + 1 /\ k + 1 \in 1 .. Len(path) - i + 1
        BY <1>1, <1>2, <2>2
      <4>2. i + (k + 1) - 1 = (i + k - 1) + 1
        BY <1>1, <2>2
      <4>3. cycle[k + 1] = path[i + (k + 1) - 1]
        BY <1>1, <4>1
      <4> QED
        BY <1>1, <4>1, <4>2, <4>3
    <3>2. i + k - 1 \in 1 .. Len(path) - 1
      BY <1>1, <1>2, <2>2
    <3> QED
      BY <3>1, <3>2 DEF PathEdges
  <2>3. k = Len(path) - i + 1 \/ k \in 1 .. Len(path) - i
    <3>1. k \in Nat /\ 1 <= k /\ k <= Len(cycle) - 1 /\ i \in Nat /\ i <= Len(path)
      BY <1>1, <1>2
    <3>2. Len(cycle) - 1 = Len(path) - i + 1
      BY <1>1, <1>2
    <3> QED
      BY <1>2, <3>1, <3>2
  <2> QED
    BY <2>1, <2>2, <2>3
<1> QED
  BY <1>3, <1>4 DEF IsCycle, cycle

LEMMA ReportsStep ==
  ASSUME TypeOK, GrayOnPath, PathEdges, PendingDeps,
         ReportedOnCycle, WholeCycleReported, [Next]_vars
  PROVE  ReportedOnCycle' /\ WholeCycleReported'
<1>1. ASSUME path # << >>, NEW m \in pending[Top], VisitGray(m)
      PROVE  ReportedOnCycle' /\ WholeCycleReported'
  <2>1. OnPath(m) /\ graph' = graph
        /\ errors' = RecordCycle(ClosedBy(m))
    BY <1>1 DEF VisitGray, GrayOnPath
  <2>2. /\ Reported \subseteq Reported'
        /\ \A n \in Reported : errors'[n] = errors[n]
        /\ Range(ClosedBy(m)) \subseteq Reported'
        /\ \A n \in Reported' \ Reported :
              n \in Range(ClosedBy(m)) /\ errors'[n] = ClosedBy(m)
    BY <1>1, <2>1, RecordFacts
  <2>3. IsCycle(ClosedBy(m))
    BY <1>1, <2>1, ClosedIsCycle
  <2>4. ReportedOnCycle'
    BY <2>1, <2>2, <2>3 DEF ReportedOnCycle, IsCycle
  <2>5. WholeCycleReported'
    BY <2>2 DEF WholeCycleReported
  <2> QED
    BY <2>4, <2>5
<1>2. errors' = errors /\ graph' = graph => ReportedOnCycle' /\ WholeCycleReported'
  BY DEF ReportedOnCycle, WholeCycleReported, Reported, IsCycle
<1> QED
  BY <1>1, <1>2, StepCases
     DEF StartRoot, SkipRoot, Leave, VisitDone, VisitWhite, vars

-----------------------------------------------------------------------------
(* The inductive invariant, and what follows from it.                      *)
LEMMA InvInit == Init => IInv
<1> SUFFICES ASSUME Init PROVE IInv
  OBVIOUS
<1>1. TypeOK /\ Reported = {} /\ Clean = {}
  BY InstanceIndexed DEF Init, TypeOK, Reported, Clean
<1>2. GrayOnPath /\ PathGray /\ PathDistinct /\ PathEdges /\ PendingDeps
      /\ VisitedDeps /\ BlackDeps /\ RootsReached
  BY DEF Init, GrayOnPath, PathGray, PathDistinct, PathEdges, PendingDeps,
         VisitedDeps, BlackDeps, RootsReached
<1> QED
  BY <1>1, <1>2 DEF IInv, AcyclicOn, ReportedOnCycle, WholeCycleReported

LEMMA InvStep == IInv /\ [Next]_vars => IInv'
BY TypeStep, PathStep, VisitedStep, BlackStep, RootsStep, ReportsStep DEF IInv

LEMMA Invariant == Spec => []IInv
BY InvInit, InvStep, PTL DEF Spec

(* Soundness of the refusals: whatever the graph and the order in which    *)
(* neighbours are visited, an instance is reported as circular only with a *)
(* cycle of the graph it lies on, and no cycle is half reported.           *)
THEOREM Sound == Spec => [](ReportedOnCycle /\ WholeCycleReported)
<1>1. IInv => ReportedOnCycle /\ WholeCycleReported
  BY DEF IInv
<1> QED
  BY <1>1, Invariant, PTL

(* When the search is over all instances are black, so that the clean ones *)
(* are acyclic by the invariant.                                           *)
LEMMA DoneClean == ASSUME IInv, Done PROVE AcyclicOn(Instance \ Reported)
<1>1. \A n \in Instance : color[n] # "gray"
  BY DEF IInv, Done, GrayOnPath, OnPath
<1>2. \A n \in Instance : color[n] # "white"
  <2>1. \A i \in 1 .. Len(DeclOrder) : i \in 1 .. next - 1
    BY InstanceIndexed DEF IInv, TypeOK, Done
  <2> QED
    BY <2>1, InstanceIndexed DEF IInv, RootsReached
<1>3. Clean = Instance \ Reported
  BY <1>1, <1>2 DEF IInv, TypeOK, Clean
<1> QED
  BY <1>3 DEF IInv

(* Completeness, which phase 6 relies on to terminate: after the search    *)
(* every cycle of the graph has a reported instance.                       *)
THEOREM Complete == Spec => []NoCleanCycle
<1>1. IInv => NoCleanCycle
  BY DoneClean DEF NoCleanCycle
<1> QED
  BY <1>1, Invariant, PTL
=============================================================================
