-------------------------- MODULE FieldStore_proofs --------------------------
(***************************************************************************)
(* Proofs about the objects of phase 6, for any types, any bodies and any  *)
(* depth of scopes: what is reached from an object, what deepcopy makes of *)
(* it, and why no body ever changes an object of another instance, leaves  *)
(* a cycle, or lets an export miss a value.                                *)
(***************************************************************************)
EXTENDS FieldStore, SeqLemmas

(* One more round of the search for what is reached. *)
Spread(succ, X) == X \cup UNION {succ[x] : x \in X}
Closed(succ, X) == \A x \in X : succ[x] \subseteq X

(* w lists what the search has reached after each of n rounds. *)
Rounds(succ, init, n, w) ==
  w = [i \in 0 .. n |-> IF i = 0 THEN init ELSE Spread(succ, w[i - 1])]

(* The rounds exist: a function defined up to the least number of rounds   *)
(* for which there were none could be extended by one.                     *)
LEMMA RoundsExist ==
  ASSUME NEW succ, NEW init, NEW n \in Nat
  PROVE  \E w : Rounds(succ, init, n, w)
<1> DEFINE Has(k) == \E w : Rounds(succ, init, k, w)
           Bad == {k \in Nat : ~Has(k)}
<1>1. SUFFICES ASSUME Bad # {} PROVE FALSE
  OBVIOUS
<1>2. PICK m \in Bad : \A k \in Bad : m <= k
  <2>1. Bad \in SUBSET Nat
    OBVIOUS
  <2> HIDE DEF Bad
  <2> QED
    BY <1>1, <2>1, NatMin
<1>3. m # 0
  <2>1. SUFFICES ASSUME m = 0 PROVE Has(0)
    BY <1>2
  <2> DEFINE w == [i \in 0 .. 0 |-> init]
  <2>2. w = [i \in 0 .. 0 |-> IF i = 0 THEN init ELSE Spread(succ, w[i - 1])]
    OBVIOUS
  <2> HIDE DEF w
  <2> QED
    BY <2>2 DEF Rounds
<1>4. m \in Nat /\ m - 1 \in Nat /\ Has(m - 1)
  <2>1. m \in Nat
    BY <1>2
  <2>2. m - 1 \in Nat /\ ~(m <= m - 1)
    BY <1>3, <2>1
  <2>3. m - 1 \notin Bad
    BY <1>2, <2>2, Zenon
  <2> QED
    BY <2>1, <2>2, <2>3, Zenon
<1>5. PICK w : Rounds(succ, init, m - 1, w)
  BY <1>4
<1>6. w = [i \in 0 .. m - 1 |-> IF i = 0 THEN init ELSE Spread(succ, w[i - 1])]
  BY <1>5 DEF Rounds
<1> DEFINE v == [i \in 0 .. m |-> IF i = m THEN Spread(succ, w[m - 1]) ELSE w[i]]
           u == [i \in 0 .. m |-> IF i = 0 THEN init ELSE Spread(succ, v[i - 1])]
<1>7. ASSUME NEW i \in 0 .. m PROVE v[i] = u[i]
  <2>1. CASE i = 0
    <3>1. v[i] = w[0] /\ w[0] = init
      BY <1>3, <1>4, <1>6, <2>1
    <3> QED
      BY <2>1, <3>1
  <2>2. CASE i # 0 /\ i # m
    <3>1. i \in 0 .. m - 1 /\ i - 1 \in 0 .. m /\ i - 1 # m
      BY <1>4, <2>2
    <3>2. v[i] = w[i] /\ v[i - 1] = w[i - 1] /\ w[i] = Spread(succ, w[i - 1])
      BY <1>6, <2>2, <3>1
    <3> QED
      BY <2>2, <3>2
  <2>3. CASE i # 0 /\ i = m
    <3>1. m - 1 \in 0 .. m /\ m - 1 # m
      BY <1>4
    <3>2. v[i] = Spread(succ, w[m - 1]) /\ v[m - 1] = w[m - 1]
      BY <2>3, <3>1
    <3> QED
      BY <2>3, <3>2
  <2> QED
    BY <2>1, <2>2, <2>3
<1>8. v = u
  <2>1. DOMAIN v = 0 .. m /\ DOMAIN u = 0 .. m
    OBVIOUS
  <2> QED
    BY <1>7
<1>9. Rounds(succ, init, m, v)
  <2> HIDE DEF v
  <2> QED
    BY <1>8 DEF Rounds
<1> QED
  BY <1>2, <1>9

LEMMA ClosureRounds ==
  ASSUME NEW succ, NEW init, IsFiniteSet(DOMAIN succ)
  PROVE  \E n \in Nat : \E w :
           /\ n = Cardinality(DOMAIN succ) /\ Closure(succ, init) = w[n]
           /\ w[0] = init
           /\ \A i \in 1 .. n : w[i] = Spread(succ, w[i - 1])
<1>1. PICK n \in Nat : n = Cardinality(DOMAIN succ)
  BY FS_CardinalityType
<1>2. \E v : Rounds(succ, init, n, v)
  BY <1>1, RoundsExist
<1> DEFINE w == CHOOSE v :
                  v = [i \in 0 .. n |->
                         IF i = 0 THEN init
                         ELSE LET near == v[i - 1]
                              IN  near \cup UNION {succ[x] : x \in near}]
<1>3. Closure(succ, init) = w[n]
  BY <1>1 DEF Closure
<1>4. w = [i \in 0 .. n |-> IF i = 0 THEN init
                            ELSE LET near == w[i - 1]
                                 IN  near \cup UNION {succ[x] : x \in near}]
  BY <1>2 DEF Spread, Rounds
<1> HIDE DEF w
<1>5. w[0] = init /\ \A i \in 1 .. n : w[i] = Spread(succ, w[i - 1])
  BY <1>1, <1>4 DEF Spread
<1> QED
  BY <1>1, <1>3, <1>5

(* What Closure gives is the smallest set that contains init and, with a   *)
(* point, those next to it.  After as many rounds as there are points it   *)
(* is closed: each round before that either adds one or changes nothing.   *)
LEMMA ClosureFacts ==
  ASSUME NEW S, IsFiniteSet(S), NEW succ \in [S -> SUBSET S], NEW init \in SUBSET S
  PROVE  /\ init \subseteq Closure(succ, init) /\ Closure(succ, init) \subseteq S
         /\ Closed(succ, Closure(succ, init))
         /\ \A T \in SUBSET S : init \subseteq T /\ Closed(succ, T)
                                  => Closure(succ, init) \subseteq T
<1> DEFINE n == Cardinality(S)
<1>0. n \in Nat
  BY FS_CardinalityType
<1>1. PICK w : /\ Closure(succ, init) = w[n] /\ w[0] = init
               /\ \A i \in 1 .. n : w[i] = Spread(succ, w[i - 1])
  <2>1. DOMAIN succ = S
    OBVIOUS
  <2> QED
    BY <2>1, ClosureRounds DEF n
<1> HIDE DEF n
<1> DEFINE Good(i) == /\ w[i] \subseteq S /\ init \subseteq w[i]
                      /\ Closed(succ, w[i]) \/ Cardinality(w[i]) >= i
                      /\ \A T \in SUBSET S : init \subseteq T /\ Closed(succ, T)
                                               => w[i] \subseteq T
           Bad == {i \in 0 .. n : ~Good(i)}
<1>2. Good(0)
  <2>1. Cardinality(init) \in Nat
    BY FS_Subset, FS_CardinalityType
  <2> QED
    BY <1>0, <1>1, <2>1
<1>3. ASSUME NEW j \in 0 .. n, j + 1 \in 1 .. n, Good(j)
      PROVE  Good(j + 1)
  <2>1. w[j + 1] = Spread(succ, w[j]) /\ w[j + 1] = w[j] \cup UNION {succ[x] : x \in w[j]}
    <3>1. j + 1 - 1 = j
      OBVIOUS
    <3> QED
      BY <1>1, <1>3, <3>1 DEF Spread
  <2>2. w[j] \subseteq w[j + 1] /\ w[j + 1] \subseteq S /\ init \subseteq w[j + 1]
    BY <1>3, <2>1
  <2>3. ASSUME NEW T \in SUBSET S, init \subseteq T, Closed(succ, T)
        PROVE  w[j + 1] \subseteq T
    BY <1>3, <2>1, <2>3 DEF Closed
  <2>4. Closed(succ, w[j + 1]) \/ Cardinality(w[j + 1]) >= j + 1
    <3>1. CASE Closed(succ, w[j])
      <4>1. w[j + 1] = w[j]
        BY <2>1, <3>1 DEF Closed
      <4> QED
        BY <3>1, <4>1
    <3>2. CASE ~Closed(succ, w[j])
      <4>1. w[j] # w[j + 1]
        BY <2>1, <3>2 DEF Closed
      <4>2. /\ Cardinality(w[j]) \in Nat /\ Cardinality(w[j + 1]) \in Nat
            /\ Cardinality(w[j]) <= Cardinality(w[j + 1])
            /\ Cardinality(w[j]) # Cardinality(w[j + 1])
        <5>1. IsFiniteSet(w[j + 1])
          BY <2>2, FS_Subset
        <5> QED
          BY <5>1, <2>2, <4>1, FS_Subset, FS_CardinalityType
      <4> QED
        BY <1>0, <1>3, <3>2, <4>2
    <3> QED
      BY <3>1, <3>2
  <2> QED
    BY <2>2, <2>3, <2>4
<1>4. \A i \in 0 .. n : Good(i)
  <2>1. SUFFICES ASSUME Bad # {} PROVE FALSE
    OBVIOUS
  <2>2. PICK m \in Bad : \A k \in Bad : m <= k
    <3>1. Bad \in SUBSET Nat
      OBVIOUS
    <3> HIDE DEF Bad
    <3> QED
      BY <2>1, <3>1, NatMin
  <2>3. m # 0
    BY <1>2, <2>2
  <2>4. m - 1 \in 0 .. n /\ m - 1 + 1 = m /\ m \in 1 .. n /\ m - 1 < m
    BY <1>0, <2>2, <2>3
  <2>5. Good(m - 1)
    BY <2>2, <2>4
  <2> HIDE DEF Good
  <2> QED
    BY <1>3, <2>2, <2>4, <2>5
<1>5. Good(n) /\ n \in 0 .. n
  BY <1>0, <1>4
<1>6. Closed(succ, w[n])
  <2>1. CASE Cardinality(w[n]) >= n
    <3>1. Cardinality(w[n]) \in Nat /\ Cardinality(w[n]) <= n
      BY <1>5, FS_Subset, FS_CardinalityType DEF n
    <3>2. w[n] = S
      BY <1>5, <2>1, <3>1, FS_Subset DEF n
    <3> QED
      BY <3>2 DEF Closed
  <2> QED
    BY <1>5, <2>1
<1> QED
  BY <1>1, <1>5, <1>6

-----------------------------------------------------------------------------
(* The heap: objects whose references lead to objects.                     *)
Tags == {"num", "ref", "uninit", "absent"}
Value == [tag : Tags, val : Nat]
Object == [type : Struct \cup {"list"}, fields : [Field -> Value]]
HeapOK(h) ==
  /\ h \in Seq(Object)
  /\ \A b \in DOMAIN h : \A f \in Field :
       h[b].fields[f].tag = "ref" => h[b].fields[f].val \in DOMAIN h

(* Two forms of the second conjunct, and what Children is. *)
LEMMA HeapFacts ==
  ASSUME NEW h, HeapOK(h)
  PROVE  /\ DOMAIN h = 1 .. Len(h) /\ Len(h) \in Nat /\ IsFiniteSet(DOMAIN h)
         /\ \A b \in DOMAIN h :
              /\ h[b] \in Object /\ h[b].type \in Struct \cup {"list"}
              /\ h[b].fields \in [Field -> Value]
              /\ \A f \in Field : h[b].fields[f] \in Value
              /\ Children(h, b) \in SUBSET DOMAIN h
<1>1. h \in Seq(Object) /\ DOMAIN h = 1 .. Len(h) /\ Len(h) \in Nat
  BY DEF HeapOK
<1>2. ASSUME NEW b \in DOMAIN h
      PROVE  /\ h[b] \in Object /\ h[b].type \in Struct \cup {"list"}
             /\ h[b].fields \in [Field -> Value]
  <2>1. h[b] \in Object
    BY <1>1
  <2> QED
    BY <2>1 DEF Object
<1>3. IsFiniteSet(1 .. Len(h))
  <2>1. 1 \in Int /\ Len(h) \in Int
    BY <1>1
  <2> QED
    BY <2>1, FS_Interval
<1> QED
  BY <1>1, <1>2, <1>3 DEF HeapOK, Children

LEMMA Reached ==
  ASSUME NEW h, HeapOK(h), NEW a \in DOMAIN h
  PROVE  /\ a \in Reachable(h, a) /\ Reachable(h, a) \subseteq DOMAIN h
         /\ \A b \in Reachable(h, a) : Children(h, b) \subseteq Reachable(h, a)
         /\ \A T \in SUBSET DOMAIN h :
              a \in T /\ (\A b \in T : Children(h, b) \subseteq T)
                => Reachable(h, a) \subseteq T
<1> DEFINE succ == [b \in DOMAIN h |-> Children(h, b)]
<1>1. succ \in [DOMAIN h -> SUBSET DOMAIN h]
  BY HeapFacts
<1>2. IsFiniteSet(DOMAIN h)
  BY HeapFacts
<1>3. Reachable(h, a) = Closure(succ, {a})
  BY DEF Reachable
<1>4. \A b \in DOMAIN h : succ[b] = Children(h, b)
  OBVIOUS
<1> HIDE DEF succ
<1>5. /\ {a} \subseteq Closure(succ, {a}) /\ Closure(succ, {a}) \subseteq DOMAIN h
      /\ Closed(succ, Closure(succ, {a}))
      /\ \A T \in SUBSET DOMAIN h : {a} \subseteq T /\ Closed(succ, T)
                                      => Closure(succ, {a}) \subseteq T
  BY <1>1, <1>2, ClosureFacts
<1> QED
  BY <1>3, <1>4, <1>5 DEF Closed

(* The objects of a finite set in a sequence. *)
LEMMA Listed ==
  ASSUME NEW S, IsFiniteSet(S)
  PROVE  /\ SetToSeq(S) \in Seq(S) /\ Len(SetToSeq(S)) = Cardinality(S)
         /\ \A x \in S : \E i \in 1 .. Cardinality(S) : SetToSeq(S)[i] = x
<1> DEFINE n == Cardinality(S)
<1>1. n \in Nat /\ ExistsBijection(1 .. n, S)
  BY FS_CardinalityType
<1>2. PICK g \in [1 .. n -> S] : IsInjective(g)
  BY <1>1 DEF ExistsBijection, Bijection, Injection, IsInjective
<1>3. SetToSeq(S) \in [1 .. n -> S] /\ IsInjective(SetToSeq(S))
  BY <1>2 DEF SetToSeq
<1>4. SetToSeq(S) \in Injection(1 .. n, S)
  BY <1>3 DEF Injection, IsInjective
<1>5. IsFiniteSet(1 .. n) /\ Cardinality(1 .. n) = n
  BY <1>1, FS_Interval
<1>6. SetToSeq(S) \in Surjection(1 .. n, S)
  BY <1>4, <1>5, FS_Injection
<1> QED
  BY <1>1, <1>3, <1>6 DEF Surjection

LEMMA CopyOrderFacts ==
  ASSUME NEW h, HeapOK(h), NEW a \in DOMAIN h
  PROVE  /\ CopyOrder(h, a) \in Seq(DOMAIN h) /\ Len(CopyOrder(h, a)) \in Nat \ {0}
         /\ DOMAIN CopyOrder(h, a) = 1 .. Len(CopyOrder(h, a))
         /\ CopyOrder(h, a)[1] = a
         /\ \A i \in DOMAIN CopyOrder(h, a) : CopyOrder(h, a)[i] \in Reachable(h, a)
         /\ \A b \in Reachable(h, a) : \E i \in DOMAIN CopyOrder(h, a) :
              CopyOrder(h, a)[i] = b
<1> DEFINE S == Reachable(h, a) \ {a}
           t == SetToSeq(S)
           s == CopyOrder(h, a)
<1>1. a \in Reachable(h, a) /\ Reachable(h, a) \subseteq DOMAIN h
  BY Reached
<1>2. IsFiniteSet(S)
  <2>1. IsFiniteSet(DOMAIN h)
    BY HeapFacts
  <2> QED
    BY <2>1, <1>1, FS_Subset
<1>3. t \in Seq(S) /\ \A x \in S : \E i \in 1 .. Len(t) : t[i] = x
  BY <1>2, Listed
<1>4. s = <<a>> \o t
  BY DEF CopyOrder
<1> HIDE DEF t, s
<1>5. t \in Seq(Reachable(h, a)) /\ \A i \in 1 .. Len(t) : t[i] \in Reachable(h, a)
  BY <1>3
<1>6. /\ s \in Seq(Reachable(h, a)) /\ Len(s) = Len(t) + 1 /\ s[1] = a
      /\ \A i \in 1 .. Len(t) : s[i + 1] = t[i]
  BY <1>1, <1>4, <1>5
<1>7. Len(t) \in Nat /\ DOMAIN s = 1 .. Len(s) /\ 1 \in DOMAIN s
  BY <1>5, <1>6
<1>8. ASSUME NEW b \in Reachable(h, a) PROVE \E i \in DOMAIN s : s[i] = b
  <2>1. CASE b = a
    BY <1>6, <1>7, <2>1
  <2>2. CASE b # a
    <3>1. PICK i \in 1 .. Len(t) : t[i] = b
      BY <1>3, <2>2
    <3>2. i + 1 \in DOMAIN s
      BY <1>6, <1>7
    <3> QED
      BY <1>6, <3>1, <3>2
  <2> QED
    BY <2>1, <2>2
<1>9. s \in Seq(DOMAIN h) /\ \A i \in DOMAIN s : s[i] \in Reachable(h, a)
  BY <1>1, <1>6
<1> QED
  BY <1>6, <1>7, <1>8, <1>9 DEF s

(* What is copied: order lists the objects below a, a first, and the copy  *)
(* of the i-th is that many behind the objects there were, with the        *)
(* references it has led to the copies.                                    *)
Copied(h, a, D, order) ==
  /\ order \in Seq(Reachable(h, a)) /\ Len(order) \in Nat \ {0} /\ order[1] = a
  /\ D \in Seq(Object) /\ Len(D) = Len(h) + Len(order)
  /\ \A b \in 1 .. Len(h) : D[b] = h[b]
  /\ \A i \in 1 .. Len(order) :
       /\ D[Len(h) + i].type = h[order[i]].type
       /\ \A f \in Field :
            IF h[order[i]].fields[f].tag = "ref"
            THEN \E j \in 1 .. Len(order) :
                   /\ order[j] = h[order[i]].fields[f].val
                   /\ D[Len(h) + i].fields[f] = Ref(Len(h) + j)
            ELSE D[Len(h) + i].fields[f] = h[order[i]].fields[f]

LEMMA DeepCopyFacts ==
  ASSUME NEW h, HeapOK(h), NEW a \in DOMAIN h
  PROVE  /\ Copied(h, a, DeepCopy(h, a), CopyOrder(h, a))
         /\ HeapOK(DeepCopy(h, a))
<1> DEFINE order == CopyOrder(h, a)
           k == Len(order)
           At(b) == Len(h) + CHOOSE i \in DOMAIN order : order[i] = b
           Moved(v) == IF v.tag = "ref" THEN Ref(At(v.val)) ELSE v
           copies == [i \in DOMAIN order |->
                        [h[order[i]] EXCEPT !.fields = [f \in Field |-> Moved(@[f])]]]
           D == DeepCopy(h, a)
<1>1. D = h \o copies
  BY DEF DeepCopy
<1>2. /\ order \in Seq(DOMAIN h) /\ k \in Nat \ {0} /\ DOMAIN order = 1 .. k
      /\ order[1] = a
      /\ \A i \in 1 .. k : order[i] \in Reachable(h, a) /\ order[i] \in DOMAIN h
      /\ \A b \in Reachable(h, a) : \E i \in 1 .. k : order[i] = b
  BY CopyOrderFacts
<1> HIDE DEF order
<1>3. h \in Seq(Object) /\ Len(h) \in Nat /\ DOMAIN h = 1 .. Len(h)
  BY HeapFacts DEF HeapOK
<1>4. ASSUME NEW i \in 1 .. k, NEW f \in Field, h[order[i]].fields[f].tag = "ref"
      PROVE  \E j \in 1 .. k : /\ order[j] = h[order[i]].fields[f].val
                               /\ Moved(h[order[i]].fields[f]) = Ref(Len(h) + j)
  <2> DEFINE b == h[order[i]].fields[f].val
  <2>1. b \in Children(h, order[i])
    BY <1>4 DEF Children
  <2>2. b \in Reachable(h, a)
    BY <1>2, <2>1, Reached
  <2>3. \E j \in DOMAIN order : order[j] = b
    BY <1>2, <2>2
  <2>4. /\ (CHOOSE j \in DOMAIN order : order[j] = b) \in 1 .. k
        /\ order[CHOOSE j \in DOMAIN order : order[j] = b] = b
    BY <1>2, <2>3
  <2> QED
    BY <1>4, <2>4
<1>5. ASSUME NEW i \in 1 .. k
      PROVE  /\ copies[i] = [type |-> h[order[i]].type,
                             fields |-> [f \in Field |-> Moved(h[order[i]].fields[f])]]
             /\ copies[i] \in Object
  <2>1. h[order[i]] \in Object /\ h[order[i]].fields \in [Field -> Value]
        /\ \A f \in Field : h[order[i]].fields[f] \in Value
    BY <1>2, HeapFacts
  <2>2. copies[i] = [h[order[i]] EXCEPT
                       !.fields = [f \in Field |-> Moved(h[order[i]].fields[f])]]
    BY <1>2
  <2>3. \A f \in Field : Moved(h[order[i]].fields[f]) \in Value
    <3> TAKE f \in Field
    <3>1. CASE h[order[i]].fields[f].tag = "ref"
      <4>1. PICK j \in 1 .. k : Moved(h[order[i]].fields[f]) = Ref(Len(h) + j)
        BY <1>4, <3>1
      <4>2. Len(h) + j \in Nat
        BY <1>2, <1>3
      <4> HIDE DEF Moved
      <4> QED
        BY <4>1, <4>2 DEF Ref, Value, Tags
    <3>2. CASE h[order[i]].fields[f].tag # "ref"
      BY <2>1, <3>2
    <3> QED
      BY <3>1, <3>2
  <2> HIDE DEF Moved, copies
  <2>4. copies[i] = [type |-> h[order[i]].type,
                     fields |-> [f \in Field |-> Moved(h[order[i]].fields[f])]]
    BY <2>1, <2>2 DEF Object
  <2> QED
    BY <2>1, <2>3, <2>4 DEF Object
<1>6. copies \in Seq(Object) /\ Len(copies) = k
  <2>1. copies \in [1 .. k -> Object]
    <3> HIDE DEF Moved
    <3>1. DOMAIN copies = 1 .. k /\ copies = [i \in 1 .. k |-> copies[i]]
      BY <1>2
    <3> HIDE DEF copies
    <3> QED
      BY <1>5, <3>1
  <2> HIDE DEF copies, k
  <2>2. k \in Nat
    BY <1>2
  <2> QED
    BY <2>1, <2>2
<1> HIDE DEF copies, Moved, k, D
<1>7. /\ D \in Seq(Object) /\ Len(D) = Len(h) + k /\ DOMAIN D = 1 .. Len(h) + k
      /\ \A b \in 1 .. Len(h) : D[b] = h[b]
      /\ \A i \in 1 .. k : D[Len(h) + i] = copies[i]
  BY <1>1, <1>2, <1>3, <1>6
<1>8. ASSUME NEW i \in 1 .. k
      PROVE  /\ D[Len(h) + i].type = h[order[i]].type
             /\ \A f \in Field : D[Len(h) + i].fields[f] = Moved(h[order[i]].fields[f])
  <2>1. D[Len(h) + i] = copies[i]
    BY <1>7
  <2> DEFINE type == h[order[i]].type
             fields == [f \in Field |-> Moved(h[order[i]].fields[f])]
  <2>2. copies[i] = [type |-> type, fields |-> fields]
    BY <1>5
  <2> HIDE DEF type, fields
  <2>3. D[Len(h) + i].type = type /\ D[Len(h) + i].fields = fields
    BY <2>1, <2>2
  <2>4. \A f \in Field : fields[f] = Moved(h[order[i]].fields[f])
    BY DEF fields
  <2> QED
    BY <2>3, <2>4 DEF type
<1>9. ASSUME NEW i \in 1 .. k, NEW f \in Field
      PROVE  IF h[order[i]].fields[f].tag = "ref"
             THEN \E j \in 1 .. k :
                    /\ order[j] = h[order[i]].fields[f].val
                    /\ D[Len(h) + i].fields[f] = Ref(Len(h) + j)
             ELSE D[Len(h) + i].fields[f] = h[order[i]].fields[f]
  BY <1>4, <1>8 DEF Moved
<1>10. Copied(h, a, D, order)
  <2>1. order \in Seq(Reachable(h, a))
    BY <1>2 DEF k
  <2> QED
    BY <1>2, <1>7, <1>8, <1>9, <2>1 DEF Copied, k
<1>11. ASSUME NEW b \in DOMAIN D, NEW f \in Field, D[b].fields[f].tag = "ref"
       PROVE  D[b].fields[f].val \in DOMAIN D
  <2>1. CASE b \in 1 .. Len(h)
    <3>1. D[b].fields[f].val \in 1 .. Len(h)
      BY <1>3, <1>7, <1>11, <2>1 DEF HeapOK
    <3>2. 1 .. Len(h) \subseteq 1 .. Len(h) + k
      BY <1>2, <1>3
    <3> QED
      BY <1>7, <3>1, <3>2
  <2>2. CASE b \notin 1 .. Len(h)
    <3>1. b - Len(h) \in 1 .. k /\ Len(h) + (b - Len(h)) = b
      BY <1>2, <1>3, <1>7, <2>2
    <3>2. PICK i \in 1 .. k : b = Len(h) + i
      BY <3>1
    <3>3. CASE h[order[i]].fields[f].tag = "ref"
      <4>1. PICK j \in 1 .. k : D[b].fields[f] = Ref(Len(h) + j)
        BY <1>9, <3>2, <3>3
      <4>2. D[b].fields[f].val = Len(h) + j
        BY <4>1 DEF Ref
      <4> QED
        BY <1>2, <1>3, <1>7, <4>2
    <3>4. CASE h[order[i]].fields[f].tag # "ref"
      <4>1. D[b].fields[f] = h[order[i]].fields[f]
        BY <1>9, <3>2, <3>4
      <4> QED
        BY <1>11, <3>4, <4>1
    <3> QED
      BY <3>3, <3>4
  <2> QED
    BY <2>1, <2>2
<1>12. HeapOK(D)
  BY <1>7, <1>11 DEF HeapOK
<1> QED
  BY <1>10, <1>12 DEF D, order

-----------------------------------------------------------------------------
(* What the steps do to a heap: they store a value in a field, append a    *)
(* new object, append a copy, or give an object another type.              *)
RefsTo(v, D) == v.tag = "ref" => v.val \in D

LEMMA PutFacts ==
  ASSUME NEW h, HeapOK(h), NEW o \in DOMAIN h, NEW f \in Field, NEW v \in Value,
         RefsTo(v, DOMAIN h)
  PROVE  /\ HeapOK(Put(h, o, f, v)) /\ DOMAIN Put(h, o, f, v) = DOMAIN h
         /\ Len(Put(h, o, f, v)) = Len(h)
         /\ \A b \in DOMAIN h :
              /\ Put(h, o, f, v)[b].type = h[b].type
              /\ b # o => Put(h, o, f, v)[b] = h[b]
              /\ \A g \in Field : Put(h, o, f, v)[b].fields[g] =
                                    IF b = o /\ g = f THEN v ELSE h[b].fields[g]
<1> DEFINE p == Put(h, o, f, v)
           y == [h[o] EXCEPT !.fields = [h[o].fields EXCEPT ![f] = v]]
<1>1. h \in Seq(Object) /\ DOMAIN h = 1 .. Len(h) /\ Len(h) \in Nat
      /\ h[o] \in Object /\ h[o].fields \in [Field -> Value]
  BY HeapFacts DEF HeapOK
<1>2. p = [h EXCEPT ![o] = y]
  BY DEF Put
<1>3. y \in Object /\ y.type = h[o].type
      /\ \A g \in Field : y.fields[g] = IF g = f THEN v ELSE h[o].fields[g]
  <2> DEFINE z == [h[o].fields EXCEPT ![f] = v]
  <2>1. z \in [Field -> Value] /\ \A g \in Field : z[g] = IF g = f THEN v ELSE h[o].fields[g]
    BY <1>1
  <2> HIDE DEF z
  <2>2. y = [h[o] EXCEPT !.fields = z]
    BY DEF z
  <2> HIDE DEF y
  <2>3. y = [type |-> h[o].type, fields |-> z] /\ h[o].type \in Struct \cup {"list"}
    BY <1>1, <2>2 DEF Object
  <2> QED
    BY <2>1, <2>3 DEF Object
<1> HIDE DEF y, p
<1>4. p \in Seq(Object) /\ DOMAIN p = DOMAIN h /\ Len(p) = Len(h)
      /\ \A b \in DOMAIN h : p[b] = IF b = o THEN y ELSE h[b]
  BY <1>1, <1>2, <1>3
<1>5. \A b \in DOMAIN h :
        /\ p[b].type = h[b].type /\ (b # o => p[b] = h[b])
        /\ \A g \in Field : p[b].fields[g] = IF b = o /\ g = f THEN v ELSE h[b].fields[g]
  BY <1>3, <1>4
<1>6. ASSUME NEW b \in DOMAIN p, NEW g \in Field, p[b].fields[g].tag = "ref"
      PROVE  p[b].fields[g].val \in DOMAIN p
  BY <1>4, <1>5, <1>6 DEF HeapOK, RefsTo
<1> QED
  BY <1>4, <1>5, <1>6 DEF HeapOK, p

LEMMA AppendFacts ==
  ASSUME NEW h, HeapOK(h), NEW x \in Object,
         \A f \in Field : RefsTo(x.fields[f], DOMAIN h)
  PROVE  /\ HeapOK(Append(h, x)) /\ DOMAIN Append(h, x) = DOMAIN h \cup {Len(h) + 1}
         /\ Len(Append(h, x)) = Len(h) + 1 /\ Len(h) + 1 \notin DOMAIN h
         /\ Append(h, x)[Len(h) + 1] = x
         /\ \A b \in DOMAIN h : Append(h, x)[b] = h[b]
<1> DEFINE p == Append(h, x)
<1>1. h \in Seq(Object) /\ DOMAIN h = 1 .. Len(h) /\ Len(h) \in Nat
  BY HeapFacts DEF HeapOK
<1>2. /\ p \in Seq(Object) /\ Len(p) = Len(h) + 1 /\ DOMAIN p = 1 .. Len(h) + 1
      /\ p[Len(h) + 1] = x /\ \A b \in 1 .. Len(h) : p[b] = h[b]
  BY <1>1
<1>3. 1 .. Len(h) + 1 = 1 .. Len(h) \cup {Len(h) + 1} /\ Len(h) + 1 \notin 1 .. Len(h)
  BY <1>1
<1> HIDE DEF p
<1>4. ASSUME NEW b \in DOMAIN p, NEW g \in Field, p[b].fields[g].tag = "ref"
      PROVE  p[b].fields[g].val \in DOMAIN p
  <2>1. CASE b = Len(h) + 1
    BY <1>1, <1>2, <1>3, <1>4, <2>1 DEF RefsTo
  <2>2. CASE b # Len(h) + 1
    <3>1. b \in DOMAIN h /\ p[b] = h[b]
      BY <1>1, <1>2, <1>3, <2>2
    <3> QED
      BY <1>1, <1>2, <1>3, <1>4, <3>1 DEF HeapOK
  <2> QED
    BY <2>1, <2>2
<1> QED
  BY <1>1, <1>2, <1>3, <1>4 DEF HeapOK, p

LEMMA BlankFacts ==
  ASSUME NEW t \in Struct
  PROVE  /\ BlankStruct(t) \in Object /\ BlankStruct(t).type = t
         /\ \A f \in Field :
              /\ BlankStruct(t).fields[f] = IF FieldType[t][f] = "none" THEN Absent ELSE Uninit
              /\ BlankStruct(t).fields[f].tag # "ref"
<1>1. Absent \in Value /\ Uninit \in Value /\ Absent.tag # "ref" /\ Uninit.tag # "ref"
  BY DEF Absent, Uninit, Value, Tags
<1> DEFINE x == [f \in Field |-> IF FieldType[t][f] = "none" THEN Absent ELSE Uninit]
<1>2. BlankStruct(t) = [type |-> t, fields |-> x]
  BY DEF BlankStruct
<1>3. x \in [Field -> Value] /\ \A f \in Field :
        x[f] = (IF FieldType[t][f] = "none" THEN Absent ELSE Uninit) /\ x[f].tag # "ref"
  BY <1>1
<1> HIDE DEF x
<1> QED
  BY <1>2, <1>3 DEF Object

LEMMA ElemIsField == Elem \in Field
BY TypesAssumption DEF TypesAssumption, Elem

LEMMA NewListFacts ==
  ASSUME NEW v \in Value
  PROVE  /\ NewList(v) \in Object /\ NewList(v).type = "list"
         /\ \A f \in Field :
              NewList(v).fields[f] = v \/ NewList(v).fields[f].tag # "ref"
<1>1. Absent \in Value /\ Absent.tag # "ref"
  BY DEF Absent, Value, Tags
<1> DEFINE x == [f \in Field |-> IF f = Elem THEN v ELSE Absent]
<1>2. NewList(v) = [type |-> "list", fields |-> x]
  BY DEF NewList
<1>3. x \in [Field -> Value] /\ \A f \in Field : x[f] = v \/ x[f].tag # "ref"
  BY <1>1
<1> HIDE DEF x
<1> QED
  BY <1>2, <1>3 DEF Object

LEMMA RetypeFacts ==
  ASSUME NEW h, HeapOK(h), NEW a \in DOMAIN h, NEW t \in Struct
  PROVE  LET p == [h EXCEPT ![a].type = t]
         IN  /\ HeapOK(p) /\ DOMAIN p = DOMAIN h /\ Len(p) = Len(h)
             /\ p[a].type = t /\ (h[a].type = t => p = h)
             /\ \A b \in DOMAIN h : /\ b # a => p[b] = h[b]
                                    /\ p[b].fields = h[b].fields
<1> DEFINE p == [h EXCEPT ![a].type = t]
           y == [h[a] EXCEPT !.type = t]
<1>1. h \in Seq(Object) /\ DOMAIN h = 1 .. Len(h) /\ Len(h) \in Nat /\ h[a] \in Object
  BY HeapFacts DEF HeapOK
<1>2. p = [h EXCEPT ![a] = y]
  OBVIOUS
<1>3. y = [type |-> t, fields |-> h[a].fields] /\ h[a].fields \in [Field -> Value]
      /\ h[a] = [type |-> h[a].type, fields |-> h[a].fields]
  BY <1>1 DEF Object
<1> HIDE DEF y, p
<1>4. y \in Object /\ y.type = t /\ y.fields = h[a].fields /\ (h[a].type = t => y = h[a])
  BY <1>3 DEF Object
<1>5. p \in Seq(Object) /\ DOMAIN p = DOMAIN h /\ Len(p) = Len(h)
      /\ \A b \in DOMAIN h : p[b] = IF b = a THEN y ELSE h[b]
  BY <1>1, <1>2, <1>4
<1>6. \A b \in DOMAIN h : p[b].fields = h[b].fields
  BY <1>4, <1>5
<1>7. h[a].type = t => p = h
  <2>1. p \in [1 .. Len(h) -> Object] /\ h \in [1 .. Len(h) -> Object]
    BY <1>1, <1>5
  <2>2. h[a].type = t => \A b \in 1 .. Len(h) : p[b] = h[b]
    BY <1>1, <1>4, <1>5
  <2> QED
    BY <2>1, <2>2
<1>8. HeapOK(p)
  BY <1>5, <1>6 DEF HeapOK
<1> QED
  BY <1>4, <1>5, <1>6, <1>7, <1>8 DEF p

-----------------------------------------------------------------------------
(* An address that no reference crosses, in either direction.              *)
Cut(h, a) ==
  \A b \in DOMAIN h : \A f \in Field :
    h[b].fields[f].tag = "ref" => (b < a <=> h[b].fields[f].val < a)

(* The end of the heap is one, and what the steps append keeps all there   *)
(* are: a new object refers to none before the cut.                        *)
LEMMA CutAtEnd ==
  ASSUME NEW h, HeapOK(h)
  PROVE  Cut(h, Len(h) + 1)
BY HeapFacts DEF Cut, HeapOK

LEMMA CutPut ==
  ASSUME NEW h, HeapOK(h), NEW o \in DOMAIN h, NEW f \in Field, NEW v \in Value,
         RefsTo(v, DOMAIN h), NEW a \in Nat, Cut(h, a),
         v.tag = "ref" => (o < a <=> v.val < a)
  PROVE  Cut(Put(h, o, f, v), a)
<1> DEFINE p == Put(h, o, f, v)
<1>1. DOMAIN p = DOMAIN h /\ \A b \in DOMAIN h : \A g \in Field :
        p[b].fields[g] = IF b = o /\ g = f THEN v ELSE h[b].fields[g]
  BY PutFacts
<1> HIDE DEF p
<1>2. ASSUME NEW b \in DOMAIN p, NEW g \in Field, p[b].fields[g].tag = "ref"
      PROVE  b < a <=> p[b].fields[g].val < a
  BY <1>1, <1>2 DEF Cut
<1> QED
  BY <1>2 DEF Cut, p

LEMMA CutAppend ==
  ASSUME NEW h, HeapOK(h), NEW x \in Object,
         \A f \in Field : RefsTo(x.fields[f], DOMAIN h),
         NEW a \in DOMAIN h, Cut(h, a),
         \A f \in Field : x.fields[f].tag = "ref" => ~(x.fields[f].val < a)
  PROVE  Cut(Append(h, x), a)
<1> DEFINE p == Append(h, x)
<1>1. /\ DOMAIN p = DOMAIN h \cup {Len(h) + 1} /\ p[Len(h) + 1] = x
      /\ \A b \in DOMAIN h : p[b] = h[b]
  BY AppendFacts
<1>2. ~(Len(h) + 1 < a)
  BY HeapFacts
<1> HIDE DEF p
<1>3. ASSUME NEW b \in DOMAIN p, NEW g \in Field, p[b].fields[g].tag = "ref"
      PROVE  b < a <=> p[b].fields[g].val < a
  BY <1>1, <1>2, <1>3 DEF Cut
<1> QED
  BY <1>3 DEF Cut, p

LEMMA CutCopy ==
  ASSUME NEW h, HeapOK(h), NEW s \in DOMAIN h, NEW a \in 1 .. Len(h) + 1, Cut(h, a)
  PROVE  Cut(DeepCopy(h, s), a)
<1> DEFINE p == DeepCopy(h, s)
           order == CopyOrder(h, s)
<1>1. Copied(h, s, p, order) /\ HeapOK(p)
  BY DeepCopyFacts
<1> HIDE DEF p, order
<1>2. Len(h) \in Nat /\ DOMAIN h = 1 .. Len(h) /\ DOMAIN p = 1 .. Len(h) + Len(order)
      /\ Len(order) \in Nat
  BY <1>1, HeapFacts DEF Copied
<1>3. ASSUME NEW b \in DOMAIN p, NEW g \in Field, p[b].fields[g].tag = "ref"
      PROVE  b < a <=> p[b].fields[g].val < a
  <2>1. CASE b \in 1 .. Len(h)
    BY <1>1, <1>2, <1>3, <2>1 DEF Cut, Copied
  <2>2. CASE b \notin 1 .. Len(h)
    <3>1. b - Len(h) \in 1 .. Len(order) /\ Len(h) + (b - Len(h)) = b
      BY <1>2, <2>2
    <3>2. PICK i \in 1 .. Len(order) : b = Len(h) + i
      BY <3>1
    <3>3. IF h[order[i]].fields[g].tag = "ref"
          THEN \E j \in 1 .. Len(order) : p[b].fields[g] = Ref(Len(h) + j)
          ELSE p[b].fields[g] = h[order[i]].fields[g]
      BY <1>1, <3>2 DEF Copied
    <3>4. PICK j \in 1 .. Len(order) : p[b].fields[g] = Ref(Len(h) + j)
      BY <1>3, <3>3
    <3>5. p[b].fields[g].val = Len(h) + j
      BY <3>4 DEF Ref
    <3> QED
      BY <1>2, <3>2, <3>5
  <2> QED
    BY <2>1, <2>2
<1> QED
  BY <1>3 DEF Cut, p

(* Retyping an object moves no reference.                                  *)
LEMMA CutRetype ==
  ASSUME NEW h, HeapOK(h), NEW o \in DOMAIN h, NEW t \in Struct, NEW a, Cut(h, a)
  PROVE  Cut([h EXCEPT ![o].type = t], a)
<1> DEFINE p == [h EXCEPT ![o].type = t]
<1>1. DOMAIN p = DOMAIN h /\ \A b \in DOMAIN h : p[b].fields = h[b].fields
  BY RetypeFacts
<1> HIDE DEF p
<1>2. ASSUME NEW b \in DOMAIN p, NEW g \in Field, p[b].fields[g].tag = "ref"
      PROVE  b < a <=> p[b].fields[g].val < a
  BY <1>1, <1>2 DEF Cut
<1> QED
  BY <1>2 DEF Cut, p

(* What is reached from behind a cut lies behind it, and from before it    *)
(* before it.                                                              *)
LEMMA CutSeparates ==
  ASSUME NEW h, HeapOK(h), NEW a \in Nat, Cut(h, a), NEW b \in DOMAIN h,
         NEW c \in Reachable(h, b)
  PROVE  c \in DOMAIN h /\ (c < a <=> b < a)
<1> DEFINE T == {d \in DOMAIN h : d < a <=> b < a}
<1>1. ASSUME NEW d \in T PROVE Children(h, d) \subseteq T
  BY HeapFacts DEF Cut, Children
<1>2. Reachable(h, b) \subseteq T
  <2>1. b \in T /\ T \in SUBSET DOMAIN h
    OBVIOUS
  <2> HIDE DEF T
  <2> QED
    BY <1>1, <2>1, Reached
<1> QED
  BY <1>2

-----------------------------------------------------------------------------
(* Every field of every struct that has a value has one of the kind its    *)
(* type declares.                                                          *)
Typed(h) ==
  \A b \in DOMAIN h : h[b].type \in Struct =>
    \A f \in Field :
      h[b].fields[f] = Uninit \/ Fits(h, FieldType[h[b].type][f], h[b].fields[f])

LEMMA FitsKept ==
  ASSUME NEW h, NEW p, NEW v, NEW k, RefsTo(v, DOMAIN h),
         \A b \in DOMAIN h : p[b].type = h[b].type
  PROVE  Fits(p, k, v) <=> Fits(h, k, v)
BY DEF Fits, RefsTo

LEMMA TypedPut ==
  ASSUME NEW h, HeapOK(h), Typed(h), NEW o \in DOMAIN h, NEW f \in Field,
         NEW v \in Value, RefsTo(v, DOMAIN h),
         h[o].type \in Struct => Fits(h, FieldType[h[o].type][f], v)
  PROVE  Typed(Put(h, o, f, v))
<1> DEFINE p == Put(h, o, f, v)
<1>1. DOMAIN p = DOMAIN h /\ \A b \in DOMAIN h :
        p[b].type = h[b].type /\ \A g \in Field :
          p[b].fields[g] = IF b = o /\ g = f THEN v ELSE h[b].fields[g]
  BY PutFacts
<1> HIDE DEF p
<1>2. ASSUME NEW b \in DOMAIN p, p[b].type \in Struct, NEW g \in Field
      PROVE  p[b].fields[g] = Uninit \/ Fits(p, FieldType[p[b].type][g], p[b].fields[g])
  <2> DEFINE k == FieldType[p[b].type][g]
  <2>1. k = FieldType[h[b].type][g] /\ h[b].type \in Struct
    BY <1>1, <1>2
  <2>2. p[b].fields[g] = Uninit \/ Fits(h, k, p[b].fields[g])
    BY <1>1, <1>2, <2>1 DEF Typed
  <2>3. RefsTo(p[b].fields[g], DOMAIN h)
    BY <1>1, <1>2 DEF RefsTo, HeapOK
  <2> HIDE DEF k
  <2>4. Fits(p, k, p[b].fields[g]) <=> Fits(h, k, p[b].fields[g])
    BY <1>1, <2>3, FitsKept
  <2> QED
    BY <2>2, <2>4 DEF k
<1> QED
  BY <1>2 DEF Typed, p

LEMMA TypedAppend ==
  ASSUME NEW h, HeapOK(h), Typed(h), NEW x \in Object,
         \A f \in Field : RefsTo(x.fields[f], DOMAIN h),
         x.type \in Struct => \A f \in Field :
            x.fields[f] = Uninit \/ Fits(h, FieldType[x.type][f], x.fields[f])
  PROVE  Typed(Append(h, x))
<1> DEFINE p == Append(h, x)
<1>1. /\ DOMAIN p = DOMAIN h \cup {Len(h) + 1} /\ p[Len(h) + 1] = x
      /\ \A b \in DOMAIN h : p[b] = h[b]
  BY AppendFacts
<1> HIDE DEF p
<1>2. ASSUME NEW b \in DOMAIN p, p[b].type \in Struct, NEW g \in Field
      PROVE  p[b].fields[g] = Uninit \/ Fits(p, FieldType[p[b].type][g], p[b].fields[g])
  <2> DEFINE k == FieldType[p[b].type][g]
  <2>1. (p[b].fields[g] = Uninit \/ Fits(h, k, p[b].fields[g]))
        /\ RefsTo(p[b].fields[g], DOMAIN h)
    BY <1>1, <1>2 DEF Typed, RefsTo, HeapOK
  <2> HIDE DEF k
  <2>2. Fits(p, k, p[b].fields[g]) <=> Fits(h, k, p[b].fields[g])
    BY <1>1, <2>1, FitsKept
  <2> QED
    BY <2>1, <2>2 DEF k
<1> QED
  BY <1>2 DEF Typed, p

LEMMA TypedCopy ==
  ASSUME NEW h, HeapOK(h), Typed(h), NEW s \in DOMAIN h
  PROVE  Typed(DeepCopy(h, s))
<1> DEFINE p == DeepCopy(h, s)
           order == CopyOrder(h, s)
<1>1. Copied(h, s, p, order) /\ HeapOK(p)
  BY DeepCopyFacts
<1> HIDE DEF p, order
<1>2. Len(h) \in Nat /\ DOMAIN h = 1 .. Len(h) /\ DOMAIN p = 1 .. Len(h) + Len(order)
      /\ Len(order) \in Nat /\ \A i \in 1 .. Len(order) : order[i] \in DOMAIN h
  <2>1. Reachable(h, s) \subseteq DOMAIN h
    BY Reached
  <2> QED
    BY <1>1, <2>1, HeapFacts DEF Copied
<1>3. \A b \in DOMAIN h : p[b] = h[b]
  BY <1>1, <1>2 DEF Copied
<1>4. ASSUME NEW b \in DOMAIN p, p[b].type \in Struct, NEW g \in Field
      PROVE  p[b].fields[g] = Uninit \/ Fits(p, FieldType[p[b].type][g], p[b].fields[g])
  <2>1. CASE b \in 1 .. Len(h)
    <3> DEFINE k == FieldType[p[b].type][g]
    <3>1. (p[b].fields[g] = Uninit \/ Fits(h, k, p[b].fields[g]))
          /\ RefsTo(p[b].fields[g], DOMAIN h)
      BY <1>2, <1>3, <1>4, <2>1 DEF Typed, RefsTo, HeapOK
    <3> HIDE DEF k
    <3>2. Fits(p, k, p[b].fields[g]) <=> Fits(h, k, p[b].fields[g])
      BY <1>3, <3>1, FitsKept
    <3> QED
      BY <3>1, <3>2 DEF k
  <2>2. CASE b \notin 1 .. Len(h)
    <3>1. b - Len(h) \in 1 .. Len(order) /\ Len(h) + (b - Len(h)) = b
      BY <1>2, <2>2
    <3>2. PICK i \in 1 .. Len(order) : b = Len(h) + i
      BY <3>1
    <3> DEFINE v == h[order[i]].fields[g]
               k == FieldType[h[order[i]].type][g]
    <3>3. p[b].type = h[order[i]].type /\ order[i] \in DOMAIN h
      BY <1>1, <1>2, <3>2 DEF Copied
    <3>4. v = Uninit \/ Fits(h, k, v)
      BY <1>4, <3>3 DEF Typed
    <3>5. IF v.tag = "ref"
          THEN \E j \in 1 .. Len(order) :
                 order[j] = v.val /\ p[b].fields[g] = Ref(Len(h) + j)
          ELSE p[b].fields[g] = v
      BY <1>1, <3>2 DEF Copied
    <3>6. RefsTo(v, DOMAIN h)
      BY <3>3 DEF RefsTo, HeapOK
    <3> HIDE DEF v, k
    <3>7. CASE v.tag = "ref"
      <4>1. PICK j \in 1 .. Len(order) :
              order[j] = v.val /\ p[b].fields[g] = Ref(Len(h) + j)
        BY <3>5, <3>7
      <4>2. p[Len(h) + j].type = h[v.val].type
        BY <1>1, <4>1 DEF Copied
      <4>3. Fits(h, k, v)
        BY <3>4, <3>7 DEF Uninit
      <4>4. Fits(p, k, p[b].fields[g])
        BY <3>7, <4>1, <4>2, <4>3 DEF Fits, Ref
      <4> QED
        BY <3>3, <4>4 DEF k
    <3>8. CASE v.tag # "ref"
      <4>1. Fits(p, k, v) <=> Fits(h, k, v)
        BY <1>3, <3>6, FitsKept
      <4> QED
        BY <3>3, <3>4, <3>5, <3>8, <4>1 DEF k
    <3> QED
      BY <3>7, <3>8
  <2> QED
    BY <2>1, <2>2
<1> QED
  BY <1>4 DEF Typed, p

-----------------------------------------------------------------------------
(* Objects never contain themselves.  What an object leads to is what it   *)
(* refers to and, for the object of a scope, that of the scope inside it,  *)
(* which it is to refer to when that is done; every non-empty set of       *)
(* objects has a member that leads to no other.                            *)
Refers(h, b, c) == \E f \in Field : h[b].fields[f].tag = "ref" /\ h[b].fields[f].val = c
Encloses(fr, b, c) == \E k \in 1 .. Len(fr) - 1 : fr[k].obj = b /\ fr[k + 1].obj = c
Leads(h, fr, b, c) == Refers(h, b, c) \/ Encloses(fr, b, c)
HasLast(h, fr, T) == \E b \in T : \A c \in T : ~Leads(h, fr, b, c)
Acyclic(h, fr) == \A T \in SUBSET DOMAIN h : T # {} => HasLast(h, fr, T)

LEMMA FewerLeads ==
  ASSUME NEW h, NEW fr, NEW p, NEW gr, Acyclic(h, fr), DOMAIN p = DOMAIN h,
         \A b, c \in DOMAIN h : Leads(p, gr, b, c) => Leads(h, fr, b, c)
  PROVE  Acyclic(p, gr)
BY DEF Acyclic, HasLast

LEMMA MoreObjects ==
  ASSUME NEW h, NEW fr, NEW p, NEW gr, NEW New, Acyclic(h, fr),
         DOMAIN p = DOMAIN h \cup New,
         \A b, c \in DOMAIN h : Leads(p, gr, b, c) => Leads(h, fr, b, c),
         \A b \in New : \A c \in DOMAIN h : ~Leads(p, gr, b, c),
         \A T \in SUBSET New : T # {} => HasLast(p, gr, T)
  PROVE  Acyclic(p, gr)
<1> SUFFICES ASSUME NEW T \in SUBSET DOMAIN p, T # {} PROVE HasLast(p, gr, T)
  BY DEF Acyclic
<1>1. CASE T \cap New = {}
  <2>1. HasLast(h, fr, T) /\ T \subseteq DOMAIN h
    BY <1>1 DEF Acyclic
  <2> QED
    BY <2>1 DEF HasLast
<1>2. CASE T \cap New # {}
  <2>1. HasLast(p, gr, T \cap New)
    BY <1>2
  <2> QED
    BY <2>1 DEF HasLast
<1> QED
  BY <1>1, <1>2

(* A copy of objects without a cycle has none, and leads nowhere else.     *)
LEMMA AcyclicCopy ==
  ASSUME NEW h, HeapOK(h), NEW s \in DOMAIN h, NEW fr, NEW gr, Acyclic(h, fr),
         \A b, c \in DOMAIN h : Encloses(gr, b, c) => Encloses(fr, b, c),
         \A b, c : Encloses(gr, b, c) => b \in DOMAIN h
  PROVE  Acyclic(DeepCopy(h, s), gr)
<1> DEFINE p == DeepCopy(h, s)
           order == CopyOrder(h, s)
           New == {Len(h) + i : i \in 1 .. Len(order)}
<1>1. Copied(h, s, p, order) /\ HeapOK(p)
  BY DeepCopyFacts
<1> HIDE DEF p, order
<1>2. Len(h) \in Nat /\ DOMAIN h = 1 .. Len(h) /\ DOMAIN p = 1 .. Len(h) + Len(order)
      /\ Len(order) \in Nat /\ \A i \in 1 .. Len(order) : order[i] \in DOMAIN h
  <2>1. Reachable(h, s) \subseteq DOMAIN h
    BY Reached
  <2> QED
    BY <1>1, <2>1, HeapFacts DEF Copied
<1>3. \A b \in DOMAIN h : p[b] = h[b]
  BY <1>1, <1>2 DEF Copied
<1>4. DOMAIN p = DOMAIN h \cup New /\ New \cap DOMAIN h = {}
  <2>1. ASSUME NEW b \in DOMAIN p, b \notin DOMAIN h PROVE b \in New
    <3>1. b - Len(h) \in 1 .. Len(order) /\ Len(h) + (b - Len(h)) = b
      BY <1>2, <2>1
    <3> QED
      BY <3>1
  <2>2. ASSUME NEW b \in New PROVE b \in DOMAIN p /\ b \notin DOMAIN h
    BY <1>2, <2>2
  <2>3. DOMAIN h \subseteq DOMAIN p
    BY <1>2
  <2> QED
    BY <2>1, <2>2, <2>3
<1>5. \A b, c \in DOMAIN h : Leads(p, gr, b, c) => Leads(h, fr, b, c)
  BY <1>3 DEF Leads, Refers
<1>6. ASSUME NEW i \in 1 .. Len(order), NEW c, Leads(p, gr, Len(h) + i, c)
      PROVE  \E j \in 1 .. Len(order) :
               c = Len(h) + j /\ Leads(h, fr, order[i], order[j])
  <2>1. Refers(p, Len(h) + i, c)
    BY <1>4, <1>6 DEF Leads
  <2>2. PICK f \in Field : p[Len(h) + i].fields[f].tag = "ref"
                           /\ p[Len(h) + i].fields[f].val = c
    BY <2>1 DEF Refers
  <2>3. IF h[order[i]].fields[f].tag = "ref"
        THEN \E j \in 1 .. Len(order) :
               /\ order[j] = h[order[i]].fields[f].val
               /\ p[Len(h) + i].fields[f] = Ref(Len(h) + j)
        ELSE p[Len(h) + i].fields[f] = h[order[i]].fields[f]
    BY <1>1 DEF Copied
  <2>4. h[order[i]].fields[f].tag = "ref"
    BY <2>2, <2>3
  <2>5. PICK j \in 1 .. Len(order) :
          /\ order[j] = h[order[i]].fields[f].val
          /\ p[Len(h) + i].fields[f] = Ref(Len(h) + j)
    BY <2>3, <2>4
  <2>6. c = Len(h) + j
    BY <2>2, <2>5 DEF Ref
  <2> QED
    BY <2>4, <2>5, <2>6 DEF Leads, Refers
<1>7. \A b \in New : \A c \in DOMAIN h : ~Leads(p, gr, b, c)
  BY <1>4, <1>6
<1>8. ASSUME NEW T \in SUBSET New, T # {} PROVE HasLast(p, gr, T)
  <2> DEFINE U == {order[i] : i \in {j \in 1 .. Len(order) : Len(h) + j \in T}}
  <2>1. U \in SUBSET DOMAIN h /\ U # {}
    BY <1>2, <1>8
  <2>2. HasLast(h, fr, U)
    BY <2>1 DEF Acyclic
  <2>3. PICK i \in 1 .. Len(order) :
          Len(h) + i \in T /\ \A c \in U : ~Leads(h, fr, order[i], c)
    BY <2>2 DEF HasLast
  <2>4. ASSUME NEW c \in T, Leads(p, gr, Len(h) + i, c) PROVE FALSE
    <3>1. PICK j \in 1 .. Len(order) :
            c = Len(h) + j /\ Leads(h, fr, order[i], order[j])
      BY <1>6, <2>4
    <3> QED
      BY <2>3, <2>4, <3>1
  <2> QED
    BY <2>3, <2>4 DEF HasLast
<1> HIDE DEF New
<1> QED
  BY <1>4, <1>5, <1>7, <1>8, MoreObjects DEF p

(* One object more that refers to nothing.                                 *)
LEMMA AcyclicAppend ==
  ASSUME NEW h, HeapOK(h), NEW x \in Object, \A f \in Field : x.fields[f].tag # "ref",
         NEW fr, NEW gr, Acyclic(h, fr),
         \A b, c \in DOMAIN h : Encloses(gr, b, c) => Encloses(fr, b, c),
         \A b, c : Encloses(gr, b, c) => b \in DOMAIN h
  PROVE  Acyclic(Append(h, x), gr)
<1> DEFINE p == Append(h, x)
<1>1. /\ DOMAIN p = DOMAIN h \cup {Len(h) + 1} /\ p[Len(h) + 1] = x
      /\ Len(h) + 1 \notin DOMAIN h /\ \A b \in DOMAIN h : p[b] = h[b]
  BY AppendFacts DEF RefsTo
<1> HIDE DEF p
<1>2. \A b, c \in DOMAIN h : Leads(p, gr, b, c) => Leads(h, fr, b, c)
  BY <1>1 DEF Leads, Refers
<1>3. \A c : ~Leads(p, gr, Len(h) + 1, c)
  BY <1>1 DEF Leads, Refers
<1>4. \A T \in SUBSET {Len(h) + 1} : T # {} => HasLast(p, gr, T)
  BY <1>3 DEF HasLast
<1>5. Acyclic(p, gr)
  <2> DEFINE New == {Len(h) + 1}
  <2>1. /\ DOMAIN p = DOMAIN h \cup New
        /\ \A b \in New : \A c \in DOMAIN h : ~Leads(p, gr, b, c)
        /\ \A T \in SUBSET New : T # {} => HasLast(p, gr, T)
    BY <1>1, <1>3, <1>4
  <2> HIDE DEF New
  <2> QED
    BY <1>2, <2>1, MoreObjects
<1> QED
  BY <1>5 DEF p

(* A new list put between an object and one it leads to.                   *)
LEMMA AcyclicList ==
  ASSUME NEW h, HeapOK(h), NEW v \in Value, RefsTo(v, DOMAIN h), NEW fr,
         Acyclic(h, fr), NEW o \in DOMAIN h, NEW f \in Field,
         v.tag = "ref" => Leads(h, fr, o, v.val),
         \A b, c : Encloses(fr, b, c) => b \in DOMAIN h /\ c \in DOMAIN h
  PROVE  Acyclic(Put(Append(h, NewList(v)), o, f, Ref(Len(h) + 1)), fr)
<1> DEFINE q == Append(h, NewList(v))
           p == Put(q, o, f, Ref(Len(h) + 1))
           l == Len(h) + 1
<1>1. /\ HeapOK(q) /\ DOMAIN q = DOMAIN h \cup {l} /\ q[l] = NewList(v)
      /\ l \notin DOMAIN h /\ l \in Nat /\ \A b \in DOMAIN h : q[b] = h[b]
      /\ \A g \in Field : NewList(v).fields[g] = v \/ NewList(v).fields[g].tag # "ref"
  BY AppendFacts, NewListFacts, HeapFacts DEF RefsTo
<1>2. /\ DOMAIN p = DOMAIN q /\ \A b \in DOMAIN q : \A g \in Field :
           p[b].fields[g] = IF b = o /\ g = f THEN Ref(l) ELSE q[b].fields[g]
  <2>1. Ref(l) \in Value /\ RefsTo(Ref(l), DOMAIN q)
    BY <1>1 DEF Ref, Value, Tags, RefsTo
  <2>2. p = Put(q, o, f, Ref(l)) /\ o \in DOMAIN q
    BY <1>1
  <2>3. HeapOK(q)
    BY <1>1
  <2> HIDE DEF p, q, l
  <2>4. /\ DOMAIN Put(q, o, f, Ref(l)) = DOMAIN q
        /\ \A b \in DOMAIN q : \A g \in Field :
             Put(q, o, f, Ref(l))[b].fields[g] =
               IF b = o /\ g = f THEN Ref(l) ELSE q[b].fields[g]
    BY <2>1, <2>2, <2>3, PutFacts
  <2> QED
    BY <2>2, <2>4
<1> HIDE DEF p, q, l
<1>3. ASSUME NEW b \in DOMAIN h, NEW c \in DOMAIN h, Leads(p, fr, b, c)
      PROVE  Leads(h, fr, b, c)
  BY <1>1, <1>2, <1>3 DEF Leads, Refers, Ref
<1>4. ASSUME NEW b \in DOMAIN h, Leads(p, fr, b, l) PROVE b = o
  <2>1. Refers(p, b, l)
    BY <1>1, <1>4 DEF Leads
  <2>2. PICK g \in Field : p[b].fields[g].tag = "ref" /\ p[b].fields[g].val = l
    BY <2>1 DEF Refers
  <2>3. h[b].fields[g].tag = "ref" => h[b].fields[g].val # l
    BY <1>1 DEF HeapOK
  <2> QED
    BY <1>1, <1>2, <2>2, <2>3
<1>5. ASSUME NEW c \in DOMAIN p, Leads(p, fr, l, c) PROVE v.tag = "ref" /\ c = v.val
  <2>1. Refers(p, l, c)
    BY <1>1, <1>5 DEF Leads
  <2>2. PICK g \in Field : p[l].fields[g].tag = "ref" /\ p[l].fields[g].val = c
    BY <2>1 DEF Refers
  <2>3. p[l].fields[g] = NewList(v).fields[g]
    BY <1>1, <1>2
  <2> QED
    BY <1>1, <2>2, <2>3
<1> SUFFICES ASSUME NEW T \in SUBSET DOMAIN p, T # {} PROVE HasLast(p, fr, T)
  BY DEF Acyclic, p, q, l
<1> DEFINE U == T \cap DOMAIN h
<1>6. CASE U = {}
  <2>1. T = {l} /\ ~Leads(p, fr, l, l)
    BY <1>1, <1>2, <1>5, <1>6 DEF RefsTo
  <2> QED
    BY <2>1 DEF HasLast
<1>7. CASE U # {}
  <2>1. PICK b \in U : \A c \in U : ~Leads(h, fr, b, c)
    BY <1>7 DEF Acyclic, HasLast
  <2>2. \A c \in U : ~Leads(p, fr, b, c)
    BY <1>3, <2>1
  <2>3. CASE ~(l \in T /\ Leads(p, fr, b, l))
    <3>1. \A c \in T : ~Leads(p, fr, b, c)
      BY <1>1, <1>2, <2>2, <2>3
    <3> QED
      BY <3>1 DEF HasLast
  <2>4. CASE l \in T /\ Leads(p, fr, b, l)
    <3>1. b = o
      BY <1>4, <2>4
    <3>2. ASSUME NEW c \in T, Leads(p, fr, l, c) PROVE FALSE
      <4>1. v.tag = "ref" /\ c = v.val /\ c \in U
        BY <1>5, <3>2 DEF RefsTo
      <4> QED
        BY <2>1, <3>1, <4>1
    <3> QED
      BY <2>4, <3>2 DEF HasLast
  <2> QED
    BY <2>3, <2>4
<1> QED
  BY <1>6, <1>7

(* The scopes of a body are different objects.                             *)
LEMMA ScopesDiffer ==
  ASSUME NEW h, NEW fr, Acyclic(h, fr), Len(fr) \in Nat,
         \A k \in 1 .. Len(fr) : fr[k].obj \in DOMAIN h,
         NEW i \in 1 .. Len(fr), NEW j \in 1 .. Len(fr), i < j
  PROVE  fr[i].obj # fr[j].obj
<1> DEFINE T == {fr[k].obj : k \in i .. j - 1}
<1> SUFFICES ASSUME fr[i].obj = fr[j].obj PROVE FALSE
  OBVIOUS
<1>1. T \in SUBSET DOMAIN h /\ fr[i].obj \in T
  <2>1. i .. j - 1 \subseteq 1 .. Len(fr) /\ i \in i .. j - 1
    OBVIOUS
  <2> QED
    BY <2>1
<1>2. PICK b \in T : \A c \in T : ~Leads(h, fr, b, c)
  BY <1>1 DEF Acyclic, HasLast
<1>3. PICK k \in i .. j - 1 : b = fr[k].obj
  OBVIOUS
<1>4. k \in 1 .. Len(fr) - 1 /\ (k + 1 \in i .. j - 1 \/ k + 1 = j)
  OBVIOUS
<1>5. fr[k + 1].obj \in T
  BY <1>1, <1>4
<1>6. Leads(h, fr, b, fr[k + 1].obj)
  BY <1>3, <1>4 DEF Leads, Encloses
<1> QED
  BY <1>2, <1>5, <1>6

-----------------------------------------------------------------------------
(* The invariant.  A scope's object is a struct there is, its statements   *)
(* are among those of the body.                                            *)
ScopeRecord == [obj : Nat, stmts : Seq(Statement), field : Field]
ScopesOK(fr, h, S) ==
  /\ fr \in Seq(ScopeRecord)
  /\ \A k \in DOMAIN fr : /\ fr[k].obj \in DOMAIN h /\ h[fr[k].obj].type \in Struct
                          /\ \A i \in DOMAIN fr[k].stmts : fr[k].stmts[i] \in S
(* The object of a scope is of the type of the field it was opened for.    *)
ScopesTyped(fr, h) ==
  \A k \in 1 .. Len(fr) - 1 :
    h[fr[k + 1].obj].type = FieldType[h[fr[k].obj].type][fr[k + 1].field]

StoreTypeOK ==
  /\ program \in Programs /\ HeapOK(heap) /\ mixed \in BOOLEAN
  /\ cache \in [Instance -> Nat] /\ current \in Instance \cup {NoSource}
  /\ \A n \in Cached : cache[n] \in DOMAIN heap /\ heap[cache[n]].type = program[n].type
BodyInv ==
  /\ ScopesOK(frames, heap, Stmts(current))
  /\ Busy => /\ current \in Instance /\ current \notin Cached
             /\ Sources(current) \subseteq Cached
             /\ heap[frames[1].obj].type = program[current].type
(* The objects of an instance lie between its root and the next one's:     *)
(* the roots are cuts, that of the body being resolved the last.           *)
RegionInv ==
  /\ \A n \in Cached : Cut(heap, cache[n])
  /\ \A m, n \in Cached : m # n => cache[m] # cache[n]
  /\ Busy => /\ Cut(heap, frames[1].obj)
             /\ \A n \in Cached : cache[n] < frames[1].obj
             /\ \A k \in DOMAIN frames : ~(frames[k].obj < frames[1].obj)
TypedInv == ~mixed => Typed(heap) /\ ScopesTyped(frames, heap)
StoreInv ==
  StoreTypeOK /\ BodyInv /\ RegionInv /\ Acyclic(heap, frames) /\ TypedInv

(* A step writes to no object before the body it is a step of.             *)
WritesOwn ==
  \A b \in DOMAIN heap : heap'[b] = heap[b] \/ (Busy /\ ~(b < frames[1].obj))

(* The statements of a body, at any depth.                                 *)
LEMMA StmtsFacts ==
  ASSUME program \in Programs, NEW n \in Instance
  PROVE  /\ Stmts(n) \subseteq Statement
         /\ \A i \in DOMAIN program[n].body : program[n].body[i] \in Stmts(n)
         /\ \A s \in Stmts(n) : \A i \in DOMAIN s.body : s.body[i] \in Stmts(n)
         /\ \A s \in Stmts(n) : s.op = "copy" => s.from \in Sources(n)
<1> DEFINE succ == [s \in Statement |-> Range(s.body)]
           init == Range(program[n].body)
<1>1. program[n].body \in Seq(Statement)
  BY ProgramsAssumption DEF ProgramsAssumption
<1>2. init \in SUBSET Statement /\ \A i \in DOMAIN program[n].body : program[n].body[i] \in init
  BY <1>1 DEF Range
<1>3. succ \in [Statement -> SUBSET Statement] /\ IsFiniteSet(Statement)
      /\ \A s \in Statement : \A i \in DOMAIN s.body : s.body[i] \in succ[s]
  BY StatementAssumption DEF StatementAssumption, Range
<1>4. Stmts(n) = Closure(succ, init)
  BY DEF Stmts
<1> HIDE DEF succ, init
<1>5. /\ init \subseteq Stmts(n) /\ Stmts(n) \subseteq Statement
      /\ Closed(succ, Stmts(n))
  BY <1>2, <1>3, <1>4, ClosureFacts
<1>6. \A s \in Stmts(n) : s.op = "copy" => s.from \in Sources(n)
  BY DEF Sources
<1> QED
  BY <1>2, <1>3, <1>5, <1>6 DEF Closed

LEMMA ScopesFacts ==
  ASSUME NEW fr, NEW h, NEW S, ScopesOK(fr, h, S)
  PROVE  /\ Len(fr) \in Nat /\ DOMAIN fr = 1 .. Len(fr)
         /\ fr # << >> => Len(fr) >= 1 /\ Len(fr) \in DOMAIN fr /\ 1 \in DOMAIN fr
         /\ \A k \in DOMAIN fr :
              /\ fr[k] \in ScopeRecord /\ fr[k].obj \in DOMAIN h
              /\ h[fr[k].obj].type \in Struct
              /\ fr[k].stmts \in Seq(Statement) /\ fr[k].field \in Field
<1>1. fr \in Seq(ScopeRecord)
  BY DEF ScopesOK
<1>2. Len(fr) \in Nat /\ DOMAIN fr = 1 .. Len(fr) /\ (fr # << >> => Len(fr) >= 1)
      /\ \A k \in DOMAIN fr : fr[k] \in ScopeRecord
  BY <1>1
<1>3. \A k \in DOMAIN fr : fr[k].stmts \in Seq(Statement) /\ fr[k].field \in Field
  BY <1>2 DEF ScopeRecord
<1> QED
  BY <1>2, <1>3 DEF ScopesOK

(* A scope's first statement taken, a scope opened, a scope closed.        *)
LEMMA RestFacts ==
  ASSUME NEW S, ScopesOK(frames, heap, S), Busy, Scope.stmts # << >>
  PROVE  /\ ScopesOK(Rest, heap, S) /\ Len(Rest) = Len(frames)
         /\ \A k \in DOMAIN frames : /\ Rest[k].obj = frames[k].obj
                                     /\ Rest[k].field = frames[k].field
<1> DEFINE l == Len(frames)
           y == [frames[l] EXCEPT !.stmts = Tail(frames[l].stmts)]
<1>1. l \in Nat /\ DOMAIN frames = 1 .. l /\ l \in DOMAIN frames
      /\ frames \in Seq(ScopeRecord) /\ frames[l] \in ScopeRecord
      /\ frames[l].stmts \in Seq(Statement) /\ frames[l].stmts # << >>
  BY ScopesFacts DEF ScopesOK, Busy, Scope
<1>2. Rest = [frames EXCEPT ![l] = y]
  BY DEF Rest
<1>3. /\ Tail(frames[l].stmts) \in Seq(Statement)
      /\ \A i \in DOMAIN Tail(frames[l].stmts) :
           /\ i + 1 \in DOMAIN frames[l].stmts
           /\ Tail(frames[l].stmts)[i] = frames[l].stmts[i + 1]
  BY <1>1
<1>4. y = [obj |-> frames[l].obj, stmts |-> Tail(frames[l].stmts), field |-> frames[l].field]
      /\ frames[l].obj \in Nat /\ frames[l].field \in Field
  <2>1. frames[l] = [obj |-> frames[l].obj, stmts |-> frames[l].stmts,
                     field |-> frames[l].field]
        /\ frames[l].obj \in Nat /\ frames[l].field \in Field
    BY <1>1 DEF ScopeRecord
  <2> DEFINE x == frames[l]
             t == Tail(x.stmts)
  <2>2. y = [x EXCEPT !.stmts = t]
    OBVIOUS
  <2> HIDE DEF x, t, y
  <2>3. y = [obj |-> x.obj, stmts |-> t, field |-> x.field]
    BY <2>1, <2>2 DEF x
  <2> QED
    BY <2>1, <2>3 DEF x, t
<1> HIDE DEF y, l
<1>5. y \in ScopeRecord /\ y.obj = frames[l].obj /\ y.field = frames[l].field
      /\ y.stmts = Tail(frames[l].stmts)
  BY <1>3, <1>4 DEF ScopeRecord
<1>6. Rest \in Seq(ScopeRecord) /\ DOMAIN Rest = DOMAIN frames /\ Len(Rest) = l
      /\ \A k \in DOMAIN frames : Rest[k] = IF k = l THEN y ELSE frames[k]
  BY <1>1, <1>2, <1>5 DEF l
<1>7. \A i \in DOMAIN y.stmts : y.stmts[i] \in S
  BY <1>1, <1>3, <1>5 DEF ScopesOK
<1> QED
  BY <1>5, <1>6, <1>7 DEF ScopesOK, l

LEMMA OpenFacts ==
  ASSUME NEW fr, NEW h, NEW S, ScopesOK(fr, h, S),
         NEW a \in DOMAIN h, a \in Nat, h[a].type \in Struct, NEW f \in Field,
         NEW body \in Seq(Statement), \A i \in DOMAIN body : body[i] \in S
  PROVE  LET g == Append(fr, Frame(a, body, f))
         IN  /\ ScopesOK(g, h, S) /\ Len(g) = Len(fr) + 1
             /\ g[Len(fr) + 1].obj = a /\ g[Len(fr) + 1].field = f
             /\ \A k \in DOMAIN fr : g[k] = fr[k]
<1> DEFINE x == Frame(a, body, f)
           g == Append(fr, x)
<1>1. x \in ScopeRecord /\ x.obj = a /\ x.field = f /\ x.stmts = body
  BY DEF Frame, ScopeRecord
<1>2. fr \in Seq(ScopeRecord) /\ Len(fr) \in Nat /\ DOMAIN fr = 1 .. Len(fr)
  BY DEF ScopesOK
<1> HIDE DEF x
<1>3. g \in Seq(ScopeRecord) /\ Len(g) = Len(fr) + 1 /\ DOMAIN g = 1 .. Len(fr) + 1
      /\ g[Len(fr) + 1] = x /\ \A k \in 1 .. Len(fr) : g[k] = fr[k]
  BY <1>1, <1>2
<1> HIDE DEF g
<1>4. \A k \in DOMAIN g : k \in DOMAIN fr \/ k = Len(fr) + 1
  BY <1>2, <1>3
<1>5. ScopesOK(g, h, S)
  BY <1>1, <1>2, <1>3, <1>4 DEF ScopesOK
<1> QED
  BY <1>1, <1>2, <1>3, <1>5 DEF g, x

LEMMA CloseFacts ==
  ASSUME NEW fr, NEW h, NEW S, ScopesOK(fr, h, S), Len(fr) > 1
  PROVE  /\ ScopesOK(Front(fr), h, S) /\ Len(Front(fr)) = Len(fr) - 1
         /\ \A k \in 1 .. Len(fr) - 1 : Front(fr)[k] = fr[k]
<1>1. fr \in Seq(ScopeRecord) /\ Len(fr) \in Nat /\ DOMAIN fr = 1 .. Len(fr) /\ fr # << >>
  BY DEF ScopesOK
<1>2. /\ Front(fr) \in Seq(ScopeRecord) /\ Len(Front(fr)) = Len(fr) - 1
      /\ \A k \in 1 .. Len(fr) - 1 : Front(fr)[k] = fr[k]
  BY <1>1, FrontFacts DEF Front
<1>3. DOMAIN Front(fr) = 1 .. Len(fr) - 1 /\ 1 .. Len(fr) - 1 \subseteq DOMAIN fr
  BY <1>1, <1>2
<1> QED
  BY <1>2, <1>3 DEF ScopesOK

LEMMA ScopesKept ==
  ASSUME NEW fr, NEW h, NEW p, NEW S, ScopesOK(fr, h, S),
         DOMAIN h \subseteq DOMAIN p, \A b \in DOMAIN h : p[b].type = h[b].type
  PROVE  ScopesOK(fr, p, S)
BY DEF ScopesOK

-----------------------------------------------------------------------------
(* What a statement about to be applied finds.                             *)
LEMMA AtFacts ==
  ASSUME StoreInv, Busy, Scope.stmts # << >>
  PROVE  /\ Len(frames) \in Nat /\ Len(frames) >= 1 /\ DOMAIN frames = 1 .. Len(frames)
         /\ Scope.obj \in DOMAIN heap /\ heap[Scope.obj].type \in Struct
         /\ ~(Scope.obj < frames[1].obj) /\ frames[1].obj \in DOMAIN heap
         /\ Stmt \in Statement /\ Stmt.field \in Field /\ Stmt.num \in Nat
         /\ Stmt.body \in Seq(Statement)
         /\ \A i \in DOMAIN Stmt.body : Stmt.body[i] \in Stmts(current)
         /\ Stmt.op = "get" => Stmt.from \in Field
         /\ Stmt.op = "copy" => Stmt.from \in Cached
         /\ Held \in Value /\ RefsTo(Held, DOMAIN heap)
<1>1. /\ ScopesOK(frames, heap, Stmts(current)) /\ current \in Instance
      /\ Sources(current) \subseteq Cached /\ program \in Programs /\ HeapOK(heap)
      /\ \A k \in DOMAIN frames : ~(frames[k].obj < frames[1].obj)
  BY DEF StoreInv, BodyInv, StoreTypeOK, RegionInv
<1>2. /\ Len(frames) \in Nat /\ Len(frames) >= 1 /\ DOMAIN frames = 1 .. Len(frames)
      /\ Len(frames) \in DOMAIN frames /\ 1 \in DOMAIN frames
  BY <1>1, ScopesFacts DEF Busy
<1>3. /\ Scope.obj \in DOMAIN heap /\ heap[Scope.obj].type \in Struct
      /\ Scope.stmts \in Seq(Statement) /\ frames[1].obj \in DOMAIN heap
      /\ \A i \in DOMAIN Scope.stmts : Scope.stmts[i] \in Stmts(current)
  BY <1>1, <1>2, ScopesFacts DEF Scope, ScopesOK
<1>4. Stmt = Scope.stmts[1] /\ 1 \in DOMAIN Scope.stmts
  BY <1>3 DEF Stmt
<1>5. Stmt \in Stmts(current) /\ Stmt \in Statement
  BY <1>1, <1>3, <1>4, StmtsFacts
<1>6. /\ Stmt.field \in Field /\ Stmt.num \in Nat /\ Stmt.body \in Seq(Statement)
      /\ Stmt.op = "get" => Stmt.from \in Field
  BY <1>5, StatementAssumption DEF StatementAssumption
<1>7. /\ \A i \in DOMAIN Stmt.body : Stmt.body[i] \in Stmts(current)
      /\ Stmt.op = "copy" => Stmt.from \in Cached
  BY <1>1, <1>5, StmtsFacts
<1>8. Held \in Value /\ RefsTo(Held, DOMAIN heap)
  BY <1>1, <1>3, <1>6, HeapFacts DEF Held, RefsTo, HeapOK
<1> QED
  BY <1>1, <1>2, <1>3, <1>5, <1>6, <1>7, <1>8 DEF Scope

(* The category of a field is its declared kind, or "struct".              *)
LEMMA CategoryIs ==
  ASSUME NEW t \in Struct, NEW f \in Field
  PROVE  /\ FieldType[t][f] \in Kinds \cup Struct
         /\ Category(t, f) = "struct" <=> FieldType[t][f] \in Struct
         /\ Category(t, f) # "struct" => Category(t, f) = FieldType[t][f]
BY TypesAssumption DEF TypesAssumption, Category, Kinds

(* A step of the body being resolved keeps the invariant if it keeps the   *)
(* heap, the cuts and the scopes in order.                                 *)
LEMMA BodyStep ==
  ASSUME StoreInv, Busy, UNCHANGED <<program, cache, current>>,
         HeapOK(heap'), DOMAIN heap \subseteq DOMAIN heap',
         \A b \in DOMAIN heap : heap'[b].type = heap[b].type,
         \A a \in DOMAIN heap : Cut(heap, a) /\ ~(frames[1].obj < a) => Cut(heap', a),
         frames' # << >>, ScopesOK(frames', heap', Stmts(current)),
         frames'[1].obj = frames[1].obj,
         \A k \in DOMAIN frames' : ~(frames'[k].obj < frames[1].obj),
         Acyclic(heap', frames'), mixed' \in BOOLEAN,
         ~mixed' => Typed(heap') /\ ScopesTyped(frames', heap')
  PROVE  StoreInv'
<1>1. Cached' = Cached /\ Stmts(current)' = Stmts(current)
      /\ Sources(current)' = Sources(current)
  BY DEF Cached, Stmts, Sources
<1>2. frames[1].obj \in DOMAIN heap /\ DOMAIN heap \subseteq Nat
  BY HeapFacts, ScopesFacts DEF StoreInv, StoreTypeOK, BodyInv, Busy
<1>3. StoreTypeOK'
  BY <1>1 DEF StoreInv, StoreTypeOK
<1>4. BodyInv'
  BY <1>1, <1>2 DEF StoreInv, BodyInv, Busy
<1>5. RegionInv'
  <2>1. ASSUME NEW n \in Cached PROVE Cut(heap', cache[n]) /\ cache[n] < frames[1].obj
    <3>1. /\ Cut(heap, cache[n]) /\ cache[n] \in DOMAIN heap
          /\ cache[n] < frames[1].obj
      BY <2>1 DEF StoreInv, StoreTypeOK, RegionInv
    <3>2. ~(frames[1].obj < cache[n])
      BY <1>2, <3>1
    <3> QED
      BY <3>1, <3>2
  <2>2. Cut(heap', frames[1].obj)
    BY <1>2 DEF StoreInv, RegionInv
  <2> QED
    BY <1>1, <2>1, <2>2 DEF StoreInv, RegionInv
<1> QED
  BY <1>3, <1>4, <1>5 DEF StoreInv, TypedInv

(* A step after which no body is being resolved, and which leaves objects  *)
(* and verdicts alone.                                                     *)
LEMMA StopStep ==
  ASSUME StoreInv, UNCHANGED <<program, heap, cache, mixed>>, frames' = << >>,
         current' \in Instance \cup {NoSource}
  PROVE  StoreInv'
<1>1. Cached' = Cached
  BY DEF Cached
<1>2. StoreTypeOK'
  BY <1>1 DEF StoreInv, StoreTypeOK
<1>3. BodyInv'
  <2>1. ScopesOK(<< >>, heap, Stmts(current)')
    BY DEF ScopesOK
  <2> QED
    BY <2>1 DEF BodyInv, Busy
<1>4. RegionInv'
  BY <1>1 DEF StoreInv, RegionInv, Busy
<1>5. Len(<< >>) = 0 /\ 1 .. 0 - 1 = {}
  OBVIOUS
<1>6. Acyclic(heap, << >>)
  <2>1. \A b, c : Leads(heap, << >>, b, c) => Leads(heap, frames, b, c)
    BY <1>5 DEF Leads, Encloses
  <2> QED
    BY <2>1, FewerLeads DEF StoreInv
<1>7. TypedInv'
  BY <1>5 DEF StoreInv, TypedInv, ScopesTyped
<1> QED
  BY <1>2, <1>3, <1>4, <1>6, <1>7 DEF StoreInv

(* Scopes with the same objects enclose and are typed alike.               *)
LEMMA SameScopes ==
  ASSUME NEW fr, NEW gr, NEW h, Len(gr) = Len(fr), Len(fr) \in Nat,
         \A k \in 1 .. Len(fr) : gr[k].obj = fr[k].obj /\ gr[k].field = fr[k].field
  PROVE  /\ \A b, c : Encloses(gr, b, c) <=> Encloses(fr, b, c)
         /\ ScopesTyped(gr, h) <=> ScopesTyped(fr, h)
<1>1. \A k \in 1 .. Len(fr) - 1 : k \in 1 .. Len(fr) /\ k + 1 \in 1 .. Len(fr)
  OBVIOUS
<1> QED
  BY <1>1 DEF Encloses, ScopesTyped

LEMMA TypedScopesKept ==
  ASSUME NEW fr, NEW h, NEW p, Len(fr) \in Nat,
         \A k \in 1 .. Len(fr) : p[fr[k].obj].type = h[fr[k].obj].type
  PROVE  ScopesTyped(fr, p) <=> ScopesTyped(fr, h)
<1>1. \A k \in 1 .. Len(fr) - 1 : k \in 1 .. Len(fr) /\ k + 1 \in 1 .. Len(fr)
  OBVIOUS
<1> QED
  BY <1>1 DEF ScopesTyped

(* A statement is taken that opens no scope.                               *)
LEMMA AdvanceStep ==
  ASSUME StoreInv, Busy, Scope.stmts # << >>, Advance,
         HeapOK(heap'), DOMAIN heap \subseteq DOMAIN heap',
         \A b \in DOMAIN heap : heap'[b].type = heap[b].type,
         \A a \in DOMAIN heap : Cut(heap, a) /\ ~(frames[1].obj < a) => Cut(heap', a),
         Acyclic(heap', frames), mixed' \in BOOLEAN, mixed => mixed',
         ~mixed' => Typed(heap')
  PROVE  StoreInv'
<1>1. ScopesOK(frames, heap, Stmts(current)) /\ frames' = Rest
      /\ UNCHANGED <<program, cache, current>>
  BY DEF StoreInv, BodyInv, Advance
<1>2. /\ ScopesOK(Rest, heap, Stmts(current)) /\ Len(Rest) = Len(frames)
      /\ \A k \in DOMAIN frames : /\ Rest[k].obj = frames[k].obj
                                  /\ Rest[k].field = frames[k].field
  BY <1>1, RestFacts
<1>3. /\ Len(frames) \in Nat /\ Len(frames) >= 1 /\ DOMAIN frames = 1 .. Len(frames)
      /\ DOMAIN Rest = 1 .. Len(Rest) /\ 1 \in DOMAIN frames
      /\ \A k \in DOMAIN frames : frames[k].obj \in DOMAIN heap
  BY <1>1, <1>2, AtFacts, ScopesFacts
<1>4. ScopesOK(frames', heap', Stmts(current))
  BY <1>1, <1>2, ScopesKept
<1>5. /\ \A b, c : Encloses(Rest, b, c) <=> Encloses(frames, b, c)
      /\ ScopesTyped(Rest, heap') <=> ScopesTyped(frames, heap')
  BY <1>2, <1>3, SameScopes
<1>6. Acyclic(heap', frames')
  BY <1>1, <1>5, FewerLeads DEF Leads
<1>7. ScopesTyped(frames, heap') <=> ScopesTyped(frames, heap)
  BY <1>3, TypedScopesKept
<1>8. ~mixed' => ScopesTyped(frames', heap')
  BY <1>1, <1>5, <1>7 DEF StoreInv, TypedInv
<1>9. /\ frames' # << >> /\ frames'[1].obj = frames[1].obj
      /\ \A k \in DOMAIN frames' : ~(frames'[k].obj < frames[1].obj)
  BY <1>1, <1>2, <1>3 DEF StoreInv, RegionInv
<1> QED
  BY <1>1, <1>4, <1>6, <1>8, <1>9, BodyStep

(* The scopes gr are those of fr and one more, on object a.                *)
OneMore(fr, gr, a) ==
  /\ Len(fr) \in Nat \ {0} /\ Len(gr) = Len(fr) + 1 /\ DOMAIN gr = 1 .. Len(fr) + 1
  /\ gr[Len(fr) + 1].obj = a
  /\ \A k \in 1 .. Len(fr) : gr[k].obj = fr[k].obj /\ gr[k].field = fr[k].field

LEMMA OneMoreScope ==
  ASSUME NEW fr, NEW gr, NEW a, OneMore(fr, gr, a)
  PROVE  \A b, c : Encloses(gr, b, c)
                     <=> Encloses(fr, b, c) \/ (b = fr[Len(fr)].obj /\ c = a)
<1> DEFINE n == Len(fr)
<1>1. /\ n \in Nat /\ n >= 1 /\ Len(gr) - 1 = n /\ n \in 1 .. n
      /\ gr[n + 1].obj = a
      /\ \A k \in 1 .. n : gr[k].obj = fr[k].obj /\ gr[k].field = fr[k].field
  BY DEF OneMore
<1>2. ASSUME NEW b, NEW c, Encloses(gr, b, c)
      PROVE  Encloses(fr, b, c) \/ (b = fr[n].obj /\ c = a)
  <2>1. PICK k \in 1 .. n : gr[k].obj = b /\ gr[k + 1].obj = c
    BY <1>1, <1>2 DEF Encloses
  <2>2. k = n \/ (k \in 1 .. n - 1 /\ k + 1 \in 1 .. n)
    BY <1>1
  <2> QED
    BY <1>1, <2>1, <2>2 DEF Encloses, n
<1>3. ASSUME NEW b, NEW c, Encloses(fr, b, c) PROVE Encloses(gr, b, c)
  <2>1. PICK k \in 1 .. n - 1 : fr[k].obj = b /\ fr[k + 1].obj = c
    BY <1>3 DEF Encloses
  <2>2. k \in 1 .. n /\ k + 1 \in 1 .. n
    BY <1>1
  <2> QED
    BY <1>1, <2>1, <2>2 DEF Encloses
<1>4. Encloses(gr, fr[n].obj, a)
  BY <1>1 DEF Encloses
<1> QED
  BY <1>2, <1>3, <1>4

LEMMA OneMoreTyped ==
  ASSUME NEW fr, NEW gr, NEW a, OneMore(fr, gr, a), NEW p, ScopesTyped(fr, p),
         p[a].type = FieldType[p[fr[Len(fr)].obj].type][gr[Len(fr) + 1].field]
  PROVE  ScopesTyped(gr, p)
<1> DEFINE n == Len(fr)
<1>1. /\ n \in Nat /\ n >= 1 /\ Len(gr) - 1 = n /\ n \in 1 .. n
      /\ gr[n + 1].obj = a
      /\ \A k \in 1 .. n : gr[k].obj = fr[k].obj /\ gr[k].field = fr[k].field
  BY DEF OneMore
<1> HIDE DEF n
<1>2. ASSUME NEW k \in 1 .. n
      PROVE  p[gr[k + 1].obj].type = FieldType[p[gr[k].obj].type][gr[k + 1].field]
  <2>1. k = n \/ (k \in 1 .. n - 1 /\ k + 1 \in 1 .. n)
    BY <1>1
  <2>2. CASE k = n
    BY <1>1, <2>2 DEF n
  <2>3. CASE k \in 1 .. n - 1 /\ k + 1 \in 1 .. n
    BY <1>1, <2>3 DEF ScopesTyped, n
  <2> QED
    BY <2>1, <2>2, <2>3
<1> QED
  BY <1>1, <1>2 DEF ScopesTyped

(* The children of a statement become the innermost scope, on object a.    *)
Opened(gr, a) == gr = Append(Rest, Frame(a, Stmt.body, Stmt.field))
LEMMA OpenedScopes ==
  ASSUME StoreInv, Busy, Scope.stmts # << >>, NEW a, NEW gr, Opened(gr, a)
  PROVE  /\ OneMore(frames, gr, a) /\ gr[Len(frames) + 1].field = Stmt.field
         /\ \A b, c : Encloses(gr, b, c)
                         <=> Encloses(frames, b, c) \/ (b = Scope.obj /\ c = a)
<1>1. ScopesOK(frames, heap, Stmts(current))
  BY DEF StoreInv, BodyInv
<1>2. /\ ScopesOK(Rest, heap, Stmts(current)) /\ Len(Rest) = Len(frames)
      /\ \A k \in DOMAIN frames : /\ Rest[k].obj = frames[k].obj
                                  /\ Rest[k].field = frames[k].field
  BY <1>1, RestFacts
<1>3. Rest \in Seq(ScopeRecord) /\ Len(frames) \in Nat \ {0}
      /\ DOMAIN frames = 1 .. Len(frames)
  BY <1>2, AtFacts DEF ScopesOK
<1> DEFINE x == Frame(a, Stmt.body, Stmt.field)
<1>4. x.obj = a /\ x.field = Stmt.field
  BY DEF Frame
<1> HIDE DEF x
<1>5. /\ Len(Append(Rest, x)) = Len(frames) + 1 /\ Append(Rest, x)[Len(frames) + 1] = x
      /\ DOMAIN Append(Rest, x) = 1 .. Len(frames) + 1
      /\ \A k \in 1 .. Len(frames) : Append(Rest, x)[k] = Rest[k]
  BY <1>2, <1>3
<1>6. gr = Append(Rest, x)
  BY DEF x, Opened
<1>7. OneMore(frames, gr, a) /\ gr[Len(frames) + 1].field = Stmt.field
  BY <1>2, <1>3, <1>4, <1>5, <1>6 DEF OneMore
<1> QED
  BY <1>7, OneMoreScope DEF Scope

LEMMA OpenStep ==
  ASSUME StoreInv, Busy, Scope.stmts # << >>, NEW a \in DOMAIN heap', a \in Nat,
         Opened(frames', a),
         UNCHANGED <<program, cache, current>>,
         HeapOK(heap'), DOMAIN heap \subseteq DOMAIN heap',
         \A b \in DOMAIN heap : heap'[b].type = heap[b].type,
         \A c \in DOMAIN heap : Cut(heap, c) /\ ~(frames[1].obj < c) => Cut(heap', c),
         heap'[a].type \in Struct, ~(a < frames[1].obj), Acyclic(heap', frames'),
         mixed' \in BOOLEAN, mixed => mixed',
         ~mixed' => Typed(heap') /\ heap'[a].type = DeclaredType
  PROVE  StoreInv'
<1>1. ScopesOK(frames, heap, Stmts(current))
  BY DEF StoreInv, BodyInv
<1>2. /\ Len(frames) \in Nat \ {0} /\ DOMAIN frames = 1 .. Len(frames)
      /\ 1 \in DOMAIN frames /\ Stmt.body \in Seq(Statement) /\ Stmt.field \in Field
      /\ \A i \in DOMAIN Stmt.body : Stmt.body[i] \in Stmts(current)
      /\ \A k \in DOMAIN frames : frames[k].obj \in DOMAIN heap
  BY <1>1, AtFacts, ScopesFacts
<1>3. ScopesOK(Rest, heap', Stmts(current))
  BY <1>1, RestFacts, ScopesKept
<1>4. ScopesOK(frames', heap', Stmts(current))
  BY <1>2, <1>3, OpenFacts DEF Opened
<1>5. OneMore(frames, frames', a) /\ frames'[Len(frames) + 1].field = Stmt.field
  BY OpenedScopes
<1>6. /\ frames' # << >> /\ frames'[1].obj = frames[1].obj
      /\ \A k \in DOMAIN frames' : ~(frames'[k].obj < frames[1].obj)
  <2>1. ASSUME NEW k \in DOMAIN frames' PROVE ~(frames'[k].obj < frames[1].obj)
    <3>1. k \in 1 .. Len(frames) \/ k = Len(frames) + 1
      BY <1>2, <1>5 DEF OneMore
    <3> QED
      BY <1>2, <1>5, <3>1 DEF StoreInv, RegionInv, OneMore
  <2>2. 1 \in DOMAIN frames'
    BY <1>2, <1>5 DEF OneMore
  <2> QED
    BY <1>2, <1>5, <2>1, <2>2 DEF OneMore
<1>7. ASSUME ~mixed' PROVE ScopesTyped(frames', heap')
  <2>1. ScopesTyped(frames, heap) /\ heap'[a].type = DeclaredType
    BY <1>7 DEF StoreInv, TypedInv
  <2>2. \A k \in 1 .. Len(frames) :
          heap'[frames[k].obj].type = heap[frames[k].obj].type
    BY <1>2
  <2>3. ScopesTyped(frames, heap')
    BY <1>2, <2>1, <2>2, TypedScopesKept
  <2>4. heap'[a].type =
          FieldType[heap'[frames[Len(frames)].obj].type][frames'[Len(frames) + 1].field]
    BY <1>2, <1>5, <2>1, <2>2 DEF DeclaredType, Scope
  <2> QED
    BY <1>5, <2>3, <2>4, OneMoreTyped
<1> QED
  BY <1>4, <1>6, <1>7, BodyStep

(* A value put where the object leads already.                             *)
LEMMA AcyclicPut ==
  ASSUME NEW h, HeapOK(h), NEW o \in DOMAIN h, NEW f \in Field, NEW v \in Value,
         RefsTo(v, DOMAIN h), NEW fr, NEW gr, Acyclic(h, fr),
         v.tag = "ref" => Leads(h, fr, o, v.val),
         \A b, c : Encloses(gr, b, c) => Encloses(fr, b, c)
  PROVE  Acyclic(Put(h, o, f, v), gr)
<1> DEFINE p == Put(h, o, f, v)
<1>1. /\ DOMAIN p = DOMAIN h
      /\ \A b \in DOMAIN h : \A g \in Field :
           p[b].fields[g] = IF b = o /\ g = f THEN v ELSE h[b].fields[g]
  BY PutFacts
<1> HIDE DEF p
<1>2. \A b, c \in DOMAIN h : Leads(p, gr, b, c) => Leads(h, fr, b, c)
  BY <1>1 DEF Leads, Refers
<1>3. Acyclic(p, gr)
  BY <1>1, <1>2, FewerLeads
<1> QED
  BY <1>3 DEF p

(* The scopes are objects of the heap.                                     *)
LEMMA FramesEnclose ==
  ASSUME StoreInv
  PROVE  \A b, c : Encloses(frames, b, c) => b \in DOMAIN heap /\ c \in DOMAIN heap
<1>1. ScopesOK(frames, heap, Stmts(current))
  BY DEF StoreInv, BodyInv
<1>2. /\ Len(frames) \in Nat /\ DOMAIN frames = 1 .. Len(frames)
      /\ \A k \in DOMAIN frames : frames[k].obj \in DOMAIN heap
  BY <1>1, ScopesFacts
<1>3. \A k \in 1 .. Len(frames) - 1 : k \in 1 .. Len(frames) /\ k + 1 \in 1 .. Len(frames)
  BY <1>2
<1> QED
  BY <1>2, <1>3 DEF Encloses

-----------------------------------------------------------------------------
(* What the right side of an assignment gives.                             *)
LEMMA RightFacts ==
  ASSUME StoreInv, AtStmt({"set", "get"}), CanAssign
  PROVE  /\ Right \in Value /\ RefsTo(Right, DOMAIN heap)
         /\ Right.tag = "ref" => Refers(heap, Scope.obj, Right.val)
         /\ ~mixed /\ (Stmt.op = "get"
                         => Cat = Category(heap[Scope.obj].type, Stmt.from))
              => Cat = "list" \/ Fits(heap, DeclaredType, Right)
<1>1. /\ Busy /\ Scope.stmts # << >> /\ Stmt.op \in {"set", "get"} /\ HeapOK(heap)
  BY DEF AtStmt, StoreInv, StoreTypeOK
<1>2. /\ Scope.obj \in DOMAIN heap /\ heap[Scope.obj].type \in Struct
      /\ Stmt.field \in Field /\ Stmt.num \in Nat
      /\ Stmt.op = "get" => Stmt.from \in Field
  BY <1>1, AtFacts
<1>3. Cat # "struct" /\ Cat = DeclaredType /\ Cat \in Kinds
      /\ "num" \notin Struct /\ "list" \notin Struct /\ "none" \notin Struct
  BY <1>2, CategoryIs, TypesAssumption
     DEF CanAssign, Cat, DeclaredType, TypesAssumption, Kinds
<1>4. CASE Stmt.op = "set"
  <2>1. Right = [tag |-> "num", val |-> Stmt.num]
    BY <1>4 DEF Right, Num
  <2>2. Right \in Value /\ Right.tag = "num"
    BY <1>2, <2>1 DEF Value, Tags
  <2> QED
    BY <1>3, <2>2 DEF RefsTo, Fits, Kinds
<1>5. CASE Stmt.op = "get"
  <2>1. Right = heap[Scope.obj].fields[Stmt.from] /\ Readable /\ Right # Uninit
    BY <1>5 DEF Right, Source, CanAssign, Readable, IsSet
  <2>2. Right \in Value /\ RefsTo(Right, DOMAIN heap)
    BY <1>1, <1>2, <1>5, <2>1, HeapFacts DEF RefsTo, HeapOK
  <2>3. Right.tag = "ref" => Refers(heap, Scope.obj, Right.val)
    BY <1>2, <1>5, <2>1 DEF Refers
  <2>4. ASSUME ~mixed, Cat = Category(heap[Scope.obj].type, Stmt.from), Cat # "list"
        PROVE  Fits(heap, DeclaredType, Right)
    <3>1. FieldType[heap[Scope.obj].type][Stmt.from] = DeclaredType
      BY <1>2, <1>3, <1>5, <2>4, CategoryIs
    <3>2. Fits(heap, FieldType[heap[Scope.obj].type][Stmt.from], Right)
      BY <1>2, <1>5, <2>1, <2>4 DEF StoreInv, TypedInv, Typed
    <3> QED
      BY <3>1, <3>2
  <2> QED
    BY <1>5, <2>2, <2>3, <2>4
<1> QED
  BY <1>1, <1>4, <1>5

(* Cuts at or before the body's root lie before its scope's object, and    *)
(* before all that refers to.                                              *)
LEMMA BeforeScope ==
  ASSUME StoreInv, Busy, Scope.stmts # << >>, NEW a \in DOMAIN heap, Cut(heap, a),
         ~(frames[1].obj < a)
  PROVE  /\ ~(Scope.obj < a)
         /\ \A c : Refers(heap, Scope.obj, c) => ~(c < a)
<1>1. /\ Scope.obj \in DOMAIN heap /\ frames[1].obj \in DOMAIN heap
      /\ ~(Scope.obj < frames[1].obj) /\ DOMAIN heap \subseteq Nat
  BY AtFacts, HeapFacts DEF StoreInv, StoreTypeOK
<1>2. ~(Scope.obj < a)
  BY <1>1
<1> QED
  BY <1>1, <1>2 DEF Cut, Refers

(* A value put in an object of the body.                                   *)
LEMMA PutStep ==
  ASSUME StoreInv, Busy, Scope.stmts # << >>, Advance,
         NEW o \in DOMAIN heap, NEW f \in Field, NEW v \in Value,
         RefsTo(v, DOMAIN heap), heap' = Put(heap, o, f, v),
         v.tag = "ref" => Refers(heap, o, v.val), ~(o < frames[1].obj),
         mixed' \in BOOLEAN, mixed => mixed',
         ~mixed' /\ heap[o].type \in Struct => Fits(heap, FieldType[heap[o].type][f], v)
  PROVE  StoreInv' /\ WritesOwn
<1>1. HeapOK(heap) /\ DOMAIN heap \subseteq Nat
  BY HeapFacts DEF StoreInv, StoreTypeOK
<1>2. /\ HeapOK(heap') /\ DOMAIN heap' = DOMAIN heap
      /\ \A b \in DOMAIN heap : /\ heap'[b].type = heap[b].type
                                /\ b # o => heap'[b] = heap[b]
  BY <1>1, PutFacts
<1>3. ASSUME NEW a \in DOMAIN heap, Cut(heap, a), ~(frames[1].obj < a)
      PROVE  Cut(heap', a)
  <2>1. v.tag = "ref" => (o < a <=> v.val < a)
    BY <1>3 DEF Cut, Refers
  <2>2. a \in Nat
    BY <1>1
  <2> QED
    BY <1>1, <1>3, <2>1, <2>2, CutPut
<1>4. Acyclic(heap', frames)
  <2>1. Acyclic(heap, frames)
    BY DEF StoreInv
  <2>2. v.tag = "ref" => Leads(heap, frames, o, v.val)
    BY DEF Leads
  <2> QED
    BY <1>1, <2>1, <2>2, AcyclicPut
<1>5. ASSUME ~mixed' PROVE Typed(heap')
  <2>1. Typed(heap)
    BY <1>5 DEF StoreInv, TypedInv
  <2>2. heap[o].type \in Struct => Fits(heap, FieldType[heap[o].type][f], v)
    BY <1>5
  <2> QED
    BY <1>1, <2>1, <2>2, TypedPut
<1>6. StoreInv'
  BY <1>2, <1>3, <1>4, <1>5, AdvanceStep
<1> QED
  BY <1>2, <1>6 DEF WritesOwn

LEMMA OperateStep == ASSUME StoreInv, Operate PROVE StoreInv' /\ WritesOwn
<1>1. /\ Busy /\ Scope.stmts # << >> /\ Advance /\ mixed' = mixed
      /\ heap' = Put(heap, Scope.obj, Stmt.field, Num(Held.val + Stmt.num))
      /\ Cat \in {"num", "none"} /\ mixed \in BOOLEAN
  BY DEF Operate, AtStmt, CanOperate, StoreInv, StoreTypeOK
<1>2. /\ Scope.obj \in DOMAIN heap /\ heap[Scope.obj].type \in Struct
      /\ ~(Scope.obj < frames[1].obj) /\ Stmt.field \in Field /\ Stmt.num \in Nat
      /\ Held \in Value
  BY <1>1, AtFacts
<1> DEFINE v == Num(Held.val + Stmt.num)
<1>3. v \in Value /\ v.tag = "num"
  <2>1. Held.val + Stmt.num \in Nat
    BY <1>2 DEF Value
  <2> QED
    BY <2>1 DEF Num, Value, Tags
<1>4. Fits(heap, DeclaredType, v)
  <2>1. DeclaredType \in {"num", "none"} /\ DeclaredType \notin Struct
    BY <1>1, <1>2, CategoryIs, TypesAssumption
       DEF Cat, DeclaredType, TypesAssumption, Kinds
  <2> QED
    BY <1>3, <2>1 DEF Fits
<1> HIDE DEF v
<1>5. heap' = Put(heap, Scope.obj, Stmt.field, v)
  BY <1>1 DEF v
<1> QED
  BY <1>1, <1>2, <1>3, <1>4, <1>5, PutStep DEF RefsTo, DeclaredType

LEMMA AssignElemStep == ASSUME StoreInv, AssignElem PROVE StoreInv' /\ WritesOwn
<1>1. /\ Busy /\ Scope.stmts # << >> /\ Advance /\ mixed' = mixed
      /\ heap' = Put(heap, Held.val, Elem, Num(Stmt.num))
      /\ Held.tag = "ref" /\ heap[Held.val].type = "list" /\ mixed \in BOOLEAN
  BY DEF AssignElem, AtStmt, HoldsList, StoreInv, StoreTypeOK
<1>2. /\ Scope.obj \in DOMAIN heap /\ Stmt.field \in Field /\ Stmt.num \in Nat
      /\ Held.val \in DOMAIN heap /\ frames[1].obj \in DOMAIN heap
      /\ ~(Scope.obj < frames[1].obj)
  BY <1>1, AtFacts DEF RefsTo
<1> DEFINE v == Num(Stmt.num)
<1>3. v \in Value /\ v.tag = "num"
  BY <1>2 DEF Num, Value, Tags
<1>4. ~(Held.val < frames[1].obj)
  <2>1. Cut(heap, frames[1].obj)
    BY <1>1 DEF StoreInv, RegionInv
  <2> QED
    BY <1>1, <1>2, <2>1 DEF Cut, Held
<1>5. heap[Held.val].type \notin Struct
  BY <1>1, TypesAssumption DEF TypesAssumption, Kinds
<1> HIDE DEF v
<1>6. heap' = Put(heap, Held.val, Elem, v)
  BY <1>1 DEF v
<1> QED
  BY <1>1, <1>2, <1>3, <1>4, <1>5, <1>6, ElemIsField, PutStep DEF RefsTo

LEMMA AssignStep == ASSUME StoreInv, Assign PROVE StoreInv' /\ WritesOwn
<1>1. /\ Busy /\ Scope.stmts # << >> /\ Advance /\ Stmt.op \in {"set", "get"}
      /\ AtStmt({"set", "get"}) /\ CanAssign /\ Cat # "struct"
      /\ HeapOK(heap) /\ mixed \in BOOLEAN
  BY DEF Assign, AtStmt, CanAssign, StoreInv, StoreTypeOK
<1>2. /\ Scope.obj \in DOMAIN heap /\ heap[Scope.obj].type \in Struct
      /\ ~(Scope.obj < frames[1].obj) /\ Stmt.field \in Field
      /\ frames[1].obj \in DOMAIN heap
  BY <1>1, AtFacts
<1>3. /\ Right \in Value /\ RefsTo(Right, DOMAIN heap)
      /\ Right.tag = "ref" => Refers(heap, Scope.obj, Right.val)
      /\ ~mixed /\ (Stmt.op = "get"
                      => Cat = Category(heap[Scope.obj].type, Stmt.from))
           => Cat = "list" \/ Fits(heap, DeclaredType, Right)
  BY <1>1, RightFacts
<1>4. /\ mixed' \in BOOLEAN /\ (mixed => mixed')
      /\ ~mixed' => ~mixed /\ (Stmt.op = "get"
                                 => Cat = Category(heap[Scope.obj].type, Stmt.from))
  BY <1>1 DEF Assign
<1>5. CASE Cat # "list"
  <2>1. heap' = Put(heap, Scope.obj, Stmt.field, Right)
    BY <1>5 DEF Assign
  <2>2. ~mixed' => Fits(heap, FieldType[heap[Scope.obj].type][Stmt.field], Right)
    BY <1>3, <1>4, <1>5 DEF DeclaredType
  <2> QED
    BY <1>1, <1>2, <1>3, <1>4, <2>1, <2>2, PutStep
<1>6. CASE Cat = "list"
  <2> DEFINE x == NewList(Right)
             l == Len(heap) + 1
             q == Append(heap, x)
  <2>1. /\ x \in Object /\ x.type = "list" /\ "list" \notin Struct
        /\ \A f \in Field : RefsTo(x.fields[f], DOMAIN heap)
        /\ \A f \in Field : x.fields[f] = Right \/ x.fields[f].tag # "ref"
    BY <1>3, NewListFacts, TypesAssumption DEF RefsTo, TypesAssumption, Kinds
  <2>2. heap' = Put(q, Scope.obj, Stmt.field, Ref(l))
    BY <1>6 DEF Assign
  <2>3. /\ HeapOK(q) /\ DOMAIN q = DOMAIN heap \cup {l} /\ l \notin DOMAIN heap
        /\ q[l] = x /\ \A b \in DOMAIN heap : q[b] = heap[b]
    BY <1>1, <2>1, AppendFacts
  <2>4. l \in Nat /\ \A b \in DOMAIN heap : b \in Nat /\ b < l
    BY <1>1, HeapFacts
  <2>5. Ref(l) \in Value /\ RefsTo(Ref(l), DOMAIN q) /\ Ref(l).tag = "ref" /\ Ref(l).val = l
    BY <2>3, <2>4 DEF Ref, Value, Tags, RefsTo
  <2> DEFINE r == Ref(l)
  <2> HIDE DEF x, q, l, r
  <2>6. /\ r \in Value /\ RefsTo(r, DOMAIN q) /\ r.tag = "ref" /\ r.val = l
        /\ Scope.obj \in DOMAIN q /\ heap' = Put(q, Scope.obj, Stmt.field, r)
    BY <1>2, <2>2, <2>3, <2>5 DEF r
  <2>7. /\ HeapOK(heap') /\ DOMAIN heap' = DOMAIN q
        /\ \A b \in DOMAIN q : /\ heap'[b].type = q[b].type
                               /\ b # Scope.obj => heap'[b] = q[b]
    BY <1>2, <2>3, <2>6, PutFacts
  <2>8. \A b \in DOMAIN heap : /\ heap'[b].type = heap[b].type
                               /\ b # Scope.obj => heap'[b] = heap[b]
    BY <2>3, <2>7
  <2>9. ASSUME NEW a \in DOMAIN heap, Cut(heap, a), ~(frames[1].obj < a)
        PROVE  Cut(heap', a)
    <3>1. ~(Scope.obj < a) /\ \A c : Refers(heap, Scope.obj, c) => ~(c < a)
      BY <1>1, <2>9, BeforeScope
    <3>2. \A f \in Field : x.fields[f].tag = "ref" => ~(x.fields[f].val < a)
      BY <1>3, <2>1, <3>1
    <3>3. Cut(q, a)
      BY <1>1, <2>1, <2>9, <3>2, CutAppend DEF q
    <3>4. ~(l < a) /\ a \in Nat
      BY <2>4
    <3> QED
      BY <1>2, <2>3, <2>6, <3>1, <3>3, <3>4, CutPut
  <2>10. Acyclic(heap', frames)
    <3>1. Acyclic(heap, frames)
      BY DEF StoreInv
    <3>2. Right.tag = "ref" => Leads(heap, frames, Scope.obj, Right.val)
      BY <1>3 DEF Leads
    <3>3. \A b, c : Encloses(frames, b, c) => b \in DOMAIN heap /\ c \in DOMAIN heap
      BY <1>1, FramesEnclose
    <3>4. heap' = Put(Append(heap, NewList(Right)), Scope.obj, Stmt.field, Ref(Len(heap) + 1))
      BY <2>2 DEF q, x, l
    <3> QED
      BY <1>1, <1>2, <1>3, <3>1, <3>2, <3>3, <3>4, AcyclicList
  <2>11. ASSUME ~mixed' PROVE Typed(heap')
    <3>1. Typed(heap)
      BY <1>4, <2>11 DEF StoreInv, TypedInv
    <3>2. Typed(q)
      BY <1>1, <2>1, <3>1, TypedAppend DEF q
    <3>3. FieldType[q[Scope.obj].type][Stmt.field] = "list"
      BY <1>2, <1>6, <2>3, CategoryIs DEF Cat
    <3>4. Fits(q, FieldType[q[Scope.obj].type][Stmt.field], r)
      BY <2>1, <2>3, <2>6, <3>3 DEF Fits
    <3> QED
      BY <1>2, <2>3, <2>6, <3>2, <3>4, TypedPut
  <2>12. DOMAIN heap \subseteq DOMAIN heap'
    BY <2>3, <2>7
  <2>13. StoreInv'
    BY <1>1, <1>4, <2>7, <2>8, <2>9, <2>10, <2>11, <2>12, AdvanceStep
  <2> QED
    BY <1>1, <1>2, <2>8, <2>13 DEF WritesOwn
<1> QED
  BY <1>5, <1>6

LEMMA CopyStructStep == ASSUME StoreInv, CopyStruct PROVE StoreInv' /\ WritesOwn
<1> DEFINE l == Len(heap) + 1
           s == cache[Stmt.from]
<1>1. /\ Busy /\ Scope.stmts # << >> /\ Stmt.op = "copy" /\ Cat = "struct"
      /\ heap' = DeepCopy(heap, s)
      /\ Opened(frames', l)
      /\ mixed' = (mixed \/ program[Stmt.from].type # DeclaredType)
      /\ UNCHANGED <<program, cache, current>>
  BY DEF CopyStruct, AtStmt, Opened
<1>2. HeapOK(heap) /\ Acyclic(heap, frames) /\ mixed \in BOOLEAN
  BY DEF StoreInv, StoreTypeOK
<1>3. /\ Scope.obj \in DOMAIN heap /\ Stmt.from \in Cached /\ Stmt.field \in Field
      /\ heap[Scope.obj].type \in Struct /\ frames[1].obj \in DOMAIN heap
  BY <1>1, AtFacts
<1>4. s \in DOMAIN heap /\ heap[s].type = program[Stmt.from].type
      /\ program[Stmt.from].type \in Struct
  <2>1. s \in DOMAIN heap /\ heap[s].type = program[Stmt.from].type
        /\ program \in Programs /\ Stmt.from \in Instance
    BY <1>3 DEF StoreInv, StoreTypeOK, Cached
  <2> QED
    BY <2>1, ProgramsAssumption DEF ProgramsAssumption
<1>5. l \in Nat /\ l \notin DOMAIN heap /\ \A b \in DOMAIN heap : b \in Nat /\ b < l
      /\ DOMAIN heap = 1 .. Len(heap)
  BY <1>2, HeapFacts
<1> DEFINE D == DeepCopy(heap, s)
<1>6. Copied(heap, s, D, CopyOrder(heap, s)) /\ HeapOK(D)
  BY <1>2, <1>4, DeepCopyFacts
<1> HIDE DEF D, s
<1>7. /\ \A b \in DOMAIN heap : D[b] = heap[b] /\ b \in DOMAIN D
      /\ l \in DOMAIN D /\ D[l].type = heap[s].type
  <2> DEFINE k == Len(CopyOrder(heap, s))
  <2>1. /\ k \in Nat \ {0} /\ CopyOrder(heap, s)[1] = s
        /\ D \in Seq(Object) /\ Len(D) = Len(heap) + k
        /\ \A b \in 1 .. Len(heap) : D[b] = heap[b]
        /\ \A i \in 1 .. k : D[Len(heap) + i].type = heap[CopyOrder(heap, s)[i]].type
    BY <1>6 DEF Copied
  <2> HIDE DEF k
  <2>2. DOMAIN D = 1 .. Len(heap) + k /\ 1 \in 1 .. k /\ Len(heap) \in Nat
    BY <1>2, <2>1, HeapFacts
  <2> QED
    BY <1>5, <2>1, <2>2
<1>8. heap' = D
  BY <1>1 DEF D
<1>9. \A a \in DOMAIN heap : Cut(heap, a) => Cut(heap', a)
  BY <1>2, <1>4, <1>5, <1>8, CutCopy DEF D
<1>10. ~(l < frames[1].obj)
  BY <1>3, <1>5
<1>11. \A b, c : Encloses(frames', b, c)
                   <=> Encloses(frames, b, c) \/ (b = Scope.obj /\ c = l)
  BY <1>1, OpenedScopes
<1>12. Acyclic(heap', frames')
  <2>1. \A b, c : Encloses(frames, b, c) => b \in DOMAIN heap /\ c \in DOMAIN heap
    BY FramesEnclose
  <2>2. \A b, c \in DOMAIN heap : Encloses(frames', b, c) => Encloses(frames, b, c)
    BY <1>5, <1>11
  <2>3. \A b, c : Encloses(frames', b, c) => b \in DOMAIN heap
    BY <1>3, <1>11, <2>1
  <2> QED
    BY <1>2, <1>4, <1>8, <2>2, <2>3, AcyclicCopy DEF D
<1>13. ASSUME ~mixed' PROVE Typed(heap') /\ heap'[l].type = DeclaredType
  <2>1. Typed(heap) /\ program[Stmt.from].type = DeclaredType
    BY <1>1, <1>13 DEF StoreInv, TypedInv
  <2>2. Typed(D)
    BY <1>2, <1>4, <2>1, TypedCopy DEF D
  <2> QED
    BY <1>4, <1>7, <1>8, <2>1, <2>2
<1>14. /\ HeapOK(heap') /\ DOMAIN heap \subseteq DOMAIN heap' /\ l \in DOMAIN heap'
       /\ \A b \in DOMAIN heap : heap'[b] = heap[b]
       /\ heap'[l].type \in Struct
  BY <1>4, <1>6, <1>7, <1>8
<1>15. mixed' \in BOOLEAN /\ (mixed => mixed')
  BY <1>1, <1>2
<1> HIDE DEF l
<1>16. StoreInv'
  BY <1>1, <1>5, <1>9, <1>10, <1>12, <1>13, <1>14, <1>15, OpenStep
<1> QED
  BY <1>14, <1>16 DEF WritesOwn

LEMMA EnterBareStep == ASSUME StoreInv, EnterBare PROVE StoreInv' /\ WritesOwn
<1> DEFINE l == Len(heap) + 1
<1>1. /\ Busy /\ Scope.stmts # << >> /\ Stmt.op = "bare" /\ Cat = "struct"
      /\ IsSet(Held) => HoldsStruct
      /\ UNCHANGED <<program, cache, current, mixed>>
  BY DEF EnterBare, AtStmt
<1>2. HeapOK(heap) /\ Acyclic(heap, frames) /\ mixed \in BOOLEAN
  BY DEF StoreInv, StoreTypeOK
<1>3. /\ Scope.obj \in DOMAIN heap /\ heap[Scope.obj].type \in Struct
      /\ ~(Scope.obj < frames[1].obj) /\ frames[1].obj \in DOMAIN heap
      /\ Stmt.field \in Field /\ Held \in Value /\ RefsTo(Held, DOMAIN heap)
  BY <1>1, AtFacts
<1>4. DeclaredType \in Struct
  BY <1>1, <1>3, CategoryIs DEF Cat, DeclaredType
<1>5. l \in Nat /\ l \notin DOMAIN heap /\ \A b \in DOMAIN heap : b \in Nat /\ b < l
  BY <1>2, HeapFacts
<1>6. \A b, c : Encloses(frames, b, c) => b \in DOMAIN heap /\ c \in DOMAIN heap
  BY FramesEnclose
<1>7. CASE IsSet(Held)
  <2> DEFINE a == Held.val
  <2>1. /\ Opened(frames', a) /\ heap' = heap
        /\ Held.tag = "ref" /\ heap[a].type \in Struct
    BY <1>1, <1>7 DEF EnterBare, HoldsStruct, Opened
  <2>2. /\ a \in DOMAIN heap /\ a \in Nat /\ ~(a < frames[1].obj)
        /\ Refers(heap, Scope.obj, a)
    <3>1. a \in DOMAIN heap /\ Refers(heap, Scope.obj, a)
      BY <1>3, <2>1 DEF RefsTo, Refers, Held
    <3>2. Cut(heap, frames[1].obj)
      BY <1>1 DEF StoreInv, RegionInv
    <3>3. \A c : Refers(heap, Scope.obj, c) => ~(c < frames[1].obj)
      BY <1>3, <3>2 DEF Cut, Refers
    <3> QED
      BY <1>5, <3>1, <3>3
  <2> HIDE DEF a
  <2>3. \A b, c : Encloses(frames', b, c)
                    <=> Encloses(frames, b, c) \/ (b = Scope.obj /\ c = a)
    BY <1>1, <2>1, OpenedScopes
  <2>4. Acyclic(heap', frames')
    BY <1>2, <2>1, <2>2, <2>3, FewerLeads DEF Leads
  <2>5. ASSUME ~mixed' PROVE Typed(heap') /\ heap'[a].type = DeclaredType
    <3>1. Typed(heap) /\ Held # Uninit
      BY <1>1, <1>7, <2>5 DEF StoreInv, TypedInv, IsSet
    <3>2. Fits(heap, DeclaredType, Held)
      BY <1>3, <3>1 DEF Typed, Held, DeclaredType
    <3>3. DeclaredType \notin {"num", "list"}
      BY <1>4, TypesAssumption DEF TypesAssumption, Kinds
    <3> QED
      BY <1>4, <2>1, <3>1, <3>2, <3>3 DEF Fits, a
  <2>6. StoreInv'
    BY <1>1, <1>2, <2>1, <2>2, <2>4, <2>5, OpenStep
  <2> QED
    BY <2>1, <2>6 DEF WritesOwn
<1>8. CASE ~IsSet(Held)
  <2> DEFINE x == BlankStruct(DeclaredType)
             q == Append(heap, x)
  <2>1. /\ Opened(frames', l) /\ heap' = q
    BY <1>8 DEF EnterBare, Opened
  <2>2. /\ x \in Object /\ x.type = DeclaredType
        /\ \A f \in Field : /\ x.fields[f].tag # "ref" /\ RefsTo(x.fields[f], DOMAIN heap)
                            /\ x.fields[f] = IF FieldType[DeclaredType][f] = "none"
                                             THEN Absent ELSE Uninit
    BY <1>4, BlankFacts DEF RefsTo
  <2> HIDE DEF x
  <2>3. /\ HeapOK(q) /\ DOMAIN q = DOMAIN heap \cup {l} /\ q[l] = x
        /\ \A b \in DOMAIN heap : q[b] = heap[b]
    BY <1>2, <2>2, AppendFacts
  <2>4. \A a \in DOMAIN heap : Cut(heap, a) => Cut(heap', a)
    BY <1>2, <2>1, <2>2, CutAppend
  <2>5. \A b, c : Encloses(frames', b, c)
                    <=> Encloses(frames, b, c) \/ (b = Scope.obj /\ c = l)
    BY <1>1, <2>1, OpenedScopes
  <2>6. Acyclic(heap', frames')
    <3>1. \A b, c \in DOMAIN heap : Encloses(frames', b, c) => Encloses(frames, b, c)
      BY <1>5, <2>5
    <3>2. \A b, c : Encloses(frames', b, c) => b \in DOMAIN heap
      BY <1>3, <1>6, <2>5
    <3> QED
      BY <1>2, <2>1, <2>2, <3>1, <3>2, AcyclicAppend
  <2>7. ASSUME ~mixed' PROVE Typed(heap') /\ heap'[l].type = DeclaredType
    <3>1. Typed(heap)
      BY <1>1, <2>7 DEF StoreInv, TypedInv
    <3>2. \A f \in Field : x.fields[f] = Uninit \/ Fits(heap, FieldType[x.type][f], x.fields[f])
      BY <1>4, <2>2, TypesAssumption DEF Fits, TypesAssumption, Kinds
    <3> QED
      BY <1>2, <2>1, <2>2, <2>3, <3>1, <3>2, TypedAppend
  <2> HIDE DEF q, l
  <2>8. ~(l < frames[1].obj)
    BY <1>3, <1>5
  <2>9. StoreInv'
    BY <1>1, <1>2, <1>4, <1>5, <2>1, <2>2, <2>3, <2>4, <2>6, <2>7, <2>8, OpenStep
  <2> QED
    BY <2>1, <2>3, <2>9 DEF WritesOwn
<1> QED
  BY <1>7, <1>8

LEMMA PassBareStep == ASSUME StoreInv, PassBare PROVE StoreInv' /\ WritesOwn
<1>1. Busy /\ Scope.stmts # << >> /\ Advance /\ UNCHANGED <<heap, mixed>>
  BY DEF PassBare, AtStmt
<1>2. /\ HeapOK(heap) /\ Acyclic(heap, frames) /\ mixed \in BOOLEAN
      /\ ~mixed => Typed(heap)
  BY DEF StoreInv, StoreTypeOK, TypedInv
<1>3. heap' = heap /\ mixed' = mixed
  BY <1>1
<1>4. /\ HeapOK(heap') /\ DOMAIN heap \subseteq DOMAIN heap'
      /\ \A b \in DOMAIN heap : heap'[b].type = heap[b].type
      /\ \A a \in DOMAIN heap : Cut(heap, a) => Cut(heap', a)
      /\ Acyclic(heap', frames)
  BY <1>2, <1>3
<1>5. mixed' \in BOOLEAN /\ (mixed => mixed')
  BY <1>2, <1>3
<1>6. ~mixed' => Typed(heap')
  BY <1>2, <1>3
<1>7. StoreInv'
  BY <1>1, <1>4, <1>5, <1>6, AdvanceStep
<1> QED
  BY <1>1, <1>7 DEF WritesOwn

LEMMA StoppedStep ==
  ASSUME StoreInv, Refuse \/ Abort PROVE StoreInv' /\ WritesOwn
<1>1. UNCHANGED <<program, heap, cache, mixed>> /\ frames' = << >>
      /\ current' \in {current, NoSource}
  BY DEF Refuse, Abort
<1>2. current' \in Instance \cup {NoSource}
  BY <1>1 DEF StoreInv, StoreTypeOK
<1> QED
  BY <1>1, <1>2, StopStep DEF WritesOwn

LEMMA EndScopeStep == ASSUME StoreInv, EndScope PROVE StoreInv' /\ WritesOwn
<1> DEFINE n == Len(frames)
           o == frames[n - 1].obj
           v == Ref(Scope.obj)
<1>1. /\ Busy /\ n > 1 /\ frames' = Front(frames)
      /\ heap' = Put(heap, o, Scope.field, v)
      /\ UNCHANGED <<program, cache, current, mixed>>
  BY DEF EndScope
<1>2. /\ HeapOK(heap) /\ Acyclic(heap, frames) /\ mixed \in BOOLEAN
      /\ ScopesOK(frames, heap, Stmts(current))
  BY DEF StoreInv, StoreTypeOK, BodyInv
<1>3. /\ n \in Nat /\ DOMAIN frames = 1 .. n
      /\ \A k \in DOMAIN frames : /\ frames[k].obj \in DOMAIN heap
                                  /\ heap[frames[k].obj].type \in Struct
                                  /\ frames[k].field \in Field
      /\ \A k \in DOMAIN frames : ~(frames[k].obj < frames[1].obj)
  BY <1>1, <1>2, ScopesFacts DEF StoreInv, RegionInv
<1>4. n \in 1 .. n /\ n - 1 \in 1 .. n /\ n - 1 \in 1 .. n - 1 /\ n - 1 + 1 = n /\ 1 \in 1 .. n - 1
      /\ 1 .. n - 1 \subseteq 1 .. n
  BY <1>1, <1>3
<1>5. /\ o \in DOMAIN heap /\ Scope.obj \in DOMAIN heap /\ Scope.field \in Field
      /\ heap[o].type \in Struct /\ heap[Scope.obj].type \in Struct
      /\ ~(o < frames[1].obj) /\ ~(Scope.obj < frames[1].obj)
      /\ frames[1].obj \in DOMAIN heap
      /\ Encloses(frames, o, Scope.obj) /\ DOMAIN heap \subseteq Nat
  <2>1. Scope = frames[n]
    BY DEF Scope
  <2>2. Encloses(frames, o, Scope.obj)
    BY <1>4, <2>1 DEF Encloses
  <2>3. DOMAIN heap \subseteq Nat
    BY <1>2, HeapFacts
  <2>4. /\ o \in DOMAIN heap /\ heap[o].type \in Struct /\ ~(o < frames[1].obj)
        /\ Scope.obj \in DOMAIN heap /\ heap[Scope.obj].type \in Struct
        /\ ~(Scope.obj < frames[1].obj) /\ Scope.field \in Field
        /\ frames[1].obj \in DOMAIN heap
    BY <1>3, <1>4, <2>1
  <2> QED
    BY <2>2, <2>3, <2>4
<1>6. v \in Value /\ RefsTo(v, DOMAIN heap) /\ v.tag = "ref" /\ v.val = Scope.obj
  BY <1>5 DEF Ref, Value, Tags, RefsTo
<1> DEFINE f == Scope.field
<1> HIDE DEF o, v, f
<1>7. f \in Field /\ heap' = Put(heap, o, f, v)
  BY <1>1, <1>5 DEF f
<1>8. /\ HeapOK(heap') /\ DOMAIN heap' = DOMAIN heap
      /\ \A b \in DOMAIN heap : /\ heap'[b].type = heap[b].type
                                /\ b # o => heap'[b] = heap[b]
  <2>1. HeapOK(heap) /\ o \in DOMAIN heap /\ f \in Field /\ v \in Value
        /\ RefsTo(v, DOMAIN heap)
    BY <1>2, <1>5, <1>6, <1>7
  <2>2. heap' = Put(heap, o, f, v)
    BY <1>7
  <2> QED
    BY <2>1, <2>2, PutFacts
<1>9. ASSUME NEW a \in DOMAIN heap, Cut(heap, a), ~(frames[1].obj < a)
      PROVE  Cut(heap', a)
  <2>1. a \in Nat /\ ~(o < a) /\ ~(Scope.obj < a)
    BY <1>5, <1>9
  <2> QED
    BY <1>2, <1>5, <1>6, <1>7, <1>9, <2>1, CutPut
<1>10. /\ ScopesOK(frames', heap, Stmts(current)) /\ Len(frames') = n - 1
       /\ \A k \in 1 .. n - 1 : frames'[k] = frames[k]
  BY <1>1, <1>2, CloseFacts
<1>11. ScopesOK(frames', heap', Stmts(current))
  BY <1>8, <1>10, ScopesKept
<1>12. DOMAIN frames' = 1 .. n - 1
  BY <1>10, ScopesFacts
<1>13. \A k \in 1 .. n - 1 - 1 : k \in 1 .. n - 1 /\ k + 1 \in 1 .. n - 1
  BY <1>3
<1>14. Acyclic(heap', frames')
  <2>1. \A b, c : Encloses(frames', b, c) => Encloses(frames, b, c)
    BY <1>10, <1>13 DEF Encloses
  <2>2. Leads(heap, frames, o, v.val)
    BY <1>5, <1>6 DEF Leads
  <2> QED
    BY <1>2, <1>5, <1>6, <1>7, <2>1, <2>2, AcyclicPut
<1>15. ASSUME ~mixed PROVE Typed(heap') /\ ScopesTyped(frames', heap')
  <2>1. Typed(heap) /\ ScopesTyped(frames, heap)
    BY <1>15 DEF StoreInv, TypedInv
  <2>2. heap[Scope.obj].type = FieldType[heap[o].type][f]
    BY <1>4, <2>1 DEF ScopesTyped, Scope, o, f
  <2>3. Fits(heap, FieldType[heap[o].type][f], v)
    <3>1. FieldType[heap[o].type][f] \in Struct
      BY <1>5, <2>2
    <3>2. FieldType[heap[o].type][f] \notin {"num", "list"}
      BY <3>1, TypesAssumption DEF TypesAssumption, Kinds
    <3> QED
      BY <1>6, <2>2, <3>1, <3>2 DEF Fits
  <2>4. Typed(heap')
    BY <1>2, <1>5, <1>6, <1>7, <2>1, <2>3, TypedPut
  <2>5. ASSUME NEW k \in 1 .. n - 1 - 1
        PROVE  heap'[frames'[k + 1].obj].type =
                 FieldType[heap'[frames'[k].obj].type][frames'[k + 1].field]
    <3>1. k \in 1 .. n - 1 /\ k + 1 \in 1 .. n - 1 /\ k \in 1 .. n /\ k + 1 \in 1 .. n
      BY <1>4, <1>13, <2>5
    <3>2. /\ frames'[k] = frames[k] /\ frames'[k + 1] = frames[k + 1]
          /\ heap'[frames[k].obj].type = heap[frames[k].obj].type
          /\ heap'[frames[k + 1].obj].type = heap[frames[k + 1].obj].type
      BY <1>3, <1>8, <1>10, <3>1
    <3> QED
      BY <2>1, <3>1, <3>2 DEF ScopesTyped
  <2>6. ScopesTyped(frames', heap')
    BY <1>10, <2>5 DEF ScopesTyped
  <2> QED
    BY <2>4, <2>6
<1>16. /\ frames' # << >> /\ frames'[1].obj = frames[1].obj
       /\ \A k \in DOMAIN frames' : ~(frames'[k].obj < frames[1].obj)
  <2>1. 1 \in DOMAIN frames'
    BY <1>4, <1>12
  <2> QED
    BY <1>3, <1>4, <1>10, <1>12, <2>1
<1>17. mixed' \in BOOLEAN /\ (~mixed' => Typed(heap') /\ ScopesTyped(frames', heap'))
  <2>1. mixed' = mixed
    BY <1>1
  <2> QED
    BY <1>2, <1>15, <2>1
<1>18. StoreInv'
  <2>1. UNCHANGED <<program, cache, current>> /\ DOMAIN heap \subseteq DOMAIN heap'
    BY <1>1, <1>8
  <2> QED
    BY <1>1, <1>8, <1>9, <1>11, <1>14, <1>16, <1>17, <2>1, BodyStep
<1> QED
  BY <1>1, <1>5, <1>8, <1>18 DEF WritesOwn

LEMMA EndBodyStep == ASSUME StoreInv, EndBody PROVE StoreInv' /\ WritesOwn
<1> DEFINE r == frames[1].obj
<1>1. /\ Busy /\ cache' = [cache EXCEPT ![current] = r] /\ frames' = << >>
      /\ current' = NoSource /\ UNCHANGED <<program, heap, mixed>>
  BY DEF EndBody, Scope
<1>2. /\ HeapOK(heap) /\ Acyclic(heap, frames) /\ mixed \in BOOLEAN
      /\ program \in Programs /\ cache \in [Instance -> Nat]
      /\ ScopesOK(frames, heap, Stmts(current)) /\ current \in Instance
      /\ current \notin Cached /\ heap[r].type = program[current].type
      /\ \A n \in Cached : cache[n] \in DOMAIN heap /\ heap[cache[n]].type = program[n].type
  BY <1>1 DEF StoreInv, StoreTypeOK, BodyInv
<1>3. r \in DOMAIN heap /\ r \in Nat /\ r # 0
  <2>1. 1 \in DOMAIN frames /\ r \in DOMAIN heap
    BY <1>1, <1>2, ScopesFacts DEF Busy
  <2> QED
    BY <1>2, <2>1, HeapFacts
<1> HIDE DEF r
<1>4. /\ cache' \in [Instance -> Nat] /\ cache'[current] = r
      /\ \A n \in Instance : n # current => cache'[n] = cache[n]
  BY <1>1, <1>2, <1>3
<1>5. Cached' = Cached \cup {current}
  BY <1>2, <1>3, <1>4 DEF Cached
<1>6. StoreTypeOK'
  BY <1>1, <1>2, <1>3, <1>4, <1>5 DEF StoreTypeOK, Cached
<1>7. BodyInv'
  <2>1. ScopesOK(<< >>, heap, Stmts(current)')
    BY DEF ScopesOK
  <2> QED
    BY <1>1, <2>1 DEF BodyInv, Busy
<1>8. RegionInv'
  <2>1. /\ Cut(heap, r) /\ \A n \in Cached : Cut(heap, cache[n]) /\ cache[n] < r
        /\ \A m, n \in Cached : m # n => cache[m] # cache[n]
    BY <1>1 DEF StoreInv, RegionInv, r
  <2>2. \A n \in Cached : cache[n] # r
    BY <1>2, <1>3, <2>1, HeapFacts
  <2>3. \A n \in Cached : n # current /\ cache'[n] = cache[n]
    BY <1>2, <1>4 DEF Cached
  <2>4. /\ \A n \in Cached' : Cut(heap, cache'[n])
        /\ \A m, n \in Cached' : m # n => cache'[m] # cache'[n]
    BY <1>4, <1>5, <2>1, <2>2, <2>3
  <2> QED
    BY <1>1, <2>4 DEF RegionInv, Busy
<1>9. Len(<< >>) = 0 /\ 1 .. 0 - 1 = {}
  OBVIOUS
<1>10. Acyclic(heap, << >>)
  <2>1. \A b, c : Leads(heap, << >>, b, c) => Leads(heap, frames, b, c)
    BY <1>9 DEF Leads, Encloses
  <2> QED
    BY <1>2, <2>1, FewerLeads
<1>11. TypedInv'
  BY <1>1, <1>9 DEF StoreInv, TypedInv, ScopesTyped
<1>12. StoreInv'
  BY <1>1, <1>6, <1>7, <1>8, <1>10, <1>11 DEF StoreInv
<1> QED
  BY <1>1, <1>12 DEF WritesOwn

LEMMA BeginStep ==
  ASSUME StoreInv, NEW n \in Instance, Begin(n) PROVE StoreInv' /\ WritesOwn
<1> DEFINE l == Len(heap) + 1
           t == program[n].type
           src == program[n].source
           s == cache[src]
           body == program[n].body
<1>1. /\ n \notin Cached /\ Sources(n) \subseteq Cached /\ current' = n
      /\ frames' = <<Frame(l, body, Elem)>> /\ UNCHANGED <<program, cache>>
      /\ mixed' = (mixed \/ (src # NoSource /\ program[src].type # t))
      /\ current = NoSource
  BY DEF Begin
<1>2. /\ HeapOK(heap) /\ Acyclic(heap, frames) /\ mixed \in BOOLEAN
      /\ program \in Programs
  BY DEF StoreInv, StoreTypeOK
<1>3. /\ t \in Struct /\ src \in Instance \cup {NoSource} /\ body \in Seq(Statement)
      /\ \A i \in DOMAIN body : body[i] \in Stmts(n)
  BY <1>2, ProgramsAssumption, StmtsFacts DEF ProgramsAssumption
<1>4. l \in Nat /\ l \notin DOMAIN heap /\ \A b \in DOMAIN heap : b \in Nat /\ b < l
      /\ DOMAIN heap = 1 .. Len(heap)
  BY <1>2, HeapFacts
<1>5. ~Busy
  BY <1>1, TypesAssumption DEF StoreInv, BodyInv, TypesAssumption
<1> DEFINE fr == Frame(l, body, Elem)
           gr == <<fr>>
<1>6. /\ gr \in Seq(ScopeRecord) /\ Len(gr) = 1 /\ DOMAIN gr = {1}
      /\ gr[1].obj = l /\ gr[1].stmts = body
  <2>1. fr \in ScopeRecord /\ fr.obj = l /\ fr.stmts = body
    BY <1>3, <1>4, ElemIsField DEF Frame, ScopeRecord
  <2> HIDE DEF fr
  <2> QED
    BY <2>1
<1> HIDE DEF fr
<1>7. frames' = gr
  BY <1>1 DEF fr
<1> HIDE DEF gr, l, t, src, s, body
<1>8. \A b, c : ~Encloses(gr, b, c)
  BY <1>6 DEF Encloses
<1>9. /\ HeapOK(heap') /\ l \in DOMAIN heap' /\ heap'[l].type = t
      /\ \A b \in DOMAIN heap : b \in DOMAIN heap' /\ heap'[b] = heap[b]
      /\ \A a \in DOMAIN heap : Cut(heap, a) => Cut(heap', a)
      /\ Cut(heap', l) /\ Acyclic(heap', gr)
      /\ ~mixed' => Typed(heap')
  <2>1. CASE src = NoSource
    <3> DEFINE x == BlankStruct(t)
               q == Append(heap, x)
    <3>1. heap' = q
      BY <2>1 DEF Begin, src, t
    <3>2. /\ x \in Object /\ x.type = t
          /\ \A f \in Field : /\ x.fields[f].tag # "ref" /\ RefsTo(x.fields[f], DOMAIN heap)
                              /\ x.fields[f] = IF FieldType[t][f] = "none"
                                               THEN Absent ELSE Uninit
      BY <1>3, BlankFacts DEF RefsTo
    <3> HIDE DEF x
    <3>3. /\ HeapOK(q) /\ DOMAIN q = DOMAIN heap \cup {l} /\ q[l] = x
          /\ \A b \in DOMAIN heap : q[b] = heap[b]
      BY <1>2, <3>2, AppendFacts DEF l
    <3>4. \A a \in DOMAIN heap : Cut(heap, a) => Cut(q, a)
      BY <1>2, <3>2, CutAppend
    <3>5. Cut(q, l)
      <4>1. ASSUME NEW b \in DOMAIN q, NEW f \in Field, q[b].fields[f].tag = "ref"
            PROVE  b < l /\ q[b].fields[f].val < l
        <5>1. b \in DOMAIN heap /\ q[b] = heap[b]
          BY <3>2, <3>3, <4>1
        <5>2. q[b].fields[f].val \in DOMAIN heap
          BY <1>2, <4>1, <5>1 DEF HeapOK
        <5> QED
          BY <1>4, <5>1, <5>2
      <4> QED
        BY <4>1 DEF Cut
    <3>6. Acyclic(q, gr)
      BY <1>2, <1>8, <3>2, AcyclicAppend
    <3>7. ASSUME ~mixed' PROVE Typed(q)
      <4>1. Typed(heap)
        BY <1>1, <3>7 DEF StoreInv, TypedInv
      <4>2. \A f \in Field : x.fields[f] = Uninit \/ Fits(heap, FieldType[x.type][f], x.fields[f])
        BY <1>3, <3>2, TypesAssumption DEF Fits, TypesAssumption, Kinds
      <4> QED
        BY <1>2, <3>2, <4>1, <4>2, TypedAppend
    <3> HIDE DEF q
    <3> QED
      BY <3>1, <3>2, <3>3, <3>4, <3>5, <3>6, <3>7
  <2>2. CASE src # NoSource
    <3> DEFINE D == DeepCopy(heap, s)
               order == CopyOrder(heap, s)
    <3>1. heap' = [D EXCEPT ![l].type = t]
      BY <2>2 DEF Begin, src, t, s, l
    <3>2. src \in Cached
      BY <1>1, <1>3, <2>2 DEF Sources, src
    <3>3. s \in DOMAIN heap /\ heap[s].type = program[src].type
      BY <3>2 DEF StoreInv, StoreTypeOK, s
    <3>4. Copied(heap, s, D, order) /\ HeapOK(D)
      BY <1>2, <3>3, DeepCopyFacts
    <3> HIDE DEF D, order
    <3>5. /\ \A b \in DOMAIN heap : D[b] = heap[b] /\ b \in DOMAIN D
          /\ l \in DOMAIN D /\ D[l].type = heap[s].type
      <4> DEFINE k == Len(order)
      <4>1. /\ k \in Nat \ {0} /\ order[1] = s
            /\ D \in Seq(Object) /\ Len(D) = Len(heap) + k
            /\ \A b \in 1 .. Len(heap) : D[b] = heap[b]
            /\ \A i \in 1 .. k : D[Len(heap) + i].type = heap[order[i]].type
        BY <3>4 DEF Copied
      <4> HIDE DEF k
      <4>2. DOMAIN D = 1 .. Len(heap) + k /\ 1 \in 1 .. k /\ Len(heap) \in Nat
        BY <1>2, <4>1, HeapFacts
      <4> QED
        BY <1>4, <4>1, <4>2 DEF l
    <3> DEFINE p == [D EXCEPT ![l].type = t]
    <3>6. /\ HeapOK(p) /\ DOMAIN p = DOMAIN D /\ p[l].type = t
          /\ D[l].type = t => p = D
          /\ \A b \in DOMAIN D : (b # l => p[b] = D[b]) /\ p[b].fields = D[b].fields
      BY <1>3, <3>4, <3>5, RetypeFacts
    <3> HIDE DEF p
    <3>7. \A a \in 1 .. Len(heap) + 1 : Cut(heap, a) => Cut(p, a)
      <4>1. ASSUME NEW a \in 1 .. Len(heap) + 1, Cut(heap, a) PROVE Cut(p, a)
        <5>1. Cut(D, a)
          BY <1>2, <3>3, <4>1, CutCopy DEF D
        <5> QED
          BY <3>6, <5>1 DEF Cut
      <4> QED
        BY <4>1
    <3>8. /\ \A a \in DOMAIN heap : Cut(heap, a) => Cut(p, a)
          /\ Cut(p, l)
      <4>1. l \in 1 .. Len(heap) + 1 /\ DOMAIN heap \subseteq 1 .. Len(heap) + 1
        BY <1>2, <1>4, HeapFacts DEF l
      <4>2. Cut(heap, l)
        BY <1>2, CutAtEnd DEF l
      <4> QED
        BY <3>7, <4>1, <4>2
    <3>9. Acyclic(p, gr)
      <4>1. Acyclic(D, gr)
        BY <1>2, <1>8, <3>3, AcyclicCopy DEF D
      <4>2. \A b, c \in DOMAIN D : Leads(p, gr, b, c) => Leads(D, gr, b, c)
        BY <3>6 DEF Leads, Refers
      <4> QED
        BY <3>6, <4>1, <4>2, FewerLeads
    <3>10. ASSUME ~mixed' PROVE Typed(p)
      <4>1. Typed(heap) /\ program[src].type = t
        BY <1>1, <2>2, <3>10 DEF StoreInv, TypedInv
      <4>2. Typed(D)
        BY <1>2, <3>3, <4>1, TypedCopy DEF D
      <4> QED
        BY <3>3, <3>5, <3>6, <4>1, <4>2
    <3>11. heap' = p
      BY <3>1 DEF p
    <3>12. \A b \in DOMAIN heap : b # l
      BY <1>4
    <3> QED
      BY <3>5, <3>6, <3>8, <3>9, <3>10, <3>11, <3>12
  <2> QED
    BY <2>1, <2>2
<1>10. Cached' = Cached /\ Stmts(n)' = Stmts(n) /\ Sources(n)' = Sources(n)
  BY <1>1 DEF Cached, Stmts, Sources
<1>11. mixed' \in BOOLEAN
  BY <1>1, <1>2
<1>12. \A m \in Cached : /\ cache[m] \in DOMAIN heap /\ cache[m] \in DOMAIN heap'
                         /\ heap'[cache[m]].type = program[m].type
                         /\ Cut(heap', cache[m]) /\ cache[m] < l
  BY <1>4, <1>9 DEF StoreInv, StoreTypeOK, RegionInv
<1>13. StoreTypeOK'
  BY <1>1, <1>9, <1>10, <1>11, <1>12 DEF StoreInv, StoreTypeOK
<1>14. BodyInv'
  <2>1. ScopesOK(gr, heap', Stmts(n))
    BY <1>3, <1>6, <1>9 DEF ScopesOK
  <2> QED
    BY <1>1, <1>6, <1>7, <1>9, <1>10, <2>1 DEF BodyInv, Busy, t
<1>15. RegionInv'
  <2>1. /\ \A m \in Cached : Cut(heap', cache[m]) /\ cache[m] < l
        /\ \A m, k \in Cached : m # k => cache[m] # cache[k]
    BY <1>12 DEF StoreInv, RegionInv
  <2>2. \A k \in DOMAIN gr : gr[k].obj = l /\ ~(l < l)
    BY <1>4, <1>6
  <2>3. Cut(heap', gr[1].obj) /\ \A m \in Cached : cache[m] < gr[1].obj
    BY <1>6, <1>9, <2>1
  <2>4. \A k \in DOMAIN gr : ~(gr[k].obj < gr[1].obj)
    BY <1>6, <2>2
  <2> QED
    BY <1>1, <1>7, <1>10, <2>1, <2>3, <2>4 DEF RegionInv
<1>16. ScopesTyped(gr, heap')
  BY <1>6 DEF ScopesTyped
<1>17. TypedInv'
  BY <1>7, <1>9, <1>16 DEF TypedInv
<1>18. StoreInv'
  BY <1>7, <1>9, <1>13, <1>14, <1>15, <1>17 DEF StoreInv
<1> QED
  BY <1>9, <1>18 DEF WritesOwn

-----------------------------------------------------------------------------
LEMMA InitOK == ASSUME StoreInit PROVE StoreInv
<1>1. /\ program \in Programs /\ heap = << >> /\ cache = [n \in Instance |-> 0]
      /\ current = NoSource /\ frames = << >> /\ mixed = FALSE
  BY DEF StoreInit
<1>2. Cached = {} /\ ~Busy
  BY <1>1 DEF Cached, Busy
<1>3. DOMAIN << >> = {} /\ Len(<< >>) = 0 /\ 1 .. 0 - 1 = {}
      /\ << >> \in Seq(Object) /\ << >> \in Seq(ScopeRecord)
  OBVIOUS
<1>4. StoreTypeOK
  BY <1>1, <1>2, <1>3 DEF StoreTypeOK, HeapOK
<1>5. BodyInv
  BY <1>1, <1>2, <1>3 DEF BodyInv, ScopesOK
<1>6. RegionInv
  BY <1>2 DEF RegionInv
<1>7. Acyclic(heap, frames)
  BY <1>1, <1>3 DEF Acyclic
<1>8. TypedInv
  BY <1>1, <1>3 DEF TypedInv, Typed, ScopesTyped
<1> QED
  BY <1>4, <1>5, <1>6, <1>7, <1>8 DEF StoreInv

LEMMA Stutter == ASSUME StoreInv, UNCHANGED storeVars PROVE StoreInv' /\ WritesOwn
<1>1. UNCHANGED <<program, heap, cache, errors, current, frames, mixed>>
  BY DEF storeVars
<1>2. /\ Cached' = Cached /\ Busy' = Busy /\ Stmts(current)' = Stmts(current)
      /\ Sources(current)' = Sources(current)
  BY <1>1 DEF Cached, Busy, Stmts, Sources
<1>3. StoreTypeOK' /\ BodyInv' /\ RegionInv'
  BY <1>1, <1>2 DEF StoreInv, StoreTypeOK, BodyInv, RegionInv
<1>4. Acyclic(heap, frames)' /\ TypedInv'
  BY <1>1 DEF StoreInv, TypedInv
<1> QED
  BY <1>1, <1>3, <1>4 DEF StoreInv, WritesOwn

(* Every step keeps the invariant, writes to no object of an earlier       *)
(* instance, and leaves what is cached there.                              *)
LEMMA StepOK ==
  ASSUME StoreInv, [StoreNext]_storeVars PROVE StoreInv' /\ WritesOwn
<1>1. CASE UNCHANGED storeVars \/ StoreFinished
  BY <1>1, Stutter DEF StoreFinished
<1>2. CASE \E n \in Instance : Begin(n)
  BY <1>2, BeginStep
<1>3. CASE Assign \/ AssignElem \/ Operate
  BY <1>3, AssignStep, AssignElemStep, OperateStep
<1>4. CASE CopyStruct \/ EnterBare \/ PassBare
  BY <1>4, CopyStructStep, EnterBareStep, PassBareStep
<1>5. CASE Refuse \/ Abort
  BY <1>5, StoppedStep
<1>6. CASE EndScope \/ EndBody
  BY <1>6, EndScopeStep, EndBodyStep
<1> QED
  BY <1>1, <1>2, <1>3, <1>4, <1>5, <1>6 DEF StoreNext

LEMMA CacheKept ==
  ASSUME StoreInv, [StoreNext]_storeVars, NEW n \in Cached
  PROVE  cache'[n] = cache[n]
<1>1. CASE EndBody
  <2>1. /\ Busy /\ cache' = [cache EXCEPT ![current] = Scope.obj]
        /\ current \notin Cached /\ cache \in [Instance -> Nat]
    BY <1>1 DEF EndBody, StoreInv, BodyInv, StoreTypeOK
  <2> QED
    BY <2>1 DEF Cached
<1>2. CASE ~EndBody
  <2>1. UNCHANGED cache
    BY <1>2 DEF StoreNext, storeVars, StoreFinished, Begin, Assign, AssignElem, Operate,
                CopyStruct, EnterBare, PassBare, Refuse, Abort, EndScope, Advance
  <2> QED
    BY <2>1
<1> QED
  BY <1>1, <1>2

(* The objects of resolved instances, and those of the one being resolved, *)
(* lie in ranges of addresses of their own, and what they refer to with    *)
(* them; all values of a program that mixes no types have the kind their   *)
(* field declares; no object contains itself.                              *)
THEOREM StoreIsSound == StoreSpec => []StoreInv
<1>1. StoreInit => StoreInv
  BY InitOK
<1>2. StoreInv /\ [StoreNext]_storeVars => StoreInv'
  BY StepOK
<1> QED
  BY <1>1, <1>2, PTL DEF StoreSpec

(* What lies before a cut and what lies behind it reach nothing together.  *)
LEMMA CutApart ==
  ASSUME HeapOK(heap), NEW r \in Nat, Cut(heap, r),
         NEW a \in DOMAIN heap, NEW b \in DOMAIN heap, a < r, ~(b < r)
  PROVE  Reachable(heap, a) \cap Reachable(heap, b) = {}
<1> SUFFICES ASSUME NEW c \in Reachable(heap, a), c \in Reachable(heap, b)
             PROVE  FALSE
  OBVIOUS
<1>1. (c < r <=> a < r) /\ (c < r <=> b < r)
  BY CutSeparates
<1> QED
  BY <1>1

(* An instance's objects are reached from its root, cached or the first    *)
(* scope's, or from what lies behind that.                                 *)
LEMMA OwnFacts ==
  ASSUME StoreInv, NEW n \in Instance, NEW x \in Own(n)
  PROVE  \/ n \in Cached /\ x \in Reachable(heap, cache[n])
         \/ /\ n = current /\ n \notin Cached /\ Busy
            /\ \E a \in DOMAIN heap : ~(a < frames[1].obj) /\ x \in Reachable(heap, a)
<1>1. ScopesOK(frames, heap, Stmts(current))
  BY DEF StoreInv, BodyInv
<1>2. CASE n \in Cached
  <2>1. Own(n) = UNION {Reachable(heap, a) : a \in {cache[n]}}
    BY <1>2 DEF Own
  <2> QED
    BY <1>2, <2>1
<1>3. CASE n \notin Cached
  <2>1. n = current
    BY <1>3 DEF Own
  <2>2. Own(n) = UNION {Reachable(heap, a) : a \in {frames[k].obj : k \in DOMAIN frames}}
    BY <1>3, <2>1 DEF Own
  <2>3. PICK k \in DOMAIN frames : x \in Reachable(heap, frames[k].obj)
    BY <2>2
  <2>4. Busy /\ frames[k].obj \in DOMAIN heap
    BY <1>1, <2>3, ScopesFacts DEF Busy
  <2>5. ~(frames[k].obj < frames[1].obj)
    BY <2>4 DEF StoreInv, RegionInv
  <2> QED
    BY <1>3, <2>1, <2>3, <2>4, <2>5
<1> QED
  BY <1>2, <1>3

(* No object is ever shared between two instances, whatever their bodies   *)
(* copy, alias and modify.                                                 *)
THEOREM ObjectsAreApart == StoreSpec => []NothingShared
<1>1. ASSUME StoreInv PROVE NothingShared
  <2> SUFFICES ASSUME NEW m \in Instance, NEW n \in Instance, m # n,
                      NEW x \in Own(m), x \in Own(n)
               PROVE  FALSE
    BY DEF NothingShared
  <2>1. /\ HeapOK(heap) /\ DOMAIN heap \subseteq Nat
        /\ \A i \in Cached : cache[i] \in DOMAIN heap /\ Cut(heap, cache[i])
        /\ \A i, j \in Cached : i # j => cache[i] # cache[j]
        /\ Busy => /\ frames[1].obj \in DOMAIN heap /\ Cut(heap, frames[1].obj)
                   /\ \A i \in Cached : cache[i] < frames[1].obj
    BY <1>1, HeapFacts, ScopesFacts DEF StoreInv, StoreTypeOK, RegionInv, BodyInv, Busy
  <2>2. ASSUME NEW i \in Cached, NEW j \in Cached, cache[i] < cache[j],
               NEW c \in Reachable(heap, cache[i]), c \in Reachable(heap, cache[j])
        PROVE  FALSE
    <3>1. cache[j] \in Nat /\ ~(cache[j] < cache[j])
      BY <2>1
    <3> QED
      BY <2>1, <2>2, <3>1, CutApart
  <2>3. ASSUME NEW i \in Cached, Busy, NEW a \in DOMAIN heap, ~(a < frames[1].obj),
               NEW c \in Reachable(heap, cache[i]), c \in Reachable(heap, a)
        PROVE  FALSE
    <3>1. frames[1].obj \in Nat /\ cache[i] < frames[1].obj /\ Cut(heap, frames[1].obj)
      BY <2>1, <2>3
    <3> QED
      BY <2>1, <2>3, <3>1, CutApart
  <2>4. CASE m \in Cached /\ n \in Cached
    <3>1. x \in Reachable(heap, cache[m]) /\ x \in Reachable(heap, cache[n])
      BY <1>1, <2>4, OwnFacts
    <3>2. cache[m] < cache[n] \/ cache[n] < cache[m]
      BY <2>1, <2>4
    <3> QED
      BY <2>2, <2>4, <3>1, <3>2
  <2>5. CASE m \in Cached /\ n \notin Cached
    BY <1>1, <2>3, <2>5, OwnFacts
  <2>6. CASE m \notin Cached /\ n \in Cached
    BY <1>1, <2>3, <2>6, OwnFacts
  <2>7. CASE m \notin Cached /\ n \notin Cached
    BY <1>1, <2>7, OwnFacts
  <2> QED
    BY <2>4, <2>5, <2>6, <2>7
<1> QED
  BY <1>1, StoreIsSound, PTL

(* A resolved instance is never changed again: not by a body that copies   *)
(* it, however deep, nor by one that copies a copy.                        *)
THEOREM ResolvedStaysFrozen == StoreSpec => CachedFrozen
<1>1. ASSUME StoreInv, [StoreNext]_storeVars
      PROVE  \A n \in Cached :
               /\ cache'[n] = cache[n]
               /\ \A b \in Reachable(heap, cache[n]) : heap'[b] = heap[b]
  <2> SUFFICES ASSUME NEW n \in Cached, NEW b \in Reachable(heap, cache[n])
               PROVE  heap'[b] = heap[b]
    BY <1>1, CacheKept
  <2>1. /\ HeapOK(heap) /\ DOMAIN heap \subseteq Nat /\ cache[n] \in DOMAIN heap
        /\ Busy => /\ Cut(heap, frames[1].obj) /\ frames[1].obj \in DOMAIN heap
                   /\ cache[n] < frames[1].obj
    BY <1>1, HeapFacts, ScopesFacts DEF StoreInv, StoreTypeOK, RegionInv, BodyInv, Busy
  <2>2. b \in DOMAIN heap
    BY <2>1, Reached
  <2>3. Busy => b < frames[1].obj
    BY <2>1, CutSeparates
  <2>4. WritesOwn
    BY <1>1, StepOK
  <2> QED
    BY <2>2, <2>3, <2>4 DEF WritesOwn
<1>2. StoreInv /\ [StoreNext]_storeVars =>
        [\A n \in Cached :
           /\ cache'[n] = cache[n]
           /\ \A b \in Reachable(heap, cache[n]) : heap'[b] = heap[b]]_storeVars
  BY <1>1
<1> QED
  BY <1>2, StoreIsSound, PTL DEF StoreSpec, CachedFrozen

(* An exported instance has a value of the declared kind in every field,   *)
(* its own and those of the structs below it.                              *)
THEOREM ExportsAreComplete == StoreSpec => []TypedExportComplete
<1>1. ASSUME StoreInv PROVE TypedExportComplete
  <2> SUFFICES ASSUME ~mixed, NEW n \in Exported
               PROVE  /\ heap[cache[n]].type = program[n].type
                      /\ \A b \in Reachable(heap, cache[n]) :
                           heap[b].type \in Struct => Complete(heap, b)
    BY DEF TypedExportComplete
  <2>1. /\ n \in Cached /\ ~HasMissing(heap, cache[n]) /\ HeapOK(heap) /\ Typed(heap)
        /\ cache[n] \in DOMAIN heap /\ heap[cache[n]].type = program[n].type
    BY <1>1 DEF Exported, StoreInv, StoreTypeOK, TypedInv
  <2>2. ASSUME NEW b \in Reachable(heap, cache[n]), heap[b].type \in Struct
        PROVE  Complete(heap, b)
    <3>1. b \in DOMAIN heap
      BY <2>1, Reached
    <3>2. \A f \in Field : heap[b].fields[f] # Uninit
      BY <2>1, <2>2 DEF HasMissing
    <3> QED
      BY <2>1, <2>2, <3>1, <3>2 DEF Typed, Complete
  <2> QED
    BY <2>1, <2>2
<1> QED
  BY <1>1, StoreIsSound, PTL

(* A step within a body changes no object there is but at most one it      *)
(* touches, and of that, if it is a scope's, only the scope's own field.   *)
StepLocal ==
  \/ \A b \in DOMAIN heap : heap'[b] = heap[b]
  \/ \E o \in DOMAIN heap \cap Touched :
       /\ \A b \in DOMAIN heap : b # o => heap'[b] = heap[b]
       /\ \A k \in DOMAIN frames : frames[k].obj = o =>
            \A f \in Field : f # Target(k) => heap'[o].fields[f] = heap[o].fields[f]

(* The innermost scope's object is no other scope's.                       *)
LEMMA InnermostApart ==
  ASSUME StoreInv, NEW j \in DOMAIN frames, NEW k \in DOMAIN frames,
         frames[j].obj = frames[k].obj
  PROVE  j = k
<1>1. /\ Acyclic(heap, frames) /\ Len(frames) \in Nat /\ DOMAIN frames = 1 .. Len(frames)
      /\ \A i \in 1 .. Len(frames) : frames[i].obj \in DOMAIN heap
  BY ScopesFacts DEF StoreInv, BodyInv
<1>2. ~(j < k) /\ ~(k < j)
  BY <1>1, ScopesDiffer
<1> QED
  BY <1>1, <1>2

(* What is put in the field of the statement, or of the scope that ends.   *)
LEMMA PutLocal ==
  ASSUME StoreInv, Busy, NEW j \in DOMAIN frames, frames[j].obj \in Touched,
         \A b \in DOMAIN heap : b # frames[j].obj => heap'[b] = heap[b],
         \A f \in Field : f # Target(j)
           => heap'[frames[j].obj].fields[f] = heap[frames[j].obj].fields[f]
  PROVE  StepLocal
<1>1. frames[j].obj \in DOMAIN heap
  BY ScopesFacts DEF StoreInv, BodyInv
<1>2. \A k \in DOMAIN frames : frames[k].obj = frames[j].obj => k = j
  BY InnermostApart
<1> QED
  BY <1>1, <1>2 DEF StepLocal

LEMMA LocalStep ==
  ASSUME StoreInv, Busy, StoreNext, frames' # << >> PROVE StepLocal
<1> DEFINE n == Len(frames)
<1>1. /\ HeapOK(heap) /\ ScopesOK(frames, heap, Stmts(current))
      /\ n \in Nat /\ n >= 1 /\ DOMAIN frames = 1 .. n /\ n \in DOMAIN frames
      /\ \A k \in DOMAIN frames : frames[k].obj \in DOMAIN heap
                                  /\ heap[frames[k].obj].type \in Struct
  BY ScopesFacts DEF StoreInv, StoreTypeOK, BodyInv, Busy
<1>2. Scope = frames[n]
  BY DEF Scope
<1>3. ASSUME Scope.stmts # << >>
      PROVE  Target(n) = Stmt.field /\ Scope.obj \in Touched /\ Stmt.field \in Field
             /\ Objects(Held) \subseteq Touched
  BY <1>1, <1>3, AtFacts DEF Target, Touched
<1>4. ASSUME NEW h, HeapOK(h), DOMAIN heap \subseteq DOMAIN h, NEW v \in Value,
             \A b \in DOMAIN heap : h[b] = heap[b], Scope.stmts # << >>,
             heap' = Put(h, Scope.obj, Stmt.field, v), RefsTo(v, DOMAIN h)
      PROVE  StepLocal
  <2>1. /\ Scope.obj \in DOMAIN h /\ Stmt.field \in Field
        /\ Scope.obj = frames[n].obj /\ Scope.obj \in DOMAIN heap
    BY <1>1, <1>2, <1>3, <1>4
  <2>2. /\ \A b \in DOMAIN h : b # Scope.obj => heap'[b] = h[b]
        /\ \A f \in Field : heap'[Scope.obj].fields[f] =
                              IF f = Stmt.field THEN v ELSE h[Scope.obj].fields[f]
    BY <1>4, <2>1, PutFacts
  <2>3. \A b \in DOMAIN heap : b # frames[n].obj => heap'[b] = heap[b]
    BY <1>4, <2>1, <2>2
  <2>4. \A f \in Field : f # Target(n) =>
          heap'[frames[n].obj].fields[f] = heap[frames[n].obj].fields[f]
    BY <1>3, <1>4, <2>1, <2>2
  <2> QED
    BY <1>1, <1>3, <1>4, <2>1, <2>3, <2>4, PutLocal
<1>5. CASE Assign
  <2>1. /\ Scope.stmts # << >> /\ AtStmt({"set", "get"}) /\ CanAssign
    BY <1>5 DEF Assign, AtStmt
  <2>2. Right \in Value /\ RefsTo(Right, DOMAIN heap)
    BY <2>1, RightFacts
  <2>3. CASE Cat # "list"
    <3>1. heap' = Put(heap, Scope.obj, Stmt.field, Right)
      BY <1>5, <2>3 DEF Assign
    <3> QED
      BY <1>1, <1>4, <2>1, <2>2, <3>1
  <2>4. CASE Cat = "list"
    <3> DEFINE x == NewList(Right)
               q == Append(heap, x)
               r == Ref(Len(heap) + 1)
    <3>1. x \in Object /\ \A f \in Field : RefsTo(x.fields[f], DOMAIN heap)
      BY <2>2, NewListFacts DEF RefsTo
    <3>2. heap' = Put(q, Scope.obj, Stmt.field, r)
      BY <1>5, <2>4 DEF Assign
    <3> HIDE DEF x
    <3>3. /\ HeapOK(q) /\ DOMAIN q = DOMAIN heap \cup {Len(heap) + 1}
          /\ \A b \in DOMAIN heap : q[b] = heap[b]
      BY <1>1, <3>1, AppendFacts
    <3>4. r \in Value /\ RefsTo(r, DOMAIN q)
      BY <1>1, <3>3, HeapFacts DEF Ref, Value, Tags, RefsTo
    <3> HIDE DEF q, r
    <3>5. DOMAIN heap \subseteq DOMAIN q
      BY <3>3
    <3> QED
      BY <1>4, <2>1, <3>2, <3>3, <3>4, <3>5
  <2> QED
    BY <2>3, <2>4
<1>6. CASE Operate
  <2> DEFINE v == Num(Held.val + Stmt.num)
  <2>1. Scope.stmts # << >> /\ heap' = Put(heap, Scope.obj, Stmt.field, v)
    BY <1>6 DEF Operate, AtStmt
  <2>2. Held \in Value /\ Stmt.num \in Nat
    BY <2>1, AtFacts
  <2>3. v \in Value /\ v.tag = "num"
    <3>1. Held.val + Stmt.num \in Nat
      BY <2>2 DEF Value
    <3> QED
      BY <3>1 DEF Num, Value, Tags
  <2> HIDE DEF v
  <2> QED
    BY <1>1, <1>4, <2>1, <2>3 DEF RefsTo
<1>7. CASE AssignElem
  <2> DEFINE v == Num(Stmt.num)
  <2>1. /\ Scope.stmts # << >> /\ heap' = Put(heap, Held.val, Elem, v)
        /\ Held.tag = "ref" /\ heap[Held.val].type = "list"
    BY <1>7 DEF AssignElem, AtStmt, HoldsList
  <2>2. Held.val \in DOMAIN heap /\ Stmt.num \in Nat
    BY <2>1, AtFacts DEF RefsTo
  <2>3. v \in Value /\ RefsTo(v, DOMAIN heap)
    BY <2>2 DEF Num, Value, Tags, RefsTo
  <2> HIDE DEF v
  <2>4. \A b \in DOMAIN heap : b # Held.val => heap'[b] = heap[b]
    BY <1>1, <2>1, <2>2, <2>3, ElemIsField, PutFacts
  <2>5. Held.val \in Touched
    BY <1>1, <1>3, <2>1, <2>2, Reached DEF Objects
  <2>6. \A k \in DOMAIN frames : frames[k].obj # Held.val
    BY <1>1, <2>1, TypesAssumption DEF TypesAssumption, Kinds
  <2> QED
    BY <2>2, <2>4, <2>5, <2>6 DEF StepLocal
<1>8. CASE CopyStruct
  <2>1. heap' = DeepCopy(heap, cache[Stmt.from]) /\ Stmt.from \in Cached
    BY <1>8, AtFacts DEF CopyStruct, AtStmt
  <2>2. cache[Stmt.from] \in DOMAIN heap
    BY <2>1 DEF StoreInv, StoreTypeOK
  <2> DEFINE s == cache[Stmt.from]
             D == DeepCopy(heap, s)
  <2>3. Copied(heap, s, D, CopyOrder(heap, s))
    BY <1>1, <2>2, DeepCopyFacts
  <2> HIDE DEF D, s
  <2>4. \A b \in 1 .. Len(heap) : D[b] = heap[b]
    BY <2>3 DEF Copied
  <2> QED
    BY <1>1, <2>1, <2>4, HeapFacts DEF StepLocal, D, s
<1>9. CASE EnterBare
  <2>1. CASE IsSet(Held)
    BY <1>9, <2>1 DEF EnterBare, StepLocal
  <2>2. CASE ~IsSet(Held)
    <3> DEFINE x == BlankStruct(DeclaredType)
    <3>1. heap' = Append(heap, x)
      BY <1>9, <2>2 DEF EnterBare
    <3> HIDE DEF x
    <3>2. heap \in Seq(Object) /\ DOMAIN heap = 1 .. Len(heap)
      BY <1>1 DEF HeapOK
    <3>3. \A b \in DOMAIN heap : Append(heap, x)[b] = heap[b]
      BY <3>2
    <3> QED
      BY <3>1, <3>3 DEF StepLocal
  <2> QED
    BY <2>1, <2>2
<1>10. CASE PassBare
  BY <1>10 DEF PassBare, StepLocal
<1>11. CASE EndScope
  <2> DEFINE j == n - 1
             v == Ref(Scope.obj)
  <2>1. /\ n > 1 /\ heap' = Put(heap, frames[j].obj, Scope.field, v)
        /\ Scope.stmts = << >>
    BY <1>11 DEF EndScope
  <2>2. j \in DOMAIN frames /\ j < n /\ j + 1 = n
    BY <1>1, <2>1
  <2>3. Scope.obj \in DOMAIN heap /\ Scope.field \in Field /\ frames[j].obj \in DOMAIN heap
    BY <1>1, <1>2, <2>2, ScopesFacts
  <2>4. v \in Value /\ RefsTo(v, DOMAIN heap)
    BY <1>1, <2>3, HeapFacts DEF Ref, Value, Tags, RefsTo
  <2>5. Target(j) = Scope.field
    BY <1>2, <2>2 DEF Target
  <2>6. frames[j].obj \in Touched
    BY <2>1 DEF Touched
  <2> HIDE DEF v, j
  <2>7. /\ \A b \in DOMAIN heap : b # frames[j].obj => heap'[b] = heap[b]
        /\ \A f \in Field : heap'[frames[j].obj].fields[f] =
             IF f = Scope.field THEN v ELSE heap[frames[j].obj].fields[f]
    BY <1>1, <2>1, <2>3, <2>4, PutFacts
  <2> QED
    BY <2>2, <2>5, <2>6, <2>7, PutLocal
<1>12. ~Refuse /\ ~Abort /\ ~EndBody /\ ~StoreFinished /\ ~(\E i \in Instance : Begin(i))
  BY TypesAssumption
     DEF Refuse, Abort, EndBody, StoreFinished, StoreDone, Begin, StoreInv, BodyInv,
         TypesAssumption
<1> QED
  BY <1>5, <1>6, <1>7, <1>8, <1>9, <1>10, <1>11, <1>12 DEF StoreNext

(* A statement changes its own field; every other one of its scope and of  *)
(* the scopes around it keeps its value and what is below it, unless it    *)
(* was assigned the object the statement changes.                          *)
THEOREM StatementsAreLocal == StoreSpec => StatementLocal
<1>1. ASSUME StoreInv, StoreNext, Busy, frames' # << >>,
             NEW k \in DOMAIN frames, NEW f \in Field,
             f # Target(k), Objects(heap[frames[k].obj].fields[f]) \cap Touched = {}
      PROVE  /\ heap'[frames[k].obj].fields[f] = heap[frames[k].obj].fields[f]
             /\ \A b \in Objects(heap[frames[k].obj].fields[f]) : heap'[b] = heap[b]
  <2> DEFINE old == heap[frames[k].obj].fields[f]
  <2>1. HeapOK(heap) /\ frames[k].obj \in DOMAIN heap
    BY <1>1, ScopesFacts DEF StoreInv, StoreTypeOK, BodyInv
  <2>2. Objects(old) \subseteq DOMAIN heap
    BY <2>1, Reached DEF Objects, HeapOK
  <2>3. StepLocal
    BY <1>1, LocalStep
  <2>4. heap'[frames[k].obj].fields[f] = old
    BY <1>1, <2>1, <2>3 DEF StepLocal
  <2>5. \A b \in Objects(old) : heap'[b] = heap[b]
    BY <1>1, <2>2, <2>3 DEF StepLocal
  <2> QED
    BY <2>4, <2>5
<1>2. ASSUME StoreInv, UNCHANGED storeVars PROVE heap' = heap
  BY <1>2 DEF storeVars
<1>3. StoreInv /\ [StoreNext]_storeVars =>
        [Busy /\ frames' # << >> =>
           \A k \in DOMAIN frames : \A f \in Field :
             LET old == heap[frames[k].obj].fields[f]
             IN  f # Target(k) /\ Objects(old) \cap Touched = {} =>
                   /\ heap'[frames[k].obj].fields[f] = old
                   /\ \A b \in Objects(old) : heap'[b] = heap[b]]_storeVars
  BY <1>1
<1> QED
  BY <1>3, StoreIsSound, PTL DEF StoreSpec, StatementLocal
=============================================================================
