----------------------------- MODULE SeqLemmas -----------------------------
(***************************************************************************)
(* Lemmas that the proofs of several components rest on: sequences, which  *)
(* grow by Append and shrink by their last element; the least and greatest *)
(* of a set of numbers, which give proofs by a least counterexample where  *)
(* an induction is needed; and the ranks that sort a finite family.        *)
(***************************************************************************)
EXTENDS Naturals, Sequences, Functions, FiniteSets, SequenceTheorems,
        FiniteSetTheorems, WellFoundedInduction, TLAPS

(* The range of a sequence, by index. *)
LEMMA RangeIndexed ==
  ASSUME NEW S, NEW s \in Seq(S)
  PROVE  Range(s) = {s[i] : i \in 1 .. Len(s)}
BY DEF Range

(* A nonempty sequence without its last element. *)
LEMMA FrontFacts ==
  ASSUME NEW S, NEW s \in Seq(S), s # << >>
  PROVE  /\ SubSeq(s, 1, Len(s) - 1) \in Seq(S)
         /\ Len(SubSeq(s, 1, Len(s) - 1)) = Len(s) - 1
         /\ \A k \in 1 .. Len(s) - 1 : SubSeq(s, 1, Len(s) - 1)[k] = s[k]
<1>1. PICK n \in Nat : Len(s) = n + 1
  <2>1. Len(s) \in Nat /\ Len(s) # 0
    OBVIOUS
  <2> QED
    BY <2>1, Len(s) - 1 \in Nat
<1>2. n \in Int /\ \A i \in 1 .. n : s[i] \in S
  BY <1>1
<1>3. /\ SubSeq(s, 1, n) \in Seq(S)
      /\ Len(SubSeq(s, 1, n)) = IF 1 <= n THEN n - 1 + 1 ELSE 0
      /\ \A k \in 1 .. n - 1 + 1 : SubSeq(s, 1, n)[k] = s[1 + k - 1]
  BY <1>2, SubSeqProperties
<1> QED
  BY <1>1, <1>3

(* The first n elements of a sequence, and prefixes of those. *)
LEMMA PrefixFacts ==
  ASSUME NEW S, NEW s \in Seq(S), NEW n \in 0 .. Len(s)
  PROVE  /\ SubSeq(s, 1, n) \in Seq(S) /\ Len(SubSeq(s, 1, n)) = n
         /\ \A i \in 1 .. n : SubSeq(s, 1, n)[i] = s[i]
<1>1. n \in Int /\ \A i \in 1 .. n : s[i] \in S
  OBVIOUS
<1>2. /\ SubSeq(s, 1, n) \in Seq(S)
      /\ Len(SubSeq(s, 1, n)) = IF 1 <= n THEN n - 1 + 1 ELSE 0
      /\ \A k \in 1 .. n - 1 + 1 : SubSeq(s, 1, n)[k] = s[1 + k - 1]
  BY <1>1, SubSeqProperties
<1>3. n \in Nat
  OBVIOUS
<1>4. Len(SubSeq(s, 1, n)) = n
  BY <1>2, <1>3
<1> QED
  BY <1>2, <1>3, <1>4

LEMMA PrefixOfPrefix ==
  ASSUME NEW S, NEW s \in Seq(S), NEW n \in 0 .. Len(s), NEW m \in 0 .. n
  PROVE  SubSeq(SubSeq(s, 1, n), 1, m) = SubSeq(s, 1, m)
<1> DEFINE t == SubSeq(s, 1, n)
<1>1. t \in Seq(S) /\ Len(t) = n /\ \A i \in 1 .. n : t[i] = s[i]
  BY PrefixFacts
<1>2. m \in 0 .. Len(s) /\ m \in 0 .. Len(t) /\ n \in Nat /\ m \in Nat
  BY <1>1
<1> HIDE DEF t
<1>3. /\ SubSeq(t, 1, m) \in Seq(S) /\ Len(SubSeq(t, 1, m)) = m
      /\ \A i \in 1 .. m : SubSeq(t, 1, m)[i] = t[i]
  BY <1>1, <1>2, PrefixFacts
<1>4. /\ SubSeq(s, 1, m) \in Seq(S) /\ Len(SubSeq(s, 1, m)) = m
      /\ \A i \in 1 .. m : SubSeq(s, 1, m)[i] = s[i]
  BY <1>2, PrefixFacts
<1>5. \A i \in 1 .. m : SubSeq(t, 1, m)[i] = SubSeq(s, 1, m)[i]
  BY <1>1, <1>2, <1>3, <1>4
<1>6. SubSeq(t, 1, m) = SubSeq(s, 1, m)
  BY <1>3, <1>4, <1>5, SeqEqual
<1> QED
  BY <1>6 DEF t

LEMMA PrefixStep ==
  ASSUME NEW S, NEW s \in Seq(S), NEW n \in 1 .. Len(s)
  PROVE  SubSeq(s, 1, n) = Append(SubSeq(s, 1, n - 1), s[n])
<1> DEFINE t == SubSeq(s, 1, n - 1)
<1>1. n - 1 \in 0 .. Len(s) /\ n \in 0 .. Len(s) /\ n \in Nat /\ n - 1 \in Nat /\ s[n] \in S
  OBVIOUS
<1>2. t \in Seq(S) /\ Len(t) = n - 1 /\ \A i \in 1 .. n - 1 : t[i] = s[i]
  BY <1>1, PrefixFacts
<1> HIDE DEF t
<1>3. /\ SubSeq(s, 1, n) \in Seq(S) /\ Len(SubSeq(s, 1, n)) = n
      /\ \A i \in 1 .. n : SubSeq(s, 1, n)[i] = s[i]
  BY <1>1, PrefixFacts
<1>4. /\ Append(t, s[n]) \in Seq(S) /\ Len(Append(t, s[n])) = n
      /\ \A i \in 1 .. n - 1 : Append(t, s[n])[i] = t[i]
      /\ Append(t, s[n])[n] = s[n]
  BY <1>1, <1>2, AppendProperties
<1>5. \A i \in 1 .. n : SubSeq(s, 1, n)[i] = Append(t, s[n])[i]
  BY <1>1, <1>2, <1>3, <1>4
<1>6. SubSeq(s, 1, n) = Append(t, s[n])
  BY <1>3, <1>4, <1>5, SeqEqual
<1> QED
  BY <1>6 DEF t

(* The prefixes of a sequence are those it has with one more element. *)
LEMMA AppendPrefix ==
  ASSUME NEW S, NEW s \in Seq(S), NEW e \in S
  PROVE  /\ \A n \in 0 .. Len(s) : SubSeq(Append(s, e), 1, n) = SubSeq(s, 1, n)
         /\ SubSeq(Append(s, e), 1, Len(s)) = s
         /\ SubSeq(Append(s, e), 1, Len(s) + 1) = Append(s, e)
<1> DEFINE t == Append(s, e)
<1>1. /\ t \in Seq(S) /\ Len(t) = Len(s) + 1
      /\ \A i \in 1 .. Len(s) : t[i] = s[i]
  BY AppendProperties
<1> HIDE DEF t
<1>2. ASSUME NEW n \in 0 .. Len(s)
      PROVE  SubSeq(t, 1, n) = SubSeq(s, 1, n)
  <2>1. n \in 0 .. Len(t)
    BY <1>1
  <2>2. /\ SubSeq(t, 1, n) \in Seq(S) /\ Len(SubSeq(t, 1, n)) = n
        /\ \A i \in 1 .. n : SubSeq(t, 1, n)[i] = t[i]
    BY <1>1, <2>1, PrefixFacts
  <2>3. /\ SubSeq(s, 1, n) \in Seq(S) /\ Len(SubSeq(s, 1, n)) = n
        /\ \A i \in 1 .. n : SubSeq(s, 1, n)[i] = s[i]
    BY PrefixFacts
  <2>4. \A i \in 1 .. n : SubSeq(t, 1, n)[i] = SubSeq(s, 1, n)[i]
    BY <1>1, <2>2, <2>3
  <2> QED
    BY <2>2, <2>3, <2>4, SeqEqual
<1>3. SubSeq(t, 1, Len(s)) = s
  BY <1>2, SubSeqFull
<1>4. SubSeq(t, 1, Len(t)) = t
  BY <1>1, SubSeqFull
<1> QED
  BY <1>1, <1>2, <1>3, <1>4 DEF t

-----------------------------------------------------------------------------
(* A nonempty set of naturals has a least element. *)
LEMMA NatMin ==
  ASSUME NEW T \in SUBSET Nat, T # {}
  PROVE  \E m \in T : \A k \in T : m <= k
<1> DEFINE Less == {ss \in Nat \X Nat : ss[1] < ss[2]}
<1>1. IsWellFoundedOn(Less, Nat)
  <2>1. IsWellFoundedOn(OpToRel(<, Nat), Nat)
    BY NatLessThanWellFounded
  <2>2. OpToRel(<, Nat) = Less
    BY Zenon DEF OpToRel
  <2> QED
    BY <2>1, <2>2
<1> HIDE DEF Less
<1>2. PICK m \in T : \A k \in T : <<k, m>> \notin Less
  BY <1>1, WFMin
<1>3. ASSUME NEW k \in T PROVE m <= k
  <2>1. <<k, m>>[1] = k /\ <<k, m>>[2] = m /\ <<k, m>> \in Nat \X Nat
    OBVIOUS
  <2>2. ~(k < m)
    BY <1>2, <2>1 DEF Less
  <2> QED
    BY <2>2
<1> QED
  BY <1>3

(* A nonempty finite set of naturals has a greatest element: a least       *)
(* counterexample would have one once an element is taken out of it.       *)
LEMMA NatMax ==
  ASSUME NEW S \in SUBSET Nat, S # {}, IsFiniteSet(S)
  PROVE  \E m \in S : \A k \in S : k <= m
<1> DEFINE HasMax(U) == \E m \in U : \A k \in U : k <= m
           Sizes == {n \in Nat : \E U \in SUBSET S : U # {} /\ ~HasMax(U) /\ Cardinality(U) = n}
<1>1. SUFFICES ASSUME ~HasMax(S) PROVE FALSE
  OBVIOUS
<1>2. Sizes # {}
  <2>1. Cardinality(S) \in Nat
    BY FS_CardinalityType
  <2> QED
    BY <1>1, <2>1
<1>3. PICK n \in Sizes : \A k \in Sizes : n <= k
  <2>1. Sizes \in SUBSET Nat
    OBVIOUS
  <2> HIDE DEF Sizes
  <2> QED
    BY <1>2, <2>1, NatMin
<1>4. PICK U \in SUBSET S : U # {} /\ ~HasMax(U) /\ Cardinality(U) = n
  BY <1>3
<1>5. PICK x \in U : TRUE
  BY <1>4
<1> DEFINE V == U \ {x}
<1>6. IsFiniteSet(U) /\ IsFiniteSet(V) /\ Cardinality(V) = n - 1 /\ Cardinality(V) \in Nat
  BY <1>4, FS_Subset, FS_RemoveElement, FS_CardinalityType
<1>7. V # {} => HasMax(V)
  BY <1>3, <1>6
<1>8. HasMax(U)
  <2>1. CASE V = {}
    BY <2>1, <1>5
  <2>2. CASE V # {}
    <3>1. PICK y \in V : \A k \in V : k <= y
      BY <2>2, <1>7
    <3>2. x \in Nat /\ y \in Nat /\ y \in U /\ U \subseteq Nat
      BY <1>5
    <3>3. CASE x <= y
      BY <3>1, <3>2, <3>3
    <3>4. CASE y <= x
      <4>1. \A k \in U : k <= x
        BY <3>1, <3>2, <3>4
      <4> QED
        BY <4>1
    <3> QED
      BY <3>2, <3>3, <3>4
  <2> QED
    BY <2>1, <2>2
<1> QED
  BY <1>4, <1>8

(* How many of a family of numbers are below n, and at most n. *)
NumBelow(I, v, n) == Cardinality({j \in I : v[j] < n})
NumUpTo(I, v, n) == Cardinality({j \in I : v[j] <= n})

(* In a finite family of numbers there is one at every rank. *)
LEMMA RankExists ==
  ASSUME NEW I, IsFiniteSet(I), NEW v \in [I -> Nat], NEW k \in 1 .. Cardinality(I)
  PROVE  \E i \in I : NumBelow(I, v, v[i]) < k /\ k <= NumUpTo(I, v, v[i])
<1> USE DEF NumBelow, NumUpTo
<1> DEFINE Below(n) == {j \in I : v[j] < n}
           UpTo(n) == {j \in I : v[j] <= n}
           Values == {v[i] : i \in I}
           T == {n \in Values : k <= Cardinality(UpTo(n))}
<1>1. IsFiniteSet(Values) /\ Values \in SUBSET Nat /\ Cardinality(I) \in Nat
  <2>1. v \in Surjection(I, Values)
    BY DEF Surjection
  <2> QED
    BY <2>1, FS_Surjection, FS_CardinalityType
<1>2. I # {}
  BY FS_EmptySet
<1>3. PICK M \in Values : \A n \in Values : n <= M
  BY <1>1, <1>2, NatMax
<1>4. UpTo(M) = I
  BY <1>3
<1>5. M \in T
  BY <1>1, <1>3, <1>4
<1>6. PICK m \in T : \A n \in T : m <= n
  <2>1. T \in SUBSET Nat
    BY <1>1
  <2> HIDE DEF T
  <2> QED
    BY <1>5, <2>1, NatMin
<1>7. PICK i \in I : v[i] = m
  BY <1>6
<1>8. Cardinality(Below(m)) < k
  <2>1. CASE Below(m) = {}
    BY <2>1, FS_EmptySet
  <2>2. CASE Below(m) # {}
    <3> DEFINE W == {v[j] : j \in Below(m)}
    <3>1. IsFiniteSet(Below(m)) /\ IsFiniteSet(W) /\ W \in SUBSET Nat /\ W # {}
      <4>1. IsFiniteSet(Below(m))
        BY FS_Subset
      <4>2. W \subseteq Values
        OBVIOUS
      <4>3. W # {}
        BY <2>2
      <4> QED
        BY <4>1, <4>2, <4>3, <1>1, FS_Subset
    <3>2. PICK q \in W : \A n \in W : n <= q
      <4> HIDE DEF W
      <4> QED
        BY <3>1, NatMax
    <3>3. q < m /\ q \in Values /\ q \in Nat /\ m \in Nat
      BY <1>1, <1>6
    <3>4. Below(m) = UpTo(q)
      BY <3>2, <3>3, <1>1
    <3>5. q \notin T
      BY <1>6, <3>3
    <3>6. Cardinality(UpTo(q)) \in Nat
      BY FS_Subset, FS_CardinalityType
    <3> QED
      BY <3>3, <3>4, <3>5, <3>6
  <2> QED
    BY <2>1, <2>2
<1> QED
  BY <1>6, <1>7, <1>8

(* ... and only one. *)
LEMMA RankUnique ==
  ASSUME NEW I, IsFiniteSet(I), NEW v \in [I -> Nat], NEW k \in Nat,
         NEW x \in Nat, NEW y \in Nat,
         NumBelow(I, v, y) < k, k <= NumUpTo(I, v, x)
  PROVE  y <= x
<1> USE DEF NumBelow, NumUpTo
<1> DEFINE Below == {j \in I : v[j] < y}
           UpTo == {j \in I : v[j] <= x}
<1>1. SUFFICES ASSUME x < y PROVE FALSE
  OBVIOUS
<1>2. UpTo \subseteq Below
  BY <1>1
<1>3. IsFiniteSet(Below)
  BY FS_Subset
<1>4. /\ Cardinality(UpTo) \in Nat /\ Cardinality(Below) \in Nat
      /\ Cardinality(UpTo) <= Cardinality(Below)
  <2> HIDE DEF UpTo, Below
  <2> QED
    BY <1>2, <1>3, FS_Subset, FS_CardinalityType
<1> QED
  BY <1>4
=============================================================================
