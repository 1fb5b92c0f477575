--------------------------- MODULE Statements_proofs ---------------------------
(***************************************************************************)
(* Proofs about the statements of an instance body and the expressions     *)
(* they evaluate, for any types, any body and any depth of nesting.        *)
(***************************************************************************)
EXTENDS Statements, Expressions, SeqLemmas

Position == Seq(Nat \ {0})
Frame == [at : Position, next : Nat \ {0}, type : Struct, path : Seq(Field)]

(* There is one sequence of scopes at most along a path: the first place   *)
(* where two of them differ would be after one where they do not.          *)
LEMMA ScopesUnique ==
  ASSUME NEW path \in Seq(Field), NEW s \in Scopes(path), NEW t \in Scopes(path),
         NEW n \in 1 .. Len(path) + 1
  PROVE  s[n] = t[n]
<1> DEFINE Differ == {k \in 1 .. Len(path) + 1 : s[k] # t[k]}
<1>1. SUFFICES ASSUME Differ # {} PROVE FALSE
  OBVIOUS
<1>2. PICK m \in Differ : \A k \in Differ : m <= k
  <2>1. Differ \in SUBSET Nat
    OBVIOUS
  <2> QED
    BY <1>1, <2>1, NatMin
<1>3. Len(path) \in Nat /\ m \in 1 .. Len(path) + 1 /\ s[m] # t[m]
  OBVIOUS
<1>4. s[1] = Root /\ t[1] = Root
  BY DEF Scopes
<1>5. m - 1 \in 1 .. Len(path)
  BY <1>3, <1>4
<1>6. s[m - 1] = t[m - 1]
  <2>1. m - 1 \notin Differ
    BY <1>2, <1>5
  <2> QED
    BY <1>5, <2>1
<1>7. s[m - 1 + 1] = FieldType[s[m - 1]][path[m - 1]]
  BY <1>5 DEF Scopes
<1>8. t[m - 1 + 1] = FieldType[t[m - 1]][path[m - 1]]
  BY <1>5 DEF Scopes
<1>9. m - 1 + 1 = m
  BY <1>3
<1> QED
  BY <1>3, <1>6, <1>7, <1>8, <1>9

(* The scopes along a path begin with those along its beginning.           *)
LEMMA ScopesPrefix ==
  ASSUME NEW path \in Seq(Field), NEW n \in 0 .. Len(path), NEW s \in Scopes(path)
  PROVE  /\ [k \in 1 .. n + 1 |-> s[k]] \in Scopes(SubSeq(path, 1, n))
         /\ \A k \in 1 .. n : s[k + 1] = FieldType[s[k]][path[k]]
         /\ s[n + 1] \in Struct
<1> DEFINE p == SubSeq(path, 1, n)
           r == [k \in 1 .. n + 1 |-> s[k]]
<1>1. /\ n \in Nat /\ Len(path) \in Nat /\ n <= Len(path)
      /\ Len(p) = n /\ \A i \in 1 .. n : p[i] = path[i]
  BY PrefixFacts
<1>2. /\ s \in [1 .. Len(path) + 1 -> Struct] /\ s[1] = Root
      /\ \A k \in 1 .. Len(path) : s[k + 1] = FieldType[s[k]][path[k]]
  BY DEF Scopes
<1> HIDE DEF p
<1>3. r \in [1 .. Len(p) + 1 -> Struct] /\ r[1] = Root
  BY <1>1, <1>2
<1>4. ASSUME NEW k \in 1 .. n
      PROVE  r[k + 1] = FieldType[r[k]][p[k]]
  BY <1>1, <1>2
<1>5. r \in Scopes(p)
  BY <1>1, <1>3, <1>4 DEF Scopes
<1>6. \A k \in 1 .. n : s[k + 1] = FieldType[s[k]][path[k]]
  BY <1>1, <1>2
<1>7. n + 1 \in 1 .. Len(path) + 1
  BY <1>1
<1> QED
  BY <1>2, <1>5, <1>6, <1>7 DEF p

(* A path goes on where its last field is a struct.                        *)
LEMMA ScopesAppend ==
  ASSUME NEW path \in Seq(Field), NEW s \in Scopes(path), NEW f \in Field,
         FieldType[s[Len(path) + 1]][f] \in Struct
  PROVE  \E r \in Scopes(Append(path, f)) :
           r[Len(path) + 2] = FieldType[s[Len(path) + 1]][f]
<1> DEFINE q == Append(path, f)
           r == [k \in 1 .. Len(path) + 2 |->
                   IF k = Len(path) + 2 THEN FieldType[s[Len(path) + 1]][f] ELSE s[k]]
<1>1. /\ Len(path) \in Nat /\ Len(q) = Len(path) + 1 /\ q[Len(path) + 1] = f
      /\ \A i \in 1 .. Len(path) : q[i] = path[i]
  BY AppendProperties
<1>2. /\ s \in [1 .. Len(path) + 1 -> Struct] /\ s[1] = Root
      /\ \A k \in 1 .. Len(path) : s[k + 1] = FieldType[s[k]][path[k]]
  BY DEF Scopes
<1> HIDE DEF q
<1>3. r \in [1 .. Len(q) + 1 -> Struct] /\ r[1] = Root
  BY <1>1, <1>2
<1>4. ASSUME NEW k \in 1 .. Len(q)
      PROVE  r[k + 1] = FieldType[r[k]][q[k]]
  <2>1. CASE k \in 1 .. Len(path)
    BY <1>1, <1>2, <2>1
  <2>2. CASE k = Len(path) + 1
    BY <1>1, <1>2, <2>2
  <2> QED
    BY <1>1, <2>1, <2>2
<1>5. r \in Scopes(q)
  BY <1>3, <1>4 DEF Scopes
<1>6. r[Len(path) + 2] = FieldType[s[Len(path) + 1]][f]
  BY <1>1
<1> QED
  BY <1>5, <1>6 DEF q

(* The type of the scope a path's last field is in.                        *)
LEMMA ScopeTypeIs ==
  ASSUME NEW path \in Seq(Field), NEW s \in Scopes(path), NEW f \in Field
  PROVE  /\ ScopeType(Append(path, f)) = s[Len(path) + 1]
         /\ Front(Append(path, f)) = path /\ Last(Append(path, f)) = f
<1> DEFINE q == Append(path, f)
<1>1. Len(path) \in Nat /\ Len(q) = Len(path) + 1 /\ Last(q) = f
  BY AppendProperties DEF Last
<1>2. Front(q) = path
  BY <1>1, AppendPrefix DEF Front
<1> HIDE DEF q
<1>3. s[Len(q)] \in Struct
  BY <1>1 DEF Scopes
<1>4. \A r \in Scopes(Front(q)) : r[Len(q)] = s[Len(q)]
  BY <1>1, <1>2, ScopesUnique
<1>5. ScopeType(q) = s[Len(q)]
  <2>1. s \in Scopes(Front(q))
    BY <1>2
  <2> DEFINE Has(t) == \E r \in Scopes(Front(q)) : r[Len(q)] = t
  <2>2. Has(s[Len(q)])
    BY <2>1
  <2>3. \A t \in Struct : Has(t) => t = s[Len(q)]
    BY <1>4
  <2> HIDE DEF Has
  <2>4. (CHOOSE t \in Struct : Has(t)) = s[Len(q)]
    BY <1>3, <2>2, <2>3
  <2> QED
    BY <2>4 DEF Has, ScopeType
<1> QED
  BY <1>1, <1>2, <1>5 DEF q

-----------------------------------------------------------------------------
(* Positions in a body, and the fields on the way to one.                  *)
LEMMA BodyFacts ==
  ASSUME body \in Bodies, NEW p \in DOMAIN body
  PROVE  /\ p \in Position /\ Len(p) \in 1 .. Depth /\ Depth \in Nat
         /\ body[p] \in Statement
         /\ \A n \in 1 .. Len(p) : SubSeq(p, 1, n) \in DOMAIN body
         /\ \A n \in 1 .. Len(p), k \in Nat \ {0} :
              k <= p[n] => Append(SubSeq(p, 1, n - 1), k) \in DOMAIN body
<1>1. /\ p \in Position /\ Len(p) \in 1 .. Depth /\ Depth \in Nat
      /\ \A n \in 1 .. Len(p) : \A k \in 1 .. p[n] :
           Append(SubSeq(p, 1, n - 1), k) \in DOMAIN body
  BY BodiesAssumption DEF Position
<1>2. body[p] \in Statement
  BY BodiesAssumption
<1>3. \A n \in 1 .. Len(p) : p[n] \in Nat \ {0}
  BY <1>1 DEF Position
<1>4. ASSUME NEW n \in 1 .. Len(p)
      PROVE  SubSeq(p, 1, n) \in DOMAIN body
  <2>1. SubSeq(p, 1, n) = Append(SubSeq(p, 1, n - 1), p[n])
    BY <1>1, PrefixStep DEF Position
  <2>2. p[n] \in 1 .. p[n]
    BY <1>3
  <2> QED
    BY <1>1, <2>1, <2>2
<1>5. ASSUME NEW n \in 1 .. Len(p), NEW k \in Nat \ {0}, k <= p[n]
      PROVE  Append(SubSeq(p, 1, n - 1), k) \in DOMAIN body
  <2>1. k \in 1 .. p[n]
    BY <1>3, <1>5
  <2> QED
    BY <1>1, <2>1
<1> QED
  BY <1>1, <1>2, <1>4, <1>5

LEMMA PathToFacts ==
  ASSUME body \in Bodies, NEW p \in Position,
         \A n \in 1 .. Len(p) : SubSeq(p, 1, n) \in DOMAIN body
  PROVE  /\ PathTo(p) \in Seq(Field) /\ Len(PathTo(p)) = Len(p)
         /\ \A n \in 1 .. Len(p) : PathTo(p)[n] = body[SubSeq(p, 1, n)].field
<1> DEFINE e(n) == body[SubSeq(p, 1, n)].field
<1>1. \A n \in 1 .. Len(p) : e(n) \in Field
  <2>1. ASSUME NEW n \in 1 .. Len(p)
        PROVE  e(n) \in Field
    <3>1. body[SubSeq(p, 1, n)] \in Statement
      BY BodyFacts
    <3> QED
      BY <3>1 DEF Statement
  <2> QED
    BY <2>1
<1>2. PathTo(p) = [n \in 1 .. Len(p) |-> e(n)]
  BY DEF PathTo
<1>3. Len(p) \in Nat
  BY DEF Position
<1>4. \A n \in 1 .. Len(p) : PathTo(p)[n] = e(n)
  BY <1>2
<1> HIDE DEF e
<1>5. [n \in 1 .. Len(p) |-> e(n)] \in Seq(Field)
  BY <1>1, <1>3
<1>6. Len([n \in 1 .. Len(p) |-> e(n)]) = Len(p)
  BY <1>3
<1> QED
  BY <1>2, <1>4, <1>5, <1>6 DEF e

(* The way to a statement is the way to the list it is in, and its field.  *)
LEMMA PathToAppend ==
  ASSUME body \in Bodies, NEW base \in Position, NEW k \in Nat \ {0},
         \A n \in 1 .. Len(base) : SubSeq(base, 1, n) \in DOMAIN body,
         Append(base, k) \in DOMAIN body
  PROVE  /\ PathTo(Append(base, k)) = Append(PathTo(base), body[Append(base, k)].field)
         /\ \A n \in 1 .. Len(base) + 1 : SubSeq(Append(base, k), 1, n) \in DOMAIN body
         /\ PathTo(Append(base, k)) \in Seq(Field)
<1> DEFINE p == Append(base, k)
           f == body[p].field
<1>1. p \in Position /\ Len(p) = Len(base) + 1 /\ Len(base) \in Nat
  BY AppendProperties DEF Position
<1>2. \A n \in 0 .. Len(base) : SubSeq(p, 1, n) = SubSeq(base, 1, n)
  BY AppendPrefix DEF Position
<1>3. SubSeq(p, 1, Len(base) + 1) = p
  BY AppendPrefix DEF Position
<1>4. \A n \in 1 .. Len(p) : SubSeq(p, 1, n) \in DOMAIN body
  BY BodyFacts
<1>5. f \in Field
  BY BodyFacts DEF Statement
<1> HIDE DEF p, f
<1>6. /\ PathTo(p) \in Seq(Field) /\ Len(PathTo(p)) = Len(p)
      /\ \A n \in 1 .. Len(p) : PathTo(p)[n] = body[SubSeq(p, 1, n)].field
  BY <1>1, <1>4, PathToFacts
<1>7. /\ PathTo(base) \in Seq(Field) /\ Len(PathTo(base)) = Len(base)
      /\ \A n \in 1 .. Len(base) : PathTo(base)[n] = body[SubSeq(base, 1, n)].field
  BY PathToFacts
<1> DEFINE a == PathTo(base)
           b == PathTo(p)
<1>8. /\ Append(a, f) \in Seq(Field) /\ Len(Append(a, f)) = Len(a) + 1
      /\ \A i \in 1 .. Len(a) : Append(a, f)[i] = a[i]
      /\ Append(a, f)[Len(a) + 1] = f
  BY <1>5, <1>7, AppendProperties
<1>9. \A n \in 1 .. Len(b) : b[n] = Append(a, f)[n]
  <2>1. ASSUME NEW n \in 1 .. Len(b)
        PROVE  b[n] = Append(a, f)[n]
    <3>1. CASE n \in 1 .. Len(base)
      <4>1. SubSeq(p, 1, n) = SubSeq(base, 1, n)
        BY <1>2, <3>1
      <4> QED
        BY <1>1, <1>6, <1>7, <1>8, <3>1, <4>1
    <3>2. CASE n = Len(base) + 1
      BY <1>1, <1>3, <1>6, <1>7, <1>8, <3>2 DEF f
    <3>3. n \in 1 .. Len(base) + 1
      <4>1. Len(b) = Len(base) + 1
        BY <1>1, <1>6
      <4> QED
        BY <4>1
    <3>4. Len(base) \in Nat
      BY <1>1
    <3>5. n \in 1 .. Len(base) \/ n = Len(base) + 1
      BY <3>3, <3>4
    <3> QED
      BY <3>1, <3>2, <3>5
  <2> QED
    BY <2>1
<1> HIDE DEF a, b
<1>10. b = Append(a, f)
  <2>1. b \in Seq(Field) /\ Append(a, f) \in Seq(Field) /\ Len(b) = Len(Append(a, f))
    BY <1>1, <1>6, <1>7, <1>8 DEF a, b
  <2> QED
    BY <1>9, <2>1, SeqEqual
<1> QED
  BY <1>1, <1>4, <1>6, <1>10 DEF a, b, p, f

-----------------------------------------------------------------------------
(* A list being walked is one of the body, in the scope its path leads to. *)
Placed(fr) ==
  /\ fr.path = PathTo(fr.at)
  /\ \A n \in 1 .. Len(fr.at) : SubSeq(fr.at, 1, n) \in DOMAIN body
  /\ \E s \in Scopes(fr.path) : s[Len(fr.path) + 1] = fr.type

At(fr) == Append(fr.at, fr.next)
Onward(fr) == [fr EXCEPT !.next = @ + 1]

LEMMA PlacedFacts ==
  ASSUME body \in Bodies, NEW fr \in Frame, Placed(fr)
  PROVE  /\ fr.at \in Position /\ fr.next \in Nat \ {0} /\ fr.type \in Struct
         /\ fr.path \in Seq(Field) /\ Len(fr.path) = Len(fr.at) /\ Len(fr.at) \in Nat
         /\ At(fr) \in Position /\ Len(At(fr)) = Len(fr.at) + 1
         /\ Front(At(fr)) = fr.at /\ Last(At(fr)) = fr.next
         /\ Onward(fr) \in Frame /\ Placed(Onward(fr))
<1>1. /\ fr.at \in Position /\ fr.next \in Nat \ {0} /\ fr.type \in Struct
      /\ fr.path \in Seq(Field)
  BY DEF Frame
<1>2. Len(fr.path) = Len(fr.at)
  BY <1>1, PathToFacts DEF Placed
<1>3. At(fr) \in Position /\ Len(At(fr)) = Len(fr.at) + 1 /\ Len(fr.at) \in Nat
      /\ Last(At(fr)) = fr.next
  BY <1>1, AppendProperties DEF Position, At, Last
<1>4. Front(At(fr)) = fr.at
  <2>1. SubSeq(At(fr), 1, Len(fr.at)) = fr.at
    BY <1>1, AppendPrefix DEF Position, At
  <2>2. Len(At(fr)) - 1 = Len(fr.at)
    BY <1>3
  <2> QED
    BY <2>1, <2>2 DEF Front
<1>5. Onward(fr) \in Frame
  BY <1>1 DEF Frame, Onward
<1>6. /\ Onward(fr).at = fr.at /\ Onward(fr).path = fr.path
      /\ Onward(fr).type = fr.type
  BY DEF Frame, Onward
<1>7. Placed(Onward(fr))
  BY <1>6 DEF Placed
<1> QED
  BY <1>1, <1>2, <1>3, <1>4, <1>5, <1>7

LEMMA AllFacts ==
  ASSUME body \in Bodies, NEW x \in All
  PROVE  /\ x.at \in DOMAIN body /\ x.at \in Position /\ x.stmt = body[x.at]
         /\ x.stmt \in Statement /\ Len(x.at) \in Nat \ {0}
         /\ PathTo(Front(x.at)) \in Seq(Field)
         /\ Len(PathTo(Front(x.at))) = Len(x.at) - 1
         /\ \A n \in 1 .. Len(x.at) - 1 :
              PathTo(Front(x.at))[n] = body[SubSeq(x.at, 1, n)].field
         /\ \E s \in Scopes(PathTo(Front(x.at))) : x.type = s[Len(x.at)]
<1>1. PICK p \in DOMAIN body :
        \E s \in Scopes(PathTo(Front(p))) :
          x = [stmt |-> body[p], type |-> s[Len(p)], at |-> p]
  BY DEF All
<1>2. x.at = p /\ x.stmt = body[p]
  BY <1>1
<1>3. \E s \in Scopes(PathTo(Front(p))) : x.type = s[Len(p)]
  BY <1>1
<1>4. /\ p \in Position /\ Len(p) \in Nat \ {0} /\ body[p] \in Statement
      /\ \A n \in 1 .. Len(p) : SubSeq(p, 1, n) \in DOMAIN body
  BY BodyFacts DEF Position
<1> DEFINE q == Front(p)
<1>5. q \in Position /\ Len(q) = Len(p) - 1
  <2>1. Len(p) - 1 \in 0 .. Len(p)
    BY <1>4
  <2> QED
    BY <1>4, <2>1, PrefixFacts DEF Position, Front
<1>6. ASSUME NEW n \in 1 .. Len(q)
      PROVE  SubSeq(q, 1, n) = SubSeq(p, 1, n) /\ SubSeq(q, 1, n) \in DOMAIN body
  <2>1. Len(p) - 1 \in 0 .. Len(p) /\ n \in 0 .. Len(p) - 1 /\ n \in 1 .. Len(p)
    BY <1>4, <1>5
  <2>2. SubSeq(q, 1, n) = SubSeq(p, 1, n)
    BY <1>4, <2>1, PrefixOfPrefix DEF Position, Front
  <2> QED
    BY <1>4, <2>1, <2>2
<1> HIDE DEF q
<1>7. /\ PathTo(q) \in Seq(Field) /\ Len(PathTo(q)) = Len(q)
      /\ \A n \in 1 .. Len(q) : PathTo(q)[n] = body[SubSeq(q, 1, n)].field
  BY <1>5, <1>6, PathToFacts
<1>8. \A n \in 1 .. Len(p) - 1 : PathTo(q)[n] = body[SubSeq(p, 1, n)].field
  BY <1>5, <1>6, <1>7
<1> QED
  BY <1>2, <1>3, <1>4, <1>5, <1>7, <1>8 DEF q

(* The statement a walk is at is one of the body's, of the type it says.   *)
LEMMA AtIsOfBody ==
  ASSUME body \in Bodies, NEW fr \in Frame, Placed(fr), At(fr) \in DOMAIN body
  PROVE  /\ [stmt |-> body[At(fr)], type |-> fr.type, at |-> At(fr)] \in All
         /\ body[At(fr)].field \in Field
<1>1. PICK s \in Scopes(fr.path) : s[Len(fr.path) + 1] = fr.type
  BY DEF Placed
<1>2. /\ Front(At(fr)) = fr.at /\ Len(At(fr)) = Len(fr.path) + 1
      /\ fr.path = PathTo(fr.at)
  BY PlacedFacts DEF Placed
<1>3. s \in Scopes(PathTo(Front(At(fr)))) /\ s[Len(At(fr))] = fr.type
  BY <1>1, <1>2
<1>4. [stmt |-> body[At(fr)], type |-> s[Len(At(fr))], at |-> At(fr)] \in All
  BY <1>3 DEF All
<1>5. body[At(fr)].field \in Field
  BY BodyFacts DEF Statement
<1> QED
  BY <1>3, <1>4, <1>5

(* A statement of the body below a list being walked: it is of the type of *)
(* the list, or below one of the list's that is for a struct.              *)
LEMMA BelowPlaced ==
  ASSUME body \in Bodies, NEW fr \in Frame, Placed(fr), NEW x \in All,
         Len(fr.at) < Len(x.at), SubSeq(x.at, 1, Len(fr.at)) = fr.at
  PROVE  /\ Len(x.at) = Len(fr.at) + 1 => x.type = fr.type
         /\ Len(x.at) # Len(fr.at) + 1 =>
              FieldType[fr.type][body[SubSeq(x.at, 1, Len(fr.at) + 1)].field] \in Struct
<1> DEFINE p == x.at
           l == Len(fr.at)
           way == PathTo(Front(p))
<1>1. /\ p \in Position /\ Len(p) \in Nat \ {0}
      /\ way \in Seq(Field) /\ Len(way) = Len(p) - 1
      /\ \A n \in 1 .. Len(p) - 1 : way[n] = body[SubSeq(p, 1, n)].field
  BY AllFacts
<1>2. PICK s \in Scopes(way) : x.type = s[Len(p)]
  BY AllFacts
<1>3. /\ fr.at \in Position /\ l \in Nat /\ fr.path \in Seq(Field) /\ Len(fr.path) = l
      /\ fr.path = PathTo(fr.at) /\ l < Len(p) /\ SubSeq(p, 1, l) = fr.at
  BY PlacedFacts DEF Placed
<1>4. \A n \in 1 .. l : fr.path[n] = body[SubSeq(fr.at, 1, n)].field
  BY <1>3, PathToFacts DEF Placed
<1>5. PICK t \in Scopes(fr.path) : t[l + 1] = fr.type
  BY <1>3 DEF Placed
<1> HIDE DEF p, l, way
<1>6. l \in 0 .. Len(p) /\ l \in 0 .. Len(way) /\ Len(way) \in 0 .. Len(way)
  BY <1>1, <1>3
<1>7. SubSeq(way, 1, l) = fr.path
  <2> DEFINE u == SubSeq(way, 1, l)
  <2>1. u \in Seq(Field) /\ Len(u) = l /\ \A n \in 1 .. l : u[n] = way[n]
    BY <1>1, <1>6, PrefixFacts
  <2> HIDE DEF u
  <2>2. ASSUME NEW n \in 1 .. l
        PROVE  u[n] = fr.path[n]
    <3>1. n \in 0 .. l /\ n \in 1 .. Len(p) - 1
      BY <1>1, <1>3
    <3>2. SubSeq(fr.at, 1, n) = SubSeq(p, 1, n)
      BY <1>1, <1>3, <1>6, <3>1, PrefixOfPrefix DEF Position
    <3> QED
      BY <1>1, <1>4, <2>1, <3>1, <3>2
  <2>3. u = fr.path
    BY <1>3, <2>1, <2>2, SeqEqual
  <2> QED
    BY <2>3 DEF u
<1>8. [k \in 1 .. l + 1 |-> s[k]] \in Scopes(fr.path)
  BY <1>1, <1>6, <1>7, ScopesPrefix
<1>9. l + 1 \in 1 .. Len(fr.path) + 1
  BY <1>3
<1>10. [k \in 1 .. l + 1 |-> s[k]][l + 1] = t[l + 1]
  BY <1>3, <1>8, <1>9, ScopesUnique
<1>11. s[l + 1] = fr.type
  BY <1>3, <1>5, <1>9, <1>10
<1>12. Len(p) = l + 1 => x.type = fr.type
  BY <1>2, <1>11
<1>13. ASSUME Len(p) # l + 1
       PROVE  FieldType[fr.type][body[SubSeq(p, 1, l + 1)].field] \in Struct
  <2>1. l + 1 \in 1 .. Len(p) - 1 /\ l + 1 \in 0 .. Len(way) /\ l + 1 \in 1 .. Len(way)
    BY <1>1, <1>3, <1>13
  <2>2. s[l + 1 + 1] = FieldType[s[l + 1]][way[l + 1]]
    BY <2>1 DEF Scopes
  <2>3. s[l + 1 + 1] \in Struct
    BY <1>1, <2>1, ScopesPrefix
  <2> QED
    BY <1>1, <1>11, <2>1, <2>2, <2>3
<1> QED
  BY <1>12, <1>13 DEF p, l

LEMMA CategoryFacts ==
  ASSUME NEW t \in Struct, NEW f \in Field
  PROVE  /\ Category(t, f) = "struct" <=> FieldType[t][f] \in Struct
         /\ Category(t, f) = "identifier" => FieldType[t][f] \in Domain
         /\ Category(t, f) \in {"struct", "identifier", "none", "scalar", "list"}
BY TypesAssumption DEF Category

(* A list below a statement for a struct.                                  *)
LEMMA PlacedBelow ==
  ASSUME body \in Bodies, NEW fr \in Frame, Placed(fr), At(fr) \in DOMAIN body,
         Category(fr.type, body[At(fr)].field) = "struct",
         NEW new, new = List(At(fr), FieldType[fr.type][body[At(fr)].field],
                             Append(fr.path, body[At(fr)].field))
  PROVE  new \in Frame /\ Placed(new)
<1> DEFINE h == At(fr)
           f == body[h].field
           t == FieldType[fr.type][f]
<1>1. /\ fr.at \in Position /\ fr.next \in Nat \ {0} /\ fr.type \in Struct
      /\ fr.path \in Seq(Field) /\ Len(fr.path) = Len(fr.at) /\ Len(fr.at) \in Nat
      /\ h \in Position /\ Len(h) = Len(fr.at) + 1
      /\ fr.path = PathTo(fr.at)
  BY PlacedFacts DEF Placed
<1>2. f \in Field
  BY AtIsOfBody
<1>3. t \in Struct
  BY <1>1, <1>2, CategoryFacts
<1>4. /\ PathTo(h) = Append(PathTo(fr.at), f)
      /\ \A n \in 1 .. Len(fr.at) + 1 : SubSeq(h, 1, n) \in DOMAIN body
      /\ PathTo(h) \in Seq(Field)
  BY <1>1, PathToAppend DEF Placed, At
<1> HIDE DEF h
<1>5. Append(fr.path, f) = PathTo(h) /\ Append(fr.path, f) \in Seq(Field)
      /\ Len(Append(fr.path, f)) = Len(fr.path) + 1
  BY <1>1, <1>2, <1>4, AppendProperties
<1>6. PICK s \in Scopes(fr.path) : s[Len(fr.path) + 1] = fr.type
  BY DEF Placed
<1>7. \E r \in Scopes(Append(fr.path, f)) : r[Len(fr.path) + 2] = t
  BY <1>1, <1>2, <1>3, <1>6, ScopesAppend
<1>8. Len(fr.path) + 2 = Len(Append(fr.path, f)) + 1
  BY <1>1, <1>5
<1>9. new = List(h, t, Append(fr.path, f))
  BY DEF h
<1>10. /\ new.at = h /\ new.next = 1 /\ new.type = t /\ new.path = Append(fr.path, f)
       /\ new = [at |-> h, next |-> 1, type |-> t, path |-> Append(fr.path, f)]
  <2> HIDE DEF t, f
  <2>1. new = [at |-> h, next |-> 1, type |-> t, path |-> Append(fr.path, f)]
    BY <1>9 DEF List
  <2> QED
    BY <2>1
<1>11. new \in Frame
  BY <1>1, <1>3, <1>5, <1>10 DEF Frame
<1>12. Placed(new)
  BY <1>1, <1>4, <1>5, <1>7, <1>8, <1>10 DEF Placed
<1> QED
  BY <1>11, <1>12

-----------------------------------------------------------------------------
(* A walk is yet to come to position p in list fr, or below it.            *)
Awaits(fr, p) ==
  /\ Len(fr.at) < Len(p) /\ SubSeq(p, 1, Len(fr.at)) = fr.at
  /\ fr.next <= p[Len(fr.at) + 1]

LEMMA AwaitedIsThere ==
  ASSUME body \in Bodies, NEW fr \in Frame, NEW p \in DOMAIN body, Awaits(fr, p)
  PROVE  At(fr) \in DOMAIN body
<1>1. fr.at \in Position /\ fr.next \in Nat \ {0} /\ Len(fr.at) \in Nat
  BY DEF Frame, Position
<1>2. p \in Position /\ Len(p) \in Nat
  BY BodyFacts DEF Position
<1>3. Len(fr.at) + 1 \in 1 .. Len(p) /\ Len(fr.at) + 1 - 1 = Len(fr.at)
  BY <1>1, <1>2 DEF Awaits
<1>4. fr.next \in Nat \ {0} /\ fr.next <= p[Len(fr.at) + 1]
  BY <1>1 DEF Awaits
<1>5. Append(SubSeq(p, 1, Len(fr.at) + 1 - 1), fr.next) \in DOMAIN body
  <2> DEFINE n == Len(fr.at) + 1
             k == fr.next
  <2>1. \A m \in 1 .. Len(p), j \in Nat \ {0} :
          j <= p[m] => Append(SubSeq(p, 1, m - 1), j) \in DOMAIN body
    BY BodyFacts
  <2>2. n \in 1 .. Len(p) /\ k \in Nat \ {0} /\ k <= p[n]
    BY <1>3, <1>4
  <2> HIDE DEF n, k
  <2>3. Append(SubSeq(p, 1, n - 1), k) \in DOMAIN body
    BY <2>1, <2>2
  <2> QED
    BY <2>3 DEF n, k
<1> QED
  BY <1>3, <1>5 DEF Awaits, At

(* When a walk goes on in a list, it has come to a statement, and to those *)
(* below it only if it enters them.                                        *)
LEMMA AwaitsOnward ==
  ASSUME NEW fr \in Frame, NEW p \in Position, Awaits(fr, p)
  PROVE  \/ Awaits(Onward(fr), p)
         \/ p = At(fr)
         \/ /\ Len(fr.at) + 1 < Len(p) /\ SubSeq(p, 1, Len(fr.at) + 1) = At(fr)
            /\ \A t, way : Awaits(List(At(fr), t, way), p)
<1> DEFINE l == Len(fr.at)
<1>1. fr.at \in Position /\ fr.next \in Nat \ {0} /\ l \in Nat
  BY DEF Frame, Position
<1>2. Len(p) \in Nat /\ l < Len(p) /\ SubSeq(p, 1, l) = fr.at /\ fr.next <= p[l + 1]
  BY DEF Awaits, Position
<1>3. Onward(fr).at = fr.at /\ Onward(fr).next = fr.next + 1
  BY DEF Frame, Onward
<1>4. \A n \in 1 .. Len(p) : p[n] \in Nat \ {0}
  BY DEF Position
<1>5. CASE p[l + 1] # fr.next
  <2>1. fr.next + 1 <= p[l + 1]
    BY <1>1, <1>2, <1>4, <1>5
  <2>2. Awaits(Onward(fr), p)
    BY <1>2, <1>3, <2>1 DEF Awaits
  <2> QED
    BY <2>2
<1>6. CASE p[l + 1] = fr.next
  <2>1. l + 1 \in 1 .. Len(p) /\ l + 1 - 1 = l
    BY <1>1, <1>2
  <2>2. SubSeq(p, 1, l + 1) = Append(SubSeq(p, 1, l + 1 - 1), p[l + 1])
    BY <2>1, PrefixStep DEF Position
  <2>3. SubSeq(p, 1, l + 1) = At(fr)
    BY <1>2, <1>6, <2>1, <2>2 DEF At
  <2>4. CASE Len(p) = l + 1
    <3>1. SubSeq(p, 1, Len(p)) = p
      BY SubSeqFull DEF Position
    <3> QED
      BY <2>3, <2>4, <3>1
  <2>5. CASE Len(p) # l + 1
    <3>1. l + 1 < Len(p)
      BY <1>1, <1>2, <2>5
    <3>2. Len(At(fr)) = l + 1
      BY <1>1, AppendProperties DEF Position, At
    <3>3. 1 <= p[l + 1 + 1]
      BY <1>1, <1>2, <1>4, <3>1
    <3>4. ASSUME NEW t, NEW way
          PROVE  Awaits(List(At(fr), t, way), p)
      <4>1. List(At(fr), t, way).at = At(fr) /\ List(At(fr), t, way).next = 1
        BY DEF List
      <4> QED
        BY <2>3, <3>1, <3>2, <3>3, <4>1 DEF Awaits
    <3> QED
      BY <2>3, <3>1, <3>4
  <2> QED
    BY <2>4, <2>5
<1> QED
  BY <1>5, <1>6

-----------------------------------------------------------------------------
(* The stack of lists being walked.                                        *)
PlacedAll(lists) == lists \in Seq(Frame) /\ \A n \in DOMAIN lists : Placed(lists[n])
AheadIn(lists, p) == \E n \in DOMAIN lists : Awaits(lists[n], p)

LEMMA PushFacts ==
  ASSUME NEW lists, PlacedAll(lists), NEW new \in Frame, Placed(new)
  PROVE  /\ PlacedAll(Append(lists, new))
         /\ \A p : AheadIn(lists, p) \/ Awaits(new, p) => AheadIn(Append(lists, new), p)
<1> DEFINE longer == Append(lists, new)
<1>1. lists \in Seq(Frame) /\ Len(lists) \in Nat /\ DOMAIN lists = 1 .. Len(lists)
  BY LenProperties DEF PlacedAll
<1>2. /\ longer \in Seq(Frame) /\ Len(longer) = Len(lists) + 1
      /\ \A n \in 1 .. Len(lists) : longer[n] = lists[n]
      /\ longer[Len(lists) + 1] = new
  BY <1>1, AppendProperties
<1> HIDE DEF longer
<1>3. DOMAIN longer = 1 .. Len(lists) + 1
  BY <1>2, LenProperties
<1>4. ASSUME NEW n \in DOMAIN longer
      PROVE  Placed(longer[n])
  <2>1. n \in 1 .. Len(lists) \/ n = Len(lists) + 1
    BY <1>1, <1>3
  <2> QED
    BY <1>1, <1>2, <2>1 DEF PlacedAll
<1>5. PlacedAll(longer)
  BY <1>2, <1>4 DEF PlacedAll
<1>6. ASSUME NEW p, AheadIn(lists, p) \/ Awaits(new, p)
      PROVE  AheadIn(longer, p)
  <2>1. CASE AheadIn(lists, p)
    <3>1. PICK n \in 1 .. Len(lists) : Awaits(lists[n], p)
      BY <1>1, <2>1 DEF AheadIn
    <3>2. n \in DOMAIN longer /\ longer[n] = lists[n]
      BY <1>1, <1>2, <1>3
    <3> QED
      BY <3>1, <3>2 DEF AheadIn
  <2>2. CASE Awaits(new, p)
    <3>1. Len(lists) + 1 \in DOMAIN longer
      BY <1>1, <1>3
    <3> QED
      BY <1>2, <2>2, <3>1 DEF AheadIn
  <2> QED
    BY <1>6, <2>1, <2>2
<1> QED
  BY <1>5, <1>6 DEF longer

(* The inner list left, or gone on in.                                     *)
LEMMA WalkFacts ==
  ASSUME body \in Bodies, PlacedAll(frames), frames # << >>
  PROVE  /\ Walk \in Frame /\ Placed(Walk) /\ Here = At(Walk)
         /\ PlacedAll(Front(frames)) /\ PlacedAll(Rest)
         /\ \A p : AheadIn(frames, p) => AheadIn(Front(frames), p) \/ Awaits(Walk, p)
         /\ \A p : AheadIn(Front(frames), p) \/ Awaits(Onward(Walk), p) => AheadIn(Rest, p)
<1>1. /\ frames \in Seq(Frame) /\ Len(frames) \in Nat /\ Len(frames) # 0
      /\ DOMAIN frames = 1 .. Len(frames) /\ Len(frames) \in 1 .. Len(frames)
  <2>1. frames \in Seq(Frame) /\ Len(frames) \in Nat /\ DOMAIN frames = 1 .. Len(frames)
    BY LenProperties DEF PlacedAll
  <2>2. Len(frames) # 0
    BY <2>1, EmptySeq
  <2> QED
    BY <2>1, <2>2
<1>2. Walk = frames[Len(frames)]
  BY DEF Walk, Last
<1>3. Walk \in Frame /\ Placed(Walk) /\ Here = At(Walk)
  BY <1>1, <1>2, ElementOfSeq DEF PlacedAll, Here, At
<1> DEFINE front == Front(frames)
<1>4. /\ front \in Seq(Frame) /\ Len(front) = Len(frames) - 1
      /\ \A n \in 1 .. Len(frames) - 1 : front[n] = frames[n]
  BY <1>1, FrontFacts DEF Front
<1> HIDE DEF front
<1>5. DOMAIN front = 1 .. Len(frames) - 1
  BY <1>4, LenProperties
<1>6. \A n \in DOMAIN front : n \in DOMAIN frames
  BY <1>1, <1>5
<1>7. PlacedAll(front)
  BY <1>4, <1>5, <1>6 DEF PlacedAll
<1>8. Rest = [frames EXCEPT ![Len(frames)] = Onward(Walk)]
  <2>1. [frames[Len(frames)] EXCEPT !.next = @ + 1] = Onward(Walk)
    BY <1>2 DEF Onward
  <2> QED
    BY <2>1, Zenon DEF Rest
<1>9. Onward(Walk) \in Frame /\ Placed(Onward(Walk))
  BY <1>3, PlacedFacts
<1>10. /\ Rest \in Seq(Frame) /\ DOMAIN Rest = 1 .. Len(frames)
       /\ Rest[Len(frames)] = Onward(Walk)
       /\ \A n \in 1 .. Len(frames) : n # Len(frames) => Rest[n] = frames[n]
  <2>1. Rest \in Seq(Frame)
    BY <1>1, <1>8, <1>9, ExceptSeq
  <2>2. DOMAIN Rest = 1 .. Len(frames)
    BY <1>1, <1>8
  <2> QED
    BY <1>1, <1>8, <2>1, <2>2
<1>11. ASSUME NEW n \in DOMAIN Rest
       PROVE  Placed(Rest[n])
  BY <1>1, <1>9, <1>10 DEF PlacedAll
<1>12. PlacedAll(Rest)
  BY <1>10, <1>11 DEF PlacedAll
<1>13. ASSUME NEW p, AheadIn(frames, p)
       PROVE  AheadIn(front, p) \/ Awaits(Walk, p)
  <2>1. PICK n \in 1 .. Len(frames) : Awaits(frames[n], p)
    BY <1>1, <1>13 DEF AheadIn
  <2>2. CASE n = Len(frames)
    BY <1>2, <2>1, <2>2
  <2>3. CASE n # Len(frames)
    <3>1. Len(frames) \in Nat
      BY <1>1
    <3>2. n \in 1 .. Len(frames) - 1
      BY <2>3, <3>1
    <3> QED
      BY <1>4, <1>5, <2>1, <3>2 DEF AheadIn
  <2> QED
    BY <2>2, <2>3
<1>14. ASSUME NEW p, AheadIn(front, p) \/ Awaits(Onward(Walk), p)
       PROVE  AheadIn(Rest, p)
  <2>1. CASE AheadIn(front, p)
    <3>1. PICK n \in 1 .. Len(frames) - 1 : Awaits(front[n], p)
      BY <1>5, <2>1 DEF AheadIn
    <3>2. n \in 1 .. Len(frames) /\ n # Len(frames)
      <4>1. Len(frames) \in Nat
        BY <1>1
      <4> QED
        BY <4>1
    <3>3. Rest[n] = front[n]
      BY <1>4, <1>10, <3>2
    <3> QED
      BY <1>10, <3>1, <3>2, <3>3 DEF AheadIn
  <2>2. CASE Awaits(Onward(Walk), p)
    BY <1>1, <1>10, <2>2 DEF AheadIn
  <2> QED
    BY <1>14, <2>1, <2>2
<1> QED
  BY <1>3, <1>7, <1>12, <1>13, <1>14 DEF front

(* Where a statement that is still to come is, when the walk is at one.    *)
LEMMA WhereAhead ==
  ASSUME body \in Bodies, PlacedAll(frames), frames # << >>, Here \in DOMAIN body,
         NEW x \in All, AheadIn(frames, x.at)
  PROVE  \/ AheadIn(Front(frames), x.at)
         \/ Awaits(Onward(Walk), x.at)
         \/ x.at = Here /\ x.type = Walk.type /\ x.stmt = Stmt
         \/ Cat = "struct" /\ Awaits(Below, x.at)
<1>1. /\ Walk \in Frame /\ Placed(Walk) /\ Here = At(Walk)
      /\ AheadIn(Front(frames), x.at) \/ Awaits(Walk, x.at)
  BY WalkFacts
<1>2. SUFFICES ASSUME Awaits(Walk, x.at)
               PROVE  \/ Awaits(Onward(Walk), x.at)
                      \/ x.at = Here /\ x.type = Walk.type /\ x.stmt = Stmt
                      \/ Cat = "struct" /\ Awaits(Below, x.at)
  BY <1>1
<1>3. x.at \in Position /\ x.stmt = body[x.at]
  BY AllFacts
<1>4. /\ Len(x.at) = Len(Walk.at) + 1 => x.type = Walk.type
      /\ Len(x.at) # Len(Walk.at) + 1 =>
           FieldType[Walk.type][body[SubSeq(x.at, 1, Len(Walk.at) + 1)].field] \in Struct
  BY <1>1, <1>2, BelowPlaced DEF Awaits
<1>5. Walk.type \in Struct /\ Len(At(Walk)) = Len(Walk.at) + 1 /\ Len(Walk.at) \in Nat
  BY <1>1, PlacedFacts
<1>6. CASE x.at = At(Walk)
  BY <1>1, <1>3, <1>4, <1>5, <1>6 DEF Stmt
<1>7. CASE /\ Len(Walk.at) + 1 < Len(x.at) /\ SubSeq(x.at, 1, Len(Walk.at) + 1) = At(Walk)
           /\ \A t, way : Awaits(List(At(Walk), t, way), x.at)
  <2>1. FieldType[Walk.type][Stmt.field] \in Struct
    <3>1. Len(x.at) # Len(Walk.at) + 1
      BY <1>5, <1>7
    <3>2. FieldType[Walk.type][body[At(Walk)].field] \in Struct
      BY <1>4, <1>7, <3>1
    <3> QED
      BY <1>1, <3>2 DEF Stmt
  <2>2. Stmt.field \in Field
    BY <1>1, AtIsOfBody DEF Stmt
  <2>3. Cat = "struct"
    BY <1>5, <2>1, <2>2, CategoryFacts DEF Cat
  <2>4. Awaits(Below, x.at)
    BY <1>1, <1>7 DEF Below
  <2> QED
    BY <2>3, <2>4
<1> QED
  BY <1>1, <1>2, <1>3, <1>6, <1>7, AwaitsOnward

(* The list below the statement the walk is at.                            *)
LEMMA BelowFacts ==
  ASSUME body \in Bodies, PlacedAll(frames), frames # << >>, Here \in DOMAIN body,
         Cat = "struct"
  PROVE  Below \in Frame /\ Placed(Below)
<1>1. Walk \in Frame /\ Placed(Walk) /\ Here = At(Walk)
  BY WalkFacts
<1>2. Below = List(At(Walk), FieldType[Walk.type][body[At(Walk)].field],
                   Append(Walk.path, body[At(Walk)].field))
  BY <1>1 DEF Below, FieldPath, Stmt
<1>3. Category(Walk.type, body[At(Walk)].field) = "struct" /\ At(Walk) \in DOMAIN body
  BY <1>1 DEF Cat, Stmt
<1> QED
  BY <1>1, <1>2, <1>3, PlacedBelow

-----------------------------------------------------------------------------
(* The invariant: a statement of the body is still to come in the walk     *)
(* that is running, or has passed it, unless an error ended the walks; the *)
(* statements the first walk leaves out are those after a copy.            *)
ShapeLegal(x) == WellShaped(x.type, x.at)
TypeLegal(x) == WellTyped(x.type, x.stmt)
Applicable(x) ==
  LET s == x.stmt
      cat == Category(x.type, s.field)
  IN  /\ s.op # "raw"
      /\ s.op = "bare" \/ HasChildren(x.at) => cat = "struct"
      /\ s.index => cat = "list"
      /\ s.op = "op" /\ ~s.index => cat \in {"none", "scalar"}

WalkedIn(p, lists, x) ==
  /\ \/ p = "shape" /\ AheadIn(lists, x.at)
     \/ p = "refused" \/ ShapeLegal(x) \/ AfterCopy(x)
  /\ \/ p = "typing" /\ AheadIn(lists, x.at)
     \/ p \in {"shape", "refused"} \/ TypeLegal(x)
  /\ \/ p = "apply" /\ AheadIn(lists, x.at)
     \/ p \in {"shape", "typing", "refused"} \/ Applicable(x)
Walked(p, lists) == \A x \in All : WalkedIn(p, lists, x)

Phases == {"shape", "typing", "apply", "cached", "refused"}
WalkInv ==
  /\ body \in Bodies /\ phase \in Phases /\ PlacedAll(frames) /\ Walked(phase, frames)

(* The body stays, and what is said of its statements.                     *)
LEMMA BodyKept ==
  ASSUME body' = body
  PROVE  /\ All' = All
         /\ \A x : /\ ShapeLegal(x)' <=> ShapeLegal(x)
                   /\ Applicable(x)' <=> Applicable(x)
                   /\ AfterCopy(x)' <=> AfterCopy(x)
                   /\ Legal(x)' <=> Legal(x)
         /\ \A lists : PlacedAll(lists)' <=> PlacedAll(lists)
<1>1. All' = All
  BY DEF All, PathTo
<1>2. ASSUME NEW x
      PROVE  /\ ShapeLegal(x)' <=> ShapeLegal(x)
             /\ Applicable(x)' <=> Applicable(x)
             /\ Legal(x)' <=> Legal(x)
  BY DEF ShapeLegal, WellShaped, Applicable, Legal, HasChildren
<1>3. ASSUME NEW x
      PROVE  AfterCopy(x)' <=> AfterCopy(x)
  BY <1>1 DEF AfterCopy, HasChildren
<1>4. ASSUME NEW lists
      PROVE  PlacedAll(lists)' <=> PlacedAll(lists)
  BY DEF PlacedAll, Placed, PathTo
<1> QED
  BY <1>1, <1>2, <1>3, <1>4

LEMMA WalkInvNext ==
  ASSUME body' = body, body \in Bodies, phase' \in Phases, PlacedAll(frames'),
         \A x \in All : WalkedIn(phase', frames', x)
  PROVE  WalkInv'
<1>1. Walked(phase, frames)'
  BY BodyKept DEF Walked, WalkedIn, TypeLegal, AheadIn
<1>2. PlacedAll(frames)'
  BY DEF PlacedAll, Placed, PathTo
<1> QED
  BY <1>1, <1>2 DEF WalkInv

(* What is still to come after a step in the inner list.                   *)
LEMMA GoesOn ==
  ASSUME body \in Bodies, PlacedAll(frames), frames # << >>, Here \in DOMAIN body,
         ~(Cat = "struct" /\ HasChildren(Here)), NEW x \in All, AheadIn(frames, x.at)
  PROVE  AheadIn(Rest, x.at) \/ (x.at = Here /\ x.type = Walk.type /\ x.stmt = Stmt)
<1>1. CASE Cat = "struct" /\ Awaits(Below, x.at)
  <2>1. Below \in Frame /\ x.at \in DOMAIN body
    BY <1>1, BelowFacts, AllFacts
  <2>2. At(Below) \in DOMAIN body
    BY <1>1, <2>1, AwaitedIsThere
  <2>3. At(Below) = Append(Here, 1)
    BY DEF At, Below, List
  <2> QED
    BY <1>1, <2>2, <2>3 DEF HasChildren
<1> QED
  BY <1>1, WhereAhead, WalkFacts

LEMMA GoesBelow ==
  ASSUME body \in Bodies, PlacedAll(frames), frames # << >>, Here \in DOMAIN body,
         Cat = "struct"
  PROVE  /\ PlacedAll(Append(Rest, Below)) /\ PlacedAll(Append(Front(frames), Below))
         /\ \A x \in All : AheadIn(frames, x.at) =>
              \/ AheadIn(Append(Rest, Below), x.at)
              \/ x.at = Here /\ x.type = Walk.type /\ x.stmt = Stmt
         /\ \A x \in All : AheadIn(frames, x.at) =>
              \/ AheadIn(Append(Front(frames), Below), x.at)
              \/ Awaits(Onward(Walk), x.at)
              \/ x.at = Here /\ x.type = Walk.type /\ x.stmt = Stmt
<1>1. Below \in Frame /\ Placed(Below) /\ PlacedAll(Rest) /\ PlacedAll(Front(frames))
  BY BelowFacts, WalkFacts
<1>2. /\ PlacedAll(Append(Rest, Below)) /\ PlacedAll(Append(Front(frames), Below))
      /\ \A p : AheadIn(Rest, p) \/ Awaits(Below, p) => AheadIn(Append(Rest, Below), p)
      /\ \A p : AheadIn(Front(frames), p) \/ Awaits(Below, p)
                  => AheadIn(Append(Front(frames), Below), p)
  BY <1>1, PushFacts
<1>3. \A p : AheadIn(Front(frames), p) \/ Awaits(Onward(Walk), p) => AheadIn(Rest, p)
  BY WalkFacts
<1> QED
  BY <1>2, <1>3, WhereAhead

LEMMA NoneAhead ==
  /\ PlacedAll(<< >>)
  /\ \A p : ~AheadIn(<< >>, p)
<1>1. << >> \in Seq(Frame) /\ DOMAIN << >> = {}
  OBVIOUS
<1> QED
  BY <1>1 DEF PlacedAll, AheadIn

(* At the beginning of a walk every statement is still to come.            *)
LEMMA WholeAhead ==
  ASSUME body \in Bodies
  PROVE  PlacedAll(Whole) /\ \A x \in All : AheadIn(Whole, x.at)
<1> DEFINE top == List(<< >>, Root, << >>)
<1>1. top \in Frame
  BY TypesAssumption DEF List, Frame, Position
<1>2. top.at = << >> /\ top.next = 1 /\ top.type = Root /\ top.path = << >>
  BY DEF List
<1>3. PathTo(<< >>) = << >>
  BY DEF PathTo
<1>4. [k \in 1 .. 1 |-> Root] \in Scopes(<< >>)
  BY TypesAssumption DEF Scopes
<1>5. Placed(top)
  <2>1. [k \in 1 .. 1 |-> Root][Len(<< >>) + 1] = Root
    OBVIOUS
  <2> QED
    BY <1>2, <1>3, <1>4, <2>1 DEF Placed
<1> HIDE DEF top
<1>6. Whole = <<top>> /\ DOMAIN <<top>> = {1} /\ <<top>>[1] = top
  BY DEF Whole, top
<1>7. PlacedAll(Whole)
  BY <1>1, <1>5, <1>6 DEF PlacedAll
<1>8. ASSUME NEW x \in All
      PROVE  AheadIn(Whole, x.at)
  <2>1. x.at \in Position /\ Len(x.at) \in Nat \ {0}
    BY AllFacts
  <2>2. x.at[1] \in Nat \ {0}
    BY <2>1 DEF Position
  <2>3. SubSeq(x.at, 1, 0) = << >>
    BY SubSeqEmpty
  <2>4. Awaits(top, x.at)
    BY <1>2, <2>1, <2>2, <2>3 DEF Awaits
  <2> QED
    BY <1>6, <2>4 DEF AheadIn
<1> QED
  BY <1>7, <1>8

-----------------------------------------------------------------------------
LEMMA WalkInvInit == Init => WalkInv
<1> SUFFICES ASSUME Init PROVE WalkInv
  OBVIOUS
<1>1. body \in Bodies /\ phase = "shape" /\ frames = Whole
  BY DEF Init
<1> QED
  BY <1>1, WholeAhead DEF WalkInv, Phases, Walked, WalkedIn

(* A walk at a statement, of the body and of the type of its scope.        *)
LEMMA AtStmtFacts ==
  ASSUME WalkInv, NEW p \in {"shape", "typing", "apply"}, AtStmt(p)
  PROVE  /\ body \in Bodies /\ PlacedAll(frames) /\ frames # << >> /\ Here \in DOMAIN body
         /\ phase = p /\ Stmt \in Statement /\ Walk.type \in Struct
         /\ [stmt |-> Stmt, type |-> Walk.type, at |-> Here] \in All
         /\ \A x \in All : WalkedIn(p, frames, x)
         /\ PlacedAll(Rest)
         /\ HasChildren(Here) => Stmt.op \in {"assign", "bare"}
         /\ Stmt.op = "bare" => ~Stmt.index
         /\ Cat \in {"struct", "identifier", "none", "scalar", "list"}
<1>1. /\ body \in Bodies /\ PlacedAll(frames) /\ frames # << >> /\ Here \in DOMAIN body
      /\ phase = p /\ \A x \in All : WalkedIn(p, frames, x)
  BY DEF WalkInv, AtStmt, Walked
<1>2. Walk \in Frame /\ Placed(Walk) /\ Here = At(Walk) /\ PlacedAll(Rest)
  BY <1>1, WalkFacts
<1>3. Walk.type \in Struct
  BY <1>1, <1>2, PlacedFacts
<1>4. [stmt |-> Stmt, type |-> Walk.type, at |-> Here] \in All
  BY <1>1, <1>2, AtIsOfBody DEF Stmt
<1>5. /\ Stmt \in Statement /\ Stmt.field \in Field
      /\ HasChildren(Here) => Stmt.op \in {"assign", "bare"}
      /\ Stmt.op = "bare" => ~Stmt.index
  <2>1. Stmt \in Statement
    BY <1>1, BodyFacts DEF Stmt
  <2>2. /\ HasChildren(Here) => Stmt.op \in {"assign", "bare"}
        /\ Stmt.op = "bare" => ~Stmt.index
    BY <1>1, BodiesAssumption DEF HasChildren, Stmt
  <2> QED
    BY <2>1, <2>2 DEF Statement
<1>6. Cat \in {"struct", "identifier", "none", "scalar", "list"}
  BY <1>3, <1>5, CategoryFacts DEF Cat
<1> QED
  BY <1>1, <1>2, <1>3, <1>4, <1>5, <1>6

(* The steps of a walk that goes on in its list.                           *)
LEMMA OnwardStep ==
  ASSUME WalkInv, NEW p \in {"shape", "typing", "apply"}, AtStmt(p),
         frames' = Rest, phase' = phase, body' = body,
         ~(Cat = "struct" /\ HasChildren(Here)),
         p = "shape" => WellShaped(Walk.type, Here),
         p = "typing" => WellTyped(Walk.type, Stmt),
         p = "apply" => Applicable([stmt |-> Stmt, type |-> Walk.type, at |-> Here])
  PROVE  WalkInv'
<1>1. /\ body \in Bodies /\ PlacedAll(frames) /\ frames # << >> /\ Here \in DOMAIN body
      /\ phase = p /\ PlacedAll(Rest) /\ \A x \in All : WalkedIn(p, frames, x)
  BY AtStmtFacts
<1>2. ASSUME NEW x \in All
      PROVE  WalkedIn(p, Rest, x)
  <2>1. WalkedIn(p, frames, x)
    BY <1>1
  <2>2. AheadIn(frames, x.at) =>
          AheadIn(Rest, x.at) \/ (x.at = Here /\ x.type = Walk.type /\ x.stmt = Stmt)
    BY <1>1, GoesOn
  <2>3. CASE x.at = Here /\ x.type = Walk.type /\ x.stmt = Stmt
    <3>1. /\ p = "shape" => ShapeLegal(x)
          /\ p = "typing" => TypeLegal(x)
          /\ p = "apply" => Applicable(x)
      BY <2>3 DEF ShapeLegal, TypeLegal, Applicable
    <3> QED
      BY <2>1, <3>1 DEF WalkedIn
  <2>4. CASE AheadIn(frames, x.at) => AheadIn(Rest, x.at)
    BY <2>1, <2>4 DEF WalkedIn
  <2> QED
    BY <2>2, <2>3, <2>4
<1> QED
  BY <1>1, <1>2, WalkInvNext DEF Phases

(* Those of a walk that enters the list below a statement.                 *)
LEMMA BelowStep ==
  ASSUME WalkInv, NEW p \in {"shape", "typing", "apply"}, AtStmt(p),
         frames' = Append(Rest, Below), phase' = phase, body' = body,
         Cat = "struct",
         p = "shape" => WellShaped(Walk.type, Here),
         p = "typing" => WellTyped(Walk.type, Stmt),
         p = "apply" => Applicable([stmt |-> Stmt, type |-> Walk.type, at |-> Here])
  PROVE  WalkInv'
<1> DEFINE lists == Append(Rest, Below)
<1>1. /\ body \in Bodies /\ PlacedAll(frames) /\ frames # << >> /\ Here \in DOMAIN body
      /\ phase = p /\ \A x \in All : WalkedIn(p, frames, x)
  BY AtStmtFacts
<1>2. /\ PlacedAll(lists)
      /\ \A x \in All : AheadIn(frames, x.at) =>
           AheadIn(lists, x.at) \/ (x.at = Here /\ x.type = Walk.type /\ x.stmt = Stmt)
  BY <1>1, GoesBelow
<1>3. frames' = lists
  OBVIOUS
<1> HIDE DEF lists
<1>4. ASSUME NEW x \in All
      PROVE  WalkedIn(p, lists, x)
  <2>1. WalkedIn(p, frames, x)
    BY <1>1
  <2>3. CASE x.at = Here /\ x.type = Walk.type /\ x.stmt = Stmt
    <3>1. /\ p = "shape" => ShapeLegal(x)
          /\ p = "typing" => TypeLegal(x)
          /\ p = "apply" => Applicable(x)
      BY <2>3 DEF ShapeLegal, TypeLegal, Applicable
    <3> QED
      BY <2>1, <3>1 DEF WalkedIn
  <2>4. CASE AheadIn(frames, x.at) => AheadIn(lists, x.at)
    BY <2>1, <2>4 DEF WalkedIn
  <2> QED
    BY <1>2, <2>3, <2>4
<1> QED
  BY <1>1, <1>2, <1>3, <1>4, WalkInvNext DEF Phases

LEMMA RefuseStep ==
  ASSUME WalkInv, NEW p, Refuse(p)
  PROVE  WalkInv'
<1>1. body' = body /\ body \in Bodies /\ phase' = "refused" /\ frames' = << >>
      /\ \A x \in All : WalkedIn(phase, frames, x)
  BY DEF Refuse, WalkInv, Walked
<1>2. \A x \in All : WalkedIn(phase', frames', x)
  BY <1>1 DEF WalkedIn
<1> QED
  BY <1>1, <1>2, NoneAhead, WalkInvNext DEF Phases

LEMMA WalkEnterCopyShape == WalkInv /\ EnterCopyShape => WalkInv'
<1> SUFFICES ASSUME WalkInv, EnterCopyShape PROVE WalkInv'
  OBVIOUS
<1>1. /\ AtStmt("shape") /\ WellShaped(Walk.type, Here) /\ Stmt.op = "assign"
      /\ HasChildren(Here) /\ frames' = Append(Front(frames), Below)
      /\ body' = body /\ phase' = phase
  BY DEF EnterCopyShape
<1> DEFINE lists == Append(Front(frames), Below)
           y == [stmt |-> Stmt, type |-> Walk.type, at |-> Here]
<1>2. /\ body \in Bodies /\ PlacedAll(frames) /\ frames # << >> /\ Here \in DOMAIN body
      /\ phase = "shape" /\ \A x \in All : WalkedIn("shape", frames, x)
      /\ y \in All
  BY <1>1, AtStmtFacts
<1>3. Cat = "struct"
  BY <1>1 DEF WellShaped, Cat, Stmt
<1>4. /\ PlacedAll(lists)
      /\ \A x \in All : AheadIn(frames, x.at) =>
           \/ AheadIn(lists, x.at)
           \/ Awaits(Onward(Walk), x.at)
           \/ x.at = Here /\ x.type = Walk.type /\ x.stmt = Stmt
  BY <1>2, <1>3, GoesBelow
<1>5. frames' = lists /\ y.stmt = Stmt /\ y.at = Here
  BY <1>1
<1>6. /\ Walk \in Frame /\ Len(Here) = Len(Walk.at) + 1 /\ Len(Walk.at) \in Nat
      /\ Front(Here) = Walk.at /\ Last(Here) = Walk.next /\ Walk.next \in Nat \ {0}
      /\ Onward(Walk).at = Walk.at /\ Onward(Walk).next = Walk.next + 1
  BY <1>2, WalkFacts, PlacedFacts DEF Onward, Frame
<1> HIDE DEF lists, y
<1>7. ASSUME NEW x \in All, Awaits(Onward(Walk), x.at)
      PROVE  AfterCopy(x)
  <2>1. /\ Len(Walk.at) < Len(x.at) /\ SubSeq(x.at, 1, Len(Walk.at)) = Walk.at
        /\ Walk.next + 1 <= x.at[Len(Walk.at) + 1]
    BY <1>6, <1>7 DEF Awaits
  <2>2. x.at \in Position /\ Len(x.at) \in Nat
    BY <1>2, AllFacts
  <2>3. x.at[Len(Walk.at) + 1] \in Nat
    BY <1>6, <2>1, <2>2 DEF Position
  <2>4. /\ Len(Here) <= Len(x.at) /\ Len(Here) - 1 = Len(Walk.at)
        /\ Walk.next < x.at[Len(Here)]
    BY <1>6, <2>1, <2>2, <2>3
  <2>5. Front(y.at) = SubSeq(x.at, 1, Len(y.at) - 1)
    BY <1>5, <1>6, <2>1, <2>4
  <2> QED
    BY <1>1, <1>2, <1>5, <1>6, <2>4, <2>5 DEF AfterCopy
<1>8. ASSUME NEW x \in All
      PROVE  WalkedIn("shape", lists, x)
  <2>1. WalkedIn("shape", frames, x)
    BY <1>2
  <2>2. CASE x.at = Here /\ x.type = Walk.type /\ x.stmt = Stmt
    BY <1>1, <2>1, <2>2 DEF WalkedIn, ShapeLegal
  <2>3. CASE Awaits(Onward(Walk), x.at)
    BY <1>7, <2>1, <2>3 DEF WalkedIn
  <2>4. CASE AheadIn(frames, x.at) => AheadIn(lists, x.at)
    BY <2>1, <2>4 DEF WalkedIn
  <2> QED
    BY <1>4, <2>2, <2>3, <2>4
<1> QED
  BY <1>1, <1>2, <1>4, <1>5, <1>8, WalkInvNext DEF Phases

LEMMA WalkEndList == WalkInv /\ EndList => WalkInv'
<1> SUFFICES ASSUME WalkInv, EndList PROVE WalkInv'
  OBVIOUS
<1>1. /\ frames # << >> /\ Here \notin DOMAIN body /\ frames' = Front(frames)
      /\ body' = body /\ phase' = phase
  BY DEF EndList
<1>2. /\ body \in Bodies /\ PlacedAll(frames) /\ phase \in Phases
      /\ \A x \in All : WalkedIn(phase, frames, x)
  BY DEF WalkInv, Walked
<1>3. /\ Walk \in Frame /\ Here = At(Walk) /\ PlacedAll(Front(frames))
      /\ \A p : AheadIn(frames, p) => AheadIn(Front(frames), p) \/ Awaits(Walk, p)
  BY <1>1, <1>2, WalkFacts
<1>4. ASSUME NEW x \in All
      PROVE  WalkedIn(phase, Front(frames), x)
  <2>1. ~Awaits(Walk, x.at)
    BY <1>1, <1>2, <1>3, AllFacts, AwaitedIsThere
  <2>2. AheadIn(frames, x.at) => AheadIn(Front(frames), x.at)
    BY <1>3, <2>1
  <2>3. WalkedIn(phase, frames, x)
    BY <1>2
  <2> QED
    BY <2>2, <2>3 DEF WalkedIn
<1> QED
  BY <1>1, <1>2, <1>3, <1>4, WalkInvNext

LEMMA WalkEndWalk == WalkInv /\ EndWalk => WalkInv'
<1> SUFFICES ASSUME WalkInv, EndWalk PROVE WalkInv'
  OBVIOUS
<1>1. /\ frames = << >> /\ phase \in {"shape", "typing", "apply"} /\ body' = body
      /\ phase = "shape" => phase' = "typing" /\ frames' = Whole
      /\ phase = "typing" => phase' = "apply" /\ frames' = Whole
      /\ phase = "apply" => phase' = "cached" /\ frames' = << >>
  BY DEF EndWalk
<1>2. body \in Bodies /\ \A x \in All : WalkedIn(phase, frames, x)
  BY DEF WalkInv, Walked
<1>3. ASSUME NEW x \in All
      PROVE  WalkedIn(phase', frames', x)
  <2>1. AheadIn(Whole, x.at) /\ ~AheadIn(<< >>, x.at)
    BY <1>2, WholeAhead, NoneAhead
  <2>2. WalkedIn(phase, << >>, x)
    BY <1>1, <1>2
  <2> QED
    BY <1>1, <2>1, <2>2 DEF WalkedIn
<1>4. PlacedAll(frames')
  BY <1>1, <1>2, WholeAhead, NoneAhead
<1> QED
  BY <1>1, <1>2, <1>3, <1>4, WalkInvNext DEF Phases

LEMMA WalkShape ==
  WalkInv /\ (RefuseShape \/ PassShape \/ EnterBareShape \/ RefuseTyping \/ PassTyping)
    => WalkInv'
<1>1. ASSUME WalkInv, RefuseShape \/ RefuseTyping
      PROVE  WalkInv'
  BY <1>1, RefuseStep DEF RefuseShape, RefuseTyping
<1>2. ASSUME WalkInv, PassShape
      PROVE  WalkInv'
  <2>1. /\ AtStmt("shape") /\ WellShaped(Walk.type, Here)
        /\ frames' = Rest /\ phase' = phase /\ body' = body
    BY <1>2 DEF PassShape, Advance
  <2>2. ~(Cat = "struct" /\ HasChildren(Here))
    <3>1. Stmt.op = "op" \/ ~HasChildren(Here)
      BY <1>2 DEF PassShape
    <3>2. Stmt.op = "op" => Cat # "struct"
      BY <2>1 DEF WellShaped, Cat, Stmt
    <3> QED
      BY <3>1, <3>2
  <2> QED
    BY <1>2, <2>1, <2>2, OnwardStep
<1>3. ASSUME WalkInv, EnterBareShape
      PROVE  WalkInv'
  <2>1. /\ AtStmt("shape") /\ WellShaped(Walk.type, Here) /\ Stmt.op = "bare"
        /\ frames' = Append(Rest, Below) /\ phase' = phase /\ body' = body
    BY <1>3 DEF EnterBareShape, Descend
  <2>2. Cat = "struct"
    BY <2>1 DEF WellShaped, Cat, Stmt
  <2> QED
    BY <1>3, <2>1, <2>2, BelowStep
<1>4. ASSUME WalkInv, PassTyping
      PROVE  WalkInv'
  <2>1. /\ AtStmt("typing") /\ WellTyped(Walk.type, Stmt) /\ phase' = phase /\ body' = body
        /\ IF Stmt.op \in {"assign", "bare"} /\ Cat = "struct"
           THEN frames' = Append(Rest, Below) ELSE frames' = Rest
    BY <1>4 DEF PassTyping, Descend, Advance
  <2>2. CASE Stmt.op \in {"assign", "bare"} /\ Cat = "struct"
    BY <1>4, <2>1, <2>2, BelowStep
  <2>3. CASE ~(Stmt.op \in {"assign", "bare"} /\ Cat = "struct")
    <3>1. HasChildren(Here) => Stmt.op \in {"assign", "bare"}
      BY <1>4, <2>1, AtStmtFacts
    <3>2. ~(Cat = "struct" /\ HasChildren(Here))
      BY <2>3, <3>1
    <3> QED
      BY <1>4, <2>1, <2>3, <3>2, OnwardStep
  <2> QED
    BY <2>2, <2>3
<1> QED
  BY <1>1, <1>2, <1>3, <1>4

(* Phase 6 stops at the statements that it does not apply to.              *)
LEMMA WalkApply ==
  WalkInv /\ (AssignValue \/ AssignStruct \/ Operate \/ EnterBare \/ RefuseRaw) => WalkInv'
<1> DEFINE y == [stmt |-> Stmt, type |-> Walk.type, at |-> Here]
<1>1. Applicable(y) <=>
        /\ Stmt.op # "raw"
        /\ Stmt.op = "bare" \/ HasChildren(Here) => Cat = "struct"
        /\ Stmt.index => Cat = "list"
        /\ Stmt.op = "op" /\ ~Stmt.index => Cat \in {"none", "scalar"}
  BY DEF Applicable, Cat
<1> HIDE DEF y
<1>2. ASSUME WalkInv, RefuseRaw
      PROVE  WalkInv'
  BY <1>2, RefuseStep DEF RefuseRaw
<1>3. ASSUME WalkInv, AssignValue
      PROVE  WalkInv'
  <2>1. AtStmt("apply") /\ Stmt.op = "assign" /\ Cat # "struct"
    BY <1>3 DEF AssignValue
  <2>2. CASE Refuse(6)
    BY <1>3, <2>2, RefuseStep
  <2>3. CASE Stored(Stmt) # "error" /\ Keep(FieldPath, Stored(Stmt))
    <3>1. frames' = Rest /\ phase' = phase /\ body' = body
      BY <2>3 DEF Keep
    <3>2. ~HasChildren(Here) /\ (Stmt.index => Cat = "list")
      BY <2>3 DEF Stored
    <3>3. Applicable(y)
      BY <1>1, <2>1, <3>2
    <3> QED
      BY <1>3, <2>1, <3>1, <3>3, OnwardStep DEF y
  <2> QED
    BY <1>3, <2>2, <2>3 DEF AssignValue
<1>4. ASSUME WalkInv, AssignStruct
      PROVE  WalkInv'
  <2>1. AtStmt("apply") /\ Stmt.op = "assign" /\ Cat = "struct"
    BY <1>4 DEF AssignStruct
  <2>2. CASE Refuse(6)
    BY <1>4, <2>2, RefuseStep
  <2>3. CASE ~Stmt.index /\ frames' = Append(Rest, Below) /\ UNCHANGED <<body, phase, fault>>
    <3>1. Applicable(y)
      BY <1>1, <2>1, <2>3
    <3> QED
      BY <1>4, <2>1, <2>3, <3>1, BelowStep DEF y
  <2> QED
    BY <1>4, <2>2, <2>3 DEF AssignStruct
<1>5. ASSUME WalkInv, Operate
      PROVE  WalkInv'
  <2>1. AtStmt("apply") /\ Stmt.op = "op"
    BY <1>5 DEF Operate
  <2>2. CASE Refuse(6)
    BY <1>5, <2>2, RefuseStep
  <2>3. CASE /\ Advance
             /\ IF Stmt.index THEN Cat = "list" ELSE Cat \in {"none", "scalar"}
    <3>1. frames' = Rest /\ phase' = phase /\ body' = body
      BY <2>3 DEF Advance
    <3>2. HasChildren(Here) => Stmt.op \in {"assign", "bare"}
      BY <1>5, <2>1, AtStmtFacts
    <3>3. Applicable(y)
      BY <1>1, <2>1, <2>3, <3>2
    <3>4. Cat # "struct"
      BY <2>3
    <3> QED
      BY <1>5, <2>1, <3>1, <3>3, <3>4, OnwardStep DEF y
  <2> QED
    BY <1>5, <2>2, <2>3 DEF Operate
<1>6. ASSUME WalkInv, EnterBare
      PROVE  WalkInv'
  <2>1. AtStmt("apply") /\ Stmt.op = "bare"
    BY <1>6 DEF EnterBare
  <2>2. CASE Refuse(6)
    BY <1>6, <2>2, RefuseStep
  <2>3. CASE /\ Cat = "struct" /\ frames' = Append(Rest, Below)
             /\ UNCHANGED <<body, phase, fault>>
    <3>1. ~Stmt.index
      BY <1>6, <2>1, AtStmtFacts
    <3>2. Applicable(y)
      BY <1>1, <2>1, <2>3, <3>1
    <3> QED
      BY <1>6, <2>1, <2>3, <3>2, BelowStep DEF y
  <2> QED
    BY <1>6, <2>2, <2>3 DEF EnterBare
<1> QED
  BY <1>2, <1>3, <1>4, <1>5, <1>6

LEMMA WalkStutter == WalkInv /\ UNCHANGED vars => WalkInv'
<1> SUFFICES ASSUME WalkInv, UNCHANGED vars PROVE WalkInv'
  OBVIOUS
<1>1. body' = body /\ phase' = phase /\ frames' = frames
  BY DEF vars
<1> QED
  BY <1>1, WalkInvNext DEF WalkInv, Walked

LEMMA WalkInvStep == WalkInv /\ [Next]_vars => WalkInv'
BY WalkShape, WalkEnterCopyShape, WalkApply, WalkEndList, WalkEndWalk, WalkStutter
   DEF Next, Finished

(* What the walks have passed when the body is resolved.                   *)
LEMMA WalkedMeansChecked == WalkInv => OnlyUndeclaredPass
<1> SUFFICES ASSUME WalkInv, phase = "cached", NEW x \in All, ~Legal(x)
             PROVE  /\ AfterCopy(x)
                    /\ x.stmt.op \in {"assign", "op"} /\ ~x.stmt.index
                    /\ Category(x.type, x.stmt.field) = "none"
  BY DEF OnlyUndeclaredPass
<1>1. (ShapeLegal(x) \/ AfterCopy(x)) /\ TypeLegal(x) /\ Applicable(x)
  BY DEF WalkInv, Walked, WalkedIn
<1>2. x.stmt = body[x.at] /\ x.stmt \in Statement
  BY AllFacts DEF WalkInv
<1>3. x.stmt.op \in {"assign", "op", "bare", "raw"}
  BY <1>2 DEF Statement
<1> DEFINE s == x.stmt
           cat == Category(x.type, s.field)
<1>4. s.op = "assign" /\ cat = "identifier" =>
        \/ s.rhs.form \in {"name", "instance"}
        \/ s.rhs.form = "member" /\ s.rhs.domain = FieldType[x.type][s.field]
  BY <1>1 DEF TypeLegal, WellTyped
<1>5. /\ s.op # "raw" /\ (s.op = "bare" \/ HasChildren(x.at) => cat = "struct")
      /\ s.index => cat = "list"
      /\ s.op = "op" /\ ~s.index => cat \in {"none", "scalar"}
  BY <1>1 DEF Applicable
<1>6. cat = "none"
  BY <1>4, <1>5 DEF Legal
<1>7. ~ShapeLegal(x)
  BY <1>2, <1>3, <1>5, <1>6 DEF ShapeLegal, WellShaped
<1> QED
  BY <1>1, <1>3, <1>5, <1>6, <1>7

(* Of the bodies that are resolved: a statement that is not legal is for a *)
(* field that is not declared, and after a copy with children.             *)
THEOREM OnlyUndeclaredPasses == Spec => []OnlyUndeclaredPass
<1>1. Init => WalkInv
  BY WalkInvInit
<1>2. WalkInv /\ [Next]_vars => WalkInv'
  BY WalkInvStep
<1>3. WalkInv => OnlyUndeclaredPass
  BY WalkedMeansChecked
<1> QED
  BY <1>1, <1>2, <1>3, PTL DEF Spec

-----------------------------------------------------------------------------
(* The errors of phase 5.                                                  *)
LEMMA LegalPasses ==
  ASSUME body \in Bodies, NEW x \in All, Legal(x)
  PROVE  ShapeLegal(x) /\ TypeLegal(x)
<1>1. x.stmt = body[x.at]
  BY AllFacts
<1>2. ShapeLegal(x)
  BY <1>1 DEF Legal, ShapeLegal, WellShaped
<1>3. TypeLegal(x)
  <2>1. ASSUME x.stmt.op = "assign", Category(x.type, x.stmt.field) = "identifier"
        PROVE  \/ x.stmt.rhs.form \in {"name", "instance"}
               \/ /\ x.stmt.rhs.form = "member"
                  /\ x.stmt.rhs.domain = FieldType[x.type][x.stmt.field]
    BY <2>1 DEF Legal
  <2> QED
    BY <2>1 DEF TypeLegal, WellTyped
<1> QED
  BY <1>2, <1>3

LEMMA FaultStep == WalkInv /\ FaultIsReal /\ [Next]_vars => FaultIsReal'
<1> SUFFICES ASSUME WalkInv, FaultIsReal, [Next]_vars PROVE FaultIsReal'
  OBVIOUS
<1>1. ASSUME body' = body, fault' = fault
      PROVE  FaultIsReal'
  BY <1>1, BodyKept DEF FaultIsReal
<1>2. ASSUME Refuse(6)
      PROVE  FaultIsReal'
  <2>1. fault'[1] = 6
    BY <1>2 DEF Refuse
  <2> QED
    BY <2>1 DEF FaultIsReal
<1>3. ASSUME NEW p \in {"shape", "typing"}, AtStmt(p), Refuse(5),
             p = "shape" => ~WellShaped(Walk.type, Here),
             p = "typing" => ~WellTyped(Walk.type, Stmt)
      PROVE  FaultIsReal'
  <2>1. PICK y \in All : y.at = Here /\ y.type = Walk.type /\ y.stmt = Stmt
    BY <1>3, AtStmtFacts
  <2>2. body \in Bodies
    BY DEF WalkInv
  <2>3. ~Legal(y)
    BY <1>3, <2>1, <2>2, LegalPasses DEF ShapeLegal, TypeLegal
  <2>4. body' = body /\ fault'[2] = Here
    BY <1>3 DEF Refuse
  <2>5. y \in All' /\ ~Legal(y)'
    BY <2>1, <2>3, <2>4, BodyKept
  <2> QED
    BY <2>1, <2>4, <2>5 DEF FaultIsReal
<1>4. ASSUME Next
      PROVE  FaultIsReal'
  <2>1. CASE RefuseShape
    BY <1>3, <2>1 DEF RefuseShape
  <2>2. CASE RefuseTyping
    BY <1>3, <2>2 DEF RefuseTyping
  <2>3. CASE PassShape \/ EnterBareShape \/ EnterCopyShape \/ PassTyping
    BY <1>1, <2>3 DEF PassShape, EnterBareShape, EnterCopyShape, PassTyping,
                      Advance, Descend
  <2>4. CASE AssignValue \/ AssignStruct \/ Operate \/ EnterBare \/ RefuseRaw
    BY <1>1, <1>2, <2>4 DEF AssignValue, AssignStruct, Operate, EnterBare, RefuseRaw,
                            Keep, Advance
  <2>5. CASE EndList \/ EndWalk \/ Finished
    BY <1>1, <2>5 DEF EndList, EndWalk, Finished, vars
  <2> QED
    BY <1>4, <2>1, <2>2, <2>3, <2>4, <2>5 DEF Next
<1> QED
  BY <1>1, <1>4 DEF vars

(* What phase 5 refuses is not legal, and the error is at its place.       *)
THEOREM FaultsAreReal == Spec => []FaultIsReal
<1>1. Init => WalkInv /\ FaultIsReal
  BY WalkInvInit DEF Init, FaultIsReal
<1>2. WalkInv /\ FaultIsReal /\ [Next]_vars => WalkInv' /\ FaultIsReal'
  BY WalkInvStep, FaultStep
<1> QED
  BY <1>1, <1>2, PTL DEF Spec

-----------------------------------------------------------------------------
(* The values: every field of the instance has a place among them.         *)
KindInv == WalkInv /\ values = [p \in Paths |-> values[p]] /\ KindsKept

LEMMA FieldPathFacts ==
  ASSUME WalkInv, NEW p \in {"shape", "typing", "apply"}, AtStmt(p)
  PROVE  /\ FieldPath \in Paths /\ ScopeType(FieldPath) = Walk.type
         /\ Last(FieldPath) = Stmt.field
<1>1. /\ body \in Bodies /\ PlacedAll(frames) /\ frames # << >> /\ Here \in DOMAIN body
      /\ Stmt.field \in Field
  BY AtStmtFacts DEF Statement
<1>2. Walk \in Frame /\ Placed(Walk) /\ Here = At(Walk)
  BY <1>1, WalkFacts
<1>3. /\ Walk.path \in Seq(Field) /\ Len(Walk.path) = Len(Walk.at)
      /\ Len(Here) = Len(Walk.at) + 1 /\ Len(Walk.at) \in Nat
  BY <1>1, <1>2, PlacedFacts
<1>4. PICK s \in Scopes(Walk.path) : s[Len(Walk.path) + 1] = Walk.type
  BY <1>2 DEF Placed
<1>5. /\ ScopeType(FieldPath) = Walk.type /\ Front(FieldPath) = Walk.path
      /\ Last(FieldPath) = Stmt.field
  BY <1>1, <1>3, <1>4, ScopeTypeIs DEF FieldPath
<1>6. FieldPath \in Seq(Field) /\ Len(FieldPath) = Len(Here)
  BY <1>1, <1>3, AppendProperties DEF FieldPath
<1>7. Len(Here) \in 1 .. Depth
  BY <1>1, BodyFacts
<1>8. FieldPath \in [1 .. Len(Here) -> Field]
  BY <1>6, LenProperties
<1>9. FieldPath \in Paths
  BY <1>4, <1>5, <1>7, <1>8 DEF Paths
<1> QED
  BY <1>5, <1>9

LEMMA KindAssign ==
  ASSUME WalkInv, AtStmt("apply"), Cat # "struct", Stored(Stmt) # "error"
  PROVE  Cat \in {"identifier", "list", "struct"} =>
           Stored(Stmt) = KindOf(Walk.type, Stmt.field)
<1>1. CASE Cat = "list"
  BY <1>1 DEF Stored, KindOf, Cat
<1>2. CASE Cat = "identifier"
  BY <1>2 DEF Stored, KindOf, Cat
<1> QED
  BY <1>1, <1>2

LEMMA KindStep == KindInv /\ [Next]_vars => KindInv'
<1> SUFFICES ASSUME KindInv, [Next]_vars PROVE KindInv'
  OBVIOUS
<1> DEFINE KindFits(p, kind) ==
      Category(ScopeType(p), Last(p)) \in {"identifier", "list", "struct"} =>
        kind \in {"unset", KindOf(ScopeType(p), Last(p))}
<1>1. /\ WalkInv /\ WalkInv' /\ values = [p \in Paths |-> values[p]]
      /\ \A p \in Paths : KindFits(p, values[p])
  BY WalkInvStep DEF KindInv, KindsKept
<1>2. ASSUME values' = [p \in Paths |-> values'[p]],
             \A p \in Paths : KindFits(p, values'[p])
      PROVE  KindInv'
  BY <1>1, <1>2 DEF KindInv, KindsKept
<1> HIDE DEF KindFits
<1>3. ASSUME values' = values
      PROVE  KindInv'
  BY <1>1, <1>2, <1>3
<1>4. ASSUME NEW p, Refuse(p)
      PROVE  KindInv'
  BY <1>3, <1>4 DEF Refuse
<1>5. ASSUME AtStmt("apply"), Cat # "struct", Stored(Stmt) # "error",
             Keep(FieldPath, Stored(Stmt))
      PROVE  KindInv'
  <2>1. FieldPath \in Paths /\ KindFits(FieldPath, Stored(Stmt))
    BY <1>1, <1>5, FieldPathFacts, KindAssign DEF KindFits, Cat
  <2> DEFINE kind == Stored(Stmt)
             path == FieldPath
  <2>2. values' = [values EXCEPT ![path] = kind]
    BY <1>5 DEF Keep
  <2> HIDE DEF kind, path
  <2>3. \A p \in Paths : values'[p] = IF p = path THEN kind ELSE values[p]
    BY <1>1, <2>2
  <2>4. values' = [p \in Paths |-> values'[p]]
    BY <1>1, <2>2
  <2>5. ASSUME NEW p \in Paths
        PROVE  KindFits(p, values'[p])
    BY <1>1, <2>1, <2>3 DEF kind, path
  <2> QED
    BY <1>2, <2>4, <2>5
<1>6. ASSUME AtStmt("apply"), Cat = "struct", NEW complete \in BOOLEAN,
             values' = WithStruct(FieldPath, complete)
      PROVE  KindInv'
  <2>1. /\ FieldPath \in Paths /\ ScopeType(FieldPath) = Walk.type
        /\ Last(FieldPath) = Stmt.field
    BY <1>1, <1>6, FieldPathFacts
  <2>2. KindFits(FieldPath, "struct")
    <3>1. KindOf(Walk.type, Stmt.field) = "struct"
      BY <1>6 DEF KindOf, Cat
    <3> QED
      BY <2>1, <3>1 DEF KindFits
  <2>3. \A p \in Paths : KindFits(p, "unset") /\ KindFits(p, KindOf(ScopeType(p), Last(p)))
    BY DEF KindFits
  <2> DEFINE path == FieldPath
             kind(p) == KindOf(ScopeType(p), Last(p))
             below(p) == IsStrictPrefix(path, p)
  <2>4. values' = [p \in Paths |->
                     IF p = path THEN "struct" ELSE IF ~below(p) THEN values[p]
                     ELSE IF complete THEN kind(p) ELSE "unset"]
    BY <1>6 DEF WithStruct
  <2>5. KindFits(path, "struct") /\ \A p \in Paths : KindFits(p, "unset") /\ KindFits(p, kind(p))
    BY <2>2, <2>3
  <2> HIDE DEF path, kind, below
  <2>6. values' = [p \in Paths |-> values'[p]]
    BY <2>4
  <2>7. ASSUME NEW p \in Paths
        PROVE  KindFits(p, values'[p])
    <3>1. values'[p] = IF p = path THEN "struct" ELSE IF ~below(p) THEN values[p]
                       ELSE IF complete THEN kind(p) ELSE "unset"
      BY <2>4
    <3> QED
      BY <1>1, <2>5, <3>1
  <2> QED
    BY <1>2, <2>6, <2>7
<1>7. ASSUME Next
      PROVE  KindInv'
  <2>1. CASE RefuseShape \/ RefuseTyping \/ RefuseRaw
    BY <1>4, <2>1 DEF RefuseShape, RefuseTyping, RefuseRaw
  <2>2. CASE PassShape \/ EnterBareShape \/ EnterCopyShape \/ PassTyping
    BY <1>3, <2>2 DEF PassShape, EnterBareShape, EnterCopyShape, PassTyping,
                      Advance, Descend
  <2>3. CASE EndList \/ EndWalk \/ Finished
    BY <1>3, <2>3 DEF EndList, EndWalk, Finished, vars
  <2>4. CASE AssignValue
    BY <1>4, <1>5, <2>4 DEF AssignValue
  <2>5. CASE AssignStruct
    BY <1>4, <1>6, <2>5 DEF AssignStruct
  <2>6. CASE Operate
    BY <1>3, <1>4, <2>6 DEF Operate, Advance
  <2>7. CASE EnterBare
    BY <1>3, <1>4, <1>6, <2>7 DEF EnterBare
  <2> QED
    BY <1>7, <2>1, <2>2, <2>3, <2>4, <2>5, <2>6, <2>7 DEF Next
<1> QED
  BY <1>3, <1>7 DEF vars

(* Whatever the walks leave out, a field holds a value of its own kind.    *)
THEOREM KindsAreKept == Spec => []KindsKept
<1>1. Init => KindInv
  <2> SUFFICES ASSUME Init PROVE KindInv
    OBVIOUS
  <2>1. values = [p \in Paths |-> "unset"]
    BY DEF Init
  <2>2. \A p \in Paths : values[p] = "unset"
    BY <2>1
  <2>3. values = [p \in Paths |-> values[p]]
    BY <2>1
  <2> QED
    BY <2>2, <2>3, WalkInvInit DEF KindInv, KindsKept
<1>2. KindInv /\ [Next]_vars => KindInv'
  BY KindStep
<1>3. KindInv => KindsKept
  BY DEF KindInv
<1> QED
  BY <1>1, <1>2, <1>3, PTL DEF Spec
---------------------------------------------------------------------------
(* The values of expressions: what an assignment stores.                   *)


LEMMA ProductNonzero ==
  ASSUME NEW x \in Int, NEW y \in Int, x # 0, y # 0
  PROVE  x * y \in Int /\ x * y # 0
<1>1. ASSUME NEW u \in Int, NEW w \in Int, u > 0, w > 0 PROVE u * w > 0
  BY <1>1
<1>2. (-x) * y = -(x * y) /\ x * (-y) = -(x * y) /\ (-x) * (-y) = x * y
  OBVIOUS
<1> QED
  BY <1>1, <1>2

(* | & ^ of two integers is an integer: the function of the bits exists,   *)
(* one width after the other.                                              *)
LEMMA CombinedInt ==
  ASSUME NEW a \in Int, NEW b \in Int, NEW op
  PROVE  Combined(a, op, b) \in Int
<1> DEFINE low(x, y) == CASE op = "&" -> (x % 2) * (y % 2)
                          [] op = "|" -> (x % 2) + (y % 2) - (x % 2) * (y % 2)
                          [] OTHER    -> ((x % 2) + (y % 2)) % 2
           Table == [Int \X Int -> Int]
           Body(f, w) == [p \in Int \X Int |->
                            IF w = 0 THEN -low(p[1], p[2])
                            ELSE low(p[1], p[2]) + 2 * f[w - 1][<<p[1] \div 2, p[2] \div 2>>]]
           Bits(n, f) == f \in [0 .. n -> Table] /\ \A w \in 0 .. n : f[w] = Body(f, w)
           Missing == {n \in 0 .. BitWidth : ~\E f : Bits(n, f)}
<1>w. BitWidth \in Nat
  BY TypeAssumption
<1>1. \A x, y \in Int : low(x, y) \in Int
  <2>1. \A x \in Int : x % 2 \in 0 .. 1
    OBVIOUS
  <2>2. \A u, v \in 0 .. 1 : u * v \in Int /\ (u + v) % 2 \in Int /\ u + v - u * v \in Int
    OBVIOUS
  <2> QED
    BY <2>1, <2>2
<1>2. \A p \in Int \X Int : /\ p[1] \in Int /\ p[2] \in Int
                            /\ <<p[1] \div 2, p[2] \div 2>> \in Int \X Int
  OBVIOUS
<1>3. ASSUME NEW f, NEW w, w # 0 => f[w - 1] \in Table
      PROVE  Body(f, w) \in Table
  <2> HIDE DEF low
  <2>1. CASE w = 0
    <3>1. \A p \in Int \X Int : -low(p[1], p[2]) \in Int
      BY <1>1, <1>2
    <3>2. Body(f, w) = [p \in Int \X Int |-> -low(p[1], p[2])]
      BY <2>1, Zenon
    <3> QED
      BY <3>1, <3>2
  <2>2. CASE w # 0
    <3> DEFINE g == f[w - 1]
    <3>1. g \in Table
      BY <1>3, <2>2
    <3>2. Body(f, w) = [p \in Int \X Int |->
                          low(p[1], p[2]) + 2 * g[<<p[1] \div 2, p[2] \div 2>>]]
      BY <2>2, Zenon
    <3> HIDE DEF g, Body
    <3>3. \A p \in Int \X Int : g[<<p[1] \div 2, p[2] \div 2>>] \in Int
      BY <3>1, <1>2
    <3>4. ASSUME NEW p \in Int \X Int
          PROVE  low(p[1], p[2]) + 2 * g[<<p[1] \div 2, p[2] \div 2>>] \in Int
      <4>1. low(p[1], p[2]) \in Int /\ g[<<p[1] \div 2, p[2] \div 2>>] \in Int
        BY <3>3, <1>1, <1>2
      <4> QED
        BY <4>1
    <3> QED
      BY <3>2, <3>4
  <2> QED
    BY <2>1, <2>2
<1>4. ASSUME NEW f, NEW g, NEW w, w # 0 => f[w - 1] = g[w - 1]
      PROVE  Body(f, w) = Body(g, w)
  <2> HIDE DEF low
  <2>1. CASE w = 0
    BY <2>1, Zenon
  <2>2. CASE w # 0
    BY <2>2, <1>4, Zenon
  <2> QED
    BY <2>1, <2>2
<1> HIDE DEF Table, Body
<1>5. Missing = {}
  <2> SUFFICES ASSUME Missing # {} PROVE FALSE
    OBVIOUS
  <2>1. PICK n \in Missing : \A k \in Missing : n <= k
    <3>1. Missing \in SUBSET Nat
      BY <1>w
    <3> HIDE DEF Missing
    <3> QED
      BY <3>1, NatMin
  <2>2. n \in 0 .. BitWidth /\ n \in Nat
    BY <1>w
  <2>3. PICK g : \A w \in 0 .. n - 1 : g[w] \in Table /\ g[w] = Body(g, w)
    <3>1. CASE n = 0
      BY <3>1
    <3>2. CASE n # 0
      <4>1. n - 1 \in 0 .. BitWidth /\ ~(n <= n - 1)
        BY <1>w, <2>2, <3>2
      <4>2. PICK g : Bits(n - 1, g)
        BY <2>1, <4>1
      <4> QED
        BY <4>2
    <3> QED
      BY <3>1, <3>2
  <2> DEFINE f == [w \in 0 .. n |-> IF w = n THEN Body(g, n) ELSE g[w]]
  <2>4. ASSUME NEW w \in 0 .. n
        PROVE  f[w] \in Table /\ f[w] = Body(f, w)
    <3>1. w # 0 => w - 1 \in 0 .. n - 1 /\ w - 1 \in 0 .. n /\ w - 1 # n
      BY <2>2
    <3>2. w # 0 => f[w - 1] = g[w - 1] /\ g[w - 1] \in Table
      BY <2>3, <3>1
    <3>3. f[w] = IF w = n THEN Body(g, n) ELSE g[w]
      OBVIOUS
    <3>6. w # n => w \in 0 .. n - 1
      BY <2>2
    <3> HIDE DEF f
    <3>4. Body(f, w) = Body(g, w) /\ Body(g, w) \in Table
      BY <1>3, <1>4, <3>2
    <3> QED
      BY <2>3, <3>3, <3>4, <3>6
  <2>5. f \in [0 .. n -> Table]
    <3>1. f = [w \in 0 .. n |-> f[w]]
      OBVIOUS
    <3> HIDE DEF f
    <3> QED
      BY <2>4, <3>1
  <2>6. Bits(n, f)
    BY <2>4, <2>5
  <2> HIDE DEF f, Bits
  <2> QED
    BY <2>1, <2>6
<1>6. PICK f : Bits(BitWidth, f)
  <2>1. BitWidth \in 0 .. BitWidth
    BY <1>w
  <2> QED
    BY <1>5, <2>1
<1> DEFINE bits == CHOOSE g : g = [w \in 0 .. BitWidth |-> Body(g, w)]
<1>7. f = [w \in 0 .. BitWidth |-> Body(f, w)]
  BY <1>6
<1>8. bits = [w \in 0 .. BitWidth |-> Body(bits, w)]
  BY <1>7, Zenon
<1>9. ASSUME NEW w \in 0 .. BitWidth PROVE bits[w] = f[w]
  <2> SUFFICES ASSUME bits[w] # f[w] PROVE FALSE
    OBVIOUS
  <2> DEFINE Differ == {k \in 0 .. BitWidth : bits[k] # f[k]}
  <2>1. Differ \in SUBSET Nat /\ Differ # {}
    <3>1. w \in Differ
      OBVIOUS
    <3>2. \A k \in 0 .. BitWidth : k \in Nat
      BY <1>w
    <3> QED
      BY <3>1, <3>2
  <2> HIDE DEF Differ
  <2>2. PICK n \in Differ : \A k \in Differ : n <= k
    BY <2>1, NatMin
  <2>3. n \in 0 .. BitWidth /\ n \in Nat /\ bits[n] # f[n]
    BY <1>w DEF Differ
  <2>4. n # 0 => n - 1 \in 0 .. BitWidth /\ ~(n <= n - 1)
    BY <1>w, <2>3
  <2>5. n # 0 => bits[n - 1] = f[n - 1]
    BY <2>2, <2>4 DEF Differ
  <2>6. Body(bits, n) = Body(f, n)
    BY <1>4, <2>5
  <2>7. bits[n] = Body(bits, n) /\ f[n] = Body(f, n)
    <3> HIDE DEF bits
    <3> QED
      BY <2>3, <1>7, <1>8
  <2> QED
    BY <2>3, <2>6, <2>7
<1>10. bits[BitWidth] \in Table
  <2> HIDE DEF bits
  <2> QED
    BY <1>6, <1>9, <1>w
<1>11. Combined(a, op, b) = bits[BitWidth][<<a, b>>]
  BY Zenon DEF Combined, Body
<1> HIDE DEF bits
<1> QED
  BY <1>10, <1>11 DEF Table

-----------------------------------------------------------------------------
LEMMA NumberSound ==
  /\ \A v \in Number : v.k = "num" /\ v.n \in Int /\ v.d \in Nat /\ v.d # 0
                        /\ v.float \in BOOLEAN /\ (~v.float => v.d = 1)
  /\ \A n \in Int : Int_(n) \in Number /\ Int_(n).k = "num"
  /\ \A n \in Int, d \in Int : d # 0 => Fraction(n, d) \in Number /\ Fraction(n, d).k = "num"
<1>1. \A v \in Number : v.k = "num" /\ v.n \in Int /\ v.d \in Nat /\ v.d # 0
                        /\ v.float \in BOOLEAN /\ (~v.float => v.d = 1)
  <2> TAKE v \in Number
  <2>1. CASE v \in [k : {"num"}, n : Int, d : {1}, float : {FALSE}]
    <3>1. v.k = "num" /\ v.n \in Int /\ v.d = 1 /\ v.float \in {FALSE}
      BY <2>1
    <3>2. v.float = FALSE
      BY <3>1, Zenon
    <3>3. v.d \in Nat /\ v.d # 0
      BY <3>1
    <3> QED
      BY <3>1, <3>2, <3>3, Zenon
  <2>2. CASE v \in [k : {"num"}, n : Int, d : Nat \ {0}, float : {TRUE}]
    <3>1. v.k = "num" /\ v.n \in Int /\ v.d \in Nat /\ v.d # 0 /\ v.float \in {TRUE}
      BY <2>2
    <3>2. v.float = TRUE
      BY <3>1, Zenon
    <3> QED
      BY <3>1, <3>2
  <2> QED
    BY <2>1, <2>2 DEF Number
<1>2. \A n \in Int : Int_(n) \in Number /\ Int_(n).k = "num"
  BY DEF Number, Int_
<1>3. \A n \in Int, d \in Int : d # 0 => Fraction(n, d) \in Number /\ Fraction(n, d).k = "num"
  <2> TAKE n \in Int, d \in Int
  <2> HAVE d # 0
  <2>1. (IF d < 0 THEN -n ELSE n) \in Int /\ (IF d < 0 THEN -d ELSE d) \in Nat \ {0}
    OBVIOUS
  <2> QED
    BY <2>1 DEF Number, Fraction
<1> QED
  BY <1>1, <1>2, <1>3

(* What a binary and a unary operator give is a number, if their operands  *)
(* are values.                                                             *)
LEMMA BinopSound ==
  ASSUME NEW a, NEW b, NEW op, NEW flags, Sound(a), Sound(b),
         ApplyBinop(a, op, b, flags).out = "ok"
  PROVE  ApplyBinop(a, op, b, flags).v \in Number
<1> DEFINE r == ApplyBinop(a, op, b, flags)
<1>1. op \in Operators /\ a \in Number /\ b \in Number
  BY Zenon DEF ApplyBinop, Fails, Sound, IsNum, Operators, Arithmetic, Bitwise_
<1>2. /\ a.n \in Int /\ a.d \in Nat /\ a.d # 0 /\ b.n \in Int /\ b.d \in Nat /\ b.d # 0
  BY <1>1, NumberSound
<1>3. a.n * b.d \in Int /\ b.n * a.d \in Int /\ a.n * b.n \in Int /\ a.d * b.d \in Int
      /\ a.d * b.d # 0 /\ (b.n # 0 => a.d * b.n # 0) /\ a.d * b.n \in Int
  BY <1>2, ProductNonzero
<1>4. CASE op \in Bitwise_
  <2>1. r = Yields(Int_(Combined(a.n, op, b.n))) \/ r = Fails
    <3>1. op # "/"
      BY <1>4 DEF Bitwise_
    <3> QED
      BY <1>4, <3>1, Zenon DEF ApplyBinop
  <2>2. Combined(a.n, op, b.n) \in Int
    BY <1>2, CombinedInt
  <2> QED
    BY <2>1, <2>2, NumberSound DEF Fails, Yields
<1>5. CASE op \notin Bitwise_ /\ op = "/"
  <2>1. r = Fails \/ r = Raises \/ (b.n # 0 /\ r = Yields(Fraction(a.n * b.d, a.d * b.n)))
    BY <1>5, Zenon DEF ApplyBinop
  <2> QED
    BY <2>1, <1>3, NumberSound DEF Fails, Yields, Raises
<1>6. CASE op \notin Bitwise_ /\ op # "/"
  <2> DEFINE n == CASE op = "+" -> a.n * b.d + b.n * a.d
                    [] op = "-" -> a.n * b.d - b.n * a.d
                    [] op = "*" -> a.n * b.n
  <2>1. op \in {"+", "-", "*"}
    BY <1>1, <1>6 DEF Operators, Arithmetic
  <2>2. n \in Int
    BY <2>1, <1>3
  <2>3. r = Fails \/ r = Yields(IF IsInt(a) /\ IsInt(b) THEN Int_(n) ELSE Fraction(n, a.d * b.d))
    BY <1>6, Zenon DEF ApplyBinop
  <2> HIDE DEF n
  <2>4. Int_(n) \in Number /\ Fraction(n, a.d * b.d) \in Number
    BY <2>2, <1>3, NumberSound
  <2> QED
    BY <2>3, <2>4 DEF Fails, Yields
<1> QED
  BY <1>4, <1>5, <1>6

LEMMA SignSound ==
  ASSUME NEW v, NEW op, Sound(v), ApplySign(op, v).out = "ok"
  PROVE  ApplySign(op, v).v \in Number
<1>1. v \in Number
  BY DEF ApplySign, Fails, Sound, IsNum, IsInt
<1>2. ASSUME NEW n \in Int PROVE [v EXCEPT !.n = n] \in Number
  <2>1. CASE v \in [k : {"num"}, n : Int, d : {1}, float : {FALSE}]
    <3>1. [v EXCEPT !.n = n] \in [k : {"num"}, n : Int, d : {1}, float : {FALSE}]
      BY <2>1
    <3> QED
      BY <3>1 DEF Number
  <2>2. CASE v \in [k : {"num"}, n : Int, d : Nat \ {0}, float : {TRUE}]
    <3>1. [v EXCEPT !.n = n] \in [k : {"num"}, n : Int, d : Nat \ {0}, float : {TRUE}]
      BY <2>2
    <3> QED
      BY <3>1 DEF Number
  <2> QED
    BY <1>1, <2>1, <2>2 DEF Number
<1>3. v.n \in Int /\ -v.n \in Int /\ -v.n - 1 \in Int
  BY <1>1, NumberSound
<1>4. /\ [v EXCEPT !.n = -@ - 1] \in Number
      /\ [v EXCEPT !.n = -@] \in Number
  BY <1>2, <1>3
<1> QED
  BY <1>1, <1>4 DEF ApplySign, Fails, Yields

LEMMA NumbersSound ==
  ASSUME NEW v \in Number
  PROVE  Sound(v)
<1>1. v.k = "num"
  BY NumberSound
<1> QED
  BY <1>1 DEF Sound

LEMMA UninitSound == Sound(Uninit)
BY DEF Sound, Uninit

(* A value that a field of a type takes is one the type allows.            *)
LEMMA StorableHolds ==
  ASSUME NEW v, NEW type, Sound(v),
         \/ Scalar(type)
         \/ type.kind = "flags" /\ type.lo \in Int /\ type.hi \in Int
         \/ type.kind = "ident",
         Storable(v, type).out = "ok"
  PROVE  Holds(Storable(v, type).v, type) /\ Sound(Storable(v, type).v)
<1> DEFINE r == Storable(v, type)
<1>1. CASE type.kind = "ident"
  <2>1. v.k = "member" /\ v.domain = type.domain /\ r.v = v
    BY <1>1 DEF Storable, Fails, Yields
  <2> QED
    BY <1>1, <2>1 DEF Holds, Sound, IsIntType
<1>2. CASE type.kind # "ident" /\ v.k = "text"
  <2>1. r = CheckStringLength(v, type)
    BY <1>2 DEF Storable
  <2>2. r.v = v /\ (type.kind = "string" => ~(v.bytes > type.size - 1))
    BY <2>1 DEF CheckStringLength, Fails, Yields
  <2>3. v.bytes \in Nat /\ (type.kind = "string" => type.size \in Nat)
    BY <1>2 DEF Sound, Scalar
  <2>4. type.kind = "string" => v.bytes < type.size
    BY <2>2, <2>3
  <2> QED
    BY <1>2, <2>2, <2>4 DEF Holds
<1>3. CASE type.kind # "ident" /\ v.k = "num"
  <2>1. r = CoerceNumeric(v, type)
    BY <1>3 DEF Storable
  <2>2. v \in Number
    BY <1>3 DEF Sound
  <2>3. v.n \in Int /\ v.d \in Nat /\ v.d # 0
    BY <2>2, NumberSound
  <2>4. CASE type.kind = "float"
    <3>1. r.v = Fraction(v.n, v.d) /\ InFloat(v)
      BY <2>1, <2>4 DEF CoerceNumeric, IsIntType, Fails, Yields
    <3>2. Fraction(v.n, v.d) = [k |-> "num", n |-> v.n, d |-> v.d, float |-> TRUE]
      <4>1. ~(v.d < 0)
        BY <2>3
      <4> QED
        BY <4>1, Zenon DEF Fraction
    <3>3. r.v \in Number
      BY <3>1, <2>3, NumberSound
    <3>4. r.v.float /\ InFloat(r.v)
      BY <3>1, <3>2 DEF InFloat
    <3> QED
      BY <2>4, <3>3, <3>4, NumbersSound, NumberSound DEF Holds, IsIntType
  <2>5. CASE IsIntType(type)
    <3>1. type.kind # "float"
      BY <2>5 DEF IsIntType
    <3>2. v.n \div v.d \in type.lo .. type.hi /\ r.v = Int_(v.n \div v.d)
      BY <2>1, <2>5, <3>1 DEF CoerceNumeric, Fails, Yields
    <3>3. v.n \div v.d \in Int
      BY <2>3
    <3> QED
      BY <3>1, <3>2, <3>3, <2>5, <1>3, NumberSound, NumbersSound DEF Holds, Int_, IsIntType
  <2>6. CASE type.kind # "float" /\ ~IsIntType(type)
    <3>1. r.v = v
      BY <2>1, <2>6 DEF CoerceNumeric, Yields
    <3> QED
      BY <3>1, <2>6, <1>3 DEF Holds
  <2> QED
    BY <2>4, <2>5, <2>6
<1>4. CASE type.kind # "ident" /\ v.k # "num" /\ v.k # "text"
  <2>1. r.v = v
    BY <1>4 DEF Storable, Yields
  <2> QED
    BY <2>1, <1>4 DEF Holds
<1> QED
  BY <1>1, <1>2, <1>3, <1>4

(* So is a quoted string.                                                  *)
LEMMA TextHolds ==
  ASSUME NEW bytes \in Nat, NEW type, type.kind # "ident",
         type.kind = "string" => type.size \in Nat,
         CheckStringLength(String_(bytes), type).out = "ok"
  PROVE  /\ CheckStringLength(String_(bytes), type).v = String_(bytes)
         /\ Holds(String_(bytes), type) /\ Sound(String_(bytes))
<1>1. /\ CheckStringLength(String_(bytes), type).v = String_(bytes)
      /\ type.kind = "string" => ~(bytes > type.size - 1)
  BY DEF CheckStringLength, String_, Fails, Yields
<1>2. String_(bytes).k = "text" /\ String_(bytes).bytes = bytes
  BY DEF String_
<1> QED
  BY <1>1, <1>2 DEF Holds, Sound

-----------------------------------------------------------------------------
(* Sequences of whatever they hold. *)
IsSeq(s) == s \in Seq(ToSet(s))

LEMMA SeqIsSeq ==
  ASSUME NEW S, NEW s \in Seq(S)
  PROVE  IsSeq(s)
<1>1. \A i \in 1 .. Len(s) : s[i] \in ToSet(s)
  BY DEF ToSet
<1>2. s \in Seq(ToSet(s))
  BY <1>1
<1> QED
  BY <1>2 DEF IsSeq

LEMMA SeqFacts ==
  ASSUME NEW s, IsSeq(s)
  PROVE  Len(s) \in Nat /\ DOMAIN s = 1 .. Len(s) /\ (s # << >> <=> Len(s) # 0)
BY DEF IsSeq

LEMMA SeqAppend ==
  ASSUME NEW s, IsSeq(s), NEW e
  PROVE  /\ IsSeq(Append(s, e)) /\ Len(Append(s, e)) = Len(s) + 1
         /\ \A i \in 1 .. Len(s) : Append(s, e)[i] = s[i]
         /\ Append(s, e)[Len(s) + 1] = e
<1> DEFINE S == ToSet(s) \cup {e}
<1>1. s \in Seq(S)
  BY DEF IsSeq
<1> HIDE DEF S
<1>2. e \in S
  BY DEF S
<1>3. /\ Append(s, e) \in Seq(S) /\ Len(Append(s, e)) = Len(s) + 1
      /\ \A i \in 1 .. Len(s) : Append(s, e)[i] = s[i]
      /\ Append(s, e)[Len(s) + 1] = e
  BY <1>1, <1>2, AppendProperties
<1> QED
  BY <1>3, SeqIsSeq

LEMMA SeqFront ==
  ASSUME NEW s, IsSeq(s), s # << >>
  PROVE  /\ IsSeq(Front(s)) /\ Len(Front(s)) = Len(s) - 1
         /\ \A i \in 1 .. Len(s) - 1 : Front(s)[i] = s[i]
         /\ Len(s) \in Nat /\ Len(s) >= 1
<1>1. s \in Seq(ToSet(s))
  BY DEF IsSeq
<1>2. Front(s) = SubSeq(s, 1, Len(s) - 1)
  BY DEF Front
<1>3. /\ SubSeq(s, 1, Len(s) - 1) \in Seq(ToSet(s))
      /\ Len(SubSeq(s, 1, Len(s) - 1)) = Len(s) - 1
      /\ \A k \in 1 .. Len(s) - 1 : SubSeq(s, 1, Len(s) - 1)[k] = s[k]
  BY <1>1, FrontFacts
<1>4. IsSeq(SubSeq(s, 1, Len(s) - 1))
  BY <1>3, SeqIsSeq
<1>5. Len(s) \in Nat /\ Len(s) >= 1
  BY <1>1
<1> QED
  BY <1>2, <1>3, <1>4, <1>5

LEMMA SeqTail ==
  ASSUME NEW s, IsSeq(s), s # << >>
  PROVE  /\ IsSeq(Tail(s)) /\ Len(Tail(s)) = Len(s) - 1
         /\ \A i \in 1 .. Len(s) - 1 : Tail(s)[i] = s[i + 1]
         /\ Head(s) = s[1] /\ 1 \in DOMAIN s /\ Tail(s) # s
<1>1. s \in Seq(ToSet(s))
  BY DEF IsSeq
<1>2. Tail(s) \in Seq(ToSet(s)) /\ Len(Tail(s)) = Len(s) - 1
      /\ \A i \in 1 .. Len(s) - 1 : Tail(s)[i] = s[i + 1]
  BY <1>1
<1>3. Head(s) = s[1] /\ 1 \in DOMAIN s /\ Len(s) \in Nat
  BY <1>1
<1>4. Tail(s) # s
  <2>1. Len(s) - 1 # Len(s)
    BY <1>3
  <2> QED
    BY <1>2, <2>1, Zenon
<1> QED
  BY <1>2, <1>3, <1>4, SeqIsSeq

-----------------------------------------------------------------------------
(* The state of the machine: values are sound, a statement in hand is one  *)
(* of the body, and in an array literal the way to the part has been       *)
(* checked against the dimensions.                                         *)
ScopeOk(source) ==
  /\ \A f \in DOMAIN Type : <<f>> \in DOMAIN source /\ Fits(source[<<f>>], Type[f])
  /\ \A path \in DOMAIN source : Sound(source[path])
  /\ \A f \in DOMAIN Type :
       Type[f].kind = "array" /\ source[<<f>>] # Uninit =>
         \A p \in DOMAIN source[<<f>>].cells : Sound(source[<<f>>].cells[p])

StatementOk(s) ==
  /\ s.form \in Operators \cup {"assign"}
  /\ s.field \in DOMAIN Type /\ Type[s.field].kind # "struct"
  /\ s.index \in {<< >>} \cup [{1} -> Nat]
  /\ Split(s.rhs)

TodoOk ==
  /\ IsSeq(todo) /\ \A i \in DOMAIN todo : StatementOk(todo[i])
  /\ step \in {"next", "operand", "value", "part"}
  /\ step # "next" => todo # << >>

CallsOk ==
  /\ IsSeq(calls) /\ Sound(value)
  /\ \A i \in DOMAIN calls : /\ calls[i].call \in {"sign", "paren", "right"}
                             /\ Sound(calls[i].v)

TokensOk ==
  /\ IsSeq(tokens) /\ pos \in Nat \ {0}
  /\ \A i \in DOMAIN tokens : WellFormed(tokens[i])

PlaceOk ==
  /\ step \in {"operand", "value"} /\ at = << >> =>
       IF Plain THEN Goal.kind # "array" ELSE Indexed
  /\ step = "part" => at # << >>
  /\ at # << >> => step # "next" /\ This.form = "assign" /\ Plain /\ Goal.kind = "array"

AtOk ==
  at # << >> =>
    /\ at \in Seq(Nat \ {0}) /\ Len(at) <= Len(Goal.dims)
    /\ \A i \in 1 .. Len(at) - 1 : at[i] <= Goal.dims[i]
    /\ at[Len(at)] <= Goal.dims[Len(at)] + 1
    /\ step # "part" => Len(at) = Len(Goal.dims) /\ at[Len(at)] <= Goal.dims[Len(at)]
    /\ \A l \in 1 .. Len(at) : Within(Base \o SubSeq(at, 1, l - 1)) = 1 .. Goal.dims[l]

CellsOk ==
  at # << >> =>
    /\ DOMAIN cells = Positions(Goal.dims)
    /\ \A p \in DOMAIN cells : Holds(cells[p], Goal.elem) /\ Sound(cells[p])

ExprInv ==
  /\ ScopeOk(scope) /\ TodoOk /\ CallsOk /\ TokensOk
  /\ PlaceOk /\ AtOk /\ CellsOk

LEMMA ExprInitInv == ExprInit => ExprInv
<1> SUFFICES ASSUME ExprInit PROVE ExprInv
  OBVIOUS
<1>1. ScopeOk(scope)
  BY SourcesAssumption DEF ExprInit, ScopeOk
<1>2. TodoOk
  BY ListsAssumption DEF ExprInit, TodoOk, StatementOk, IsSeq
<1>3. IsSeq(<< >>)
  BY DEF IsSeq
<1>4. CallsOk /\ TokensOk
  BY <1>3, UninitSound DEF ExprInit, CallsOk, TokensOk
<1>5. PlaceOk /\ AtOk /\ CellsOk
  BY DEF ExprInit, PlaceOk, AtOk, CellsOk
<1> QED
  BY <1>1, <1>2, <1>4, <1>5 DEF ExprInv

(* An exception leaves all of it as it is. *)
LEMMA StopInv ==
  ASSUME ExprInv, NEW out, Stop(out)
  PROVE  ExprInv'
BY DEF ExprInv, Stop, ScopeOk, TodoOk, CallsOk, TokensOk, PlaceOk, AtOk, CellsOk,
       This, Goal, Plain, Indexed, Within, Base, Braced, IsSingleBraceGroup

(* The statement in hand and its target. *)
LEMMA ThisOk ==
  ASSUME ExprInv, todo # << >>
  PROVE  /\ This \in ToSet(todo) /\ StatementOk(This) /\ Goal = Type[This.field]
         /\ Goal.kind = "array" =>
              Scalar(Goal.elem) /\ Goal.dims \in Seq(Nat \ {0}) /\ Len(Goal.dims) >= 1
         /\ Target.kind # "array" => \/ Scalar(Target)
                                     \/ /\ Target.kind = "flags"
                                        /\ Target.lo \in Int /\ Target.hi \in Int
                                     \/ Target.kind = "ident"
         /\ Goal.kind = "array" => Target = Goal.elem /\ Target.kind \notin {"array", "ident"}
         /\ Goal.kind # "array" => Target = Goal
<1>1. 1 \in DOMAIN todo /\ This = todo[1]
  BY SeqTail DEF ExprInv, TodoOk, This
<1>2. This \in ToSet(todo) /\ StatementOk(This)
  BY <1>1 DEF ExprInv, TodoOk, ToSet
<1>3. Goal = Type[This.field] /\ This.field \in DOMAIN Type /\ Goal.kind # "struct"
  BY <1>2 DEF Goal, StatementOk
<1>4. \/ Scalar(Goal)
      \/ Goal.kind = "flags" /\ Goal.lo \in Int /\ Goal.hi \in Int
      \/ Goal.kind = "ident"
      \/ /\ Goal.kind = "array" /\ Scalar(Goal.elem)
         /\ Goal.dims \in Seq(Nat \ {0}) /\ Goal.dims # << >>
  BY <1>3, TypeAssumption
<1>5. CASE Goal.kind = "array"
  <2>1. Scalar(Goal.elem) /\ Goal.dims \in Seq(Nat \ {0}) /\ Goal.dims # << >>
    BY <1>4, <1>5 DEF Scalar
  <2>2. Len(Goal.dims) >= 1
    BY <2>1
  <2>3. Target = Goal.elem /\ Target.kind \notin {"array", "ident"}
    BY <1>5, <2>1 DEF Target, Scalar
  <2> QED
    BY <1>2, <1>3, <1>5, <2>1, <2>2, <2>3
<1>6. CASE Goal.kind # "array"
  <2>1. Target = Goal
    BY <1>6 DEF Target
  <2> QED
    BY <1>2, <1>3, <1>4, <1>6, <2>1
<1> QED
  BY <1>5, <1>6

(* The positions of an array. *)
LEMMA PositionFacts ==
  ASSUME NEW dims \in Seq(Nat \ {0})
  PROVE  /\ \A p \in Positions(dims) : /\ p \in Seq(Nat \ {0}) /\ Len(p) = Len(dims)
                                       /\ \A i \in 1 .. Len(dims) : p[i] <= dims[i]
         /\ \A p \in Seq(Nat \ {0}) :
              Len(p) = Len(dims) /\ (\A i \in 1 .. Len(dims) : p[i] <= dims[i])
                => p \in Positions(dims)
<1> DEFINE n == Len(dims)
           Most == UNION {1 .. dims[i] : i \in DOMAIN dims}
<1>1. n \in Nat /\ DOMAIN dims = 1 .. n /\ \A i \in 1 .. n : dims[i] \in Nat \ {0}
  OBVIOUS
<1>2. Most \subseteq Nat \ {0}
  BY <1>1
<1>3. ASSUME NEW p \in Positions(dims)
      PROVE  /\ p \in Seq(Nat \ {0}) /\ Len(p) = n
             /\ \A i \in 1 .. n : p[i] <= dims[i]
  <2>1. p \in [1 .. n -> Most] /\ \A i \in 1 .. n : p[i] <= dims[i]
    BY <1>1 DEF Positions
  <2> HIDE DEF Most, n
  <2>2. p \in [1 .. n -> Nat \ {0}]
    BY <2>1, <1>2
  <2>3. p \in Seq(Nat \ {0}) /\ Len(p) = n
    BY <2>2, <1>1
  <2> QED
    BY <2>1, <2>3
<1>4. ASSUME NEW p \in Seq(Nat \ {0}), Len(p) = n, \A i \in 1 .. n : p[i] <= dims[i]
      PROVE  p \in Positions(dims)
  <2>1. \A i \in 1 .. n : p[i] \in 1 .. dims[i]
    BY <1>1, <1>4
  <2>2. \A i \in 1 .. n : p[i] \in Most
    BY <2>1, <1>1
  <2> HIDE DEF Most
  <2>3. p \in [1 .. n -> Most]
    BY <2>2, <1>4
  <2> QED
    BY <2>3, <1>1, <1>4 DEF Positions, Most
<1> QED
  BY <1>3, <1>4

LEMMA IndexPosition ==
  ASSUME ExprInv, todo # << >>, ~Plain, Indexed
  PROVE  /\ <<This.index[1] + 1>> \in Positions(Goal.dims)
         /\ scope[<<This.field>>] # Uninit /\ Goal.kind = "array"
         /\ This.field \in DOMAIN Type
<1> DEFINE p == <<This.index[1] + 1>>
<1>1. Goal.kind = "array" /\ Len(Goal.dims) = 1 /\ scope[<<This.field>>] # Uninit
      /\ This.index[1] < Goal.dims[1]
  BY DEF Indexed
<1>2. Goal.dims \in Seq(Nat \ {0}) /\ StatementOk(This)
  BY <1>1, ThisOk
<1>3. This.index[1] \in Nat
  BY <1>2 DEF StatementOk, Plain
<1>4. p \in Seq(Nat \ {0}) /\ Len(p) = 1 /\ p[1] = This.index[1] + 1
  BY <1>3
<1>5. Goal.dims[1] \in Nat
  BY <1>1, <1>2
<1>6. \A i \in 1 .. Len(Goal.dims) : p[i] <= Goal.dims[i]
  <2>1. p[1] <= Goal.dims[1]
    BY <1>1, <1>3, <1>4, <1>5
  <2> QED
    BY <2>1, <1>1
<1>7. p \in Positions(Goal.dims)
  <2> HIDE DEF p
  <2> QED
    BY <1>1, <1>2, <1>4, <1>6, PositionFacts
<1> QED
  BY <1>1, <1>2, <1>7 DEF StatementOk

(* What is stored is allowed by the field's type. *)
LEMMA StoreScope ==
  ASSUME ExprInv, todo # << >>, NEW v, Sound(v),
         Plain /\ Goal.kind # "array" => Holds(v, Goal),
         Plain /\ Goal.kind = "array" =>
           Fits(v, Goal) /\ (v # Uninit => \A p \in DOMAIN v.cells : Sound(v.cells[p])),
         ~Plain => Indexed /\ Holds(v, Goal.elem),
         NEW new, new = [scope EXCEPT ![<<This.field>>] =
                 IF Plain THEN v ELSE [@ EXCEPT !.cells[<<This.index[1] + 1>>] = v]]
  PROVE  ScopeOk(new) /\ (Plain => new[<<This.field>>] = v)
         /\ (~Plain => new[<<This.field>>].cells[<<This.index[1] + 1>>] = v)
<1> DEFINE f == This.field
           a == scope[<<f>>]
           p == <<This.index[1] + 1>>
<1>1. f \in DOMAIN Type /\ Goal = Type[f] /\ ScopeOk(scope) /\ Goal.kind # "struct"
  BY ThisOk DEF ExprInv, StatementOk, Goal
<1>2. <<f>> \in DOMAIN scope /\ Fits(a, Goal)
  BY <1>1 DEF ScopeOk
<1> DEFINE w == IF Plain THEN v ELSE [a EXCEPT !.cells[p] = v]
<1>3. /\ DOMAIN new = DOMAIN scope /\ new[<<f>>] = w
      /\ \A path \in DOMAIN scope : path # <<f>> => new[path] = scope[path]
  BY <1>2
<1>4. /\ Fits(w, Goal) /\ Sound(w)
      /\ Goal.kind = "array" /\ w # Uninit => \A q \in DOMAIN w.cells : Sound(w.cells[q])
      /\ Plain => w = v
      /\ ~Plain => w.cells[p] = v
  <2>1. CASE Plain
    <3>1. w = v
      BY <2>1
    <3> QED
      BY <2>1, <3>1, <1>1 DEF Fits
  <2>2. CASE ~Plain
    <3>1. Goal.kind = "array" /\ a # Uninit /\ p \in Positions(Goal.dims)
      BY <2>2, IndexPosition
    <3>2. /\ a = [k |-> "array", cells |-> a.cells] /\ DOMAIN a.cells = Positions(Goal.dims)
          /\ \A q \in DOMAIN a.cells : Holds(a.cells[q], Goal.elem) /\ Sound(a.cells[q])
      BY <1>1, <1>2, <3>1 DEF Fits, ScopeOk
    <3> DEFINE c == [a.cells EXCEPT ![p] = v]
    <3>3. w = [k |-> "array", cells |-> c]
      <4>1. w = [a EXCEPT !.cells[p] = v]
        BY <2>2
      <4> HIDE DEF w, a, p
      <4> QED
        BY <3>2, <4>1
    <3>4. /\ DOMAIN c = Positions(Goal.dims) /\ c[p] = v
          /\ \A q \in DOMAIN c : c[q] = v \/ c[q] = a.cells[q]
      BY <3>1, <3>2
    <3>5. \A q \in DOMAIN c : Holds(c[q], Goal.elem) /\ Sound(c[q])
      <4> HIDE DEF c, a
      <4> QED
        BY <2>2, <3>2, <3>4
    <3> HIDE DEF c, w
    <3>6. w.k = "array" /\ w.cells = c
      BY <3>3
    <3>7. Sound(w)
      BY <3>6 DEF Sound
    <3> QED
      BY <2>2, <3>1, <3>3, <3>4, <3>5, <3>6, <3>7 DEF Fits
  <2> QED
    BY <2>1, <2>2
<1> HIDE DEF w, a
<1>5. \A path \in DOMAIN scope : Sound(new[path])
  BY <1>1, <1>3, <1>4 DEF ScopeOk
<1>6. ASSUME NEW g \in DOMAIN Type
      PROVE  /\ <<g>> \in DOMAIN new /\ Fits(new[<<g>>], Type[g])
             /\ Type[g].kind = "array" /\ new[<<g>>] # Uninit =>
                  \A q \in DOMAIN new[<<g>>].cells : Sound(new[<<g>>].cells[q])
  <2>1. CASE g = f
    BY <2>1, <1>1, <1>2, <1>3, <1>4
  <2>2. CASE g # f
    <3>1. <<g>> # <<f>> /\ <<g>> \in DOMAIN scope
      BY <2>2, <1>1 DEF ScopeOk
    <3>2. new[<<g>>] = scope[<<g>>]
      BY <3>1, <1>3
    <3> QED
      BY <3>1, <3>2, <1>1, <1>3 DEF ScopeOk
  <2> QED
    BY <2>1, <2>2
<1>7. ScopeOk(new)
  BY <1>3, <1>5, <1>6 DEF ScopeOk
<1> QED
  BY <1>3, <1>4, <1>7

LEMMA StoreInv ==
  ASSUME ExprInv, todo # << >>, NEW v, Sound(v), Store(v),
         Plain /\ Goal.kind # "array" => Holds(v, Goal),
         Plain /\ Goal.kind = "array" =>
           Fits(v, Goal) /\ (v # Uninit => \A p \in DOMAIN v.cells : Sound(v.cells[p])),
         ~Plain => Indexed /\ Holds(v, Goal.elem)
  PROVE  ExprInv'
<1>1. ScopeOk(scope')
  BY StoreScope DEF Store
<1>2. /\ todo' = Tail(todo) /\ step' = "next" /\ tokens' = << >> /\ pos' = 1
      /\ calls' = << >> /\ value' = Uninit /\ at' = << >> /\ cells' = << >>
  BY DEF Store
<1>3. /\ IsSeq(Tail(todo)) /\ Len(Tail(todo)) = Len(todo) - 1
      /\ \A i \in 1 .. Len(todo) - 1 : Tail(todo)[i] = todo[i + 1]
      /\ IsSeq(todo) /\ \A i \in DOMAIN todo : StatementOk(todo[i])
  BY SeqTail DEF ExprInv, TodoOk
<1>4. \A i \in DOMAIN Tail(todo) : StatementOk(Tail(todo)[i])
  <2>1. Len(todo) \in Nat /\ DOMAIN todo = 1 .. Len(todo)
        /\ DOMAIN Tail(todo) = 1 .. Len(todo) - 1
    BY <1>3, SeqFacts
  <2>2. \A i \in 1 .. Len(todo) - 1 : i + 1 \in 1 .. Len(todo)
    BY <2>1
  <2> QED
    BY <1>3, <2>1, <2>2
<1>5. TodoOk'
  BY <1>2, <1>3, <1>4 DEF TodoOk
<1>6. IsSeq(<< >>)
  BY DEF IsSeq
<1>7. CallsOk' /\ TokensOk'
  BY <1>2, <1>6, UninitSound DEF CallsOk, TokensOk
<1>8. PlaceOk' /\ AtOk' /\ CellsOk'
  BY <1>2 DEF PlaceOk, AtOk, CellsOk
<1> QED
  BY <1>1, <1>5, <1>7, <1>8 DEF ExprInv

(* The same statement stays in hand. *)
LEMMA SameStatement ==
  ASSUME todo' = todo
  PROVE  /\ This' = This /\ Goal' = Goal /\ Plain' = Plain /\ Target' = Target
         /\ Base' = Base /\ IsFlags' = IsFlags
         /\ scope' = scope => Indexed' = Indexed
         /\ \A p : Within(p)' = Within(p)
<1>1. This' = This
  BY DEF This
<1>2. Goal' = Goal /\ Plain' = Plain /\ \A p : Within(p)' = Within(p)
  BY <1>1 DEF Goal, Plain, Within
<1>3. Base' = Base
  <2>1. IsSingleBraceGroup(<< 1 >>)' <=> IsSingleBraceGroup(<< 1 >>)
    BY <1>1 DEF IsSingleBraceGroup
  <2> QED
    BY <1>2, <2>1 DEF Base, Braced
<1>4. Target' = Target /\ IsFlags' = IsFlags
  BY <1>2 DEF Target, IsFlags
<1>5. scope' = scope => Indexed' = Indexed
  BY <1>1, <1>2 DEF Indexed
<1> QED
  BY <1>1, <1>2, <1>3, <1>4, <1>5

(* The next part of a group, and the first one of a group within. *)
LEMMA FollowingFacts ==
  ASSUME NEW p \in Seq(Nat \ {0}), p # << >>
  PROVE  /\ Following(p) \in Seq(Nat \ {0}) /\ Len(Following(p)) = Len(p)
         /\ Len(p) \in Nat /\ Len(p) >= 1
         /\ Following(p)[Len(p)] = p[Len(p)] + 1
         /\ \A i \in 1 .. Len(p) - 1 : Following(p)[i] = p[i]
         /\ \A m \in 0 .. Len(p) - 1 : SubSeq(Following(p), 1, m) = SubSeq(p, 1, m)
<1>1. Len(p) \in Nat /\ Len(p) >= 1 /\ Len(p) \in 1 .. Len(p) /\ p[Len(p)] \in Nat \ {0}
  OBVIOUS
<1>2. p[Len(p)] + 1 \in Nat \ {0}
  BY <1>1
<1>3. /\ Following(p) \in Seq(Nat \ {0}) /\ Len(Following(p)) = Len(p)
      /\ Following(p)[Len(p)] = p[Len(p)] + 1
      /\ \A i \in 1 .. Len(p) - 1 : Following(p)[i] = p[i]
  BY <1>1, <1>2 DEF Following
<1>4. ASSUME NEW m \in 0 .. Len(p) - 1
      PROVE  SubSeq(Following(p), 1, m) = SubSeq(p, 1, m)
  <2>1. m \in 0 .. Len(p) /\ m \in 0 .. Len(Following(p)) /\ m \in Nat
    BY <1>1, <1>3
  <2>2. /\ SubSeq(p, 1, m) \in Seq(Nat \ {0}) /\ Len(SubSeq(p, 1, m)) = m
        /\ \A i \in 1 .. m : SubSeq(p, 1, m)[i] = p[i]
    BY <2>1, PrefixFacts
  <2>3. /\ SubSeq(Following(p), 1, m) \in Seq(Nat \ {0}) /\ Len(SubSeq(Following(p), 1, m)) = m
        /\ \A i \in 1 .. m : SubSeq(Following(p), 1, m)[i] = Following(p)[i]
    BY <1>3, <2>1, PrefixFacts
  <2>4. \A i \in 1 .. m : SubSeq(Following(p), 1, m)[i] = SubSeq(p, 1, m)[i]
    <3>1. \A i \in 1 .. m : i \in 1 .. Len(p) - 1
      BY <1>1, <2>1
    <3> QED
      BY <1>3, <2>2, <2>3, <3>1
  <2> QED
    BY <2>2, <2>3, <2>4, SeqEqual
<1> QED
  BY <1>1, <1>3, <1>4

(* A value goes to the field, the element or the part of the literal. *)
LEMMA PutInv ==
  ASSUME ExprInv, todo # << >>, NEW r, Put(r),
         r.out = "ok" => Sound(r.v) /\ Holds(r.v, Target),
         at = << >> => IF Plain THEN Goal.kind # "array" ELSE Indexed,
         at # << >> => Len(at) = Len(Goal.dims) /\ at[Len(at)] <= Goal.dims[Len(at)]
  PROVE  ExprInv'
<1>1. CASE r.out # "ok"
  BY <1>1, StopInv DEF Put
<1>2. CASE r.out = "ok" /\ at = << >>
  <2>1. Store(r.v) /\ Sound(r.v) /\ Holds(r.v, Target)
    BY <1>2 DEF Put
  <2>2. Plain => Goal.kind # "array" /\ Holds(r.v, Goal)
    BY <1>2, <2>1, ThisOk
  <2>3. ~Plain => Indexed /\ Holds(r.v, Goal.elem)
    BY <1>2, <2>1, ThisOk DEF Indexed
  <2> QED
    BY <2>1, <2>2, <2>3, StoreInv
<1>3. CASE r.out = "ok" /\ at # << >>
  <2>1. /\ cells' = [cells EXCEPT ![at] = r.v] /\ at' = Following(at) /\ step' = "part"
        /\ tokens' = << >> /\ pos' = 1 /\ value' = Uninit
        /\ UNCHANGED <<scope, todo, verdict, calls>>
    BY <1>3 DEF Put
  <2>2. /\ This' = This /\ Goal' = Goal /\ Plain' = Plain /\ Base' = Base
        /\ \A p : Within(p)' = Within(p)
    BY <2>1, SameStatement
  <2>3. /\ This.form = "assign" /\ Plain /\ Goal.kind = "array" /\ Target = Goal.elem
        /\ Goal.dims \in Seq(Nat \ {0})
    BY <1>3, ThisOk DEF ExprInv, PlaceOk
  <2>4. /\ at \in Seq(Nat \ {0}) /\ Len(at) = Len(Goal.dims)
        /\ \A i \in 1 .. Len(at) - 1 : at[i] <= Goal.dims[i]
        /\ at[Len(at)] <= Goal.dims[Len(at)]
        /\ \A l \in 1 .. Len(at) : Within(Base \o SubSeq(at, 1, l - 1)) = 1 .. Goal.dims[l]
    BY <1>3 DEF ExprInv, AtOk
  <2>5. /\ at' \in Seq(Nat \ {0}) /\ Len(at') = Len(at) /\ Len(at) \in Nat /\ Len(at) >= 1
        /\ at'[Len(at)] = at[Len(at)] + 1
        /\ \A i \in 1 .. Len(at) - 1 : at'[i] = at[i]
        /\ \A m \in 0 .. Len(at) - 1 : SubSeq(at', 1, m) = SubSeq(at, 1, m)
    BY <1>3, <2>1, <2>4, FollowingFacts
  <2>6. AtOk'
    <3>1. at'[Len(at')] <= Goal.dims[Len(at')] + 1
      <4>1. Len(at) \in 1 .. Len(Goal.dims) /\ Len(at) \in 1 .. Len(at)
        BY <2>4, <2>5
      <4>2. Goal.dims[Len(at)] \in Nat /\ at[Len(at)] \in Nat
        BY <4>1, <2>3, <2>4
      <4> QED
        BY <4>2, <2>4, <2>5
    <3>2. \A i \in 1 .. Len(at') - 1 : at'[i] <= Goal.dims[i]
      BY <2>4, <2>5
    <3>3. ASSUME NEW l \in 1 .. Len(at')
          PROVE  Within(Base \o SubSeq(at', 1, l - 1)) = 1 .. Goal.dims[l]
      <4>1. l - 1 \in 0 .. Len(at) - 1 /\ l \in 1 .. Len(at)
        BY <2>5
      <4>2. SubSeq(at', 1, l - 1) = SubSeq(at, 1, l - 1)
        BY <4>1, <2>5
      <4> QED
        BY <4>1, <4>2, <2>4
    <3>4. Len(at') <= Len(Goal.dims)
      BY <2>4, <2>5
    <3> QED
      BY <3>1, <3>2, <3>3, <3>4, <2>1, <2>2, <2>5 DEF AtOk
  <2>7. CellsOk'
    <3>1. /\ DOMAIN cells = Positions(Goal.dims)
          /\ \A p \in DOMAIN cells : Holds(cells[p], Goal.elem) /\ Sound(cells[p])
      BY <1>3 DEF ExprInv, CellsOk
    <3>2. /\ DOMAIN cells' = DOMAIN cells
          /\ \A p \in DOMAIN cells : cells'[p] = r.v \/ cells'[p] = cells[p]
      BY <2>1
    <3> QED
      BY <3>1, <3>2, <1>3, <2>2, <2>3 DEF CellsOk
  <2>8. PlaceOk'
    <3>1. at' # << >>
      BY <2>5
    <3> QED
      BY <3>1, <2>1, <2>2, <2>3 DEF PlaceOk
  <2>9. IsSeq(<< >>)
    BY DEF IsSeq
  <2>10. CallsOk' /\ TokensOk' /\ TodoOk' /\ ScopeOk(scope')
    BY <2>1, <2>9, UninitSound DEF ExprInv, CallsOk, TokensOk, TodoOk, ScopeOk
  <2> QED
    BY <2>6, <2>7, <2>8, <2>10 DEF ExprInv
<1> QED
  BY <1>1, <1>2, <1>3

(* A part of the statement's text is taken. *)
LEMMA PartFacts ==
  ASSUME ExprInv, todo # << >>, NEW q \in DOMAIN This.rhs
  PROVE  /\ This.rhs[q].k = "expr" => /\ IsSeq(This.rhs[q].tokens)
                                      /\ \A i \in DOMAIN This.rhs[q].tokens :
                                           WellFormed(This.rhs[q].tokens[i])
         /\ This.rhs[q].k = "text" => This.rhs[q].bytes \in Nat
<1>1. Split(This.rhs)
  BY ThisOk DEF StatementOk
<1>2. CASE This.rhs[q].k = "expr"
  BY <1>1, <1>2 DEF Split, IsSeq
<1>3. CASE This.rhs[q].k # "expr"
  BY <1>1, <1>3 DEF Split
<1> QED
  BY <1>2, <1>3

LEMMA EvaluateInv ==
  ASSUME ExprInv, todo # << >>, NEW q \in DOMAIN This.rhs, This.rhs[q].k = "expr",
         NEW waiting, Evaluate(This.rhs[q], waiting),
         IsSeq(waiting),
         \A i \in DOMAIN waiting : waiting[i].call \in {"sign", "paren", "right"}
                                   /\ Sound(waiting[i].v),
         at = << >> => IF Plain THEN Goal.kind # "array" ELSE Indexed,
         at # << >> => Len(at) = Len(Goal.dims) /\ at[Len(at)] <= Goal.dims[Len(at)]
  PROVE  ExprInv'
<1>1. /\ step' = "operand" /\ tokens' = This.rhs[q].tokens /\ pos' = 1 /\ calls' = waiting
      /\ UNCHANGED <<scope, todo, verdict, value, at, cells>>
  BY DEF Evaluate
<1>2. /\ This' = This /\ Goal' = Goal /\ Plain' = Plain /\ Base' = Base
      /\ Indexed' = Indexed /\ \A p : Within(p)' = Within(p)
  BY <1>1, SameStatement
<1>3. CallsOk' /\ TokensOk'
  BY <1>1, PartFacts DEF ExprInv, CallsOk, TokensOk
<1>4. TodoOk' /\ ScopeOk(scope')
  BY <1>1 DEF ExprInv, TodoOk, ScopeOk
<1>5. PlaceOk'
  BY <1>1, <1>2 DEF ExprInv, PlaceOk
<1>6. AtOk'
  BY <1>1, <1>2 DEF ExprInv, AtOk
<1>7. CellsOk'
  BY <1>1, <1>2 DEF ExprInv, CellsOk
<1> QED
  BY <1>3, <1>4, <1>5, <1>6, <1>7 DEF ExprInv

LEMMA ElementInv ==
  ASSUME ExprInv, todo # << >>, NEW q \in DOMAIN This.rhs, Element(This.rhs[q]),
         This.rhs[q].k = "text" => Target.kind # "ident",
         at = << >> => IF Plain THEN Goal.kind # "array" ELSE Indexed,
         at # << >> => Len(at) = Len(Goal.dims) /\ at[Len(at)] <= Goal.dims[Len(at)]
  PROVE  ExprInv'
<1> DEFINE part == This.rhs[q]
<1>1. CASE part.k = "text"
  <2> DEFINE r == CheckStringLength(String_(part.bytes), Target)
  <2>1. Put(r) /\ part.bytes \in Nat
    BY <1>1, PartFacts DEF Element
  <2>2. Target.kind # "ident" /\ (Target.kind = "string" => Target.size \in Nat)
    BY <1>1, ThisOk DEF Scalar
  <2>3. r.out = "ok" => Sound(r.v) /\ Holds(r.v, Target)
    BY <2>1, <2>2, TextHolds
  <2> HIDE DEF r
  <2> QED
    BY <2>1, <2>3, PutInv
<1>2. CASE part.k = "expr"
  <2>1. Evaluate(part, << >>)
    BY <1>2 DEF Element
  <2>2. IsSeq(<< >>)
    BY DEF IsSeq
  <2> QED
    BY <1>2, <2>1, <2>2, EvaluateInv
<1>3. CASE part.k # "text" /\ part.k # "expr"
  <2>1. Stop("error")
    BY <1>3 DEF Element
  <2> QED
    BY <2>1, StopInv
<1> QED
  BY <1>1, <1>2, <1>3

LEMMA AtStart ==
  ASSUME ExprInv, step = "next"
  PROVE  at = << >>
BY DEF ExprInv, PlaceOk

LEMMA ApplyAssignInv == ExprInv /\ ApplyAssign => ExprInv'
<1> SUFFICES ASSUME ExprInv, ApplyAssign PROVE ExprInv'
  OBVIOUS
<1>1. todo # << >> /\ step = "next" /\ Plain /\ Goal.kind # "array" /\ at = << >>
      /\ Target = Goal
  BY AtStart, ThisOk DEF ApplyAssign, Begins
<1>2. CASE Only("expr") \/ (Only("text") /\ Goal.kind # "ident")
  <2>1. <<1>> \in DOMAIN This.rhs /\ Element(This.rhs[<<1>>])
    BY <1>2 DEF ApplyAssign, Only
  <2>2. This.rhs[<<1>>].k = "text" => Target.kind # "ident"
    BY <1>1, <1>2 DEF Only
  <2> QED
    BY <1>1, <2>1, <2>2, ElementInv
<1>3. CASE ~(Only("expr") \/ (Only("text") /\ Goal.kind # "ident"))
  BY <1>3, StopInv DEF ApplyAssign
<1> QED
  BY <1>2, <1>3

LEMMA ApplyArrayElementAssignInv == ExprInv /\ ApplyArrayElementAssign => ExprInv'
<1> SUFFICES ASSUME ExprInv, ApplyArrayElementAssign PROVE ExprInv'
  OBVIOUS
<1>1. todo # << >> /\ step = "next" /\ ~Plain /\ at = << >>
  BY AtStart DEF ApplyArrayElementAssign, Begins
<1>2. CASE Indexed /\ (Only("expr") \/ Only("text"))
  <2>1. <<1>> \in DOMAIN This.rhs /\ Element(This.rhs[<<1>>])
    BY <1>2 DEF ApplyArrayElementAssign, Only
  <2>2. Target.kind # "ident"
    BY <1>1, <1>2, ThisOk DEF Indexed
  <2> QED
    BY <1>1, <1>2, <2>1, <2>2, ElementInv
<1>3. CASE ~(Indexed /\ (Only("expr") \/ Only("text")))
  BY <1>3, StopInv DEF ApplyArrayElementAssign
<1> QED
  BY <1>2, <1>3

(* The value an operator statement reads. *)
LEMMA HeldSound ==
  ASSUME ExprInv, todo # << >>, Plain \/ Indexed
  PROVE  Sound(Held)
<1>1. This.field \in DOMAIN Type /\ ScopeOk(scope) /\ Goal = Type[This.field]
  BY ThisOk DEF ExprInv, StatementOk
<1>2. CASE Plain
  BY <1>1, <1>2 DEF Held, ScopeOk
<1>3. CASE ~Plain
  <2>1. /\ <<This.index[1] + 1>> \in Positions(Goal.dims)
        /\ scope[<<This.field>>] # Uninit /\ Goal.kind = "array"
    BY <1>3, IndexPosition
  <2>2. DOMAIN scope[<<This.field>>].cells = Positions(Goal.dims)
    BY <1>1, <2>1 DEF ScopeOk, Fits
  <2> QED
    BY <1>1, <1>3, <2>1, <2>2 DEF Held, ScopeOk
<1> QED
  BY <1>2, <1>3

LEMMA ApplyOpInv == ExprInv /\ ApplyOp => ExprInv'
<1> SUFFICES ASSUME ExprInv, ApplyOp PROVE ExprInv'
  OBVIOUS
<1>1. todo # << >> /\ step = "next" /\ at = << >>
  BY AtStart DEF ApplyOp, Begins
<1>2. CASE Operable
  <2>1. <<1>> \in DOMAIN This.rhs /\ This.rhs[<<1>>].k = "expr"
        /\ Evaluate(This.rhs[<<1>>], <<Right(This.form, Held)>>)
    BY <1>2 DEF ApplyOp, Operable, Only
  <2>2. IF Plain THEN Goal.kind # "array" ELSE Indexed
    BY <1>2 DEF Operable
  <2>3. Sound(Held)
    BY <1>1, <2>2, HeldSound
  <2> DEFINE c == Right(This.form, Held)
  <2>4. IsSeq(<<c>>) /\ \A i \in DOMAIN <<c>> : <<c>>[i] = c
    <3>1. <<c>> \in Seq({c}) /\ \A i \in DOMAIN <<c>> : <<c>>[i] = c
      OBVIOUS
    <3> QED
      BY <3>1, SeqIsSeq
  <2>5. c.call = "right" /\ c.v = Held
    BY DEF Right
  <2> DEFINE w == <<c>>
  <2>6. IsSeq(w) /\ Evaluate(This.rhs[<<1>>], w)
    BY <2>1, <2>4
  <2>7. \A i \in DOMAIN w : w[i].call \in {"sign", "paren", "right"} /\ Sound(w[i].v)
    BY <2>3, <2>4, <2>5
  <2> HIDE DEF w
  <2> QED
    BY <1>1, <2>1, <2>2, <2>6, <2>7, EvaluateInv
<1>3. CASE ~Operable
  BY <1>3, StopInv DEF ApplyOp
<1> QED
  BY <1>2, <1>3

LEMMA OpenLiteralInv == ExprInv /\ OpenLiteral => ExprInv'
<1> SUFFICES ASSUME ExprInv, OpenLiteral PROVE ExprInv'
  OBVIOUS
<1>1. todo # << >> /\ step = "next" /\ Plain /\ Goal.kind = "array" /\ This.form = "assign"
  BY DEF OpenLiteral, Begins
<1>2. CASE Within(Base) = 1 .. Goal.dims[1]
  <2>1. /\ at' = <<1>> /\ step' = "part" /\ cells' = [p \in Positions(Goal.dims) |-> Uninit]
        /\ UNCHANGED <<scope, todo, verdict, tokens, pos, calls, value>>
    BY <1>2 DEF OpenLiteral
  <2>2. /\ This' = This /\ Goal' = Goal /\ Plain' = Plain /\ Base' = Base
        /\ \A p : Within(p)' = Within(p)
    BY <2>1, SameStatement
  <2>3. Goal.dims \in Seq(Nat \ {0}) /\ Len(Goal.dims) >= 1 /\ Scalar(Goal.elem)
    BY <1>1, ThisOk
  <2>4. CallsOk' /\ TokensOk' /\ ScopeOk(scope') /\ TodoOk'
    BY <1>1, <2>1 DEF ExprInv, CallsOk, TokensOk, TodoOk
  <2>5. PlaceOk'
    BY <1>1, <2>1, <2>2 DEF PlaceOk
  <2>6. AtOk'
    <3>1. Base \o SubSeq(<<1>>, 1, 1 - 1) = Base
      <4>1. SubSeq(<<1>>, 1, 0) = << >>
        BY SubSeqEmpty
      <4>2. Base \in Seq(Nat)
        BY DEF Base
      <4> QED
        BY <4>1, <4>2
    <3>2. <<1>> \in Seq(Nat \ {0}) /\ Len(<<1>>) = 1 /\ <<1>>[1] = 1 /\ 1 .. 1 = {1}
      OBVIOUS
    <3>3. 1 <= Goal.dims[1] + 1 /\ 1 <= Len(Goal.dims)
      BY <2>3
    <3> DEFINE p == <<1>>
    <3>4. /\ p \in Seq(Nat \ {0}) /\ Len(p) = 1 /\ p[1] = 1
          /\ Within(Base \o SubSeq(p, 1, 1 - 1)) = 1 .. Goal.dims[1]
      BY <1>2, <3>1, <3>2
    <3> HIDE DEF p
    <3>5. \A l \in 1 .. Len(p) : Within(Base \o SubSeq(p, 1, l - 1)) = 1 .. Goal.dims[l]
      <4>1. \A l \in 1 .. Len(p) : l = 1
        BY <3>4
      <4> QED
        BY <3>4, <4>1, Zenon
    <3>6. at' = p
      BY <2>1 DEF p
    <3>7. at'[Len(at')] <= Goal.dims[Len(at')] + 1
      BY <3>3, <3>4, <3>6
    <3>8. \A i \in 1 .. Len(at') - 1 : at'[i] <= Goal.dims[i]
      <4>1. Len(at') - 1 = 0
        BY <3>4, <3>6
      <4>2. \A i \in 1 .. 0 : FALSE
        OBVIOUS
      <4> QED
        BY <4>1, <4>2
    <3> QED
      BY <2>1, <2>2, <3>3, <3>4, <3>5, <3>6, <3>7, <3>8 DEF AtOk
  <2>7. CellsOk'
    <3>1. Holds(Uninit, Goal.elem)
      BY <2>3 DEF Holds, Uninit, Scalar
    <3> QED
      BY <2>1, <2>2, <3>1, UninitSound DEF CellsOk
  <2> QED
    BY <2>4, <2>5, <2>6, <2>7 DEF ExprInv
<1>3. CASE Within(Base) # 1 .. Goal.dims[1]
  BY <1>3, StopInv DEF OpenLiteral
<1> QED
  BY <1>2, <1>3

(* Where the machine is in a literal. *)
LEMMA InPartFacts ==
  ASSUME ExprInv, InPart
  PROVE  /\ todo # << >> /\ at # << >> /\ This.form = "assign" /\ Plain /\ Goal.kind = "array"
         /\ Goal.dims \in Seq(Nat \ {0}) /\ Scalar(Goal.elem) /\ Target = Goal.elem
         /\ at \in Seq(Nat \ {0}) /\ Len(at) \in 1 .. Len(Goal.dims)
         /\ Len(Goal.dims) \in Nat /\ Len(at) \in Nat
<1>1. todo # << >> /\ at # << >> /\ This.form = "assign" /\ Plain /\ Goal.kind = "array"
  BY DEF ExprInv, TodoOk, PlaceOk, InPart
<1>2. Goal.dims \in Seq(Nat \ {0}) /\ Scalar(Goal.elem) /\ Target = Goal.elem
  BY <1>1, ThisOk
<1>3. at \in Seq(Nat \ {0}) /\ Len(at) <= Len(Goal.dims)
  BY <1>1 DEF ExprInv, AtOk
<1> QED
  BY <1>1, <1>2, <1>3

LEMMA BaseSeq == Base \in Seq(Nat \ {0}) /\ Len(Base) \in {0, 1}
<1>1. << >> \in Seq(Nat \ {0}) /\ Len(<< >>) = 0
  OBVIOUS
<1>2. <<1>> \in Seq(Nat \ {0}) /\ Len(<<1>>) = 1
  OBVIOUS
<1> QED
  BY <1>1, <1>2, Zenon DEF Base

(* A part that has been counted is there. *)
LEMMA PartThere ==
  ASSUME ExprInv, InPart, More
  PROVE  Base \o at \in DOMAIN This.rhs
<1> DEFINE n == Len(at)
<1>1. /\ at \in Seq(Nat \ {0}) /\ n \in 1 .. Len(Goal.dims) /\ at # << >> /\ todo # << >>
      /\ n \in Nat /\ n >= 1 /\ Goal.dims \in Seq(Nat \ {0})
  BY InPartFacts
<1>2. Within(Base \o SubSeq(at, 1, n - 1)) = 1 .. Goal.dims[n]
  BY <1>1 DEF ExprInv, AtOk
<1>3. at[n] \in 1 .. Goal.dims[n]
  <2>1. at[n] \in Nat \ {0} /\ Goal.dims[n] \in Nat
    BY <1>1
  <2> QED
    BY <2>1 DEF More
<1>4. PICK q \in DOMAIN This.rhs : Front(q) = Base \o SubSeq(at, 1, n - 1) /\ q[Len(q)] = at[n]
  <2> DEFINE X == Base \o SubSeq(at, 1, n - 1)
  <2>1. at[n] \in Within(X)
    BY <1>2, <1>3
  <2> HIDE DEF X, n
  <2>2. \E q \in DOMAIN This.rhs : Front(q) = X /\ q[Len(q)] = at[n]
    BY <2>1, Zenon DEF Within
  <2> QED
    BY <2>2 DEF X
<1>5. q \in Seq(Nat \ {0}) /\ q # << >>
  BY <1>1, ThisOk DEF StatementOk, Split
<1>6. /\ Front(q) = SubSeq(q, 1, Len(q) - 1)
      /\ Front(q) \in Seq(Nat \ {0}) /\ Len(Front(q)) = Len(q) - 1
      /\ \A i \in 1 .. Len(q) - 1 : Front(q)[i] = q[i]
  BY <1>5, FrontFacts DEF Front
<1>7. /\ SubSeq(at, 1, n - 1) \in Seq(Nat \ {0}) /\ Len(SubSeq(at, 1, n - 1)) = n - 1
      /\ \A i \in 1 .. n - 1 : SubSeq(at, 1, n - 1)[i] = at[i]
  BY <1>1, FrontFacts
<1> DEFINE b == Base  t == SubSeq(at, 1, n - 1)
<1>8. b \in Seq(Nat \ {0}) /\ Len(b) \in Nat
  BY BaseSeq
<1> HIDE DEF b, t, n
<1>9. /\ b \o t \in Seq(Nat \ {0}) /\ Len(b \o t) = Len(b) + n - 1
      /\ \A i \in 1 .. Len(b) + n - 1 :
           (b \o t)[i] = IF i <= Len(b) THEN b[i] ELSE t[i - Len(b)]
  BY <1>1, <1>7, <1>8 DEF b, t
<1>10. /\ b \o at \in Seq(Nat \ {0}) /\ Len(b \o at) = Len(b) + n
       /\ \A i \in 1 .. Len(b) + n :
            (b \o at)[i] = IF i <= Len(b) THEN b[i] ELSE at[i - Len(b)]
  BY <1>1, <1>8 DEF n
<1>11. Len(q) = Len(b) + n /\ Len(q) \in Nat
  BY <1>4, <1>5, <1>6, <1>8, <1>9, <1>1 DEF b, t
<1>12. ASSUME NEW i \in 1 .. Len(q) PROVE q[i] = (b \o at)[i]
  <2>1. CASE i = Len(q)
    <3>1. ~(i <= Len(b)) /\ i - Len(b) = n /\ i \in 1 .. Len(b) + n
      BY <2>1, <1>1, <1>8, <1>11
    <3> QED
      BY <2>1, <3>1, <1>4, <1>10
  <2>2. CASE i # Len(q)
    <3>1. i \in 1 .. Len(q) - 1 /\ i \in 1 .. Len(b) + n - 1 /\ i \in 1 .. Len(b) + n
      <4>1. Len(b) \in Nat /\ n \in Nat /\ n >= 1 /\ Len(q) = Len(b) + n
        BY <1>1, <1>8, <1>11
      <4> QED
        BY <2>2, <4>1
    <3>2. q[i] = (b \o t)[i]
      BY <3>1, <1>4, <1>6 DEF b, t
    <3>3. ~(i <= Len(b)) => i - Len(b) \in 1 .. n - 1
      BY <3>1, <1>8, <1>1
    <3> QED
      BY <3>1, <3>2, <3>3, <1>7, <1>9, <1>10 DEF t
  <2> QED
    BY <2>1, <2>2
<1>13. q = b \o at
  BY <1>5, <1>10, <1>11, <1>12, SeqEqual
<1> QED
  BY <1>13 DEF b

LEMMA ParseElementInv == ExprInv /\ ParseElement => ExprInv'
<1> SUFFICES ASSUME ExprInv, ParseElement PROVE ExprInv'
  OBVIOUS
<1>1. InPart /\ More /\ Len(at) = Len(Goal.dims) /\ Element(Part)
  BY DEF ParseElement
<1>2. todo # << >> /\ at # << >> /\ Target = Goal.elem /\ Scalar(Goal.elem)
  BY <1>1, InPartFacts
<1>3. Base \o at \in DOMAIN This.rhs /\ Element(This.rhs[Base \o at])
  BY <1>1, PartThere DEF Part
<1>4. Target.kind # "ident" /\ at[Len(at)] <= Goal.dims[Len(at)]
  BY <1>1, <1>2 DEF Scalar, More
<1> QED
  BY <1>1, <1>2, <1>3, <1>4, ElementInv

(* The steps within a literal that keep what is stored. *)
LEMMA MoveInv ==
  ASSUME ExprInv, InPart,
         UNCHANGED <<scope, todo, verdict, step, tokens, pos, calls, value, cells>>,
         at' \in Seq(Nat \ {0}), at' # << >>, Len(at') <= Len(Goal.dims),
         \A i \in 1 .. Len(at') - 1 : at'[i] <= Goal.dims[i],
         at'[Len(at')] <= Goal.dims[Len(at')] + 1,
         \A l \in 1 .. Len(at') : Within(Base \o SubSeq(at', 1, l - 1)) = 1 .. Goal.dims[l]
  PROVE  ExprInv'
<1>1. /\ This' = This /\ Goal' = Goal /\ Plain' = Plain /\ Base' = Base
      /\ \A p : Within(p)' = Within(p)
  BY SameStatement
<1>2. /\ todo # << >> /\ at # << >> /\ This.form = "assign" /\ Plain /\ Goal.kind = "array"
      /\ step = "part"
  BY InPartFacts DEF InPart
<1>3. AtOk'
  BY <1>1, <1>2 DEF AtOk
<1>4. PlaceOk'
  BY <1>1, <1>2 DEF PlaceOk
<1>5. CellsOk'
  BY <1>1, <1>2 DEF ExprInv, CellsOk
<1>6. ScopeOk(scope') /\ TodoOk' /\ CallsOk' /\ TokensOk'
  BY DEF ExprInv, ScopeOk, TodoOk, CallsOk, TokensOk
<1> QED
  BY <1>3, <1>4, <1>5, <1>6 DEF ExprInv

LEMMA OpenGroupInv == ExprInv /\ OpenGroup => ExprInv'
<1> SUFFICES ASSUME ExprInv, OpenGroup PROVE ExprInv'
  OBVIOUS
<1> DEFINE n == Len(at)
<1>1. InPart /\ More /\ n < Len(Goal.dims)
  BY DEF OpenGroup
<1>2. /\ at \in Seq(Nat \ {0}) /\ n \in Nat /\ n >= 1 /\ Goal.dims \in Seq(Nat \ {0})
      /\ at # << >> /\ Len(Goal.dims) \in Nat
  BY <1>1, InPartFacts
<1>3. CASE IsSingleBraceGroup(Base \o at) /\ Within(Base \o at) = 1 .. Goal.dims[n + 1]
  <2>1. /\ at' = Append(at, 1)
        /\ UNCHANGED <<scope, todo, verdict, step, tokens, pos, calls, value, cells>>
    BY <1>3 DEF OpenGroup
  <2>2. /\ at' \in Seq(Nat \ {0}) /\ Len(at') = n + 1
        /\ \A i \in 1 .. n : at'[i] = at[i]
        /\ at'[n + 1] = 1
    BY <1>2, <2>1, AppendProperties
  <2>3. /\ \A m \in 0 .. n : SubSeq(at', 1, m) = SubSeq(at, 1, m)
        /\ SubSeq(at', 1, n) = at
    <3>1. 1 \in Nat \ {0}
      OBVIOUS
    <3> QED
      BY <1>2, <2>1, <3>1, AppendPrefix
  <2>4. \A i \in 1 .. n : at[i] <= Goal.dims[i]
    <3>1. \A i \in 1 .. n - 1 : at[i] <= Goal.dims[i]
      BY <1>2 DEF ExprInv, AtOk
    <3>2. at[n] <= Goal.dims[n]
      BY <1>1 DEF More
    <3>3. \A i \in 1 .. n : i \in 1 .. n - 1 \/ i = n
      BY <1>2
    <3> QED
      BY <3>1, <3>2, <3>3
  <2>5. \A l \in 1 .. n + 1 : Within(Base \o SubSeq(at', 1, l - 1)) = 1 .. Goal.dims[l]
    <3> TAKE l \in 1 .. n + 1
    <3>1. CASE l = n + 1
      <4>1. l - 1 = n
        BY <3>1, <1>2
      <4> QED
        BY <3>1, <4>1, <2>3, <1>3
    <3>2. CASE l # n + 1
      <4>1. l \in 1 .. n /\ l - 1 \in 0 .. n
        BY <3>2, <1>2
      <4>2. Within(Base \o SubSeq(at, 1, l - 1)) = 1 .. Goal.dims[l]
        BY <4>1, <1>2 DEF ExprInv, AtOk
      <4> QED
        BY <4>1, <4>2, <2>3
    <3> QED
      BY <3>1, <3>2
  <2>6. 1 <= Goal.dims[n + 1] + 1 /\ n + 1 <= Len(Goal.dims)
    <3>1. n + 1 \in 1 .. Len(Goal.dims)
      BY <1>1, <1>2
    <3>2. Goal.dims[n + 1] \in Nat
      BY <3>1, <1>2
    <3> QED
      BY <3>1, <3>2
  <2>7. /\ Len(at') - 1 = n /\ at' # << >> /\ Len(at') <= Len(Goal.dims)
        /\ at'[Len(at')] <= Goal.dims[Len(at')] + 1
    BY <2>2, <2>6, <1>2
  <2>8. \A i \in 1 .. Len(at') - 1 : at'[i] <= Goal.dims[i]
    BY <2>2, <2>4, <2>7
  <2>9. \A l \in 1 .. Len(at') : Within(Base \o SubSeq(at', 1, l - 1)) = 1 .. Goal.dims[l]
    BY <2>2, <2>5
  <2> HIDE DEF n
  <2> QED
    BY <1>1, <2>1, <2>2, <2>7, <2>8, <2>9, MoveInv
<1>4. CASE ~(IsSingleBraceGroup(Base \o at) /\ Within(Base \o at) = 1 .. Goal.dims[n + 1])
  BY <1>4, StopInv DEF OpenGroup
<1> QED
  BY <1>3, <1>4

LEMMA CloseGroupInv == ExprInv /\ CloseGroup => ExprInv'
<1> SUFFICES ASSUME ExprInv, CloseGroup PROVE ExprInv'
  OBVIOUS
<1> DEFINE n == Len(at)
<1>1. InPart /\ ~More
  BY DEF CloseGroup
<1>2. /\ at \in Seq(Nat \ {0}) /\ n \in Nat /\ n >= 1 /\ Goal.dims \in Seq(Nat \ {0})
      /\ at # << >> /\ Len(Goal.dims) \in Nat /\ n \in 1 .. Len(Goal.dims)
      /\ Plain /\ Goal.kind = "array" /\ todo # << >>
  BY <1>1, InPartFacts
<1>3. CASE n = 1
  <2> DEFINE v == [k |-> "array", cells |-> cells]
  <2>1. Store(v)
    BY <1>3 DEF CloseGroup
  <2>2. v.k = "array" /\ v.cells = cells /\ v = [k |-> "array", cells |-> v.cells]
    OBVIOUS
  <2>3. /\ DOMAIN cells = Positions(Goal.dims)
        /\ \A p \in DOMAIN cells : Holds(cells[p], Goal.elem) /\ Sound(cells[p])
    BY <1>2 DEF ExprInv, CellsOk
  <2> HIDE DEF v
  <2>4. Sound(v) /\ Fits(v, Goal) /\ \A p \in DOMAIN v.cells : Sound(v.cells[p])
    BY <1>2, <2>2, <2>3 DEF Sound, Fits
  <2> QED
    BY <1>2, <2>1, <2>4, StoreInv
<1>4. CASE n # 1
  <2> DEFINE p == Front(at)
  <2>1. /\ at' = Following(p)
        /\ UNCHANGED <<scope, todo, verdict, step, tokens, pos, calls, value, cells>>
    BY <1>4 DEF CloseGroup
  <2>2. /\ p \in Seq(Nat \ {0}) /\ Len(p) = n - 1 /\ \A i \in 1 .. n - 1 : p[i] = at[i]
        /\ p = SubSeq(at, 1, n - 1)
    BY <1>2, FrontFacts DEF Front
  <2>3. \A m \in 0 .. n - 1 : SubSeq(p, 1, m) = SubSeq(at, 1, m)
    <3>1. n - 1 \in 0 .. Len(at)
      BY <1>2
    <3> QED
      BY <2>2, <3>1, <1>2, PrefixOfPrefix
  <2> HIDE DEF p
  <2>4. p # << >>
    <3>1. Len(p) # 0
      BY <2>2, <1>2, <1>4
    <3> QED
      BY <2>2, <3>1
  <2>5. /\ at' \in Seq(Nat \ {0}) /\ Len(at') = n - 1 /\ n - 1 >= 1
        /\ at'[n - 1] = p[n - 1] + 1
        /\ \A i \in 1 .. n - 1 - 1 : at'[i] = p[i]
        /\ \A m \in 0 .. n - 1 - 1 : SubSeq(at', 1, m) = SubSeq(p, 1, m)
    <3>1. Len(p) = n - 1
      BY <2>2
    <3> HIDE DEF n
    <3> QED
      BY <2>1, <2>2, <2>4, <3>1, FollowingFacts
  <2>6. \A i \in 1 .. n - 1 : at[i] <= Goal.dims[i] /\ p[i] = at[i] /\ p[i] \in Nat
                              /\ Goal.dims[i] \in Nat
    <3>1. \A i \in 1 .. n - 1 : at[i] <= Goal.dims[i]
      BY <1>2 DEF ExprInv, AtOk
    <3>2. \A i \in 1 .. n - 1 : i \in 1 .. Len(at) /\ i \in 1 .. Len(Goal.dims)
      BY <1>2
    <3>3. \A i \in 1 .. n - 1 : at[i] \in Nat /\ Goal.dims[i] \in Nat
      BY <1>2, <3>2
    <3> QED
      BY <2>2, <3>1, <3>3
  <2>7. n - 1 \in 1 .. n - 1 /\ n - 1 <= Len(Goal.dims)
    BY <1>2, <2>5
  <2>8. at'[Len(at')] <= Goal.dims[Len(at')] + 1
    BY <2>5, <2>6, <2>7
  <2>9. \A i \in 1 .. Len(at') - 1 : at'[i] <= Goal.dims[i]
    <3>1. \A i \in 1 .. n - 1 - 1 : i \in 1 .. n - 1
      BY <1>2
    <3> QED
      BY <3>1, <2>5, <2>6
  <2>10. ASSUME NEW l \in 1 .. Len(at')
         PROVE  Within(Base \o SubSeq(at', 1, l - 1)) = 1 .. Goal.dims[l]
    <3>1. l - 1 \in 0 .. n - 1 - 1 /\ l - 1 \in 0 .. n - 1 /\ l \in 1 .. n
      BY <1>2, <2>5
    <3>2. SubSeq(at', 1, l - 1) = SubSeq(at, 1, l - 1)
      BY <3>1, <2>3, <2>5
    <3>3. Within(Base \o SubSeq(at, 1, l - 1)) = 1 .. Goal.dims[l]
      BY <3>1, <1>2 DEF ExprInv, AtOk
    <3> QED
      BY <3>2, <3>3
  <2>11. at' # << >> /\ Len(at') <= Len(Goal.dims)
    BY <2>5, <2>7
  <2> HIDE DEF n
  <2> QED
    BY <1>1, <2>1, <2>5, <2>8, <2>9, <2>10, <2>11, MoveInv
<1> QED
  BY <1>3, <1>4

-----------------------------------------------------------------------------
(* The steps within an expression. *)
LEMMA WithinExpression ==
  ASSUME ExprInv, step \in {"operand", "value"}, step' \in {"operand", "value"},
         UNCHANGED <<scope, todo, verdict, tokens, at, cells>>,
         CallsOk', pos' \in Nat \ {0}
  PROVE  ExprInv'
<1>1. /\ This' = This /\ Goal' = Goal /\ Plain' = Plain /\ Base' = Base
      /\ Indexed' = Indexed /\ \A p : Within(p)' = Within(p)
  BY SameStatement
<1>2. TodoOk' /\ ScopeOk(scope') /\ TokensOk'
  BY DEF ExprInv, TodoOk, ScopeOk, TokensOk
<1>3. PlaceOk'
  BY <1>1 DEF ExprInv, PlaceOk
<1>4. AtOk'
  BY <1>1 DEF ExprInv, AtOk
<1>5. CellsOk'
  BY <1>1 DEF ExprInv, CellsOk
<1> QED
  BY <1>2, <1>3, <1>4, <1>5 DEF ExprInv

LEMMA PushOk ==
  ASSUME CallsOk, NEW c, c.call \in {"sign", "paren", "right"}, Sound(c.v),
         calls' = Append(calls, c), value' = value \/ value' = Uninit
  PROVE  CallsOk'
<1>1. /\ IsSeq(calls') /\ Len(calls') = Len(calls) + 1
      /\ \A i \in 1 .. Len(calls) : calls'[i] = calls[i]
      /\ calls'[Len(calls) + 1] = c
  BY SeqAppend DEF CallsOk
<1>2. Len(calls) \in Nat /\ DOMAIN calls = 1 .. Len(calls) /\ DOMAIN calls' = 1 .. Len(calls')
  BY <1>1, SeqFacts DEF CallsOk
<1>3. \A i \in DOMAIN calls' : i \in DOMAIN calls \/ i = Len(calls) + 1
  BY <1>1, <1>2
<1> QED
  BY <1>1, <1>2, <1>3, UninitSound DEF CallsOk

LEMMA PopOk ==
  ASSUME CallsOk, calls # << >>, calls' = Front(calls), Sound(value')
  PROVE  CallsOk'
<1>1. /\ IsSeq(calls') /\ Len(calls') = Len(calls) - 1
      /\ \A i \in 1 .. Len(calls) - 1 : calls'[i] = calls[i]
      /\ Len(calls) \in Nat
  BY SeqFront DEF CallsOk
<1>2. DOMAIN calls = 1 .. Len(calls) /\ DOMAIN calls' = 1 .. Len(calls')
  BY <1>1, SeqFacts DEF CallsOk
<1>3. \A i \in DOMAIN calls' : i \in DOMAIN calls /\ calls'[i] = calls[i]
  BY <1>1, <1>2
<1> QED
  BY <1>1, <1>3 DEF CallsOk

LEMMA TopOk ==
  ASSUME CallsOk, calls # << >>
  PROVE  Top.call \in {"sign", "paren", "right"} /\ Sound(Top.v)
<1>1. Len(calls) \in DOMAIN calls
  BY SeqFacts DEF CallsOk
<1> QED
  BY <1>1 DEF CallsOk, Top

LEMMA TokenFacts ==
  ASSUME ExprInv, NEW kinds, Token(kinds)
  PROVE  /\ pos \in DOMAIN tokens /\ WellFormed(tokens[pos]) /\ tokens[pos].t \in kinds
         /\ pos \in Nat \ {0} /\ pos + 1 \in Nat \ {0}
<1>1. Len(tokens) \in Nat /\ DOMAIN tokens = 1 .. Len(tokens) /\ pos \in Nat \ {0}
      /\ \A i \in DOMAIN tokens : WellFormed(tokens[i])
  BY SeqFacts DEF ExprInv, TokensOk
<1> QED
  BY <1>1 DEF Token

LEMMA ReadSignInv == ExprInv /\ ReadSign => ExprInv'
<1> SUFFICES ASSUME ExprInv, ReadSign PROVE ExprInv'
  OBVIOUS
<1> DEFINE c == [call |-> IF Token({"("}) THEN "paren" ELSE "sign",
                 op |-> tokens[pos].t, v |-> Uninit]
<1>1. /\ step = "operand" /\ Token(Signs \cup {"("}) /\ calls' = Append(calls, c)
      /\ pos' = pos + 1
      /\ UNCHANGED <<scope, todo, verdict, step, tokens, value, at, cells>>
  BY DEF ReadSign, AtOperand
<1>2. c.call \in {"sign", "paren", "right"} /\ c.v = Uninit
  OBVIOUS
<1> HIDE DEF c
<1>3. CallsOk'
  BY <1>1, <1>2, UninitSound, PushOk DEF ExprInv
<1>4. pos' \in Nat \ {0}
  BY <1>1, TokenFacts
<1> QED
  BY <1>1, <1>3, <1>4, WithinExpression

LEMMA TakeOperatorInv == ExprInv /\ TakeOperator => ExprInv'
<1> SUFFICES ASSUME ExprInv, TakeOperator PROVE ExprInv'
  OBVIOUS
<1> DEFINE c == Right(tokens[pos].t, value)
<1>1. /\ step = "value" /\ Token(Operators) /\ calls' = Append(calls, c)
      /\ step' = "operand" /\ value' = Uninit /\ pos' = pos + 1
      /\ UNCHANGED <<scope, todo, verdict, tokens, at, cells>>
  BY DEF TakeOperator, InFoldLeft, AtValue
<1>2. c.call \in {"sign", "paren", "right"} /\ c.v = value
  BY DEF Right
<1> HIDE DEF c
<1>3. CallsOk'
  BY <1>1, <1>2, PushOk DEF ExprInv, CallsOk
<1>4. pos' \in Nat \ {0}
  BY <1>1, TokenFacts
<1> QED
  BY <1>1, <1>3, <1>4, WithinExpression

(* A name or a literal stands for a sound value. *)
LEMMA AtomSound ==
  ASSUME ScopeOk(scope), NEW token, WellFormed(token), token.t \in {"lit", "ref"},
         Atom(token).out = "ok"
  PROVE  Sound(Atom(token).v)
<1>1. token.t \notin Operators \cup {"~", "(", ")"}
  BY DEF Operators, Arithmetic, Bitwise_
<1>2. CASE token.t = "lit"
  BY <1>1, <1>2, NumbersSound DEF WellFormed, Atom, Yields
<1>3. CASE token.t = "ref"
  <2> DEFINE path == token.path
  <2>1. Atom(token) = ResolveReference(path)
    BY <1>3 DEF Atom
  <2>2. CASE path[1] \in DOMAIN Type
    <3>1. path \in DOMAIN scope /\ ResolveReference(path).v = scope[path]
      BY <2>1, <2>2 DEF ResolveReference, Yields, Fails
    <3> QED
      BY <2>1, <3>1 DEF ScopeOk
  <2>3. CASE path[1] \notin DOMAIN Type
    <3>1. /\ path[1] \in DOMAIN Domains /\ path[2] \in DOMAIN Domains[path[1]].members
          /\ ResolveReference(path).v =
               IF Domains[path[1]].flags
               THEN Int_(Domains[path[1]].members[path[2]])
               ELSE [k |-> "member", domain |-> path[1], key |-> path[2]]
      BY <2>1, <2>3 DEF ResolveReference, Yields, Fails
    <3>2. CASE Domains[path[1]].flags
      <4>1. Domains[path[1]].members[path[2]] \in Int
        BY <3>1, <3>2, TypeAssumption
      <4> QED
        BY <2>1, <3>1, <3>2, <4>1, NumberSound, NumbersSound
    <3>3. CASE ~Domains[path[1]].flags
      BY <2>1, <3>1, <3>3 DEF Sound
    <3> QED
      BY <3>2, <3>3
  <2> QED
    BY <2>2, <2>3
<1> QED
  BY <1>2, <1>3

LEMMA ReadAtomInv == ExprInv /\ ReadAtom => ExprInv'
<1> SUFFICES ASSUME ExprInv, ReadAtom PROVE ExprInv'
  OBVIOUS
<1> DEFINE r == Atom(tokens[pos])
<1>1. /\ step = "operand" /\ Token({"lit", "ref"})
      /\ IF r.out = "ok"
         THEN /\ value' = r.v /\ step' = "value" /\ pos' = pos + 1
              /\ UNCHANGED <<scope, todo, verdict, tokens, calls, at, cells>>
         ELSE Stop(r.out)
  BY DEF ReadAtom, AtOperand
<1>2. CASE r.out = "ok"
  <2>1. Sound(r.v)
    BY <1>1, <1>2, TokenFacts, AtomSound DEF ExprInv
  <2>2. CallsOk'
    BY <1>1, <1>2, <2>1 DEF ExprInv, CallsOk
  <2>3. pos' \in Nat \ {0}
    BY <1>1, <1>2, TokenFacts
  <2> QED
    BY <1>1, <1>2, <2>2, <2>3, WithinExpression
<1>3. CASE r.out # "ok"
  BY <1>1, <1>3, StopInv
<1> QED
  BY <1>2, <1>3

LEMMA ApplyInv == ExprInv /\ Apply => ExprInv'
<1> SUFFICES ASSUME ExprInv, Apply PROVE ExprInv'
  OBVIOUS
<1> DEFINE r == IF Top.call = "sign" THEN ApplySign(Top.op, value)
                ELSE ApplyBinop(Top.v, Top.op, value, IsFlags)
<1>1. /\ step = "value" /\ calls # << >>
      /\ IF r.out = "ok"
         THEN /\ value' = r.v /\ calls' = Front(calls)
              /\ UNCHANGED <<scope, todo, verdict, step, tokens, pos, at, cells>>
         ELSE Stop(r.out)
  BY DEF Apply, AtValue, Waiting
<1>2. CASE r.out = "ok"
  <2>1. Sound(value) /\ Sound(Top.v)
    BY <1>1, TopOk DEF ExprInv, CallsOk
  <2>2. Sound(r.v)
    <3>1. r.v \in Number
      BY <1>2, <2>1, BinopSound, SignSound
    <3> QED
      BY <3>1, NumbersSound
  <2> HIDE DEF r
  <2>3. CallsOk'
    BY <1>1, <1>2, <2>2, PopOk DEF ExprInv
  <2>4. pos' \in Nat \ {0}
    BY <1>1, <1>2 DEF ExprInv, TokensOk
  <2> QED
    BY <1>1, <1>2, <2>3, <2>4, WithinExpression
<1>3. CASE r.out # "ok"
  BY <1>1, <1>3, StopInv
<1> QED
  BY <1>2, <1>3

LEMMA CloseParenInv == ExprInv /\ CloseParen => ExprInv'
<1> SUFFICES ASSUME ExprInv, CloseParen PROVE ExprInv'
  OBVIOUS
<1>1. step = "value" /\ calls # << >>
  BY DEF CloseParen, InFoldLeft, AtValue, Waiting
<1>2. CASE Token({")"})
  <2>1. /\ calls' = Front(calls) /\ pos' = pos + 1
        /\ UNCHANGED <<scope, todo, verdict, step, tokens, value, at, cells>>
    BY <1>2 DEF CloseParen
  <2>2. CallsOk'
    BY <1>1, <2>1, PopOk DEF ExprInv, CallsOk
  <2>3. pos' \in Nat \ {0}
    BY <1>2, <2>1, TokenFacts
  <2> QED
    BY <1>1, <2>1, <2>2, <2>3, WithinExpression
<1>3. CASE ~Token({")"})
  BY <1>3, StopInv DEF CloseParen
<1> QED
  BY <1>2, <1>3

LEMMA EndExprInv == ExprInv /\ EndExpr => ExprInv'
<1> SUFFICES ASSUME ExprInv, EndExpr PROVE ExprInv'
  OBVIOUS
<1>1. step = "value" /\ todo # << >> /\ Sound(value)
  BY DEF EndExpr, InFoldLeft, AtValue, ExprInv, TodoOk, CallsOk
<1>2. CASE pos <= Len(tokens)
  BY <1>2, StopInv DEF EndExpr
<1>3. CASE ~(pos <= Len(tokens))
  <2> DEFINE r == Storable(value, Target)
  <2>1. Put(r)
    BY <1>3 DEF EndExpr
  <2>2. at = << >> => IF Plain THEN Goal.kind # "array" ELSE Indexed
    BY <1>1 DEF ExprInv, PlaceOk
  <2>3. at # << >> => Len(at) = Len(Goal.dims) /\ at[Len(at)] <= Goal.dims[Len(at)]
    BY <1>1 DEF ExprInv, AtOk
  <2>4. Target.kind # "array"
    <3>1. CASE Goal.kind = "array"
      BY <1>1, <3>1, ThisOk
    <3>2. CASE Goal.kind # "array"
      BY <1>1, <3>2, ThisOk
    <3> QED
      BY <3>1, <3>2
  <2>5. \/ Scalar(Target)
        \/ Target.kind = "flags" /\ Target.lo \in Int /\ Target.hi \in Int
        \/ Target.kind = "ident"
    BY <1>1, <2>4, ThisOk
  <2>6. r.out = "ok" => Sound(r.v) /\ Holds(r.v, Target)
    BY <1>1, <2>5, StorableHolds
  <2> HIDE DEF r
  <2> QED
    BY <1>1, <2>1, <2>2, <2>3, <2>6, PutInv
<1> QED
  BY <1>2, <1>3

LEMMA ExprNextInv == ExprInv /\ [ExprNext]_exprVars => ExprInv'
<1> SUFFICES ASSUME ExprInv, [ExprNext]_exprVars PROVE ExprInv'
  OBVIOUS
<1>1. CASE ExprStops \/ UNCHANGED exprVars
  <2>1. UNCHANGED exprVars
    BY <1>1 DEF ExprStops
  <2>2. todo' = todo /\ scope' = scope
    BY <2>1 DEF exprVars
  <2>3. /\ This' = This /\ Goal' = Goal /\ Plain' = Plain /\ Base' = Base
        /\ Indexed' = Indexed /\ \A p : Within(p)' = Within(p)
    BY <2>2, SameStatement
  <2>4. TodoOk' /\ ScopeOk(scope') /\ TokensOk' /\ CallsOk'
    BY <2>1 DEF exprVars, ExprInv, TodoOk, ScopeOk, TokensOk, CallsOk
  <2>5. PlaceOk' /\ AtOk' /\ CellsOk'
    BY <2>1, <2>3 DEF exprVars, ExprInv, PlaceOk, AtOk, CellsOk
  <2> QED
    BY <2>4, <2>5 DEF ExprInv
<1>2. CASE NoOperand
  BY <1>2, StopInv DEF NoOperand
<1> QED
  BY <1>1, <1>2, ApplyAssignInv, ApplyArrayElementAssignInv, ApplyOpInv, OpenLiteralInv,
     OpenGroupInv, ParseElementInv, CloseGroupInv, ReadSignInv, ReadAtomInv, ApplyInv,
     TakeOperatorInv, CloseParenInv, EndExprInv DEF ExprNext

(* StoredInRange: what `=` and the compound operators of any list of        *)
(* statements leave in a field is a value the field's type holds, one level *)
(* down into an array.                                                      *)
THEOREM StoredInRangeHolds == ExprSpec => []StoredInRange
<1>1. ExprInv => StoredInRange
  BY DEF ExprInv, ScopeOk, StoredInRange
<1> QED
  BY <1>1, ExprInitInv, ExprNextInv, PTL DEF ExprSpec

-----------------------------------------------------------------------------
(* The meaning of expressions, over all intervals of their tokens.         *)
LEMMA BalanceInt ==
  ASSUME NEW toks, NEW h \in Nat
  PROVE  /\ Balance(toks, h) \in Int
         /\ h >= 1 => Balance(toks, h) = Balance(toks, h - 1)
                        + (IF toks[h].t = "(" THEN 1 ELSE IF toks[h].t = ")" THEN -1 ELSE 0)
<1> DEFINE S(c, g) == {x \in 1 .. g : toks[x].t = c}
<1>1. ASSUME NEW c, NEW g \in Nat
      PROVE  IsFiniteSet(S(c, g)) /\ Cardinality(S(c, g)) \in Nat
  <2>1. IsFiniteSet(1 .. g)
    BY FS_Interval
  <2>2. S(c, g) \subseteq 1 .. g
    OBVIOUS
  <2>3. IsFiniteSet(S(c, g))
    BY <2>1, <2>2, FS_Subset
  <2> QED
    BY <2>3, FS_CardinalityType
<1>2. ASSUME NEW c, h >= 1
      PROVE  Cardinality(S(c, h)) = Cardinality(S(c, h - 1)) + (IF toks[h].t = c THEN 1 ELSE 0)
  <2>1. h - 1 \in Nat
    BY <1>2
  <2>2. CASE toks[h].t = c
    <3>1. S(c, h) = S(c, h - 1) \cup {h}
      BY <2>1, <2>2
    <3>2. h \notin S(c, h - 1)
      BY <2>1
    <3> HIDE DEF S
    <3>3. Cardinality(S(c, h - 1) \cup {h}) = Cardinality(S(c, h - 1)) + 1
      BY <1>1, <2>1, <3>2, FS_AddElement
    <3> QED
      BY <3>1, <3>3, <2>2
  <2>3. CASE toks[h].t # c
    <3>1. S(c, h) = S(c, h - 1)
      BY <2>1, <2>3
    <3> HIDE DEF S
    <3>2. Cardinality(S(c, h - 1)) \in Nat
      BY <1>1, <2>1
    <3> QED
      BY <3>1, <3>2, <2>3
  <2> QED
    BY <2>2, <2>3
<1>3. \A g : Balance(toks, g) = Cardinality(S("(", g)) - Cardinality(S(")", g))
  BY DEF Balance
<1> HIDE DEF S
<1>4. Balance(toks, h) \in Int
  BY <1>1, <1>3
<1>5. ASSUME h >= 1
      PROVE  Balance(toks, h) = Balance(toks, h - 1)
                        + (IF toks[h].t = "(" THEN 1 ELSE IF toks[h].t = ")" THEN -1 ELSE 0)
  <2>1. h - 1 \in Nat
    BY <1>5
  <2>2. /\ Cardinality(S("(", h)) = Cardinality(S("(", h - 1)) + (IF toks[h].t = "(" THEN 1 ELSE 0)
        /\ Cardinality(S(")", h)) = Cardinality(S(")", h - 1)) + (IF toks[h].t = ")" THEN 1 ELSE 0)
    BY <1>2, <1>5
  <2>3. /\ Cardinality(S("(", h - 1)) \in Nat /\ Cardinality(S(")", h - 1)) \in Nat
    BY <1>1, <2>1
  <2>4. ~(toks[h].t = "(" /\ toks[h].t = ")")
    OBVIOUS
  <2> QED
    BY <1>3, <2>2, <2>3, <2>4
<1> QED
  BY <1>4, <1>5

LEMMA SplitFacts ==
  ASSUME NEW toks, NEW i \in Nat, NEW j \in Nat, Splits(toks, i, j) # {}
  PROVE  /\ LastOf(Splits(toks, i, j)) \in Splits(toks, i, j)
         /\ \A g \in Splits(toks, i, j) : g <= LastOf(Splits(toks, i, j))
         /\ Splits(toks, i, j) \subseteq i + 1 .. j
<1> DEFINE T == Splits(toks, i, j)
<1>1. T \subseteq i + 1 .. j
  BY DEF Splits
<1> HIDE DEF T
<1>a. IsFiniteSet(i + 1 .. j)
  BY FS_Interval
<1>2. T \in SUBSET Nat /\ IsFiniteSet(T) /\ T # {}
  BY <1>1, <1>a, FS_Subset DEF T
<1>3. \E m \in T : \A k \in T : k <= m
  BY <1>2, NatMax
<1>4. LastOf(T) \in T /\ \A g \in T : g <= LastOf(T)
  BY <1>3, Zenon DEF LastOf
<1> QED
  BY <1>1, <1>4 DEF T
(* The equation that Meaning solves: what the tokens from p[1] to p[2]      *)
(* mean, when f says it of all shorter intervals.                          *)
Intervals(toks) == (1 .. Len(toks) + 1) \X (0 .. Len(toks))
MeansBy(toks, flags, f, p) ==
  LET i == p[1]  j == p[2]  h == LastOf(Splits(toks, i, j)) IN
  IF i > j THEN Fails
  ELSE IF Splits(toks, i, j) # {}
  THEN Joined(f[<<i, h - 1>>], toks[h].t, f[<<h + 1, j>>], flags)
  ELSE IF toks[i].t \in {"-", "+", "~"}
  THEN Signed(toks[i].t, f[<<i + 1, j>>], flags)
  ELSE IF toks[i].t = "(" /\ toks[j].t = ")" THEN f[<<i + 1, j - 1>>]
  ELSE IF i = j /\ toks[i].t \in {"lit", "ref"} THEN Atom(toks[i]) ELSE Fails

LEMMA MeansByLocal ==
  ASSUME NEW toks, Len(toks) \in Nat, NEW flags, NEW f, NEW g, NEW p \in Intervals(toks),
         \A q \in Intervals(toks) : q[2] - q[1] < p[2] - p[1] => f[q] = g[q]
  PROVE  MeansBy(toks, flags, f, p) = MeansBy(toks, flags, g, p)
<1> DEFINE i == p[1]
           j == p[2]
           n == Len(toks)
           T == Splits(toks, i, j)
           h == LastOf(T)
<1>1. i \in 1 .. n + 1 /\ j \in 0 .. n /\ i \in Nat /\ j \in Nat
  BY DEF Intervals
<1>2. \A a \in 1 .. n + 1, b \in 0 .. n : b - a < j - i => f[<<a, b>>] = g[<<a, b>>]
  <2>1. TAKE a \in 1 .. n + 1, b \in 0 .. n
  <2>2. <<a, b>> \in Intervals(toks) /\ <<a, b>>[1] = a /\ <<a, b>>[2] = b
    BY DEF Intervals
  <2> QED
    BY <2>2
<1>3. T # {} => h \in i + 1 .. j
  BY <1>1, SplitFacts
<1> HIDE DEF i, j, T, h
<1>4. CASE i > j
  BY <1>4 DEF MeansBy, i, j
<1>5. CASE i <= j /\ T # {}
  <2>1. h \in Int /\ i + 1 <= h /\ h <= j
    BY <1>1, <1>3, <1>5
  <2>2. f[<<i, h - 1>>] = g[<<i, h - 1>>]
    <3>1. h - 1 \in 0 .. n /\ h - 1 - i < j - i
      BY <1>1, <2>1
    <3> QED
      BY <1>1, <1>2, <3>1
  <2>3. f[<<h + 1, j>>] = g[<<h + 1, j>>]
    <3>1. h + 1 \in 1 .. n + 1 /\ j - (h + 1) < j - i
      BY <1>1, <2>1
    <3> QED
      BY <1>1, <1>2, <3>1
  <2>4. ~(i > j)
    BY <1>1, <1>5
  <2> QED
    BY <1>5, <2>2, <2>3, <2>4 DEF MeansBy, i, j, T, h
<1>6. CASE i <= j /\ T = {}
  <2>1. f[<<i + 1, j>>] = g[<<i + 1, j>>]
    <3>1. i + 1 \in 1 .. n + 1 /\ j - (i + 1) < j - i
      BY <1>1, <1>6
    <3> QED
      BY <1>1, <1>2, <3>1
  <2>2. f[<<i + 1, j - 1>>] = g[<<i + 1, j - 1>>]
    <3>1. i + 1 \in 1 .. n + 1 /\ j - 1 \in 0 .. n /\ j - 1 - (i + 1) < j - i
      BY <1>1, <1>6
    <3> QED
      BY <1>1, <1>2, <3>1
  <2>3. ~(i > j)
    BY <1>1, <1>6
  <2> QED
    BY <1>6, <2>1, <2>2, <2>3 DEF MeansBy, i, j, T
<1> QED
  BY <1>1, <1>4, <1>5, <1>6

LEMMA MeaningSolves ==
  ASSUME NEW toks, Len(toks) \in Nat, NEW flags, NEW p \in Intervals(toks)
  PROVE  Meaning(toks, flags)[p] = MeansBy(toks, flags, Meaning(toks, flags), p)
<1> DEFINE n == Len(toks)
           D == Intervals(toks)
           Body(f, q) == MeansBy(toks, flags, f, q)
           Upto(k, f) == \A q \in D : q[2] - q[1] < k => f[q] = Body(f, q)
           Missing == {k \in Nat : ~\E f : Upto(k, f)}
<1>1. \A q \in D : q[1] \in 1 .. n + 1 /\ q[2] \in 0 .. n
  BY DEF Intervals
<1>2. ASSUME NEW f, NEW g, NEW q \in D, \A r \in D : r[2] - r[1] < q[2] - q[1] => f[r] = g[r]
      PROVE  Body(f, q) = Body(g, q)
  BY <1>2, MeansByLocal
<1> HIDE DEF Body, D
<1>3. ASSUME NEW k \in Int, NEW f, Upto(k, f)
      PROVE  Upto(k + 1, [q \in D |-> Body(f, q)])
  <2> DEFINE g == [q \in D |-> Body(f, q)]
  <2>1. \A q \in D : g[q] = Body(f, q)
    OBVIOUS
  <2> HIDE DEF g
  <2>2. ASSUME NEW q \in D, q[2] - q[1] < k + 1 PROVE g[q] = Body(g, q)
    <3>1. ASSUME NEW r \in D, r[2] - r[1] < q[2] - q[1] PROVE f[r] = g[r]
      <4>1. r[2] - r[1] < k
        BY <1>1, <2>2, <3>1
      <4> QED
        BY <1>3, <2>1, <4>1
    <3>2. Body(f, q) = Body(g, q)
      BY <1>2, <3>1
    <3> QED
      BY <2>1, <3>2
  <2> QED
    BY <2>2 DEF g
<1>4. \E f : Upto(-n - 1, f)
  <2>1. \A q \in D : ~(q[2] - q[1] < -n - 1)
    BY <1>1
  <2> QED
    BY <2>1
<1>5. ASSUME NEW k \in Nat PROVE \E f : Upto(k - n - 1, f)
  <2> DEFINE Bad == {l \in Nat : ~\E f : Upto(l - n - 1, f)}
  <2>1. SUFFICES ASSUME Bad # {} PROVE FALSE
    OBVIOUS
  <2>2. PICK m \in Bad : \A l \in Bad : m <= l
    BY <2>1, NatMin
  <2>3. m # 0
    BY <1>4, <2>2
  <2> HIDE DEF Upto
  <2>a. m \in Nat
    OBVIOUS
  <2>b. m - 1 \in Nat /\ ~(m <= m - 1)
    BY <2>a, <2>3
  <2>c. m - 1 \notin Bad
    BY <2>2, <2>b, Zenon
  <2>4. m - 1 \in Nat /\ \E f : Upto((m - 1) - n - 1, f)
    BY <2>b, <2>c
  <2>5. PICK f : Upto((m - 1) - n - 1, f)
    BY <2>4
  <2>6. Upto(((m - 1) - n - 1) + 1, [q \in D |-> Body(f, q)])
    BY <1>3, <2>4, <2>5
  <2>7. ((m - 1) - n - 1) + 1 = m - n - 1
    BY <2>4
  <2>8. Upto(m - n - 1, [q \in D |-> Body(f, q)])
    BY <2>6, <2>7
  <2> QED
    BY <2>2, <2>8
<1>6. PICK f : Upto(n + 1, f)
  <2>1. 2 * n + 2 \in Nat /\ (2 * n + 2) - n - 1 = n + 1
    OBVIOUS
  <2> HIDE DEF Upto
  <2> QED
    BY <1>5, <2>1
<1> DEFINE g == [q \in D |-> Body(f, q)]
<1>7. \A q \in D : f[q] = Body(f, q)
  BY <1>1, <1>6
<1>8. \A q \in D : g[q] = f[q]
  BY <1>7
<1> HIDE DEF g
<1>9. \A q \in D : Body(f, q) = Body(g, q)
  BY <1>2, <1>8
<1>10. g = [q \in D |-> Body(g, q)]
  BY <1>9, Zenon DEF g
<1>11. Meaning(toks, flags) = CHOOSE m : m = [q \in D |-> Body(m, q)]
  BY DEF Meaning, Body, MeansBy, D, Intervals
<1>12. Meaning(toks, flags) = [q \in D |-> Body(Meaning(toks, flags), q)]
  BY <1>10, <1>11, Zenon
<1> QED
  BY <1>12 DEF Body, D

-----------------------------------------------------------------------------
(* What the tokens from i to j mean, case by case.                         *)
Mean(toks, flags, i, j) == Meaning(toks, flags)[<<i, j>>]

LEMMA MeanCases ==
  ASSUME NEW toks, Len(toks) \in Nat, NEW flags,
         NEW i \in 1 .. Len(toks) + 1, NEW j \in 0 .. Len(toks)
  PROVE  LET T == Splits(toks, i, j)  h == LastOf(T) IN
         \/ /\ T # {} /\ h \in T /\ h \in i + 1 .. j /\ \A g \in T : g <= h
            /\ Mean(toks, flags, i, j)
                 = Joined(Mean(toks, flags, i, h - 1), toks[h].t,
                          Mean(toks, flags, h + 1, j), flags)
         \/ /\ i <= j /\ T = {} /\ toks[i].t \in {"-", "+", "~"}
            /\ Mean(toks, flags, i, j) = Signed(toks[i].t, Mean(toks, flags, i + 1, j), flags)
         \/ /\ i < j /\ T = {} /\ toks[i].t = "(" /\ toks[j].t = ")"
            /\ Mean(toks, flags, i, j) = Mean(toks, flags, i + 1, j - 1)
         \/ /\ i = j /\ T = {} /\ toks[i].t \in {"lit", "ref"}
            /\ Mean(toks, flags, i, j) = Atom(toks[i])
         \/ /\ T = {} /\ Mean(toks, flags, i, j) = Fails
            /\ i <= j => /\ toks[i].t \notin {"-", "+", "~"}
                         /\ ~(toks[i].t = "(" /\ toks[j].t = ")")
                         /\ ~(i = j /\ toks[i].t \in {"lit", "ref"})
<1> DEFINE T == Splits(toks, i, j)
           h == LastOf(T)
           F == Meaning(toks, flags)
           p == <<i, j>>
<1>1. i \in Nat /\ j \in Nat /\ p \in Intervals(toks) /\ p[1] = i /\ p[2] = j
  BY DEF Intervals
<1>2. F[p] = MeansBy(toks, flags, F, p)
  BY <1>1, MeaningSolves
<1>3. T # {} => h \in T /\ (\A g \in T : g <= h) /\ T \subseteq i + 1 .. j
  BY <1>1, SplitFacts
<1>4. Mean(toks, flags, i, j) = MeansBy(toks, flags, F, p)
  BY <1>2 DEF Mean
<1>5. \A a, b : Mean(toks, flags, a, b) = F[<<a, b>>]
  BY DEF Mean
<1> HIDE DEF F, p
<1>6. MeansBy(toks, flags, F, p) =
        IF i > j THEN Fails
        ELSE IF T # {} THEN Joined(F[<<i, h - 1>>], toks[h].t, F[<<h + 1, j>>], flags)
        ELSE IF toks[i].t \in {"-", "+", "~"} THEN Signed(toks[i].t, F[<<i + 1, j>>], flags)
        ELSE IF toks[i].t = "(" /\ toks[j].t = ")" THEN F[<<i + 1, j - 1>>]
        ELSE IF i = j /\ toks[i].t \in {"lit", "ref"} THEN Atom(toks[i]) ELSE Fails
  BY <1>1 DEF MeansBy
<1> HIDE DEF T, h
<1>7. CASE i > j
  <2>1. T = {}
    BY <1>1, <1>3, <1>7
  <2> QED
    BY <1>1, <1>4, <1>6, <1>7, <2>1 DEF T
<1>8. CASE i <= j /\ T # {}
  <2>1. ~(i > j) /\ h \in i + 1 .. j
    BY <1>1, <1>3, <1>8
  <2>2. Mean(toks, flags, i, j)
          = Joined(Mean(toks, flags, i, h - 1), toks[h].t, Mean(toks, flags, h + 1, j), flags)
    BY <1>4, <1>5, <1>6, <1>8, <2>1
  <2> QED
    BY <1>3, <1>8, <2>1, <2>2 DEF h, T
<1>9. CASE i <= j /\ T = {}
  <2>1. ~(i > j)
    BY <1>1, <1>9
  <2>2. Mean(toks, flags, i, j) =
        IF toks[i].t \in {"-", "+", "~"}
        THEN Signed(toks[i].t, Mean(toks, flags, i + 1, j), flags)
        ELSE IF toks[i].t = "(" /\ toks[j].t = ")" THEN Mean(toks, flags, i + 1, j - 1)
        ELSE IF i = j /\ toks[i].t \in {"lit", "ref"} THEN Atom(toks[i]) ELSE Fails
    BY <1>4, <1>5, <1>6, <1>9, <2>1
  <2>3. toks[i].t = "(" /\ toks[j].t = ")" => i < j
    BY <1>1, <1>9
  <2> QED
    BY <1>9, <2>2, <2>3 DEF h, T
<1> QED
  BY <1>1, <1>7, <1>8, <1>9

LEMMA MeanEmpty ==
  ASSUME NEW toks, Len(toks) \in Nat, NEW flags,
         NEW i \in 1 .. Len(toks) + 1, NEW j \in 0 .. Len(toks),
         Mean(toks, flags, i, j).out = "ok"
  PROVE  i <= j
<1> DEFINE p == <<i, j>>
           F == Meaning(toks, flags)
<1>1. i \in Nat /\ j \in Nat /\ p \in Intervals(toks) /\ p[1] = i /\ p[2] = j
  BY DEF Intervals
<1>2. F[p] = MeansBy(toks, flags, F, p)
  BY <1>1, MeaningSolves
<1> HIDE DEF F, p
<1>3. i > j => F[p] = Fails
  BY <1>1, <1>2 DEF MeansBy
<1>4. Mean(toks, flags, i, j) = F[p]
  BY DEF Mean, F, p
<1> QED
  BY <1>1, <1>3, <1>4 DEF Fails

-----------------------------------------------------------------------------
(* An expression that means something is well formed: it begins as an       *)
(* operand does and ends as one does, so does what stands between its       *)
(* operators, and its parentheses match.                                   *)
Opens(token, flags) ==
  token.t \in {"lit", "ref", "("} \cup (IF flags THEN {"~"} ELSE {"-", "+"})
Closes(token) == token.t \in {"lit", "ref", ")"}
Goes(toks, flags, k) ==
  IF Closes(toks[k]) THEN toks[k + 1].t \in Operators \cup {")"} ELSE Opens(toks[k + 1], flags)
Regular(toks, flags, i, j) ==
  /\ i <= j /\ Opens(toks[i], flags) /\ Closes(toks[j])
  /\ Balance(toks, j) = Balance(toks, i - 1)
  /\ \A h \in i .. j : Balance(toks, h) >= Balance(toks, i - 1)
  /\ \A k \in i .. j - 1 : Goes(toks, flags, k)

LEMMA OkRegular ==
  ASSUME NEW toks, Len(toks) \in Nat, NEW flags,
         NEW i \in 1 .. Len(toks) + 1, NEW j \in 0 .. Len(toks),
         Mean(toks, flags, i, j).out = "ok"
  PROVE  Regular(toks, flags, i, j)
<1> DEFINE n == Len(toks)
           M(a, b) == Mean(toks, flags, a, b)
           B(a) == Balance(toks, a)
           R(a, b) == Regular(toks, flags, a, b)
           Bad == {s \in Nat : \E a \in 1 .. n + 1, b \in 0 .. n :
                                 s = b - a + 1 /\ M(a, b).out = "ok" /\ ~R(a, b)}
<1>f. Fails.out # "ok"
  BY DEF Fails
<1>1. ASSUME NEW a \in 1 .. n + 1, NEW b \in 0 .. n, M(a, b).out = "ok" PROVE a <= b
  BY <1>1, MeanEmpty
<1> HIDE DEF M, R
<1>2. SUFFICES ASSUME NEW a \in 1 .. n + 1, NEW b \in 0 .. n, M(a, b).out = "ok",
                      \A c \in 1 .. n + 1, d \in 0 .. n :
                        d - c < b - a /\ M(c, d).out = "ok" => R(c, d)
               PROVE  R(a, b)
  <2>1. SUFFICES ASSUME ~R(i, j) PROVE FALSE
    BY DEF R
  <2>a. M(i, j).out = "ok" /\ i \in 1 .. n + 1 /\ j \in 0 .. n
    BY DEF M
  <2>2. j - i + 1 \in Nat
    BY <1>1, <2>a
  <2>3. j - i + 1 \in Bad
    BY <2>1, <2>2, <2>a
  <2>4. PICK m \in Bad : \A s \in Bad : m <= s
    BY <2>3, NatMin
  <2>5. PICK a \in 1 .. n + 1, b \in 0 .. n : m = b - a + 1 /\ M(a, b).out = "ok" /\ ~R(a, b)
    BY <2>4
  <2>6. ASSUME NEW c \in 1 .. n + 1, NEW d \in 0 .. n, d - c < b - a, M(c, d).out = "ok"
        PROVE  R(c, d)
    <3>1. d - c + 1 \in Nat /\ ~(m <= d - c + 1)
      BY <1>1, <2>5, <2>6
    <3>2. d - c + 1 \notin Bad
      BY <2>4, <3>1, Zenon
    <3> QED
      BY <2>6, <3>1, <3>2
  <2> QED
    BY <1>2, <2>5, <2>6
<1>n. \A k \in Nat : B(k) \in Int
  BY BalanceInt
<1>p. \A k \in 1 .. n : B(k) = B(k - 1)
                         + (IF toks[k].t = "(" THEN 1 ELSE IF toks[k].t = ")" THEN -1 ELSE 0)
  BY BalanceInt
<1> HIDE DEF B
<1>s. \A k \in 1 .. n : /\ B(k) \in Int /\ B(k - 1) \in Int
                        /\ toks[k].t = "(" => B(k) = B(k - 1) + 1
                        /\ toks[k].t = ")" => B(k) = B(k - 1) - 1
                        /\ toks[k].t # "(" /\ toks[k].t # ")" => B(k) = B(k - 1)
  <2> TAKE k \in 1 .. n
  <2>1. k \in Nat /\ k - 1 \in Nat
    OBVIOUS
  <2>2. B(k) \in Int /\ B(k - 1) \in Int
    BY <1>n, <2>1
  <2> QED
    BY <1>p, <2>2
<1> DEFINE T == Splits(toks, a, b)
           h == LastOf(T)
<1>3. a \in Nat /\ b \in Nat /\ n \in Nat /\ a <= b /\ a \in 1 .. n /\ b \in 1 .. n
  BY <1>1, <1>2
<1>4. CASE /\ T # {} /\ h \in T /\ h \in a + 1 .. b
           /\ M(a, b) = Joined(M(a, h - 1), toks[h].t, M(h + 1, b), flags)
  <2>1. toks[h].t \in Operators /\ Closes(toks[h - 1]) /\ B(h) = B(a - 1)
    BY <1>4 DEF Splits, Closes, B
  <2> HIDE DEF h, T
  <2>2. h - 1 \in 0 .. n /\ h + 1 \in 1 .. n + 1 /\ h \in Nat /\ h \in 1 .. n
    BY <1>3, <1>4
  <2>3. M(a, h - 1).out = "ok" /\ M(h + 1, b).out = "ok"
    BY <1>2, <1>4 DEF Joined
  <2>4. R(a, h - 1) /\ R(h + 1, b)
    <3>1. h - 1 - a < b - a /\ b - (h + 1) < b - a
      BY <1>3, <1>4, <2>2
    <3> QED
      BY <1>2, <2>2, <2>3, <3>1
  <2>5. /\ a <= h - 1 /\ Opens(toks[a], flags) /\ Closes(toks[h - 1])
        /\ B(h - 1) = B(a - 1)
        /\ \A k \in a .. h - 1 : B(k) >= B(a - 1)
        /\ \A k \in a .. h - 1 - 1 : Goes(toks, flags, k)
    BY <2>4 DEF R, Regular, B
  <2> DEFINE g == h + 1
  <2>c. Regular(toks, flags, g, b)
    BY <2>4 DEF R
  <2> HIDE DEF g
  <2>d. /\ g <= b /\ Opens(toks[g], flags) /\ Closes(toks[b])
        /\ B(b) = B(g - 1)
        /\ \A k \in g .. b : B(k) >= B(g - 1)
        /\ \A k \in g .. b - 1 : Goes(toks, flags, k)
    BY <2>c, Zenon DEF Regular, B
  <2>e. (h + 1) - 1 = h /\ h + 1 - 1 = h
    BY <2>2
  <2>6. /\ h + 1 <= b /\ Opens(toks[h + 1], flags) /\ Closes(toks[b])
        /\ B(b) = B(h + 1 - 1)
        /\ \A k \in h + 1 .. b : B(k) >= B(h + 1 - 1)
        /\ \A k \in h + 1 .. b - 1 : Goes(toks, flags, k)
    BY <2>d, <2>e DEF g
  <2>7. h + 1 - 1 = h /\ h - 1 + 1 = h
    BY <2>2
  <2>8. Goes(toks, flags, h - 1) /\ Goes(toks, flags, h)
    <3>1. ~Closes(toks[h])
      BY <2>1 DEF Closes, Operators, Arithmetic, Bitwise_
    <3> QED
      BY <2>1, <2>6, <2>7, <3>1 DEF Goes
  <2>9. \A k \in a .. b - 1 : Goes(toks, flags, k)
    <3>1. \A k \in a .. b - 1 : k \in a .. h - 1 - 1 \/ k = h - 1 \/ k = h \/ k \in h + 1 .. b - 1
      BY <1>3, <2>2
    <3> QED
      BY <2>5, <2>6, <2>8, <3>1
  <2>10. \A k \in a .. b : B(k) >= B(a - 1)
    <3>1. \A k \in a .. b : k \in a .. h - 1 \/ k = h \/ k \in h + 1 .. b
      BY <1>3, <2>2
    <3>2. B(a - 1) \in Int /\ B(h) \in Int
      BY <1>3, <1>n, <2>2
    <3> QED
      BY <2>1, <2>5, <2>6, <2>7, <3>1, <3>2
  <2>11. B(b) = B(a - 1)
    BY <2>1, <2>6, <2>7
  <2> QED
    BY <1>3, <2>5, <2>6, <2>9, <2>10, <2>11 DEF R, Regular, B
<1>5. CASE toks[a].t \in {"-", "+", "~"} /\ M(a, b) = Signed(toks[a].t, M(a + 1, b), flags)
  <2>1. toks[a].t \in (IF flags THEN {"~"} ELSE {"-", "+"}) /\ M(a + 1, b).out = "ok"
    BY <1>2, <1>5, <1>f DEF Signed
  <2>2. a + 1 \in 1 .. n + 1 /\ b - (a + 1) < b - a
    BY <1>3
  <2>3. R(a + 1, b)
    BY <1>2, <2>1, <2>2
  <2>4. /\ a + 1 <= b /\ Opens(toks[a + 1], flags) /\ Closes(toks[b])
        /\ B(b) = B(a + 1 - 1)
        /\ \A k \in a + 1 .. b : B(k) >= B(a + 1 - 1)
        /\ \A k \in a + 1 .. b - 1 : Goes(toks, flags, k)
    BY <2>3 DEF R, Regular, B
  <2>a. toks[a].t # "(" /\ toks[a].t # ")"
    BY <1>5
  <2>5. a + 1 - 1 = a /\ B(a) = B(a - 1) /\ B(a) \in Int
    <3>1. a \in 1 .. n
      BY <1>3
    <3>2. B(a) = B(a - 1) /\ B(a) \in Int
      BY <1>s, <2>a, <3>1, Zenon
    <3>3. a + 1 - 1 = a
      BY <1>3
    <3> QED
      BY <3>2, <3>3
  <2>6. Opens(toks[a], flags) /\ Goes(toks, flags, a)
    BY <1>5, <2>1, <2>4 DEF Opens, Closes, Goes
  <2>7. \A k \in a .. b - 1 : Goes(toks, flags, k)
    <3>1. \A k \in a .. b - 1 : k = a \/ k \in a + 1 .. b - 1
      BY <1>3
    <3> QED
      BY <2>4, <2>6, <3>1
  <2>8. \A k \in a .. b : B(k) >= B(a - 1)
    <3>1. \A k \in a .. b : k = a \/ k \in a + 1 .. b
      BY <1>3
    <3> QED
      BY <2>4, <2>5, <3>1
  <2> QED
    BY <1>3, <2>4, <2>5, <2>6, <2>7, <2>8 DEF R, Regular, B
<1>6. CASE /\ a < b /\ toks[a].t = "(" /\ toks[b].t = ")" /\ M(a, b) = M(a + 1, b - 1)
  <2>1. a + 1 \in 1 .. n + 1 /\ b - 1 \in 0 .. n /\ b - 1 - (a + 1) < b - a
    BY <1>3, <1>6
  <2>2. R(a + 1, b - 1)
    BY <1>2, <1>6, <2>1
  <2>3. /\ a + 1 <= b - 1 /\ Opens(toks[a + 1], flags) /\ Closes(toks[b - 1])
        /\ B(b - 1) = B(a + 1 - 1)
        /\ \A k \in a + 1 .. b - 1 : B(k) >= B(a + 1 - 1)
        /\ \A k \in a + 1 .. b - 1 - 1 : Goes(toks, flags, k)
    BY <2>2 DEF R, Regular, B
  <2>4. a + 1 - 1 = a /\ B(a) = B(a - 1) + 1 /\ B(b) = B(b - 1) - 1 /\ B(a - 1) \in Int
        /\ B(a) \in Int /\ B(b) \in Int
    BY <1>3, <1>s, <1>6
  <2>5. /\ Opens(toks[a], flags) /\ Goes(toks, flags, a) /\ Closes(toks[b])
        /\ Goes(toks, flags, b - 1)
    <3>1. b - 1 + 1 = b
      BY <1>3
    <3> QED
      BY <1>6, <2>3, <3>1 DEF Opens, Closes, Goes
  <2>6. \A k \in a .. b - 1 : Goes(toks, flags, k)
    <3>1. \A k \in a .. b - 1 : k = a \/ k \in a + 1 .. b - 1 - 1 \/ k = b - 1
      BY <1>3
    <3> QED
      BY <2>3, <2>5, <3>1
  <2>7. B(b) = B(a - 1)
    BY <2>3, <2>4
  <2>8. \A k \in a .. b : B(k) >= B(a - 1)
    <3>1. \A k \in a .. b : k = a \/ k \in a + 1 .. b - 1 \/ k = b
      BY <1>3
    <3>2. \A k \in a .. b : B(k) \in Int
      BY <1>3, <1>n
    <3> QED
      BY <2>3, <2>4, <2>7, <3>1, <3>2
  <2> QED
    BY <1>3, <2>3, <2>5, <2>6, <2>7, <2>8 DEF R, Regular, B
<1>7. CASE a = b /\ toks[a].t \in {"lit", "ref"}
  <2>a. toks[a].t # "(" /\ toks[a].t # ")"
    BY <1>7
  <2>1. B(a) = B(a - 1) /\ B(a) \in Int
    <3>1. a \in 1 .. n
      BY <1>3
    <3>2. B(a) = B(a - 1) /\ B(a) \in Int
      BY <1>s, <2>a, <3>1, Zenon
    <3>3. a + 1 - 1 = a
      BY <1>3
    <3> QED
      BY <3>2, <3>3
  <2> QED
    BY <1>3, <1>7, <2>1 DEF R, Regular, B, Opens, Closes
<1>8. CASE M(a, b) = Fails
  BY <1>2, <1>8, <1>f
<1> QED
  BY <1>2, <1>3, <1>4, <1>5, <1>6, <1>7, <1>8, MeanCases DEF M

-----------------------------------------------------------------------------
LEMMA MeanIs ==
  ASSUME NEW toks, Len(toks) \in Nat, NEW flags,
         NEW i \in 1 .. Len(toks) + 1, NEW j \in 0 .. Len(toks)
  PROVE  LET T == Splits(toks, i, j)  h == LastOf(T) IN
         Mean(toks, flags, i, j) =
           IF i > j THEN Fails
           ELSE IF T # {}
           THEN Joined(Mean(toks, flags, i, h - 1), toks[h].t, Mean(toks, flags, h + 1, j), flags)
           ELSE IF toks[i].t \in {"-", "+", "~"}
           THEN Signed(toks[i].t, Mean(toks, flags, i + 1, j), flags)
           ELSE IF toks[i].t = "(" /\ toks[j].t = ")" THEN Mean(toks, flags, i + 1, j - 1)
           ELSE IF i = j /\ toks[i].t \in {"lit", "ref"} THEN Atom(toks[i]) ELSE Fails
<1> DEFINE F == Meaning(toks, flags)
           p == <<i, j>>
<1>1. p \in Intervals(toks) /\ p[1] = i /\ p[2] = j
  BY DEF Intervals
<1>2. F[p] = MeansBy(toks, flags, F, p)
  BY <1>1, MeaningSolves
<1>3. \A a, b : Mean(toks, flags, a, b) = F[<<a, b>>]
  BY DEF Mean
<1>4. F[<<i, j>>] = F[p]
  OBVIOUS
<1> HIDE DEF F, p
<1> QED
  BY <1>1, <1>2, <1>3, <1>4 DEF MeansBy

LEMMA LastIs ==
  ASSUME NEW S, S \subseteq Int, NEW m \in S, \A g \in S : g <= m
  PROVE  LastOf(S) = m
<1>1. LastOf(S) \in S /\ \A g \in S : g <= LastOf(S)
  BY Zenon DEF LastOf
<1>2. LastOf(S) \in Int /\ m \in Int /\ m <= LastOf(S) /\ LastOf(S) <= m
  BY <1>1
<1> HIDE DEF LastOf
<1> QED
  BY <1>2

LEMMA BalanceZero ==
  ASSUME NEW toks PROVE Balance(toks, 0) = 0
<1>1. \A c : {g \in 1 .. 0 : toks[g].t = c} = {}
  OBVIOUS
<1>2. Cardinality({}) = 0
  BY FS_EmptySet
<1> QED
  BY <1>1, <1>2 DEF Balance

(* The same tokens, d places further on.                                   *)
Moved(toks, new, lo, hi, d) ==
  /\ Len(toks) \in Nat /\ Len(new) \in Nat /\ d \in Int
  /\ lo \in 1 .. Len(toks) + 1 /\ hi \in 0 .. Len(toks) /\ lo <= hi + 1
  /\ lo + d \in 1 .. Len(new) + 1 /\ hi + d \in 0 .. Len(new)
  /\ \A k \in lo .. hi : new[k + d] = toks[k]

LEMMA BalanceMoved ==
  ASSUME NEW toks, NEW new, NEW lo, NEW hi, NEW d, Moved(toks, new, lo, hi, d),
         NEW h \in lo - 1 .. hi
  PROVE  Balance(new, h + d) - Balance(toks, h) = Balance(new, (lo - 1) + d) - Balance(toks, lo - 1)
<1> DEFINE B(k) == Balance(toks, k)
           C(k) == Balance(new, k)
           Bad == {k \in Nat : k \in lo - 1 .. hi /\ C(k + d) - B(k) # C((lo - 1) + d) - B(lo - 1)}
<1>1. lo \in Nat /\ hi \in Nat /\ lo >= 1 /\ lo <= hi + 1 /\ d \in Int /\ lo + d >= 1
  BY DEF Moved
<1>2. SUFFICES ASSUME Bad # {} PROVE FALSE
  <2>1. h \in Nat
    BY <1>1
  <2> QED
    BY <2>1
<1>3. PICK m \in Bad : \A k \in Bad : m <= k
  BY <1>2, NatMin
<1>4. m \in Nat /\ m \in lo - 1 .. hi /\ m # lo - 1
  BY <1>3
<1>5. m \in lo .. hi /\ m - 1 \in Nat /\ m - 1 \in lo - 1 .. hi /\ ~(m <= m - 1)
      /\ m + d \in Nat /\ m + d >= 1 /\ (m - 1) + d = (m + d) - 1 /\ m >= 1
  BY <1>1, <1>4
<1>6. m - 1 \notin Bad
  BY <1>3, <1>5, Zenon
<1>7. C((m - 1) + d) - B(m - 1) = C((lo - 1) + d) - B(lo - 1)
  BY <1>5, <1>6
<1>8. new[m + d] = toks[m]
  BY <1>5 DEF Moved
<1>9. /\ B(m) \in Int /\ B(m - 1) \in Int
      /\ B(m) = B(m - 1) + (IF toks[m].t = "(" THEN 1 ELSE IF toks[m].t = ")" THEN -1 ELSE 0)
  BY <1>4, <1>5, BalanceInt
<1>10. /\ C(m + d) \in Int /\ C((m + d) - 1) \in Int
       /\ C(m + d) = C((m + d) - 1)
            + (IF toks[m].t = "(" THEN 1 ELSE IF toks[m].t = ")" THEN -1 ELSE 0)
  <2>1. (m + d) - 1 \in Nat
    BY <1>5
  <2> QED
    BY <1>5, <1>8, <2>1, BalanceInt
<1>11. C(m + d) - B(m) # C((lo - 1) + d) - B(lo - 1)
  BY <1>3
<1> HIDE DEF B, C
<1>12. C((lo - 1) + d) \in Int /\ B(lo - 1) \in Int
  <2>1. lo - 1 \in Nat /\ (lo - 1) + d \in Nat
    BY <1>1
  <2> QED
    BY <2>1, BalanceInt DEF B, C
<1> QED
  BY <1>5, <1>7, <1>9, <1>10, <1>11, <1>12

LEMMA SplitsMoved ==
  ASSUME NEW toks, NEW new, NEW lo, NEW hi, NEW d, Moved(toks, new, lo, hi, d),
         NEW i \in lo .. hi + 1, NEW j \in lo - 1 .. hi, NEW h \in Int
  PROVE  h \in Splits(toks, i, j) <=> h + d \in Splits(new, i + d, j + d)
<1>1. /\ lo \in Nat /\ hi \in Nat /\ lo >= 1 /\ lo <= hi + 1 /\ d \in Int /\ lo + d >= 1
      /\ i \in Nat /\ j \in Int /\ i + d \in Nat /\ hi + d \in Nat
  BY DEF Moved
<1>2. h \in i + 1 .. j <=> h + d \in (i + d) + 1 .. j + d
  BY <1>1
<1>3. SUFFICES ASSUME h \in i + 1 .. j
               PROVE  h \in Splits(toks, i, j) <=> h + d \in Splits(new, i + d, j + d)
  BY <1>2 DEF Splits
<1>4. new[h + d] = toks[h] /\ new[(h + d) - 1] = toks[h - 1]
  <2>1. h \in lo .. hi /\ h - 1 \in lo .. hi /\ (h - 1) + d = (h + d) - 1
    BY <1>1, <1>3
  <2> QED
    BY <2>1 DEF Moved
<1>5. Balance(toks, h) = Balance(toks, i - 1) <=> Balance(new, h + d) = Balance(new, (i + d) - 1)
  <2>1. h \in lo - 1 .. hi /\ i - 1 \in lo - 1 .. hi /\ (i - 1) + d = (i + d) - 1
    BY <1>1, <1>3
  <2>2. Balance(new, h + d) - Balance(toks, h) = Balance(new, (i + d) - 1) - Balance(toks, i - 1)
    BY <2>1, BalanceMoved
  <2>3. h \in Nat /\ i - 1 \in Nat /\ h + d \in Nat /\ (i + d) - 1 \in Nat
    BY <1>1, <1>3
  <2>4. /\ Balance(toks, h) \in Int /\ Balance(toks, i - 1) \in Int
        /\ Balance(new, h + d) \in Int /\ Balance(new, (i + d) - 1) \in Int
    BY <2>3, BalanceInt
  <2> QED
    BY <2>2, <2>4
<1> QED
  BY <1>2, <1>3, <1>4, <1>5 DEF Splits

LEMMA MeanMoved ==
  ASSUME NEW toks, NEW new, NEW flags, NEW lo, NEW hi, NEW d, Moved(toks, new, lo, hi, d)
  PROVE  Mean(new, flags, lo + d, hi + d) = Mean(toks, flags, lo, hi)
<1> DEFINE n == Len(toks)
           M(a, b) == Mean(toks, flags, a, b)
           N(a, b) == Mean(new, flags, a, b)
           Bad == {s \in Nat : \E a \in lo .. hi + 1, b \in lo - 1 .. hi :
                                 a <= b /\ s = b - a /\ N(a + d, b + d) # M(a, b)}
<1>1. /\ lo \in Nat /\ hi \in Nat /\ lo >= 1 /\ lo <= hi + 1 /\ d \in Int
      /\ lo + d \in 1 .. Len(new) + 1 /\ hi + d \in 0 .. Len(new) /\ n \in Nat /\ Len(new) \in Nat
      /\ lo <= n + 1 /\ hi <= n
  BY DEF Moved
<1>2. \A a \in lo .. hi + 1, b \in lo - 1 .. hi :
        /\ a \in 1 .. n + 1 /\ b \in 0 .. n /\ a \in Nat /\ b \in Nat
        /\ a + d \in 1 .. Len(new) + 1 /\ b + d \in 0 .. Len(new)
        /\ a + d > b + d <=> a > b
  BY <1>1
<1>3. ASSUME NEW a \in lo .. hi + 1, NEW b \in lo - 1 .. hi, a > b
      PROVE  N(a + d, b + d) = M(a, b)
  <2>1. a + d > b + d
    BY <1>2, <1>3
  <2>2. M(a, b) = Fails
    BY <1>1, <1>2, <1>3, MeanIs
  <2>3. N(a + d, b + d) = Fails
    BY <1>1, <1>2, <2>1, MeanIs
  <2> QED
    BY <2>2, <2>3
<1>4. SUFFICES ASSUME NEW a \in lo .. hi + 1, NEW b \in lo - 1 .. hi, a <= b,
                      \A c \in lo .. hi + 1, e \in lo - 1 .. hi :
                        e - c < b - a => N(c + d, e + d) = M(c, e)
               PROVE  N(a + d, b + d) = M(a, b)
  <2> HIDE DEF M, N
  <2>1. SUFFICES ASSUME N(lo + d, hi + d) # M(lo, hi) PROVE FALSE
    BY DEF M, N
  <2>2. lo \in lo .. hi + 1 /\ hi \in lo - 1 .. hi
    BY <1>1
  <2>3. lo <= hi /\ hi - lo \in Nat
    BY <1>1, <1>3, <2>1, <2>2
  <2>4. hi - lo \in Bad
    BY <2>1, <2>2, <2>3
  <2>5. PICK m \in Bad : \A s \in Bad : m <= s
    BY <2>4, NatMin
  <2>6. PICK a \in lo .. hi + 1, b \in lo - 1 .. hi :
          a <= b /\ m = b - a /\ N(a + d, b + d) # M(a, b)
    BY <2>5
  <2>7. ASSUME NEW c \in lo .. hi + 1, NEW e \in lo - 1 .. hi, e - c < b - a
        PROVE  N(c + d, e + d) = M(c, e)
    <3>1. CASE c > e
      BY <1>3, <3>1
    <3>2. CASE c <= e
      <4>1. e - c \in Nat /\ ~(m <= e - c)
        BY <1>2, <2>6, <2>7, <3>2
      <4>2. e - c \notin Bad
        BY <2>5, <4>1, Zenon
      <4> QED
        BY <3>2, <4>1, <4>2
    <3> QED
      BY <1>2, <3>1, <3>2
  <2> QED
    BY <1>4, <2>6, <2>7
<1> DEFINE T == Splits(toks, a, b)
           S == Splits(new, a + d, b + d)
           h == LastOf(T)
<1>5. /\ a \in 1 .. n + 1 /\ b \in 0 .. n /\ a \in Nat /\ b \in Nat /\ ~(a > b)
      /\ a + d \in 1 .. Len(new) + 1 /\ b + d \in 0 .. Len(new) /\ ~(a + d > b + d)
      /\ a + d \in Nat /\ b + d \in Nat
  BY <1>1, <1>2, <1>4
<1>6. \A k \in Int : k \in T <=> k + d \in S
  BY SplitsMoved
<1>7. T \subseteq Int /\ S \subseteq Int
  BY <1>5 DEF Splits
<1>8. new[a + d] = toks[a] /\ new[b + d] = toks[b]
  <2>1. a \in lo .. hi /\ b \in lo .. hi
    BY <1>1, <1>4, <1>5
  <2> QED
    BY <2>1 DEF Moved
<1>9. M(a, b) = IF T # {} THEN Joined(M(a, h - 1), toks[h].t, M(h + 1, b), flags)
                ELSE IF toks[a].t \in {"-", "+", "~"} THEN Signed(toks[a].t, M(a + 1, b), flags)
                ELSE IF toks[a].t = "(" /\ toks[b].t = ")" THEN M(a + 1, b - 1)
                ELSE IF a = b /\ toks[a].t \in {"lit", "ref"} THEN Atom(toks[a]) ELSE Fails
  BY <1>1, <1>5, MeanIs
<1>10. N(a + d, b + d) =
         IF S # {} THEN Joined(N(a + d, LastOf(S) - 1), new[LastOf(S)].t,
                               N(LastOf(S) + 1, b + d), flags)
         ELSE IF toks[a].t \in {"-", "+", "~"} THEN Signed(toks[a].t, N((a + d) + 1, b + d), flags)
         ELSE IF toks[a].t = "(" /\ toks[b].t = ")" THEN N((a + d) + 1, (b + d) - 1)
         ELSE IF a + d = b + d /\ toks[a].t \in {"lit", "ref"} THEN Atom(toks[a]) ELSE Fails
  BY <1>1, <1>5, <1>8, MeanIs
<1>11. T # {} => h \in T /\ h \in a + 1 .. b /\ \A g \in T : g <= h
  BY <1>5, SplitFacts
<1> HIDE DEF T, S, h, M, N
<1>12. CASE T # {}
  <2>1. h \in a + 1 .. b /\ h \in Int
    BY <1>11, <1>12
  <2>2. S # {} /\ LastOf(S) = h + d
    <3>1. h + d \in S
      BY <1>6, <1>11, <1>12, <2>1
    <3>2. \A g \in S : g <= h + d
      <4>1. TAKE g \in S
      <4>2. g \in Int /\ g - d \in Int /\ (g - d) + d = g
        BY <1>1, <1>7
      <4>3. g - d \in T
        BY <1>6, <4>2
      <4> QED
        BY <1>1, <1>11, <1>12, <2>1, <4>2, <4>3
    <3> QED
      BY <1>7, <3>1, <3>2, LastIs
  <2>3. N(a + d, (h + d) - 1) = M(a, h - 1)
    <3>1. h - 1 \in lo - 1 .. hi /\ h - 1 - a < b - a /\ (h + d) - 1 = (h - 1) + d
      BY <1>1, <1>5, <2>1
    <3> QED
      BY <1>4, <3>1
  <2>4. N((h + d) + 1, b + d) = M(h + 1, b)
    <3>1. h + 1 \in lo .. hi + 1 /\ b - (h + 1) < b - a /\ (h + d) + 1 = (h + 1) + d
      BY <1>1, <1>5, <2>1
    <3> QED
      BY <1>4, <3>1
  <2>5. new[h + d] = toks[h]
    <3>1. h \in lo .. hi
      BY <1>1, <1>5, <2>1
    <3> QED
      BY <3>1 DEF Moved
  <2> QED
    BY <1>9, <1>10, <1>12, <2>2, <2>3, <2>4, <2>5
<1>13. CASE T = {}
  <2>1. S = {}
    <3>1. \A g \in S : g - d \in Int /\ (g - d) + d = g
      BY <1>1, <1>7
    <3> QED
      BY <1>6, <1>13, <3>1
  <2>2. N((a + d) + 1, b + d) = M(a + 1, b)
    <3>1. a + 1 \in lo .. hi + 1 /\ b - (a + 1) < b - a /\ (a + d) + 1 = (a + 1) + d
      BY <1>1, <1>4, <1>5
    <3> QED
      BY <1>4, <3>1
  <2>3. N((a + d) + 1, (b + d) - 1) = M(a + 1, b - 1)
    <3>1. /\ a + 1 \in lo .. hi + 1 /\ b - 1 \in lo - 1 .. hi /\ b - 1 - (a + 1) < b - a
          /\ (a + d) + 1 = (a + 1) + d /\ (b + d) - 1 = (b - 1) + d
      BY <1>1, <1>4, <1>5
    <3> QED
      BY <1>4, <3>1
  <2>4. a + d = b + d <=> a = b
    BY <1>1, <1>5
  <2> QED
    BY <1>9, <1>10, <1>13, <2>1, <2>2, <2>3, <2>4
<1> QED
  BY <1>12, <1>13

-----------------------------------------------------------------------------
(* The same value, or none on both sides.                                  *)
Agree(r, s) == (r.out = "ok" <=> s.out = "ok") /\ (r.out = "ok" => r = s)

LEMMA JoinedAgree ==
  ASSUME NEW l, NEW l1, NEW r, NEW r1, NEW op, NEW flags, Agree(l, l1), Agree(r, r1)
  PROVE  Agree(Joined(l, op, r, flags), Joined(l1, op, r1, flags))
BY DEF Agree, Joined

LEMMA SignedAgree ==
  ASSUME NEW r, NEW r1, NEW op, NEW flags, Agree(r, r1)
  PROVE  Agree(Signed(op, r, flags), Signed(op, r1, flags))
BY DEF Agree, Signed

(* The tokens from p to p + d are replaced by one that means the same.     *)
Spliced(toks, new, p, d) ==
  /\ Len(toks) \in Nat /\ Len(new) \in Nat /\ Len(toks) = Len(new) + d /\ d \in Nat
  /\ p \in 1 .. Len(new)
  /\ \A k \in 1 .. p - 1 : new[k] = toks[k]
  /\ \A k \in (p + d) + 1 .. Len(toks) : new[k - d] = toks[k]
Replaced(toks, new, p, d) ==
  /\ Spliced(toks, new, p, d)
  /\ new[p].t \in {"lit", "ref"} /\ Closes(toks[p + d])
  /\ Balance(toks, p + d) = Balance(toks, p - 1)

LEMMA SplicedMoved ==
  ASSUME NEW toks, NEW new, NEW p, NEW d, Spliced(toks, new, p, d)
  PROVE  Moved(toks, new, 1, p - 1, 0) /\ Moved(toks, new, (p + d) + 1, Len(toks), -d)
<1> DEFINE n == Len(toks)
<1>1. /\ n \in Nat /\ Len(new) \in Nat /\ n = Len(new) + d /\ d \in Nat
      /\ p \in Nat /\ p >= 1 /\ p <= Len(new)
  BY DEF Spliced
<1>2. /\ -d \in Int /\ (p + d) + 1 \in 1 .. n + 1 /\ n \in 0 .. n /\ (p + d) + 1 <= n + 1
      /\ ((p + d) + 1) + (-d) \in 1 .. Len(new) + 1 /\ n + (-d) \in 0 .. Len(new)
  BY <1>1
<1>3. \A k \in (p + d) + 1 .. n : k + (-d) = k - d
  BY <1>1
<1>4. \A k \in (p + d) + 1 .. n : new[k + (-d)] = toks[k]
  BY <1>3 DEF Spliced
<1>5. Moved(toks, new, (p + d) + 1, n, -d)
  BY <1>1, <1>2, <1>4 DEF Moved
<1>6. /\ 0 \in Int /\ 1 \in 1 .. n + 1 /\ p - 1 \in 0 .. n /\ 1 <= (p - 1) + 1
      /\ 1 + 0 \in 1 .. Len(new) + 1 /\ (p - 1) + 0 \in 0 .. Len(new)
  BY <1>1
<1>7. \A k \in 1 .. p - 1 : k + 0 = k
  BY <1>1
<1>8. \A k \in 1 .. p - 1 : new[k + 0] = toks[k]
  BY <1>7 DEF Spliced
<1>9. Moved(toks, new, 1, p - 1, 0)
  BY <1>1, <1>6, <1>8 DEF Moved
<1> QED
  BY <1>5, <1>9

LEMMA BalanceReplaced ==
  ASSUME NEW toks, NEW new, NEW p, NEW d, Replaced(toks, new, p, d)
  PROVE  /\ \A h \in 0 .. p - 1 : Balance(new, h) = Balance(toks, h)
         /\ \A h \in p + d .. Len(toks) : Balance(new, h - d) = Balance(toks, h)
<1> DEFINE n == Len(toks)
<1>1. /\ n \in Nat /\ Len(new) \in Nat /\ n = Len(new) + d /\ d \in Nat
      /\ p \in 1 .. Len(new) /\ p \in Nat /\ p >= 1 /\ p + d <= n
  BY DEF Replaced, Spliced
<1>2. Moved(toks, new, 1, p - 1, 0) /\ Moved(toks, new, (p + d) + 1, n, -d)
  BY SplicedMoved DEF Replaced
<1>4. ASSUME NEW h \in 0 .. p - 1 PROVE Balance(new, h) = Balance(toks, h)
  <2>1. h \in 1 - 1 .. p - 1 /\ h + 0 = h /\ (1 - 1) + 0 = 0 /\ 1 - 1 = 0 /\ h \in Nat
    BY <1>1
  <2>2. Balance(new, h) - Balance(toks, h) = Balance(new, 0) - Balance(toks, 0)
    BY <1>2, <2>1, BalanceMoved
  <2>3. Balance(new, 0) = 0 /\ Balance(toks, 0) = 0
    BY BalanceZero
  <2>4. Balance(new, h) \in Int /\ Balance(toks, h) \in Int
    BY <2>1, BalanceInt
  <2>5. Balance(new, h) - Balance(toks, h) = 0
    BY <2>2, <2>3
  <2>6. \A x, y \in Int : x - y = 0 => x = y
    OBVIOUS
  <2> QED
    BY <2>4, <2>5, <2>6
<1>5. ASSUME NEW h \in p + d .. n PROVE Balance(new, h - d) = Balance(toks, h)
  <2>1. /\ h \in ((p + d) + 1) - 1 .. n /\ h + (-d) = h - d
        /\ (((p + d) + 1) - 1) + (-d) = p /\ ((p + d) + 1) - 1 = p + d
        /\ h \in Nat /\ h - d \in Nat /\ p + d \in Nat /\ p - 1 \in Nat /\ p - 1 \in 0 .. p - 1
    BY <1>1
  <2>2. Balance(new, h - d) - Balance(toks, h) = Balance(new, p) - Balance(toks, p + d)
    BY <1>2, <2>1, BalanceMoved
  <2>3. Balance(new, p) = Balance(new, p - 1)
    <3>1. new[p].t # "(" /\ new[p].t # ")"
      BY DEF Replaced, Spliced
    <3>2. Balance(new, p - 1) \in Int
      BY <2>1, BalanceInt
    <3>3. Balance(new, p) = Balance(new, p - 1)
            + (IF new[p].t = "(" THEN 1 ELSE IF new[p].t = ")" THEN -1 ELSE 0)
      BY <1>1, BalanceInt
    <3> QED
      BY <3>1, <3>2, <3>3
  <2>4. Balance(new, p - 1) = Balance(toks, p - 1)
    BY <1>4, <2>1
  <2>5. Balance(toks, p + d) = Balance(toks, p - 1)
    BY DEF Replaced, Spliced
  <2>6. Balance(toks, h) \in Int /\ Balance(new, h - d) \in Int /\ Balance(toks, p - 1) \in Int
    BY <2>1, BalanceInt
  <2> QED
    BY <2>2, <2>3, <2>4, <2>5, <2>6
<1> QED
  BY <1>4, <1>5

LEMMA SplitsReplaced ==
  ASSUME NEW toks, NEW new, NEW p, NEW d, Replaced(toks, new, p, d),
         NEW i \in 1 .. p, NEW j \in p + d .. Len(toks)
  PROVE  /\ \A h \in i + 1 .. p - 1 : h \in Splits(toks, i, j) <=> h \in Splits(new, i, j - d)
         /\ \A h \in (p + d) + 1 .. j : h \in Splits(toks, i, j) <=> h - d \in Splits(new, i, j - d)
         /\ \A g \in Splits(new, i, j - d) : g \in i + 1 .. p - 1 \/ g + d \in (p + d) + 1 .. j
         /\ \A h \in Splits(toks, i, j) :
              h \in i + 1 .. p - 1 \/ h \in p .. p + d \/ h \in (p + d) + 1 .. j
<1> DEFINE n == Len(toks)
<1>1. /\ n \in Nat /\ Len(new) \in Nat /\ n = Len(new) + d /\ d \in Nat
      /\ p \in 1 .. Len(new) /\ p \in Nat /\ p >= 1 /\ p + d <= n
      /\ i \in Nat /\ j \in Nat /\ i >= 1 /\ i <= p /\ p + d <= j /\ j <= n
  BY DEF Replaced, Spliced
<1>2. Balance(new, i - 1) = Balance(toks, i - 1)
  <2>1. i - 1 \in 0 .. p - 1
    BY <1>1
  <2> QED
    BY <2>1, BalanceReplaced
<1>3. ASSUME NEW h \in i + 1 .. p - 1
      PROVE  h \in Splits(toks, i, j) <=> h \in Splits(new, i, j - d)
  <2>1. /\ h \in 1 .. p - 1 /\ h - 1 \in 1 .. p - 1 /\ h \in 0 .. p - 1
        /\ h \in i + 1 .. j /\ h \in i + 1 .. j - d
    BY <1>1
  <2>2. new[h] = toks[h] /\ new[h - 1] = toks[h - 1]
    BY <2>1 DEF Replaced, Spliced
  <2>3. Balance(new, h) = Balance(toks, h)
    BY <2>1, BalanceReplaced
  <2> QED
    BY <1>2, <2>1, <2>2, <2>3 DEF Splits
<1>4. ASSUME NEW h \in (p + d) + 1 .. j
      PROVE  h \in Splits(toks, i, j) <=> h - d \in Splits(new, i, j - d)
  <2>1. /\ h \in (p + d) + 1 .. n /\ h \in p + d .. n /\ h \in Int
        /\ h \in i + 1 .. j /\ h - d \in i + 1 .. j - d
    BY <1>1
  <2>2. new[h - d] = toks[h]
    BY <2>1 DEF Replaced, Spliced
  <2>3. new[(h - d) - 1].t \in {"lit", "ref", ")"} <=> toks[h - 1].t \in {"lit", "ref", ")"}
    <3>1. CASE h = (p + d) + 1
      <4>1. (h - d) - 1 = p /\ h - 1 = p + d
        BY <1>1, <2>1, <3>1
      <4> QED
        BY <4>1 DEF Replaced, Spliced, Closes
    <3>2. CASE h # (p + d) + 1
      <4>1. h - 1 \in (p + d) + 1 .. n /\ (h - d) - 1 = (h - 1) - d
        BY <1>1, <2>1, <3>2
      <4> QED
        BY <4>1 DEF Replaced, Spliced
    <3> QED
      BY <3>1, <3>2
  <2>4. Balance(new, h - d) = Balance(toks, h)
    BY <2>1, BalanceReplaced
  <2> QED
    BY <1>2, <2>1, <2>2, <2>3, <2>4 DEF Splits
<1>5. ASSUME NEW g \in Splits(new, i, j - d)
      PROVE  g \in i + 1 .. p - 1 \/ g + d \in (p + d) + 1 .. j
  <2>1. g \in i + 1 .. j - d /\ new[g].t \in Operators
    BY DEF Splits
  <2>2. g # p
    BY <2>1 DEF Replaced, Spliced, Operators, Arithmetic, Bitwise_
  <2> QED
    BY <1>1, <2>1, <2>2
<1>6. ASSUME NEW h \in Splits(toks, i, j)
      PROVE  h \in i + 1 .. p - 1 \/ h \in p .. p + d \/ h \in (p + d) + 1 .. j
  <2>1. h \in i + 1 .. j
    BY DEF Splits
  <2> QED
    BY <1>1, <2>1
<1> QED
  BY <1>3, <1>4, <1>5, <1>6

(* What the segment means by itself decides what the whole means.          *)
LEMMA MeanReplaced ==
  ASSUME NEW toks, NEW new, NEW flags, NEW p, NEW d, Replaced(toks, new, p, d),
         \A j \in p + d .. Len(toks) :
           Splits(new, p, j - d) = {} =>
             Agree(Mean(toks, flags, p, j), IF j = p + d THEN Atom(new[p]) ELSE Fails),
         \A i \in 1 .. p - 1, j \in p + d .. Len(toks) :
           \/ \A h \in p .. p + d : h \notin Splits(toks, i, j)
           \/ Mean(toks, flags, i, j).out # "ok" /\ Mean(new, flags, i, j - d).out # "ok",
         \A i \in 1 .. p - 1 :
           toks[p + d].t = ")" => Mean(toks, flags, i + 1, (p + d) - 1).out # "ok"
  PROVE  Agree(Mean(toks, flags, 1, Len(toks)), Mean(new, flags, 1, Len(new)))
<1> DEFINE n == Len(toks)
           M(a, b) == Mean(toks, flags, a, b)
           N(a, b) == Mean(new, flags, a, b)
           Bad == {s \in Nat : \E a \in 1 .. p, b \in p + d .. n :
                                 s = b - a /\ ~Agree(M(a, b), N(a, b - d))}
<1>f. Fails.out # "ok"
  BY DEF Fails
<1>1. /\ n \in Nat /\ Len(new) \in Nat /\ n = Len(new) + d /\ d \in Nat /\ Len(new) = n - d
      /\ p \in 1 .. Len(new) /\ p \in Nat /\ p >= 1 /\ p + d <= n /\ p \in 1 .. n
  BY DEF Replaced, Spliced
<1>2. SUFFICES ASSUME NEW a \in 1 .. p, NEW b \in p + d .. n,
                      \A c \in 1 .. p, e \in p + d .. n :
                        e - c < b - a => Agree(M(c, e), N(c, e - d))
               PROVE  Agree(M(a, b), N(a, b - d))
  <2> HIDE DEF M, N
  <2>1. SUFFICES ASSUME ~Agree(M(1, n), N(1, n - d)) PROVE FALSE
    BY <1>1 DEF M, N
  <2>2. 1 \in 1 .. p /\ n \in p + d .. n /\ n - 1 \in Nat
    BY <1>1
  <2>3. n - 1 \in Bad
    BY <2>1, <2>2
  <2>4. PICK m \in Bad : \A s \in Bad : m <= s
    BY <2>3, NatMin
  <2>5. PICK a \in 1 .. p, b \in p + d .. n : m = b - a /\ ~Agree(M(a, b), N(a, b - d))
    BY <2>4
  <2>6. ASSUME NEW c \in 1 .. p, NEW e \in p + d .. n, e - c < b - a
        PROVE  Agree(M(c, e), N(c, e - d))
    <3>1. e - c \in Nat /\ ~(m <= e - c)
      BY <1>1, <2>5, <2>6
    <3>2. e - c \notin Bad
      BY <2>4, <3>1, Zenon
    <3> QED
      BY <3>1, <3>2
  <2> QED
    BY <1>2, <2>5, <2>6
<1> DEFINE T == Splits(toks, a, b)
           S == Splits(new, a, b - d)
           h == LastOf(T)
           g == LastOf(S)
<1>3. /\ a \in Nat /\ b \in Nat /\ a >= 1 /\ a <= p /\ p + d <= b /\ b <= n
      /\ a \in 1 .. n + 1 /\ b \in 0 .. n /\ ~(a > b)
      /\ a \in 1 .. Len(new) + 1 /\ b - d \in 0 .. Len(new) /\ ~(a > b - d) /\ b - d \in Nat
  BY <1>1
<1>4. /\ \A k \in a + 1 .. p - 1 : k \in T <=> k \in S
      /\ \A k \in (p + d) + 1 .. b : k \in T <=> k - d \in S
      /\ \A k \in S : k \in a + 1 .. p - 1 \/ k + d \in (p + d) + 1 .. b
      /\ \A k \in T : k \in a + 1 .. p - 1 \/ k \in p .. p + d \/ k \in (p + d) + 1 .. b
  BY SplitsReplaced
<1>5. T \subseteq Int /\ S \subseteq Int
  BY <1>3 DEF Splits
<1>6. M(a, b) = IF T # {} THEN Joined(M(a, h - 1), toks[h].t, M(h + 1, b), flags)
                ELSE IF toks[a].t \in {"-", "+", "~"} THEN Signed(toks[a].t, M(a + 1, b), flags)
                ELSE IF toks[a].t = "(" /\ toks[b].t = ")" THEN M(a + 1, b - 1)
                ELSE IF a = b /\ toks[a].t \in {"lit", "ref"} THEN Atom(toks[a]) ELSE Fails
  BY <1>1, <1>3, MeanIs
<1>7. N(a, b - d) =
         IF S # {} THEN Joined(N(a, g - 1), new[g].t, N(g + 1, b - d), flags)
         ELSE IF new[a].t \in {"-", "+", "~"} THEN Signed(new[a].t, N(a + 1, b - d), flags)
         ELSE IF new[a].t = "(" /\ new[b - d].t = ")" THEN N(a + 1, (b - d) - 1)
         ELSE IF a = b - d /\ new[a].t \in {"lit", "ref"} THEN Atom(new[a]) ELSE Fails
  BY <1>1, <1>3, MeanIs
<1>8. S # {} => g \in S /\ g \in a + 1 .. b - d /\ \A k \in S : k <= g
  BY <1>3, SplitFacts
<1>11. \A r : Agree(r, r)
  BY DEF Agree
<1>12. a < p => \/ \A k \in p .. p + d : k \notin T
                \/ M(a, b).out # "ok" /\ N(a, b - d).out # "ok"
  <2>1. a < p => a \in 1 .. p - 1
    BY <1>1, <1>3
  <2> QED
    BY <2>1
<1> HIDE DEF T, S, h, g, M, N
<1>13. CASE M(a, b).out # "ok" /\ N(a, b - d).out # "ok"
  BY <1>13 DEF Agree
<1>14. CASE S # {} /\ (a = p \/ \A k \in p .. p + d : k \notin T)
  <2>1. g \in S /\ g \in Int /\ g \in a + 1 .. b - d
    BY <1>8, <1>14
  <2>2. CASE g \in a + 1 .. p - 1
    <3>1. g \in T
      BY <1>4, <2>1, <2>2
    <3>2. \A k \in T : k <= g
      <4>1. TAKE k \in T
      <4>2. a # p
        BY <1>1, <1>3, <2>2
      <4>3. k \in a + 1 .. p - 1 \/ k \in (p + d) + 1 .. b
        BY <1>4, <1>14, <4>2
      <4>4. CASE k \in a + 1 .. p - 1
        BY <1>4, <1>8, <1>14, <4>4
      <4>5. CASE k \in (p + d) + 1 .. b
        <5>1. k - d \in S
          BY <1>4, <4>5
        <5>2. k - d <= g /\ k - d > p
          BY <1>1, <1>8, <1>14, <4>5, <5>1
        <5> QED
          BY <1>1, <2>1, <2>2, <5>2, <4>5
      <4> QED
        BY <4>3, <4>4, <4>5
    <3>3. h = g /\ T # {}
      BY <1>5, <3>1, <3>2, LastIs DEF h
    <3>4. toks[g] = new[g]
      <4>1. g \in 1 .. p - 1
        BY <1>1, <1>3, <2>2
      <4> QED
        BY <4>1 DEF Replaced, Spliced
    <3>5. M(a, g - 1) = N(a, g - 1)
      <4>1. Moved(toks, new, a, g - 1, 0)
        BY <1>1, <1>3, <2>2 DEF Moved, Replaced, Spliced
      <4>2. a + 0 = a /\ (g - 1) + 0 = g - 1
        BY <1>3, <2>1
      <4>3. Mean(new, flags, a + 0, (g - 1) + 0) = Mean(toks, flags, a, g - 1)
        BY <4>1, MeanMoved
      <4> QED
        BY <4>2, <4>3 DEF M, N
    <3>6. Agree(M(g + 1, b), N(g + 1, b - d))
      <4>1. g + 1 \in 1 .. p /\ b - (g + 1) < b - a
        BY <1>1, <1>3, <2>2
      <4> QED
        BY <1>2, <4>1
    <3>7. Agree(Joined(M(a, g - 1), toks[g].t, M(g + 1, b), flags),
                Joined(N(a, g - 1), new[g].t, N(g + 1, b - d), flags))
      BY <1>11, <3>4, <3>5, <3>6, JoinedAgree
    <3> QED
      BY <1>6, <1>7, <1>14, <3>3, <3>7
  <2>3. CASE g + d \in (p + d) + 1 .. b
    <3>a. (g + d) - d = g /\ g + d \in Int
      BY <1>1, <2>1
    <3>1. g + d \in T
      BY <1>4, <2>1, <2>3, <3>a
    <3>2. \A k \in T : k <= g + d
      <4>1. TAKE k \in T
      <4>2. k \in a + 1 .. p - 1 \/ k \in p .. p + d \/ k \in (p + d) + 1 .. b
        BY <1>4
      <4>3. CASE k \in (p + d) + 1 .. b
        <5>1. k - d \in S
          BY <1>4, <4>3
        <5>2. k - d <= g
          BY <1>8, <1>14, <5>1
        <5> QED
          BY <1>1, <2>1, <4>3, <5>2
      <4>4. CASE k \in a + 1 .. p - 1 \/ k \in p .. p + d
        BY <1>1, <1>3, <2>1, <2>3, <4>4
      <4> QED
        BY <4>2, <4>3, <4>4
    <3>3. h = g + d /\ T # {}
      BY <1>5, <3>1, <3>2, LastIs DEF h
    <3>4. toks[g + d] = new[g]
      <4>1. g + d \in (p + d) + 1 .. n
        BY <1>1, <1>3, <2>1, <2>3
      <4>2. new[(g + d) - d] = toks[g + d]
        BY <4>1 DEF Replaced, Spliced
      <4> QED
        BY <3>a, <4>2
    <3>5. Agree(M(a, (g + d) - 1), N(a, g - 1))
      <4>1. (g + d) - 1 \in p + d .. n /\ ((g + d) - 1) - a < b - a /\ ((g + d) - 1) - d = g - 1
        BY <1>1, <1>3, <2>1, <2>3
      <4> QED
        BY <1>2, <4>1
    <3>6. M((g + d) + 1, b) = N(g + 1, b - d)
      <4>1. Moved(toks, new, (g + d) + 1, b, -d)
        <5>1. \A k \in (g + d) + 1 .. b : k \in (p + d) + 1 .. n /\ k + (-d) = k - d
          BY <1>1, <1>3, <2>1, <2>3
        <5>2. \A k \in (g + d) + 1 .. b : new[k + (-d)] = toks[k]
          BY <5>1 DEF Replaced, Spliced
        <5> QED
          BY <1>1, <1>3, <2>1, <2>3, <5>2 DEF Moved
      <4>2. ((g + d) + 1) + (-d) = g + 1 /\ b + (-d) = b - d
        BY <1>1, <1>3, <2>1
      <4>3. Mean(new, flags, ((g + d) + 1) + (-d), b + (-d)) = Mean(toks, flags, (g + d) + 1, b)
        BY <4>1, MeanMoved
      <4> QED
        BY <4>2, <4>3 DEF M, N
    <3>7. Agree(Joined(M(a, (g + d) - 1), toks[g + d].t, M((g + d) + 1, b), flags),
                Joined(N(a, g - 1), new[g].t, N(g + 1, b - d), flags))
      BY <1>11, <3>4, <3>5, <3>6, JoinedAgree
    <3> QED
      BY <1>6, <1>7, <1>14, <3>3, <3>7
  <2> QED
    BY <1>4, <2>1, <2>2, <2>3
<1>15. CASE S = {} /\ a = p
  <2>1. Agree(M(p, b), IF b = p + d THEN Atom(new[p]) ELSE Fails)
    BY <1>15 DEF M, S
  <2>2. new[p].t \in {"lit", "ref"}
    BY DEF Replaced, Spliced
  <2>3. b = p + d <=> p = b - d
    BY <1>1, <1>3
  <2>4. N(p, b - d) = IF b = p + d THEN Atom(new[p]) ELSE Fails
    BY <1>7, <1>15, <2>2, <2>3
  <2> QED
    BY <1>15, <2>1, <2>4
<1>16. CASE S = {} /\ a < p /\ \A k \in p .. p + d : k \notin T
  <2>1. T = {}
    BY <1>4, <1>16
  <2>2. new[a] = toks[a]
    <3>1. a \in 1 .. p - 1
      BY <1>1, <1>3, <1>16
    <3> QED
      BY <3>1 DEF Replaced, Spliced
  <2>3. Agree(M(a + 1, b), N(a + 1, b - d))
    <3>1. a + 1 \in 1 .. p /\ b - (a + 1) < b - a
      BY <1>1, <1>3, <1>16
    <3> QED
      BY <1>2, <3>1
  <2>4. a # b /\ a # b - d
    BY <1>1, <1>3, <1>16
  <2>5. CASE toks[a].t \in {"-", "+", "~"}
    <3>1. Agree(Signed(toks[a].t, M(a + 1, b), flags), Signed(toks[a].t, N(a + 1, b - d), flags))
      BY <2>3, SignedAgree
    <3> QED
      BY <1>6, <1>7, <1>16, <2>1, <2>2, <2>5, <3>1
  <2>6. CASE toks[a].t \notin {"-", "+", "~"} /\ b = p + d
    <3>1. b - d = p /\ new[p].t \in {"lit", "ref"}
      BY <1>1, <2>6 DEF Replaced, Spliced
    <3>2. N(a, b - d) = Fails
      BY <1>7, <1>16, <2>2, <2>4, <2>6, <3>1
    <3>3. M(a, b).out # "ok"
      <4>1. CASE toks[a].t = "(" /\ toks[b].t = ")"
        <5>1. a \in 1 .. p - 1 /\ b - 1 = (p + d) - 1
          BY <1>1, <1>3, <1>16, <2>6
        <5>2. M(a + 1, b - 1).out # "ok"
          BY <2>6, <4>1, <5>1 DEF M
        <5> QED
          BY <1>6, <2>1, <2>6, <4>1, <5>2
      <4>2. CASE ~(toks[a].t = "(" /\ toks[b].t = ")")
        BY <1>6, <1>f, <2>1, <2>4, <2>6, <4>2
      <4> QED
        BY <4>1, <4>2
    <3> QED
      BY <1>f, <3>2, <3>3 DEF Agree
  <2>7. CASE toks[a].t \notin {"-", "+", "~"} /\ b # p + d
    <3>1. new[b - d] = toks[b]
      <4>1. b \in (p + d) + 1 .. n
        BY <1>1, <1>3, <2>7
      <4> QED
        BY <4>1 DEF Replaced, Spliced
    <3>2. Agree(M(a + 1, b - 1), N(a + 1, (b - d) - 1))
      <4>1. /\ a + 1 \in 1 .. p /\ b - 1 \in p + d .. n /\ (b - 1) - (a + 1) < b - a
            /\ (b - 1) - d = (b - d) - 1
        BY <1>1, <1>3, <1>16, <2>7
      <4> QED
        BY <1>2, <4>1
    <3> QED
      BY <1>6, <1>7, <1>11, <1>16, <2>1, <2>2, <2>4, <2>7, <3>1, <3>2
  <2> QED
    BY <2>5, <2>6, <2>7
<1> QED
  BY <1>1, <1>3, <1>12, <1>13, <1>14, <1>15, <1>16

-----------------------------------------------------------------------------
(* In an expression that means something, every name does.                 *)
LEMMA OkAtoms ==
  ASSUME NEW toks, Len(toks) \in Nat, NEW flags,
         NEW i \in 1 .. Len(toks) + 1, NEW j \in 0 .. Len(toks),
         Mean(toks, flags, i, j).out = "ok",
         NEW k \in i .. j, toks[k].t \in {"lit", "ref"}
  PROVE  Atom(toks[k]).out = "ok"
<1> DEFINE n == Len(toks)
           M(a, b) == Mean(toks, flags, a, b)
           Bad == {s \in Nat : \E a \in 1 .. n + 1, b \in 0 .. n :
                                 k \in a .. b /\ s = b - a /\ M(a, b).out = "ok"}
<1>f. Fails.out # "ok"
  BY DEF Fails
<1>1. SUFFICES ASSUME Atom(toks[k]).out # "ok" PROVE FALSE
  OBVIOUS
<1>2. j - i \in Nat
  OBVIOUS
<1>3. j - i \in Bad
  BY <1>2
<1>4. PICK m \in Bad : \A s \in Bad : m <= s
  BY <1>3, NatMin
<1>5. PICK a \in 1 .. n + 1, b \in 0 .. n : k \in a .. b /\ m = b - a /\ M(a, b).out = "ok"
  BY <1>4
<1>6. ASSUME NEW c \in 1 .. n + 1, NEW e \in 0 .. n, k \in c .. e, e - c < b - a
      PROVE  M(c, e).out # "ok"
  <2>1. e - c \in Nat /\ ~(m <= e - c)
    BY <1>5, <1>6
  <2>2. e - c \notin Bad
    BY <1>4, <2>1, Zenon
  <2> QED
    BY <1>6, <2>1, <2>2
<1> DEFINE T == Splits(toks, a, b)
           h == LastOf(T)
<1>7. a \in Nat /\ b \in Nat /\ n \in Nat /\ ~(a > b)
      /\ a <= k /\ k <= b /\ k \in Int /\ a <= n /\ b >= 1
  BY <1>5
<1>8. M(a, b) = IF T # {} THEN Joined(M(a, h - 1), toks[h].t, M(h + 1, b), flags)
                ELSE IF toks[a].t \in {"-", "+", "~"} THEN Signed(toks[a].t, M(a + 1, b), flags)
                ELSE IF toks[a].t = "(" /\ toks[b].t = ")" THEN M(a + 1, b - 1)
                ELSE IF a = b /\ toks[a].t \in {"lit", "ref"} THEN Atom(toks[a]) ELSE Fails
  BY <1>7, MeanIs
<1>9. T # {} => h \in a + 1 .. b /\ toks[h].t \in Operators
  <2>1. T # {} => h \in T
    BY <1>7, SplitFacts
  <2> HIDE DEF h
  <2> QED
    BY <2>1 DEF Splits
<1> HIDE DEF T, h, M
<1>10. CASE T # {}
  <2>1. h # k /\ h \in Int /\ a + 1 <= h /\ h <= b
    BY <1>7, <1>9, <1>10 DEF Operators, Arithmetic, Bitwise_
  <2>2. M(a, h - 1).out = "ok" /\ M(h + 1, b).out = "ok"
    BY <1>5, <1>8, <1>10 DEF Joined
  <2>3. CASE k < h
    <3>1. h - 1 \in 0 .. n /\ k \in a .. h - 1 /\ h - 1 - a < b - a
      BY <1>7, <2>1, <2>3
    <3> QED
      BY <1>6, <2>2, <3>1
  <2>4. CASE k > h
    <3>1. h + 1 \in 1 .. n + 1 /\ k \in h + 1 .. b /\ b - (h + 1) < b - a
      BY <1>7, <2>1, <2>4
    <3> QED
      BY <1>6, <2>2, <3>1
  <2> QED
    BY <1>7, <2>1, <2>3, <2>4
<1>11. CASE T = {} /\ toks[a].t \in {"-", "+", "~"}
  <2>1. k # a
    BY <1>11
  <2>2. M(a + 1, b).out = "ok"
    BY <1>5, <1>8, <1>11, <1>f DEF Signed
  <2>3. a + 1 \in 1 .. n + 1 /\ k \in a + 1 .. b /\ b - (a + 1) < b - a
    BY <1>7, <2>1
  <2> QED
    BY <1>6, <2>2, <2>3
<1>12. CASE T = {} /\ toks[a].t = "(" /\ toks[b].t = ")"
  <2>1. k # a /\ k # b
    BY <1>12
  <2>2. M(a + 1, b - 1).out = "ok"
    BY <1>5, <1>8, <1>12
  <2>3. a + 1 \in 1 .. n + 1 /\ b - 1 \in 0 .. n /\ k \in a + 1 .. b - 1 /\ b - 1 - (a + 1) < b - a
    BY <1>7, <2>1
  <2> QED
    BY <1>6, <2>2, <2>3
<1>13. CASE /\ T = {} /\ toks[a].t \notin {"-", "+", "~"}
            /\ ~(toks[a].t = "(" /\ toks[b].t = ")")
  <2>1. (M(a, b) = Atom(toks[a]) /\ a = b) \/ M(a, b) = Fails
    BY <1>8, <1>13
  <2>2. a = b => k = a
    BY <1>7
  <2> QED
    BY <1>1, <1>5, <1>f, <2>1, <2>2
<1> QED
  BY <1>10, <1>11, <1>12, <1>13

LEMMA AtomMean ==
  ASSUME NEW toks, Len(toks) \in Nat, NEW flags,
         NEW p \in 1 .. Len(toks), NEW j \in p .. Len(toks),
         toks[p].t \in {"lit", "ref"}, Splits(toks, p, j) = {}
  PROVE  Mean(toks, flags, p, j) = IF j = p THEN Atom(toks[p]) ELSE Fails
<1>1. p \in 1 .. Len(toks) + 1 /\ j \in 0 .. Len(toks) /\ ~(p > j) /\ (j = p <=> p = j)
  OBVIOUS
<1>2. toks[p].t \notin {"-", "+", "~"} /\ toks[p].t # "("
  OBVIOUS
<1> QED
  BY <1>1, <1>2, MeanIs

(* What is left of the operators after a segment was replaced.             *)
LEMMA OnlyWithin ==
  ASSUME NEW toks, NEW new, NEW p, NEW d, Replaced(toks, new, p, d),
         NEW j \in p + d .. Len(toks), Splits(new, p, j - d) = {}
  PROVE  \A h \in Splits(toks, p, j) : h \in p + 1 .. p + d
<1>1. p \in Nat /\ d \in Nat /\ p \in 1 .. p
  BY DEF Replaced, Spliced
<1>2. TAKE h \in Splits(toks, p, j)
<1>3. h \in p + 1 .. j
  BY DEF Splits
<1>4. h \notin (p + d) + 1 .. j
  BY <1>1, SplitsReplaced
<1> QED
  BY <1>1, <1>3, <1>4

LEMMA BalanceStep ==
  ASSUME NEW toks, NEW k \in Nat, k >= 1
  PROVE  /\ Balance(toks, k - 1) \in Int /\ Balance(toks, k) \in Int
         /\ toks[k].t = "(" => Balance(toks, k) = Balance(toks, k - 1) + 1
         /\ toks[k].t = ")" => Balance(toks, k) = Balance(toks, k - 1) - 1
         /\ toks[k].t \notin {"(", ")"} => Balance(toks, k) = Balance(toks, k - 1)
<1>1. k - 1 \in Nat
  OBVIOUS
<1>2. Balance(toks, k - 1) \in Int /\ Balance(toks, k) \in Int
  BY <1>1, BalanceInt
<1>3. Balance(toks, k) = Balance(toks, k - 1)
        + (IF toks[k].t = "(" THEN 1 ELSE IF toks[k].t = ")" THEN -1 ELSE 0)
  BY BalanceInt
<1> DEFINE x == Balance(toks, k - 1)
           y == Balance(toks, k)
<1> HIDE DEF x, y
<1>4. x \in Int /\ y \in Int
      /\ y = x + (IF toks[k].t = "(" THEN 1 ELSE IF toks[k].t = ")" THEN -1 ELSE 0)
  BY <1>2, <1>3 DEF x, y
<1>5. /\ toks[k].t = "(" => y = x + 1
      /\ toks[k].t = ")" => y = x - 1
      /\ toks[k].t \notin {"(", ")"} => y = x
  BY <1>4
<1> QED
  BY <1>2, <1>5 DEF x, y

LEMMA AtomReplaced ==
  ASSUME NEW toks, NEW new, NEW flags, NEW p, Spliced(toks, new, p, 0),
         toks[p].t \in {"lit", "ref"}, new[p].t \in {"lit", "ref"},
         Agree(Atom(toks[p]), Atom(new[p]))
  PROVE  Agree(Mean(toks, flags, 1, Len(toks)), Mean(new, flags, 1, Len(new)))
<1>1. /\ Len(toks) \in Nat /\ Len(new) = Len(toks) /\ p \in 1 .. Len(toks) /\ p \in Nat
      /\ p + 0 = p /\ p >= 1 /\ p <= Len(toks)
  BY DEF Spliced
<1>2. Balance(toks, p) = Balance(toks, p - 1)
  BY <1>1, BalanceStep
<1>3. Replaced(toks, new, p, 0)
  BY <1>1, <1>2 DEF Replaced, Closes
<1>4. ASSUME NEW j \in p + 0 .. Len(toks), Splits(new, p, j - 0) = {}
      PROVE  Agree(Mean(toks, flags, p, j), IF j = p + 0 THEN Atom(new[p]) ELSE Fails)
  <2>1. \A h \in Splits(toks, p, j) : h \in p + 1 .. p + 0
    BY <1>3, <1>4, OnlyWithin
  <2>2. Splits(toks, p, j) = {}
    BY <1>1, <2>1
  <2>3. Mean(toks, flags, p, j) = IF j = p THEN Atom(toks[p]) ELSE Fails
    BY <1>1, <2>2, AtomMean
  <2> QED
    BY <1>1, <2>3 DEF Agree
<1>5. \A h \in p .. p + 0 : \A a, b : h \notin Splits(toks, a, b)
  <2>1. \A h \in p .. p + 0 : h = p
    BY <1>1
  <2>2. toks[p].t \notin Operators
    BY DEF Operators, Arithmetic, Bitwise_
  <2> QED
    BY <2>1, <2>2 DEF Splits
<1>6. toks[p + 0].t # ")"
  BY <1>1
<1> QED
  BY <1>3, <1>4, <1>5, <1>6, MeanReplaced

LEMMA SignReplaced ==
  ASSUME NEW toks, NEW new, NEW flags, NEW p, Spliced(toks, new, p, 1),
         toks[p].t \in {"-", "+", "~"}, toks[p + 1].t \in {"lit", "ref"},
         p > 1 => ~Closes(toks[p - 1]), new[p].t \in {"lit", "ref"},
         Agree(Signed(toks[p].t, Atom(toks[p + 1]), flags), Atom(new[p]))
  PROVE  Agree(Mean(toks, flags, 1, Len(toks)), Mean(new, flags, 1, Len(new)))
<1>1. /\ Len(toks) \in Nat /\ Len(new) + 1 = Len(toks) /\ p \in 1 .. Len(toks) /\ p \in Nat
      /\ p >= 1 /\ p + 1 <= Len(toks) /\ p + 1 \in 1 .. Len(toks)
      /\ p - 1 \in Nat /\ (p + 1) - 1 = p
  BY DEF Spliced
<1>2. Balance(toks, p + 1) = Balance(toks, p) /\ Balance(toks, p) = Balance(toks, p - 1)
  <2>1. Balance(toks, p) = Balance(toks, p - 1)
    BY <1>1, BalanceStep
  <2>2. Balance(toks, p + 1) = Balance(toks, (p + 1) - 1)
    BY <1>1, BalanceStep
  <2> QED
    BY <1>1, <2>1, <2>2
<1>3. Replaced(toks, new, p, 1)
  BY <1>1, <1>2 DEF Replaced, Closes
<1>4. ASSUME NEW j \in p + 1 .. Len(toks), Splits(new, p, j - 1) = {}
      PROVE  Agree(Mean(toks, flags, p, j), IF j = p + 1 THEN Atom(new[p]) ELSE Fails)
  <2>1. \A h \in Splits(toks, p, j) : h \in p + 1 .. p + 1
    BY <1>3, <1>4, OnlyWithin
  <2>2. toks[p + 1].t \notin Operators
    BY DEF Operators, Arithmetic, Bitwise_
  <2>3. p + 1 \notin Splits(toks, p, j)
    BY <2>2 DEF Splits
  <2>4. Splits(toks, p, j) = {}
    BY <1>1, <2>1, <2>3
  <2>5. Splits(toks, p + 1, j) = {}
    <3>1. \A h \in Splits(toks, p + 1, j) : h \in Splits(toks, p, j)
      BY <1>1, <1>2 DEF Splits
    <3> QED
      BY <2>4, <3>1
  <2>6. Mean(toks, flags, p + 1, j) = IF j = p + 1 THEN Atom(toks[p + 1]) ELSE Fails
    BY <1>1, <2>5, AtomMean
  <2>7. Mean(toks, flags, p, j) = Signed(toks[p].t, Mean(toks, flags, p + 1, j), flags)
    <3>1. p \in 1 .. Len(toks) + 1 /\ j \in 0 .. Len(toks) /\ ~(p > j)
      BY <1>1
    <3> QED
      BY <1>1, <2>4, <3>1, MeanIs
  <2>8. Signed(toks[p].t, Fails, flags).out # "ok"
    BY DEF Signed, Fails
  <2> QED
    BY <2>6, <2>7, <2>8 DEF Agree, Fails
<1>5. ASSUME NEW a \in 1 .. p - 1, NEW b, NEW h \in p .. p + 1
      PROVE  h \notin Splits(toks, a, b)
  <2>1. p > 1 /\ (h = p \/ h = p + 1)
    BY <1>1
  <2>2. CASE h = p
    <3>1. ~(toks[h - 1].t \in {"lit", "ref", ")"})
      BY <2>1, <2>2 DEF Closes
    <3> QED
      BY <3>1 DEF Splits
  <2>3. CASE h = p + 1
    BY <2>3 DEF Splits, Operators, Arithmetic, Bitwise_
  <2> QED
    BY <2>1, <2>2, <2>3
<1>6. toks[p + 1].t # ")"
  OBVIOUS
<1> QED
  BY <1>3, <1>4, <1>5, <1>6, MeanReplaced

LEMMA OperatorReplaced ==
  ASSUME NEW toks, NEW new, NEW flags, NEW p, Spliced(toks, new, p, 2),
         toks[p].t \in {"lit", "ref"}, toks[p + 1].t \in Operators,
         toks[p + 2].t \in {"lit", "ref"},
         p > 1 => toks[p - 1].t = "(", new[p].t \in {"lit", "ref"},
         Agree(Joined(Atom(toks[p]), toks[p + 1].t, Atom(toks[p + 2]), flags), Atom(new[p]))
  PROVE  Agree(Mean(toks, flags, 1, Len(toks)), Mean(new, flags, 1, Len(new)))
<1> DEFINE n == Len(toks)
           B(k) == Balance(toks, k)
<1>1. /\ n \in Nat /\ Len(new) \in Nat /\ n = Len(new) + 2 /\ p \in 1 .. n /\ p \in Nat
      /\ p >= 1 /\ p + 2 <= n /\ p + 1 \in 1 .. n /\ p + 2 \in 1 .. n
      /\ p - 1 \in Nat /\ (p + 1) - 1 = p /\ (p + 2) - 1 = p + 1
  BY DEF Spliced
<1>2. B(p + 2) = B(p - 1) /\ B(p + 1) = B(p - 1) /\ B(p) = B(p - 1) /\ B(p - 1) \in Int
  <2>1. toks[p + 1].t \notin {"(", ")"}
    BY DEF Operators, Arithmetic, Bitwise_
  <2>2. B(p) = B(p - 1) /\ B(p - 1) \in Int
    BY <1>1, BalanceStep
  <2>3. B(p + 1) = B((p + 1) - 1)
    BY <1>1, <2>1, BalanceStep
  <2>4. B(p + 2) = B((p + 2) - 1)
    BY <1>1, BalanceStep
  <2> HIDE DEF B
  <2> QED
    BY <1>1, <2>2, <2>3, <2>4
<1>3. Replaced(toks, new, p, 2)
  BY <1>1, <1>2 DEF Replaced, Closes
<1>o. toks[p].t \notin Operators /\ toks[p + 2].t \notin Operators
  BY DEF Operators, Arithmetic, Bitwise_
<1>4. ASSUME NEW j \in p + 2 .. n, Splits(new, p, j - 2) = {}
      PROVE  Agree(Mean(toks, flags, p, j), IF j = p + 2 THEN Atom(new[p]) ELSE Fails)
  <2>1. \A h \in Splits(toks, p, j) : h \in p + 1 .. p + 2
    BY <1>3, <1>4, OnlyWithin
  <2>2. \A h \in Splits(toks, p, j) : h = p + 1
    <3>1. p + 2 \notin Splits(toks, p, j)
      BY <1>o DEF Splits
    <3>2. \A h \in p + 1 .. p + 2 : h = p + 1 \/ h = p + 2
      BY <1>1
    <3> QED
      BY <2>1, <3>1, <3>2
  <2>3. p + 1 \in Splits(toks, p, j)
    <3>1. p + 1 \in p + 1 .. j
      BY <1>1
    <3> QED
      BY <1>1, <1>2, <3>1 DEF Splits
  <2>4. LastOf(Splits(toks, p, j)) = p + 1
    <3>1. Splits(toks, p, j) \subseteq Int
      BY <1>1, <2>2
    <3>2. \A g \in Splits(toks, p, j) : g <= p + 1
      BY <1>1, <2>2
    <3> QED
      BY <2>3, <3>1, <3>2, LastIs
  <2>5. Splits(toks, p + 2, j) = {}
    <3>1. ASSUME NEW h \in Splits(toks, p + 2, j) PROVE h \in Splits(toks, p, j)
      <4>1. /\ h \in (p + 2) + 1 .. j /\ toks[h].t \in Operators
            /\ toks[h - 1].t \in {"lit", "ref", ")"} /\ B(h) = B((p + 2) - 1)
        BY DEF Splits
      <4>2. h \in p + 1 .. j
        BY <1>1, <4>1
      <4>3. B(h) = B(p - 1)
        BY <1>1, <1>2, <4>1
      <4> QED
        BY <4>1, <4>2, <4>3 DEF Splits
    <3>2. \A h \in Splits(toks, p + 2, j) : h \in (p + 2) + 1 .. j
      BY DEF Splits
    <3>3. p + 1 \notin (p + 2) + 1 .. j
      BY <1>1
    <3> QED
      BY <2>2, <3>1, <3>2, <3>3
  <2>6. Mean(toks, flags, p + 2, j) = IF j = p + 2 THEN Atom(toks[p + 2]) ELSE Fails
    BY <1>1, <2>5, AtomMean
  <2>7. Mean(toks, flags, p, p) = Atom(toks[p])
    <3>1. Splits(toks, p, p) = {} /\ p \in p .. n
      BY <1>1 DEF Splits
    <3> QED
      BY <1>1, <3>1, AtomMean
  <2>8. Mean(toks, flags, p, j)
          = Joined(Mean(toks, flags, p, (p + 1) - 1), toks[p + 1].t,
                   Mean(toks, flags, (p + 1) + 1, j), flags)
    <3>1. p \in 1 .. n + 1 /\ j \in 0 .. n /\ ~(p > j)
      BY <1>1
    <3>2. Splits(toks, p, j) # {}
      BY <2>3
    <3> QED
      BY <1>1, <2>4, <3>1, <3>2, MeanIs
  <2>9. (p + 1) - 1 = p /\ (p + 1) + 1 = p + 2
    BY <1>1
  <2>10. \A l, op : Joined(l, op, Fails, flags).out # "ok"
    BY DEF Joined, Fails
  <2> QED
    BY <2>6, <2>7, <2>8, <2>9, <2>10 DEF Agree, Fails
<1>5. ASSUME NEW a \in 1 .. p - 1, NEW b \in p + 2 .. n
      PROVE  \/ \A h \in p .. p + 2 : h \notin Splits(toks, a, b)
             \/ Mean(toks, flags, a, b).out # "ok" /\ Mean(new, flags, a, b - 2).out # "ok"
  <2>1. SUFFICES ASSUME NEW h \in p .. p + 2, h \in Splits(toks, a, b)
                 PROVE  Mean(toks, flags, a, b).out # "ok" /\ Mean(new, flags, a, b - 2).out # "ok"
    OBVIOUS
  <2>2. h = p + 1
    <3>1. toks[h].t \in Operators
      BY <2>1 DEF Splits
    <3>2. h = p \/ h = p + 1 \/ h = p + 2
      BY <1>1
    <3> QED
      BY <1>o, <3>1, <3>2
  <2>3. B(p - 1) = B(a - 1)
    BY <1>2, <2>1, <2>2 DEF Splits
  <2>4. p > 1 /\ a >= 1 /\ a < p /\ a \in Nat /\ p - 2 \in Nat /\ (p - 1) - 1 = p - 2
        /\ p - 1 >= 1
    BY <1>1
  <2>5. B(p - 1) = B(p - 2) + 1 /\ B(p - 2) \in Int
    <3>1. toks[p - 1].t = "("
      BY <2>4
    <3>2. B(p - 1) = B((p - 1) - 1) + 1 /\ B((p - 1) - 1) \in Int
      BY <1>1, <2>4, <3>1, BalanceStep
    <3> QED
      BY <2>4, <3>2
  <2>6. a # p - 1
    BY <1>2, <2>3, <2>4, <2>5
  <2>7. p - 2 \in a .. b /\ p - 2 \in a .. b - 2
    BY <1>1, <2>4, <2>6
  <2>8. ~(B(p - 2) >= B(a - 1))
    BY <1>2, <2>3, <2>5
  <2>9. Mean(toks, flags, a, b).out # "ok"
    <3>1. a \in 1 .. n + 1 /\ b \in 0 .. n
      BY <1>1
    <3> QED
      BY <1>1, <2>7, <2>8, <3>1, OkRegular DEF Regular
  <2>10. Mean(new, flags, a, b - 2).out # "ok"
    <3>1. a \in 1 .. Len(new) + 1 /\ b - 2 \in 0 .. Len(new)
      BY <1>1
    <3>2. Balance(new, p - 2) = B(p - 2) /\ Balance(new, a - 1) = B(a - 1)
      <4>1. p - 2 \in 0 .. p - 1 /\ a - 1 \in 0 .. p - 1
        BY <1>1, <2>4
      <4> QED
        BY <1>3, <4>1, BalanceReplaced
    <3>3. Mean(new, flags, a, b - 2).out = "ok" =>
            \A x \in a .. b - 2 : Balance(new, x) >= Balance(new, a - 1)
      BY <1>1, <3>1, OkRegular DEF Regular
    <3> QED
      BY <2>7, <2>8, <3>2, <3>3
  <2> QED
    BY <2>9, <2>10
<1>6. toks[p + 2].t # ")"
  OBVIOUS
<1> QED
  BY <1>3, <1>4, <1>5, <1>6, MeanReplaced

LEMMA ParenReplaced ==
  ASSUME NEW toks, NEW new, NEW flags, NEW p, Spliced(toks, new, p, 2),
         toks[p].t = "(", toks[p + 1].t \in {"lit", "ref"}, toks[p + 2].t = ")",
         new[p].t \in {"lit", "ref"}, Agree(Atom(toks[p + 1]), Atom(new[p]))
  PROVE  Agree(Mean(toks, flags, 1, Len(toks)), Mean(new, flags, 1, Len(new)))
<1> DEFINE n == Len(toks)
           B(k) == Balance(toks, k)
<1>1. /\ n \in Nat /\ Len(new) \in Nat /\ n = Len(new) + 2 /\ p \in 1 .. n /\ p \in Nat
      /\ p >= 1 /\ p + 2 <= n /\ p + 1 \in 1 .. n /\ p + 2 \in 1 .. n
      /\ p - 1 \in Nat /\ (p + 1) - 1 = p /\ (p + 2) - 1 = p + 1
  BY DEF Spliced
<1>2. B(p + 2) = B(p - 1) /\ B(p + 1) = B(p - 1) + 1 /\ B(p) = B(p - 1) + 1 /\ B(p - 1) \in Int
  <2>a. p \in Nat /\ p + 1 \in Nat /\ p + 2 \in Nat /\ p + 1 >= 1 /\ p + 2 >= 1
    BY <1>1
  <2>1. toks[p + 1].t \notin {"(", ")"}
    OBVIOUS
  <2>2. B(p) = B(p - 1) + 1 /\ B(p - 1) \in Int /\ B(p) \in Int
    BY <1>1, BalanceStep
  <2>3. B(p + 1) = B((p + 1) - 1)
    BY <2>a, <2>1, BalanceStep, Zenon
  <2>4. B(p + 2) = B((p + 2) - 1) - 1
    BY <2>a, BalanceStep, Zenon
  <2> HIDE DEF B
  <2> QED
    BY <1>1, <2>2, <2>3, <2>4
<1>3. Replaced(toks, new, p, 2)
  BY <1>1, <1>2 DEF Replaced, Closes
<1>o. toks[p].t \notin Operators /\ toks[p + 1].t \notin Operators /\ toks[p + 2].t \notin Operators
  BY DEF Operators, Arithmetic, Bitwise_
<1>4. ASSUME NEW j \in p + 2 .. n, Splits(new, p, j - 2) = {}
      PROVE  Agree(Mean(toks, flags, p, j), IF j = p + 2 THEN Atom(new[p]) ELSE Fails)
  <2>1. \A h \in Splits(toks, p, j) : h \in p + 1 .. p + 2
    BY <1>3, <1>4, OnlyWithin
  <2>2. Splits(toks, p, j) = {}
    <3>1. p + 1 \notin Splits(toks, p, j) /\ p + 2 \notin Splits(toks, p, j)
      BY <1>o DEF Splits
    <3>2. \A h \in p + 1 .. p + 2 : h = p + 1 \/ h = p + 2
      BY <1>1
    <3> QED
      BY <2>1, <3>1, <3>2
  <2>3. Mean(toks, flags, p, j)
          = IF toks[j].t = ")" THEN Mean(toks, flags, p + 1, j - 1) ELSE Fails
    <3>1. p \in 1 .. n + 1 /\ j \in 0 .. n /\ ~(p > j)
      BY <1>1
    <3>2. toks[p].t \notin {"-", "+", "~"} /\ toks[p].t \notin {"lit", "ref"}
      OBVIOUS
    <3> DEFINE T == Splits(toks, p, j)
               h == LastOf(T)
               M(a, b) == Mean(toks, flags, a, b)
    <3>3. M(p, j) = IF T # {} THEN Joined(M(p, h - 1), toks[h].t, M(h + 1, j), flags)
                    ELSE IF toks[p].t \in {"-", "+", "~"} THEN Signed(toks[p].t, M(p + 1, j), flags)
                    ELSE IF toks[p].t = "(" /\ toks[j].t = ")" THEN M(p + 1, j - 1)
                    ELSE IF p = j /\ toks[p].t \in {"lit", "ref"} THEN Atom(toks[p]) ELSE Fails
      <4>1. Len(toks) \in Nat /\ p \in 1 .. Len(toks) + 1 /\ j \in 0 .. Len(toks) /\ ~(p > j)
        BY <1>1, <3>1
      <4> HIDE DEF n
      <4> QED
        BY <4>1, MeanIs
    <3> HIDE DEF h, M
    <3>4. M(p, j) = IF toks[j].t = ")" THEN M(p + 1, j - 1) ELSE Fails
      BY <2>2, <3>2, <3>3
    <3> QED
      BY <3>4 DEF M
  <2>4. CASE j = p + 2
    <3>1. Splits(toks, p + 1, p + 1) = {}
      BY <1>1 DEF Splits
    <3>2. Mean(toks, flags, p + 1, p + 1) = Atom(toks[p + 1])
      BY <1>1, <3>1, AtomMean
    <3> QED
      BY <1>1, <2>3, <2>4, <3>2 DEF Agree
  <2>5. CASE j # p + 2
    <3>1. Mean(toks, flags, p + 1, j - 1).out # "ok"
      <4>1. /\ p + 1 \in 1 .. n + 1 /\ j - 1 \in 0 .. n /\ p + 2 \in p + 1 .. j - 1
        BY <1>1, <2>5
      <4>2. ~(B(p + 2) >= B((p + 1) - 1))
        BY <1>1, <1>2
      <4> QED
        BY <1>1, <4>1, <4>2, OkRegular DEF Regular
    <3> QED
      BY <2>3, <2>5, <3>1 DEF Agree, Fails
  <2> QED
    BY <2>4, <2>5
<1>5. \A h \in p .. p + 2 : \A a, b : h \notin Splits(toks, a, b)
  <2>1. \A h \in p .. p + 2 : h = p \/ h = p + 1 \/ h = p + 2
    BY <1>1
  <2> QED
    BY <1>o, <2>1 DEF Splits
<1>6. ASSUME NEW a \in 1 .. p - 1
      PROVE  Mean(toks, flags, a + 1, (p + 2) - 1).out # "ok"
  <2>1. SUFFICES ASSUME Mean(toks, flags, a + 1, p + 1).out = "ok" PROVE FALSE
    BY <1>1
  <2>2. a + 1 \in 1 .. n + 1 /\ p + 1 \in 0 .. n /\ (a + 1) - 1 = a /\ a \in Nat /\ a <= p - 1
    BY <1>1
  <2>3. /\ B(p + 1) = B(a)
        /\ \A h \in a + 1 .. p + 1 : B(h) >= B(a)
    BY <1>1, <2>1, <2>2, OkRegular DEF Regular
  <2>4. a = p - 1 \/ p - 1 \in a + 1 .. p + 1
    BY <1>1, <2>2
  <2>5. B(a) \in Int
    BY <2>2, BalanceInt
  <2> HIDE DEF B
  <2> QED
    BY <1>2, <2>3, <2>4, <2>5
<1> QED
  BY <1>3, <1>4, <1>5, <1>6, MeanReplaced

-----------------------------------------------------------------------------
(* What waits and what is left to read, as one expression: a sign or "("    *)
(* stands for itself, an operator stands after its left operand, and the    *)
(* value in hand (if e is 1) comes before the tokens that are left.         *)
IsValue(token, v) == token.t = "lit" /\ token.v = v
Shows(text, q, cs, e, v, toks, from) ==
  /\ IsSeq(text) /\ IsSeq(cs) /\ IsSeq(toks)
  /\ from \in Nat \ {0} /\ from <= Len(toks) + 1 /\ e \in {0, 1}
  /\ q \in [0 .. Len(cs) -> Nat] /\ q[0] = 0
  /\ \A k \in 1 .. Len(cs) :
       /\ q[k] = q[k - 1] + (IF cs[k].call = "right" THEN 2 ELSE 1)
       /\ text[q[k]].t = cs[k].op
       /\ cs[k].call = "right" => IsValue(text[q[k] - 1], cs[k].v)
  /\ Len(text) = (q[Len(cs)] + e) + ((Len(toks) + 1) - from)
  /\ e = 1 => IsValue(text[q[Len(cs)] + 1], v)
  /\ \A i \in from .. Len(toks) : text[(q[Len(cs)] + e) + ((i + 1) - from)] = toks[i]

SignsOf(flags) == IF flags THEN {"~"} ELSE {"-", "+"}
CallsFit(cs, flags) ==
  \A k \in 1 .. Len(cs) :
    /\ cs[k].call \in {"sign", "paren", "right"}
    /\ cs[k].call = "sign" => cs[k].op \in SignsOf(flags)
    /\ cs[k].call = "paren" => cs[k].op = "("
    /\ cs[k].call = "right" => cs[k].op \in Operators /\ (k > 1 => cs[k - 1].call = "paren")

LEMMA ShowsNat ==
  ASSUME NEW text, NEW q, NEW cs, NEW e, NEW v, NEW toks, NEW from,
         Shows(text, q, cs, e, v, toks, from)
  PROVE  /\ Len(text) \in Nat /\ Len(cs) \in Nat /\ Len(toks) \in Nat
         /\ from \in Nat /\ from >= 1 /\ from <= Len(toks) + 1 /\ e \in {0, 1} /\ e \in Nat
         /\ q[Len(cs)] \in Nat /\ q[0] = 0 /\ \A k \in 0 .. Len(cs) : q[k] \in Nat
         /\ Len(text) = (q[Len(cs)] + e) + ((Len(toks) + 1) - from)
         /\ q[Len(cs)] + e <= Len(text)
         /\ cs # << >> <=> Len(cs) >= 1
<1>1. /\ Len(text) \in Nat /\ Len(cs) \in Nat /\ Len(toks) \in Nat
      /\ cs # << >> <=> Len(cs) # 0
  BY SeqFacts DEF Shows
<1>2. \A k \in 0 .. Len(cs) : q[k] \in Nat
  BY DEF Shows
<1>3. q[Len(cs)] \in Nat
  BY <1>1, <1>2
<1>4. /\ from \in Nat /\ from >= 1 /\ from <= Len(toks) + 1 /\ e \in {0, 1} /\ q[0] = 0
      /\ Len(text) = (q[Len(cs)] + e) + ((Len(toks) + 1) - from)
  BY DEF Shows
<1> QED
  BY <1>1, <1>2, <1>3, <1>4

(* The calls stand one after the other.                                    *)
LEMMA ShownInOrder ==
  ASSUME NEW text, NEW q, NEW cs, NEW e, NEW v, NEW toks, NEW from,
         Shows(text, q, cs, e, v, toks, from), NEW l \in 0 .. Len(cs), NEW k \in 0 .. l
  PROVE  q[k] <= q[l]
<1> DEFINE Bad == {m \in 0 .. l : q[m] > q[l]}
<1>1. Len(cs) \in Nat /\ \A m \in 0 .. Len(cs) : q[m] \in Nat
  BY ShowsNat
<1>2. SUFFICES ASSUME Bad # {} PROVE FALSE
  BY <1>1
<1>3. IsFiniteSet(Bad) /\ Bad \in SUBSET Nat
  <2>1. IsFiniteSet(0 .. l) /\ Bad \subseteq 0 .. l
    BY <1>1, FS_Interval
  <2>2. IsFiniteSet(Bad)
    BY <2>1, FS_Subset
  <2> QED
    BY <1>1, <2>1, <2>2
<1>4. PICK m \in Bad : \A i \in Bad : i <= m
  BY <1>2, <1>3, NatMax
<1>5. m \in 0 .. l /\ q[m] > q[l] /\ m # l
  BY <1>1, <1>4
<1>6. m + 1 \in 0 .. l /\ ~(m + 1 <= m) /\ m + 1 \in 1 .. Len(cs) /\ (m + 1) - 1 = m
  BY <1>1, <1>5
<1>7. m + 1 \notin Bad
  BY <1>4, <1>6, Zenon
<1>8. ~(q[m + 1] > q[l])
  BY <1>6, <1>7
<1>9. q[m + 1] = q[m] + 1 \/ q[m + 1] = q[m] + 2
  BY <1>6 DEF Shows
<1>10. m \in 0 .. Len(cs) /\ l \in 0 .. Len(cs) /\ m + 1 \in 0 .. Len(cs)
  BY <1>1, <1>5, <1>6
<1>11. q[m] \in Nat /\ q[l] \in Nat /\ q[m + 1] \in Nat
  BY <1>1, <1>10
<1> QED
  BY <1>5, <1>8, <1>9, <1>11

(* A segment of a text is replaced by one token.                           *)
Cut(text, p, d, token) ==
  [k \in 1 .. Len(text) - d |-> IF k < p THEN text[k] ELSE IF k = p THEN token ELSE text[k + d]]

LEMMA CutFacts ==
  ASSUME NEW text, Len(text) \in Nat, NEW p \in Nat, NEW d \in Nat, p >= 1, p + d <= Len(text),
         NEW token
  PROVE  LET new == Cut(text, p, d, token) IN
         /\ IsSeq(new) /\ Len(new) = Len(text) - d /\ Spliced(text, new, p, d) /\ new[p] = token
         /\ \A k \in 1 .. p - 1 : new[k] = text[k]
         /\ \A k \in p + 1 .. Len(text) - d : new[k] = text[k + d]
<1> DEFINE new == Cut(text, p, d, token)
           m == Len(text) - d
<1>1. m \in Nat
  OBVIOUS
<1>2. /\ DOMAIN new = 1 .. m
      /\ \A k \in 1 .. m : new[k] = IF k < p THEN text[k] ELSE IF k = p THEN token ELSE text[k + d]
      /\ new = [k \in 1 .. m |-> new[k]]
  BY DEF Cut
<1>3. ToSet(new) = {new[k] : k \in 1 .. m}
  BY <1>2 DEF ToSet
<1> HIDE DEF new
<1>4. new \in [1 .. m -> ToSet(new)]
  BY <1>2, <1>3
<1>5. new \in Seq(ToSet(new)) /\ Len(new) = m
  BY <1>1, <1>4
<1>6. IsSeq(new)
  BY <1>5 DEF IsSeq
<1>7. new[p] = token
  BY <1>1, <1>2
<1>8. \A k \in 1 .. p - 1 : new[k] = text[k]
  BY <1>1, <1>2
<1>9. \A k \in p + 1 .. m : new[k] = text[k + d]
  BY <1>1, <1>2
<1>10. \A k \in (p + d) + 1 .. Len(text) : new[k - d] = text[k]
  <2>1. \A k \in (p + d) + 1 .. Len(text) : k - d \in p + 1 .. m /\ (k - d) + d = k
    BY <1>1
  <2> QED
    BY <1>9, <2>1
<1>11. Spliced(text, new, p, d)
  BY <1>1, <1>5, <1>8, <1>10 DEF Spliced
<1> QED
  BY <1>5, <1>6, <1>7, <1>8, <1>9, <1>11 DEF new

-----------------------------------------------------------------------------
(* A call that is added shows what was read.                               *)
LEMMA PushShows ==
  ASSUME NEW text, NEW q, NEW cs, NEW e, NEW v, NEW toks, NEW from,
         Shows(text, q, cs, e, v, toks, from), from <= Len(toks), NEW c, NEW w,
         toks[from].t = c.op,
         IF c.call = "right" THEN e = 1 /\ c.v = v ELSE e = 0
  PROVE  \E r : Shows(text, r, Append(cs, c), 0, w, toks, from + 1)
<1> DEFINE K == Len(cs)
           more == Append(cs, c)
           width == IF c.call = "right" THEN 2 ELSE 1
           r == [k \in 0 .. K + 1 |-> IF k = K + 1 THEN q[K] + width ELSE q[k]]
<1>1. /\ Len(text) \in Nat /\ K \in Nat /\ Len(toks) \in Nat
      /\ from \in Nat /\ from >= 1 /\ e \in Nat /\ width = e + 1 /\ width \in Nat
      /\ q[K] \in Nat /\ q[0] = 0 /\ \A k \in 0 .. K : q[k] \in Nat
      /\ Len(text) = (q[K] + e) + ((Len(toks) + 1) - from)
  BY ShowsNat
<1>2. /\ IsSeq(more) /\ Len(more) = K + 1 /\ \A i \in 1 .. K : more[i] = cs[i]
      /\ more[K + 1] = c
  BY SeqAppend DEF Shows
<1>3. /\ r \in [0 .. K + 1 -> Nat] /\ r[K + 1] = q[K] + width
      /\ \A k \in 0 .. K : r[k] = q[k]
  BY <1>1
<1> HIDE DEF more, r, width
<1>4. text[q[K] + width].t = c.op
  <2>1. from \in from .. Len(toks) /\ (q[K] + e) + ((from + 1) - from) = q[K] + width
    BY <1>1
  <2>2. text[(q[K] + e) + ((from + 1) - from)] = toks[from]
    BY <2>1 DEF Shows
  <2> QED
    BY <2>1, <2>2
<1>5. c.call = "right" => IsValue(text[q[K] + 1], c.v)
  BY DEF Shows
<1>6. ASSUME NEW k \in 1 .. K + 1
      PROVE  /\ r[k] = r[k - 1] + (IF more[k].call = "right" THEN 2 ELSE 1)
             /\ text[r[k]].t = more[k].op
             /\ more[k].call = "right" => IsValue(text[r[k] - 1], more[k].v)
  <2>1. CASE k = K + 1
    <3>1. r[k] = q[K] + width /\ r[k - 1] = q[K] /\ more[k] = c
      <4>1. k - 1 = K /\ K \in 0 .. K
        BY <1>1, <2>1
      <4> QED
        BY <1>2, <1>3, <2>1, <4>1
    <3>2. c.call = "right" => r[k] - 1 = q[K] + 1
      BY <1>1, <3>1 DEF width
    <3> QED
      BY <1>4, <1>5, <3>1, <3>2 DEF width
  <2>2. CASE k # K + 1
    <3>1. k \in 1 .. K /\ k \in 0 .. K /\ k - 1 \in 0 .. K
      BY <1>1, <2>2
    <3>2. r[k] = q[k] /\ r[k - 1] = q[k - 1] /\ more[k] = cs[k]
      BY <1>2, <1>3, <3>1
    <3>3. /\ q[k] = q[k - 1] + (IF cs[k].call = "right" THEN 2 ELSE 1)
          /\ text[q[k]].t = cs[k].op
          /\ cs[k].call = "right" => IsValue(text[q[k] - 1], cs[k].v)
      BY <3>1 DEF Shows
    <3> QED
      BY <3>2, <3>3
  <2> QED
    BY <2>1, <2>2
<1>7. Len(text) = (r[K + 1] + 0) + ((Len(toks) + 1) - (from + 1))
  BY <1>1, <1>3
<1>8. ASSUME NEW i \in from + 1 .. Len(toks)
      PROVE  text[(r[K + 1] + 0) + ((i + 1) - (from + 1))] = toks[i]
  <2> DEFINE x == q[K]
             y == r[K + 1]
             m == Len(toks)
  <2>a. /\ x \in Nat /\ e \in Nat /\ m \in Nat /\ from \in Nat /\ y = x + (e + 1)
        /\ i \in from + 1 .. m
    BY <1>1, <1>3
  <2> HIDE DEF x, y, m
  <2>b. i \in from .. m /\ i \in Nat
    BY <2>a
  <2>c. (y + 0) + ((i + 1) - (from + 1)) = (x + e) + ((i + 1) - from)
    BY <2>a, <2>b
  <2>1. i \in from .. Len(toks)
        /\ (r[K + 1] + 0) + ((i + 1) - (from + 1)) = (q[K] + e) + ((i + 1) - from)
    BY <2>b, <2>c DEF x, y, m
  <2> QED
    BY <2>1 DEF Shows
<1>9. from + 1 \in Nat \ {0} /\ from + 1 <= Len(toks) + 1 /\ r[0] = 0 /\ IsSeq(text) /\ IsSeq(toks)
  BY <1>1, <1>3 DEF Shows
<1>10. Shows(text, r, more, 0, w, toks, from + 1)
  BY <1>2, <1>3, <1>6, <1>7, <1>8, <1>9 DEF Shows
<1> QED
  BY <1>10 DEF more

(* An operand that is read, or computed, is a value in its place: the last  *)
(* calls, from l on, and the first tokens, up to from + s, are cut out.     *)
LEMMA CutShows ==
  ASSUME NEW text, NEW q, NEW cs, NEW e, NEW v, NEW toks, NEW from,
         Shows(text, q, cs, e, v, toks, from), NEW less, IsSeq(less), Len(less) \in 0 .. Len(cs),
         \A k \in 1 .. Len(less) : less[k] = cs[k],
         NEW s \in {0, 1}, from + s <= Len(toks) + 1, NEW d \in Nat,
         q[Len(less)] + 1 + d = (q[Len(cs)] + e) + s, NEW w
  PROVE  LET new == Cut(text, q[Len(less)] + 1, d, [t |-> "lit", v |-> w])
             r == [k \in 0 .. Len(less) |-> q[k]]
         IN Shows(new, r, less, 1, w, toks, from + s)
<1> DEFINE K == Len(cs)
           L == Len(less)
           p == q[L] + 1
           new == Cut(text, p, d, [t |-> "lit", v |-> w])
           r == [k \in 0 .. L |-> q[k]]
<1>a. /\ Len(text) \in Nat /\ K \in Nat /\ Len(toks) \in Nat
      /\ from \in Nat /\ from >= 1 /\ e \in Nat
      /\ q[K] \in Nat /\ q[0] = 0 /\ \A k \in 0 .. K : q[k] \in Nat
      /\ Len(text) = (q[K] + e) + ((Len(toks) + 1) - from)
  BY ShowsNat
<1>b. L \in Nat /\ L <= K /\ s \in Nat /\ from + s <= Len(toks) + 1 /\ L \in 0 .. K
  BY <1>a
<1>1. /\ Len(text) \in Nat /\ K \in Nat /\ Len(toks) \in Nat /\ L \in Nat /\ L <= K
      /\ from \in Nat /\ from >= 1 /\ e \in Nat /\ q[L] \in Nat /\ s \in Nat
      /\ q[K] \in Nat /\ q[0] = 0 /\ \A k \in 0 .. K : q[k] \in Nat
      /\ Len(text) = (q[K] + e) + ((Len(toks) + 1) - from)
  BY <1>a, <1>b
<1>2. p \in Nat /\ p >= 1 /\ p + d <= Len(text) /\ p + d = (q[K] + e) + s
  <2> DEFINE x == q[K]
             y == q[L]
             n == Len(text)
             m == Len(toks)
  <2>1. /\ x \in Nat /\ y \in Nat /\ n \in Nat /\ m \in Nat /\ e \in Nat /\ s \in Nat
        /\ n = (x + e) + ((m + 1) - from) /\ from \in Nat /\ from + s <= m + 1
        /\ y + 1 + d = (x + e) + s
    BY <1>1
  <2> HIDE DEF x, y, n, m
  <2>2. y + 1 \in Nat /\ y + 1 >= 1 /\ (y + 1) + d <= n /\ (y + 1) + d = (x + e) + s
    BY <2>1
  <2> QED
    BY <2>2 DEF x, y, n
<1>3. /\ IsSeq(new) /\ Len(new) = Len(text) - d /\ new[p] = [t |-> "lit", v |-> w]
      /\ \A k \in 1 .. p - 1 : new[k] = text[k]
      /\ \A k \in p + 1 .. Len(text) - d : new[k] = text[k + d]
  <2> DEFINE token == [t |-> "lit", v |-> w]
  <2>1. Len(text) \in Nat /\ p \in Nat /\ p >= 1 /\ p + d <= Len(text)
    BY <1>1, <1>2
  <2> HIDE DEF p, token
  <2>2. LET made == Cut(text, p, d, token) IN
        /\ IsSeq(made) /\ Len(made) = Len(text) - d /\ made[p] = token
        /\ \A k \in 1 .. p - 1 : made[k] = text[k]
        /\ \A k \in p + 1 .. Len(text) - d : made[k] = text[k + d]
    BY <2>1, CutFacts
  <2> QED
    BY <2>2 DEF token
<1>4. r \in [0 .. L -> Nat] /\ \A k \in 0 .. L : r[k] = q[k]
  <2>1. \A k \in 0 .. L : k \in 0 .. K
    BY <1>b
  <2>2. \A k \in 0 .. K : q[k] \in Nat
    BY <1>1
  <2>3. \A k \in 0 .. L : q[k] \in Nat
    BY <2>1, <2>2, Zenon
  <2> QED
    BY <2>3
<1> HIDE DEF new, r
<1>5. ASSUME NEW k \in 1 .. L
      PROVE  /\ r[k] = r[k - 1] + (IF less[k].call = "right" THEN 2 ELSE 1)
             /\ new[r[k]].t = less[k].op
             /\ less[k].call = "right" => IsValue(new[r[k] - 1], less[k].v)
  <2>1. k \in 1 .. K /\ k \in 0 .. L /\ k - 1 \in 0 .. L /\ k \in 0 .. K /\ k - 1 \in 0 .. K
        /\ L \in 0 .. K
    <3>1. K \in Nat /\ L \in Nat /\ L <= K /\ k \in 1 .. L
      BY <1>b, <1>1
    <3> HIDE DEF K, L
    <3> QED
      BY <3>1
  <2>2. /\ q[k] = q[k - 1] + (IF cs[k].call = "right" THEN 2 ELSE 1)
        /\ text[q[k]].t = cs[k].op
        /\ cs[k].call = "right" => IsValue(text[q[k] - 1], cs[k].v)
    BY <2>1 DEF Shows
  <2>3. q[k] <= q[L]
    BY <2>1, ShownInOrder
  <2>4. q[k] \in Nat /\ q[k - 1] \in Nat
    BY <1>1, <2>1
  <2>5. q[k] \in 1 .. p - 1 /\ (cs[k].call = "right" => q[k] - 1 \in 1 .. p - 1)
    <3> DEFINE x == q[k]
               y == q[L]
               z == q[k - 1]
    <3>1. x \in Nat /\ y \in Nat /\ z \in Nat /\ x <= y
          /\ x = z + (IF cs[k].call = "right" THEN 2 ELSE 1)
      BY <1>1, <2>2, <2>3, <2>4
    <3> HIDE DEF x, y, z
    <3>2. x \in 1 .. (y + 1) - 1 /\ (cs[k].call = "right" => x - 1 \in 1 .. (y + 1) - 1)
      BY <3>1
    <3> QED
      BY <3>2 DEF x, y
  <2>6. r[k] = q[k] /\ r[k - 1] = q[k - 1] /\ less[k] = cs[k]
    BY <1>4, <2>1
  <2> QED
    BY <1>3, <2>2, <2>5, <2>6
<1>6. r[L] = q[L] /\ r[0] = 0
  BY <1>1, <1>4
<1>7. Len(new) = (r[L] + 1) + ((Len(toks) + 1) - (from + s))
  <2> DEFINE x == q[K]
             y == q[L]
             n == Len(text)
             m == Len(toks)
  <2>1. /\ x \in Nat /\ y \in Nat /\ n \in Nat /\ m \in Nat /\ e \in Nat /\ s \in Nat
        /\ n = (x + e) + ((m + 1) - from) /\ from \in Nat
        /\ (y + 1) + d = (x + e) + s
    BY <1>1, <1>2
  <2> HIDE DEF x, y, n, m
  <2>2. n - d = (y + 1) + ((m + 1) - (from + s))
    BY <2>1
  <2> QED
    BY <1>3, <1>6, <2>2 DEF x, y, n, m
<1>8. ASSUME NEW i \in from + s .. Len(toks)
      PROVE  new[(r[L] + 1) + ((i + 1) - (from + s))] = toks[i]
  <2> DEFINE g == (q[L] + 1) + ((i + 1) - (from + s))
  <2>1. g \in p + 1 .. Len(text) - d /\ i \in from .. Len(toks)
        /\ g + d = (q[K] + e) + ((i + 1) - from)
    <3> DEFINE x == q[K]
               y == q[L]
               n == Len(text)
               m == Len(toks)
    <3>1. /\ x \in Nat /\ y \in Nat /\ n \in Nat /\ m \in Nat /\ e \in Nat /\ s \in Nat
          /\ n = (x + e) + ((m + 1) - from) /\ from \in Nat
          /\ (y + 1) + d = (x + e) + s /\ i \in from + s .. m
      BY <1>1, <1>2
    <3> HIDE DEF x, y, n, m
    <3>2. i \in from .. m /\ i \in Int
      BY <3>1
    <3>3. /\ (y + 1) + ((i + 1) - (from + s)) \in (y + 1) + 1 .. n - d
          /\ ((y + 1) + ((i + 1) - (from + s))) + d = (x + e) + ((i + 1) - from)
      BY <3>1, <3>2
    <3> QED
      BY <3>2, <3>3 DEF x, y, n, m
  <2>2. text[(q[K] + e) + ((i + 1) - from)] = toks[i]
    BY <2>1 DEF Shows
  <2> HIDE DEF g
  <2>3. new[g] = toks[i]
    BY <1>3, <2>1, <2>2
  <2> QED
    BY <1>6, <2>3 DEF g
<1>9. IsValue(new[r[L] + 1], w)
  BY <1>3, <1>6 DEF IsValue
<1>10. from + s \in Nat \ {0} /\ IsSeq(toks) /\ 1 \in {0, 1}
  BY <1>1 DEF Shows
<1>11. Shows(new, r, less, 1, w, toks, from + s)
  BY <1>3, <1>4, <1>5, <1>6, <1>7, <1>8, <1>9, <1>10 DEF Shows
<1> QED
  BY <1>11 DEF new, r

-----------------------------------------------------------------------------
(* The last call, and the token before it.                                 *)
LEMMA TopShown ==
  ASSUME NEW text, NEW q, NEW cs, NEW e, NEW v, NEW toks, NEW from,
         Shows(text, q, cs, e, v, toks, from), NEW flags, CallsFit(cs, flags), cs # << >>
  PROVE  LET top == cs[Len(cs)]  b == q[Len(cs) - 1]  t == q[Len(cs)] IN
         /\ b \in Nat /\ t \in Nat /\ text[t].t = top.op /\ t >= 1
         /\ t = b + (IF top.call = "right" THEN 2 ELSE 1)
         /\ top.call = "right" => IsValue(text[b + 1], top.v) /\ top.op \in Operators
         /\ top.call = "sign" => top.op \in SignsOf(flags)
         /\ top.call = "paren" => top.op = "("
         /\ top.call \in {"sign", "paren", "right"}
         /\ b >= 1 => ~Closes(text[b])
         /\ b >= 1 /\ top.call = "right" => text[b].t = "("
<1> DEFINE K == Len(cs)
           top == cs[K]
           b == q[K - 1]
           t == q[K]
<1>1. /\ K \in Nat /\ K >= 1 /\ q[0] = 0 /\ \A k \in 0 .. K : q[k] \in Nat
  BY ShowsNat
<1>2. K \in 1 .. K /\ K - 1 \in 0 .. K /\ K \in 0 .. K
  BY <1>1
<1>3. /\ t = b + (IF top.call = "right" THEN 2 ELSE 1) /\ text[t].t = top.op
      /\ top.call = "right" => IsValue(text[t - 1], top.v)
  BY <1>2 DEF Shows
<1>4. b \in Nat /\ t \in Nat
  BY <1>1, <1>2, Zenon
<1>5. /\ top.call \in {"sign", "paren", "right"}
      /\ top.call = "sign" => top.op \in SignsOf(flags)
      /\ top.call = "paren" => top.op = "("
      /\ top.call = "right" => top.op \in Operators /\ (K > 1 => cs[K - 1].call = "paren")
  BY <1>2 DEF CallsFit
<1>6. ASSUME b >= 1
      PROVE  ~Closes(text[b]) /\ (top.call = "right" => text[b].t = "(")
  <2>1. K # 1
    <3>1. SUFFICES ASSUME K = 1 PROVE FALSE
      OBVIOUS
    <3>2. K - 1 = 0
      BY <3>1
    <3>3. b = 0
      BY <1>1, <3>2, Zenon
    <3> HIDE DEF b
    <3> QED
      BY <1>6, <3>3
  <2>2. K > 1 /\ K - 1 \in 1 .. K
    <3>1. K \in Nat /\ K >= 1 /\ K # 1
      BY <1>1, <2>1
    <3> HIDE DEF K
    <3> QED
      BY <3>1
  <2>3. text[b].t = cs[K - 1].op
    BY <2>2 DEF Shows
  <2>4. /\ cs[K - 1].call \in {"sign", "paren", "right"}
        /\ cs[K - 1].call = "sign" => cs[K - 1].op \in SignsOf(flags)
        /\ cs[K - 1].call = "paren" => cs[K - 1].op = "("
        /\ cs[K - 1].call = "right" => cs[K - 1].op \in Operators
    BY <2>2 DEF CallsFit
  <2>5. cs[K - 1].op \notin {"lit", "ref", ")"}
    BY <2>4 DEF SignsOf, Operators, Arithmetic, Bitwise_
  <2> QED
    BY <1>5, <2>2, <2>3, <2>4, <2>5 DEF Closes
<1> HIDE DEF b, t, top
<1>7. top.call = "right" => t - 1 = b + 1
  BY <1>3, <1>4
<1>8. t >= 1
  BY <1>3, <1>4
<1> QED
  BY <1>3, <1>4, <1>5, <1>6, <1>7, <1>8 DEF b, t, top

(* There is an operand that has no value, and one for every value.         *)
LEMMA NoValue == \E token : token.t = "ref" /\ Atom(token).out # "ok"
<1>1. PICK x : x \notin DOMAIN Type
  <2> DEFINE x == {y \in DOMAIN Type : y \notin y}
  <2>1. \A y : y \in x <=> y \in DOMAIN Type /\ y \notin y
    OBVIOUS
  <2> HIDE DEF x
  <2>2. x \notin DOMAIN Type
    BY <2>1
  <2> QED
    BY <2>2
<1> DEFINE token == [t |-> "ref", path |-> <<x>>]
<1>2. token.t = "ref" /\ token.path[1] = x /\ Len(token.path) = 1
  OBVIOUS
<1> HIDE DEF token
<1>3. Atom(token) = Fails
  BY <1>1, <1>2 DEF Atom, ResolveReference
<1> QED
  BY <1>2, <1>3 DEF Fails

LEMMA ValueAtom ==
  ASSUME NEW token, NEW v, IsValue(token, v)
  PROVE  token.t = "lit" /\ Atom(token) = Yields(v) /\ Atom(token).out = "ok" /\ Atom(token).v = v
BY DEF IsValue, Atom, Yields

(* What stands in the place of a segment means what the segment does.      *)
Stands(text, flags, p, d, token) ==
  \A new : Spliced(text, new, p, d) /\ new[p] = token =>
             Agree(Mean(text, flags, 1, Len(text)), Mean(new, flags, 1, Len(new)))

LEMMA CutMeans ==
  ASSUME NEW text, NEW flags, NEW p \in Nat, NEW d \in Nat, NEW token,
         Len(text) \in Nat, p >= 1, p + d <= Len(text), token.t \in {"lit", "ref"},
         Stands(text, flags, p, d, token)
  PROVE  /\ Agree(Meant(text, flags), Meant(Cut(text, p, d, token), flags))
         /\ Atom(token).out # "ok" => Meant(text, flags).out # "ok"
<1> DEFINE new == Cut(text, p, d, token)
<1>1. Len(new) = Len(text) - d /\ Spliced(text, new, p, d) /\ new[p] = token
  <2>1. LET made == Cut(text, p, d, token) IN
        Len(made) = Len(text) - d /\ Spliced(text, made, p, d) /\ made[p] = token
    BY CutFacts
  <2> QED
    BY <2>1
<1> HIDE DEF new
<1>2. Agree(Mean(text, flags, 1, Len(text)), Mean(new, flags, 1, Len(new)))
  BY <1>1 DEF Stands
<1>3. Atom(token).out # "ok" => Mean(new, flags, 1, Len(new)).out # "ok"
  <2>1. SUFFICES ASSUME Mean(new, flags, 1, Len(new)).out = "ok" PROVE Atom(token).out = "ok"
    OBVIOUS
  <2>2. Len(new) \in Nat /\ 1 \in 1 .. Len(new) + 1 /\ Len(new) \in 0 .. Len(new)
        /\ p \in 1 .. Len(new)
    BY <1>1
  <2> QED
    BY <1>1, <2>1, <2>2, OkAtoms
<1> QED
  BY <1>2, <1>3 DEF new, Agree, Meant, Mean

(* A text that shows what the machine does, and means what the whole does. *)
Traces(cs, e, v, toks, from, flags, r) ==
  \E text, q : Shows(text, q, cs, e, v, toks, from) /\ Agree(Meant(text, flags), r)

(* A segment at the end of what was read is replaced by its value.         *)
LEMMA CutTraces ==
  ASSUME NEW text, NEW q, NEW cs, NEW e, NEW v, NEW toks, NEW from,
         Shows(text, q, cs, e, v, toks, from), NEW less, IsSeq(less), Len(less) \in 0 .. Len(cs),
         \A k \in 1 .. Len(less) : less[k] = cs[k],
         NEW s \in {0, 1}, from + s <= Len(toks) + 1, NEW d \in Nat,
         q[Len(less)] + 1 + d = (q[Len(cs)] + e) + s,
         NEW flags, NEW x, Agree(Meant(text, flags), x), NEW r,
         \A token : token.t \in {"lit", "ref"} /\ Agree(r, Atom(token)) =>
                      Stands(text, flags, q[Len(less)] + 1, d, token)
  PROVE  /\ r.out = "ok" /\ r = Yields(r.v) => Traces(less, 1, r.v, toks, from + s, flags, x)
         /\ r.out # "ok" => x.out # "ok"
<1> DEFINE p == q[Len(less)] + 1
<1>1. /\ Len(text) \in Nat /\ \A k \in 0 .. Len(cs) : q[k] \in Nat
      /\ Len(text) = (q[Len(cs)] + e) + ((Len(toks) + 1) - from) /\ Len(toks) \in Nat
      /\ from \in Nat /\ e \in Nat /\ q[Len(cs)] \in Nat
  BY ShowsNat
<1>2. p \in Nat /\ p >= 1 /\ p + d = (q[Len(cs)] + e) + s
  <2>1. q[Len(less)] \in Nat
    BY <1>1
  <2> QED
    BY <2>1
<1>3. p + d <= Len(text)
  <2> DEFINE y == q[Len(cs)]
             n == Len(text)
             m == Len(toks)
  <2>1. y \in Nat /\ n \in Nat /\ m \in Nat /\ e \in Nat /\ s \in Nat /\ from \in Nat
        /\ n = (y + e) + ((m + 1) - from) /\ from + s <= m + 1
    BY <1>1
  <2> HIDE DEF y, n, m
  <2>2. (y + e) + s <= n
    BY <2>1
  <2> QED
    BY <1>2, <2>2 DEF y, n
<1>4. ASSUME NEW token, token.t \in {"lit", "ref"}, Agree(r, Atom(token))
      PROVE  /\ Agree(Meant(text, flags), Meant(Cut(text, p, d, token), flags))
             /\ Atom(token).out # "ok" => Meant(text, flags).out # "ok"
  <2>1. Stands(text, flags, p, d, token)
    BY <1>4
  <2> HIDE DEF p
  <2> QED
    BY <1>1, <1>2, <1>3, <1>4, <2>1, CutMeans
<1>5. ASSUME r.out = "ok", r = Yields(r.v)
      PROVE  Traces(less, 1, r.v, toks, from + s, flags, x)
  <2> DEFINE token == [t |-> "lit", v |-> r.v]
             new == Cut(text, p, d, token)
             a == [k \in 0 .. Len(less) |-> q[k]]
  <2>1. IsValue(token, r.v)
    BY DEF IsValue
  <2>2. token.t = "lit" /\ Atom(token) = r
    BY <1>5, <2>1, ValueAtom
  <2>3. Shows(new, a, less, 1, r.v, toks, from + s)
    BY CutShows
  <2> HIDE DEF token, p, a
  <2>4. Agree(Meant(text, flags), Meant(new, flags))
    BY <1>4, <2>2 DEF Agree
  <2> HIDE DEF new
  <2>5. Agree(Meant(new, flags), x)
    BY <2>4 DEF Agree
  <2> QED
    BY <2>3, <2>5 DEF Traces
<1>6. ASSUME r.out # "ok"
      PROVE  x.out # "ok"
  <2>1. PICK token : token.t = "ref" /\ Atom(token).out # "ok"
    BY NoValue
  <2>2. Meant(text, flags).out # "ok"
    BY <1>4, <1>6, <2>1 DEF Agree
  <2> QED
    BY <2>2 DEF Agree
<1> QED
  BY <1>5, <1>6

-----------------------------------------------------------------------------
(* Each step of the descent.                                               *)
LEMMA OperandShown ==
  ASSUME NEW text, NEW q, NEW cs, NEW e, NEW v, NEW toks, NEW from,
         Shows(text, q, cs, e, v, toks, from), from <= Len(toks)
  PROVE  /\ text[(q[Len(cs)] + e) + 1] = toks[from] /\ (q[Len(cs)] + e) + 1 <= Len(text)
         /\ (q[Len(cs)] + e) + 1 \in Nat
<1> DEFINE y == q[Len(cs)]
           n == Len(text)
           m == Len(toks)
<1>1. y \in Nat /\ n \in Nat /\ m \in Nat /\ e \in Nat /\ from \in Nat /\ from >= 1
      /\ n = (y + e) + ((m + 1) - from) /\ from <= m
  BY ShowsNat
<1> HIDE DEF y, n
<1>2. from \in from .. m /\ (y + e) + ((from + 1) - from) = (y + e) + 1 /\ (y + e) + 1 <= n
      /\ (y + e) + 1 \in Nat
  BY <1>1
<1>3. text[(y + e) + ((from + 1) - from)] = toks[from]
  BY <1>2 DEF Shows, y
<1> QED
  BY <1>2, <1>3 DEF y, n

LEMMA AtomYields ==
  ASSUME NEW token, Atom(token).out = "ok"
  PROVE  Atom(token) = Yields(Atom(token).v)
BY DEF Atom, ResolveReference, Yields, Fails

LEMMA ReadTraces ==
  ASSUME NEW cs, NEW v, NEW toks, NEW from, NEW flags, NEW x,
         Traces(cs, 0, v, toks, from, flags, x), from <= Len(toks),
         toks[from].t \in {"lit", "ref"}
  PROVE  LET r == Atom(toks[from]) IN
         /\ r.out = "ok" => Traces(cs, 1, r.v, toks, from + 1, flags, x)
         /\ r.out # "ok" => x.out # "ok"
<1> DEFINE r == Atom(toks[from])
           K == Len(cs)
<1>1. PICK text, q : Shows(text, q, cs, 0, v, toks, from) /\ Agree(Meant(text, flags), x)
  BY DEF Traces
<1>2. /\ IsSeq(cs) /\ K \in 0 .. K /\ from + 1 <= Len(toks) + 1 /\ q[K] \in Nat
  <2>1. IsSeq(cs) /\ K \in Nat /\ q[K] \in Nat /\ from \in Nat /\ Len(toks) \in Nat
    BY <1>1, ShowsNat DEF Shows
  <2> QED
    BY <2>1
<1>3. text[q[K] + 1] = toks[from]
  <2>1. text[(q[K] + 0) + 1] = toks[from]
    BY <1>1, OperandShown
  <2>2. (q[K] + 0) + 1 = q[K] + 1
    BY <1>2
  <2> QED
    BY <2>1, <2>2
<1>4. ASSUME NEW token, token.t \in {"lit", "ref"}, Agree(r, Atom(token))
      PROVE  Stands(text, flags, q[K] + 1, 0, token)
  <2> DEFINE p == q[K] + 1
  <2> SUFFICES ASSUME NEW new, Spliced(text, new, p, 0), new[p] = token
               PROVE  Agree(Mean(text, flags, 1, Len(text)), Mean(new, flags, 1, Len(new)))
    BY DEF Stands
  <2>1. text[p].t \in {"lit", "ref"} /\ new[p].t \in {"lit", "ref"}
        /\ Agree(Atom(text[p]), Atom(new[p]))
    BY <1>3, <1>4
  <2> HIDE DEF p
  <2> QED
    BY <2>1, AtomReplaced
<1>5. q[K] + 1 + 0 = (q[K] + 0) + 1 /\ 0 \in Nat /\ 1 \in {0, 1}
  BY <1>2
<1> HIDE DEF r
<1>6. /\ r.out = "ok" /\ r = Yields(r.v) => Traces(cs, 1, r.v, toks, from + 1, flags, x)
      /\ r.out # "ok" => x.out # "ok"
  BY <1>1, <1>2, <1>4, <1>5, CutTraces
<1>7. r.out = "ok" => r = Yields(r.v)
  BY AtomYields DEF r
<1> QED
  BY <1>6, <1>7 DEF r

LEMMA SignYields ==
  ASSUME NEW op, NEW v, ApplySign(op, v).out = "ok"
  PROVE  ApplySign(op, v) = Yields(ApplySign(op, v).v)
<1>1. \E w : ApplySign(op, v) \in {Yields(w), Fails}
  BY DEF ApplySign
<1> QED
  BY <1>1 DEF Yields, Fails

(* What a value that the last call waits for stands next to.               *)
LEMMA PopShown ==
  ASSUME NEW text, NEW q, NEW cs, NEW v, NEW toks, NEW from,
         Shows(text, q, cs, 1, v, toks, from), NEW flags, CallsFit(cs, flags), cs # << >>
  PROVE  LET top == cs[Len(cs)]  b == q[Len(cs) - 1]  t == q[Len(cs)]  less == Front(cs) IN
         /\ IsSeq(less) /\ Len(less) = Len(cs) - 1 /\ Len(less) \in 0 .. Len(cs)
         /\ \A k \in 1 .. Len(less) : less[k] = cs[k]
         /\ b \in Nat /\ t = b + (IF top.call = "right" THEN 2 ELSE 1)
         /\ text[t].t = top.op /\ IsValue(text[t + 1], v)
         /\ top.call = "right" => IsValue(text[b + 1], top.v) /\ top.op \in Operators
         /\ top.call = "sign" => top.op \in SignsOf(flags)
         /\ top.call = "paren" => top.op = "("
         /\ b + 1 > 1 => ~Closes(text[(b + 1) - 1])
                           /\ (top.call = "right" => text[(b + 1) - 1].t = "(")
         /\ from \in Nat /\ from + 0 = from /\ from + 0 <= Len(toks) + 1
<1> DEFINE K == Len(cs)
           top == cs[K]
           b == q[K - 1]
           t == q[K]
           less == Front(cs)
<1>1. /\ b \in Nat /\ t \in Nat /\ text[t].t = top.op
      /\ t = b + (IF top.call = "right" THEN 2 ELSE 1)
      /\ top.call = "right" => IsValue(text[b + 1], top.v) /\ top.op \in Operators
      /\ top.call = "sign" => top.op \in SignsOf(flags)
      /\ top.call = "paren" => top.op = "("
      /\ b >= 1 => ~Closes(text[b])
      /\ b >= 1 /\ top.call = "right" => text[b].t = "("
  BY TopShown
<1>2. /\ IsSeq(less) /\ Len(less) = K - 1 /\ K \in Nat /\ K >= 1
      /\ \A i \in 1 .. K - 1 : less[i] = cs[i]
  BY SeqFront DEF Shows
<1>3. IsValue(text[t + 1], v)
  BY DEF Shows
<1>4. from \in Nat /\ from <= Len(toks) + 1
  BY DEF Shows
<1> HIDE DEF b, t, less, top
<1>5. b + 1 > 1 => ~Closes(text[(b + 1) - 1])
                     /\ (top.call = "right" => text[(b + 1) - 1].t = "(")
  <2>1. (b + 1) - 1 = b /\ (b + 1 > 1 => b >= 1)
    BY <1>1
  <2> QED
    BY <1>1, <2>1
<1>6. Len(less) \in 0 .. K /\ \A k \in 1 .. Len(less) : less[k] = cs[k]
  BY <1>2
<1>7. from + 0 = from /\ from + 0 <= Len(toks) + 1
  BY <1>4
<1> QED
  BY <1>1, <1>2, <1>3, <1>4, <1>5, <1>6, <1>7 DEF b, t, less, top

LEMMA SignTraces ==
  ASSUME NEW cs, NEW v, NEW toks, NEW from, NEW flags, NEW x,
         Traces(cs, 1, v, toks, from, flags, x), CallsFit(cs, flags), cs # << >>,
         cs[Len(cs)].call = "sign"
  PROVE  LET r == ApplySign(cs[Len(cs)].op, v) IN
         /\ r.out = "ok" => Traces(Front(cs), 1, r.v, toks, from, flags, x)
         /\ r.out # "ok" => x.out # "ok"
<1> DEFINE K == Len(cs)
           top == cs[K]
           r == ApplySign(top.op, v)
           less == Front(cs)
<1>1. PICK text, q : Shows(text, q, cs, 1, v, toks, from) /\ Agree(Meant(text, flags), x)
  BY DEF Traces
<1> DEFINE p == q[Len(less)] + 1
<1>2. /\ IsSeq(less) /\ Len(less) = K - 1 /\ Len(less) \in 0 .. K
      /\ \A k \in 1 .. Len(less) : less[k] = cs[k]
      /\ from + 0 = from /\ from + 0 <= Len(toks) + 1
  BY <1>1, PopShown
<1>3. /\ q[Len(less)] \in Nat /\ q[K] = q[Len(less)] + 1
      /\ text[q[K]].t = top.op /\ IsValue(text[q[K] + 1], v) /\ top.op \in SignsOf(flags)
      /\ p > 1 => ~Closes(text[p - 1])
  BY <1>1, <1>2, PopShown
<1>4. p = q[K] /\ p + 1 = q[K] + 1 /\ q[Len(less)] + 1 + 1 = (q[K] + 1) + 0
  BY <1>3
<1>5. ASSUME NEW token, token.t \in {"lit", "ref"}, Agree(r, Atom(token))
      PROVE  Stands(text, flags, p, 1, token)
  <2> SUFFICES ASSUME NEW new, Spliced(text, new, p, 1), new[p] = token
               PROVE  Agree(Mean(text, flags, 1, Len(text)), Mean(new, flags, 1, Len(new)))
    BY DEF Stands
  <2> HIDE DEF p, r
  <2>1. text[p].t = top.op /\ IsValue(text[p + 1], v)
    BY <1>3, <1>4
  <2>2. text[p + 1].t = "lit" /\ Atom(text[p + 1]).out = "ok" /\ Atom(text[p + 1]).v = v
    BY <2>1, ValueAtom
  <2>3. text[p].t \in {"-", "+", "~"}
    BY <1>3, <2>1 DEF SignsOf
  <2>4. Signed(text[p].t, Atom(text[p + 1]), flags) = r
    BY <1>3, <2>1, <2>2 DEF Signed, SignsOf, r
  <2> QED
    BY <1>3, <1>5, <2>2, <2>3, <2>4, SignReplaced
<1> HIDE DEF r, less
<1>6. /\ r.out = "ok" /\ r = Yields(r.v) => Traces(less, 1, r.v, toks, from + 0, flags, x)
      /\ r.out # "ok" => x.out # "ok"
  BY <1>1, <1>2, <1>4, <1>5, CutTraces
<1>7. r.out = "ok" => r = Yields(r.v)
  BY SignYields DEF r
<1> QED
  BY <1>2, <1>6, <1>7 DEF r, less

LEMMA BinopYields ==
  ASSUME NEW a, NEW op, NEW b, NEW flags, ApplyBinop(a, op, b, flags).out = "ok"
  PROVE  ApplyBinop(a, op, b, flags) = Yields(ApplyBinop(a, op, b, flags).v)
<1>1. \E w : ApplyBinop(a, op, b, flags) \in {Yields(w), Fails, Raises}
  <2> DEFINE n == CASE op = "+" -> a.n * b.d + b.n * a.d
                    [] op = "-" -> a.n * b.d - b.n * a.d
                    [] op = "*" -> a.n * b.n
             u == Int_(Combined(a.n, op, b.n))
             f == Fraction(a.n * b.d, a.d * b.n)
             w == IF IsInt(a) /\ IsInt(b) THEN Int_(n) ELSE Fraction(n, a.d * b.d)
  <2>1. ApplyBinop(a, op, b, flags) \in {Yields(u), Yields(f), Yields(w), Fails, Raises}
    <3> DEFINE bad == op \notin (IF flags THEN Bitwise_ ELSE Arithmetic) \/ ~(IsNum(a) /\ IsNum(b))
    <3>1. CASE bad
      BY <3>1 DEF ApplyBinop
    <3>2. CASE ~bad /\ op \in Bitwise_
      BY <3>2 DEF ApplyBinop
    <3>3. CASE ~bad /\ op \notin Bitwise_ /\ op = "/"
      BY <3>3 DEF ApplyBinop
    <3>4. CASE ~bad /\ op \notin Bitwise_ /\ op # "/"
      BY <3>4 DEF ApplyBinop
    <3> QED
      BY <3>1, <3>2, <3>3, <3>4
  <2> HIDE DEF u, f, w
  <2> QED
    BY <2>1
<1> QED
  BY <1>1 DEF Yields, Fails, Raises

LEMMA RightTraces ==
  ASSUME NEW cs, NEW v, NEW toks, NEW from, NEW flags, NEW x,
         Traces(cs, 1, v, toks, from, flags, x), CallsFit(cs, flags), cs # << >>,
         cs[Len(cs)].call = "right"
  PROVE  LET r == ApplyBinop(cs[Len(cs)].v, cs[Len(cs)].op, v, flags) IN
         /\ r.out = "ok" => Traces(Front(cs), 1, r.v, toks, from, flags, x)
         /\ r.out # "ok" => x.out # "ok"
<1> DEFINE K == Len(cs)
           top == cs[K]
           r == ApplyBinop(top.v, top.op, v, flags)
           less == Front(cs)
<1>1. PICK text, q : Shows(text, q, cs, 1, v, toks, from) /\ Agree(Meant(text, flags), x)
  BY DEF Traces
<1> DEFINE p == q[Len(less)] + 1
<1>2. /\ IsSeq(less) /\ Len(less) = K - 1 /\ Len(less) \in 0 .. K
      /\ \A k \in 1 .. Len(less) : less[k] = cs[k]
      /\ from + 0 = from /\ from + 0 <= Len(toks) + 1
  BY <1>1, PopShown
<1>3. /\ q[Len(less)] \in Nat /\ q[K] = q[Len(less)] + 2
      /\ text[q[K]].t = top.op /\ IsValue(text[q[K] + 1], v) /\ top.op \in Operators
      /\ p > 1 => text[p - 1].t = "("
  BY <1>1, <1>2, PopShown
<1>a. IsValue(text[p], top.v)
  BY <1>1, <1>2, PopShown
<1>4. p + 1 = q[K] /\ p + 2 = q[K] + 1 /\ q[Len(less)] + 1 + 2 = (q[K] + 1) + 0 /\ 2 \in Nat
  BY <1>3
<1>5. ASSUME NEW token, token.t \in {"lit", "ref"}, Agree(r, Atom(token))
      PROVE  Stands(text, flags, p, 2, token)
  <2> SUFFICES ASSUME NEW new, Spliced(text, new, p, 2), new[p] = token
               PROVE  Agree(Mean(text, flags, 1, Len(text)), Mean(new, flags, 1, Len(new)))
    BY DEF Stands
  <2>0. p > 1 => text[p - 1].t = "("
    BY <1>3
  <2> HIDE DEF p, r
  <2>1. text[p + 1].t = top.op /\ IsValue(text[p + 2], v) /\ IsValue(text[p], top.v)
    BY <1>3, <1>4, <1>a
  <2>2. /\ text[p].t = "lit" /\ Atom(text[p]).out = "ok" /\ Atom(text[p]).v = top.v
        /\ text[p + 2].t = "lit" /\ Atom(text[p + 2]).out = "ok" /\ Atom(text[p + 2]).v = v
    BY <2>1, ValueAtom
  <2>3. text[p + 1].t \in Operators
    BY <1>3, <2>1
  <2>4. Joined(Atom(text[p]), text[p + 1].t, Atom(text[p + 2]), flags) = r
    BY <2>1, <2>2 DEF Joined, r
  <2> QED
    BY <1>5, <2>0, <2>2, <2>3, <2>4, OperatorReplaced
<1> HIDE DEF r, less
<1>6. /\ r.out = "ok" /\ r = Yields(r.v) => Traces(less, 1, r.v, toks, from + 0, flags, x)
      /\ r.out # "ok" => x.out # "ok"
  BY <1>1, <1>2, <1>4, <1>5, CutTraces
<1>7. r.out = "ok" => r = Yields(r.v)
  BY BinopYields DEF r
<1> QED
  BY <1>2, <1>6, <1>7 DEF r, less

LEMMA ParenTraces ==
  ASSUME NEW cs, NEW v, NEW toks, NEW from, NEW flags, NEW x,
         Traces(cs, 1, v, toks, from, flags, x), CallsFit(cs, flags), cs # << >>,
         cs[Len(cs)].call = "paren", from <= Len(toks), toks[from].t = ")"
  PROVE  Traces(Front(cs), 1, v, toks, from + 1, flags, x)
<1> DEFINE K == Len(cs)
           r == Yields(v)
           less == Front(cs)
<1>1. PICK text, q : Shows(text, q, cs, 1, v, toks, from) /\ Agree(Meant(text, flags), x)
  BY DEF Traces
<1> DEFINE p == q[Len(less)] + 1
<1>2. /\ IsSeq(less) /\ Len(less) = K - 1 /\ Len(less) \in 0 .. K
      /\ \A k \in 1 .. Len(less) : less[k] = cs[k]
  BY <1>1, PopShown
<1>3. /\ q[Len(less)] \in Nat /\ q[K] = q[Len(less)] + 1
      /\ text[q[K]].t = "(" /\ IsValue(text[q[K] + 1], v)
  BY <1>1, <1>2, PopShown
<1>b. text[(q[K] + 1) + 1] = toks[from] /\ Len(toks) \in Nat /\ from \in Nat
  BY <1>1, OperandShown, ShowsNat
<1>4. /\ p = q[K] /\ p + 1 = q[K] + 1 /\ p + 2 = (q[K] + 1) + 1
      /\ q[Len(less)] + 1 + 2 = (q[K] + 1) + 1 /\ 2 \in Nat /\ 1 \in {0, 1}
  BY <1>3
<1>c. from + 1 <= Len(toks) + 1
  BY <1>b
<1>5. ASSUME NEW token, token.t \in {"lit", "ref"}, Agree(r, Atom(token))
      PROVE  Stands(text, flags, p, 2, token)
  <2> SUFFICES ASSUME NEW new, Spliced(text, new, p, 2), new[p] = token
               PROVE  Agree(Mean(text, flags, 1, Len(text)), Mean(new, flags, 1, Len(new)))
    BY DEF Stands
  <2> HIDE DEF p, r
  <2>1. text[p].t = "(" /\ IsValue(text[p + 1], v) /\ text[p + 2].t = ")"
    BY <1>3, <1>4, <1>b
  <2>2. text[p + 1].t = "lit" /\ Atom(text[p + 1]) = r
    BY <2>1, ValueAtom DEF r
  <2> QED
    BY <1>5, <2>1, <2>2, ParenReplaced
<1>d. r.out = "ok" /\ r.v = v
  BY DEF Yields
<1>e. r = Yields(r.v)
  BY <1>d
<1> HIDE DEF r, less
<1>6. r.out = "ok" /\ r = Yields(r.v) => Traces(less, 1, r.v, toks, from + 1, flags, x)
  BY <1>1, <1>2, <1>4, <1>5, <1>c, CutTraces
<1> QED
  BY <1>6, <1>d, <1>e DEF less

LEMMA PushTraces ==
  ASSUME NEW cs, NEW e, NEW v, NEW toks, NEW from, NEW flags, NEW x,
         Traces(cs, e, v, toks, from, flags, x), from <= Len(toks), NEW c, NEW w,
         toks[from].t = c.op,
         IF c.call = "right" THEN e = 1 /\ c.v = v ELSE e = 0
  PROVE  Traces(Append(cs, c), 0, w, toks, from + 1, flags, x)
<1>1. PICK text, q : Shows(text, q, cs, e, v, toks, from) /\ Agree(Meant(text, flags), x)
  BY DEF Traces
<1>2. PICK r : Shows(text, r, Append(cs, c), 0, w, toks, from + 1)
  BY <1>1, PushShows
<1> QED
  BY <1>1, <1>2 DEF Traces

-----------------------------------------------------------------------------
(* Where the descent stops, the whole text means nothing, or the value.    *)
LEMMA TextRegular ==
  ASSUME NEW text, Len(text) \in Nat, NEW flags, Meant(text, flags).out = "ok"
  PROVE  /\ Len(text) >= 1 /\ Opens(text[1], flags) /\ Closes(text[Len(text)])
         /\ Balance(text, Len(text)) = 0
         /\ \A h \in 1 .. Len(text) : Balance(text, h) >= 0
         /\ \A k \in 1 .. Len(text) - 1 : Goes(text, flags, k)
<1> DEFINE n == Len(text)
<1>1. Mean(text, flags, 1, n).out = "ok" /\ 1 \in 1 .. n + 1 /\ n \in 0 .. n
  BY DEF Meant, Mean
<1>2. Regular(text, flags, 1, n)
  BY <1>1, OkRegular
<1>3. Balance(text, 1 - 1) = 0
  <2>1. 1 - 1 = 0
    OBVIOUS
  <2> QED
    BY <2>1, BalanceZero
<1> QED
  BY <1>2, <1>3 DEF Regular

LEMMA RefuseOperand ==
  ASSUME NEW cs, NEW v, NEW toks, NEW from, NEW flags, NEW x,
         Traces(cs, 0, v, toks, from, flags, x), CallsFit(cs, flags),
         ~(from <= Len(toks) /\ toks[from].t \in SignsOf(flags) \cup {"(", "lit", "ref"})
  PROVE  x.out # "ok"
<1>1. PICK text, q : Shows(text, q, cs, 0, v, toks, from) /\ Agree(Meant(text, flags), x)
  BY DEF Traces
<1>2. SUFFICES ASSUME Meant(text, flags).out = "ok" PROVE FALSE
  BY <1>1 DEF Agree
<1> DEFINE y == q[Len(cs)]
           n == Len(text)
           m == Len(toks)
<1>3. /\ y \in Nat /\ n \in Nat /\ m \in Nat /\ from \in Nat /\ from <= m + 1
      /\ n = (y + 0) + ((m + 1) - from) /\ q[0] = 0 /\ (cs # << >> <=> Len(cs) >= 1)
      /\ Len(cs) \in Nat
  BY <1>1, ShowsNat
<1>4. /\ n >= 1 /\ Opens(text[1], flags) /\ Closes(text[n])
      /\ \A k \in 1 .. n - 1 : Goes(text, flags, k)
  BY <1>2, <1>3, TextRegular
<1>5. cs = << >> => y = 0
  BY <1>3
<1>6. cs # << >> => y >= 1 /\ ~Closes(text[y])
  <2> SUFFICES ASSUME cs # << >> PROVE y >= 1 /\ ~Closes(text[y])
    OBVIOUS
  <2> DEFINE top == cs[Len(cs)]
  <2>1. /\ text[y].t = top.op /\ y >= 1
        /\ top.call = "right" => top.op \in Operators
        /\ top.call = "sign" => top.op \in SignsOf(flags)
        /\ top.call = "paren" => top.op = "("
        /\ top.call \in {"sign", "paren", "right"}
    BY <1>1, TopShown
  <2>2. top.op \notin {"lit", "ref", ")"}
    BY <2>1 DEF SignsOf, Operators, Arithmetic, Bitwise_
  <2> QED
    BY <2>1, <2>2 DEF Closes
<1>7. from <= m => text[y + 1] = toks[from] /\ y + 1 <= n
  <2> SUFFICES ASSUME from <= m PROVE text[y + 1] = toks[from] /\ y + 1 <= n
    OBVIOUS
  <2>1. text[(y + 0) + 1] = toks[from] /\ (y + 0) + 1 <= n
    BY <1>1, OperandShown
  <2>2. (y + 0) + 1 = y + 1
    BY <1>3
  <2> QED
    BY <2>1, <2>2
<1> HIDE DEF y, n, m
<1>8. CASE from <= m
  <2>1. Opens(text[y + 1], flags)
    <3>1. CASE cs = << >>
      <4>1. y + 1 = 1
        BY <1>5, <3>1
      <4> QED
        BY <1>4, <4>1
    <3>2. CASE cs # << >>
      <4>1. y \in 1 .. n - 1 /\ ~Closes(text[y])
        BY <1>3, <1>6, <1>7, <1>8, <3>2
      <4> QED
        BY <1>4, <4>1 DEF Goes
    <3> QED
      BY <3>1, <3>2
  <2> QED
    BY <1>7, <1>8, <2>1 DEF Opens, SignsOf, m
<1>9. CASE ~(from <= m)
  <2>1. n = y
    BY <1>3, <1>9
  <2> QED
    BY <1>4, <1>5, <1>6, <2>1
<1> QED
  BY <1>8, <1>9

LEMMA ValueShown ==
  ASSUME NEW text, NEW q, NEW cs, NEW v, NEW toks, NEW from,
         Shows(text, q, cs, 1, v, toks, from)
  PROVE  LET y == q[Len(cs)] IN
         /\ y \in Nat /\ Len(text) \in Nat /\ from \in Nat /\ Len(toks) \in Nat
         /\ IsValue(text[y + 1], v) /\ text[y + 1].t = "lit" /\ y + 1 <= Len(text)
         /\ from <= Len(toks) => text[y + 2] = toks[from] /\ y + 2 <= Len(text)
         /\ ~(from <= Len(toks)) => Len(text) = y + 1
         /\ cs = << >> => y = 0
<1> DEFINE y == q[Len(cs)]
           n == Len(text)
           m == Len(toks)
<1>1. /\ y \in Nat /\ n \in Nat /\ m \in Nat /\ from \in Nat /\ from <= m + 1
      /\ n = (y + 1) + ((m + 1) - from) /\ q[0] = 0 /\ (cs # << >> <=> Len(cs) >= 1)
      /\ Len(cs) \in Nat
  BY ShowsNat
<1>2. cs = << >> => y = 0
  BY <1>1
<1>3. IsValue(text[y + 1], v) /\ text[y + 1].t = "lit"
  BY DEF Shows, IsValue
<1>4. from <= m => text[(y + 1) + 1] = toks[from] /\ (y + 1) + 1 <= n
  BY OperandShown
<1> HIDE DEF y, n, m
<1>5. (y + 1) + 1 = y + 2 /\ y + 1 <= n /\ (~(from <= m) => n = y + 1)
  BY <1>1
<1> QED
  BY <1>1, <1>2, <1>3, <1>4, <1>5 DEF y, n, m

LEMMA RefuseParen ==
  ASSUME NEW cs, NEW v, NEW toks, NEW from, NEW flags, NEW x,
         Traces(cs, 1, v, toks, from, flags, x), CallsFit(cs, flags), cs # << >>,
         cs[Len(cs)].call = "paren",
         ~(from <= Len(toks) /\ toks[from].t \in Operators \cup {")"})
  PROVE  x.out # "ok"
<1>1. PICK text, q : Shows(text, q, cs, 1, v, toks, from) /\ Agree(Meant(text, flags), x)
  BY DEF Traces
<1>2. SUFFICES ASSUME Meant(text, flags).out = "ok" PROVE FALSE
  BY <1>1 DEF Agree
<1> DEFINE y == q[Len(cs)]
           n == Len(text)
           m == Len(toks)
           B(k) == Balance(text, k)
<1>3. /\ y \in Nat /\ n \in Nat /\ m \in Nat /\ from \in Nat
      /\ text[y + 1].t = "lit" /\ y + 1 <= n
      /\ from <= m => text[y + 2] = toks[from] /\ y + 2 <= n
      /\ ~(from <= m) => n = y + 1
  BY <1>1, ValueShown
<1>4. y >= 1 /\ text[y].t = "("
  BY <1>1, TopShown
<1>5. /\ B(n) = 0 /\ \A h \in 1 .. n : B(h) >= 0
      /\ \A k \in 1 .. n - 1 : Goes(text, flags, k)
  BY <1>2, <1>3, TextRegular
<1>6. B(0) = 0
  BY BalanceZero
<1> HIDE DEF y, n, m
<1>7. CASE from <= m
  <2>1. y + 1 \in 1 .. n - 1 /\ (y + 1) + 1 = y + 2
    BY <1>3, <1>7
  <2>2. text[y + 2].t \in Operators \cup {")"}
    BY <1>3, <1>5, <2>1 DEF Goes, Closes
  <2> QED
    BY <1>3, <1>7, <2>2 DEF m
<1>8. CASE ~(from <= m)
  <2>1. y \in Nat /\ y >= 1 /\ y + 1 \in Nat /\ y + 1 >= 1 /\ (y + 1) - 1 = y /\ n = y + 1
    BY <1>3, <1>4, <1>8
  <2>2. B(y) = B(y - 1) + 1 /\ B(y - 1) \in Int
    BY <1>4, <2>1, BalanceStep
  <2>3. text[y + 1].t \notin {"(", ")"}
    BY <1>3
  <2>4. B(y + 1) = B((y + 1) - 1)
    BY <2>1, <2>3, BalanceStep
  <2>5. B(y - 1) >= 0
    <3>1. CASE y = 1
      <4>1. y - 1 = 0
        BY <3>1
      <4> QED
        BY <1>6, <4>1
    <3>2. CASE y # 1
      <4>1. y - 1 \in 1 .. n
        BY <2>1, <3>2
      <4> QED
        BY <1>5, <4>1
    <3> QED
      BY <3>1, <3>2
  <2> HIDE DEF B
  <2>6. B(n) = B(y - 1) + 1
    BY <2>1, <2>2, <2>4
  <2> QED
    BY <1>5, <2>2, <2>5, <2>6
<1> QED
  BY <1>7, <1>8

LEMMA RefuseRest ==
  ASSUME NEW v, NEW toks, NEW from, NEW flags, NEW x,
         Traces(<< >>, 1, v, toks, from, flags, x),
         from <= Len(toks), toks[from].t \notin Operators
  PROVE  x.out # "ok"
<1>1. PICK text, q : Shows(text, q, << >>, 1, v, toks, from) /\ Agree(Meant(text, flags), x)
  BY DEF Traces
<1>2. SUFFICES ASSUME Meant(text, flags).out = "ok" PROVE FALSE
  BY <1>1 DEF Agree
<1> DEFINE y == q[Len(<< >>)]
           n == Len(text)
           B(k) == Balance(text, k)
<1>3. /\ n \in Nat /\ y = 0 /\ text[y + 1].t = "lit" /\ text[y + 2] = toks[from] /\ y + 2 <= n
  BY <1>1, ValueShown
<1>4. text[1].t = "lit" /\ text[2] = toks[from] /\ 2 <= n
  <2>1. 0 + 1 = 1 /\ 0 + 2 = 2
    OBVIOUS
  <2> QED
    BY <1>3, <2>1
<1>5. /\ \A h \in 1 .. n : B(h) >= 0
      /\ \A k \in 1 .. n - 1 : Goes(text, flags, k)
  BY <1>2, <1>3, TextRegular
<1> HIDE DEF n, y
<1>6. 1 \in 1 .. n - 1 /\ 2 \in 1 .. n /\ 1 + 1 = 2
  BY <1>3, <1>4
<1>7. text[2].t = ")"
  <2>1. Goes(text, flags, 1)
    BY <1>5, <1>6
  <2>2. text[1 + 1].t \in Operators \cup {")"}
    BY <1>4, <2>1 DEF Goes, Closes
  <2> QED
    BY <1>4, <1>6, <2>2
<1>8. B(2) = B(2 - 1) - 1 /\ B(2 - 1) \in Int
  BY <1>7, BalanceStep
<1>9. B(1) = B(1 - 1)
  BY <1>4, BalanceStep
<1>10. B(0) = 0 /\ B(2) >= 0
  BY <1>5, <1>6, BalanceZero
<1>11. 2 - 1 = 1 /\ 1 - 1 = 0
  OBVIOUS
<1> HIDE DEF B
<1> QED
  BY <1>8, <1>9, <1>10, <1>11

LEMMA Finish ==
  ASSUME NEW v, NEW toks, NEW from, NEW flags, NEW x,
         Traces(<< >>, 1, v, toks, from, flags, x), ~(from <= Len(toks))
  PROVE  x.out = "ok" /\ x.v = v
<1>1. PICK text, q : Shows(text, q, << >>, 1, v, toks, from) /\ Agree(Meant(text, flags), x)
  BY DEF Traces
<1> DEFINE y == q[Len(<< >>)]
<1>2. y = 0 /\ IsValue(text[y + 1], v) /\ Len(text) = y + 1
  BY <1>1, ValueShown
<1>3. IsValue(text[1], v) /\ Len(text) = 1
  <2>1. 0 + 1 = 1
    OBVIOUS
  <2> QED
    BY <1>2, <2>1
<1>4. text[1].t = "lit" /\ Atom(text[1]) = Yields(v)
  BY <1>3, ValueAtom
<1>5. Splits(text, 1, 1) = {}
  BY DEF Splits
<1>6. Mean(text, flags, 1, 1) = Yields(v)
  <2>1. Len(text) \in Nat /\ 1 \in 1 .. Len(text) /\ text[1].t \in {"lit", "ref"}
    BY <1>3, <1>4
  <2>2. Mean(text, flags, 1, 1) = IF 1 = 1 THEN Atom(text[1]) ELSE Fails
    BY <1>5, <2>1, AtomMean
  <2> QED
    BY <1>4, <2>2
<1>7. Meant(text, flags) = Yields(v)
  BY <1>3, <1>6 DEF Meant, Mean
<1> QED
  BY <1>1, <1>7 DEF Agree, Yields

(* How it begins.                                                          *)
LEMMA StartPlain ==
  ASSUME NEW toks, IsSeq(toks), NEW v, NEW flags
  PROVE  Traces(<< >>, 0, v, toks, 1, flags, Meant(toks, flags))
<1> DEFINE q == [k \in 0 .. 0 |-> 0]
           cs == << >>
<1>1. IsSeq(cs) /\ Len(cs) = 0
  BY EmptySeq, SeqIsSeq DEF IsSeq
<1>2. Len(toks) \in Nat
  BY SeqFacts
<1>3. q \in [0 .. 0 -> Nat] /\ q[0] = 0
  OBVIOUS
<1> HIDE DEF q
<1>4. /\ 1 \in Nat \ {0} /\ 1 <= Len(toks) + 1 /\ 0 \in {0, 1}
      /\ Len(toks) = (0 + 0) + ((Len(toks) + 1) - 1)
      /\ \A i \in 1 .. Len(toks) : (0 + 0) + ((i + 1) - 1) = i
  BY <1>2
<1>5. Shows(toks, q, cs, 0, v, toks, 1)
  BY <1>1, <1>3, <1>4 DEF Shows
<1> QED
  BY <1>5 DEF Traces, Agree

LEMMA StartRight ==
  ASSUME NEW toks, IsSeq(toks), NEW v, NEW w, NEW op, NEW flags
  PROVE  LET whole == <<[t |-> "lit", v |-> w], [t |-> op]>> \o toks IN
         Traces(<<Right(op, w)>>, 0, v, toks, 1, flags, Meant(whole, flags))
<1> DEFINE two == <<[t |-> "lit", v |-> w], [t |-> op]>>
           whole == two \o toks
           c == Right(op, w)
           cs == <<c>>
           q == [k \in 0 .. 1 |-> IF k = 0 THEN 0 ELSE 2]
           S == {two[1], two[2]} \cup ToSet(toks)
<1>1. Len(toks) \in Nat /\ toks \in Seq(ToSet(toks))
  BY SeqFacts DEF IsSeq
<1>2. two \in Seq(S) /\ Len(two) = 2 /\ two[1] = [t |-> "lit", v |-> w] /\ two[2] = [t |-> op]
  OBVIOUS
<1>3. toks \in Seq(S)
  BY <1>1
<1> HIDE DEF two, S
<1>4. /\ whole \in Seq(S) /\ Len(whole) = 2 + Len(toks)
      /\ \A i \in 1 .. Len(whole) : whole[i] = IF i <= 2 THEN two[i] ELSE toks[i - 2]
  <2>1. /\ whole \in Seq(S) /\ Len(whole) = Len(two) + Len(toks)
        /\ \A i \in 1 .. Len(two) + Len(toks) :
             whole[i] = IF i <= Len(two) THEN two[i] ELSE toks[i - Len(two)]
    BY <1>2, <1>3, ConcatProperties
  <2> QED
    BY <1>2, <2>1
<1> HIDE DEF whole
<1>5. IsSeq(whole)
  BY <1>4, SeqIsSeq
<1>6. whole[1] = two[1] /\ whole[2] = two[2]
  BY <1>1, <1>4
<1>7. \A i \in 1 .. Len(toks) : whole[i + 2] = toks[i]
  <2> TAKE i \in 1 .. Len(toks)
  <2>1. i + 2 \in 1 .. Len(whole) /\ ~(i + 2 <= 2) /\ (i + 2) - 2 = i
    BY <1>1, <1>4
  <2> QED
    BY <1>4, <2>1
<1>8. q \in [0 .. 1 -> Nat] /\ q[0] = 0 /\ q[1] = 2
  OBVIOUS
<1>9. IsSeq(cs) /\ Len(cs) = 1 /\ cs[1] = c
  <2>1. cs \in Seq({c}) /\ Len(cs) = 1 /\ cs[1] = c
    OBVIOUS
  <2> QED
    BY <2>1, SeqIsSeq
<1>10. c.call = "right" /\ c.op = op /\ c.v = w
  BY DEF Right
<1> HIDE DEF q, cs, c
<1>11. /\ 1 \in Nat \ {0} /\ 1 <= Len(toks) + 1 /\ 0 \in {0, 1}
       /\ Len(whole) = (2 + 0) + ((Len(toks) + 1) - 1)
       /\ \A i \in 1 .. Len(toks) : (2 + 0) + ((i + 1) - 1) = i + 2
  BY <1>1, <1>4
<1>12. IsValue(whole[1], w) /\ whole[2].t = op
  BY <1>2, <1>6 DEF IsValue
<1>13. ASSUME NEW k \in 1 .. 1
       PROVE  /\ q[k] = q[k - 1] + (IF cs[k].call = "right" THEN 2 ELSE 1)
              /\ whole[q[k]].t = cs[k].op
              /\ cs[k].call = "right" => IsValue(whole[q[k] - 1], cs[k].v)
  <2>1. k = 1 /\ k - 1 = 0 /\ 2 - 1 = 1 /\ 0 + 2 = 2
    OBVIOUS
  <2> QED
    BY <1>8, <1>9, <1>10, <1>12, <2>1
<1>14. \A i \in 1 .. Len(toks) : whole[(q[1] + 0) + ((i + 1) - 1)] = toks[i]
  BY <1>7, <1>8, <1>11
<1>15. Shows(whole, q, cs, 0, v, toks, 1)
  BY <1>5, <1>8, <1>9, <1>11, <1>13, <1>14 DEF Shows
<1> QED
  BY <1>15 DEF Traces, Agree, whole, two, cs, c

-----------------------------------------------------------------------------
(* An operator statement on what is no number means nothing.               *)
LEMMA FirstOperand ==
  ASSUME NEW toks, Len(toks) \in Nat, Len(toks) >= 2, NEW flags, NEW w,
         IsValue(toks[1], w), ~IsNum(w), toks[2].t \in Operators
  PROVE  Meant(toks, flags).out # "ok"
<1> DEFINE n == Len(toks)
           M(a, b) == Mean(toks, flags, a, b)
           Bad == {j \in 2 .. n : M(1, j).out = "ok"}
<1>1. SUFFICES ASSUME Bad # {} PROVE FALSE
  <2>1. n \in 2 .. n
    OBVIOUS
  <2> QED
    BY <2>1 DEF Meant, Mean
<1>2. Bad \in SUBSET Nat
  OBVIOUS
<1>3. PICK j \in Bad : \A i \in Bad : j <= i
  BY <1>1, <1>2, NatMin
<1>4. j \in 2 .. n /\ M(1, j).out = "ok"
  BY <1>3
<1> DEFINE T == Splits(toks, 1, j)
           h == LastOf(T)
<1>5. toks[1].t = "lit" /\ Atom(toks[1]).out = "ok" /\ Atom(toks[1]).v = w
  BY ValueAtom
<1>6. 2 \in T
  <2>1. Balance(toks, 1) = Balance(toks, 1 - 1)
    BY <1>5, BalanceStep
  <2>2. toks[2].t \notin {"(", ")"}
    BY DEF Operators, Arithmetic, Bitwise_
  <2>3. Balance(toks, 2) = Balance(toks, 2 - 1)
    BY <2>2, BalanceStep
  <2>4. 2 \in 1 + 1 .. j /\ 2 - 1 = 1
    BY <1>4
  <2> QED
    BY <1>5, <2>1, <2>3, <2>4 DEF Splits
<1>7. h \in T /\ h \in 2 .. j
  <2>1. 1 \in Nat /\ j \in Nat /\ 1 + 1 = 2
    BY <1>4
  <2>2. LastOf(Splits(toks, 1, j)) \in Splits(toks, 1, j)
        /\ Splits(toks, 1, j) \subseteq 1 + 1 .. j
    BY <1>6, <2>1, SplitFacts
  <2> QED
    BY <2>1, <2>2
<1>8. M(1, j) = Joined(M(1, h - 1), toks[h].t, M(h + 1, j), flags)
  <2>1. 1 \in 1 .. n + 1 /\ j \in 0 .. n /\ ~(1 > j) /\ Splits(toks, 1, j) # {}
    BY <1>4, <1>6
  <2> QED
    BY <2>1, MeanIs
<1> HIDE DEF M, h, T
<1>9. CASE h = 2
  <2>1. h - 1 = 1
    BY <1>9
  <2>2. Splits(toks, 1, 1) = {}
    BY DEF Splits
  <2>3. 1 \in 1 .. n /\ 1 \in 1 .. n /\ toks[1].t \in {"lit", "ref"}
    BY <1>5
  <2>4. Mean(toks, flags, 1, 1) = IF 1 = 1 THEN Atom(toks[1]) ELSE Fails
    BY <2>2, <2>3, AtomMean
  <2>5. M(1, h - 1) = Atom(toks[1])
    BY <2>1, <2>4 DEF M
  <2>6. ApplyBinop(w, toks[h].t, M(h + 1, j).v, flags) = Fails
    BY DEF ApplyBinop
  <2> QED
    BY <1>4, <1>5, <1>8, <2>5, <2>6 DEF Joined, Fails
<1>10. CASE h # 2
  <2>1. h - 1 \in 2 .. n /\ ~(j <= h - 1)
    BY <1>4, <1>7, <1>10
  <2>2. h - 1 \notin Bad
    BY <1>3, <2>1, Zenon
  <2>3. M(1, h - 1).out # "ok"
    BY <2>1, <2>2
  <2> QED
    BY <1>4, <1>8, <2>3 DEF Joined
<1> QED
  BY <1>9, <1>10

-----------------------------------------------------------------------------
(* A step that leaves the fields alone leaves alone what a text means.     *)
LEMMA SameMeaning ==
  ASSUME scope' = scope
  PROVE  \A toks, flags : Meant(toks, flags)' = Meant(toks, flags)
<1>1. \A toks, flags : Meaning(toks, flags)' = Meaning(toks, flags)
  BY DEF Meaning, Atom, ResolveReference
<1> QED
  BY <1>1 DEF Meant

LEMMA TracesSame ==
  ASSUME scope' = scope
  PROVE  \A cs, e, v, toks, from, flags, r :
           Traces(cs, e, v, toks, from, flags, r)' <=> Traces(cs, e, v, toks, from, flags, r)
BY SameMeaning DEF Traces

(* What the descent reads, from its beginning.                             *)
AllTokens == IF at = << >> THEN Expression ELSE Part.tokens
InHand == IF step = "value" THEN 1 ELSE 0
Traced ==
  step \in {"operand", "value"} =>
    /\ CallsFit(calls, IsFlags)
    /\ Traces(calls, InHand, value, tokens, pos, IsFlags, Meant(AllTokens, IsFlags))

LEMMA WholeSame ==
  ASSUME scope' = scope, todo' = todo, at' = at
  PROVE  AllTokens' = AllTokens /\ IsFlags' = IsFlags /\ Meant(AllTokens, IsFlags)' = Meant(AllTokens, IsFlags)
<1>1. /\ This' = This /\ Plain' = Plain /\ IsFlags' = IsFlags /\ Base' = Base
  BY SameStatement
<1>2. Held' = Held
  BY <1>1 DEF Held
<1>3. Expression' = Expression
  BY <1>1, <1>2 DEF Expression
<1>4. AllTokens' = AllTokens
  BY <1>1, <1>3 DEF AllTokens, Part
<1> QED
  BY <1>1, <1>4, SameMeaning

LEMMA TracedStep ==
  ASSUME scope' = scope, todo' = todo, at' = at, CallsFit(calls', IsFlags), NEW e, InHand' = e,
         Traces(calls', e, value', tokens', pos', IsFlags, Meant(AllTokens, IsFlags))
  PROVE  Traced'
<1>1. IsFlags' = IsFlags /\ Meant(AllTokens, IsFlags)' = Meant(AllTokens, IsFlags)
  BY WholeSame
<1>2. CallsFit(calls, IsFlags)'
  BY <1>1
<1>3. Traces(calls, InHand, value, tokens, pos, IsFlags, Meant(AllTokens, IsFlags))'
  BY <1>1, TracesSame
<1> QED
  BY <1>2, <1>3 DEF Traced

LEMMA TracedStop ==
  ASSUME Traced, NEW out, Stop(out)
  PROVE  Traced'
<1>1. /\ scope' = scope /\ todo' = todo /\ at' = at /\ step' = step /\ calls' = calls
      /\ value' = value /\ tokens' = tokens /\ pos' = pos
  BY DEF Stop
<1>2. CASE step \in {"operand", "value"}
  <2>1. InHand' = InHand
    BY <1>1 DEF InHand
  <2> QED
    BY <1>1, <1>2, <2>1, TracedStep DEF Traced
<1>3. CASE step \notin {"operand", "value"}
  BY <1>1, <1>3 DEF Traced
<1> QED
  BY <1>2, <1>3

LEMMA TracedOver ==
  ASSUME step' \notin {"operand", "value"}
  PROVE  Traced'
BY DEF Traced

LEMMA PutTraced ==
  ASSUME Traced, NEW r, Put(r)
  PROVE  Traced'
<1>1. CASE r.out # "ok"
  BY <1>1, TracedStop DEF Put
<1>2. CASE r.out = "ok"
  <2>1. step' \in {"next", "part"}
    BY <1>2 DEF Put, Store
  <2> QED
    BY <2>1, TracedOver
<1> QED
  BY <1>1, <1>2

LEMMA ElementTraced ==
  ASSUME ExprInv, Traced, todo # << >>, NEW q \in DOMAIN This.rhs, Element(This.rhs[q]),
         This.rhs[q].k = "expr" => AllTokens = This.rhs[q].tokens
  PROVE  Traced'
<1> DEFINE part == This.rhs[q]
<1>1. CASE part.k = "text"
  BY <1>1, PutTraced DEF Element
<1>2. CASE part.k = "expr"
  <2>1. Evaluate(part, << >>)
    BY <1>2 DEF Element
  <2>2. /\ scope' = scope /\ todo' = todo /\ at' = at /\ step' = "operand" /\ calls' = << >>
        /\ tokens' = part.tokens /\ pos' = 1 /\ InHand' = 0
    BY <2>1 DEF Evaluate, InHand
  <2>3. IsSeq(part.tokens)
    BY <1>2, PartFacts
  <2>4. Traces(<< >>, 0, value', part.tokens, 1, IsFlags, Meant(part.tokens, IsFlags))
    BY <2>3, StartPlain
  <2>5. CallsFit(<< >>, IsFlags)
    BY DEF CallsFit
  <2> QED
    BY <1>2, <2>2, <2>4, <2>5, TracedStep
<1>3. CASE part.k \notin {"text", "expr"}
  <2>1. Stop("error")
    BY <1>3 DEF Element
  <2> QED
    BY <2>1, TracedStop
<1> QED
  BY <1>1, <1>2, <1>3

LEMMA FitPush ==
  ASSUME NEW cs, IsSeq(cs), NEW flags, CallsFit(cs, flags), NEW c,
         \/ c.call = "sign" /\ c.op \in SignsOf(flags)
         \/ c.call = "paren" /\ c.op = "("
         \/ /\ c.call = "right" /\ c.op \in Operators
            /\ cs # << >> => cs[Len(cs)].call = "paren"
  PROVE  CallsFit(Append(cs, c), flags)
<1> DEFINE more == Append(cs, c)
           K == Len(cs)
<1>1. /\ Len(more) = K + 1 /\ K \in Nat /\ more[K + 1] = c
      /\ \A i \in 1 .. K : more[i] = cs[i]
  BY SeqAppend, SeqFacts
<1>2. cs # << >> <=> K # 0
  BY SeqFacts
<1> HIDE DEF more, K
<1>3. ASSUME NEW k \in 1 .. K + 1
      PROVE  /\ more[k].call \in {"sign", "paren", "right"}
             /\ more[k].call = "sign" => more[k].op \in SignsOf(flags)
             /\ more[k].call = "paren" => more[k].op = "("
             /\ more[k].call = "right" => more[k].op \in Operators
                                          /\ (k > 1 => more[k - 1].call = "paren")
  <2>1. CASE k = K + 1
    <3>1. k > 1 => more[k - 1] = cs[K] /\ K # 0
      <4>1. k > 1 => k - 1 = K /\ K \in 1 .. K
        BY <1>1, <2>1
      <4> QED
        BY <1>1, <4>1
    <3> QED
      BY <1>1, <1>2, <2>1, <3>1 DEF K
  <2>2. CASE k # K + 1
    <3>1. k \in 1 .. K /\ (k > 1 => k - 1 \in 1 .. K)
      BY <1>1, <2>2
    <3>2. more[k] = cs[k] /\ (k > 1 => more[k - 1] = cs[k - 1])
      BY <1>1, <3>1
    <3> QED
      BY <3>1, <3>2 DEF CallsFit, K
  <2> QED
    BY <2>1, <2>2
<1> QED
  BY <1>1, <1>3 DEF CallsFit, more

LEMMA FitPop ==
  ASSUME NEW cs, IsSeq(cs), cs # << >>, NEW flags, CallsFit(cs, flags)
  PROVE  CallsFit(Front(cs), flags)
<1>1. /\ Len(Front(cs)) = Len(cs) - 1 /\ Len(cs) \in Nat
      /\ \A i \in 1 .. Len(cs) - 1 : Front(cs)[i] = cs[i]
  BY SeqFront
<1>2. \A k \in 1 .. Len(cs) - 1 : k \in 1 .. Len(cs) /\ (k > 1 => k - 1 \in 1 .. Len(cs) - 1)
  BY <1>1
<1> QED
  BY <1>1, <1>2 DEF CallsFit

(* What is in hand while an expression is read.                            *)
LEMMA Reading ==
  ASSUME ExprInv, Traced, step \in {"operand", "value"}
  PROVE  /\ todo # << >> /\ IsSeq(calls) /\ IsSeq(tokens) /\ CallsFit(calls, IsFlags)
         /\ step = "operand" =>
              Traces(calls, 0, value, tokens, pos, IsFlags, Meant(AllTokens, IsFlags))
         /\ step = "value" =>
              Traces(calls, 1, value, tokens, pos, IsFlags, Meant(AllTokens, IsFlags))
         /\ Signs = SignsOf(IsFlags)
BY DEF ExprInv, TodoOk, CallsOk, TokensOk, Traced, InHand, Signs, SignsOf

LEMMA ReadSignTraced == ExprInv /\ Traced /\ ReadSign => Traced'
<1> SUFFICES ASSUME ExprInv, Traced, ReadSign PROVE Traced'
  OBVIOUS
<1> DEFINE c == [call |-> IF Token({"("}) THEN "paren" ELSE "sign",
                 op |-> tokens[pos].t, v |-> Uninit]
<1>1. /\ step = "operand" /\ pos <= Len(tokens) /\ tokens[pos].t \in Signs \cup {"("}
      /\ calls' = Append(calls, c) /\ pos' = pos + 1 /\ InHand' = 0
      /\ UNCHANGED <<scope, todo, verdict, step, tokens, value, at, cells>>
  BY DEF ReadSign, AtOperand, Token, InHand
<1>2. /\ IsSeq(calls) /\ CallsFit(calls, IsFlags) /\ Signs = SignsOf(IsFlags)
      /\ Traces(calls, 0, value, tokens, pos, IsFlags, Meant(AllTokens, IsFlags))
  BY <1>1, Reading
<1>3. /\ c.op = tokens[pos].t /\ c.call # "right"
      /\ \/ c.call = "sign" /\ c.op \in SignsOf(IsFlags)
         \/ c.call = "paren" /\ c.op = "("
  BY <1>1, <1>2 DEF Token
<1> HIDE DEF c
<1>4. CallsFit(Append(calls, c), IsFlags)
  BY <1>2, <1>3, FitPush
<1>5. Traces(Append(calls, c), 0, value, tokens, pos + 1, IsFlags, Meant(AllTokens, IsFlags))
  BY <1>1, <1>2, <1>3, PushTraces
<1> QED
  BY <1>1, <1>4, <1>5, TracedStep

LEMMA ReadAtomTraced == ExprInv /\ Traced /\ ReadAtom => Traced'
<1> SUFFICES ASSUME ExprInv, Traced, ReadAtom PROVE Traced'
  OBVIOUS
<1> DEFINE r == Atom(tokens[pos])
<1>1. /\ step = "operand" /\ pos <= Len(tokens) /\ tokens[pos].t \in {"lit", "ref"}
  BY DEF ReadAtom, AtOperand, Token
<1>2. CASE r.out = "ok"
  <2>1. /\ value' = r.v /\ pos' = pos + 1 /\ InHand' = 1
        /\ UNCHANGED <<scope, todo, verdict, tokens, calls, at, cells>>
    BY <1>2 DEF ReadAtom, InHand
  <2>2. /\ CallsFit(calls, IsFlags)
        /\ Traces(calls, 0, value, tokens, pos, IsFlags, Meant(AllTokens, IsFlags))
    BY <1>1, Reading
  <2>3. Traces(calls, 1, r.v, tokens, pos + 1, IsFlags, Meant(AllTokens, IsFlags))
    BY <1>1, <1>2, <2>2, ReadTraces
  <2> HIDE DEF r
  <2> QED
    BY <2>1, <2>2, <2>3, TracedStep
<1>3. CASE r.out # "ok"
  <2>1. Stop(r.out)
    BY <1>3 DEF ReadAtom
  <2> QED
    BY <2>1, TracedStop
<1> QED
  BY <1>2, <1>3

LEMMA ApplyTraced == ExprInv /\ Traced /\ Apply => Traced'
<1> SUFFICES ASSUME ExprInv, Traced, Apply PROVE Traced'
  OBVIOUS
<1> DEFINE r == IF Top.call = "sign" THEN ApplySign(Top.op, value)
                ELSE ApplyBinop(Top.v, Top.op, value, IsFlags)
<1>1. step = "value" /\ calls # << >> /\ Top.call \in {"sign", "right"}
  BY DEF Apply, AtValue, Waiting
<1>2. CASE r.out = "ok"
  <2>1. /\ value' = r.v /\ calls' = Front(calls) /\ InHand' = 1
        /\ UNCHANGED <<scope, todo, verdict, step, tokens, pos, at, cells>>
    BY <1>1, <1>2 DEF Apply, InHand
  <2>2. /\ IsSeq(calls) /\ CallsFit(calls, IsFlags)
        /\ Traces(calls, 1, value, tokens, pos, IsFlags, Meant(AllTokens, IsFlags))
    BY <1>1, Reading
  <2>3. Traces(Front(calls), 1, r.v, tokens, pos, IsFlags, Meant(AllTokens, IsFlags))
    <3>1. CASE Top.call = "sign"
      BY <1>1, <1>2, <2>2, <3>1, SignTraces DEF Top
    <3>2. CASE Top.call = "right"
      BY <1>1, <1>2, <2>2, <3>2, RightTraces DEF Top
    <3> QED
      BY <1>1, <3>1, <3>2
  <2>4. CallsFit(Front(calls), IsFlags)
    BY <1>1, <2>2, FitPop
  <2> HIDE DEF r
  <2> QED
    BY <2>1, <2>3, <2>4, TracedStep
<1>3. CASE r.out # "ok"
  <2>1. Stop(r.out)
    BY <1>3 DEF Apply
  <2> QED
    BY <2>1, TracedStop
<1> QED
  BY <1>2, <1>3

LEMMA FoldFacts ==
  ASSUME ExprInv, Traced, InFoldLeft
  PROVE  /\ step = "value" /\ IsSeq(calls) /\ CallsFit(calls, IsFlags)
         /\ calls # << >> => calls[Len(calls)].call = "paren"
         /\ Traces(calls, 1, value, tokens, pos, IsFlags, Meant(AllTokens, IsFlags))
         /\ pos \in Nat
<1>1. step = "value" /\ ~(calls # << >> /\ Top.call \in {"sign", "right"}) /\ pos \in Nat
  BY DEF InFoldLeft, AtValue, Waiting, ExprInv, TokensOk
<1>2. /\ IsSeq(calls) /\ CallsFit(calls, IsFlags)
      /\ Traces(calls, 1, value, tokens, pos, IsFlags, Meant(AllTokens, IsFlags))
  BY <1>1, Reading
<1>3. calls # << >> => Top.call \in {"sign", "paren", "right"}
  <2>1. calls # << >> => Len(calls) \in 1 .. Len(calls)
    BY <1>2, SeqFacts
  <2> QED
    BY <1>2, <2>1 DEF CallsFit, Top
<1> QED
  BY <1>1, <1>2, <1>3 DEF Top

LEMMA TakeOperatorTraced == ExprInv /\ Traced /\ TakeOperator => Traced'
<1> SUFFICES ASSUME ExprInv, Traced, TakeOperator PROVE Traced'
  OBVIOUS
<1> DEFINE c == Right(tokens[pos].t, value)
<1>1. /\ pos <= Len(tokens) /\ tokens[pos].t \in Operators /\ InFoldLeft
      /\ calls' = Append(calls, c) /\ pos' = pos + 1 /\ InHand' = 0
      /\ UNCHANGED <<scope, todo, verdict, tokens, at, cells>>
  BY DEF TakeOperator, Token, InHand
<1>2. /\ IsSeq(calls) /\ CallsFit(calls, IsFlags)
      /\ calls # << >> => calls[Len(calls)].call = "paren"
      /\ Traces(calls, 1, value, tokens, pos, IsFlags, Meant(AllTokens, IsFlags))
  BY <1>1, FoldFacts
<1>3. c.call = "right" /\ c.op = tokens[pos].t /\ c.v = value
  BY DEF Right
<1> HIDE DEF c
<1>4. CallsFit(Append(calls, c), IsFlags)
  BY <1>1, <1>2, <1>3, FitPush
<1>5. Traces(Append(calls, c), 0, value', tokens, pos + 1, IsFlags, Meant(AllTokens, IsFlags))
  BY <1>1, <1>2, <1>3, PushTraces
<1> QED
  BY <1>1, <1>4, <1>5, TracedStep

LEMMA CloseParenTraced == ExprInv /\ Traced /\ CloseParen => Traced'
<1> SUFFICES ASSUME ExprInv, Traced, CloseParen PROVE Traced'
  OBVIOUS
<1>1. InFoldLeft /\ calls # << >>
  BY DEF CloseParen, Waiting
<1>2. /\ IsSeq(calls) /\ CallsFit(calls, IsFlags) /\ step = "value"
      /\ calls[Len(calls)].call = "paren"
      /\ Traces(calls, 1, value, tokens, pos, IsFlags, Meant(AllTokens, IsFlags))
  BY <1>1, FoldFacts
<1>3. CASE Token({")"})
  <2>1. /\ pos <= Len(tokens) /\ tokens[pos].t = ")" /\ InHand' = 1
        /\ calls' = Front(calls) /\ pos' = pos + 1
        /\ UNCHANGED <<scope, todo, verdict, step, tokens, value, at, cells>>
    BY <1>2, <1>3 DEF CloseParen, Token, InHand
  <2>2. Traces(Front(calls), 1, value, tokens, pos + 1, IsFlags, Meant(AllTokens, IsFlags))
    BY <1>1, <1>2, <2>1, ParenTraces
  <2>3. CallsFit(Front(calls), IsFlags)
    BY <1>1, <1>2, FitPop
  <2> QED
    BY <2>1, <2>2, <2>3, TracedStep
<1>4. CASE ~Token({")"})
  <2>1. Stop("error")
    BY <1>4 DEF CloseParen
  <2> QED
    BY <2>1, TracedStop
<1> QED
  BY <1>3, <1>4

LEMMA EndExprTraced == ExprInv /\ Traced /\ EndExpr => Traced'
BY PutTraced, TracedStop DEF EndExpr

LEMMA BeginTraced ==
  ExprInv /\ Traced /\ (ApplyAssign \/ ApplyArrayElementAssign \/ ApplyOp \/ OpenLiteral) => Traced'
<1> SUFFICES ASSUME ExprInv, Traced,
                    ApplyAssign \/ ApplyArrayElementAssign \/ ApplyOp \/ OpenLiteral
             PROVE  Traced'
  OBVIOUS
<1>1. step = "next" /\ todo # << >>
  BY DEF ApplyAssign, ApplyArrayElementAssign, ApplyOp, OpenLiteral, Begins
<1>2. at = << >> /\ AllTokens = Expression
  BY <1>1, AtStart DEF AllTokens
<1>3. CASE \E out : Stop(out)
  BY <1>3, TracedStop
<1>4. CASE ApplyAssign \/ ApplyArrayElementAssign
  <2>1. This.form = "assign"
    BY <1>4 DEF ApplyAssign, ApplyArrayElementAssign, Begins
  <2>2. CASE Only("expr") \/ Only("text")
    <3>1. <<1>> \in DOMAIN This.rhs
      BY <2>2 DEF Only
    <3>2. AllTokens = This.rhs[<<1>>].tokens
      BY <1>2, <2>1 DEF Expression
    <3>3. CASE Element(This.rhs[<<1>>])
      BY <1>1, <3>1, <3>2, <3>3, ElementTraced
    <3> QED
      BY <1>3, <1>4, <3>3 DEF ApplyAssign, ApplyArrayElementAssign
  <2> QED
    BY <1>3, <1>4, <2>2 DEF ApplyAssign, ApplyArrayElementAssign
<1>5. CASE ApplyOp
  <2>1. CASE Operable
    <3> DEFINE part == This.rhs[<<1>>]
               c == Right(This.form, Held)
               whole == <<[t |-> "lit", v |-> Held], [t |-> This.form]>> \o part.tokens
    <3>1. /\ <<1>> \in DOMAIN This.rhs /\ part.k = "expr" /\ Evaluate(part, <<c>>)
      BY <1>5, <2>1 DEF ApplyOp, Operable, Only
    <3>2. /\ scope' = scope /\ todo' = todo /\ at' = at /\ step' = "operand" /\ calls' = <<c>>
          /\ tokens' = part.tokens /\ pos' = 1 /\ InHand' = 0
      BY <3>1 DEF Evaluate, InHand
    <3>3. IsSeq(part.tokens)
      BY <1>1, <3>1, PartFacts
    <3>4. This.form \in Operators /\ This.form # "assign"
      BY <1>5 DEF ApplyOp, Begins, Operators, Arithmetic, Bitwise_
    <3>5. AllTokens = whole
      BY <1>2, <3>4 DEF Expression
    <3>6. Traces(<<c>>, 0, value', part.tokens, 1, IsFlags, Meant(whole, IsFlags))
      BY <3>3, StartRight
    <3>7. CallsFit(<<c>>, IsFlags)
      <4>1. c.call = "right" /\ c.op = This.form
        BY DEF Right
      <4> HIDE DEF c
      <4>2. Len(<<c>>) = 1 /\ <<c>>[1] = c
        OBVIOUS
      <4> QED
        BY <3>4, <4>1, <4>2 DEF CallsFit
    <3> HIDE DEF c, whole, part
    <3> QED
      BY <3>2, <3>5, <3>6, <3>7, TracedStep
  <2> QED
    BY <1>3, <1>5, <2>1 DEF ApplyOp
<1>6. CASE OpenLiteral
  <2>1. step' = "part" \/ Stop("error")
    BY <1>6 DEF OpenLiteral
  <2> QED
    BY <1>3, <2>1, TracedOver
<1> QED
  BY <1>4, <1>5, <1>6

LEMMA LiteralTraced ==
  ExprInv /\ Traced /\ (OpenGroup \/ ParseElement \/ CloseGroup) => Traced'
<1> SUFFICES ASSUME ExprInv, Traced, OpenGroup \/ ParseElement \/ CloseGroup PROVE Traced'
  OBVIOUS
<1>1. InPart /\ step = "part"
  BY DEF OpenGroup, ParseElement, CloseGroup, InPart
<1>2. CASE OpenGroup
  <2>1. step' = "part"
    BY <1>1, <1>2 DEF OpenGroup, Stop
  <2> QED
    BY <2>1, TracedOver
<1>3. CASE CloseGroup
  <2>1. step' \in {"part", "next"}
    BY <1>1, <1>3 DEF CloseGroup, Store
  <2> QED
    BY <2>1, TracedOver
<1>4. CASE ParseElement
  <2>1. todo # << >> /\ at # << >>
    BY <1>1, InPartFacts
  <2>2. Base \o at \in DOMAIN This.rhs /\ Element(This.rhs[Base \o at])
    BY <1>1, <1>4, PartThere DEF ParseElement, Part
  <2>3. AllTokens = This.rhs[Base \o at].tokens
    BY <2>1 DEF AllTokens, Part
  <2> QED
    BY <2>1, <2>2, <2>3, ElementTraced
<1> QED
  BY <1>2, <1>3, <1>4

LEMMA TracedNext == ExprInv /\ Traced /\ [ExprNext]_exprVars => Traced'
<1> SUFFICES ASSUME ExprInv, Traced, [ExprNext]_exprVars PROVE Traced'
  OBVIOUS
<1>1. CASE UNCHANGED exprVars
  <2>1. /\ scope' = scope /\ todo' = todo /\ at' = at /\ step' = step /\ calls' = calls
        /\ value' = value /\ tokens' = tokens /\ pos' = pos /\ verdict' = verdict
        /\ cells' = cells
    BY <1>1 DEF exprVars
  <2>2. Stop(verdict)
    BY <2>1 DEF Stop
  <2> QED
    BY <2>2, TracedStop
<1>2. CASE NoOperand
  BY <1>2, TracedStop DEF NoOperand
<1>3. CASE ExprStops
  BY <1>1, <1>3 DEF ExprStops
<1> QED
  BY <1>1, <1>2, <1>3, BeginTraced, LiteralTraced, ReadSignTraced, ReadAtomTraced, ApplyTraced,
     TakeOperatorTraced, CloseParenTraced, EndExprTraced DEF ExprNext

LEMMA TracedInit == ExprInit => Traced
BY DEF ExprInit, Traced

-----------------------------------------------------------------------------
(* Where one value ends a statement, it is the one its text means.         *)
Outcome(r) == r.out \in {"ok", "error", "crash"}
AsMeant ==
  LET r == Left(Expression, IsFlags, Target)
  IN IF r.out = "ok" THEN verdict' = "run" /\ Left_ = r.v ELSE verdict' # "run"

LEMMA Outcomes ==
  /\ \A token : Outcome(Atom(token))
  /\ \A op, v : Outcome(ApplySign(op, v))
  /\ \A a, op, b, flags : Outcome(ApplyBinop(a, op, b, flags))
  /\ \A v, type : Outcome(Storable(v, type))
<1>1. \A token : Outcome(Atom(token))
  BY DEF Outcome, Atom, ResolveReference, Yields, Fails
<1>2. \A op, v : Outcome(ApplySign(op, v))
  BY DEF Outcome, ApplySign, Yields, Fails
<1>3. ASSUME NEW a, NEW op, NEW b, NEW flags PROVE Outcome(ApplyBinop(a, op, b, flags))
  <2> DEFINE r == ApplyBinop(a, op, b, flags)
  <2>1. r.out = "ok" \/ r \in {Fails, Raises}
    <3> DEFINE bad == op \notin (IF flags THEN Bitwise_ ELSE Arithmetic) \/ ~(IsNum(a) /\ IsNum(b))
    <3>1. CASE bad
      BY <3>1 DEF ApplyBinop
    <3>2. CASE ~bad /\ op \in Bitwise_
      BY <3>2 DEF ApplyBinop, Yields
    <3>3. CASE ~bad /\ op \notin Bitwise_ /\ op = "/"
      BY <3>3 DEF ApplyBinop, Yields
    <3>4. CASE ~bad /\ op \notin Bitwise_ /\ op # "/"
      BY <3>4 DEF ApplyBinop, Yields
    <3> QED
      BY <3>1, <3>2, <3>3, <3>4
  <2> QED
    BY <2>1 DEF Outcome, Fails, Raises
<1>4. ASSUME NEW v, NEW type PROVE Outcome(Storable(v, type))
  <2>1. Outcome(CoerceNumeric(v, type))
    BY DEF Outcome, CoerceNumeric, Yields, Fails
  <2>2. Outcome(CheckStringLength(v, type))
    BY DEF Outcome, CheckStringLength, Yields, Fails
  <2> QED
    BY <2>1, <2>2 DEF Outcome, Storable, Yields, Fails
<1> QED
  BY <1>1, <1>2, <1>3, <1>4

LEMMA NothingLeft ==
  ASSUME Meant(Expression, IsFlags).out # "ok", verdict' # "run"
  PROVE  AsMeant
BY DEF AsMeant, Left

(* A value that is computed belongs to no literal.                         *)
LEMMA ComputedAlone ==
  ASSUME ExprInv, Computed, step \in {"operand", "value"} \/ step = "part"
  PROVE  at = << >> /\ step # "part" /\ todo # << >> /\ AllTokens = Expression
<1>1. todo # << >>
  BY DEF ExprInv, TodoOk
<1>2. at # << >> => FALSE
  <2>1. at # << >> => Plain /\ Goal.kind = "array"
    BY DEF ExprInv, PlaceOk
  <2> QED
    BY <2>1 DEF Computed
<1>3. step = "part" => at # << >>
  BY DEF ExprInv, PlaceOk
<1> QED
  BY <1>1, <1>2, <1>3 DEF AllTokens

(* An expression that is to be read only begins.                           *)
LEMMA BeginAsMeant ==
  ASSUME ExprInv, Ends, Computed,
         ApplyAssign \/ ApplyArrayElementAssign \/ ApplyOp \/ OpenLiteral
  PROVE  AsMeant
<1>1. step = "next" /\ todo # << >> /\ verdict = "run"
  BY DEF ApplyAssign, ApplyArrayElementAssign, ApplyOp, OpenLiteral, Begins
<1>2. Only("expr") /\ <<1>> \in DOMAIN This.rhs /\ This.rhs[<<1>>].k = "expr"
  BY DEF Computed, Only
<1>3. IF Plain THEN Goal.kind # "array" ELSE Indexed
  BY DEF Computed
<1>4. \A waiting : ~Evaluate(This.rhs[<<1>>], waiting)
  BY DEF Ends, Evaluate
<1>5. ~Element(This.rhs[<<1>>])
  BY <1>2, <1>4 DEF Element
<1>6. CASE ApplyAssign
  BY <1>2, <1>3, <1>5, <1>6 DEF ApplyAssign
<1>7. CASE ApplyArrayElementAssign
  BY <1>2, <1>3, <1>5, <1>7 DEF ApplyArrayElementAssign
<1>8. CASE OpenLiteral
  BY <1>3, <1>8 DEF OpenLiteral
<1>9. CASE ApplyOp
  <2>1. ~Operable /\ verdict' = "error" /\ This.form \in Operators
    BY <1>4, <1>9 DEF ApplyOp, Stop, Begins
  <2>2. This.form # "assign"
    BY <2>1 DEF Operators, Arithmetic, Bitwise_
  <2>3. Plain => Goal.kind \in {"int", "float", "string", "flags"}
    <3> SUFFICES ASSUME Plain PROVE Goal.kind \in {"int", "float", "string", "flags"}
      OBVIOUS
    <3>1. Goal.kind # "array" /\ Goal.kind # "ident"
      BY <1>3, <2>2 DEF Computed
    <3>2. Goal = Type[This.field] /\ This.field \in DOMAIN Type /\ Goal.kind # "struct"
      BY <1>1, ThisOk DEF StatementOk
    <3>3. \/ Scalar(Goal) \/ Goal.kind = "flags" \/ Goal.kind = "ident"
          \/ Goal.kind = "struct" \/ Goal.kind = "array"
      BY <3>2, TypeAssumption
    <3> QED
      BY <3>1, <3>2, <3>3 DEF Scalar
  <2>4. ~IsNum(Held)
    BY <1>2, <1>3, <2>1, <2>3 DEF Operable
  <2> DEFINE two == <<[t |-> "lit", v |-> Held], [t |-> This.form]>>
             toks == This.rhs[<<1>>].tokens
             S == {two[1], two[2]} \cup ToSet(toks)
  <2>5. Expression = two \o toks
    BY <2>2 DEF Expression
  <2>6. toks \in Seq(ToSet(toks))
    BY <1>1, <1>2, PartFacts DEF IsSeq
  <2>7. two \in Seq(S) /\ Len(two) = 2 /\ two[1] = [t |-> "lit", v |-> Held]
        /\ two[2] = [t |-> This.form]
    OBVIOUS
  <2>8. toks \in Seq(S) /\ Len(toks) \in Nat
    BY <2>6
  <2> HIDE DEF two, toks, S
  <2>9. /\ Len(two \o toks) = Len(two) + Len(toks)
        /\ \A i \in 1 .. Len(two) + Len(toks) :
             (two \o toks)[i] = IF i <= Len(two) THEN two[i] ELSE toks[i - Len(two)]
    BY <2>7, <2>8, ConcatProperties
  <2>10. /\ Len(Expression) \in Nat /\ Len(Expression) >= 2
         /\ Expression[1] = two[1] /\ Expression[2] = two[2]
    BY <2>5, <2>7, <2>8, <2>9
  <2>11. IsValue(Expression[1], Held) /\ Expression[2].t \in Operators
    BY <2>1, <2>7, <2>10 DEF IsValue
  <2>12. Meant(Expression, IsFlags).out # "ok"
    BY <2>4, <2>10, <2>11, FirstOperand
  <2> QED
    BY <2>1, <2>12, NothingLeft
<1> QED
  BY <1>6, <1>7, <1>8, <1>9

LEMMA ReadingFails ==
  ASSUME ExprInv, Traced, Ends,
         ReadAtom \/ NoOperand \/ Apply \/ CloseParen
  PROVE  /\ Meant(AllTokens, IsFlags).out # "ok" /\ verdict' # "run"
         /\ step \in {"operand", "value"}
<1>1. step \in {"operand", "value"}
  BY DEF ReadAtom, NoOperand, Apply, CloseParen, InFoldLeft, AtOperand, AtValue
<1> DEFINE x == Meant(AllTokens, IsFlags)
<1>3. /\ CallsFit(calls, IsFlags) /\ Signs = SignsOf(IsFlags)
      /\ step = "operand" => Traces(calls, 0, value, tokens, pos, IsFlags, x)
      /\ step = "value" => Traces(calls, 1, value, tokens, pos, IsFlags, x)
  BY <1>1, Reading
<1>4. CASE ReadAtom
  <2> DEFINE r == Atom(tokens[pos])
  <2>1. /\ step = "operand" /\ pos <= Len(tokens) /\ tokens[pos].t \in {"lit", "ref"}
    BY <1>4 DEF ReadAtom, AtOperand, Token
  <2>2. r.out # "ok" /\ verdict' = r.out
    BY <1>4 DEF ReadAtom, Ends, Stop
  <2>3. x.out # "ok"
    BY <1>3, <2>1, <2>2, ReadTraces
  <2>4. verdict' # "run"
    BY <2>2, Outcomes DEF Outcome
  <2> QED
    BY <1>1, <2>3, <2>4
<1>5. CASE NoOperand
  <2>1. step = "operand" /\ verdict' = "error"
        /\ ~(pos <= Len(tokens) /\ tokens[pos].t \in Signs \cup {"(", "lit", "ref"})
    BY <1>5 DEF NoOperand, AtOperand, Token, Stop
  <2>2. x.out # "ok"
    BY <1>3, <2>1, RefuseOperand
  <2> QED
    BY <1>1, <2>1, <2>2
<1>6. CASE Apply
  <2> DEFINE r == IF Top.call = "sign" THEN ApplySign(Top.op, value)
                  ELSE ApplyBinop(Top.v, Top.op, value, IsFlags)
  <2>1. step = "value" /\ calls # << >> /\ Top.call \in {"sign", "right"}
    BY <1>6 DEF Apply, AtValue, Waiting
  <2>2. r.out # "ok" /\ verdict' = r.out
    BY <1>6 DEF Apply, Ends, Stop
  <2>3. x.out # "ok"
    <3>1. CASE Top.call = "sign"
      BY <1>3, <2>1, <2>2, <3>1, SignTraces DEF Top
    <3>2. CASE Top.call = "right"
      BY <1>3, <2>1, <2>2, <3>2, RightTraces DEF Top
    <3> QED
      BY <2>1, <3>1, <3>2
  <2>4. verdict' # "run"
    BY <2>2, Outcomes DEF Outcome
  <2> QED
    BY <1>1, <2>3, <2>4
<1>7. CASE CloseParen
  <2>1. InFoldLeft /\ calls # << >> /\ ~Token(Operators) /\ ~Token({")"}) /\ verdict' = "error"
    BY <1>7 DEF CloseParen, Waiting, Ends, Stop
  <2>2. step = "value" /\ calls[Len(calls)].call = "paren"
    BY <2>1, FoldFacts
  <2>3. ~(pos <= Len(tokens) /\ tokens[pos].t \in Operators \cup {")"})
    BY <2>1 DEF Token
  <2>4. x.out # "ok"
    BY <1>3, <2>1, <2>2, <2>3, RefuseParen
  <2> QED
    BY <1>1, <2>1, <2>4
<1> QED
  BY <1>4, <1>5, <1>6, <1>7

LEMMA ReadingAsMeant ==
  ASSUME ExprInv, Traced, Ends, Computed,
         ReadAtom \/ NoOperand \/ Apply \/ CloseParen
  PROVE  AsMeant
BY ReadingFails, ComputedAlone, NothingLeft

LEMMA EndExprMeant ==
  ASSUME ExprInv, Traced, EndExpr
  PROVE  /\ step = "value"
         /\ \/ Meant(AllTokens, IsFlags).out # "ok" /\ Stop("error")
            \/ /\ Meant(AllTokens, IsFlags).out = "ok" /\ Meant(AllTokens, IsFlags).v = value
               /\ Put(Storable(value, Target))
<1> DEFINE x == Meant(AllTokens, IsFlags)
<1>1. InFoldLeft /\ ~Token(Operators) /\ calls = << >>
  BY DEF EndExpr
<1>2. step = "value" /\ Traces(calls, 1, value, tokens, pos, IsFlags, x)
  BY <1>1, FoldFacts
<1>3. Traces(<< >>, 1, value, tokens, pos, IsFlags, x)
  BY <1>1, <1>2
<1>4. CASE pos <= Len(tokens)
  <2>1. Stop("error") /\ tokens[pos].t \notin Operators
    BY <1>1, <1>4 DEF EndExpr, Token
  <2>2. x.out # "ok"
    BY <1>3, <1>4, <2>1, RefuseRest
  <2> QED
    BY <1>2, <2>1, <2>2
<1>5. CASE ~(pos <= Len(tokens))
  <2>1. x.out = "ok" /\ x.v = value
    BY <1>3, <1>5, Finish
  <2> QED
    BY <1>2, <1>5, <2>1 DEF EndExpr
<1> QED
  BY <1>4, <1>5

LEMMA EndExprAsMeant ==
  ASSUME ExprInv, Traced, Ends, Computed, EndExpr
  PROVE  AsMeant
<1> DEFINE x == Meant(Expression, IsFlags)
           r == Storable(value, Target)
<1>1. step = "value" /\ verdict = "run"
  BY DEF EndExpr, InFoldLeft, AtValue
<1>2. at = << >> /\ todo # << >> /\ AllTokens = Expression
  BY <1>1, ComputedAlone
<1>3. CASE x.out # "ok" /\ Stop("error")
  <2>1. verdict' # "run"
    BY <1>3 DEF Stop
  <2> QED
    BY <1>3, <2>1, NothingLeft
<1>4. CASE x.out = "ok" /\ x.v = value /\ Put(r)
  <2>2. Left(Expression, IsFlags, Target) = r
    BY <1>4 DEF Left
  <2>4. CASE r.out # "ok"
    <3>1. verdict' = r.out
      BY <1>4, <2>4 DEF Put, Stop
    <3>2. verdict' # "run"
      BY <2>4, <3>1, Outcomes DEF Outcome
    <3> QED
      BY <2>2, <2>4, <3>2 DEF AsMeant
  <2>5. CASE r.out = "ok"
    <3>1. Store(r.v) /\ verdict = "run"
      BY <1>1, <1>2, <1>4, <2>5 DEF Put
    <3>2. /\ verdict' = "run"
          /\ scope' = [scope EXCEPT ![<<This.field>>] =
                 IF Plain THEN r.v ELSE [@ EXCEPT !.cells[<<This.index[1] + 1>>] = r.v]]
      BY <3>1 DEF Store
    <3>3. IF Plain THEN Goal.kind # "array" ELSE Indexed
      BY DEF Computed
    <3>4. Target.kind # "array"
      BY <1>2, <3>3, ThisOk DEF Indexed, Scalar
    <3>5. Sound(value)
      BY DEF ExprInv, CallsOk
    <3>6. Holds(r.v, Target) /\ Sound(r.v)
      BY <1>2, <2>5, <3>4, <3>5, ThisOk, StorableHolds
    <3>7. (Plain => Goal.kind # "array" /\ Target = Goal)
          /\ (~Plain => Indexed /\ Target = Goal.elem)
      BY <1>2, <3>3, ThisOk DEF Indexed
    <3> HIDE DEF r
    <3>8. /\ Plain => scope'[<<This.field>>] = r.v
          /\ ~Plain => scope'[<<This.field>>].cells[<<This.index[1] + 1>>] = r.v
      BY <1>2, <3>2, <3>6, <3>7, StoreScope
    <3>9. Left_ = r.v
      BY <3>8 DEF Left_
    <3> QED
      BY <2>2, <2>5, <3>2, <3>9 DEF AsMeant, r
  <2> QED
    BY <2>4, <2>5
<1> QED
  BY <1>2, <1>3, <1>4, EndExprMeant

LEMMA NextAsMeant ==
  ASSUME ExprInv, Traced, [ExprNext]_exprVars, Ends, Computed
  PROVE  AsMeant
<1>1. CASE UNCHANGED exprVars \/ ReadSign \/ TakeOperator \/ ExprStops
  BY <1>1 DEF Ends, exprVars, ReadSign, TakeOperator, ExprStops
<1>2. CASE OpenGroup \/ ParseElement \/ CloseGroup
  <2>1. step = "part"
    BY <1>2 DEF OpenGroup, ParseElement, CloseGroup, InPart
  <2> QED
    BY <2>1, ComputedAlone
<1> QED
  BY <1>1, <1>2, BeginAsMeant, ReadingAsMeant, EndExprAsMeant DEF ExprNext

(* An assignment stores what its whole expression means, read strictly from *)
(* the left, an operator statement what its line means with the current     *)
(* value and the operator before it, coerced to the target's type, and each *)
(* is refused exactly when one of these fails, for every expression, every  *)
(* field and every value: at each token the calls of _parse_operand and     *)
(* _fold_left that wait, the value they get and the text that is left are,  *)
(* one after the other, an expression that means what the whole one does.   *)
THEOREM LeftToRightHolds == ExprSpec => LeftToRight
<1> DEFINE Inv == ExprInv /\ Traced
<1>1. ExprInit => Inv
  BY ExprInitInv, TracedInit
<1>2. Inv /\ [ExprNext]_exprVars => Inv'
  BY ExprNextInv, TracedNext
<1>3. Inv /\ [ExprNext]_exprVars =>
        [Ends /\ Computed =>
           LET r == Left(Expression, IsFlags, Target)
           IN IF r.out = "ok" THEN verdict' = "run" /\ Left_ = r.v ELSE verdict' # "run"
        ]_exprVars
  BY NextAsMeant DEF AsMeant
<1> QED
  BY <1>1, <1>2, <1>3, PTL DEF ExprSpec, LeftToRight

-----------------------------------------------------------------------------
(* The places in a literal: the parts at t, below the braces of the array. *)
Inner(dims, t) ==
  /\ t \in Seq(Nat \ {0}) /\ Len(t) \in 1 .. Len(dims)
  /\ \A i \in 1 .. Len(t) : t[i] <= dims[i]

LEMMA InnerPositions ==
  ASSUME NEW dims \in Seq(Nat \ {0})
  PROVE  \A t : t \in Positions(dims) /\ dims # << >> <=> Inner(dims, t) /\ Len(t) = Len(dims)
<1>1. Len(dims) \in Nat /\ (dims # << >> <=> Len(dims) >= 1)
  OBVIOUS
<1>2. ASSUME NEW t, t \in Positions(dims), dims # << >> PROVE Inner(dims, t) /\ Len(t) = Len(dims)
  BY <1>1, <1>2, PositionFacts DEF Inner
<1>3. ASSUME NEW t, Inner(dims, t), Len(t) = Len(dims) PROVE t \in Positions(dims) /\ dims # << >>
  <2>1. t \in Seq(Nat \ {0}) /\ \A i \in 1 .. Len(dims) : t[i] <= dims[i]
    BY <1>3 DEF Inner
  <2>2. Len(dims) >= 1
    BY <1>3 DEF Inner
  <2> QED
    BY <1>1, <1>3, <2>1, <2>2, PositionFacts
<1> QED
  BY <1>2, <1>3

(* They are the beginnings of positions.                                   *)
LEMMA InnerPrefix ==
  ASSUME NEW dims \in Seq(Nat \ {0}), dims # << >>
  PROVE  UNION {{SubSeq(p, 1, n) : n \in 1 .. Len(dims)} : p \in Positions(dims)}
           = {t \in Seq(Nat \ {0}) : Inner(dims, t)}
<1> DEFINE N == 1 .. Len(dims)
           I == UNION {{SubSeq(p, 1, n) : n \in N} : p \in Positions(dims)}
<1>1. Len(dims) \in Nat /\ Len(dims) >= 1 /\ \A i \in 1 .. Len(dims) : dims[i] \in Nat \ {0}
  OBVIOUS
<1>2. ASSUME NEW p \in Positions(dims), NEW n \in 1 .. Len(dims)
      PROVE  SubSeq(p, 1, n) \in Seq(Nat \ {0}) /\ Inner(dims, SubSeq(p, 1, n))
  <2>1. p \in Seq(Nat \ {0}) /\ Len(p) = Len(dims) /\ \A i \in 1 .. Len(dims) : p[i] <= dims[i]
    BY PositionFacts
  <2>2. n \in 0 .. Len(p)
    BY <1>1, <2>1
  <2> DEFINE t == SubSeq(p, 1, n)
  <2>3. t \in Seq(Nat \ {0}) /\ Len(t) = n /\ \A i \in 1 .. n : t[i] = p[i]
    BY <2>1, <2>2, PrefixFacts
  <2> HIDE DEF t
  <2>4. \A i \in 1 .. n : i \in 1 .. Len(dims)
    BY <1>1
  <2>5. Inner(dims, t)
    BY <2>1, <2>3, <2>4 DEF Inner
  <2> QED
    BY <2>3, <2>5 DEF t
<1>3. ASSUME NEW t, Inner(dims, t)
      PROVE  t \in I
  <2> DEFINE p == [i \in 1 .. Len(dims) |-> IF i <= Len(t) THEN t[i] ELSE 1]
  <2>1. t \in Seq(Nat \ {0}) /\ Len(t) \in 1 .. Len(dims) /\ \A i \in 1 .. Len(t) : t[i] <= dims[i]
    BY <1>3 DEF Inner
  <2>2. /\ \A i \in 1 .. Len(dims) : p[i] = IF i <= Len(t) THEN t[i] ELSE 1
        /\ \A i \in 1 .. Len(dims) : i <= Len(t) => i \in 1 .. Len(t)
        /\ p = [i \in 1 .. Len(dims) |-> p[i]]
    BY <1>1, <2>1
  <2> HIDE DEF p
  <2>3. \A i \in 1 .. Len(dims) : p[i] \in Nat \ {0} /\ p[i] <= dims[i]
    BY <1>1, <2>1, <2>2
  <2>4. p \in [1 .. Len(dims) -> Nat \ {0}]
    BY <2>2, <2>3
  <2>5. p \in Seq(Nat \ {0}) /\ Len(p) = Len(dims)
    BY <1>1, <2>4
  <2>6. p \in Positions(dims)
    BY <2>3, <2>5, PositionFacts
  <2>7. Len(t) \in 0 .. Len(p)
    BY <1>1, <2>1, <2>5
  <2>8. /\ SubSeq(p, 1, Len(t)) \in Seq(Nat \ {0}) /\ Len(SubSeq(p, 1, Len(t))) = Len(t)
        /\ \A i \in 1 .. Len(t) : SubSeq(p, 1, Len(t))[i] = p[i]
    BY <2>5, <2>7, PrefixFacts
  <2>9. \A i \in 1 .. Len(t) : i \in 1 .. Len(dims) /\ i <= Len(t)
    BY <1>1, <2>1
  <2>10. \A i \in 1 .. Len(t) : SubSeq(p, 1, Len(t))[i] = t[i]
    BY <2>2, <2>8, <2>9
  <2>11. SubSeq(p, 1, Len(t)) = t
    BY <2>1, <2>8, <2>10, SeqEqual
  <2>12. Len(t) \in N
    BY <2>1
  <2> HIDE DEF N
  <2>13. t \in {SubSeq(p, 1, n) : n \in N}
    BY <2>11, <2>12
  <2> QED
    BY <2>6, <2>13
<1>4. ASSUME NEW t \in I PROVE t \in Seq(Nat \ {0}) /\ Inner(dims, t)
  <2> HIDE DEF N
  <2>1. PICK p \in Positions(dims) : t \in {SubSeq(p, 1, n) : n \in N}
    OBVIOUS
  <2>2. PICK n \in N : t = SubSeq(p, 1, n)
    BY <2>1
  <2> QED
    BY <1>2, <2>2 DEF N
<1>5. \A t : Inner(dims, t) => t \in Seq(Nat \ {0})
  BY DEF Inner
<1> HIDE DEF I
<1>6. I = {t \in Seq(Nat \ {0}) : Inner(dims, t)}
  BY <1>3, <1>4, <1>5
<1> QED
  BY <1>6 DEF I

(* What is read before the part at a, and around it.                       *)
Earlier(t, a) ==
  \E l \in 1 .. Len(a) : l <= Len(t) /\ t[l] < a[l] /\ \A i \in 1 .. l - 1 : t[i] = a[i]
Above(t, a) == Len(t) < Len(a) /\ \A i \in 1 .. Len(t) : t[i] = a[i]
Known(t, a) == Earlier(t, a) \/ Above(t, a)

LEMMA KnownFirst ==
  ASSUME NEW dims, NEW t, Inner(dims, t)
  PROVE  ~Known(t, << 1 >>)
<1>1. t \in Seq(Nat \ {0}) /\ Len(t) \in Nat /\ Len(t) >= 1 /\ t[1] \in Nat \ {0}
  BY DEF Inner
<1>2. Len(<< 1 >>) = 1 /\ << 1 >>[1] = 1 /\ \A l \in 1 .. 1 : l = 1
  OBVIOUS
<1> QED
  BY <1>1, <1>2 DEF Known, Earlier, Above

LEMMA KnownAppend ==
  ASSUME NEW dims, NEW t, Inner(dims, t), NEW a \in Seq(Nat \ {0}), Known(t, Append(a, 1))
  PROVE  Known(t, a) \/ t = a
<1> DEFINE more == Append(a, 1)
           n == Len(a)
<1>1. t \in Seq(Nat \ {0}) /\ Len(t) \in Nat /\ \A i \in 1 .. Len(t) : t[i] \in Nat \ {0}
  BY DEF Inner
<1>2. /\ Len(more) = n + 1 /\ n \in Nat /\ more[n + 1] = 1
      /\ \A i \in 1 .. n : more[i] = a[i]
  BY AppendProperties
<1> HIDE DEF more, n
<1>3. CASE Earlier(t, more)
  <2>1. PICK l \in 1 .. n + 1 : l <= Len(t) /\ t[l] < more[l]
                                /\ \A i \in 1 .. l - 1 : t[i] = more[i]
    BY <1>2, <1>3 DEF Earlier
  <2>2. l # n + 1
    <3>1. t[l] \in Nat \ {0}
      BY <1>1, <2>1
    <3> QED
      BY <1>2, <2>1, <3>1
  <2>3. l \in 1 .. n /\ \A i \in 1 .. l - 1 : i \in 1 .. n
    BY <1>2, <2>2
  <2>4. t[l] < a[l] /\ \A i \in 1 .. l - 1 : t[i] = a[i]
    BY <1>2, <2>1, <2>3
  <2> QED
    BY <2>1, <2>3, <2>4 DEF Known, Earlier, n
<1>4. CASE Above(t, more)
  <2>1. Len(t) <= n /\ \A i \in 1 .. Len(t) : t[i] = more[i] /\ i \in 1 .. n
    BY <1>1, <1>2, <1>4 DEF Above
  <2>2. \A i \in 1 .. Len(t) : t[i] = a[i]
    BY <1>2, <2>1
  <2>3. CASE Len(t) = n
    BY <1>1, <2>2, <2>3, SeqEqual DEF n
  <2>4. CASE Len(t) # n
    BY <1>1, <1>2, <2>1, <2>2, <2>4 DEF Known, Above, n
  <2> QED
    BY <2>3, <2>4
<1> QED
  BY <1>3, <1>4 DEF Known, more

LEMMA KnownFollowing ==
  ASSUME NEW dims \in Seq(Nat \ {0}), NEW t, Inner(dims, t), NEW a \in Seq(Nat \ {0}),
         a # << >>, Len(a) = Len(dims), Known(t, Following(a))
  PROVE  Known(t, a) \/ t = a
<1> DEFINE more == Following(a)
           n == Len(a)
<1>1. t \in Seq(Nat \ {0}) /\ Len(t) \in Nat /\ Len(t) <= n
      /\ \A i \in 1 .. Len(t) : t[i] \in Nat \ {0}
  BY DEF Inner
<1>2. /\ Len(more) = n /\ n \in Nat /\ n >= 1 /\ more[n] = a[n] + 1
      /\ \A i \in 1 .. n - 1 : more[i] = a[i]
  BY FollowingFacts
<1>a. a[n] \in Nat
  BY <1>2
<1> HIDE DEF more, n
<1>3. CASE Earlier(t, more)
  <2>1. PICK l \in 1 .. n : l <= Len(t) /\ t[l] < more[l]
                                /\ \A i \in 1 .. l - 1 : t[i] = more[i]
    BY <1>2, <1>3 DEF Earlier
  <2>2. \A i \in 1 .. l - 1 : i \in 1 .. n - 1
    BY <1>2
  <2>3. \A i \in 1 .. l - 1 : t[i] = a[i]
    BY <1>2, <2>1, <2>2
  <2>4. CASE t[l] < a[l]
    BY <2>1, <2>3, <2>4 DEF Known, Earlier, n
  <2>5. CASE ~(t[l] < a[l])
    <3>1. l = n
      <4>1. l # n => l \in 1 .. n - 1
        BY <1>2
      <4> QED
        BY <1>2, <2>1, <2>5, <4>1
    <3>2. Len(t) = n /\ t[n] \in Nat
      BY <1>1, <1>2, <2>1, <3>1
    <3>3. t[n] = a[n]
      BY <1>2, <1>a, <2>1, <2>5, <3>1, <3>2
    <3>4. \A i \in 1 .. n : i = n \/ i \in 1 .. l - 1
      BY <1>2, <3>1
    <3>5. \A i \in 1 .. n : t[i] = a[i]
      BY <2>3, <3>3, <3>4
    <3> QED
      BY <1>1, <3>2, <3>5, SeqEqual DEF n
  <2> QED
    BY <2>4, <2>5
<1>4. CASE Above(t, more)
  <2>1. Len(t) < n /\ \A i \in 1 .. Len(t) : t[i] = more[i] /\ i \in 1 .. n - 1
    BY <1>1, <1>2, <1>4 DEF Above
  <2> QED
    BY <1>2, <2>1 DEF Known, Above, n
<1> QED
  BY <1>3, <1>4 DEF Known, more

LEMMA KnownClosed ==
  ASSUME NEW dims \in Seq(Nat \ {0}), NEW t, Inner(dims, t), NEW a \in Seq(Nat \ {0}),
         Len(a) >= 2, Len(a) <= Len(dims), a[Len(a)] > dims[Len(a)],
         Known(t, Following(Front(a)))
  PROVE  Known(t, a)
<1> DEFINE up == Front(a)
           more == Following(up)
           n == Len(a)
<1>1. t \in Seq(Nat \ {0}) /\ Len(t) \in Nat /\ Len(t) <= Len(dims)
      /\ \A i \in 1 .. Len(t) : t[i] \in Nat \ {0} /\ t[i] <= dims[i]
  BY DEF Inner
<1>2. /\ up \in Seq(Nat \ {0}) /\ Len(up) = n - 1 /\ n \in Nat /\ n >= 2
      /\ \A i \in 1 .. n - 1 : up[i] = a[i]
  <2>1. a # << >>
    OBVIOUS
  <2> QED
    BY <2>1, FrontFacts DEF Front
<1>3. up # << >>
  BY <1>2
<1>4. /\ Len(more) = n - 1 /\ more[n - 1] = a[n - 1] + 1
      /\ \A i \in 1 .. (n - 1) - 1 : more[i] = a[i]
  <2> HIDE DEF up, n
  <2>1. /\ Len(more) = Len(up) /\ more[Len(up)] = up[Len(up)] + 1
        /\ \A i \in 1 .. Len(up) - 1 : more[i] = up[i]
    BY <1>2, <1>3, FollowingFacts
  <2>2. n - 1 \in 1 .. n - 1 /\ \A i \in 1 .. (n - 1) - 1 : i \in 1 .. n - 1
    BY <1>2
  <2> HIDE DEF more
  <2> QED
    BY <1>2, <2>1, <2>2
<1>5. a[n - 1] \in Nat /\ a[n] \in Nat /\ n \in 1 .. Len(dims) /\ dims[n] \in Nat
      /\ a[n] > dims[n] /\ Len(dims) \in Nat
  BY <1>2
<1> HIDE DEF more, up, n
<1>6. CASE Earlier(t, more)
  <2>1. PICK l \in 1 .. n - 1 : l <= Len(t) /\ t[l] < more[l]
                                /\ \A i \in 1 .. l - 1 : t[i] = more[i]
    BY <1>4, <1>6 DEF Earlier
  <2>2. \A i \in 1 .. l - 1 : i \in 1 .. (n - 1) - 1
    BY <1>2
  <2>3. \A i \in 1 .. l - 1 : t[i] = a[i]
    BY <1>4, <2>1, <2>2
  <2>4. l \in 1 .. n /\ l \in 1 .. Len(t) /\ t[l] \in Nat
    BY <1>1, <1>2, <2>1
  <2>5. CASE t[l] < a[l]
    BY <2>1, <2>3, <2>4, <2>5 DEF Known, Earlier, n
  <2>6. CASE ~(t[l] < a[l])
    <3>1. l = n - 1
      <4>1. l # n - 1 => l \in 1 .. (n - 1) - 1
        BY <1>2
      <4> QED
        BY <1>4, <2>1, <2>6, <4>1
    <3>2. t[n - 1] = a[n - 1]
      <4> DEFINE x == t[n - 1]
                 y == a[n - 1]
      <4>1. x < y + 1 /\ ~(x < y) /\ x \in Nat /\ y \in Nat
        BY <1>4, <1>5, <2>1, <2>4, <2>6, <3>1
      <4> HIDE DEF x, y
      <4>2. x = y
        BY <4>1
      <4> QED
        BY <4>2 DEF x, y
    <3>3. \A i \in 1 .. n - 1 : i = n - 1 \/ i \in 1 .. l - 1
      BY <1>2, <3>1
    <3>4. \A i \in 1 .. n - 1 : t[i] = a[i]
      BY <2>3, <3>2, <3>3
    <3>5. CASE Len(t) = n - 1
      BY <1>2, <3>4, <3>5 DEF Known, Above, n
    <3>6. CASE Len(t) # n - 1
      <4>1. n <= Len(t) /\ n \in 1 .. Len(t)
        BY <1>1, <1>2, <2>1, <3>1, <3>6
      <4>2. t[n] <= dims[n] /\ t[n] \in Nat
        BY <1>1, <4>1
      <4>3. t[n] < a[n]
        <5> DEFINE x == t[n]
                   y == a[n]
                   z == dims[n]
        <5>1. x <= z /\ y > z /\ x \in Nat /\ y \in Nat /\ z \in Nat
          BY <1>5, <4>2
        <5> HIDE DEF x, y, z
        <5>2. x < y
          BY <5>1
        <5> QED
          BY <5>2 DEF x, y
      <4>4. n \in 1 .. n
        BY <1>2
      <4> QED
        BY <3>4, <4>1, <4>3, <4>4 DEF Known, Earlier, n
    <3> QED
      BY <3>5, <3>6
  <2> QED
    BY <2>5, <2>6
<1>7. CASE Above(t, more)
  <2>1. Len(t) < n - 1 /\ \A i \in 1 .. Len(t) : t[i] = more[i] /\ i \in 1 .. (n - 1) - 1
    BY <1>1, <1>2, <1>4, <1>7 DEF Above
  <2>2. \A i \in 1 .. Len(t) : t[i] = a[i]
    BY <1>4, <2>1
  <2> QED
    BY <1>1, <1>2, <2>1, <2>2 DEF Known, Above, n
<1> QED
  BY <1>6, <1>7 DEF Known, more, up

LEMMA KnownAll ==
  ASSUME NEW dims \in Seq(Nat \ {0}), NEW t, Inner(dims, t), NEW a \in Seq(Nat \ {0}),
         Len(a) = 1, a[1] > dims[1]
  PROVE  Known(t, a)
<1>1. t[1] < a[1] /\ Len(t) >= 1
  <2> DEFINE x == t[1]
             y == a[1]
             z == dims[1]
  <2>1. /\ t \in Seq(Nat \ {0}) /\ Len(t) \in Nat /\ Len(t) >= 1 /\ Len(dims) >= 1
        /\ \A i \in 1 .. Len(t) : t[i] <= dims[i]
    BY DEF Inner
  <2>2. 1 \in 1 .. Len(t) /\ 1 \in 1 .. Len(dims) /\ 1 \in 1 .. Len(a)
    BY <2>1
  <2>a. t[1] \in Nat \ {0} /\ t[1] <= dims[1]
    BY <2>1, <2>2
  <2>b. a[1] \in Nat \ {0} /\ dims[1] \in Nat \ {0}
    BY <2>2, ElementOfSeq
  <2>3. x <= z /\ x \in Nat /\ y \in Nat /\ z \in Nat /\ y > z
    BY <2>a, <2>b
  <2> HIDE DEF x, y, z
  <2>4. x < y
    BY <2>3
  <2> QED
    BY <2>1, <2>4 DEF x, y
<1>2. 1 \in 1 .. Len(a) /\ 1 <= Len(t) /\ t[1] < a[1] /\ \A i \in 1 .. 1 - 1 : t[i] = a[i]
  BY <1>1
<1>3. Earlier(t, a)
  BY <1>2 DEF Earlier
<1> QED
  BY <1>3 DEF Known

-----------------------------------------------------------------------------
(* The parts below a place.                                                *)
LEMMA ChildFacts ==
  ASSUME NEW s \in Seq(Nat \ {0}), NEW x \in Nat \ {0}
  PROVE  LET r == Append(s, x) IN
         /\ r \in Seq(Nat \ {0}) /\ r # << >> /\ Len(r) = Len(s) + 1 /\ Len(s) \in Nat
         /\ Front(r) = s /\ r[Len(r)] = x
         /\ r[Len(s) + 1] = x /\ \A i \in 1 .. Len(s) : r[i] = s[i]
<1> DEFINE r == Append(s, x)
<1>1. /\ r \in Seq(Nat \ {0}) /\ r # << >> /\ Len(r) = Len(s) + 1 /\ Len(s) \in Nat
      /\ r[Len(s) + 1] = x /\ \A i \in 1 .. Len(s) : r[i] = s[i]
  BY AppendProperties
<1>2. SubSeq(r, 1, Len(s)) = s
  BY AppendPrefix
<1> HIDE DEF r
<1>3. Len(r) - 1 = Len(s)
  BY <1>1
<1>4. Front(r) = s
  BY <1>2, <1>3 DEF Front
<1> QED
  BY <1>1, <1>4 DEF r

LEMMA IsChild ==
  ASSUME NEW r \in Seq(Nat \ {0}), r # << >>
  PROVE  /\ Front(r) \in Seq(Nat \ {0}) /\ r[Len(r)] \in Nat \ {0}
         /\ r = Append(Front(r), r[Len(r)]) /\ Len(Front(r)) = Len(r) - 1
         /\ Len(r) \in Nat /\ Len(r) >= 1
<1>1. Len(r) \in Nat /\ Len(r) >= 1 /\ Len(r) \in 1 .. Len(r)
  OBVIOUS
<1>2. Front(r) \in Seq(Nat \ {0}) /\ Len(Front(r)) = Len(r) - 1
  BY FrontFacts DEF Front
<1>3. r = Append(Front(r), r[Len(r)])
  <2> DEFINE m == Len(r)
  <2>1. SubSeq(r, 1, m) = Append(SubSeq(r, 1, m - 1), r[m])
    BY <1>1, PrefixStep
  <2>2. SubSeq(r, 1, m) = r
    BY <1>1
  <2> QED
    BY <2>1, <2>2 DEF Front
<1> QED
  BY <1>1, <1>2, <1>3, ElementOfSeq

LEMMA WithinIs ==
  ASSUME Split(This.rhs), NEW s \in Seq(Nat \ {0})
  PROVE  \A x : x \in Within(s) <=> x \in Nat \ {0} /\ Append(s, x) \in DOMAIN This.rhs
<1>1. \A r \in DOMAIN This.rhs : r \in Seq(Nat \ {0}) /\ r # << >>
  BY DEF Split
<1>2. ASSUME NEW x \in Within(s)
      PROVE  x \in Nat \ {0} /\ Append(s, x) \in DOMAIN This.rhs
  <2>1. PICK r \in DOMAIN This.rhs : Front(r) = s /\ x = r[Len(r)]
    BY Zenon DEF Within
  <2> QED
    BY <1>1, <2>1, IsChild
<1>3. ASSUME NEW x \in Nat \ {0}, Append(s, x) \in DOMAIN This.rhs
      PROVE  x \in Within(s)
  <2> DEFINE r == Append(s, x)
  <2>1. Front(r) = s /\ r[Len(r)] = x
    BY ChildFacts
  <2> HIDE DEF r
  <2>2. r \in DOMAIN This.rhs
    BY <1>3 DEF r
  <2> QED
    BY <2>1, <2>2, Zenon DEF Within
<1> QED
  BY <1>2, <1>3

LEMMA BelowBase ==
  ASSUME NEW b \in Seq(Nat \ {0}), NEW t \in Seq(Nat \ {0}), NEW x \in Nat \ {0}
  PROVE  /\ b \o t \in Seq(Nat \ {0}) /\ Len(b \o t) = Len(b) + Len(t) /\ b \o << >> = b
         /\ Append(b \o t, x) = b \o Append(t, x)
<1>1. << >> \in Seq(Nat \ {0}) /\ <<x>> \in Seq(Nat \ {0})
  OBVIOUS
<1>2. b \o t \in Seq(Nat \ {0}) /\ Len(b \o t) = Len(b) + Len(t)
  BY ConcatProperties
<1>3. b \o << >> = b
  BY ConcatEmptySeq
<1>4. (b \o t) \o <<x>> = b \o (t \o <<x>>)
  BY <1>1, ConcatAssociative
<1>5. Append(b \o t, x) = (b \o t) \o <<x>>
  BY <1>2, AppendIsConcat
<1>6. Append(t, x) = t \o <<x>>
  BY AppendIsConcat
<1> QED
  BY <1>2, <1>3, <1>4, <1>5, <1>6

(* Different places below a base are different parts.                      *)
LEMMA SameBelow ==
  ASSUME NEW b \in Seq(Nat \ {0}), NEW t \in Seq(Nat \ {0}), NEW u \in Seq(Nat \ {0}),
         b \o t = b \o u
  PROVE  t = u
<1>1. /\ Len(b \o t) = Len(b) + Len(t) /\ Len(b \o u) = Len(b) + Len(u)
      /\ \A i \in 1 .. Len(b) + Len(t) : (b \o t)[i] = IF i <= Len(b) THEN b[i] ELSE t[i - Len(b)]
      /\ \A i \in 1 .. Len(b) + Len(u) : (b \o u)[i] = IF i <= Len(b) THEN b[i] ELSE u[i - Len(b)]
      /\ Len(b) \in Nat /\ Len(t) \in Nat /\ Len(u) \in Nat
  BY ConcatProperties
<1>2. Len(t) = Len(u)
  BY <1>1
<1>3. ASSUME NEW i \in 1 .. Len(t) PROVE t[i] = u[i]
  <2>1. i + Len(b) \in 1 .. Len(b) + Len(t) /\ ~(i + Len(b) <= Len(b)) /\ (i + Len(b)) - Len(b) = i
    BY <1>1
  <2>2. (b \o t)[i + Len(b)] = t[i] /\ (b \o u)[i + Len(b)] = u[i]
    BY <1>1, <1>2, <2>1
  <2> QED
    BY <2>2
<1> QED
  BY <1>2, <1>3, SeqEqual

LEMMA InnerChild ==
  ASSUME NEW dims \in Seq(Nat \ {0}), dims # << >>, NEW t \in Seq(Nat \ {0}), NEW x \in Nat \ {0}
  PROVE  Inner(dims, Append(t, x))
           <=> (t = << >> \/ Inner(dims, t)) /\ Len(t) < Len(dims) /\ x <= dims[Len(t) + 1]
<1> DEFINE r == Append(t, x)
           n == Len(t)
<1>1. /\ r \in Seq(Nat \ {0}) /\ Len(r) = n + 1 /\ n \in Nat
      /\ r[n + 1] = x /\ \A i \in 1 .. n : r[i] = t[i]
  BY ChildFacts
<1>2. Len(dims) \in Nat /\ Len(dims) >= 1 /\ (t = << >> <=> n = 0)
  OBVIOUS
<1> HIDE DEF r, n
<1>3. ASSUME Inner(dims, r)
      PROVE  (t = << >> \/ Inner(dims, t)) /\ n < Len(dims) /\ x <= dims[n + 1]
  <2>1. n + 1 \in 1 .. Len(dims) /\ \A i \in 1 .. n + 1 : r[i] <= dims[i]
    BY <1>1, <1>3 DEF Inner
  <2>2. n + 1 \in 1 .. n + 1 /\ n < Len(dims) /\ \A i \in 1 .. n : i \in 1 .. n + 1
    BY <1>1, <2>1
  <2>3. x <= dims[n + 1] /\ \A i \in 1 .. n : t[i] <= dims[i]
    BY <1>1, <2>1, <2>2
  <2>4. n # 0 => n \in 1 .. Len(dims)
    BY <1>1, <2>2
  <2> QED
    BY <1>2, <2>2, <2>3, <2>4 DEF Inner, n
<1>4. ASSUME t = << >> \/ Inner(dims, t), n < Len(dims), x <= dims[n + 1]
      PROVE  Inner(dims, r)
  <2>1. n + 1 \in 1 .. Len(dims)
    BY <1>1, <1>2, <1>4
  <2>2. \A i \in 1 .. n : t[i] <= dims[i]
    <3>1. CASE t = << >>
      BY <1>2, <3>1
    <3>2. CASE Inner(dims, t)
      BY <3>2 DEF Inner, n
    <3> QED
      BY <1>4, <3>1, <3>2
  <2>3. \A i \in 1 .. n + 1 : i = n + 1 \/ i \in 1 .. n
    BY <1>1
  <2>4. \A i \in 1 .. n + 1 : r[i] <= dims[i]
    BY <1>1, <1>4, <2>2, <2>3
  <2> QED
    BY <1>1, <2>1, <2>4 DEF Inner
<1> QED
  BY <1>3, <1>4 DEF r, n

-----------------------------------------------------------------------------
LEMMA BaseFacts ==
  ASSUME NEW b \in {<< >>, << 1 >>}
  PROVE  /\ b \in Seq(Nat \ {0}) /\ Len(b) \in Nat /\ b \o << >> = b
         /\ << >> \in Seq(Nat \ {0}) /\ Len(<< >>) = 0
         /\ << 1 >> \in Seq(Nat \ {0}) /\ Len(<< 1 >>) = 1
         /\ b = << >> => Len(b) = 0
         /\ b = << 1 >> => Len(b) = 1
<1>1. << >> \in Seq(Nat \ {0}) /\ << 1 >> \in Seq(Nat \ {0}) /\ Len(<< >>) = 0 /\ Len(<< 1 >>) = 1
  OBVIOUS
<1>2. << >> \o << >> = << >> /\ << 1 >> \o << >> = << 1 >>
  OBVIOUS
<1>3. b = << >> \/ b = << 1 >>
  OBVIOUS
<1>4. CASE b = << >>
  BY <1>1, <1>2, <1>4
<1>5. CASE b = << 1 >>
  BY <1>1, <1>2, <1>5
<1> QED
  BY <1>3, <1>4, <1>5

LEMMA SingleWhole == SubSeq(<< 1 >>, 1, 1) = << 1 >>
<1>1. << 1 >> \in Seq(Nat) /\ Len(<< 1 >>) = 1 /\ << 1 >>[1] = 1
  OBVIOUS
<1> DEFINE r == << 1 >>
<1>2. r \in Seq(Nat) /\ 1 \in 0 .. Len(r)
  BY <1>1
<1> HIDE DEF r
<1>3. /\ SubSeq(r, 1, 1) \in Seq(Nat) /\ Len(SubSeq(r, 1, 1)) = 1
      /\ \A i \in 1 .. 1 : SubSeq(r, 1, 1)[i] = r[i]
  BY <1>2, PrefixFacts
<1>4. Len(r) = 1
  BY <1>1 DEF r
<1>5. SubSeq(r, 1, 1) = r
  BY <1>2, <1>3, <1>4, SeqEqual
<1> QED
  BY <1>5 DEF r

LEMMA BelowAppend ==
  \A b \in Seq(Nat \ {0}), t \in Seq(Nat \ {0}), x \in Nat \ {0} :
    Append(b \o t, x) = b \o Append(t, x)
  BY BelowBase

(* That the parts nest as the dimensions, part by part.                    *)
ShapedPart(dims, b, t) ==
  IF Len(t) < Len(dims)
  THEN This.rhs[b \o t].k = "group" /\ Within(b \o t) = 1 .. dims[Len(t) + 1]
  ELSE This.rhs[b \o t].k # "group"
Local(dims, b) ==
  /\ b = << 1 >> => Within(<< >>) = {1} /\ This.rhs[<< 1 >>].k = "group"
  /\ Within(b) = 1 .. dims[1]
  /\ \A t : Inner(dims, t) => ShapedPart(dims, b, t)

LEMMA LocalChild ==
  ASSUME NEW dims \in Seq(Nat \ {0}), dims # << >>, NEW b \in {<< >>, << 1 >>},
         Split(This.rhs), Local(dims, b), NEW t \in Seq(Nat \ {0}),
         t = << >> \/ Inner(dims, t), Len(t) < Len(dims), NEW x \in Nat \ {0}
  PROVE  Append(b \o t, x) \in DOMAIN This.rhs <=> x <= dims[Len(t) + 1]
<1>1. b \in Seq(Nat \ {0})
  BY BaseFacts
<1>2. b \o t \in Seq(Nat \ {0}) /\ b \o << >> = b
  BY <1>1, BelowBase
<1>3. Within(b \o t) = 1 .. dims[Len(t) + 1]
  <2>1. CASE t = << >>
    <3>1. Len(t) + 1 = 1
      BY <2>1
    <3> QED
      BY <1>2, <2>1, <3>1 DEF Local
  <2>2. CASE Inner(dims, t)
    BY <2>2 DEF Local, ShapedPart
  <2> QED
    BY <2>1, <2>2
<1>4. Len(t) + 1 \in 1 .. Len(dims)
  BY DEF Inner
<1>5. dims[Len(t) + 1] \in Nat
  BY <1>4, ElementOfSeq
<1>6. x \in Within(b \o t) <=> Append(b \o t, x) \in DOMAIN This.rhs
  BY <1>2, WithinIs
<1> QED
  BY <1>3, <1>5, <1>6

LEMMA LocalDomain ==
  ASSUME NEW dims \in Seq(Nat \ {0}), dims # << >>, NEW b \in {<< >>, << 1 >>},
         Split(This.rhs), Local(dims, b), NEW t, Inner(dims, t)
  PROVE  b \o t \in DOMAIN This.rhs
<1>1. t \in Seq(Nat \ {0}) /\ t # << >> /\ b \in Seq(Nat \ {0})
  <2>1. t \in Seq(Nat \ {0}) /\ Len(t) \in 1 .. Len(dims)
    BY DEF Inner
  <2>2. t # << >>
    BY <2>1
  <2> QED
    BY <2>1, <2>2, BaseFacts
<1> DEFINE s == Front(t)
           x == t[Len(t)]
<1>2. s \in Seq(Nat \ {0}) /\ x \in Nat \ {0} /\ t = Append(s, x)
  BY <1>1, IsChild
<1> HIDE DEF s, x
<1>3. (s = << >> \/ Inner(dims, s)) /\ Len(s) < Len(dims) /\ x <= dims[Len(s) + 1]
  BY <1>2, InnerChild
<1>4. Append(b \o s, x) \in DOMAIN This.rhs
  BY <1>2, <1>3, LocalChild
<1> QED
  BY <1>1, <1>2, <1>4, BelowBase

(* The parts there are, when they nest.                                    *)
Inside(dims, b, r) == (\E t : Inner(dims, t) /\ r = b \o t) \/ (b = << 1 >> /\ r = << 1 >>)

LEMMA BelowSet ==
  ASSUME NEW dims \in Seq(Nat \ {0}), dims # << >>, NEW b \in {<< >>, << 1 >>}
  PROVE  LET inner == UNION {{SubSeq(p, 1, n) : n \in 1 .. Len(dims)} : p \in Positions(dims)}
             parts == {b \o q : q \in inner} \cup {SubSeq(b, 1, n) : n \in 1 .. Len(b)}
         IN \A r : r \in parts <=> Inside(dims, b, r)
<1> DEFINE inner == UNION {{SubSeq(p, 1, n) : n \in 1 .. Len(dims)} : p \in Positions(dims)}
           own == {SubSeq(b, 1, n) : n \in 1 .. Len(b)}
<1>1. inner = {t \in Seq(Nat \ {0}) : Inner(dims, t)}
  BY InnerPrefix
<1>2. \A t : t \in inner <=> Inner(dims, t)
  BY <1>1 DEF Inner
<1>3. \A r : r \in own <=> b = << 1 >> /\ r = << 1 >>
  <2>1. CASE b = << >>
    BY <2>1
  <2>2. CASE b = << 1 >>
    <3>1. Len(<< 1 >>) = 1
      OBVIOUS
    <3>a. SubSeq(<< 1 >>, 1, 1) = << 1 >>
      BY SingleWhole
    <3>b. \A n : n \in 1 .. 1 <=> n = 1
      OBVIOUS
    <3> QED
      BY <2>2, <3>1, <3>a, <3>b
  <2> QED
    BY <2>1, <2>2
<1> HIDE DEF inner, own
<1>4. \A r : r \in {b \o q : q \in inner} \cup own <=> Inside(dims, b, r)
  BY <1>2, <1>3 DEF Inside
<1> QED
  BY <1>4 DEF inner, own

LEMMA NestedIs ==
  ASSUME NEW dims \in Seq(Nat \ {0}), dims # << >>, NEW b \in {<< >>, << 1 >>}
  PROVE  Nested(dims, b) <=>
           /\ \A r : r \in DOMAIN This.rhs <=> Inside(dims, b, r)
           /\ \A q \in DOMAIN This.rhs :
                (This.rhs[q].k = "group") <=> (Len(q) < Len(b) + Len(dims))
<1> DEFINE inner == UNION {{SubSeq(p, 1, n) : n \in 1 .. Len(dims)} : p \in Positions(dims)}
           parts == {b \o q : q \in inner} \cup {SubSeq(b, 1, n) : n \in 1 .. Len(b)}
<1>1. \A r : r \in parts <=> Inside(dims, b, r)
  BY BelowSet
<1>2. Nested(dims, b) <=>
           /\ DOMAIN This.rhs = parts
           /\ \A q \in DOMAIN This.rhs :
                (This.rhs[q].k = "group") <=> (Len(q) < Len(b) + Len(dims))
  BY Zenon DEF Nested
<1> HIDE DEF parts
<1>3. DOMAIN This.rhs = parts <=> \A r : r \in DOMAIN This.rhs <=> Inside(dims, b, r)
  BY <1>1
<1> QED
  BY <1>2, <1>3, Zenon

LEMMA LocalBelow ==
  ASSUME NEW dims \in Seq(Nat \ {0}), dims # << >>, NEW b \in {<< >>, << 1 >>},
         Split(This.rhs), Local(dims, b), NEW f \in Seq(Nat \ {0}), NEW x \in Nat \ {0},
         Append(f, x) \in DOMAIN This.rhs,
         f = << >> \/ (Inside(dims, b, f) /\ This.rhs[f].k = "group")
  PROVE  Inside(dims, b, Append(f, x))
<1>1. b \in Seq(Nat \ {0}) /\ << >> \in Seq(Nat \ {0})
  BY BaseFacts
<1>2. ASSUME NEW t \in Seq(Nat \ {0}), f = b \o t, t = << >> \/ Inner(dims, t),
             Len(t) < Len(dims)
      PROVE  Inside(dims, b, Append(f, x))
  <2>1. x <= dims[Len(t) + 1]
    BY <1>2, LocalChild
  <2>2. Inner(dims, Append(t, x))
    BY <1>2, <2>1, InnerChild
  <2>a. Append(b \o t, x) = b \o Append(t, x)
    BY <1>1, BelowAppend
  <2>3. Append(f, x) = b \o Append(t, x)
    BY <1>2, <2>a
  <2> QED
    BY <2>2, <2>3 DEF Inside
<1>3. 0 < Len(dims) /\ Len(<< >>) = 0
  OBVIOUS
<1>4. CASE f = << >>
  <2>1. CASE b = << >>
    <3>1. f = b \o << >>
      BY <1>4, <2>1
    <3> QED
      BY <1>1, <1>2, <1>3, <3>1
  <2>2. CASE b = << 1 >>
    <3>1. x \in Within(<< >>)
      BY <1>1, <1>4, WithinIs
    <3>2. x = 1
      BY <2>2, <3>1 DEF Local
    <3>3. Append(f, x) = << 1 >>
      BY <1>4, <3>2
    <3> QED
      BY <2>2, <3>3 DEF Inside
  <2> QED
    BY <2>1, <2>2
<1>5. CASE b = << 1 >> /\ f = << 1 >>
  <2>1. f = b \o << >>
    BY <1>5
  <2> QED
    BY <1>1, <1>2, <1>3, <2>1
<1>6. ASSUME NEW t, Inner(dims, t), f = b \o t, This.rhs[f].k = "group"
      PROVE  Inside(dims, b, Append(f, x))
  <2>1. ShapedPart(dims, b, t) /\ t \in Seq(Nat \ {0})
    BY <1>6 DEF Local, Inner
  <2>2. Len(t) < Len(dims)
    BY <1>6, <2>1 DEF ShapedPart
  <2> QED
    BY <1>2, <1>6, <2>1, <2>2
<1> QED
  BY <1>4, <1>5, <1>6 DEF Inside

LEMMA LocalNested ==
  ASSUME NEW dims \in Seq(Nat \ {0}), dims # << >>, NEW b \in {<< >>, << 1 >>},
         Split(This.rhs), Local(dims, b)
  PROVE  Nested(dims, b)
<1> DEFINE Parts == DOMAIN This.rhs
           Bad == {n \in Nat : \E r \in Parts : Len(r) = n /\ ~Inside(dims, b, r)}
<1>1. \A r \in Parts : r \in Seq(Nat \ {0}) /\ r # << >>
  BY DEF Split
<1>2. \A r : Inside(dims, b, r) => r \in Parts
  <2>1. b = << 1 >> => << 1 >> \in Parts
    <3>1. SUFFICES ASSUME b = << 1 >> PROVE << 1 >> \in Parts
      OBVIOUS
    <3>2. 1 \in Within(<< >>)
      BY <3>1 DEF Local
    <3>3. << >> \in Seq(Nat \ {0}) /\ Append(<< >>, 1) = << 1 >>
      OBVIOUS
    <3> QED
      BY <3>2, <3>3, WithinIs
  <2> QED
    BY <2>1, LocalDomain DEF Inside
<1>3. \A r \in Parts : Inside(dims, b, r)
  <2>1. SUFFICES ASSUME Bad # {} PROVE FALSE
    <3>1. \A r \in Parts : Len(r) \in Nat
      BY <1>1, LenProperties
    <3> QED
      BY <3>1
  <2>2. PICK n \in Bad : \A m \in Bad : n <= m
    BY <2>1, NatMin
  <2>3. PICK r \in Parts : Len(r) = n /\ ~Inside(dims, b, r)
    BY <2>2
  <2> DEFINE f == Front(r)
             x == r[Len(r)]
  <2>4. /\ f \in Seq(Nat \ {0}) /\ x \in Nat \ {0} /\ r = Append(f, x)
        /\ Len(f) = n - 1 /\ n \in Nat /\ n >= 1
    BY <1>1, <2>3, IsChild
  <2>5. n > 1 => f \in Parts /\ This.rhs[f].k = "group"
    BY <2>3 DEF Split
  <2>6. n = 1 => f = << >>
    <3> HIDE DEF f
    <3> QED
      BY <2>4
  <2> HIDE DEF f, x
  <2>7. n - 1 \in Nat /\ ~(n <= n - 1)
    BY <2>4
  <2>8. n - 1 \notin Bad
    BY <2>2, <2>7
  <2>9. n > 1 => Inside(dims, b, f)
    <3> HIDE DEF Parts
    <3> QED
      BY <2>4, <2>5, <2>7, <2>8
  <2>10. f = << >> \/ (Inside(dims, b, f) /\ This.rhs[f].k = "group")
    BY <2>4, <2>5, <2>6, <2>9
  <2>11. Inside(dims, b, r)
    BY <2>3, <2>4, <2>10, LocalBelow
  <2> QED
    BY <2>3, <2>11
<1>4. ASSUME NEW q \in Parts
      PROVE  This.rhs[q].k = "group" <=> Len(q) < Len(b) + Len(dims)
  <2>1. Len(dims) \in Nat /\ Len(dims) >= 1
    OBVIOUS
  <2>2. ASSUME NEW t, Inner(dims, t), q = b \o t
        PROVE  This.rhs[q].k = "group" <=> Len(q) < Len(b) + Len(dims)
    <3>a. t \in Seq(Nat \ {0}) /\ Len(t) \in Nat /\ Len(t) <= Len(dims)
      BY <2>2 DEF Inner
    <3>1. t \in Seq(Nat \ {0}) /\ Len(t) \in Nat /\ Len(t) <= Len(dims) /\ b \in Seq(Nat \ {0})
      BY <3>a, BaseFacts
    <3>2. Len(q) = Len(b) + Len(t) /\ Len(b) \in Nat
      BY <2>2, <3>1, BelowBase
    <3>3. ShapedPart(dims, b, t)
      BY <2>2 DEF Local
    <3>4. This.rhs[q].k = "group" <=> Len(t) < Len(dims)
      BY <2>2, <3>3 DEF ShapedPart
    <3> QED
      BY <2>1, <3>1, <3>2, <3>4
  <2>3. ASSUME b = << 1 >>, q = << 1 >>
        PROVE  This.rhs[q].k = "group" <=> Len(q) < Len(b) + Len(dims)
    BY <2>1, <2>3 DEF Local
  <2> QED
    BY <1>3, <2>2, <2>3 DEF Inside
<1> QED
  BY <1>2, <1>3, <1>4, NestedIs

LEMMA NestedLocal ==
  ASSUME NEW dims \in Seq(Nat \ {0}), dims # << >>, NEW b \in {<< >>, << 1 >>},
         Split(This.rhs), Nested(dims, b)
  PROVE  Local(dims, b)
<1>1. /\ \A r : r \in DOMAIN This.rhs <=> Inside(dims, b, r)
      /\ \A q \in DOMAIN This.rhs : (This.rhs[q].k = "group") <=> (Len(q) < Len(b) + Len(dims))
  BY NestedIs
<1>2. /\ b \in Seq(Nat \ {0}) /\ << >> \in Seq(Nat \ {0}) /\ b \o << >> = b
      /\ Len(b) \in Nat /\ Len(<< >>) = 0
      /\ Len(dims) \in Nat /\ Len(dims) >= 1
  <2>1. Len(dims) \in Nat /\ Len(dims) >= 1
    OBVIOUS
  <2> QED
    BY <2>1, BaseFacts
<1>3. ASSUME NEW t \in Seq(Nat \ {0}), t = << >> \/ Inner(dims, t), Len(t) < Len(dims)
      PROVE  Within(b \o t) = 1 .. dims[Len(t) + 1]
  <2>1. b \o t \in Seq(Nat \ {0})
    BY <1>2, BelowBase
  <2>2. Len(t) + 1 \in 1 .. Len(dims)
    BY <1>3, <1>2
  <2>3. dims[Len(t) + 1] \in Nat
    BY <2>2, ElementOfSeq
  <2>4. ASSUME NEW x \in Nat \ {0}
        PROVE  Append(b \o t, x) \in DOMAIN This.rhs <=> x <= dims[Len(t) + 1]
    <3> DEFINE r == Append(b \o t, x)
               s == Append(t, x)
    <3>1. r = b \o s /\ s \in Seq(Nat \ {0}) /\ Len(r) = Len(b) + Len(t) + 1 /\ Len(t) \in Nat
      <4>1. r = b \o s
        BY <1>2, BelowAppend
      <4>2. s \in Seq(Nat \ {0}) /\ Len(s) = Len(t) + 1 /\ Len(t) \in Nat
        BY ChildFacts
      <4>3. Len(b \o s) = Len(b) + Len(s)
        BY <1>2, <4>2, BelowBase
      <4> HIDE DEF r, s
      <4> QED
        BY <1>2, <4>1, <4>2, <4>3
    <3>2. Inner(dims, s) <=> x <= dims[Len(t) + 1]
      BY <1>3, InnerChild
    <3> HIDE DEF r, s
    <3>3. ~(b = << 1 >> /\ r = << 1 >>)
      <4>1. b = << 1 >> => Len(b) = 1
        BY BaseFacts
      <4>2. r = << 1 >> => Len(r) = 1
        BY BaseFacts
      <4>3. b = << 1 >> => Len(r) = 2 + Len(t)
        BY <3>1, <4>1
      <4> QED
        BY <3>1, <4>2, <4>3
    <3>4. \A u : Inner(dims, u) /\ r = b \o u => u = s
      <4>1. \A u : Inner(dims, u) => u \in Seq(Nat \ {0})
        BY DEF Inner
      <4> QED
        BY <1>2, <3>1, <4>1, SameBelow
    <3>5. Inside(dims, b, r) <=> Inner(dims, s)
      BY <3>1, <3>3, <3>4 DEF Inside
    <3> QED
      BY <1>1, <3>2, <3>5 DEF r
  <2>5. \A x : x \in Within(b \o t) <=> x \in Nat \ {0} /\ Append(b \o t, x) \in DOMAIN This.rhs
    BY <2>1, WithinIs
  <2>6. \A x : x \in Within(b \o t) <=> x \in Nat \ {0} /\ x <= dims[Len(t) + 1]
    BY <2>4, <2>5
  <2> DEFINE W == Within(b \o t)
             y == dims[Len(t) + 1]
  <2> HIDE DEF W, y
  <2>7. \A x : x \in W <=> x \in 1 .. y
    BY <2>3, <2>6 DEF W, y
  <2>8. W = 1 .. y
    BY <2>7
  <2> QED
    BY <2>8 DEF W, y
<1>4. Within(b) = 1 .. dims[1]
  <2>a. Len(<< >>) < Len(dims)
    BY <1>2
  <2>1. Within(b \o << >>) = 1 .. dims[Len(<< >>) + 1]
    BY <1>2, <1>3, <2>a, Zenon
  <2>2. Len(<< >>) + 1 = 1
    BY <1>2
  <2> QED
    BY <1>2, <2>1, <2>2
<1>5. ASSUME NEW t, Inner(dims, t) PROVE ShapedPart(dims, b, t)
  <2>1. t \in Seq(Nat \ {0}) /\ Len(t) \in Nat
    BY <1>5 DEF Inner
  <2>2. b \o t \in DOMAIN This.rhs
    BY <1>1, <1>5 DEF Inside
  <2>3. Len(b \o t) = Len(b) + Len(t)
    BY <1>2, <2>1, BelowBase
  <2>4. This.rhs[b \o t].k = "group" <=> Len(b \o t) < Len(b) + Len(dims)
    BY <1>1, <2>2
  <2>5. Len(b \o t) < Len(b) + Len(dims) <=> Len(t) < Len(dims)
    BY <1>2, <2>1, <2>3
  <2> QED
    BY <1>3, <1>5, <2>1, <2>4, <2>5 DEF ShapedPart
<1>6. ASSUME b = << 1 >>
      PROVE  Within(<< >>) = {1} /\ This.rhs[<< 1 >>].k = "group"
  <2>1. << 1 >> \in DOMAIN This.rhs
    BY <1>1, <1>6 DEF Inside
  <2>2. Len(<< 1 >>) = 1
    OBVIOUS
  <2>3. This.rhs[<< 1 >>].k = "group"
    BY <1>1, <1>2, <1>6, <2>1, <2>2
  <2>4. \A x \in Nat \ {0} : Inside(dims, b, Append(<< >>, x)) => x = 1
    <3>1. TAKE x \in Nat \ {0}
    <3>2. Append(<< >>, x) = <<x>> /\ Len(<<x>>) = 1
      OBVIOUS
    <3>3. ASSUME NEW t, Inner(dims, t), <<x>> = b \o t PROVE FALSE
      <4>1. t \in Seq(Nat \ {0}) /\ Len(t) \in Nat /\ Len(t) >= 1
        BY <3>3 DEF Inner
      <4>2. Len(b \o t) = 1 + Len(t)
        BY <1>2, <1>6, <2>2, <4>1, BelowBase
      <4> QED
        BY <3>2, <3>3, <4>1, <4>2
    <3>4. <<x>> = << 1 >> => x = 1
      OBVIOUS
    <3> QED
      BY <3>2, <3>3, <3>4 DEF Inside
  <2>5. \A x : x \in Within(<< >>) <=> x \in Nat \ {0} /\ Append(<< >>, x) \in DOMAIN This.rhs
    BY <1>2, WithinIs
  <2>6. \A x : x \in Within(<< >>) => x = 1
    BY <1>1, <2>4, <2>5
  <2>7. 1 \in Within(<< >>)
    <3>1. Append(<< >>, 1) = << 1 >>
      OBVIOUS
    <3> QED
      BY <2>1, <2>5, <3>1
  <2> QED
    BY <2>3, <2>6, <2>7
<1> QED
  BY <1>4, <1>5, <1>6 DEF Local

(* Without braces in strings, the braces of every group are found.         *)
LEMMA PlainGroup ==
  ASSUME Split(This.rhs), NoBraces, NEW p \in DOMAIN This.rhs, This.rhs[p].k = "group"
  PROVE  IsSingleBraceGroup(p)
<1> DEFINE rhs == This.rhs
           parts == {q \in DOMAIN rhs : EndsBy(q, p) /\ (IsPrefix(p, q) \/ ~EndsBy(q, p))}
           texts == {t \in parts : rhs[t].k = "text"}
           marks == UNION {{q} \X DOMAIN rhs[q].braces : q \in texts}
           Marked(M, c) == Cardinality({m \in M : rhs[m[1]].braces[m[2]] = c})
           Net(q, M) == Len(q) - Len(p) + Marked(M, "{") - Marked(M, "}")
<1>1. marks = {}
  <2>1. ASSUME NEW q \in texts PROVE {q} \X DOMAIN rhs[q].braces = {}
    <3>1. rhs[q].braces = << >>
      BY <2>1 DEF NoBraces
    <3>2. DOMAIN rhs[q].braces = {}
      BY <3>1
    <3> QED
      BY <3>2
  <2> QED
    BY <2>1
<1>2. ASSUME NEW M, M = {}, NEW c PROVE Marked(M, c) = 0
  <2>1. {m \in M : rhs[m[1]].braces[m[2]] = c} = {}
    BY <1>2
  <2> QED
    BY <2>1, FS_EmptySet
<1>3. \A q \in DOMAIN rhs : Len(q) \in Nat /\ Len(p) \in Nat
  <2>1. DOMAIN rhs \subseteq Seq(Nat \ {0})
    BY DEF Split
  <2> QED
    BY <2>1
<1>4. ASSUME NEW q \in DOMAIN rhs, NEW M, M = {} PROVE Net(q, M) = Len(q) - Len(p)
  <2> DEFINE opened == Marked(M, "{")
             closed == Marked(M, "}")
  <2>1. opened = 0 /\ closed = 0
    BY <1>2, <1>4
  <2>2. Len(q) \in Nat /\ Len(p) \in Nat
    BY <1>3
  <2>3. Net(q, M) = Len(q) - Len(p) + opened - closed
    OBVIOUS
  <2> HIDE DEF opened, closed, Net
  <2> QED
    BY <2>1, <2>2, <2>3
<1>5. Net(p, marks) = 0
  <2> HIDE DEF marks, Net
  <2> QED
    BY <1>1, <1>3, <1>4
<1>6. ASSUME NEW q \in parts \ {p} PROVE Net(q, {m \in marks : EndsBy(m[1], q)}) > 0
  <2>1. IsPrefix(p, q) /\ q # p
    BY <1>6
  <2>2. p \in Seq(Nat \ {0}) /\ q \in Seq(Nat \ {0})
    BY DEF Split
  <2>3. Len(q) > Len(p)
    <3>1. Len(p) <= Len(q) /\ SubSeq(p, 1, Len(p)) = SubSeq(q, 1, Len(p))
      BY <2>1 DEF IsPrefix
    <3>2. SubSeq(p, 1, Len(p)) = p /\ SubSeq(q, 1, Len(q)) = q
      BY <2>2, SubSeqProperties
    <3>3. Len(p) # Len(q)
      BY <2>1, <3>1, <3>2
    <3> QED
      BY <1>3, <3>1, <3>3
  <2>4. {m \in marks : EndsBy(m[1], q)} = {}
    BY <1>1
  <2>5. Net(q, {m \in marks : EndsBy(m[1], q)}) = Len(q) - Len(p)
    <3> HIDE DEF marks, Net
    <3> QED
      BY <1>4, <1>6, <2>4
  <2> HIDE DEF Net
  <2> QED
    BY <1>3, <2>3, <2>5
<1>7. \A m \in marks :
        Net(m[1], {n \in marks : IF n[1] = m[1] THEN n[2] <= m[2]
                                  ELSE EndsBy(n[1], m[1])}) > 0
  <2> HIDE DEF Net
  <2> QED
    BY <1>1
<1>8. ClosedAt(This.rhs, p, p)
  BY <1>5, <1>6, <1>7, Zenon DEF ClosedAt
<1> QED
  BY <1>8 DEF IsSingleBraceGroup

(* The longest parts say how many braces are around the whole.             *)
LEMMA OneBase ==
  ASSUME NEW dims \in Seq(Nat \ {0}), dims # << >>,
         Nested(dims, << >>), Nested(dims, << 1 >>)
  PROVE  FALSE
<1> DEFINE n == Len(dims)
           ones == [i \in 1 .. n |-> 1]
<1>1. \A r : r \in DOMAIN This.rhs <=> Inside(dims, << >>, r)
  BY NestedIs
<1>2. \A r : r \in DOMAIN This.rhs <=> Inside(dims, << 1 >>, r)
  BY NestedIs
<1>3. n \in Nat /\ n >= 1 /\ \A i \in 1 .. n : dims[i] \in Nat \ {0}
  BY ElementOfSeq
<1>4. ones \in Seq(Nat \ {0}) /\ Len(ones) = n /\ \A i \in 1 .. n : ones[i] = 1
  BY <1>3
<1> HIDE DEF n, ones
<1>5. Inner(dims, ones)
  <2>1. \A i \in 1 .. n : 1 <= dims[i]
    BY <1>3
  <2> QED
    BY <1>3, <1>4, <2>1 DEF Inner, n
<1>6. << 1 >> \o ones \in DOMAIN This.rhs
  BY <1>2, <1>5 DEF Inside
<1>7. Len(<< 1 >> \o ones) = n + 1
  <2>1. << 1 >> \in Seq(Nat \ {0}) /\ Len(<< 1 >>) = 1
    OBVIOUS
  <2>2. Len(<< 1 >> \o ones) = Len(<< 1 >>) + Len(ones)
    BY <1>4, <2>1, ConcatProperties
  <2> QED
    BY <1>3, <1>4, <2>1, <2>2
<1>8. PICK t : Inner(dims, t) /\ << 1 >> \o ones = << >> \o t
  <2>1. << >> # << 1 >>
    OBVIOUS
  <2> QED
    BY <1>1, <1>6, <2>1 DEF Inside
<1>9. t \in Seq(Nat \ {0}) /\ Len(t) <= n /\ Len(t) \in Nat
  BY <1>3, <1>8 DEF Inner, n
<1>10. << >> \o t = t
  BY <1>9, ConcatEmptySeq
<1> QED
  BY <1>3, <1>7, <1>8, <1>9, <1>10

LEMMA BaseUnique ==
  ASSUME NEW dims \in Seq(Nat \ {0}), dims # << >>, NEW b \in Bases(dims),
         Split(This.rhs), NoBraces, Nested(dims, b)
  PROVE  b = Base
<1>0. b \in {<< >>, << 1 >>} /\ (b = << >> => ~(Len(dims) > 1 /\ dims[1] = 1))
  <2>1. CASE Len(dims) > 1 /\ dims[1] = 1
    <3>1. b = << 1 >>
      BY <2>1, Zenon DEF Bases
    <3> QED
      BY <3>1
  <2>2. CASE ~(Len(dims) > 1 /\ dims[1] = 1)
    BY <2>2, Zenon DEF Bases
  <2> QED
    BY <2>1, <2>2
<1>1. Local(dims, b)
  BY <1>0, NestedLocal
<1>2. CASE b = << 1 >>
  <2>1. Within(<< >>) = {1} /\ This.rhs[<< 1 >>].k = "group"
    BY <1>1, <1>2 DEF Local
  <2>2. << 1 >> \in DOMAIN This.rhs
    BY <1>2, NestedIs DEF Inside
  <2>3. IsSingleBraceGroup(<< 1 >>)
    BY <2>1, <2>2, PlainGroup
  <2> QED
    BY <1>2, <2>1, <2>3 DEF Base, Braced
<1>3. CASE b = << >>
  <2>1. SUFFICES ASSUME Braced PROVE FALSE
    BY <1>3 DEF Base
  <2>2. Within(<< >>) = {1} /\ This.rhs[<< 1 >>].k = "group"
    BY <2>1 DEF Braced, IsSingleBraceGroup
  <2>3. {1} = 1 .. dims[1]
    BY <1>1, <1>3, <2>2 DEF Local
  <2>4. Len(dims) \in Nat /\ Len(dims) >= 1 /\ 1 \in 1 .. Len(dims)
    OBVIOUS
  <2>5. dims[1] \in Nat \ {0}
    BY <2>4, ElementOfSeq
  <2>6. ~(dims[1] > 1)
    <3> DEFINE y == dims[1]
    <3>1. y \in Nat /\ {1} = 1 .. y
      BY <2>3, <2>5
    <3> HIDE DEF y
    <3>2. ~(y > 1)
      <4>1. y > 1 => 2 \in 1 .. y
        BY <3>1
      <4>2. 2 \notin {1}
        OBVIOUS
      <4> QED
        BY <3>1, <4>1, <4>2
    <3> QED
      BY <3>2 DEF y
  <2>7. Len(dims) = 1
    <3>1. ~(Len(dims) > 1)
      <4>1. dims[1] = 1
        BY <2>5, <2>6
      <4> QED
        BY <1>0, <1>3, <4>1
    <3> DEFINE m == Len(dims)
    <3>2. m \in Nat /\ m >= 1 /\ ~(m > 1)
      BY <2>4, <3>1
    <3> HIDE DEF m
    <3>3. m = 1
      BY <3>2
    <3> QED
      BY <3>3 DEF m
  <2>8. << 1 >> \in Seq(Nat \ {0}) /\ Len(<< 1 >>) = 1 /\ b \o << 1 >> = << 1 >>
    BY <1>3
  <2>9. Inner(dims, << 1 >>)
    <3>2. \A i \in 1 .. 1 : i = 1
      OBVIOUS
    <3>3. 1 <= dims[1]
      BY <2>5
    <3>4. \A i \in 1 .. Len(<< 1 >>) : << 1 >>[i] <= dims[i]
      BY <2>8, <3>2, <3>3
    <3> QED
      BY <2>4, <2>8, <3>4 DEF Inner
  <2>10. ShapedPart(dims, b, << 1 >>)
    BY <1>1, <2>9 DEF Local
  <2>11. ~(Len(<< 1 >>) < Len(dims))
    BY <2>7, <2>8
  <2> QED
    BY <2>2, <2>8, <2>10, <2>11 DEF ShapedPart
<1> QED
  BY <1>0, <1>2, <1>3

-----------------------------------------------------------------------------
(* In an array literal, the parts that have been read are shaped as the    *)
(* dimensions and hold what they mean.                                     *)
Read(t, c) ==
  /\ ShapedPart(Goal.dims, Base, t)
  /\ Len(t) < Len(Goal.dims) => IsSingleBraceGroup(Base \o t)
  /\ Len(t) = Len(Goal.dims) =>
       LET r == PartLeft(This.rhs[Base \o t], Goal.elem) IN r.out = "ok" /\ c[t] = r.v

Located ==
  at # << >> =>
    /\ cells = [p \in Positions(Goal.dims) |-> cells[p]]
    /\ step \in {"operand", "value"} => Part.k = "expr"
    /\ \A t : Inner(Goal.dims, t) /\ Known(t, at) => Read(t, cells)

LEMMA ReadSame ==
  ASSUME scope' = scope, todo' = todo
  PROVE  /\ This' = This /\ Goal' = Goal /\ Base' = Base
         /\ \A t, c : Read(t, c)' <=> Read(t, c)
<1>1. /\ This' = This /\ Goal' = Goal /\ Base' = Base /\ \A p : Within(p)' = Within(p)
      /\ \A p : IsSingleBraceGroup(p)' <=> IsSingleBraceGroup(p)
  BY SameStatement DEF IsSingleBraceGroup
<1>2. \A part, type : PartLeft(part, type)' = PartLeft(part, type)
  BY SameMeaning DEF PartLeft, Left
<1>3. \A dims, b, t : ShapedPart(dims, b, t)' <=> ShapedPart(dims, b, t)
  BY <1>1 DEF ShapedPart
<1>4. \A t, c : Read(t, c)' <=> Read(t, c)
  BY <1>1, <1>2, <1>3 DEF Read
<1> QED
  BY <1>1, <1>4

LEMMA LocatedStay ==
  ASSUME Located, scope' = scope, todo' = todo, at' = at, cells' = cells,
         at # << >> /\ step' \in {"operand", "value"} => Part.k = "expr"
  PROVE  Located'
<1>1. /\ This' = This /\ Goal' = Goal /\ Base' = Base
      /\ \A t, c : Read(t, c)' <=> Read(t, c)
  BY ReadSame
<1>2. Part' = Part
  BY <1>1 DEF Part
<1>3. \A t : Read(t, cells)' <=> Read(t, cells)
  BY <1>1
<1> QED
  BY <1>1, <1>2, <1>3 DEF Located

LEMMA LocatedStop ==
  ASSUME Located, NEW out, Stop(out)
  PROVE  Located'
<1>1. scope' = scope /\ todo' = todo /\ at' = at /\ cells' = cells /\ step' = step
  BY DEF Stop
<1> QED
  BY <1>1, LocatedStay DEF Located

(* What is known of the place where a literal stands.                      *)
LEMMA AtInner ==
  ASSUME ExprInv, at # << >>, step # "part" \/ More
  PROVE  /\ todo # << >> /\ This.form = "assign" /\ Plain /\ Goal.kind = "array"
         /\ Target = Goal.elem /\ ~IsFlags
         /\ Goal.dims \in Seq(Nat \ {0}) /\ Goal.dims # << >> /\ Len(Goal.dims) \in Nat
         /\ at \in Seq(Nat \ {0}) /\ Len(at) \in Nat
         /\ Inner(Goal.dims, at) /\ (step # "part" => Len(at) = Len(Goal.dims))
<1>1. todo # << >> /\ This.form = "assign" /\ Plain /\ Goal.kind = "array"
  BY DEF ExprInv, TodoOk, PlaceOk
<1>2. /\ Goal.dims \in Seq(Nat \ {0}) /\ Len(Goal.dims) >= 1 /\ Target = Goal.elem
  BY <1>1, ThisOk
<1>3. Goal.dims # << >> /\ Len(Goal.dims) \in Nat
  BY <1>2
<1>4. ~IsFlags
  BY <1>1 DEF IsFlags
<1>5. /\ at \in Seq(Nat \ {0}) /\ Len(at) <= Len(Goal.dims)
      /\ \A i \in 1 .. Len(at) - 1 : at[i] <= Goal.dims[i]
      /\ step # "part" => Len(at) = Len(Goal.dims) /\ at[Len(at)] <= Goal.dims[Len(at)]
  BY DEF ExprInv, AtOk
<1>6. Len(at) \in Nat /\ Len(at) >= 1
  BY <1>5
<1>7. at[Len(at)] <= Goal.dims[Len(at)]
  BY <1>5 DEF More
<1>8. \A i \in 1 .. Len(at) : i = Len(at) \/ i \in 1 .. Len(at) - 1
  BY <1>6
<1>9. \A i \in 1 .. Len(at) : at[i] <= Goal.dims[i]
  BY <1>5, <1>7, <1>8
<1>10. Inner(Goal.dims, at)
  BY <1>3, <1>5, <1>6, <1>9 DEF Inner
<1> QED
  BY <1>1, <1>2, <1>3, <1>4, <1>5, <1>6, <1>10

LEMMA PutLocated ==
  ASSUME ExprInv, Located, NEW r, Put(r),
         at # << >> => /\ step # "part" \/ More
                       /\ Len(at) = Len(Goal.dims) /\ Part.k # "group"
                       /\ PartLeft(Part, Goal.elem) = r
  PROVE  Located'
<1>1. CASE r.out # "ok"
  BY <1>1, LocatedStop DEF Put
<1>2. CASE r.out = "ok" /\ at = << >>
  <2>1. at' = << >>
    BY <1>2 DEF Put, Store
  <2> QED
    BY <2>1 DEF Located
<1>3. CASE r.out = "ok" /\ at # << >>
  <2>1. /\ cells' = [cells EXCEPT ![at] = r.v] /\ at' = Following(at) /\ step' = "part"
        /\ scope' = scope /\ todo' = todo
    BY <1>3 DEF Put
  <2>2. /\ This' = This /\ Goal' = Goal /\ Base' = Base
        /\ \A t, c : Read(t, c)' <=> Read(t, c)
    BY <2>1, ReadSame
  <2>3. /\ Goal.dims \in Seq(Nat \ {0}) /\ Goal.dims # << >>
        /\ at \in Seq(Nat \ {0}) /\ Inner(Goal.dims, at) /\ Len(at) = Len(Goal.dims)
        /\ Len(at) \in Nat
    BY <1>3, AtInner
  <2>4. /\ cells = [p \in Positions(Goal.dims) |-> cells[p]]
        /\ \A t : Inner(Goal.dims, t) /\ Known(t, at) => Read(t, cells)
    BY <1>3 DEF Located
  <2>5. at \in Positions(Goal.dims)
    BY <2>3, InnerPositions
  <2>6. /\ cells' = [p \in Positions(Goal.dims) |-> cells'[p]]
        /\ cells'[at] = r.v
        /\ \A t \in Positions(Goal.dims) : t # at => cells'[t] = cells[t]
    BY <2>1, <2>4, <2>5
  <2>7. Read(at, cells')
    <3>1. ShapedPart(Goal.dims, Base, at)
      <4>1. ~(Len(at) < Len(Goal.dims))
        BY <2>3
      <4> QED
        BY <1>3, <4>1 DEF ShapedPart, Part
    <3> QED
      BY <1>3, <2>6, <3>1 DEF Read, Part
  <2>8. ASSUME NEW t, Inner(Goal.dims, t), Known(t, at')
        PROVE  Read(t, cells')
    <3>1. Known(t, Following(at))
      BY <2>1, <2>8
    <3>2. Known(t, at) \/ t = at
      BY <1>3, <2>3, <2>8, <3>1, KnownFollowing
    <3>3. CASE Known(t, at) /\ t # at
      <4>1. Read(t, cells)
        BY <2>4, <2>8, <3>3
      <4>2. Len(t) = Len(Goal.dims) => t \in Positions(Goal.dims)
        BY <2>3, <2>8, InnerPositions
      <4>3. Len(t) = Len(Goal.dims) => cells'[t] = cells[t]
        BY <2>6, <3>3, <4>2
      <4> QED
        BY <4>1, <4>3 DEF Read
    <3> QED
      BY <2>7, <3>2, <3>3
  <2>9. \A t : Inner(Goal.dims, t) /\ Known(t, at') => Read(t, cells)'
    BY <2>2, <2>8
  <2> QED
    BY <2>1, <2>2, <2>6, <2>9 DEF Located
<1> QED
  BY <1>1, <1>2, <1>3

LEMMA ElementLocated ==
  ASSUME ExprInv, Located, NEW part, Element(part),
         at # << >> => More /\ Len(at) = Len(Goal.dims) /\ Part = part
  PROVE  Located'
<1>1. CASE part.k = "text"
  <2> DEFINE r == CheckStringLength(String_(part.bytes), Target)
  <2>1. Put(r)
    BY <1>1 DEF Element
  <2>2. at # << >> => Target = Goal.elem
    BY AtInner
  <2>3. at # << >> => PartLeft(Part, Goal.elem) = r /\ Part.k # "group"
    BY <1>1, <2>2 DEF PartLeft
  <2> HIDE DEF r
  <2> QED
    BY <2>1, <2>3, PutLocated
<1>2. CASE part.k = "expr"
  <2>1. scope' = scope /\ todo' = todo /\ at' = at /\ cells' = cells
    BY <1>2 DEF Element, Evaluate
  <2> QED
    BY <1>2, <2>1, LocatedStay
<1>3. CASE part.k \notin {"text", "expr"}
  <2>1. Stop("error")
    BY <1>3 DEF Element
  <2> QED
    BY <2>1, LocatedStop
<1> QED
  BY <1>1, <1>2, <1>3

LEMMA OpenLiteralLocated == ExprInv /\ Located /\ OpenLiteral => Located'
<1> SUFFICES ASSUME ExprInv, Located, OpenLiteral PROVE Located'
  OBVIOUS
<1>1. CASE Stop("error")
  BY <1>1, LocatedStop
<1>2. CASE ~Stop("error")
  <2>1. /\ at' = << 1 >> /\ step' = "part" /\ cells' = [p \in Positions(Goal.dims) |-> Uninit]
        /\ scope' = scope /\ todo' = todo
    BY <1>2 DEF OpenLiteral
  <2>2. Goal' = Goal
    BY <2>1, ReadSame
  <2>3. \A t : Inner(Goal'.dims, t) => ~Known(t, at')
    BY <2>1, KnownFirst
  <2>4. cells' = [p \in Positions(Goal.dims) |-> cells'[p]]
    BY <2>1
  <2> QED
    BY <2>1, <2>2, <2>3, <2>4 DEF Located
<1> QED
  BY <1>1, <1>2

LEMMA OpenGroupLocated == ExprInv /\ Located /\ OpenGroup => Located'
<1> SUFFICES ASSUME ExprInv, Located, OpenGroup PROVE Located'
  OBVIOUS
<1>1. InPart /\ More /\ Len(at) < Len(Goal.dims) /\ at # << >> /\ step = "part"
  BY InPartFacts DEF OpenGroup, InPart
<1>2. CASE Stop("error")
  BY <1>2, LocatedStop
<1>3. CASE ~Stop("error")
  <2>1. /\ IsSingleBraceGroup(Base \o at) /\ Within(Base \o at) = 1 .. Goal.dims[Len(at) + 1]
        /\ at' = Append(at, 1) /\ scope' = scope /\ todo' = todo /\ step' = step /\ cells' = cells
    BY <1>3 DEF OpenGroup
  <2>2. /\ This' = This /\ Goal' = Goal /\ Base' = Base
        /\ \A t, c : Read(t, c)' <=> Read(t, c)
    BY <2>1, ReadSame
  <2>3. at \in Seq(Nat \ {0}) /\ Inner(Goal.dims, at) /\ Len(at) \in Nat /\ Len(Goal.dims) \in Nat
    BY <1>1, AtInner
  <2>4. Read(at, cells)
    <3>1. Len(at) # Len(Goal.dims)
      BY <1>1, <2>3
    <3> QED
      BY <1>1, <2>1, <3>1 DEF Read, ShapedPart, IsSingleBraceGroup
  <2>5. ASSUME NEW t, Inner(Goal.dims, t), Known(t, at') PROVE Read(t, cells)
    <3>1. Known(t, at) \/ t = at
      BY <2>1, <2>3, <2>5, KnownAppend
    <3> QED
      BY <1>1, <2>4, <2>5, <3>1 DEF Located
  <2>6. \A t : Inner(Goal.dims, t) /\ Known(t, at') => Read(t, cells)'
    BY <2>1, <2>2, <2>5
  <2>7. cells = [p \in Positions(Goal.dims) |-> cells[p]]
    BY <1>1 DEF Located
  <2> QED
    BY <1>1, <2>1, <2>2, <2>6, <2>7 DEF Located
<1> QED
  BY <1>2, <1>3

LEMMA ParseElementLocated == ExprInv /\ Located /\ ParseElement => Located'
<1> SUFFICES ASSUME ExprInv, Located, ParseElement PROVE Located'
  OBVIOUS
<1>1. More /\ Len(at) = Len(Goal.dims) /\ Element(Part)
  BY DEF ParseElement
<1> QED
  BY <1>1, ElementLocated

LEMMA CloseGroupLocated == ExprInv /\ Located /\ CloseGroup => Located'
<1> SUFFICES ASSUME ExprInv, Located, CloseGroup PROVE Located'
  OBVIOUS
<1>1. InPart /\ ~More /\ step = "part"
  BY DEF CloseGroup, InPart
<1>2. /\ at # << >> /\ at \in Seq(Nat \ {0}) /\ Len(at) \in 1 .. Len(Goal.dims)
      /\ Goal.dims \in Seq(Nat \ {0}) /\ Len(Goal.dims) \in Nat /\ Len(at) \in Nat
  BY <1>1, InPartFacts
<1>3. CASE Len(at) = 1
  <2>1. at' = << >>
    BY <1>3 DEF CloseGroup, Store
  <2> QED
    BY <2>1 DEF Located
<1>4. CASE Len(at) # 1
  <2>1. /\ at' = Following(Front(at))
        /\ scope' = scope /\ todo' = todo /\ step' = step /\ cells' = cells
    BY <1>4 DEF CloseGroup
  <2>2. /\ This' = This /\ Goal' = Goal /\ Base' = Base
        /\ \A t, c : Read(t, c)' <=> Read(t, c)
    BY <2>1, ReadSame
  <2>3. at[Len(at)] > Goal.dims[Len(at)]
    <3> DEFINE x == at[Len(at)]
               y == Goal.dims[Len(at)]
    <3>1. x \in Nat /\ y \in Nat
      <4>1. Len(at) \in 1 .. Len(at)
        BY <1>2
      <4> QED
        BY <1>2, <4>1, ElementOfSeq
    <3>2. ~(x <= y)
      BY <1>1 DEF More
    <3> HIDE DEF x, y
    <3>3. x > y
      BY <3>1, <3>2
    <3> QED
      BY <3>3 DEF x, y
  <2>4. Len(at) >= 2 /\ Len(at) <= Len(Goal.dims)
    <3> DEFINE n == Len(at)
    <3>1. n \in 1 .. Len(Goal.dims) /\ Len(Goal.dims) \in Nat /\ n # 1
      BY <1>2, <1>4
    <3> HIDE DEF n
    <3>2. n >= 2 /\ n <= Len(Goal.dims)
      BY <3>1
    <3> QED
      BY <3>2 DEF n
  <2>5. ASSUME NEW t, Inner(Goal.dims, t), Known(t, at') PROVE Read(t, cells)
    <3>1. Known(t, at)
      BY <1>2, <2>1, <2>3, <2>4, <2>5, KnownClosed
    <3> QED
      BY <1>2, <2>5, <3>1 DEF Located
  <2>6. \A t : Inner(Goal.dims, t) /\ Known(t, at') => Read(t, cells)'
    BY <2>1, <2>2, <2>5
  <2>7. cells = [p \in Positions(Goal.dims) |-> cells[p]]
    BY <1>2 DEF Located
  <2> QED
    BY <1>1, <2>1, <2>2, <2>6, <2>7 DEF Located
<1> QED
  BY <1>3, <1>4

(* What an expression means that is a part of a literal.                   *)
LEMMA PartMeant ==
  ASSUME ExprInv, Located, at # << >>, step \in {"operand", "value"}
  PROVE  /\ Part.k = "expr" /\ AllTokens = Part.tokens
         /\ LET r == Meant(AllTokens, IsFlags) IN
            PartLeft(Part, Goal.elem) = IF r.out = "ok" THEN Storable(r.v, Target) ELSE r
<1>1. Part.k = "expr" /\ AllTokens = Part.tokens
  BY DEF Located, AllTokens
<1>2. Target = Goal.elem /\ IsFlags = FALSE
  BY AtInner DEF IsFlags
<1>3. PartLeft(Part, Goal.elem) = Left(AllTokens, IsFlags, Target)
  BY <1>1, <1>2 DEF PartLeft
<1> QED
  BY <1>1, <1>3 DEF Left

LEMMA EndExprLocated == ExprInv /\ Traced /\ Located /\ EndExpr => Located'
<1> SUFFICES ASSUME ExprInv, Traced, Located, EndExpr PROVE Located'
  OBVIOUS
<1> DEFINE x == Meant(AllTokens, IsFlags)
           r == Storable(value, Target)
<1>1. /\ step = "value"
      /\ \/ x.out # "ok" /\ Stop("error")
         \/ x.out = "ok" /\ x.v = value /\ Put(r)
  BY EndExprMeant
<1>2. CASE Stop("error")
  BY <1>2, LocatedStop
<1>3. CASE x.out = "ok" /\ x.v = value /\ Put(r)
  <2>1. at # << >> => Part.k # "group" /\ PartLeft(Part, Goal.elem) = r
    BY <1>1, <1>3, PartMeant
  <2>2. at # << >> => Len(at) = Len(Goal.dims) /\ step # "part"
    BY <1>1, AtInner
  <2> HIDE DEF r, x
  <2> QED
    BY <1>3, <2>1, <2>2, PutLocated
<1> QED
  BY <1>1, <1>2, <1>3

LEMMA BeginLocated ==
  ExprInv /\ Located /\ (ApplyAssign \/ ApplyArrayElementAssign \/ ApplyOp) => Located'
<1> SUFFICES ASSUME ExprInv, Located, ApplyAssign \/ ApplyArrayElementAssign \/ ApplyOp
             PROVE  Located'
  OBVIOUS
<1>1. step = "next" /\ at = << >>
  BY AtStart DEF ApplyAssign, ApplyArrayElementAssign, ApplyOp, Begins
<1>2. CASE Stop("error")
  BY <1>2, LocatedStop
<1>3. CASE Element(This.rhs[<< 1 >>])
  BY <1>1, <1>3, ElementLocated
<1>4. CASE ApplyOp /\ ~Stop("error")
  <2>1. at' = at
    BY <1>4 DEF ApplyOp, Evaluate
  <2> QED
    BY <1>1, <2>1 DEF Located
<1> QED
  BY <1>2, <1>3, <1>4 DEF ApplyAssign, ApplyArrayElementAssign

LEMMA ReadingLocated ==
  ExprInv /\ Located /\ (ReadSign \/ ReadAtom \/ NoOperand \/ Apply \/ TakeOperator \/ CloseParen)
    => Located'
<1> SUFFICES ASSUME ExprInv, Located,
                    ReadSign \/ ReadAtom \/ NoOperand \/ Apply \/ TakeOperator \/ CloseParen
             PROVE  Located'
  OBVIOUS
<1>1. step \in {"operand", "value"}
  BY DEF ReadSign, ReadAtom, NoOperand, Apply, TakeOperator, CloseParen,
         AtOperand, InFoldLeft, AtValue
<1>2. scope' = scope /\ todo' = todo /\ at' = at /\ cells' = cells
  BY DEF ReadSign, ReadAtom, NoOperand, Apply, TakeOperator, CloseParen, Stop
<1>3. at # << >> => Part.k = "expr"
  BY <1>1 DEF Located
<1> QED
  BY <1>2, <1>3, LocatedStay

LEMMA LocatedNext == ExprInv /\ Traced /\ Located /\ [ExprNext]_exprVars => Located'
<1> SUFFICES ASSUME ExprInv, Traced, Located, [ExprNext]_exprVars PROVE Located'
  OBVIOUS
<1>1. CASE UNCHANGED exprVars
  <2>1. scope' = scope /\ todo' = todo /\ at' = at /\ cells' = cells /\ step' = step
    BY <1>1 DEF exprVars
  <2> QED
    BY <2>1, LocatedStay DEF Located
<1>2. CASE ExprStops
  BY <1>1, <1>2 DEF ExprStops
<1> QED
  BY <1>1, <1>2, BeginLocated, OpenLiteralLocated, OpenGroupLocated, ParseElementLocated,
     CloseGroupLocated, ReadingLocated, EndExprLocated DEF ExprNext

LEMMA LocatedInit == ExprInit => Located
BY DEF ExprInit, Located

-----------------------------------------------------------------------------
(* Where a literal ends, it is taken as its text says.                     *)
AsWritten ==
  LET taken == {base \in Bases(Goal.dims) : Literal(Goal.dims, Goal.elem, base)} IN
  /\ verdict' = "run" => taken # {}
  /\ taken # {} /\ NoBraces => verdict' = "run"
  /\ verdict' = "run" => \A base \in taken :
       scope'[<<This.field>>] =
         [k |-> "array", cells |-> [p \in Positions(Goal.dims) |->
                                      PartLeft(This.rhs[base \o p], Goal.elem).v]]
IsLiteral == This.form = "assign" /\ Plain /\ Goal.kind = "array"

LEMMA LiteralFacts ==
  ASSUME ExprInv, todo # << >>, IsLiteral
  PROVE  /\ Goal.dims \in Seq(Nat \ {0}) /\ Goal.dims # << >> /\ Split(This.rhs)
         /\ Goal = Type[This.field]
<1>1. Goal.kind = "array"
  BY DEF IsLiteral
<1>2. /\ Goal.dims \in Seq(Nat \ {0}) /\ Len(Goal.dims) >= 1 /\ StatementOk(This)
      /\ Goal = Type[This.field]
  BY <1>1, ThisOk
<1> QED
  BY <1>2 DEF StatementOk

(* A literal without braces in strings has the base that the code finds.   *)
LEMMA TakenBase ==
  ASSUME ExprInv, todo # << >>, IsLiteral, NoBraces
  PROVE  \A base \in Bases(Goal.dims) : Literal(Goal.dims, Goal.elem, base) => base = Base
<1>1. Goal.dims \in Seq(Nat \ {0}) /\ Goal.dims # << >> /\ Split(This.rhs)
  BY LiteralFacts
<1> QED
  BY <1>1, BaseUnique DEF Literal

LEMMA Refused ==
  ASSUME ExprInv, todo # << >>, IsLiteral, verdict' # "run",
         NoBraces => ~Literal(Goal.dims, Goal.elem, Base)
  PROVE  AsWritten
<1>1. NoBraces => \A base \in Bases(Goal.dims) : ~Literal(Goal.dims, Goal.elem, base)
  BY TakenBase
<1> QED
  BY <1>1 DEF AsWritten

(* A part that does not nest, or that cannot be stored.                    *)
LEMMA PartRefused ==
  ASSUME ExprInv, todo # << >>, IsLiteral, verdict' # "run",
         NEW t, Inner(Goal.dims, t),
         \/ NoBraces => ~ShapedPart(Goal.dims, Base, t)
         \/ Len(t) = Len(Goal.dims) /\ PartLeft(This.rhs[Base \o t], Goal.elem).out # "ok"
  PROVE  AsWritten
<1>1. Goal.dims \in Seq(Nat \ {0}) /\ Goal.dims # << >> /\ Split(This.rhs)
  BY LiteralFacts
<1>2. Base \in {<< >>, << 1 >>}
  BY DEF Base
<1>3. SUFFICES ASSUME NoBraces, Literal(Goal.dims, Goal.elem, Base) PROVE FALSE
  BY Refused
<1>4. Local(Goal.dims, Base)
  BY <1>1, <1>2, <1>3, NestedLocal DEF Literal
<1>5. ShapedPart(Goal.dims, Base, t)
  BY <1>4 DEF Local
<1>6. Len(t) = Len(Goal.dims) => t \in Positions(Goal.dims)
  BY <1>1, InnerPositions
<1> QED
  BY <1>3, <1>5, <1>6 DEF Literal

LEMMA BeginAsWritten ==
  ASSUME ExprInv, Ends, IsLiteral, ApplyAssign \/ ApplyArrayElementAssign \/ ApplyOp \/ OpenLiteral
  PROVE  AsWritten
<1>1. /\ This.form = "assign" /\ Plain /\ Goal.kind = "array" /\ todo # << >>
  BY DEF IsLiteral, Ends
<1>2. ~ApplyAssign /\ ~ApplyArrayElementAssign
  BY <1>1 DEF ApplyAssign, ApplyArrayElementAssign
<1>3. ~ApplyOp
  BY <1>1 DEF ApplyOp, Begins, Operators, Arithmetic, Bitwise_
<1>4. Within(Base) # 1 .. Goal.dims[1] /\ verdict' = "error"
  BY <1>2, <1>3 DEF OpenLiteral, Ends, Stop
<1>5. Base \in {<< >>, << 1 >>}
  BY DEF Base
<1>6. SUFFICES ASSUME Literal(Goal.dims, Goal.elem, Base) PROVE FALSE
  BY <1>1, <1>4, Refused
<1>7. Local(Goal.dims, Base)
  BY <1>1, <1>5, <1>6, LiteralFacts, NestedLocal DEF Literal
<1> QED
  BY <1>4, <1>7 DEF Local

LEMMA OpenGroupAsWritten ==
  ASSUME ExprInv, Ends, IsLiteral, OpenGroup
  PROVE  AsWritten
<1>1. InPart /\ More /\ Len(at) < Len(Goal.dims) /\ at # << >> /\ todo # << >>
  BY InPartFacts DEF OpenGroup
<1>2. /\ ~(IsSingleBraceGroup(Base \o at) /\ Within(Base \o at) = 1 .. Goal.dims[Len(at) + 1])
      /\ verdict' = "error"
  BY DEF OpenGroup, Ends, Stop
<1>3. Inner(Goal.dims, at)
  BY <1>1, AtInner
<1>4. ASSUME NoBraces PROVE ~ShapedPart(Goal.dims, Base, at)
  <2>1. Base \o at \in DOMAIN This.rhs /\ Split(This.rhs)
    BY <1>1, PartThere, LiteralFacts
  <2>2. This.rhs[Base \o at].k = "group" => IsSingleBraceGroup(Base \o at)
    BY <1>4, <2>1, PlainGroup
  <2> QED
    BY <1>1, <1>2, <2>2 DEF ShapedPart
<1> QED
  BY <1>1, <1>2, <1>3, <1>4, PartRefused

(* A part of a literal that is stored is not its end.                      *)
LEMMA PutAsWritten ==
  ASSUME ExprInv, Ends, IsLiteral, at # << >>, step # "part" \/ More, Len(at) = Len(Goal.dims),
         NEW r, Put(r), PartLeft(Part, Goal.elem) = r, Outcome(r)
  PROVE  AsWritten
<1>1. r.out # "ok" /\ verdict' = r.out
  BY DEF Put, Ends, Stop
<1>2. verdict' # "run"
  BY <1>1 DEF Outcome
<1>3. Inner(Goal.dims, at) /\ todo # << >>
  BY AtInner
<1>4. PartLeft(This.rhs[Base \o at], Goal.elem).out # "ok"
  BY <1>1 DEF Part
<1> QED
  BY <1>2, <1>3, <1>4, PartRefused

LEMMA ParseElementAsWritten ==
  ASSUME ExprInv, Ends, IsLiteral, ParseElement
  PROVE  AsWritten
<1>1. InPart /\ More /\ Len(at) = Len(Goal.dims) /\ Element(Part) /\ at # << >> /\ todo # << >>
  BY InPartFacts DEF ParseElement
<1>2. Target = Goal.elem /\ Inner(Goal.dims, at) /\ Len(at) \in Nat
  BY <1>1, AtInner
<1>3. CASE Part.k = "text"
  <2> DEFINE r == CheckStringLength(String_(Part.bytes), Target)
  <2>1. Put(r) /\ PartLeft(Part, Goal.elem) = r
    BY <1>1, <1>2, <1>3 DEF Element, PartLeft
  <2>2. Outcome(r)
    BY DEF CheckStringLength, Yields, Fails, Outcome
  <2> HIDE DEF r
  <2> QED
    BY <1>1, <2>1, <2>2, PutAsWritten
<1>4. CASE Part.k = "expr"
  BY <1>1, <1>4 DEF Element, Evaluate, Ends
<1>5. CASE Part.k \notin {"text", "expr"}
  <2>1. verdict' = "error"
    BY <1>1, <1>5 DEF Element, Stop
  <2>2. Base \o at \in DOMAIN This.rhs
    BY <1>1, PartThere
  <2>3. Part.k = "group"
    BY <1>1, <1>5, <2>2, LiteralFacts DEF Split, Part
  <2>4. ~ShapedPart(Goal.dims, Base, at)
    <3>1. ~(Len(at) < Len(Goal.dims))
      BY <1>1, <1>2
    <3> QED
      BY <2>3, <3>1 DEF ShapedPart, Part
  <2> QED
    BY <1>1, <1>2, <2>1, <2>4, PartRefused
<1> QED
  BY <1>3, <1>4, <1>5

(* An expression that is read for a literal is one of its parts.           *)
LEMMA ReadInPart ==
  ASSUME ExprInv, IsLiteral, step \in {"operand", "value"}
  PROVE  at # << >> /\ todo # << >> /\ Inner(Goal.dims, at) /\ Len(at) = Len(Goal.dims)
<1>1. at # << >>
  BY DEF ExprInv, PlaceOk, IsLiteral
<1> QED
  BY <1>1, AtInner

LEMMA ReadingAsWritten ==
  ASSUME ExprInv, Traced, Located, Ends, IsLiteral, ReadAtom \/ NoOperand \/ Apply \/ CloseParen
  PROVE  AsWritten
<1>1. Meant(AllTokens, IsFlags).out # "ok" /\ verdict' # "run" /\ step \in {"operand", "value"}
  BY ReadingFails
<1>2. at # << >> /\ todo # << >> /\ Inner(Goal.dims, at) /\ Len(at) = Len(Goal.dims)
  BY <1>1, ReadInPart
<1>3. PartLeft(This.rhs[Base \o at], Goal.elem).out # "ok"
  BY <1>1, <1>2, PartMeant DEF Part
<1> QED
  BY <1>1, <1>2, <1>3, PartRefused

LEMMA EndExprAsWritten ==
  ASSUME ExprInv, Traced, Located, Ends, IsLiteral, EndExpr
  PROVE  AsWritten
<1> DEFINE x == Meant(AllTokens, IsFlags)
           r == Storable(value, Target)
<1>1. /\ step = "value"
      /\ \/ x.out # "ok" /\ Stop("error")
         \/ x.out = "ok" /\ x.v = value /\ Put(r)
  BY EndExprMeant
<1>2. at # << >> /\ todo # << >> /\ Inner(Goal.dims, at) /\ Len(at) = Len(Goal.dims)
  BY <1>1, ReadInPart
<1>3. PartLeft(Part, Goal.elem) = IF x.out = "ok" THEN Storable(x.v, Target) ELSE x
  BY <1>1, <1>2, PartMeant
<1>4. CASE x.out # "ok" /\ Stop("error")
  <2>1. PartLeft(This.rhs[Base \o at], Goal.elem).out # "ok"
    BY <1>3, <1>4 DEF Part
  <2>2. verdict' # "run"
    BY <1>4 DEF Stop
  <2> QED
    BY <1>2, <2>1, <2>2, PartRefused
<1>5. CASE x.out = "ok" /\ x.v = value /\ Put(r)
  <2>1. PartLeft(Part, Goal.elem) = r /\ Put(r)
    BY <1>3, <1>5
  <2>2. Outcome(r)
    BY Outcomes
  <2> HIDE DEF r
  <2> QED
    BY <1>1, <1>2, <2>1, <2>2, PutAsWritten
<1> QED
  BY <1>1, <1>4, <1>5

(* The last brace: every part has been read.                               *)
LEMMA CloseGroupAsWritten ==
  ASSUME ExprInv, Located, Ends, IsLiteral, CloseGroup
  PROVE  AsWritten
<1> DEFINE dims == Goal.dims
           elem == Goal.elem
           v == [k |-> "array", cells |-> cells]
           Left1(p) == PartLeft(This.rhs[Base \o p], elem)
<1>1. InPart /\ ~More /\ Len(at) = 1 /\ Store(v) /\ verdict = "run"
  BY DEF CloseGroup, Ends, InPart
<1>2. /\ at # << >> /\ at \in Seq(Nat \ {0}) /\ dims \in Seq(Nat \ {0}) /\ dims # << >>
      /\ todo # << >> /\ Plain /\ Goal.kind = "array" /\ Split(This.rhs)
  BY <1>1, InPartFacts, LiteralFacts
<1>3. at[1] > dims[1]
  <2> DEFINE x == at[1]
             y == dims[1]
  <2>1. x \in Nat /\ y \in Nat
    <3>1. 1 \in 1 .. Len(at) /\ 1 \in 1 .. Len(dims)
      BY <1>2
    <3> QED
      BY <1>2, <3>1, ElementOfSeq
  <2>2. ~(x <= y)
    BY <1>1 DEF More
  <2> HIDE DEF x, y
  <2>3. x > y
    BY <2>1, <2>2
  <2> QED
    BY <2>3 DEF x, y
<1>4. ASSUME NEW t, Inner(dims, t) PROVE Read(t, cells)
  <2>1. Known(t, at)
    BY <1>1, <1>2, <1>3, <1>4, KnownAll
  <2> QED
    BY <1>2, <1>4, <2>1 DEF Located
<1>5. Base \in {<< >>, << 1 >>}
  BY DEF Base
<1>6. Local(dims, Base)
  <2>1. Within(Base \o SubSeq(at, 1, 1 - 1)) = 1 .. dims[1]
    <3>1. 1 \in 1 .. Len(at)
      BY <1>1
    <3> QED
      BY <1>2, <3>1 DEF ExprInv, AtOk
  <2>2. SubSeq(at, 1, 1 - 1) = << >>
    BY SubSeqEmpty
  <2>3. Base \o << >> = Base
    BY <1>5, BaseFacts
  <2>4. Within(Base) = 1 .. dims[1]
    BY <2>1, <2>2, <2>3
  <2>5. Base = << 1 >> => Within(<< >>) = {1} /\ This.rhs[<< 1 >>].k = "group"
    BY DEF Base, Braced, IsSingleBraceGroup
  <2>6. \A t : Inner(dims, t) => ShapedPart(dims, Base, t)
    BY <1>4 DEF Read
  <2> QED
    BY <2>4, <2>5, <2>6 DEF Local
<1>7. \A p \in Positions(dims) : Left1(p).out = "ok" /\ cells[p] = Left1(p).v
  <2>1. TAKE p \in Positions(dims)
  <2>2. Inner(dims, p) /\ Len(p) = Len(dims)
    BY <1>2, InnerPositions
  <2> QED
    BY <1>4, <2>2 DEF Read
<1>8. Literal(dims, elem, Base)
  BY <1>2, <1>5, <1>6, <1>7, LocalNested DEF Literal
<1>9. cells = [p \in Positions(dims) |-> Left1(p).v]
  <2>1. cells = [p \in Positions(dims) |-> cells[p]]
    BY <1>2 DEF Located
  <2> HIDE DEF Left1
  <2> QED
    BY <1>7, <2>1
<1>10. scope'[<<This.field>>] = v
  <2>1. /\ v.k = "array" /\ v.cells = cells /\ v = [k |-> "array", cells |-> v.cells]
    OBVIOUS
  <2>2. /\ DOMAIN cells = Positions(Goal.dims)
        /\ \A p \in DOMAIN cells : Holds(cells[p], Goal.elem) /\ Sound(cells[p])
    BY <1>2 DEF ExprInv, CellsOk
  <2>3. scope' = [scope EXCEPT ![<<This.field>>] =
                 IF Plain THEN v ELSE [@ EXCEPT !.cells[<<This.index[1] + 1>>] = v]]
    BY <1>1 DEF Store
  <2> HIDE DEF v
  <2>4. Sound(v) /\ Fits(v, Goal) /\ \A p \in DOMAIN v.cells : Sound(v.cells[p])
    BY <1>2, <2>1, <2>2 DEF Sound, Fits
  <2> QED
    BY <1>2, <2>3, <2>4, StoreScope
<1>11. verdict' = "run"
  BY <1>1 DEF Store
<1>12. \A base \in {<< >>, << 1 >>} : Literal(dims, elem, base) => base = Base
  BY <1>2, <1>5, <1>8, OneBase DEF Literal
<1>13. Base \in Bases(dims)
  <2>1. SUFFICES ASSUME Len(dims) > 1, dims[1] = 1, Base = << >> PROVE FALSE
    BY <1>5, Zenon DEF Bases
  <2>2. Within(<< >>) = {1}
    BY <1>6, <2>1 DEF Local
  <2>3. IsSingleBraceGroup(<< 1 >>)
    <3>1. /\ Inner(dims, << 1 >>) /\ Len(<< 1 >>) = 1 /\ Base \o << 1 >> = << 1 >>
      <4>1. << 1 >> \in Seq(Nat \ {0}) /\ Len(<< 1 >>) = 1 /\ << 1 >>[1] = 1
        OBVIOUS
      <4>2. \A i \in 1 .. 1 : i = 1
        OBVIOUS
      <4>3. \A i \in 1 .. Len(<< 1 >>) : << 1 >>[i] <= dims[i]
        BY <2>1, <4>1, <4>2
      <4>4. Len(dims) \in Nat /\ Len(dims) >= 1 /\ << >> \o << 1 >> = << 1 >>
        BY <1>2
      <4> QED
        BY <2>1, <4>1, <4>3, <4>4 DEF Inner
    <3> QED
      BY <1>4, <2>1, <3>1 DEF Read
  <2> QED
    BY <2>1, <2>2, <2>3 DEF Base, Braced
<1> DEFINE taken == {base \in Bases(dims) : Literal(dims, elem, base)}
<1>14. taken = {Base}
  BY <1>8, <1>12, <1>13 DEF Bases
<1> HIDE DEF taken
<1>15. /\ taken # {}
       /\ \A base \in taken :
            scope'[<<This.field>>] =
              [k |-> "array", cells |-> [p \in Positions(dims) |->
                                           PartLeft(This.rhs[base \o p], elem).v]]
  BY <1>9, <1>10, <1>14
<1> QED
  BY <1>11, <1>15 DEF AsWritten, taken

LEMMA NextAsWritten ==
  ASSUME ExprInv, Traced, Located, [ExprNext]_exprVars, Ends, IsLiteral
  PROVE  AsWritten
<1>1. CASE UNCHANGED exprVars \/ ReadSign \/ TakeOperator \/ ExprStops
  BY <1>1 DEF Ends, exprVars, ReadSign, TakeOperator, ExprStops
<1> QED
  BY <1>1, BeginAsWritten, OpenGroupAsWritten, ParseElementAsWritten, CloseGroupAsWritten,
     ReadingAsWritten, EndExprAsWritten DEF ExprNext

(* Of any text and any number of dimensions: a literal is taken only when   *)
(* its parts nest as the dimensions and each can be stored, always then     *)
(* when no string in it holds a brace, and its value then holds each part   *)
(* at its place.  _parse_array_group has, wherever it stands, checked the   *)
(* shape of what it has read and of what is around it, and stored what each *)
(* expression of it means (LeftToRightHolds).                               *)
THEOREM ShapeExactHolds == ExprSpec => ShapeExact
<1> DEFINE Inv == ExprInv /\ Traced /\ Located
<1>1. ExprInit => Inv
  BY ExprInitInv, TracedInit, LocatedInit
<1>2. Inv /\ [ExprNext]_exprVars => Inv'
  BY ExprNextInv, TracedNext, LocatedNext
<1>3. Inv /\ [ExprNext]_exprVars =>
        [Ends /\ This.form = "assign" /\ Plain /\ Goal.kind = "array" =>
           LET taken == {base \in Bases(Goal.dims) : Literal(Goal.dims, Goal.elem, base)} IN
           /\ verdict' = "run" => taken # {}
           /\ taken # {} /\ NoBraces => verdict' = "run"
           /\ verdict' = "run" => \A base \in taken :
                scope'[<<This.field>>] =
                  [k |-> "array", cells |-> [p \in Positions(Goal.dims) |->
                                               PartLeft(This.rhs[base \o p], Goal.elem).v]]
        ]_exprVars
  BY NextAsWritten DEF AsWritten, IsLiteral
<1> QED
  BY <1>1, <1>2, <1>3, PTL DEF ExprSpec, ShapeExact
=============================================================================
