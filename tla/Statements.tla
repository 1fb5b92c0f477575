------------------------------ MODULE Statements ------------------------------
(***************************************************************************)
(* The statements of one instance body, checked by phase 5 (run_phase5:    *)
(* the field_shape walk, then the domain_typing walk) and executed by      *)
(* phase 6 (Resolver._apply_statements), which checks most of it again.    *)
(* Values are kept as their kinds.  Instances are copied to fields of      *)
(* their own type and are complete; FieldStore is about those that are not *)
(* and about sharing.                                                      *)
(***************************************************************************)
EXTENDS Naturals, Sequences, SequencesExt

CONSTANTS Struct, Domain, Field,
          FieldType,  \* FieldType[t][f]: "none", "scalar", "list", or in
                      \* Struct or Domain
          Root,       \* the type of the instance
          Bodies,     \* the bodies to consider
          Depth       \* statements nest at most so deep in them

ASSUME TypesAssumption ==
  /\ Root \in Struct
  /\ (Struct \cup Domain) \cap {"none", "scalar", "list", "struct"} = {}
  /\ \A t \in Struct, f \in Field :
       FieldType[t][f] \in {"none", "scalar", "list"} \cup Struct \cup Domain

(* A statement: op, "assign", "op", "bare" or "raw" (no shape the parser   *)
(* knows); the field it is for; index, whether an element of it; and rhs,  *)
(* the right side.  The form of a right side is "literal" (an expression   *)
(* over numbers), "list" (an array literal), "instance", "member" or       *)
(* "unknown" (Domain.member, known or not), or "name" (of a field).  A     *)
(* flags field is a scalar.                                                *)
Rhs == [form : {"literal", "list", "instance"}]
         \cup [form : {"member", "unknown"}, domain : Domain]
         \cup [form : {"name"}, field : Field]
Statement ==
  [op : {"assign", "op", "bare", "raw"}, field : Field, index : BOOLEAN, rhs : Rhs]

(* A body is a tree, the statements by position: those below the one at p  *)
(* are at Append(p, 1), Append(p, 2) and so on.                            *)
ASSUME BodiesAssumption ==
  /\ Depth \in Nat
  /\ \A b \in Bodies :
       /\ b \in [DOMAIN b -> Statement]
       /\ \A p \in DOMAIN b :
            /\ p \in Seq(Nat \ {0}) /\ Len(p) \in 1 .. Depth
            /\ \A n \in 1 .. Len(p) : \A k \in 1 .. p[n] :
                 Append(SubSeq(p, 1, n - 1), k) \in DOMAIN b
            /\ Append(p, 1) \in DOMAIN b => b[p].op \in {"assign", "bare"}
            /\ b[p].op = "bare" => ~b[p].index

VARIABLES body,
          phase,   \* "shape", "typing", "apply", "cached" or "refused"
          frames,  \* the statement lists being walked, outermost first
          values,  \* values[path]: the kind of value a field holds
          fault    \* <<phase, position>> of the error, << >> if none

vars == <<body, phase, frames, values, fault>>

(* field_category of field f of type t. *)
Category(t, f) ==
  LET type == FieldType[t][f]
  IN  IF type \in Struct THEN "struct"
      ELSE IF type \in Domain THEN "identifier" ELSE type

(* The kind of value that a field of a complete instance holds. *)
KindOf(t, f) ==
  CASE Category(t, f) = "none"       -> "unset"
    [] Category(t, f) = "scalar"     -> "num"
    [] Category(t, f) = "identifier" -> FieldType[t][f]
    [] OTHER                         -> Category(t, f)

(* The types of the scopes entered from the instance through the fields of *)
(* a path, its own first: one sequence, or none if a field is no struct.   *)
Scopes(path) ==
  {s \in [1 .. Len(path) + 1 -> Struct] :
     /\ s[1] = Root
     /\ \A k \in 1 .. Len(path) : s[k + 1] = FieldType[s[k]][path[k]]}

(* The fields of the instance and of the structs below it, and the type of *)
(* the scope a field is in.                                                *)
Paths == {p \in UNION {[1 .. n -> Field] : n \in 1 .. Depth} : Scopes(Front(p)) # {}}
ScopeType(p) == CHOOSE t \in Struct : \E s \in Scopes(Front(p)) : s[Len(p)] = t

(* The statements below position "at", in the scope of a type and a path.  *)
List(at, type, path) == [at |-> at, next |-> 1, type |-> type, path |-> path]
Whole == <<List(<< >>, Root, << >>)>>

Init ==
  /\ body \in Bodies
  /\ phase = "shape"
  /\ frames = Whole
  /\ values = [p \in Paths |-> "unset"]
  /\ fault = << >>

Walk == Last(frames)
Here == Append(Walk.at, Walk.next)
AtStmt(p) == phase = p /\ frames # << >> /\ Here \in DOMAIN body
Stmt == body[Here]
HasChildren(p) == Append(p, 1) \in DOMAIN body
Cat == Category(Walk.type, Stmt.field)
FieldPath == Append(Walk.path, Stmt.field)

Rest == [frames EXCEPT ![Len(frames)].next = @ + 1]
Below == List(Here, FieldType[Walk.type][Stmt.field], FieldPath)

Refuse(p) ==
  /\ phase' = "refused"
  /\ fault' = <<p, Here>>
  /\ frames' = << >>
  /\ UNCHANGED <<body, values>>

Advance == frames' = Rest /\ UNCHANGED <<body, phase, values, fault>>
Descend == frames' = Append(Rest, Below) /\ UNCHANGED <<body, phase, values, fault>>

(* The list is done, and what encloses it goes on. *)
EndList ==
  /\ frames # << >> /\ Here \notin DOMAIN body
  /\ frames' = Front(frames)
  /\ UNCHANGED <<body, phase, values, fault>>

-----------------------------------------------------------------------------
(* field_shape, by the type a field is declared with. *)

(* Mutant of WellShaped: any field can be assigned. *)
WellShapedAnyField(t, p) ==
  LET s == body[p]
      cat == Category(t, s.field)
  IN  /\ s.op # "raw"
      /\ s.op = "bare" => cat = "struct"
      /\ s.op = "assign" => /\ s.index => cat = "list"
                            /\ HasChildren(p) => cat = "struct"
      /\ s.op = "op" => IF s.index THEN cat = "list" ELSE cat = "scalar"

(* Mutant of WellShaped: no operator applies to an element of an array. *)
WellShapedNoIndexedOp(t, p) ==
  LET s == body[p]
      cat == Category(t, s.field)
  IN  /\ s.op # "raw"
      /\ s.op = "bare" => cat = "struct"
      /\ s.op = "assign" => /\ cat # "none"
                            /\ s.index => cat = "list"
                            /\ HasChildren(p) => cat = "struct"
      /\ s.op = "op" => ~s.index /\ cat = "scalar"

WellShaped(t, p) ==
  LET s == body[p]
      cat == Category(t, s.field)
  IN  /\ s.op # "raw"
      /\ s.op = "bare" => cat = "struct"
      /\ s.op = "assign" => /\ cat # "none"
                            /\ s.index => cat = "list"
                            /\ HasChildren(p) => cat = "struct"
      /\ s.op = "op" => IF s.index THEN cat = "list" ELSE cat = "scalar"

RefuseShape == AtStmt("shape") /\ ~WellShaped(Walk.type, Here) /\ Refuse(5)

PassShape ==
  /\ AtStmt("shape") /\ WellShaped(Walk.type, Here)
  /\ Stmt.op = "op" \/ (Stmt.op = "assign" /\ ~HasChildren(Here))
  /\ Advance

EnterBareShape ==
  /\ AtStmt("shape") /\ WellShaped(Walk.type, Here) /\ Stmt.op = "bare"
  /\ Descend

(* What the children of an assignment return is returned for the whole     *)
(* list: the statements after it are not looked at.                        *)
EnterCopyShape ==
  /\ AtStmt("shape") /\ WellShaped(Walk.type, Here)
  /\ Stmt.op = "assign" /\ HasChildren(Here)
  /\ frames' = Append(Front(frames), Below)
  /\ UNCHANGED <<body, phase, values, fault>>

-----------------------------------------------------------------------------
(* domain_typing: the right sides that can never satisfy an identifier.    *)
WellTyped(t, s) ==
  s.op = "assign" /\ Category(t, s.field) = "identifier" =>
    CASE s.rhs.form = "member" -> s.rhs.domain = FieldType[t][s.field]
      [] OTHER -> s.rhs.form \in {"name", "instance"}

RefuseTyping == AtStmt("typing") /\ ~WellTyped(Walk.type, Stmt) /\ Refuse(5)

PassTyping ==
  /\ AtStmt("typing") /\ WellTyped(Walk.type, Stmt)
  /\ IF Stmt.op \in {"assign", "bare"} /\ Cat = "struct" THEN Descend ELSE Advance

-----------------------------------------------------------------------------
(* Phase 6.  An expression's value, "error" if it has none: an instance is *)
(* no operand, and neither is an array literal.                            *)
Eval(rhs) ==
  CASE rhs.form = "literal" -> "num"
    [] rhs.form = "member"  -> rhs.domain
    [] rhs.form = "name"    ->
         IF Category(Walk.type, rhs.field) = "none" THEN "error"
         ELSE IF values[Append(Walk.path, rhs.field)] = "unset" THEN "error"
         ELSE values[Append(Walk.path, rhs.field)]
    [] OTHER -> "error"

(* Mutant of Stored: an identifier field takes any value. *)
StoredAnyDomain(s) ==
  IF HasChildren(Here) \/ (s.index /\ Cat # "list") THEN "error"
  ELSE CASE Cat = "list" /\ ~s.index -> IF s.rhs.form = "list" THEN "list" ELSE "error"
    [] Cat = "list" /\ s.index ->
         IF values[FieldPath] = "unset" \/ Eval(s.rhs) = "error" THEN "error"
         ELSE "list"
    [] OTHER -> Eval(s.rhs)

(* What an assignment to a field that is no struct leaves in it. *)
Stored(s) ==
  IF HasChildren(Here) \/ (s.index /\ Cat # "list") THEN "error"
  ELSE CASE Cat = "list" /\ ~s.index -> IF s.rhs.form = "list" THEN "list" ELSE "error"
    [] Cat = "list" /\ s.index ->
         IF values[FieldPath] = "unset" \/ Eval(s.rhs) = "error" THEN "error"
         ELSE "list"
    [] Cat = "identifier" ->
         IF Eval(s.rhs) = FieldType[Walk.type][s.field] THEN Eval(s.rhs) ELSE "error"
    [] OTHER -> Eval(s.rhs)

Keep(path, kind) ==
  /\ values' = [values EXCEPT ![path] = kind]
  /\ frames' = Rest
  /\ UNCHANGED <<body, phase, fault>>

AssignValue ==
  /\ AtStmt("apply") /\ Stmt.op = "assign" /\ Cat # "struct"
  /\ IF Stored(Stmt) = "error" THEN Refuse(6) ELSE Keep(FieldPath, Stored(Stmt))

(* A struct at path p: a blank one, or a complete one. *)
WithStruct(p, complete) ==
  [q \in Paths |->
     IF q = p THEN "struct"
     ELSE IF ~IsStrictPrefix(p, q) THEN values[q]
     ELSE IF complete THEN KindOf(ScopeType(q), Last(q)) ELSE "unset"]

(* The copy is stored when its children are done; nothing they can read    *)
(* tells whether it already is.                                            *)
AssignStruct ==
  /\ AtStmt("apply") /\ Stmt.op = "assign" /\ Cat = "struct"
  /\ IF Stmt.index \/ Stmt.rhs.form # "instance" THEN Refuse(6)
     ELSE /\ values' = WithStruct(FieldPath, TRUE)
          /\ frames' = Append(Rest, Below)
          /\ UNCHANGED <<body, phase, fault>>

Operate ==
  /\ AtStmt("apply") /\ Stmt.op = "op"
  /\ IF Stmt.index
     THEN IF Cat # "list" \/ values[FieldPath] = "unset" \/ Eval(Stmt.rhs) # "num"
          THEN Refuse(6) ELSE Advance
     ELSE IF Cat \notin {"none", "scalar"} \/ values[FieldPath] # "num"
               \/ Eval(Stmt.rhs) # "num"
          THEN Refuse(6) ELSE Advance

EnterBare ==
  /\ AtStmt("apply") /\ Stmt.op = "bare"
  /\ IF Cat # "struct" THEN Refuse(6)
     ELSE /\ values' = IF values[FieldPath] = "unset"
                       THEN WithStruct(FieldPath, FALSE) ELSE values
          /\ frames' = Append(Rest, Below)
          /\ UNCHANGED <<body, phase, fault>>

RefuseRaw == AtStmt("apply") /\ Stmt.op = "raw" /\ Refuse(6)

-----------------------------------------------------------------------------
EndWalk ==
  /\ frames = << >> /\ phase \in {"shape", "typing", "apply"}
  /\ phase' = CASE phase = "shape"  -> "typing"
                [] phase = "typing" -> "apply"
                [] OTHER            -> "cached"
  /\ frames' = IF phase = "apply" THEN << >> ELSE Whole
  /\ UNCHANGED <<body, values, fault>>

Finished == phase \in {"cached", "refused"} /\ UNCHANGED vars

Next ==
  \/ RefuseShape \/ PassShape \/ EnterBareShape \/ EnterCopyShape
  \/ RefuseTyping \/ PassTyping
  \/ AssignValue \/ AssignStruct \/ Operate \/ EnterBare \/ RefuseRaw
  \/ EndList \/ EndWalk \/ Finished

Spec == Init /\ [][Next]_vars

-----------------------------------------------------------------------------
(* Every statement of the body that is in some scope, with its position    *)
(* and the type of the scope, whatever the walks do.                       *)
PathTo(p) == [k \in 1 .. Len(p) |-> body[SubSeq(p, 1, k)].field]
All ==
  UNION {{[stmt |-> body[p], type |-> s[Len(p)], at |-> p] : s \in Scopes(PathTo(Front(p)))} :
           p \in DOMAIN body}

Legal(x) ==
  LET s == x.stmt
      cat == Category(x.type, s.field)
  IN  /\ s.op # "raw" /\ cat # "none"
      /\ s.index => cat = "list"
      /\ s.op = "bare" \/ HasChildren(x.at) => cat = "struct"
      /\ s.op = "op" => s.index \/ cat = "scalar"
      /\ s.op = "assign" /\ cat = "identifier" =>
           \/ s.rhs.form \in {"name", "instance"}
           \/ s.rhs.form = "member" /\ s.rhs.domain = FieldType[x.type][s.field]

(* The statement comes after one, in its list or in a list around it, that *)
(* assigns a struct and has children.                                      *)
AfterCopy(x) ==
  \E y \in All :
    /\ y.stmt.op = "assign" /\ HasChildren(y.at)
    /\ Len(y.at) <= Len(x.at)
    /\ Front(y.at) = SubSeq(x.at, 1, Len(y.at) - 1)
    /\ Last(y.at) < x.at[Len(y.at)]

(* Phase 5 refuses nothing that is legal.                                  *)
FaultIsReal ==
  fault # << >> /\ fault[1] = 5 =>
    \E x \in All : x.at = fault[2] /\ ~Legal(x)

(* "Every field referenced in a statement exists on its declared enclosing *)
(* struct type" does not hold of every body that is resolved, but nearly:  *)
(* phase 6, which repeats the checks of phase 5, stops whatever phase 5    *)
(* leaves out but for fields that are not declared, and those are left out *)
(* only after a copy with children.                                        *)
OnlyUndeclaredPass ==
  phase = "cached" =>
    \A x \in All : ~Legal(x) =>
      /\ AfterCopy(x)
      /\ x.stmt.op \in {"assign", "op"} /\ ~x.stmt.index
      /\ Category(x.type, x.stmt.field) = "none"

(* Whatever phase 5 skips, and through whatever fields a value has come,   *)
(* an identifier field holds a member of its own domain, an array field an *)
(* array, a struct field a struct.                                         *)
KindsKept ==
  \A p \in Paths :
    LET t == ScopeType(p)
    IN  Category(t, Last(p)) \in {"identifier", "list", "struct"} =>
          values[p] \in {"unset", KindOf(t, Last(p))}
=============================================================================
