----------------------------- MODULE FieldStore -----------------------------
(***************************************************************************)
(* Phase 6 inside an instance body, on the objects it really works on:     *)
(* Resolver._apply_statements over StructValue objects and Python lists,   *)
(* which statements store, share and change in place, and copy.deepcopy    *)
(* copies.  Instances are resolved when everything they copy is; in what   *)
(* order, and what becomes of those that copy a failed one, is Resolve.    *)
(* Values are numbers up to MaxNum (the range of the declared type);       *)
(* arrays have one dimension and one element.                              *)
(***************************************************************************)
EXTENDS Naturals, Sequences, FiniteSets, SequencesExt

CONSTANTS Instance, Field, Struct,
          FieldType,  \* FieldType[t][f]: "num", "list", "none" or a Struct
          Statement,  \* the statements of the programs, at any depth
          Programs,   \* programs to consider
          MaxNum,
          NoSource

Kinds == {"num", "list", "none"}

TypesAssumption ==
  /\ Field # {}
  /\ Struct \cap Kinds = {}
  /\ FieldType \in [Struct -> [Field -> Kinds \cup Struct]]
  /\ MaxNum \in Nat
  /\ NoSource \notin Instance
ASSUME TypesAssumption

(* A statement names a field and, by its form, a number, a field to read   *)
(* or an instance to copy; the statements below it are a list again.       *)
StatementAssumption ==
  /\ IsFiniteSet(Statement)
  /\ \A s \in Statement :
       /\ s.op \in {"set", "get", "elem", "add", "copy", "bare"}
       /\ s.field \in Field /\ s.num \in Nat
       /\ s.op = "get" => s.from \in Field
       /\ s.op = "copy" => s.from \in Instance
       /\ s.body \in Seq(Statement)
ASSUME StatementAssumption

ProgramsAssumption ==
  \A p \in Programs : \A n \in Instance :
    /\ p[n].type \in Struct /\ p[n].source \in Instance \cup {NoSource}
    /\ p[n].isDelete \in BOOLEAN /\ p[n].body \in Seq(Statement)
ASSUME ProgramsAssumption

VARIABLES program,  \* program[n]: its type, source, delete mark and body
          heap,     \* the objects, in order of creation
          cache,    \* cache[n]: the object of n, 0 if none
          errors,   \* instances that failed
          current,  \* the instance being resolved, or NoSource
          frames,   \* the nested scopes of its body, outermost first
          mixed     \* history: types that differ have been mixed

storeVars == <<program, heap, cache, errors, current, frames, mixed>>

(* A value a field or an element can hold; an Absent field is one the      *)
(* object's dictionary does not have at all.                               *)
Num(n) == [tag |-> "num", val |-> n]
Ref(a) == [tag |-> "ref", val |-> a]
Uninit == [tag |-> "uninit", val |-> 0]
Absent == [tag |-> "absent", val |-> 0]

IsSet(v) == v \notin {Uninit, Absent}

(* field_category of field f in a scope whose type_name is t. *)
Category(t, f) == IF FieldType[t][f] \in Struct THEN "struct" ELSE FieldType[t][f]

BlankStruct(t) ==
  [type |-> t,
   fields |-> [f \in Field |->
                 IF FieldType[t][f] = "none" THEN Absent ELSE Uninit]]

(* A list object keeps its one element in field Elem. *)
Elem == CHOOSE f \in Field : TRUE
NewList(v) ==
  [type |-> "list", fields |-> [f \in Field |-> IF f = Elem THEN v ELSE Absent]]

Children(h, a) ==
  {h[a].fields[f].val : f \in {g \in Field : h[a].fields[g].tag = "ref"}}

(* What is reached from the members of init by succ, which gives each      *)
(* point the points next to it.                                            *)
Closure(succ, init) ==
  LET n == Cardinality(DOMAIN succ)
      within[i \in 0 .. n] ==
        IF i = 0 THEN init
        ELSE LET near == within[i - 1]
             IN  near \cup UNION {succ[x] : x \in near}
  IN  within[n]

Reachable(h, a) == Closure([b \in DOMAIN h |-> Children(h, b)], {a})

(* deepcopy: the objects reachable from a, appended in a fixed order, with *)
(* every reference among them kept (its memo); a's copy comes first.       *)
CopyOrder(h, a) == <<a>> \o SetToSeq(Reachable(h, a) \ {a})
(* Mutant of DeepCopy: the objects below the copy are shared with it. *)
ShallowCopy(h, a) == Append(h, h[a])

DeepCopy(h, a) ==
  LET order == CopyOrder(h, a)
      At(b) == Len(h) + CHOOSE i \in DOMAIN order : order[i] = b
      Moved(v) == IF v.tag = "ref" THEN Ref(At(v.val)) ELSE v
  IN  h \o [i \in DOMAIN order |->
              [h[order[i]] EXCEPT !.fields = [f \in Field |-> Moved(@[f])]]]

StoreInit ==
  /\ program \in Programs
  /\ heap = << >>
  /\ cache = [n \in Instance |-> 0]
  /\ errors = {}
  /\ current = NoSource
  /\ frames = << >>
  /\ mixed = FALSE

Cached == {n \in Instance : cache[n] # 0}

(* The instances n copies, itself or in a scope of its body, at any depth. *)
Stmts(n) == Closure([s \in Statement |-> Range(s.body)], Range(program[n].body))
Sources(n) ==
  ({program[n].source} \cap Instance)
    \cup {s.from : s \in {t \in Stmts(n) : t.op = "copy"}}

(* A scope: the object, the statements left, and the field of the          *)
(* enclosing scope the object is stored in when they are done.             *)
Frame(a, stmts, field) == [obj |-> a, stmts |-> stmts, field |-> field]

Begin(n) ==
  /\ current = NoSource
  /\ n \notin Cached \cup errors
  /\ Sources(n) \subseteq Cached
  /\ heap' = IF program[n].source = NoSource
             THEN Append(heap, BlankStruct(program[n].type))
             ELSE [DeepCopy(heap, cache[program[n].source])
                     EXCEPT ![Len(heap) + 1].type = program[n].type]
  /\ current' = n
  /\ frames' = <<Frame(Len(heap) + 1, program[n].body, Elem)>>
  /\ mixed' = (mixed \/ /\ program[n].source # NoSource
                         /\ program[program[n].source].type # program[n].type)
  /\ UNCHANGED <<program, cache, errors>>

Busy == frames # << >>
Scope == frames[Len(frames)]
Stmt == Head(Scope.stmts)
AtStmt(ops) == Busy /\ Scope.stmts # << >> /\ Stmt.op \in ops
DeclaredType == FieldType[heap[Scope.obj].type][Stmt.field]
Cat == Category(heap[Scope.obj].type, Stmt.field)
Held == heap[Scope.obj].fields[Stmt.field]

Rest == [frames EXCEPT ![Len(frames)].stmts = Tail(@)]
Advance == frames' = Rest /\ UNCHANGED <<program, cache, errors, current>>

Put(h, a, f, v) == [h EXCEPT ![a].fields[f] = v]

(* The value of an assignment's right side: a literal, or another field of *)
(* the scope, whose value is taken as it is, an object included.           *)
Source == heap[Scope.obj].fields[Stmt.from]
Readable ==
  Category(heap[Scope.obj].type, Stmt.from) # "none" /\ IsSet(Source)
Right == IF Stmt.op = "set" THEN Num(Stmt.num) ELSE Source

(* field = expr: a scalar (or unknown) field takes the value, an array     *)
(* field a new list of it.                                                 *)
CanAssign == Cat # "struct" /\ (Stmt.op = "set" \/ Readable)
Assign ==
  /\ AtStmt({"set", "get"}) /\ CanAssign
  /\ heap' = IF Cat = "list"
             THEN Put(Append(heap, NewList(Right)),
                      Scope.obj, Stmt.field, Ref(Len(heap) + 1))
             ELSE Put(heap, Scope.obj, Stmt.field, Right)
  /\ mixed' = (mixed \/ /\ Stmt.op = "get"
                         /\ Cat # Category(heap[Scope.obj].type, Stmt.from))
  /\ Advance

(* field[0] = expr changes the list the field holds, in place. *)
CanAssignElem == Cat = "list" /\ IsSet(Held)
HoldsList == Held.tag = "ref" /\ heap[Held.val].type = "list"
AssignElem ==
  /\ AtStmt({"elem"}) /\ CanAssignElem /\ HoldsList
  /\ heap' = Put(heap, Held.val, Elem, Num(Stmt.num))
  /\ Advance /\ UNCHANGED mixed

(* field + n *)
CanOperate ==
  Cat \in {"num", "none"} /\ Held.tag = "num" /\ Held.val + Stmt.num <= MaxNum
Operate ==
  /\ AtStmt({"add"}) /\ CanOperate
  /\ heap' = Put(heap, Scope.obj, Stmt.field, Num(Held.val + Stmt.num))
  /\ Advance /\ UNCHANGED mixed

(* Mutant of CopyStruct: the instance itself is the scope. *)
CopyStructInPlace ==
  /\ AtStmt({"copy"}) /\ Cat = "struct"
  /\ frames' = Append(Rest, Frame(cache[Stmt.from], Stmt.body, Stmt.field))
  /\ UNCHANGED <<program, heap, cache, errors, current, mixed>>

(* field = Instance: the copy is the scope of the children, and is stored  *)
(* when they are done.                                                     *)
CopyStruct ==
  /\ AtStmt({"copy"}) /\ Cat = "struct"
  /\ heap' = DeepCopy(heap, cache[Stmt.from])
  /\ frames' = Append(Rest, Frame(Len(heap) + 1, Stmt.body, Stmt.field))
  /\ mixed' = (mixed \/ program[Stmt.from].type # DeclaredType)
  /\ UNCHANGED <<program, cache, errors, current>>

(* A bare field: its own object is the scope, a new blank one if it has    *)
(* none yet.                                                               *)
HoldsStruct == Held.tag = "ref" /\ heap[Held.val].type \in Struct
EnterBare ==
  /\ AtStmt({"bare"}) /\ Cat = "struct" /\ (IsSet(Held) => HoldsStruct)
  /\ IF IsSet(Held)
     THEN /\ frames' = Append(Rest, Frame(Held.val, Stmt.body, Stmt.field))
          /\ UNCHANGED heap
     ELSE /\ frames' = Append(Rest, Frame(Len(heap) + 1, Stmt.body, Stmt.field))
          /\ heap' = Append(heap, BlankStruct(DeclaredType))
  /\ UNCHANGED <<program, cache, errors, current, mixed>>

(* A statement that fails ends the whole body; nothing of it is cached. *)
Refuse ==
  /\ \/ AtStmt({"set", "get"}) /\ ~CanAssign
     \/ AtStmt({"elem"}) /\ ~CanAssignElem
     \/ AtStmt({"add"}) /\ ~CanOperate
     \/ AtStmt({"copy", "bare"}) /\ Cat # "struct"
  /\ errors' = errors \cup {current}
  /\ current' = NoSource
  /\ frames' = << >>
  /\ UNCHANGED <<program, heap, cache, mixed>>

(* Mutant of EndScope: the enclosing object is built anew. *)
EndScopeAnew ==
  /\ Busy /\ Scope.stmts = << >> /\ Len(frames) > 1
  /\ LET outer == frames[Len(frames) - 1].obj
     IN  heap' = Put([heap EXCEPT ![outer] = BlankStruct(@.type)],
                     outer, Scope.field, Ref(Scope.obj))
  /\ frames' = Front(frames)
  /\ UNCHANGED <<program, cache, errors, current, mixed>>

(* A field that holds something of another kind than declared, as one      *)
(* copied from an instance of another type may: the exception is none the  *)
(* resolver catches, and no other instance is resolved.  Without children  *)
(* nothing looks at what the bare field holds.                             *)
Abort ==
  /\ \/ AtStmt({"elem"}) /\ CanAssignElem /\ ~HoldsList
     \/ AtStmt({"bare"}) /\ Cat = "struct" /\ IsSet(Held) /\ ~HoldsStruct
          /\ Stmt.body # << >>
  /\ frames' = << >>
  /\ UNCHANGED <<program, heap, cache, errors, current, mixed>>

PassBare ==
  /\ AtStmt({"bare"}) /\ Cat = "struct" /\ IsSet(Held) /\ ~HoldsStruct
  /\ Stmt.body = << >>
  /\ Advance /\ UNCHANGED <<heap, mixed>>

(* The statements of a scope are done: store its object, or cache it. *)
EndScope ==
  /\ Busy /\ Scope.stmts = << >> /\ Len(frames) > 1
  /\ heap' = Put(heap, frames[Len(frames) - 1].obj, Scope.field, Ref(Scope.obj))
  /\ frames' = Front(frames)
  /\ UNCHANGED <<program, cache, errors, current, mixed>>

EndBody ==
  /\ Busy /\ Scope.stmts = << >> /\ Len(frames) = 1
  /\ cache' = [cache EXCEPT ![current] = Scope.obj]
  /\ current' = NoSource
  /\ frames' = << >>
  /\ UNCHANGED <<program, heap, errors, mixed>>

StoreDone ==
  /\ ~Busy
  /\ \/ current # NoSource
     \/ \A n \in Instance \ (Cached \cup errors) : ~(Sources(n) \subseteq Cached)
StoreFinished == StoreDone /\ UNCHANGED storeVars

StoreNext ==
  \/ \E n \in Instance : Begin(n)
  \/ Assign \/ AssignElem \/ Operate \/ CopyStruct \/ EnterBare \/ PassBare
  \/ Refuse \/ Abort \/ EndScope \/ EndBody \/ StoreFinished

StoreSpec == StoreInit /\ [][StoreNext]_storeVars

-----------------------------------------------------------------------------
(* Mutant of HasMissing: the structs below the object are not searched. *)
HasMissingHere(h, a) == \E f \in Field : h[a].fields[f] = Uninit

(* validate._find_uninitialized: a field of the resolved object, or of a   *)
(* struct below it, holds no value.                                        *)
HasMissing(h, a) ==
  \E b \in Reachable(h, a) :
    h[b].type \in Struct /\ \E f \in Field : h[b].fields[f] = Uninit

(* What phase 8 lets an exporter have. *)
Exported == {n \in Cached : ~program[n].isDelete /\ ~HasMissing(heap, cache[n])}

(* A resolved instance is never changed by what is done to its copies:     *)
(* every object of it stays as it is, however deep a later instance copies *)
(* and modifies it.                                                        *)
CachedFrozen ==
  [][\A n \in Cached :
       /\ cache'[n] = cache[n]
       /\ \A b \in Reachable(heap, cache[n]) : heap'[b] = heap[b]]_storeVars

(* The objects of an instance: what is reached from its resolved object    *)
(* or, while it is being resolved, from the scopes of its body.            *)
Own(n) ==
  LET roots == IF n \in Cached THEN {cache[n]}
               ELSE IF n = current THEN {frames[k].obj : k \in DOMAIN frames}
               ELSE {}
  IN  UNION {Reachable(heap, a) : a \in roots}

(* The reason: no object is shared between two resolved instances, or      *)
(* between one of them and the instance being resolved.                    *)
NothingShared == \A m, n \in Instance : m # n => Own(m) \cap Own(n) = {}

(* A statement touches its own field and nothing else: every other field   *)
(* of its scope, and of the scopes around it, keeps its value and all the  *)
(* objects below it, but for one that was assigned the very object the     *)
(* statement changes.                                                      *)
Target(k) ==
  IF k < Len(frames) THEN frames[k + 1].field
  ELSE IF Scope.stmts = << >> THEN "no field" ELSE Stmt.field
Objects(v) == IF v.tag = "ref" THEN Reachable(heap, v.val) ELSE {}
Touched ==
  IF Scope.stmts = << >> THEN {frames[Len(frames) - 1].obj}
  ELSE {Scope.obj} \cup Objects(Held)
StatementLocal ==
  [][Busy /\ frames' # << >> =>
       \A k \in DOMAIN frames : \A f \in Field :
         LET old == heap[frames[k].obj].fields[f]
         IN  f # Target(k) /\ Objects(old) \cap Touched = {} =>
               /\ heap'[frames[k].obj].fields[f] = old
               /\ \A b \in Objects(old) : heap'[b] = heap[b]]_storeVars

(* v is a value of the kind k that a type declares. *)
Fits(h, k, v) ==
  CASE k = "num"       -> v.tag = "num"
    [] k = "list"      -> v.tag = "ref" /\ h[v.val].type = "list"
    [] k \in Struct    -> v.tag = "ref" /\ h[v.val].type = k
    [] OTHER           -> TRUE
Complete(h, b) ==
  \A f \in Field : Fits(h, FieldType[h[b].type][f], h[b].fields[f])

(* "Every field that is read or exported must have a value": an instance   *)
(* that phase 8 passes has a value of the declared kind in every field of  *)
(* its type and of the types below it.  No phase checks that an instance   *)
(* is copied only to where its own type is declared, and a field read only *)
(* into one of the same type; programs in which that happens are mixed.    *)
TypedExportComplete ==
  ~mixed => \A n \in Exported :
              /\ heap[cache[n]].type = program[n].type
              /\ \A b \in Reachable(heap, cache[n]) :
                   heap[b].type \in Struct => Complete(heap, b)
=============================================================================
