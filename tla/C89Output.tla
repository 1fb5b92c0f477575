----------------------------- MODULE C89Output ------------------------------
(***************************************************************************)
(* The two C89 exports, as CppOutput has the C++ ones: a header and a      *)
(* source file, an array per type with the instances in the order of their *)
(* declaration, and a Find that indexes it.  The 68000 export keeps the    *)
(* composition and has a typedef per identifier; the z88dk export for the  *)
(* Z80 flattens the structs and has plain constants.                       *)
(***************************************************************************)
EXTENDS CppOutput, ChipOutput

CArray(of, n) == [c |-> "carray", of |-> of, n |-> n]

RECURSIVE CArrayType(_, _)
CArrayType(elem, dims) ==
  IF dims = << >> THEN elem ELSE CArray(CArrayType(elem, Tail(dims)), Head(dims))

RECURSIVE CType(_)
CType(type) ==
  CASE type.kind = "string" -> RawText(type.size)
    [] type.kind = "struct" -> Class(type.name)
    [] IsDomainLeaf(type) /\ job.target = "68000" -> Class(type.domain)
    [] type.kind = "array" -> CArrayType(CType(type.elem), type.dims)
    [] OTHER -> Scalar

RECURSIVE CTakes(_)
CTakes(type) ==
  LET widest == IF job.target = "68000" THEN 4 ELSE 2 IN
  CASE type.kind = "int" -> type.bytes <= widest
    [] type.kind = "string" -> TRUE
    [] type.kind = "array" -> CTakes(type.elem)
    [] IsDomainLeaf(type) -> Domain(type.domain).width <= widest
    [] type.kind = "flags" ->
         job.target = "68000" /\ Domain(type.domain).width <= widest
    [] OTHER -> FALSE

CRenders ==
  /\ \A t \in Range(Requested) : \A type \in Range(LeafTypes(t)) : CTakes(type)
  /\ job.target = "68000" =>
       \A d \in Range(DomainInfo \o FlagsInfo) : d.width <= 4

(* One pair of braces per level: an array in C has no class around it.     *)
RECURSIVE CArrayLiteral(_, _, _)
CArrayLiteral(v, dims, elem) ==
  Braced([k \in DOMAIN v |->
    IF Len(dims) > 1 THEN CArrayLiteral(v[k], Tail(dims), elem)
    ELSE Atom(<<IF elem.kind = "string" THEN "text" ELSE "value", v[k]>>)])

RECURSIVE CLiteral(_, _)
CLiteral(v, type) ==
  CASE IsDomainLeaf(type) -> Atom(<<"name", v.domain \o "_" \o v.key>>)
    [] type.kind = "string" -> Atom(<<"text", v>>)
    [] type.kind = "array" -> CArrayLiteral(v, type.dims, type.elem)
    [] type.kind = "struct" ->
         Braced([k \in DOMAIN Def(type.name) |->
                   CLiteral(v[Def(type.name)[k].name], Def(type.name)[k].type)])
    [] OTHER -> Atom(<<"value", v>>)

Constant(name, value) == Decl("h", "const", name, Scalar, {}, Atom(<<"value", value>>))

DomainConstants(d) ==
  LET typed == job.target = "68000" /\ d.kind = "identifier" IN
  (IF typed THEN <<Decl("h", "type", d.name, Scalar, {}, NoInit)>> ELSE << >>)
    \o [k \in DOMAIN d.keys |->
          [Constant(d.name \o "_" \o d.keys[k],
                    IF d.kind = "flags" THEN d.ids[k] ELSE k - 1)
             EXCEPT !.needs = IF typed THEN {d.name} ELSE {}]]
    \o IF job.target = "z88dk" THEN <<Constant(d.name \o "_Count", Len(d.keys))>>
       ELSE << >>

(* The member types of a struct: as declared, or one per leaf.             *)
Members(t) ==
  IF job.target = "z88dk" THEN LeafTypes(t) ELSE [k \in DOMAIN Def(t) |-> Def(t)[k].type]

CStruct(t) ==
  Decl("h", "type", t, Class(t),
       UNION {NamesIn(CType(type)) : type \in Range(Members(t))}, NoInit)

Indices(t) ==
  [k \in DOMAIN Instances(t) |->
     Constant(t \o "_" \o Instances(t)[k].name \o "_Index", k - 1)]

(* Every array is declared in the header and defined in the source file.   *)
Both(name, ctype, needs, init) ==
  <<Decl("h", "extern", name, ctype, NamesIn(ctype), NoInit),
    Decl("cpp", "const", name, ctype, needs \cup NamesIn(ctype), init)>>

Find(t) ==
  LET table == t \o IF job.target = "z88dk" /\ job.pointerTable THEN "_Registry"
                    ELSE "_Instances" IN
  Both(t \o "_Find", Class(t), {table}, NoInit)

InstanceLiteral(t, v) ==
  IF job.target = "z88dk"
  THEN Braced([f \in DOMAIN LeafTypes(t) |->
                 CLiteral(FlatValue(v, t)[f], LeafTypes(t)[f])])
  ELSE CLiteral(v, [kind |-> "struct", name |-> t])

CAos(t) ==
  LET n == Len(Instances(t)) IN
  (IF job.target = "z88dk" THEN <<CStruct(t)>> ELSE << >>)
    \o Indices(t)
    \o Both(t \o "_Instances", CArray(Class(t), n), {},
            Braced([k \in DOMAIN Instances(t) |->
                      InstanceLiteral(t, Instances(t)[k].value)]))
    \o (IF job.target = "z88dk" /\ job.pointerTable
        THEN Both(t \o "_Registry", CArray(Scalar, n),
                  {t \o "_Instances"} \cup {i.name : i \in Range(Indices(t))},
                  Braced([k \in DOMAIN Instances(t) |->
                            Atom(<<"name", Indices(t)[k].name>>)]))
        ELSE << >>)
    \o Find(t)

CSoa(t) ==
  Indices(t)
    \o FlattenSeq([f \in DOMAIN LeafTypes(t) |->
         Both(t \o "_" \o Leaves(t, "")[f].path,
              CArray(CType(LeafTypes(t)[f]), Len(Rows(t))), {},
              Braced([k \in DOMAIN Rows(t) |->
                        CLiteral(Column(t, f)[k], LeafTypes(t)[f])]))])

(* The structs of the search come before any data; the z88dk export makes  *)
(* no search, since its structs contain no other.                          *)
C89Unit(order) ==
  FlattenSeq([k \in DOMAIN DomainInfo |-> DomainConstants(DomainInfo[k])])
    \o FlattenSeq([k \in DOMAIN FlagsInfo |-> DomainConstants(FlagsInfo[k])])
    \o (IF job.layout = "soa" THEN << >> ELSE [k \in DOMAIN order |-> CStruct(order[k])])
    \o FlattenSeq([k \in DOMAIN Requested |->
         IF job.layout = "soa" THEN CSoa(Requested[k]) ELSE CAos(Requested[k])])
=============================================================================
