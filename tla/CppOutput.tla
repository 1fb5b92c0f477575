----------------------------- MODULE CppOutput ------------------------------
(***************************************************************************)
(* The C++ that the exporter writes, as the sequence of its declarations.  *)
(* There are three layouts, each with a writer of its own for one header   *)
(* and another for a header (h) and a source file (cpp); they share no     *)
(* code, and neither do these definitions.  A declaration has the names it *)
(* needs complete or declared before it; an initialiser is a tree, braced  *)
(* where the output has a pair of braces without a type name before it.    *)
(***************************************************************************)
EXTENDS Schema

Scalar == [c |-> "scalar"]
Class(name) == [c |-> "class", name |-> name]
RawText(n) == [c |-> "chars", n |-> n]
StdArray(of, n) == [c |-> "array", of |-> of, n |-> n]

Atom(x) == [braced |-> FALSE, token |-> x, parts |-> << >>]
Braced(parts) == [braced |-> TRUE, token |-> << >>, parts |-> parts]
NoInit == Atom(<<"none">>)

ByRowId(rows) == SortSeq(rows, LAMBDA a, b : a.id < b.id)

RECURSIVE ArrayType(_, _)
ArrayType(elem, dims) ==
  IF dims = << >> THEN elem ELSE StdArray(ArrayType(elem, Tail(dims)), Head(dims))

CppType(type) ==
  CASE type.kind \in {"int", "float", "flags"} -> Scalar
    [] type.kind = "string" -> RawText(type.size)
    [] type.kind = "struct" -> Class(type.name)
    [] type.kind = "ident" -> Class(type.domain)
    [] type.kind = "indexed" -> Class(type.domain \o "_Indexed")
    [] type.kind = "array" ->
         ArrayType(IF type.elem.kind = "string" THEN StdArray(Scalar, type.elem.size)
                   ELSE Scalar, type.dims)

IsAggregate(type) == type.kind = "array"

RECURSIVE NamesIn(_)
NamesIn(ctype) ==
  CASE ctype.c = "class" -> {ctype.name}
    [] ctype.c \in {"array", "carray"} -> NamesIn(ctype.of)
    [] OTHER -> {}

Needs(t) == UNION {NamesIn(CppType(f.type)) : f \in Range(Def(t))}

(* A level is braced twice when what it contains is itself an aggregate.   *)
RECURSIVE ArrayLiteral(_, _, _)
ArrayLiteral(v, dims, elem) ==
  IF Len(dims) = 1 /\ elem.kind # "string"
  THEN Braced([k \in DOMAIN v |-> Atom(<<"value", v[k]>>)])
  ELSE Braced(<<Braced([k \in DOMAIN v |->
         IF Len(dims) = 1 THEN Braced(<<Atom(<<"text", v[k]>>)>>)
         ELSE ArrayLiteral(v[k], Tail(dims), elem)])>>)

RECURSIVE Literal(_, _)
Literal(v, type) ==
  CASE type.kind \in {"int", "float", "flags"} -> Atom(<<"value", v>>)
    [] type.kind = "string" -> Atom(<<"text", v>>)
    [] type.kind = "ident" -> Atom(<<"member", v.domain, v.key>>)
    [] type.kind = "indexed" -> Atom(<<"member", v.domain \o "_Indexed", v.key>>)
    [] type.kind = "array" -> ArrayLiteral(v, type.dims, type.elem)
    [] type.kind = "struct" ->
         [Atom(<<"struct", type.name>>) EXCEPT !.parts =
            [k \in DOMAIN Def(type.name) |->
               Literal(v[Def(type.name)[k].name], Def(type.name)[k].type)]]

Initialiser(t, v) ==
  Braced([k \in DOMAIN Def(t) |-> Literal(v[Def(t)[k].name], Def(t)[k].type)])

Decl(file, form, name, ctype, needs, init) ==
  [file |-> file, form |-> form, name |-> name, ctype |-> ctype, needs |-> needs,
   init |-> init, rows |-> << >>]

Table(file, name, rows, needs) ==
  [Decl(file, "const", name, StdArray(Class(name \o "::Entry"), Len(rows)), needs, NoInit)
     EXCEPT !.rows = rows]

(* An enum with the logical IDs; one with the dense indices when it is used. *)
Enums ==
  FlattenSeq([k \in DOMAIN job.domains |->
    LET d == job.domains[k] IN
    IF d.kind = "flags" THEN << >>
    ELSE <<Decl("h", "type", d.name, Scalar, {}, Atom(<<"ids", d.keys, d.ids>>))>>
         \o IF d.width # 0 /\ (d.name \in UsedIndexed \/ job.allDomains)
            THEN <<Decl("h", "type", d.name \o "_Indexed", Scalar, {},
                        Atom(<<"indices", d.keys>>))>>
            ELSE << >>])

FlagsNamespaces ==
  FlattenSeq([k \in DOMAIN job.domains |->
    LET d == job.domains[k] IN
    IF d.kind = "flags"
    THEN [m \in DOMAIN d.keys |->
            Decl("h", "const", d.name \o "::" \o d.keys[m], Scalar, {},
                 Atom(<<"value", d.ids[m]>>))]
    ELSE << >>])

Structs(order) ==
  [k \in DOMAIN order |->
     Decl("h", "type", order[k], Class(order[k]), Needs(order[k]), NoInit)]

SchemaTable(order) ==
  <<Decl("h", "type", "SchemaEntry", Class("SchemaEntry"), {}, NoInit),
    [Decl("h", "const", "SchemaTable", StdArray(Class("SchemaEntry"), Len(order)),
          {"SchemaEntry"}, NoInit)
       EXCEPT !.rows = [k \in DOMAIN order |->
          [type |-> order[k], leaves |-> Leaves(order[k], ""),
           size |-> RecordSize(order[k])]]]>>

(* Aos, one header: a constant per instance, and a table of pointers.      *)
Aos(t) ==
  LET space == t \o "_Instances::"
      registry == t \o "_Registry"
      rows == ByRowId([k \in DOMAIN Instances(t) |->
                [id |-> Instances(t)[k].id, row |-> Instances(t)[k].name]])
  IN [k \in DOMAIN Instances(t) |->
        Decl("h", "const", space \o Instances(t)[k].name, Class(t), {t},
             Initialiser(t, Instances(t)[k].value))]
     \o <<Decl("h", "type", registry \o "::Entry", Scalar, {t}, NoInit),
          Table("h", registry, rows,
                {registry \o "::Entry"} \cup {space \o r.row : r \in Range(rows)}),
          Decl("h", "const", registry \o "::Find", Class(t), {registry, t}, NoInit)>>

(* Aos-linear, one header: the instances are the elements of one array.    *)
AosLinear(t) ==
  LET space == t \o "_Instances::"
      registry == t \o "_Registry"
      rows == ByRowId([k \in DOMAIN Instances(t) |->
                [id |-> Instances(t)[k].id, row |-> ToString(k - 1)]])
      all == [k \in DOMAIN Instances(t) |-> Initialiser(t, Instances(t)[k].value)]
  IN <<Decl("h", "const", space \o "All", StdArray(Class(t), Len(all)), {t},
            IF all = << >> THEN Braced(<< >>) ELSE Braced(<<Braced(all)>>))>>
     \o [k \in DOMAIN Instances(t) |->
           Decl("h", "const", space \o Instances(t)[k].name \o "_Index", Scalar, {},
                Atom(<<"value", k - 1>>))]
     \o <<Decl("h", "type", registry \o "::Entry", Scalar, {}, NoInit),
          Table("h", registry, rows, {registry \o "::Entry"}),
          Decl("h", "const", registry \o "::Find", Class(t),
               {registry, space \o "All"}, NoInit)>>

(* The bytes of a string column: every string in a slice of n bytes.       *)
Slices(t, leaf, n) ==
  FlattenSeq([k \in DOMAIN Rows(t) |->
    LET v == Column(t, leaf)[k] IN
    [b \in 1 .. n |-> Atom(<<"value", IF b <= Len(v) THEN v[b] ELSE 0>>)]])

ColumnType(t, leaf) ==
  LET type == LeafTypes(t)[leaf] IN
  IF type.kind = "string" THEN StdArray(Scalar, type.size * Len(Rows(t)))
  ELSE StdArray(CppType(type), Len(Rows(t)))

Cells(t, leaf) ==
  [k \in DOMAIN Rows(t) |-> Literal(Column(t, leaf)[k], LeafTypes(t)[leaf])]

(* Mutant of SoaColumn: one pair of braces, whatever the column is of. *)
SoaColumnPlain(t, leaf) ==
  Braced(IF LeafTypes(t)[leaf].kind = "string"
         THEN Slices(t, leaf, LeafTypes(t)[leaf].size) ELSE Cells(t, leaf))

SoaColumn(t, leaf) ==
  LET type == LeafTypes(t)[leaf] IN
  CASE type.kind = "string" -> Braced(Slices(t, leaf, type.size))
    [] IsAggregate(type) /\ Rows(t) # << >> -> Braced(<<Braced(Cells(t, leaf))>>)
    [] OTHER -> Braced(Cells(t, leaf))

(* Soa, one header: an array per leaf, and a table of row numbers.         *)
Soa(t) ==
  LET space == t \o "_SoA::"
      registry == t \o "_SoA_Registry"
      leaves == Leaves(t, "")
      rows == ByRowId([k \in DOMAIN Instances(t) |->
                [id |-> Instances(t)[k].id, row |-> ToString(k - 1)]])
  IN [f \in DOMAIN leaves |->
        Decl("h", "const", space \o leaves[f].path, ColumnType(t, f),
             NamesIn(ColumnType(t, f)), SoaColumn(t, f))]
     \o <<Decl("h", "type", registry \o "::Entry", Scalar, {}, NoInit),
          Table("h", registry, rows, {registry \o "::Entry"}),
          Decl("h", "const", registry \o "::Find", Scalar, {registry}, NoInit)>>

-----------------------------------------------------------------------------
(* The three layouts again, declared in the header and defined in the source. *)
AosSplit(t) ==
  LET space == t \o "_Instances::"
      registry == t \o "_Registry"
      rows == ByRowId([k \in DOMAIN Instances(t) |->
                [id |-> Instances(t)[k].id, row |-> Instances(t)[k].name]])
  IN [k \in DOMAIN Instances(t) |->
        Decl("h", "extern", space \o Instances(t)[k].name, Class(t), {t}, NoInit)]
     \o <<Decl("h", "type", registry \o "::Entry", Scalar, {t}, NoInit),
          [Table("h", registry, rows, {registry \o "::Entry"})
             EXCEPT !.form = "extern", !.rows = << >>],
          Decl("h", "extern", registry \o "::Find", Class(t), {t}, NoInit)>>
     \o [k \in DOMAIN Instances(t) |->
           Decl("cpp", "const", space \o Instances(t)[k].name, Class(t), {t},
                Initialiser(t, Instances(t)[k].value))]
     \o <<Table("cpp", registry, rows,
                {registry \o "::Entry"} \cup {space \o r.row : r \in Range(rows)}),
          Decl("cpp", "const", registry \o "::Find", Class(t), {registry, t}, NoInit)>>

(* Mutant of AosLinearSplit: the array is declared with a row too few. *)
AosLinearSplitShort(t) ==
  <<Decl("h", "extern", t \o "_Instances::All",
         StdArray(Class(t), Len(Instances(t)) - 1), {t}, NoInit)>>
    \o SelectSeq(AosLinear(t), LAMBDA d : d.form = "type")
    \o [k \in DOMAIN AosLinear(t) |-> [AosLinear(t)[k] EXCEPT !.file = "cpp"]]

AosLinearSplit(t) ==
  LET space == t \o "_Instances::"
      registry == t \o "_Registry"
      rows == ByRowId([k \in DOMAIN Instances(t) |->
                [id |-> Instances(t)[k].id, row |-> ToString(k - 1)]])
      all == [k \in DOMAIN Instances(t) |-> Initialiser(t, Instances(t)[k].value)]
  IN <<Decl("h", "extern", space \o "All", StdArray(Class(t), Len(Instances(t))),
            {t}, NoInit)>>
     \o [k \in DOMAIN Instances(t) |->
           Decl("h", "const", space \o Instances(t)[k].name \o "_Index", Scalar, {},
                Atom(<<"value", k - 1>>))]
     \o <<Decl("h", "type", registry \o "::Entry", Scalar, {}, NoInit),
          [Table("h", registry, rows, {registry \o "::Entry"})
             EXCEPT !.form = "extern", !.rows = << >>],
          Decl("h", "extern", registry \o "::Find", Class(t), {t}, NoInit),
          Decl("cpp", "const", space \o "All", StdArray(Class(t), Len(all)), {t},
               IF all = << >> THEN Braced(<< >>) ELSE Braced(<<Braced(all)>>)),
          Table("cpp", registry, rows, {registry \o "::Entry"}),
          Decl("cpp", "const", registry \o "::Find", Class(t),
               {registry, space \o "All"}, NoInit)>>

(* Unlike Soa, this writer has one pair of braces for every column.        *)
SoaSplit(t) ==
  LET space == t \o "_SoA::"
      registry == t \o "_SoA_Registry"
      leaves == Leaves(t, "")
      rows == ByRowId([k \in DOMAIN Instances(t) |->
                [id |-> Instances(t)[k].id, row |-> ToString(k - 1)]])
  IN [f \in DOMAIN leaves |->
        Decl("h", "extern", space \o leaves[f].path, ColumnType(t, f),
             NamesIn(ColumnType(t, f)), NoInit)]
     \o <<Decl("h", "type", registry \o "::Entry", Scalar, {}, NoInit),
          [Table("h", registry, rows, {registry \o "::Entry"})
             EXCEPT !.form = "extern", !.rows = << >>],
          Decl("h", "extern", registry \o "::Find", Scalar, {}, NoInit)>>
     \o [f \in DOMAIN leaves |->
           Decl("cpp", "const", space \o leaves[f].path, ColumnType(t, f),
                NamesIn(ColumnType(t, f)),
                Braced(IF LeafTypes(t)[f].kind = "string"
                       THEN Slices(t, f, LeafTypes(t)[f].size) ELSE Cells(t, f)))]
     \o <<Table("cpp", registry, rows, {registry \o "::Entry"}),
          Decl("cpp", "const", registry \o "::Find", Scalar, {registry}, NoInit)>>

TypeDecls(t) ==
  CASE job.layout = "aos" /\ ~job.split -> Aos(t)
    [] job.layout = "aos" /\ job.split -> AosSplit(t)
    [] job.layout = "aos-linear" /\ ~job.split -> AosLinear(t)
    [] job.layout = "aos-linear" /\ job.split -> AosLinearSplit(t)
    [] job.layout = "soa" /\ ~job.split -> Soa(t)
    [] job.layout = "soa" /\ job.split -> SoaSplit(t)

Unit(order) ==
  Enums \o FlagsNamespaces
    \o (IF job.layout = "soa" THEN << >> ELSE Structs(order))
    \o FlattenSeq([k \in DOMAIN order |-> TypeDecls(order[k])])
    \o SchemaTable(order)
=============================================================================
