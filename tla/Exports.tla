------------------------------- MODULE Exports -------------------------------
(***************************************************************************)
(* One export of a finished build, from the request to the output and to   *)
(* what a consumer gets out of it.  The components are the modules that    *)
(* this one extends: a request goes through those that its target uses,    *)
(* step by step, and leaves the variables of the others as they start.     *)
(* job.target is cpp, bin, z80, 6502, 68000 or z88dk.                      *)
(***************************************************************************)
EXTENDS C89Output, BinaryPack, TopoSort, RegistryFind, ZeroPage

CONSTANT Jobs               \* the requests: a build and the options of an export

VARIABLES phase,            \* base, gather, order, ask, find, file, pages, render,
                            \* and at the end done, refused, crashed
          out,              \* the declarations, or the listing
          asked             \* the type whose Find a consumer calls

vars == <<job, phase, out, asked, topoVars, findVars, zpVars, binVars>>

StructsOf(fields) ==
  [k \in DOMAIN SelectSeq(fields, IsStruct) |-> SelectSeq(fields, IsStruct)[k].type.name]

Roots ==
  CASE job.target = "cpp" -> job.types
    [] job.target = "68000" -> Requested
    [] OTHER -> << >>

(* Where each exporter begins: C++ searches, 6502 checks the base, the     *)
(* others flatten the types that were asked for.                           *)
Init ==
  /\ job \in Jobs
  /\ phase = CASE job.target = "cpp" -> "order"
               [] job.target = "6502" -> "base"
               [] OTHER -> "gather"
  /\ out = << >> /\ asked = ""
  /\ uses = [t \in Type |->
               IF t \in DOMAIN job.fields THEN StructsOf(job.fields[t]) ELSE << >>]
  /\ roots = Roots
  /\ TopoStart
  /\ table = << >> /\ probe = 0 /\ FindStart
  /\ request = [base |-> job.base, types |-> << >>, domains |-> << >>,
                layout |-> IF job.target = "6502" THEN job.layout ELSE "aos"]
  /\ ZpStart
  /\ types = << >> /\ BinStart

(* The base of a 6502 export is looked at before anything is gathered.     *)
CheckBase ==
  /\ phase = "base"
  /\ Validate \/ RejectBase
  /\ phase' = IF stage' = "refused" THEN "refused" ELSE "gather"
  /\ UNCHANGED <<job, out, asked, topoVars, findVars, binVars>>

(* Flattening types that contain each other ends in a RecursionError.      *)
Crash ==
  /\ phase = "gather"
  /\ \E t \in Range(job.requested) : ~Unwinds(t, 0)
  /\ phase' = "crashed"
  /\ UNCHANGED <<job, out, asked, topoVars, findVars, zpVars, binVars>>

Gather ==
  /\ phase = "gather"
  /\ \A t \in Range(job.requested) : Unwinds(t, 0)
  /\ IF job.target = "bin"
     THEN phase' = "file" /\ types' = GatherBinary /\ UNCHANGED request
     ELSE /\ phase' = IF MissingWidth THEN "refused" ELSE
                      CASE job.target = "6502" -> "pages"
                        [] job.target = "68000" -> "order"
                        [] OTHER -> "render"
          /\ request' =
               IF phase' # "pages" THEN request
               ELSE [request EXCEPT
                       !.types = Requested,
                       !.domains = [k \in DOMAIN (DomainInfo \o FlagsInfo) |->
                          [name |-> (DomainInfo \o FlagsInfo)[k].name,
                           kind |-> (DomainInfo \o FlagsInfo)[k].kind]]]
          /\ UNCHANGED types
  /\ UNCHANGED <<job, out, asked, topoVars, findVars>>
  /\ UNCHANGED <<stage, turn, addr, blocks, pass, piece, cursor, starts, file>>

OrderStep ==
  /\ phase = "order"
  /\ TopoNext
  /\ phase' = IF raised' THEN "refused" ELSE "order"
  /\ UNCHANGED <<job, out, asked, findVars, zpVars, binVars>>

(* The text that a renderer returns, unless it raises at a leaf.           *)
EmitUnit ==
  /\ phase = "order" /\ Ordered
  /\ IF job.target = "cpp" THEN phase' = "ask" /\ out' = Unit(order)
     ELSE IF CRenders THEN phase' = "done" /\ out' = C89Unit(order)
     ELSE phase' = "refused" /\ out' = << >>
  /\ UNCHANGED <<job, asked, topoVars, findVars, zpVars, binVars>>

Render ==
  /\ phase = "render"
  /\ CASE job.target = "z80" /\ Z80Renders ->
            phase' = "done" /\ out' = RenderSjasmplus
       [] job.target = "z88dk" /\ CRenders -> phase' = "done" /\ out' = C89Unit(<< >>)
       [] job.target = "6502" /\ AcmeRenders -> phase' = "done" /\ out' = RenderAcme
       [] OTHER -> phase' = "refused" /\ out' = << >>
  /\ UNCHANGED <<job, asked, topoVars, findVars, zpVars, binVars>>

PageStep ==
  /\ phase = "pages"
  /\ ZpNext
  /\ phase' = CASE stage' = "granted" -> "render"
                [] stage' = "refused" -> "refused"
                [] OTHER -> "pages"
  /\ UNCHANGED <<job, out, asked, topoVars, findVars, binVars>>

FileStep ==
  /\ phase = "file"
  /\ BinNext
  /\ phase' = IF pass' = "closed" THEN "done" ELSE "file"
  /\ UNCHANGED <<job, out, asked, topoVars, findVars, zpVars>>

RegistryName(t) == t \o IF job.layout = "soa" THEN "_SoA_Registry" ELSE "_Registry"
Defined(name) == CHOOSE d \in Range(out) : d.name = name /\ d.form = "const"

(* A consumer calls Find of a type with some ID, of an instance or not.    *)
Ask ==
  /\ phase = "ask"
  /\ asked' \in Range(order)
  /\ probe' \in {i.id : i \in Range(job.instances)} \cup {7}
  /\ table' = Defined(RegistryName(asked')).rows
  /\ phase' = "find"
  /\ UNCHANGED <<job, out, topoVars, zpVars, binVars, lo, answer>>
  /\ hi' = Len(table')

FindStep ==
  /\ phase = "find"
  /\ FindNext
  /\ phase' = IF answer' = << >> THEN "find" ELSE "done"
  /\ UNCHANGED <<job, out, asked, topoVars, zpVars, binVars>>

Ended == phase \in {"done", "refused", "crashed"}
Finished == Ended /\ UNCHANGED vars

Next == \/ CheckBase \/ Crash \/ Gather \/ OrderStep \/ EmitUnit \/ Render
        \/ PageStep \/ FileStep \/ Ask \/ FindStep \/ Finished

Loop == CheckBase \/ OrderStep \/ PageStep \/ FileStep \/ FindStep
AtOnce == phase \in {"gather", "render", "ask"} \/ (phase = "order" /\ Ordered)

(* The process and its consumer run on: a loop that can take a step takes  *)
(* one, and the functions that are one step here return.  The latter says  *)
(* of their actions, which always leave AtOnce, what WF_vars would.        *)
Spec == Init /\ [][Next]_vars /\ WF_vars(Loop) /\ []<>~AtOnce

-----------------------------------------------------------------------------
IsC == job.target \in {"68000", "z88dk"}
IsUnit == IF IsC THEN phase = "done" ELSE phase = "ask"

(* What the compiler of the target sees: the header, then the source.      *)
Lines ==
  SelectSeq(out, LAMBDA d : d.file = "h") \o SelectSeq(out, LAMBDA d : d.file = "cpp")

RECURSIVE Atoms(_)
Atoms(init) ==
  IF init.parts = << >> THEN IF init.braced THEN << >> ELSE <<init.token>>
  ELSE FlattenSeq([k \in DOMAIN init.parts |-> Atoms(init.parts[k])])

(* The enumerators and constants that an initialiser uses, as declarations *)
(* before it must have them.                                               *)
Provided(token, before) ==
  CASE token[1] = "member" ->
         \E d \in before : d.name = token[2] /\ token[3] \in Range(d.init.token[2])
    [] token[1] = "name" -> \E d \in before : d.name = token[2]
    [] OTHER -> TRUE

(* The output of a C or C++ export compiles and links as far as names go:  *)
(* what a declaration uses is declared before it, nothing is defined twice, *)
(* and what the header declares extern the source defines with that type,  *)
(* although header and source come from separate writers.                  *)
UnitLinks ==
  IsUnit =>
    \A k \in DOMAIN Lines :
      LET d == Lines[k]
          before == {Lines[j] : j \in 1 .. k - 1}
      IN /\ \A name \in d.needs : \E b \in before : b.name = name
         /\ \A token \in Range(Atoms(d.init)) : Provided(token, before)
         /\ d.form # "extern" =>
              \A b \in before : b.form # "extern" => b.name # d.name
         /\ d.form = "extern" =>
              \E e \in Range(Lines) : /\ e.form = "const" /\ e.file = "cpp"
                                      /\ e.name = d.name /\ e.ctype = d.ctype

MemberType(type) == IF IsC THEN CType(type) ELSE CppType(type)

(* What C++17 and C89 accept: a list in braces initialises the parts of an *)
(* aggregate one by one; std::array is a class around an array, and where  *)
(* braces are left out, its own or those of its only element, no part may  *)
(* have braces of its own.  C89 has neither arrays of no elements nor      *)
(* empty lists.                                                            *)
RECURSIVE Fits(_, _)
Fits(ctype, init) ==
  LET Every(of, n) == /\ Len(init.parts) = n
                      /\ \A k \in 1 .. n : Fits(of, init.parts[k])
      Plain(list) == \A k \in DOMAIN list.parts : ~list.parts[k].braced
  IN CASE ctype.c = "scalar" -> ~init.braced /\ init.token[1] # "text"
       [] ctype.c = "chars" ->
            ~init.braced /\ init.token[1] = "text" /\ Len(init.token[2]) < ctype.n
       [] ctype.c = "class" /\ ctype.name \in Range(job.types) ->
            /\ init.braced \/ init.token = <<"struct", ctype.name>>
            /\ Len(init.parts) = Len(Members(ctype.name))
            /\ \A k \in DOMAIN init.parts :
                 Fits(MemberType(Members(ctype.name)[k]), init.parts[k])
       [] ctype.c = "class" /\ ctype.name \notin Range(job.types) ->
            ~init.braced /\ (init.token[1] = "name" \/ init.token[2] = ctype.name)
       [] ctype.c = "carray" -> init.braced /\ ctype.n > 0 /\ Every(ctype.of, ctype.n)
       [] ctype.c = "array" ->
            /\ init.braced
            /\ IF init.parts = << >> THEN ctype.n = 0
               ELSE IF Plain(init) /\ init.parts[1].token[1] = "text"
               THEN Len(init.parts) = 1 /\ Len(init.parts[1].token[2]) < ctype.n
               ELSE IF Plain(init) THEN Every(ctype.of, ctype.n)
               ELSE
                      /\ Len(init.parts) = 1
                      /\ LET inner == init.parts[1].parts IN
                         \/ /\ Len(inner) = ctype.n
                            /\ \A k \in 1 .. ctype.n : Fits(ctype.of, inner[k])
                         \/ /\ ctype.n = 1 /\ Plain(init.parts[1])
                            /\ Fits(ctype.of, init.parts[1])

Initialised(d) ==
  d.form = "const" /\ d.init # NoInit => Fits(d.ctype, d.init)

SplitColumn(d) == job.layout = "soa" /\ job.split /\ d.ctype.c = "array"

(* The C exports declare an array for a type without instances as well.    *)
NoRows(d) == d.ctype.c = "carray" /\ d.ctype.n = 0

(* Every initialiser is one that the compiler accepts for the type before  *)
(* it and gives every element a value, nested arrays and one-row columns   *)
(* included.  The columns of split SoA are SplitColumnsFit's; the arrays   *)
(* of no rows that the C exports write are left out: no C89 compiler takes *)
(* them (export_68000.py, export_z80_z88dk_c.py).                          *)
InitialisersFit ==
  IsUnit => \A d \in Range(out) : ~SplitColumn(d) /\ ~NoRows(d) => Initialised(d)

(* The comment of the writer for one header says that a column of arrays   *)
(* needs the double braces that any std::array of aggregates does.         *)
SplitColumnsFit ==
  IsUnit => \A d \in Range(out) : SplitColumn(d) => Initialised(d)

-----------------------------------------------------------------------------
(* What a leaf means to a consumer, in the terms of its type: numbers and  *)
(* texts as they are, an identifier as the number its enumerator has.      *)
Meaning(v, type) ==
  CASE type.kind = "array" -> RowMajor(v, type.dims)
    [] type.kind = "ident" /\ ~IsC -> <<LogicalId(v)>>
    [] IsDomainLeaf(type) /\ (IsC \/ type.kind = "indexed") -> <<DenseIndex(v)>>
    [] OTHER -> <<v>>

MeaningOf(v, t) ==
  FlattenSeq([f \in DOMAIN LeafTypes(t) |->
                Meaning(FlatValue(v, t)[f], LeafTypes(t)[f])])

(* What the output says: its constants, looked up where they are defined.  *)
Constexpr(token) ==
  CASE token[1] = "member" ->
         LET enum == CHOOSE d \in Range(out) : d.name = token[2] /\ d.form = "type"
             k == Position(enum.init.token[2], token[3])
         IN IF enum.init.token[1] = "ids" THEN enum.init.token[3][k] ELSE k - 1
    [] token[1] = "name" -> Defined(token[2]).init.token[2]
    [] OTHER -> token[2]

Said(init) == [k \in DOMAIN Atoms(init) |-> Constexpr(Atoms(init)[k])]

(* Row k of an array that is braced once or twice.                         *)
Element(init, k) == IF Len(init.parts) = 1 /\ init.parts[1].braced
                    THEN init.parts[1].parts[k] ELSE init.parts[k]

UpToNul(bytes) == SubSeq(bytes, 1, SelectInSeq(bytes, LAMBDA b : b = 0) - 1)

(* The leaves of row k of the soa columns, one of them read from slices.   *)
SoaRow(t, k, n) ==
  FlattenSeq([f \in DOMAIN LeafTypes(t) |->
    LET type == LeafTypes(t)[f]
        init == Defined(t \o "_SoA::" \o Leaves(t, "")[f].path).init
    IN IF type.kind = "string"
       THEN <<UpToNul([b \in 1 .. type.size |-> Said(init)[(k - 1) * type.size + b]])>>
       ELSE LET all == Said(init)
                w == Len(all) \div n
            IN SubSeq(all, (k - 1) * w + 1, k * w)])

LeafLabel(t, f) == t \o "_" \o Leaves(t, "")[f].path

(* What a consumer of the C++ gets by an answer of Find.                   *)
Got(row) ==
  LET n == Len(Instances(asked))
      k == CHOOSE k \in 1 .. n : ToString(k - 1) = row
  IN CASE job.layout = "aos" -> Said(Defined(asked \o "_Instances::" \o row).init)
       [] job.layout = "aos-linear" ->
            Said(Element(Defined(asked \o "_Instances::All").init, k))
       [] job.layout = "soa" -> SoaRow(asked, k, n)

(* Whoever calls Find with an ID gets the value that was compiled for the  *)
(* instance with this ID, leaf by leaf, in every layout, and nothing for   *)
(* an unknown ID, a deleted instance or one of another type.  In C, the    *)
(* element at each dense index is the instance declared there.             *)
AnswersAsCompiled ==
  phase = "done" =>
    /\ job.target = "cpp" =>
         LET meant == {i \in Range(job.instances) :
                         i.type = asked /\ i.id = probe /\ i.cached /\ ~i.delete} IN
         IF meant = {} THEN answer = <<"none">>
         ELSE /\ answer # <<"none">>
              /\ \A i \in meant : Got(answer[1]) = MeaningOf(i.value, asked)
    /\ IsC =>
         \A t \in Range(Requested) : \A k \in DOMAIN Instances(t) :
           IF job.layout = "aos"
           THEN Said(Defined(t \o "_Instances").init.parts[k])
                  = MeaningOf(Instances(t)[k].value, t)
           ELSE \A f \in DOMAIN LeafTypes(t) :
                  Said(Defined(LeafLabel(t, f)).init.parts[k])
                    = Meaning(Column(t, f)[k], LeafTypes(t)[f])

-----------------------------------------------------------------------------
(* The bytes of a listing from some address, lowest first, as a number.    *)
RECURSIVE Stored(_, _)
Stored(place, w) ==
  IF w = 0 THEN 0 ELSE Cell(out, place) + 256 * Stored(place + 1, w - 1)

RECURSIVE Holds(_, _, _)
Holds(place, type, v) ==
  CASE type.kind = "string" ->
         \A b \in 1 .. type.size :
           Cell(out, place + b - 1) = IF b <= Len(v) THEN v[b] ELSE 0
    [] type.kind = "array" ->
         \A k \in DOMAIN RowMajor(v, type.dims) :
           Holds(place + (k - 1) * LeafSize(type.elem), type.elem,
                 RowMajor(v, type.dims)[k])
    [] IsDomainLeaf(type) -> Stored(place, LeafSize(type)) = DenseIndex(v)
    [] OTHER -> \A b \in 1 .. LeafSize(type) :
                  Cell(out, place + b - 1) = Word(v, LeafSize(type))[b]

(* The record at an address is what was compiled for instance k of a type. *)
Record(place, t, k) ==
  \A f \in DOMAIN LeafTypes(t) :
    Holds(place + Sum([j \in 1 .. f - 1 |-> LeafSize(LeafTypes(t)[j])]),
          LeafTypes(t)[f], Rows(t)[k][f])

(* A soa column at an index; the 6502 reads two tables for a wider leaf.   *)
InColumn(t, f, k) ==
  LET type == LeafTypes(t)[f]
      place == Address(out, LeafLabel(t, f)) + (k - 1) * LeafSize(type)
      halves == <<LeafLabel(t, f) \o "_Lo", LeafLabel(t, f) \o "_Hi">>
  IN IF job.target = "z80" \/ LeafSize(type) = 1
     THEN Holds(place, type, Column(t, f)[k])
     ELSE \A h \in 1 .. 2 :
            Cell(out, Address(out, halves[h]) + k - 1)
              = Word(Rendered(Column(t, f)[k], type), 2)[h]

(* The routines of the listing, entered at index k - 1: where they lead.   *)
Pointer(owner) == (CHOOSE b \in Range(blocks) : b.owner = owner).base
Page == [a \in 0 .. 255 |-> 0]
Pointed(page, owner) == page[Pointer(owner)] + 256 * page[Pointer(owner) + 1]

LookUp(t, k, page) == AcmeRun(out, AcmeIndexLookup(t), k - 1, Pointer(t), page)
Dispatch(d, k, page) == AcmeRun(out, AcmeDispatch(d), k - 1, Pointer(d.name), page)

FoundAt(t, k) ==
  IF job.target = "z80" THEN Z80Run(out, FindBody(t), k - 1)
  ELSE Pointed(LookUp(t, k, Page), t)

HandledAt(d, k) ==
  IF job.target = "z80" THEN Z80Run(out, RenderDispatch(d), k - 1)
  ELSE Pointed(Dispatch(d, k, Page), d.name)

(* On the chips, the routine of a type leads from every dense index to a   *)
(* record that holds what was compiled there, by a pointer table or by the *)
(* multiplication with the record size, and the routine of a domain to the *)
(* handler of the member; on the 6502 a dispatch leaves the pointer of a   *)
(* lookup that is in use alone.  (Text in 6502 soa is not checked.)        *)
ChipAnswers ==
  phase = "done" /\ job.target \in {"z80", "6502"} =>
    /\ \A d \in Range(DomainInfo) : \A k \in DOMAIN d.keys :
         /\ HandledAt(d, k) = job.handlers[Handlers(d)[k]]
         /\ job.target = "6502" /\ job.layout = "aos" =>
              \A t \in Range(Requested) : \A j \in DOMAIN Instances(t) :
                Pointed(Dispatch(d, k, LookUp(t, j, Page)), t) = FoundAt(t, j)
    /\ \A t \in Range(Requested) : \A k \in DOMAIN Instances(t) :
         IF job.layout = "aos" THEN Record(FoundAt(t, k), t, k)
         ELSE \A f \in DOMAIN LeafTypes(t) :
                ~(job.target = "6502" /\ LeafTypes(t)[f].kind = "string")
                  => InColumn(t, f, k)

(* Every export ends, with an output or with an error; so does Find.       *)
ExportTerminates == <>Ended
=============================================================================
