----------------------------- MODULE ChipOutput -----------------------------
(***************************************************************************)
(* The listings for the 6502 (ACME) and the Z80 (SjASMPlus): tables of     *)
(* data, and the generated routines that look up an instance by its dense  *)
(* index and jump to the handler of a domain member.  A listing is a       *)
(* sequence of labelled segments of bytes; the assembler is what gives a   *)
(* label its address.  The routines are run, instruction by instruction,   *)
(* on the registers that they use.  Both exporters gather in the same way. *)
(***************************************************************************)
EXTENDS Schema

IsDomainLeaf(type) == type.kind \in {"ident", "indexed"}

LeavesUsed == UNION {Range(LeafTypes(t)) : t \in Range(Requested)}

DomainsUsed == {type.domain : type \in {l \in LeavesUsed : IsDomainLeaf(l)}}
FlagsUsed == {type.domain : type \in {l \in LeavesUsed : l.kind = "flags"}}

MissingWidth == \E d \in DomainsUsed : Domain(d).width = 0

DomainInfo ==
  SelectSeq(job.domains, LAMBDA d :
    d.kind = "identifier" /\ d.width # 0 /\ (d.name \in DomainsUsed \/ job.allDomains))

FlagsInfo ==
  SelectSeq(job.domains, LAMBDA d :
    d.kind = "flags" /\ (d.name \in FlagsUsed \/ job.allDomains))

(* On these targets an identifier is its dense index, written @ or not.    *)
Rendered(v, type) ==
  CASE IsDomainLeaf(type) -> DenseIndex(v)
    [] type.kind = "array" -> RowMajor(v, type.dims)
    [] OTHER -> v

Byte(n) == [label |-> "", value |-> n]
Low(label) == [label |-> label, value |-> 0]
High(label) == [label |-> label, value |-> 1]
Segment(label, cells) == [label |-> label, cells |-> cells]

ByteOf(n, k) == (n \div <<1, 256, 65536, 16777216>>[k]) % 256

(* The bytes that a directive of a width reserves for a value.             *)
Directive(n, width) == [k \in 1 .. width |-> Byte(ByteOf(n, k))]
TextCells(v, size) == [k \in 1 .. size |-> Byte(IF k <= Len(v) THEN v[k] ELSE 0)]

(* The width of the directive of a leaf: a domain's is that of the domain. *)
DirectiveWidth(type) ==
  IF type.kind = "int" THEN type.bytes ELSE Domain(type.domain).width

LeafCells(v, type) ==
  LET shown == Rendered(v, type) IN
  CASE type.kind = "string" -> TextCells(v, type.size)
    [] type.kind = "array" ->
         FlattenSeq([k \in DOMAIN shown |->
           IF type.elem.kind = "string" THEN TextCells(shown[k], type.elem.size)
           ELSE Directive(shown[k], DirectiveWidth(type.elem))])
    [] OTHER -> Directive(shown, DirectiveWidth(type))

InstanceData(t) ==
  [k \in DOMAIN Rows(t) |->
     Segment(t \o "_" \o Instances(t)[k].name,
             FlattenSeq([f \in DOMAIN LeafTypes(t) |->
                           LeafCells(Rows(t)[k][f], LeafTypes(t)[f])]))]

Labels(t) == [k \in DOMAIN Instances(t) |-> t \o "_" \o Instances(t)[k].name]
Handlers(d) == [k \in DOMAIN d.keys |-> d.name \o "_" \o d.keys[k] \o "_Handler"]
Split(label, targets) ==
  <<Segment(label \o "_Lo", [k \in DOMAIN targets |-> Low(targets[k])]),
    Segment(label \o "_Hi", [k \in DOMAIN targets |-> High(targets[k])])>>
Words(label, targets) ==
  Segment(label, FlattenSeq([k \in DOMAIN targets |-> <<Low(targets[k]), High(targets[k])>>]))

Each(seq, Op(_)) == FlattenSeq([k \in DOMAIN seq |-> Op(seq[k])])

-----------------------------------------------------------------------------
(* The widths that an ACME directive exists for, at the use of the leaf.   *)
AcmeTakes(type, layout) ==
  CASE type.kind = "int" -> type.bytes <= 2
    [] type.kind = "float" -> FALSE
    [] type.kind = "string" -> TRUE
    [] type.kind = "array" ->
         /\ layout = "aos" /\ type.elem.kind # "float"
         /\ type.elem.kind = "int" => type.elem.bytes <= 2
    [] OTHER -> Domain(type.domain).width \in (IF layout = "aos" THEN {1, 2, 4} ELSE {1, 2})

AcmeRenders ==
  \A t \in Range(Requested) :
    job.layout = "soa" \/ Instances(t) # << >> =>
      \A type \in Range(LeafTypes(t)) : AcmeTakes(type, job.layout)

(* A soa column is split in two tables where it is wider than a byte; text *)
(* is not refused here, its characters are written as a symbol.            *)
AcmeColumn(t, f) ==
  LET type == LeafTypes(t)[f]
      label == t \o "_" \o Leaves(t, "")[f].path
      half(h) == [k \in DOMAIN Rows(t) |->
                    Byte(ByteOf(Rendered(Column(t, f)[k], type), h))]
  IN IF type.kind = "string" THEN << >>
     ELSE IF DirectiveWidth(type) = 1 THEN <<Segment(label, half(1))>>
     ELSE <<Segment(label \o "_Lo", half(1)), Segment(label \o "_Hi", half(2))>>

RenderAcme ==
  Each(DomainInfo, LAMBDA d : Split(d.name \o "_JumpTable", Handlers(d)))
    \o IF job.layout = "soa"
       THEN Each(Requested, LAMBDA t :
              FlattenSeq([f \in DOMAIN LeafTypes(t) |-> AcmeColumn(t, f)]))
       ELSE Each(Requested, InstanceData)
              \o Each(Requested, LAMBDA t : Split(t \o "_Registry", Labels(t)))

-----------------------------------------------------------------------------
Z80Takes(type) ==
  CASE type.kind = "int" -> type.bytes <= 2
    [] type.kind = "string" -> TRUE
    [] type.kind = "array" -> /\ type.elem.kind # "float"
                              /\ type.elem.kind = "int" => type.elem.bytes <= 2
    [] type.kind \in {"ident", "indexed"} -> Domain(type.domain).width <= 2
    [] OTHER -> FALSE

(* The size of a leaf as type_sizeof has it, apart from any directive.     *)
RECURSIVE LeafSize(_)
LeafSize(type) ==
  CASE type.kind = "string" -> type.size
    [] type.kind = "int" -> type.bytes
    [] type.kind = "array" -> LeafSize(type.elem) * Product(type.dims)
    [] OTHER -> Domain(type.domain).width

TypeSizeof(t) == Sum([f \in DOMAIN LeafTypes(t) |-> LeafSize(LeafTypes(t)[f])])

(* Under soa no size is asked for, and a flags column has a directive.     *)
Z80ColumnTakes(type) ==
  CASE type.kind = "int" -> type.bytes <= 2
    [] type.kind \in {"ident", "indexed", "flags"} -> Domain(type.domain).width <= 2
    [] OTHER -> FALSE

Z80Renders ==
  \A t \in Range(Requested) :
    IF job.layout = "soa" THEN \A type \in Range(LeafTypes(t)) : Z80ColumnTakes(type)
    ELSE /\ \A type \in Range(LeafTypes(t)) : Z80Takes(type)
         /\ ~job.pointerTable => TypeSizeof(t) >= 1

RenderSjasmplus ==
  Each(DomainInfo, LAMBDA d : <<Words(d.name \o "_JumpTable", Handlers(d))>>)
    \o IF job.layout = "soa"
       THEN Each(Requested, LAMBDA t :
              [f \in DOMAIN LeafTypes(t) |->
                 Segment(t \o "_" \o Leaves(t, "")[f].path,
                         Each(Column(t, f), LAMBDA v : LeafCells(v, LeafTypes(t)[f])))])
       ELSE Each(Requested, LAMBDA t :
                   <<Segment(t \o "_Instances", << >>)>> \o InstanceData(t))
              \o Each(Requested, LAMBDA t :
                   IF job.pointerTable THEN <<Words(t \o "_Registry", Labels(t))>>
                   ELSE << >>)

(* Multiplication by a constant: from the bit below the highest one down,  *)
(* a doubling, and an addition where the bit is set.                       *)
RECURSIVE ShiftAdd(_)
ShiftAdd(n) ==
  IF n = 1 THEN << >>
  ELSE ShiftAdd(n \div 2) \o <<<<"add hl,hl">>>>
         \o IF n % 2 = 1 THEN <<<<"add hl,de">>>> ELSE << >>

RECURSIVE Ones(_)
Ones(n) == IF n = 0 THEN 0 ELSE (n % 2) + Ones(n \div 2)

(* Mutant of NeedsIndexCopy: the index is copied for the even sizes only. *)
NeedsIndexCopyEven(n) == Ones(n) > 1 /\ n % 2 = 0

NeedsIndexCopy(n) == Ones(n) > 1

Fetch == <<<<"ld a,(hl)">>, <<"inc hl">>, <<"ld h,(hl)">>, <<"ld l,a">>>>

FindBody(t) ==
  <<<<"ld l,a">>, <<"ld h,0">>>>
    \o IF job.pointerTable
       THEN <<<<"add hl,hl">>, <<"ld de,", t \o "_Registry">>, <<"add hl,de">>>> \o Fetch
       ELSE (IF NeedsIndexCopy(TypeSizeof(t))
             THEN <<<<"ld d,h">>, <<"ld e,l">>>> ELSE << >>)
            \o ShiftAdd(TypeSizeof(t))
            \o <<<<"ld de,", t \o "_Instances">>, <<"add hl,de">>>>

RenderDispatch(d) ==
  <<<<"ld l,a">>, <<"ld h,0">>, <<"add hl,hl">>, <<"ld de,", d.name \o "_JumpTable">>,
    <<"add hl,de">>>> \o Fetch

AcmeDispatch(d) ==
  <<<<"lda,x", d.name \o "_JumpTable_Lo">>, <<"sta", 0>>,
    <<"lda,x", d.name \o "_JumpTable_Hi">>, <<"sta", 1>>>>

AcmeIndexLookup(t) ==
  <<<<"lda,x", t \o "_Registry_Lo">>, <<"sta", 0>>,
    <<"lda,x", t \o "_Registry_Hi">>, <<"sta", 1>>>>

-----------------------------------------------------------------------------
(* The assembler: a label is where the segments before it end, counted     *)
(* from the origin; the labels of handlers are the user's.                 *)
Address(listing, label) ==
  IF label \in DOMAIN job.handlers THEN job.handlers[label]
  ELSE LET s == CHOOSE s \in DOMAIN listing : listing[s].label = label IN
       job.origin + Sum([k \in 1 .. s - 1 |-> Len(listing[k].cells)])

(* Outside the listing there is no byte of the export, and no answer.      *)
Cell(listing, addr) ==
  LET cells == Each(listing, LAMBDA s : s.cells)
      k == addr - job.origin + 1
  IN IF k \notin DOMAIN cells THEN -1
     ELSE IF cells[k].label = "" THEN cells[k].value
     ELSE ByteOf(Address(listing, cells[k].label), cells[k].value + 1)

Z80Step(listing, cpu, i) ==
  LET h == cpu.hl \div 256
      l == cpu.hl % 256
  IN CASE i[1] = "ld l,a" -> [cpu EXCEPT !.hl = h * 256 + cpu.a]
       [] i[1] = "ld h,0" -> [cpu EXCEPT !.hl = l]
       [] i[1] = "ld d,h" -> [cpu EXCEPT !.de = h * 256 + (@ % 256)]
       [] i[1] = "ld e,l" -> [cpu EXCEPT !.de = @ - (@ % 256) + l]
       [] i[1] = "ld de," -> [cpu EXCEPT !.de = Address(listing, i[2])]
       [] i[1] = "add hl,hl" -> [cpu EXCEPT !.hl = (2 * @) % 65536]
       [] i[1] = "add hl,de" -> [cpu EXCEPT !.hl = (@ + cpu.de) % 65536]
       [] i[1] = "inc hl" -> [cpu EXCEPT !.hl = (@ + 1) % 65536]
       [] i[1] = "ld a,(hl)" -> [cpu EXCEPT !.a = Cell(listing, cpu.hl)]
       [] i[1] = "ld h,(hl)" -> [cpu EXCEPT !.hl = Cell(listing, cpu.hl) * 256 + l]

(* What HL holds when a routine that is entered with A has run.            *)
Z80Run(listing, code, index) ==
  FoldLeft(LAMBDA cpu, i : Z80Step(listing, cpu, i),
           [a |-> index, hl |-> 48879, de |-> 51966], code).hl

(* The zero page when a routine that is entered with X has run, given the  *)
(* address of its pointer.                                                 *)
AcmeRun(listing, code, index, pointer, page) ==
  FoldLeft(LAMBDA cpu, i :
             IF i[1] = "lda,x"
             THEN [cpu EXCEPT !.a = Cell(listing, Address(listing, i[2]) + index)]
             ELSE [cpu EXCEPT !.page[pointer + i[2]] = cpu.a],
           [a |-> 0, page |-> page], code).page
=============================================================================
