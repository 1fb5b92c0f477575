----------------------------- MODULE MCExports ------------------------------
(* Three types in all the ways they can contain each other, with two struct *)
(* fields at most; and a schema with every kind of leaf, exported in every  *)
(* layout by every exporter, with instances out of the order of their IDs.  *)
EXTENDS Exports

Int_(bytes) == [kind |-> "int", bytes |-> bytes, signed |-> TRUE]
Str(n) == [kind |-> "string", size |-> n]
Struct(t) == [kind |-> "struct", name |-> t]
Ident(d) == [kind |-> "ident", domain |-> d]
Indexed(d) == [kind |-> "indexed", domain |-> d]
Flags(d) == [kind |-> "flags", domain |-> d]
Array(elem, dims) == [kind |-> "array", elem |-> elem, dims |-> dims]
Field(name, type) == [name |-> name, type |-> type]
Key(d, k) == [domain |-> d, key |-> k]

MCRow == {"sword", "home", "axe", "bow", "red", "hot", "i", "j", "k", "0", "1", "2"}
MCType == {"Pos", "Item", "Tag"}
MCSchemaHash(leaves) == 1000 + 7 * Len(leaves)

Kind == [name |-> "Kind", kind |-> "identifier", width |-> 1,
         keys |-> <<"a", "b", "c">>, ids |-> <<700, 70, 999>>]
Wide == [name |-> "Wide", kind |-> "identifier", width |-> 2,
         keys |-> <<"x", "y">>, ids |-> <<31, 17>>]
Bare == [Wide EXCEPT !.name = "Bare", !.width = 0]
Bits == [name |-> "Bits", kind |-> "flags", width |-> 1,
         keys |-> <<"p", "q">>, ids |-> <<1, 2>>]

MCHandlers ==
  [Kind_a_Handler |-> 4660, Kind_b_Handler |-> 22136, Kind_c_Handler |-> 4884,
   Wide_x_Handler |-> 255, Wide_y_Handler |-> 256]

Base ==
  [types |-> <<"Item", "Pos", "Tag">>, fields |-> << >>, domains |-> << >>,
   instances |-> << >>, requested |-> << >>, target |-> "cpp", layout |-> "aos",
   split |-> FALSE, allDomains |-> FALSE, pointerTable |-> FALSE, origin |-> 32768,
   handlers |-> MCHandlers, base |-> << >>,
   nameBytes |-> [Item |-> <<73, 116>>, Pos |-> <<80>>, Tag |-> <<84, 97, 103>>]]

(* ---- Compositions: a number, and up to two structs. ---- *)
Structs0 == UNION {[1 .. n -> MCType] : n \in 0 .. 2}
Composed(s) == <<Field("n", Int_(1))>> \o [k \in DOMAIN s |-> Field(<<"u", "v">>[k], Struct(s[k]))]
Shapes == {[t \in MCType |-> Composed(s[t])] : s \in [MCType -> Structs0]}
Compositions ==
  {[Base EXCEPT !.fields = f, !.layout = "aos-linear"] : f \in Shapes}
  \cup {[Base EXCEPT !.fields = f, !.target = "68000", !.requested = <<"Pos">>] :
          f \in Shapes}

(* ---- A schema with every kind of leaf. ---- *)
Pos == <<Field("x", Int_(2)), Field("y", Int_(1))>>
Tag == <<Field("names", Array(Str(3), <<2>>)), Field("n", Int_(1))>>
Item(extra) ==
  <<Field("at", Struct("Pos")), Field("name", Str(4)), Field("kind", Ident("Kind")),
    Field("grid", Array(Int_(1), <<2, 3>>))>> \o extra

PosOf(x, y) == [x |-> x, y |-> y]
TagOf(a, b, n) == [names |-> <<a, b>>, n |-> n]
ItemOf(x, name, k, g) ==
  [at |-> PosOf(x, k), name |-> name, kind |-> Key("Kind", <<"a", "b", "c">>[k]),
   grid |-> <<<<g, 2, 3>>, <<4, 5, g>>>>,
   idx |-> Key("Kind", <<"c", "a", "b">>[k]), wide |-> Key("Wide", <<"x", "y">>[(k % 2) + 1]),
   bits |-> k]

Inst(name, t, id, v) ==
  [name |-> name, type |-> t, id |-> id, value |-> v, delete |-> FALSE, cached |-> TRUE]

MCInstances ==
  <<Inst("sword", "Item", 900, ItemOf(-2, <<72, 105>>, 1, 9)),
    Inst("home", "Pos", 40, PosOf(300, 7)),
    Inst("axe", "Item", 20, ItemOf(515, <<65, 66, 67>>, 3, -1)),
    [Inst("gone", "Item", 500, ItemOf(1, <<88>>, 2, 0)) EXCEPT !.delete = TRUE],
    Inst("bow", "Item", 310, ItemOf(0, << >>, 2, 5)),
    Inst("red", "Tag", 65536, TagOf(<<82>>, <<82, 100>>, 3))>>

Idx == <<Field("idx", Indexed("Kind"))>>
WideLeaf == <<Field("wide", Ident("Wide"))>>
Rich(extra) ==
  [Base EXCEPT !.fields = [Pos |-> Pos, Tag |-> Tag, Item |-> Item(extra)],
               !.domains = <<Kind, Wide, Bits>>, !.instances = MCInstances]

FlagsLeaf == <<Field("bits", Flags("Bits"))>>
Full == Rich(Idx \o FlagsLeaf)

(* Three levels: Tag contains Item, which contains Pos. *)
Deep ==
  [Rich(WideLeaf) EXCEPT
     !.fields.Tag = <<Field("of", Struct("Item"))>> \o Tag
                      \o <<Field("grids", Array(Str(2), <<1, 2>>))>>,
     !.instances = SubSeq(@, 1, 5) \o
        [k \in 1 .. 2 |->
           Inst(<<"red", "hot">>[k], "Tag", <<800, 8>>[k],
                [of |-> ItemOf(k, <<75>>, k, k), names |-> <<<<82>>, << >>>>, n |-> -k,
                 grids |-> <<<<<<74>>, <<75>>>>>>])]]

(* IDs in every order, for the search and the sorting. *)
Sorted ==
  {[Base EXCEPT !.fields = [name \in MCType |-> Pos],
                !.instances = [k \in 1 .. 3 |-> Inst(<<"i", "j", "k">>[k], "Pos", ids[k],
                                                     PosOf(k, 10 * k))]] :
     ids \in {ids \in [1 .. 3 -> {10, 20, 30}] : ids[1] # ids[2] /\ ids[3] \notin {ids[1], ids[2]}}}

(* Tag has one instance, or with a few taken away two types have none. *)
Few == [Full EXCEPT !.instances = SubSeq(@, 1, 2)]

CppJobs ==
  {[j EXCEPT !.layout = l, !.split = s, !.allDomains = a] :
     j \in {Full, Few, Deep} \cup Sorted, l \in {"aos", "aos-linear", "soa"}, s \in BOOLEAN, a \in BOOLEAN}

BinJobs ==
  {[Full EXCEPT !.target = "bin", !.requested = r] :
     r \in {<<"Item">>, <<"Tag", "Item", "Pos">>, <<"Pos", "Pos">>}}
  \cup {[j EXCEPT !.target = "bin", !.requested = <<"Tag", "Item">>] : j \in {Few, Deep}}

Flat == [Base EXCEPT !.fields = [Pos |-> Pos, Tag |-> <<Field("n", Int_(1))>>,
                                 Item |-> SubSeq(Item(<< >>), 1, 1)
                                            \o <<Field("kind", Ident("Kind"))>> \o WideLeaf],
                     !.domains = <<Kind, Wide>>, !.instances = SubSeq(MCInstances, 1, 5)]

Asked(j, target) == [j EXCEPT !.target = target, !.requested = <<"Pos", "Item", "Tag">>]

Z80Jobs ==
  {[Asked(j, "z80") EXCEPT !.pointerTable = p, !.layout = l] :
     j \in {Rich(Idx), Rich(WideLeaf), Full, Flat, Deep}, p \in BOOLEAN, l \in {"aos", "soa"}}

Bases == {<< >>, <<2>>, <<246>>, <<247>>, <<248>>, <<256>>}
AcmeJobs ==
  {[Asked(j, "6502") EXCEPT !.base = b, !.layout = l, !.allDomains = a] :
     j \in {Full, Flat, Deep}, b \in Bases, l \in {"aos", "soa"}, a \in BOOLEAN}

CJobs ==
  {[Asked(j, t) EXCEPT !.layout = l, !.pointerTable = TRUE] :
     j \in {Full, Rich(Idx), Flat, Deep}, t \in {"68000", "z88dk"}, l \in {"aos", "soa"}}

(* A domain without a width, and types that contain each other. *)
Refused ==
  {[Asked(Rich(<<Field("wide", Ident("Bare"))>>), t) EXCEPT !.domains = Append(@, Bare)] :
     t \in {"z80", "68000"}}
  \cup {[Base EXCEPT !.fields = [name \in MCType |-> Composed(<<"Item">>)],
                     !.target = t, !.requested = <<"Tag">>] : t \in {"bin", "z80"}}

MCJobs == Compositions \cup CppJobs \cup BinJobs \cup Z80Jobs \cup AcmeJobs \cup CJobs
            \cup Refused
=============================================================================
