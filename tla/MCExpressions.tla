---------------------------- MODULE MCExpressions -----------------------------
(***************************************************************************)
(* Bodies of one or two statements on an instance with a field of every    *)
(* kind, blank or a copy: every expression of up to MCTerms atoms with     *)
(* signs and parentheses around any part, against every target; arrays of  *)
(* one and two dimensions with every nesting of up to three leaves, and    *)
(* with braces in the strings.                                             *)
(***************************************************************************)
EXTENDS Expressions

MCU8 == [kind |-> "int", lo |-> 0, hi |-> 255]
MCI8 == [kind |-> "int", lo |-> -128, hi |-> 127]
MCFloat == [kind |-> "float"]
MCText == [kind |-> "string", size |-> 3]
MCArray(dims, elem) == [kind |-> "array", dims |-> dims, elem |-> elem]

MCType ==
  [x |-> MCU8, y |-> MCI8, f |-> MCFloat, s |-> MCText,
   m |-> [kind |-> "flags", lo |-> 0, hi |-> 255],
   k |-> [kind |-> "ident", domain |-> "D"],
   a |-> MCArray(<<2>>, MCU8), g |-> MCArray(<<2, 1>>, MCI8),
   h |-> MCArray(<<2>>, MCText), o |-> MCArray(<<1>>, MCU8),
   w |-> MCArray(<<1, 2>>, MCText),
   c |-> [kind |-> "struct"]]

MCDomains ==
  [D |-> [flags |-> FALSE, members |-> [p |-> 0, q |-> 1]],
   E |-> [flags |-> FALSE, members |-> [p |-> 0]],
   M |-> [flags |-> TRUE, members |-> [none |-> 0, one |-> 1, top |-> 128, past |-> 256]]]

MCFloatLimit == 300
MCBitWidth == 12

(* Blank, and a copy whose numbers are near the ends of their ranges.      *)
MCPaths == {<<f>> : f \in DOMAIN MCType} \cup {<<"c", "x">>, <<"c", "y">>}
MCBlank == [path \in MCPaths |-> Uninit]
MCCells(dims, Of(_)) == [k |-> "array", cells |-> [p \in Positions(dims) |-> Of(p)]]
MCCopy ==
  [MCBlank EXCEPT
     ![<<"x">>] = Int_(200), ![<<"y">>] = Int_(-128), ![<<"f">>] = Fraction(1, 2),
     ![<<"m">>] = Int_(129), ![<<"s">>] = String_(2),
     ![<<"a">>] = MCCells(<<2>>, LAMBDA p : Int_(197 * p[1] - 194)),
     ![<<"g">>] = MCCells(<<2, 1>>, LAMBDA p : Int_(p[1])),
     ![<<"h">>] = MCCells(<<2>>, LAMBDA p : String_(4 - 2 * p[1])),
     ![<<"w">>] = MCCells(<<1, 2>>, LAMBDA p : String_(p[2])),
     ![<<"k">>] = [k |-> "member", domain |-> "D", key |-> "q"],
     ![<<"c">>] = [k |-> "struct"], ![<<"c", "x">>] = Int_(7)]
MCSources == {MCBlank, MCCopy}

-----------------------------------------------------------------------------
MCLit(v) == [t |-> "lit", v |-> v]
MCRef(path) == [t |-> "ref", path |-> path]
MCSign(c) == [t |-> c]
MCExpr(toks) == [k |-> "expr", tokens |-> toks]
MCString(n, braces) == [k |-> "text", bytes |-> n, braces |-> braces]
MCQuoted(n) == MCString(n, << >>)
MCGroup(parts) == [k |-> "group", parts |-> parts]

MCAtoms ==
  {MCLit(Int_(n)) : n \in {0, 2, 55, 256}} \cup
  {MCLit(Fraction(1, 2)), MCRef(<<"x">>), MCRef(<<"y">>), MCRef(<<"c", "x">>)}
MCOtherAtoms ==
  {MCRef(path) : path \in {<<"f">>, <<"m">>, <<"s">>, <<"k">>, <<"a">>, <<"c">>, <<"nil">>,
                           <<"c", "y">>, <<"x", "y">>, <<"D", "p">>, <<"D", "r">>,
                           <<"E", "p">>, <<"D">>, <<"M", "past">>, <<"M", "none">>}}
MCBits == {MCRef(<<"M", "one">>), MCRef(<<"M", "top">>), MCRef(<<"m">>), MCLit(Int_(4))}
MCOps == {MCSign(c) : c \in Arithmetic}
MCBitOps == {MCSign(c) : c \in Bitwise_}
MCOpen == MCSign("(")
MCShut == MCSign(")")

(* One, two and three operands; the parentheses, signs and the ways to get *)
(* them wrong on a few of them.                                            *)
MCPairs(atoms, ops) == {<<p, o, q>> : p \in atoms, o \in ops, q \in atoms}
MCTriples(atoms, ops) ==
  {<<p, o1, q, o2, r>> : p \in atoms, o1 \in ops, q \in atoms, o2 \in ops, r \in atoms}
MCFew == {MCLit(Int_(2)), MCRef(<<"c", "x">>), MCLit(Fraction(1, 2))}
MCFewBits == {MCRef(<<"M", "top">>), MCLit(Int_(4))}
MCBracketed(atoms, ops, sign) ==
  LET s == MCSign(sign) IN
  UNION {{<<s, e[1], e[2], e[3]>>,                        \* -a + b
          <<e[1], e[2], s, e[3]>>,                        \* a + -b
          <<s, MCOpen>> \o e \o <<MCShut>>,               \* -(a + b)
          <<e[1], o, MCOpen>> \o e \o <<MCShut>>,         \* a * (a + b)
          <<MCOpen, MCOpen>> \o e \o <<MCShut, o, e[1], MCShut>>,
          <<MCOpen>> \o e,                                \* (a + b
          e \o <<MCShut>>,                                \* a + b)
          e \o <<e[1]>>,                                  \* a + b a
          <<e[1], e[2]>>, <<e[2], s>>, << >>, <<MCOpen, MCShut>>} :
         e \in MCPairs(atoms, ops), o \in ops}

MCNumbers ==
  {<<p>> : p \in MCAtoms \cup MCOtherAtoms} \cup MCPairs(MCAtoms, MCOps)
    \cup MCTriples(MCFew, MCOps) \cup MCBracketed(MCFew, MCOps, "-")
    \cup MCPairs(MCFew, MCBitOps) \cup MCPairs({MCRef(<<"s">>), MCLit(Int_(2))}, MCOps)
MCFlags_ ==
  {<<p>> : p \in MCBits \cup MCOtherAtoms} \cup MCPairs(MCBits, MCBitOps)
    \cup MCTriples(MCFewBits, MCBitOps) \cup MCBracketed(MCFewBits, MCBitOps, "~")
    \cup MCPairs(MCFewBits, MCOps)
    \cup MCPairs({MCLit(Fraction(1, 2)), MCRef(<<"k">>), MCLit(Int_(2))}, MCBitOps)

(* The parts of a text by position.                                        *)
RECURSIVE MCPositions(_), MCPart(_, _)
MCPositions(parts) ==
  UNION {{<<i>>} \cup (IF parts[i].k = "group"
                      THEN {<<i>> \o q : q \in MCPositions(parts[i].parts)} ELSE {}) :
         i \in DOMAIN parts}
MCPart(parts, q) ==
  IF Len(q) > 1 THEN MCPart(parts[q[1]].parts, Tail(q))
  ELSE IF parts[q[1]].k = "group" THEN [k |-> "group"] ELSE parts[q[1]]

MCTo(form, field, index, parts) ==
  [form |-> form, field |-> field, index |-> index,
   rhs |-> [q \in MCPositions(parts) |-> MCPart(parts, q)]]

MCScalarStatements ==
  {MCTo("assign", field, << >>, <<MCExpr(e)>>) : field \in {"x", "y", "f"}, e \in MCNumbers}
    \cup {MCTo("assign", "m", << >>, <<MCExpr(e)>>) : e \in MCFlags_}
    \cup {MCTo("assign", field, << >>, <<MCExpr(<<p>>)>>) :
            field \in {"s", "k"}, p \in MCOtherAtoms}
    \cup {MCTo("assign", field, << >>, <<MCQuoted(n)>>) :
            field \in {"x", "m", "s", "k"}, n \in {0, 2, 3}}
    \cup {MCTo("assign", "x", << >>, <<MCExpr(<<p>>), MCExpr(<<p>>)>>) : p \in MCFew}
    \cup {MCTo(o, field, << >>, <<MCExpr(e)>>) :
            o \in Arithmetic, field \in {"x", "y", "f", "s"},
            e \in MCPairs(MCFew, MCOps) \cup {<<p>> : p \in MCFew}
                    \cup MCBracketed({MCRef(<<"c", "x">>)}, MCOps, "-")}
    \cup {MCTo(o, "m", << >>, <<MCExpr(e)>>) :
            o \in Bitwise_, e \in MCPairs(MCFewBits, MCBitOps) \cup {<<p>> : p \in MCBits}}
    \cup {MCTo("+", "m", << >>, <<MCExpr(<<MCLit(Int_(2))>>)>>)}

-----------------------------------------------------------------------------
(* Every nesting of up to three parts, one, two or three deep.             *)
MCLeaves == {MCExpr(<<MCLit(Int_(n))>>) : n \in {1, 200}} \cup {MCQuoted(1)}
MCSome(parts) == {<<p>> : p \in parts} \cup {<<p, q>> : p \in parts, q \in parts}
MCThree(p) == {<<p, p, p>>}
MCFlat == MCSome(MCLeaves) \cup MCThree(MCExpr(<<MCLit(Int_(1))>>))
MCGroups == {MCGroup(parts) : parts \in MCFlat}
MCSmallGroups ==
  {MCGroup(<<p>>) : p \in MCLeaves} \cup {MCGroup(<<MCExpr(<<MCLit(Int_(1))>>)>>),
                                         MCGroup(<<MCExpr(<<MCRef(<<"x">>)>>), MCQuoted(3)>>)}
MCNestings ==
  MCFlat \cup {<<p>> : p \in MCGroups} \cup MCSome(MCSmallGroups)
    \cup {<<MCGroup(parts)>> : parts \in MCSome(MCSmallGroups)}
    \cup {<<MCGroup(<<MCGroup(parts)>>)>> : parts \in MCSome(MCSmallGroups)}
    \cup {<<p, q>> : p \in MCSmallGroups, q \in MCLeaves}

(* Strings with braces, by themselves, in a pair of braces and in two, and *)
(* one in each of two groups; without the texts that Split leaves out.     *)
MCBraces == {MCString(Len(b), b) : b \in {<<"{">>, <<"}">>, <<"}", "{">>, <<"{", "}">>}}
MCBraced ==
  LET two == MCSome(MCBraces \cup {MCQuoted(1)})
      once == {MCGroup(parts) : parts \in two}
  IN two \cup {<<p>> : p \in once} \cup {<<MCGroup(<<p>>)>> : p \in once}
       \cup {<<MCGroup(<<p, q>>)>> : p \in {MCGroup(<<t>>) : t \in MCBraces}, q \in once}
       \cup {<<MCGroup(<<p>>), MCGroup(<<q>>)>> : p \in MCBraces, q \in MCBraces}

MCArrayStatements ==
  {MCTo("assign", field, << >>, parts) :
     field \in {"a", "g", "h", "o", "w"}, parts \in MCNestings}
    \cup {s \in {MCTo("assign", field, << >>, parts) :
                    field \in {"h", "o", "w"}, parts \in MCBraced} : Split(s.rhs)}
    \cup {MCTo("assign", field, <<i>>, <<p>>) :
            field \in {"a", "g", "h"}, i \in {0, 1, 2},
            p \in MCLeaves \cup {MCQuoted(3), MCGroup(<<MCQuoted(1)>>),
                                 MCExpr(<<MCRef(<<"x">>), MCSign("+"), MCLit(Int_(1))>>)}}
    \cup {MCTo(o, field, <<i>>, <<MCExpr(e)>>) :
            o \in Arithmetic \cup {"|"}, field \in {"a", "g", "h"}, i \in {0, 1, 2},
            e \in {<<p>> : p \in MCFew} \cup MCPairs(MCFew, MCOps)}

(* A second statement works on what the first one stored.                  *)
MCLater ==
  {MCTo("-", "x", << >>, <<MCExpr(<<MCLit(Int_(250)), MCSign("+"), MCLit(Int_(250))>>)>>),
   MCTo("*", "x", << >>, <<MCExpr(<<MCLit(Fraction(1, 2))>>)>>),
   MCTo("+", "a", <<0>>, <<MCExpr(<<MCRef(<<"x">>)>>)>>),
   MCTo("assign", "a", << >>, <<MCExpr(<<MCRef(<<"x">>)>>), MCExpr(<<MCRef(<<"y">>)>>)>>)}
MCFirst ==
  {MCTo("assign", field, << >>, <<MCExpr(<<p>>)>>) : field \in {"x", "y", "f"}, p \in MCAtoms}
    \cup {MCTo("assign", "a", << >>, parts) : parts \in MCFlat}

MCLists ==
  {<<s>> : s \in MCScalarStatements \cup MCArrayStatements}
    \cup {<<s, later>> : s \in MCFirst, later \in MCLater}
=============================================================================
