---------------------------- MODULE MCStatements ----------------------------
(* An instance of type H, with a number hp, an identifier d, an array arr  *)
(* and a struct w of type W, which has a number, an identifier and a       *)
(* struct w of type V; zz is a field of none of them.  Bodies of up to two *)
(* statements of any kind, and of three of Few.                            *)
EXTENDS Statements

MCStruct == {"H", "W", "V"}
MCDomain == {"D", "E"}
MCField == {"hp", "d", "arr", "w", "zz"}
MCFieldType ==
  [t \in MCStruct |->
     CASE t = "H" ->
            [hp |-> "scalar", d |-> "D", arr |-> "list", w |-> "W", zz |-> "none"]
       [] t = "W" ->
            [hp |-> "scalar", d |-> "E", arr |-> "none", w |-> "V", zz |-> "none"]
       [] OTHER ->
            [hp |-> "scalar", d |-> "none", arr |-> "list", w |-> "none", zz |-> "none"]]
MCDepth == 3

Literal == [form |-> "literal"]
Inst == [form |-> "instance"]
St(op, field, index, rhs, stmts) ==
  [op |-> op, field |-> field, index |-> index, rhs |-> rhs, body |-> stmts]
Plain(field, rhs) == St("assign", field, FALSE, rhs, << >>)

Member(dom) == [form |-> "member", domain |-> dom]
Named(f) == [form |-> "name", field |-> f]

Simple ==
  {Plain(f, r) : f \in {"hp", "d", "zz"},
                 r \in {Literal, Inst, Member("D"), Member("E"), Named("d"), Named("w")}}
Odd ==
  {Plain("arr", [form |-> "list"]), Plain("arr", Literal), Plain("w", Literal),
   Plain("d", [form |-> "unknown", domain |-> "D"]), Plain("d", Named("zz")),
   Plain("hp", [form |-> "list"]),
   St("assign", "arr", TRUE, Literal, << >>), St("assign", "hp", TRUE, Literal, << >>),
   St("assign", "w", TRUE, Inst, << >>), St("raw", "hp", FALSE, Literal, << >>)}
  \cup {St("op", f, x, Literal, << >>) : f \in {"hp", "arr", "w", "zz"}, x \in BOOLEAN}
  \cup {St("op", "hp", FALSE, Named(f), << >>) : f \in {"hp", "d"}}

Children ==
  {<< >>} \cup {<<s>> : s \in {Plain("hp", Literal), Plain("d", Member("E")),
                               Plain("d", Literal), Plain("zz", Literal),
                               Plain("d", Named("hp"))}}
Nested ==
  {St("bare", f, FALSE, Literal, b) : f \in {"w", "hp"}, b \in Children}
  \cup {St("assign", f, FALSE, Inst, b) : f \in {"w", "hp"}, b \in Children}
Deep ==
  {St("bare", "w", FALSE, Literal, <<s, t>>) :
     s, t \in {Plain("hp", Literal), Plain("zz", Literal),
               St("assign", "hp", FALSE, Literal, <<Plain("hp", Literal)>>),
               St("assign", "w", FALSE, Inst, <<Plain("d", Literal)>>),
               St("bare", "w", FALSE, Literal, <<Plain("arr", Literal)>>)}}
  \cup {St("assign", "w", FALSE, Inst,
           <<St(op, "w", FALSE, Inst, <<Plain("arr", [form |-> f])>>)>>) :
          op \in {"assign", "bare"}, f \in {"literal", "list"}}

Few == {Plain("hp", Literal), Plain("d", Member("D")), Plain("zz", Literal),
        St("op", "zz", FALSE, Literal, << >>), St("op", "arr", TRUE, Literal, << >>),
        Plain("arr", [form |-> "list"]), St("bare", "w", FALSE, Literal, << >>)}
  \cup {St("assign", "w", FALSE, Inst, b) : b \in Children}

AnyStmt == Simple \cup Odd \cup Nested \cup Deep
(* The statements of a list of these, each with its own, by position.      *)
RECURSIVE Flat(_, _)
Flat(stmts, at) ==
  FoldLeft(LAMBDA f, k :
             f @@ (Append(at, k) :>
                     [op |-> stmts[k].op, field |-> stmts[k].field,
                      index |-> stmts[k].index, rhs |-> stmts[k].rhs])
               @@ Flat(stmts[k].body, Append(at, k)),
           << >>, [k \in DOMAIN stmts |-> k])

MCBodies ==
  {Flat(b, << >>) : b \in {<< >>} \cup [1 .. 1 -> AnyStmt] \cup [1 .. 2 -> AnyStmt]
                            \cup [1 .. 3 -> Few]}
=============================================================================
