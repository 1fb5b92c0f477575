---------------------------- MODULE MCFieldStore ----------------------------
(* Types P (a number x, an array r, a struct c of type Q), Q (x and r) and *)
(* R (x only, so that P and R disagree), T (x, and c of type P); an        *)
(* instance q of type Q, and bodies of a few statements for a, of type P   *)
(* or T, and for b, which copies a.                                        *)
(* The programs differ in whether a body may assign one field to another,  *)
(* and in whether b has a's type.                                          *)
EXTENDS FieldStore

MCInstance == {"q", "a", "b"}
MCField == {"x", "r", "c"}
MCStruct == {"P", "Q", "R", "T"}
MCFieldType ==
  [t \in MCStruct |->
     CASE t = "P" -> [x |-> "num", r |-> "list", c |-> "Q"]
       [] t = "Q" -> [x |-> "num", r |-> "list", c |-> "none"]
       [] t = "R" -> [x |-> "num", r |-> "none", c |-> "none"]
       [] t = "T" -> [x |-> "num", r |-> "none", c |-> "P"]]

St(op, field, num) ==
  [op |-> op, field |-> field, num |-> num, from |-> "x", body |-> << >>]

Simple == {St("set", "x", 1), St("set", "r", 1), St("elem", "r", 2)}
Sum == {St("add", "x", 1)}
Bodies == {<< >>} \cup {<<s>> : s \in Simple}
Nested ==
  {[op |-> "bare", field |-> "c", num |-> 0, from |-> "x", body |-> b] : b \in Bodies}
  \cup {[op |-> "copy", field |-> "c", num |-> 0, from |-> "q", body |-> b] :
          b \in Bodies}
Gets == {[St("get", "x", 0) EXCEPT !.from = g] : g \in {"r", "c"}}

Decl(t, source, body) ==
  [type |-> t, source |-> source, isDelete |-> FALSE, body |-> body]

Full == <<St("set", "x", 1), St("set", "r", 1)>>
Upto(k, stmts) == UNION {[1 .. i -> stmts] : i \in 0 .. k}

(* Copies of copies, nothing read from a field. *)
Plain ==
  {[q |-> Decl("Q", NoSource, q),
    a |-> [Decl("P", NoSource, a) EXCEPT !.isDelete = d],
    b |-> Decl("P", "a", b)] :
     q \in {Full, <<Full[1]>>}, d \in BOOLEAN,
     a \in Upto(2, Simple \cup Nested) \cup {Full \o <<n>> : n \in Nested},
     b \in Upto(1, Simple \cup Nested \cup Sum)}

(* One field assigned another's value, then changed through either name. *)
Aliasing ==
  {[q |-> Decl("Q", NoSource, Full),
    a |-> Decl("P", NoSource, a),
    b |-> Decl("P", "a", b)] :
     a \in {<<Full[2]>> \o s : s \in Upto(2, Simple \cup Nested \cup Gets)},
     b \in Upto(1, Simple \cup Nested \cup Gets)}

(* b is declared with any type, whatever the type of the a it copies. *)
Confused ==
  {[q |-> Decl("Q", NoSource, Full),
    a |-> Decl(t, NoSource, a),
    b |-> Decl(u, "a", b)] :
     t \in {"Q", "R"}, u \in MCStruct,
     a \in Upto(2, Simple \cup {St("set", "c", 1)}),
     b \in Upto(1, Simple \cup Nested)}

(* Scopes two deep, the outer one also held by another field. *)
Bare(body) == [op |-> "bare", field |-> "c", num |-> 0, from |-> "x", body |-> body]
Below == {Bare(<<n>>) : n \in Nested}
Deep ==
  {[q |-> Decl("Q", NoSource, Full),
    a |-> Decl("T", NoSource, <<Bare(<< >>)>> \o a),
    b |-> Decl("T", "a", b)] :
     a \in Upto(2, Below \cup Gets), b \in Upto(1, Below)}

MCPrograms == Plain \cup Aliasing \cup Confused \cup Deep
MCStatement ==
  Simple \cup Sum \cup Gets \cup Nested \cup Below
    \cup {Full[1], Full[2], St("set", "c", 1), Bare(<< >>)}
=============================================================================
