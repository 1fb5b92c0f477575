----------------------------- MODULE Expressions ------------------------------
(***************************************************************************)
(* Phase 7, fused into phase 6: what a statement of an instance's body     *)
(* computes and stores in a scalar, flags, identifier or array field.  The *)
(* descent of _parse_operand and _fold_left goes over an expression token  *)
(* by token, with its active calls on a stack; _parse_array_group goes     *)
(* over the parts of an array literal.                                     *)
(* Tokens are [t |-> the character] for operators and parentheses,         *)
(* [t |-> "lit", v] for literals (bN too) and [t |-> "ref", path] for      *)
(* names.  A float is an exact fraction, not in lowest terms, so that      *)
(* rounding is left out; the largest magnitude of f32 is FloatLimit.       *)
(* Integers are unbounded, as in Python, until they are stored.  A list    *)
(* or a struct stored in another field is copied here, shared in Python.   *)
(***************************************************************************)
EXTENDS Integers, Sequences, SequencesExt

CONSTANTS Type,             \* the fields, with their types, records with a "kind"
          Domains,          \* [domain -> [member -> its bits, or an ID]]
          FloatLimit,
          BitWidth,         \* operands of | & ^ have so many bits at most
          Sources, Lists    \* what a body starts from (a blank instance or the
                            \* copy of another), and its statements

VARIABLES scope,            \* the values by path: <<field>>, and below structs
          todo,             \* the statements left
          verdict,          \* run; error, a compile error; crash, a Python one
          step,             \* next, operand, value or part: what comes next
          tokens, pos,      \* the expression, and the next token of it
          calls,            \* the calls that wait for a value, outermost first
          value,            \* the value they get
          at, cells         \* in an array literal: the part, and the elements
                            \* that are done

exprVars == <<scope, todo, verdict, step, tokens, pos, calls, value, at, cells>>

Uninit == [k |-> "uninit"]
Int_(n) == [k |-> "num", n |-> n, d |-> 1, float |-> FALSE]
Fraction(n, d) ==
  [k |-> "num", n |-> IF d < 0 THEN -n ELSE n, d |-> IF d < 0 THEN -d ELSE d,
   float |-> TRUE]
String_(bytes) == [k |-> "text", bytes |-> bytes]
IsNum(v) == v.k = "num"
IsInt(v) == IsNum(v) /\ ~v.float

Number ==
  [k : {"num"}, n : Int, d : {1}, float : {FALSE}]
    \cup [k : {"num"}, n : Int, d : Nat \ {0}, float : {TRUE}]

(* Outcomes: a value; a compile error; a Python error.                     *)
Yields(v) == [out |-> "ok", v |-> v]
Fails == [out |-> "error", v |-> Uninit]
Raises == [out |-> "crash", v |-> Uninit]

Arithmetic == {"+", "-", "*", "/"}
Bitwise_ == {"|", "&", "^"}
Operators == Arithmetic \cup Bitwise_

(* Python's | & ^ on two's complement numbers of any length: the lowest    *)
(* bits, and the same of what is above them, to the signs.                 *)
Combined(a, op, b) ==
  LET low(x, y) == CASE op = "&" -> (x % 2) * (y % 2)
                     [] op = "|" -> (x % 2) + (y % 2) - (x % 2) * (y % 2)
                     [] OTHER    -> ((x % 2) + (y % 2)) % 2
      bits[w \in 0 .. BitWidth] ==
        [p \in Int \X Int |->
           IF w = 0 THEN -low(p[1], p[2])
           ELSE low(p[1], p[2]) + 2 * bits[w - 1][<<p[1] \div 2, p[2] \div 2>>]]
  IN  bits[BitWidth][<<a, b>>]

ApplyBinop(a, op, b, flags) ==
  IF op \notin (IF flags THEN Bitwise_ ELSE Arithmetic) \/ ~(IsNum(a) /\ IsNum(b))
  THEN Fails
  ELSE CASE op \in Bitwise_ ->
         IF IsInt(a) /\ IsInt(b) THEN Yields(Int_(Combined(a.n, op, b.n))) ELSE Fails
    [] op = "/" ->
         IF b.n = 0 THEN Raises ELSE Yields(Fraction(a.n * b.d, a.d * b.n))
    [] OTHER ->
         LET n == CASE op = "+" -> a.n * b.d + b.n * a.d
                    [] op = "-" -> a.n * b.d - b.n * a.d
                    [] op = "*" -> a.n * b.n
         IN Yields(IF IsInt(a) /\ IsInt(b) THEN Int_(n) ELSE Fraction(n, a.d * b.d))

(* A unary operator; a float stays one.                                    *)
ApplySign(op, v) ==
  IF op = "~" THEN IF IsInt(v) THEN Yields([v EXCEPT !.n = -@ - 1]) ELSE Fails
  ELSE IF IsNum(v) THEN Yields(IF op = "-" THEN [v EXCEPT !.n = -@] ELSE v) ELSE Fails

(* A path walks struct fields from the scope on, and reads nothing unset;  *)
(* what does not begin with a field may name a member of a domain.         *)
ResolveReference(path) ==
  IF path[1] \in DOMAIN Type
  THEN IF path \in DOMAIN scope /\ scope[path] # Uninit THEN Yields(scope[path]) ELSE Fails
  ELSE IF /\ path[1] \in DOMAIN Domains /\ Len(path) = 2
          /\ path[2] \in DOMAIN Domains[path[1]].members
  THEN Yields(IF Domains[path[1]].flags
              THEN Int_(Domains[path[1]].members[path[2]])
              ELSE [k |-> "member", domain |-> path[1], key |-> path[2]])
  ELSE Fails

-----------------------------------------------------------------------------
(* What a field of a type takes: numbers are coerced and then checked, text *)
(* is checked, and anything else is stored as it is.                        *)
IsIntType(type) == type.kind \in {"int", "flags"}
InFloat(v) == v.n <= FloatLimit * v.d /\ -v.n <= FloatLimit * v.d

CoerceNumeric(v, type) ==
  CASE type.kind = "float" -> IF InFloat(v) THEN Yields(Fraction(v.n, v.d)) ELSE Fails
    [] IsIntType(type) ->
         IF v.n % v.d = 0 /\ v.n \div v.d \in type.lo .. type.hi
         THEN Yields(Int_(v.n \div v.d)) ELSE Fails
    [] OTHER -> Yields(v)

CheckStringLength(v, type) ==
  IF type.kind = "string" /\ v.bytes > type.size - 1 THEN Fails ELSE Yields(v)

Storable(v, type) ==
  IF type.kind = "ident"
  THEN IF v.k = "member" /\ v.domain = type.domain THEN Yields(v) ELSE Fails
  ELSE IF v.k = "text" THEN CheckStringLength(v, type)
  ELSE IF v.k = "num" THEN CoerceNumeric(v, type) ELSE Yields(v)

(* The element positions of an array, outermost index first.               *)
Positions(dims) ==
  {p \in [DOMAIN dims -> UNION {1 .. dims[i] : i \in DOMAIN dims}] :
     \A i \in DOMAIN dims : p[i] <= dims[i]}

-----------------------------------------------------------------------------
(* A statement is [form, field, index, rhs], form "assign" or an operator,  *)
(* index << >> or <<n>>.  The text of rhs, split at the commas that no      *)
(* quotes hold, is a tree of parts by position, those within the braces at  *)
(* p at Append(p, 1) and so on: an expression [tokens], a quoted string     *)
(* [bytes, and in order the braces among them], or a group in braces.       *)
(* Statements on struct fields are those of FieldStore.                     *)
ExprInit ==
  /\ scope \in Sources
  /\ todo \in Lists
  /\ verdict = "run" /\ step = "next"
  /\ tokens = << >> /\ pos = 1 /\ calls = << >> /\ value = Uninit
  /\ at = << >> /\ cells = << >>

This == Head(todo)
Goal == Type[This.field]
Plain == This.index = << >>
IsFlags == Goal.kind = "flags"
Target == IF Goal.kind = "array" THEN Goal.elem ELSE Goal
Only(kind) == DOMAIN This.rhs = {<<1>>} /\ This.rhs[<<1>>].k = kind
Begins(forms) == verdict = "run" /\ step = "next" /\ todo # << >> /\ This.form \in forms

(* An exception ends the body.                                             *)
Stop(out) ==
  verdict' = out
    /\ UNCHANGED <<scope, todo, step, tokens, pos, calls, value, at, cells>>

Store(v) ==
  /\ scope' = [scope EXCEPT ![<<This.field>>] =
                 IF Plain THEN v ELSE [@ EXCEPT !.cells[<<This.index[1] + 1>>] = v]]
  /\ todo' = Tail(todo) /\ step' = "next"
  /\ tokens' = << >> /\ pos' = 1 /\ calls' = << >> /\ value' = Uninit
  /\ at' = << >> /\ cells' = << >>
  /\ UNCHANGED verdict

(* A value for the field, an indexed element or the next one of a literal. *)
Following(p) == [p EXCEPT ![Len(p)] = @ + 1]
Put(r) ==
  IF r.out # "ok" THEN Stop(r.out)
  ELSE IF at = << >> THEN Store(r.v)
  ELSE /\ cells' = [cells EXCEPT ![at] = r.v] /\ at' = Following(at) /\ step' = "part"
       /\ tokens' = << >> /\ pos' = 1 /\ value' = Uninit
       /\ UNCHANGED <<scope, todo, verdict, calls>>

Evaluate(part, waiting) ==
  /\ step' = "operand" /\ tokens' = part.tokens /\ pos' = 1 /\ calls' = waiting
  /\ UNCHANGED <<scope, todo, verdict, value, at, cells>>

Element(part) ==
  CASE part.k = "text" -> Put(CheckStringLength(String_(part.bytes), Target))
    [] part.k = "expr" -> Evaluate(part, << >>)
    [] OTHER -> Stop("error")

(* field = rhs                                                             *)
ApplyAssign ==
  /\ Begins({"assign"}) /\ Plain /\ Goal.kind # "array"
  /\ IF Only("expr") \/ (Only("text") /\ Goal.kind # "ident")
     THEN Element(This.rhs[<<1>>]) ELSE Stop("error")

(* One element, of a one-dimensional array that has its value.             *)
Indexed ==
  /\ Goal.kind = "array" /\ Len(Goal.dims) = 1
  /\ scope[<<This.field>>] # Uninit
  /\ This.index[1] < Goal.dims[1]

ApplyArrayElementAssign ==
  /\ Begins({"assign"}) /\ ~Plain
  /\ IF Indexed /\ (Only("expr") \/ Only("text"))
     THEN Element(This.rhs[<<1>>]) ELSE Stop("error")

(* field op rhs: the current value waits for the first operand.            *)
Held ==
  IF Plain THEN scope[<<This.field>>]
  ELSE scope[<<This.field>>].cells[<<This.index[1] + 1>>]
Operable ==
  /\ IF Plain THEN Goal.kind \in {"int", "float", "string", "flags"} ELSE Indexed
  /\ IsNum(Held) /\ Only("expr")

Right(op, v) == [call |-> "right", op |-> op, v |-> v]
ApplyOp ==
  /\ Begins(Operators)
  /\ IF Operable THEN Evaluate(This.rhs[<<1>>], <<Right(This.form, Held)>>)
     ELSE Stop("error")

-----------------------------------------------------------------------------
(* The brace that closes a group is looked for by counting, and the braces  *)
(* within strings count as well: from the one that opens the group at p the *)
(* count is first zero at the end of the group r, p itself or one after it. *)
(* A mark is a brace in a string: where the string is, and which it is.     *)
EndsBy(q, r) ==
  IsPrefix(r, q) \/ \E i \in DOMAIN q \cap DOMAIN r :
                       q[i] < r[i] /\ SubSeq(q, 1, i - 1) = SubSeq(r, 1, i - 1)

ClosedAt(rhs, p, r) ==
  LET parts == {q \in DOMAIN rhs : EndsBy(q, r) /\ (IsPrefix(p, q) \/ ~EndsBy(q, p))}
      marks == UNION {{q} \X DOMAIN rhs[q].braces : q \in {t \in parts : rhs[t].k = "text"}}
      Count(M, c) == Cardinality({m \in M : rhs[m[1]].braces[m[2]] = c})
      Depth(q, M) == Len(q) - Len(p) + Count(M, "{") - Count(M, "}")
  IN /\ Depth(r, marks) = 0
     /\ \A q \in parts \ {r} : rhs[q].k = "group" =>
          Depth(q, {m \in marks : EndsBy(m[1], q)}) > 0
     /\ \A m \in marks :
          Depth(m[1], {n \in marks : IF n[1] = m[1] THEN n[2] <= m[2]
                                    ELSE EndsBy(n[1], m[1])}) > 0

IsSingleBraceGroup(p) == This.rhs[p].k = "group" /\ ClosedAt(This.rhs, p, p)

(* The parts within the braces at p, and where the array's own begin: one   *)
(* pair of braces around the whole is taken away.                           *)
Within(p) == {q[Len(q)] : q \in {r \in DOMAIN This.rhs : Front(r) = p}}

Braced == Within(<< >>) = {1} /\ IsSingleBraceGroup(<<1>>)

(* Mutant of Base: a second pair is taken away too. *)
BaseAll ==
  IF Braced
  THEN IF Within(<<1>>) = {1} /\ This.rhs[<<1, 1>>].k = "group" THEN <<1, 1>> ELSE <<1>>
  ELSE << >>

Base == IF Braced THEN <<1>> ELSE << >>

OpenLiteral ==
  /\ Begins({"assign"}) /\ Plain /\ Goal.kind = "array"
  /\ IF Within(Base) = 1 .. Goal.dims[1]
     THEN /\ at' = <<1>> /\ step' = "part"
          /\ cells' = [p \in Positions(Goal.dims) |-> Uninit]
          /\ UNCHANGED <<scope, todo, verdict, tokens, pos, calls, value>>
     ELSE Stop("error")

InPart == verdict = "run" /\ step = "part"
More == at[Len(at)] <= Goal.dims[Len(at)]
Part == This.rhs[Base \o at]

OpenGroup ==
  /\ InPart /\ More /\ Len(at) < Len(Goal.dims)
  /\ IF IsSingleBraceGroup(Base \o at) /\ Within(Base \o at) = 1 .. Goal.dims[Len(at) + 1]
     THEN /\ at' = Append(at, 1)
          /\ UNCHANGED <<scope, todo, verdict, step, tokens, pos, calls, value, cells>>
     ELSE Stop("error")

ParseElement ==
  /\ InPart /\ More /\ Len(at) = Len(Goal.dims)
  /\ Element(Part)

CloseGroup ==
  /\ InPart /\ ~More
  /\ IF Len(at) = 1 THEN Store([k |-> "array", cells |-> cells])
     ELSE /\ at' = Following(Front(at))
          /\ UNCHANGED <<scope, todo, verdict, step, tokens, pos, calls, value, cells>>

-----------------------------------------------------------------------------
(* _parse_operand: a sign or "(" waits for what it is for.                  *)
AtOperand == verdict = "run" /\ step = "operand"
Token(kinds) == pos <= Len(tokens) /\ tokens[pos].t \in kinds
Signs == IF IsFlags THEN {"~"} ELSE {"-", "+"}

ReadSign ==
  /\ AtOperand /\ Token(Signs \cup {"("})
  /\ calls' = Append(calls, [call |-> IF Token({"("}) THEN "paren" ELSE "sign",
                             op |-> tokens[pos].t, v |-> Uninit])
  /\ pos' = pos + 1
  /\ UNCHANGED <<scope, todo, verdict, step, tokens, value, at, cells>>

Atom(token) ==
  IF token.t = "lit" THEN Yields(token.v) ELSE ResolveReference(token.path)

ReadAtom ==
  /\ AtOperand /\ Token({"lit", "ref"})
  /\ LET r == Atom(tokens[pos]) IN
     IF r.out = "ok"
     THEN /\ value' = r.v /\ step' = "value" /\ pos' = pos + 1
          /\ UNCHANGED <<scope, todo, verdict, tokens, calls, at, cells>>
     ELSE Stop(r.out)

NoOperand ==
  /\ AtOperand /\ ~Token(Signs \cup {"(", "lit", "ref"})
  /\ Stop("error")

(* The value of an operand goes to the sign or operator that waits for it. *)
AtValue == verdict = "run" /\ step = "value"
Top == calls[Len(calls)]
Waiting(kinds) == calls # << >> /\ Top.call \in kinds

Apply ==
  /\ AtValue /\ Waiting({"sign", "right"})
  /\ LET r == IF Top.call = "sign" THEN ApplySign(Top.op, value)
              ELSE ApplyBinop(Top.v, Top.op, value, IsFlags)
     IN IF r.out = "ok"
        THEN /\ value' = r.v /\ calls' = Front(calls)
             /\ UNCHANGED <<scope, todo, verdict, step, tokens, pos, at, cells>>
        ELSE Stop(r.out)

(* Mutant of InFoldLeft: an operator that follows is read first. *)
InFoldLeftGreedy ==
  AtValue /\ (~Waiting({"sign", "right"}) \/ (Waiting({"right"}) /\ Token(Operators)))

(* _fold_left: an operator that follows waits for its right operand, with   *)
(* the value so far; without one, ")" or the end of the text must come.     *)
InFoldLeft == AtValue /\ ~Waiting({"sign", "right"})

TakeOperator ==
  /\ InFoldLeft /\ Token(Operators)
  /\ calls' = Append(calls, Right(tokens[pos].t, value))
  /\ step' = "operand" /\ value' = Uninit /\ pos' = pos + 1
  /\ UNCHANGED <<scope, todo, verdict, tokens, at, cells>>

CloseParen ==
  /\ InFoldLeft /\ ~Token(Operators) /\ Waiting({"paren"})
  /\ IF Token({")"})
     THEN /\ calls' = Front(calls) /\ pos' = pos + 1
          /\ UNCHANGED <<scope, todo, verdict, step, tokens, value, at, cells>>
     ELSE Stop("error")

(* Mutant of EndExpr: the result of an operator is stored as it was computed. *)
EndExprUnchecked ==
  /\ InFoldLeft /\ ~Token(Operators) /\ calls = << >>
  /\ IF pos <= Len(tokens) THEN Stop("error")
     ELSE Put(IF This.form = "assign" THEN Storable(value, Target) ELSE Yields(value))

EndExpr ==
  /\ InFoldLeft /\ ~Token(Operators) /\ calls = << >>
  /\ IF pos <= Len(tokens) THEN Stop("error") ELSE Put(Storable(value, Target))

ExprDone == verdict # "run" \/ (step = "next" /\ todo = << >>)
ExprStops == ExprDone /\ UNCHANGED exprVars

ExprNext ==
  \/ ApplyAssign \/ ApplyArrayElementAssign \/ ApplyOp
  \/ OpenLiteral \/ OpenGroup \/ ParseElement \/ CloseGroup
  \/ ReadSign \/ ReadAtom \/ NoOperand
  \/ Apply \/ TakeOperator \/ CloseParen \/ EndExpr
  \/ ExprStops

ExprSpec == ExprInit /\ [][ExprNext]_exprVars

-----------------------------------------------------------------------------
(* What a value is, and what a field of a type may hold: a number in an    *)
(* integer, flags or float field is one of that type, within its range,    *)
(* text fits before its terminator, and an identifier is a member of the   *)
(* field's own domain.  Text in a numeric field and a number in a text     *)
(* field are let through, as the code says.                                *)
Sound(v) ==
  /\ v.k = "num" => v \in Number
  /\ v.k = "text" => v.bytes \in Nat
  /\ v.k = "member" => v.key \in DOMAIN Domains[v.domain].members

Holds(v, type) ==
  /\ v.k = "num" /\ IsIntType(type) => ~v.float /\ v.n \in type.lo .. type.hi
  /\ v.k = "num" /\ type.kind = "float" => v.float /\ InFloat(v)
  /\ v.k = "text" /\ type.kind = "string" => v.bytes < type.size
  /\ type.kind = "ident" /\ v # Uninit =>
       v.k = "member" /\ v.domain = type.domain /\ v.key \in DOMAIN Domains[type.domain].members

Fits(v, type) ==
  IF type.kind = "array"
  THEN v # Uninit => /\ v = [k |-> "array", cells |-> v.cells]
                     /\ DOMAIN v.cells = Positions(type.dims)
                     /\ \A p \in DOMAIN v.cells : Holds(v.cells[p], type.elem)
  ELSE type.kind # "struct" => Holds(v, type)

-----------------------------------------------------------------------------
(* The types the registry gives out: an element of an array is a scalar.   *)
Scalar(type) ==
  \/ type.kind = "int" /\ type.lo \in Int /\ type.hi \in Int
  \/ type.kind = "float"
  \/ type.kind = "string" /\ type.size \in Nat

ASSUME TypeAssumption ==
  /\ BitWidth \in Nat /\ FloatLimit \in Nat
  /\ \A f \in DOMAIN Type :
       \/ Scalar(Type[f])
       \/ Type[f].kind = "flags" /\ Type[f].lo \in Int /\ Type[f].hi \in Int
       \/ Type[f].kind = "ident" /\ Type[f].domain \in DOMAIN Domains
       \/ Type[f].kind = "struct"
       \/ /\ Type[f].kind = "array" /\ Scalar(Type[f].elem)
          /\ Type[f].dims \in Seq(Nat \ {0}) /\ Type[f].dims # << >>
  /\ \A d \in DOMAIN Domains :
       Domains[d].flags =>
         \A m \in DOMAIN Domains[d].members : Domains[d].members[m] \in Int

(* A body starts from what a body has left.                                *)
ASSUME SourcesAssumption ==
  \A source \in Sources :
    /\ \A f \in DOMAIN Type : <<f>> \in DOMAIN source /\ Fits(source[<<f>>], Type[f])
    /\ \A path \in DOMAIN source : Sound(source[path])
    /\ \A f \in DOMAIN Type :
         Type[f].kind = "array" /\ source[<<f>>] # Uninit =>
           \A p \in DOMAIN source[<<f>>].cells : Sound(source[<<f>>].cells[p])

WellFormed(token) ==
  \/ token.t \in Operators \cup {"~", "(", ")"}
  \/ token.t = "lit" /\ token.v \in Number
  \/ token.t = "ref" /\ token.path \in Seq(STRING) /\ token.path # << >>

(* The parts of a text: only groups have parts, and at least one.  A text   *)
(* that the braces in its strings make look like one group, although it is  *)
(* several parts, is left out.                                              *)
Split(rhs) ==
  /\ DOMAIN rhs \subseteq Seq(Nat \ {0}) \ {<< >>}
  /\ \A q \in DOMAIN rhs :
       /\ Len(q) > 1 => Front(q) \in DOMAIN rhs /\ rhs[Front(q)].k = "group"
       /\ CASE rhs[q].k = "expr" ->
                 /\ rhs[q].tokens \in Seq(ToSet(rhs[q].tokens))
                 /\ \A i \in DOMAIN rhs[q].tokens : WellFormed(rhs[q].tokens[i])
            [] rhs[q].k = "text" -> /\ rhs[q].bytes \in Nat
                                    /\ rhs[q].braces \in Seq({"{", "}"})
            [] OTHER -> rhs[q].k = "group"
  /\ \A q \in DOMAIN rhs :
       /\ Len(q) = 1 /\ q # <<1>> /\ Following(q) \notin DOMAIN rhs
       /\ rhs[<<1>>].k = "group" /\ rhs[q].k = "group"
       => ~ClosedAt(rhs, <<1>>, q)

(* Only an array literal is split: elsewhere what is between quotes is one  *)
(* string, whatever it holds.                                               *)
ASSUME ListsAssumption ==
  \A list \in Lists :
    /\ list \in Seq(ToSet(list))
    /\ \A i \in DOMAIN list :
         /\ list[i].form \in Operators \cup {"assign"}
         /\ list[i].field \in DOMAIN Type /\ Type[list[i].field].kind # "struct"
         /\ list[i].index \in {<< >>} \cup [{1} -> Nat]
         /\ Split(list[i].rhs)
         /\ Type[list[i].field].kind # "array" \/ list[i].index # << >> =>
              (list[i].rhs[<<1>>].k = "text" => DOMAIN list[i].rhs = {<<1>>})

-----------------------------------------------------------------------------
(* What an expression means, read from its end: its last operator outside   *)
(* parentheses takes all that stands before it as its left operand.         *)
Balance(toks, h) ==
  Cardinality({g \in 1 .. h : toks[g].t = "("}) - Cardinality({g \in 1 .. h : toks[g].t = ")"})

Splits(toks, i, j) ==
  {h \in i + 1 .. j : /\ toks[h].t \in Operators
                      /\ toks[h - 1].t \in {"lit", "ref", ")"}
                      /\ Balance(toks, h) = Balance(toks, i - 1)}

LastOf(S) == CHOOSE h \in S : \A g \in S : g <= h

Signed(op, r, flags) ==
  IF op \notin (IF flags THEN {"~"} ELSE {"-", "+"}) THEN Fails
  ELSE IF r.out = "ok" THEN ApplySign(op, r.v) ELSE r
Joined(l, op, r, flags) ==
  IF l.out # "ok" THEN l ELSE IF r.out # "ok" THEN r ELSE ApplyBinop(l.v, op, r.v, flags)

Meaning(toks, flags) ==
  LET means[p \in (1 .. Len(toks) + 1) \X (0 .. Len(toks))] ==
        LET i == p[1]  j == p[2]  h == LastOf(Splits(toks, i, j)) IN
        IF i > j THEN Fails
        ELSE IF Splits(toks, i, j) # {}
        THEN Joined(means[<<i, h - 1>>], toks[h].t, means[<<h + 1, j>>], flags)
        ELSE IF toks[i].t \in {"-", "+", "~"}
        THEN Signed(toks[i].t, means[<<i + 1, j>>], flags)
        ELSE IF toks[i].t = "(" /\ toks[j].t = ")" THEN means[<<i + 1, j - 1>>]
        ELSE IF i = j /\ toks[i].t \in {"lit", "ref"} THEN Atom(toks[i]) ELSE Fails
  IN means

Meant(toks, flags) == Meaning(toks, flags)[<<1, Len(toks)>>]

(* What an expression or a quoted string leaves in a field of a type.      *)
Left(toks, flags, type) ==
  LET r == Meant(toks, flags) IN IF r.out = "ok" THEN Storable(r.v, type) ELSE r
PartLeft(part, type) ==
  IF part.k = "text" THEN CheckStringLength(String_(part.bytes), type)
  ELSE Left(part.tokens, FALSE, type)

-----------------------------------------------------------------------------
(* A statement ends: its value is stored, or an error ends the body.        *)
Ends == todo # << >> /\ (todo' # todo \/ verdict' # verdict)

(* It computes one value.                                                  *)
Computed ==
  /\ Only("expr")
  /\ IF Plain THEN Goal.kind # "array" ELSE Indexed
  /\ Plain /\ This.form # "assign" => Goal.kind # "ident"

(* The whole expression a statement stands for, and what the field or       *)
(* element it is about holds after it.                                      *)
Expression ==
  IF This.form = "assign" THEN This.rhs[<<1>>].tokens
  ELSE <<[t |-> "lit", v |-> Held], [t |-> This.form]>> \o This.rhs[<<1>>].tokens
Left_ ==
  IF Plain THEN scope'[<<This.field>>]
  ELSE scope'[<<This.field>>].cells[<<This.index[1] + 1>>]

(* Every number a field or element of an integer, flags or float type holds *)
(* is one of that type, within its range, every text fits before its        *)
(* terminator, an identifier is a member of the field's own domain, and an  *)
(* array that is set has exactly the elements its dimensions say, whatever  *)
(* statements led there (_coerce_numeric, _check_range,                     *)
(* _check_string_length, _parse_array_group).                               *)
StoredInRange == \A f \in DOMAIN Type : Fits(scope[<<f>>], Type[f])

(* An assignment stores what its whole expression means, read strictly from *)
(* the left, and an operator statement what its line means with the current *)
(* value and the operator put before it; both coerced to the target's type; *)
(* and each is refused exactly when one of these fails (_eval_expr,         *)
(* _eval_op_expr, _fold_left, _parse_operand).                              *)
LeftToRight ==
  [][Ends /\ Computed =>
       LET r == Left(Expression, IsFlags, Target)
       IN IF r.out = "ok" THEN verdict' = "run" /\ Left_ = r.v ELSE verdict' # "run"
    ]_exprVars

(* An array literal is taken only when its parts nest as the dimensions,    *)
(* with or without braces around the whole, and each part can be stored; it *)
(* is then taken unless a string in it holds a brace; and the value has     *)
(* that shape and holds each part where it was written.  An array of        *)
(* several dimensions, the first of them 1, needs the braces around the     *)
(* whole: the only pair there is always counts as those                     *)
(* (_parse_array_literal, _parse_array_group).                              *)
Nested(dims, base) ==
  LET inner == UNION {{SubSeq(p, 1, n) : n \in 1 .. Len(dims)} : p \in Positions(dims)} IN
  /\ DOMAIN This.rhs = {base \o q : q \in inner} \cup {SubSeq(base, 1, n) : n \in 1 .. Len(base)}
  /\ \A q \in DOMAIN This.rhs :
       (This.rhs[q].k = "group") <=> (Len(q) < Len(base) + Len(dims))

Literal(dims, elem, base) ==
  /\ Nested(dims, base)
  /\ \A p \in Positions(dims) : PartLeft(This.rhs[base \o p], elem).out = "ok"

Bases(dims) == IF Len(dims) > 1 /\ dims[1] = 1 THEN {<<1>>} ELSE {<< >>, <<1>>}

NoBraces == \A q \in DOMAIN This.rhs : This.rhs[q].k = "text" => This.rhs[q].braces = << >>

ShapeExact ==
  [][Ends /\ This.form = "assign" /\ Plain /\ Goal.kind = "array" =>
       LET taken == {base \in Bases(Goal.dims) : Literal(Goal.dims, Goal.elem, base)} IN
       /\ verdict' = "run" => taken # {}
       /\ taken # {} /\ NoBraces => verdict' = "run"
       /\ verdict' = "run" => \A base \in taken :
            scope'[<<This.field>>] =
              [k |-> "array", cells |-> [p \in Positions(Goal.dims) |->
                                           PartLeft(This.rhs[base \o p], Goal.elem).v]]
    ]_exprVars
=============================================================================
