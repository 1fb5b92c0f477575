------------------------------ MODULE MCParser ------------------------------
(* Texts of three lines of any shape, with indentations up to two; and of  *)
(* four lines, an instance and three lines of its body or after it, with   *)
(* indentations up to three, where a dedent can end between two levels.    *)
EXTENDS Parser

(* Each shape with a line that has it.  A line with "=" is an entry of a    *)
(* define whatever is around it; of an identifier, if a string follows; of  *)
(* flags, if a name is before it and a bit or 0 follows.                    *)
Reads(top, body, entry) == [top |-> top, body |-> body, entry |-> entry]

Header(kind) == Reads(kind, "raw", {})                  \* define T
Instance == Header("instance")                          \* T a
Copy == Reads("instance", "none", {"define"})           \* T b = a
Assign == Reads("none", "assign", {"define", "flags"})  \* x = 0
Joined == Reads("instance", "assign", {"define"})       \* x =1
Text == Reads("none", "assign", {"identifier", "define"})  \* x = "d"
Op == Reads("none", "op", {})                           \* x + 1
JoinedOp == Reads("instance", "op", {})                 \* x +1
Bare == Reads("none", "bare", {"flags"})                \* x
Bad == Reads("none", "none", {})                        \* x[0]

Headers == {Header(kind) : kind \in Listing}
Shapes == Headers \cup {Instance, Copy, Assign, Joined, Text, Op, JoinedOp, Bare, Bad}

At(lens, chars) ==
  {ind \in [len : lens, char : chars \cup {"none"}] :
     ind.len = 0 <=> ind.char = "none"}
Lines(indents, shapes) == [indent : indents, shape : shapes]

Start == Lines(At({0, 1}, {"space"}), Headers \cup {Instance})
Short == Lines(At(0 .. 2, {"space"}), Shapes)
           \cup Lines(At({2}, {"tab", "mixed"}), {Assign, Instance})
Deep == Lines(At(0 .. 3, {"space"}), {Assign, Joined, Bare, Op})
          \cup Lines(At(1 .. 3, {"tab"}), {Assign})
          \cup Lines(At({0, 1}, {"space"}), {Instance})

MCTexts ==
  [1 .. 3 -> Short]
  \cup {<<first, second, third>> : first \in Start, second, third \in Short}
  \cup {<<[indent |-> ind, shape |-> Instance]>> \o rest :
          ind \in At({0, 1}, {"space"}), rest \in [1 .. 3 -> Deep]}
=============================================================================
