-------------------------------- MODULE Parser --------------------------------
(***************************************************************************)
(* Phase 3: parser.Parser, the recursive descent that turns numbered lines *)
(* into a tree.  Depth is the LENGTH of a line's indentation; a separate   *)
(* check keeps one top-level structure to one indentation character.       *)
(*                                                                         *)
(* A line is its indentation and its shape: what it can be read as at the  *)
(* top level, in a body and among entries, which the code decides with     *)
(* tests of its own at each place.  "x = 1" is a statement or an entry and *)
(* no declaration, "x =1" also an instance called "=1".  The calls of      *)
(* _parse_block, _parse_..._entries and _parse_statement_block that are     *)
(* active are a stack of open blocks.                                      *)
(***************************************************************************)
EXTENDS Naturals, Sequences, FiniteSets, SequencesExt

CONSTANT Texts   \* the texts to consider

(* The header a line is at the top level, the statement it is in a body,   *)
(* and the blocks that take it as an entry.  A statement of no known form, *)
(* as a header inside a body, is kept as it is ("raw").                    *)
Listing == {"identifier", "define", "flags"}
Shape == [top : Listing \cup {"instance", "none"},
          body : {"assign", "op", "bare", "raw", "none"},
          entry : SUBSET Listing]
Indent == [len : {0}, char : {"none"}]
            \cup [len : Nat \ {0}, char : {"space", "tab", "mixed"}]
SourceLine == [indent : Indent, shape : Shape]

ASSUME TextsAssumption == Texts \subseteq Seq(SourceLine)

VARIABLES recs,      \* the line records
          row,       \* the record to be read
          open,      \* open blocks, outermost first
          scopeChar, \* _scope_char
          parent,    \* parent[j]: the line above j in the tree, 0 at the top
          warnings,  \* lines with an empty_bare_field warning
          status,    \* "records", "parsing", "accepted" or "refused"
          failure    \* the line of the GDDLParseError, 0 if none

parserVars == <<recs, row, open, scopeChar, parent, warnings, status, failure>>

Unset == [len |-> 0, char |-> "unset"]

(* A block: the line it is below, and the indentation of its first line.   *)
Block(kind, owner) == [kind |-> kind, owner |-> owner, indent |-> Unset]

ParserInit ==
  /\ recs \in Texts
  /\ row = 1
  /\ open = <<Block("top", 0)>>
  /\ scopeChar = "none"
  /\ parent = << >>
  /\ warnings = {}
  /\ status = "records"
  /\ failure = 0

Raise(line) ==
  /\ status' = "refused"
  /\ failure' = line
  /\ UNCHANGED <<recs, row, open, scopeChar, parent, warnings>>

(* _build_line_records: tabs and spaces in one line are refused before     *)
(* anything is parsed.                                                     *)
BuildRecords ==
  /\ status = "records"
  /\ LET mixed == {j \in DOMAIN recs : recs[j].indent.char = "mixed"}
     IN  IF mixed # {} THEN Raise(CHOOSE j \in mixed : \A k \in mixed : j <= k)
         ELSE /\ status' = "parsing"
              /\ UNCHANGED <<recs, row, open, scopeChar, parent, warnings, failure>>

Current == Last(open)
Here == recs[row]
Parsing == status = "parsing" /\ open # << >>
AtLine == Parsing /\ row <= Len(recs)

(* Mutant of Clashes: the character is compared within one block only. *)
ClashesHere(block, rec) ==
  block.indent # Unset /\ rec.indent.char # block.indent.char

(* The character of the line is not that of the structure around it.  The  *)
(* header of a structure is never checked.                                 *)
Clashes(block, rec) ==
  block.kind # "top" /\ scopeChar # "none" /\ rec.indent.char # scopeChar

(* The line belongs to an enclosing block: it is not deeper than the line  *)
(* this block is below, or it is shallower than the block's own lines,     *)
(* which a block of entries does not admit.                                *)
Outside(block, rec) ==
  block.owner # 0 /\ rec.indent.len <= recs[block.owner].indent.len
Dedents(block, rec) ==
  /\ block.kind # "entries"
  /\ block.indent # Unset
  /\ rec.indent.len < block.indent.len
Leaves(block, rec) ==
  Outside(block, rec) \/ (~Clashes(block, rec) /\ Dedents(block, rec))

(* The block is over.  An operator statement that turns out to have        *)
(* children is refused at the first of them, a bare field without one is   *)
(* warned about.                                                           *)
CloseBlock ==
  /\ Parsing
  /\ AtLine => Leaves(Current, Here)
  /\ IF Current.kind = "op" /\ Current.indent # Unset THEN Raise(Current.owner + 1)
     ELSE /\ open' = Front(open)
          /\ warnings' = IF Current.kind = "bare" /\ Current.indent = Unset
                         THEN warnings \cup {Current.owner} ELSE warnings
          /\ UNCHANGED <<recs, row, scopeChar, parent, status, failure>>

Misfits(block, rec) == block.indent # Unset /\ rec.indent # block.indent

(* The line has a shape its block can hold.                                *)
Holds(block, shape) ==
  CASE block.kind = "top"     -> shape.top # "none"
    [] block.kind = "entries" -> recs[block.owner].shape.top \in shape.entry
    [] OTHER                  -> shape.body # "none"

RefuseLine ==
  /\ AtLine /\ ~Leaves(Current, Here)
  /\ \/ Clashes(Current, Here)
     \/ Misfits(Current, Here)
     \/ ~Holds(Current, Here.shape)
  /\ Raise(row)

(* The block a line opens: a declaration's body, a statement's children.   *)
(* A raw statement opens none, nor does an entry.                          *)
Opened(block, shape) ==
  IF block.kind = "top"
  THEN <<Block(IF shape.top = "instance" THEN "body" ELSE "entries", row)>>
  ELSE IF block.kind # "entries" /\ shape.body \in {"assign", "op", "bare"}
  THEN <<Block(shape.body, row)>> ELSE << >>

(* Mutant of ReadLine: the character of the last structure is kept. *)
ReadLineNoReset ==
  /\ AtLine /\ ~Leaves(Current, Here)
  /\ ~Clashes(Current, Here) /\ ~Misfits(Current, Here) /\ Holds(Current, Here.shape)
  /\ parent' = Append(parent, Current.owner)
  /\ scopeChar' = IF Current.kind # "top" THEN Here.indent.char ELSE scopeChar
  /\ open' = [open EXCEPT ![Len(open)].indent = Here.indent]
               \o Opened(Current, Here.shape)
  /\ row' = row + 1
  /\ UNCHANGED <<recs, warnings, status, failure>>

(* _enter_scope forgets the character at each top-level line.              *)
ReadLine ==
  /\ AtLine
  /\ ~Leaves(Current, Here)
  /\ ~Clashes(Current, Here)
  /\ ~Misfits(Current, Here)
  /\ Holds(Current, Here.shape)
  /\ parent' = Append(parent, Current.owner)
  /\ scopeChar' = IF Current.kind = "top" THEN "none" ELSE Here.indent.char
  /\ open' = [open EXCEPT ![Len(open)].indent = Here.indent]
               \o Opened(Current, Here.shape)
  /\ row' = row + 1
  /\ UNCHANGED <<recs, warnings, status, failure>>

(* Mutant of EndParse: what is left of the text is not looked at. *)
EndParseEarly ==
  /\ status = "parsing" /\ open = << >>
  /\ status' = "accepted"
  /\ UNCHANGED <<recs, row, open, scopeChar, parent, warnings, failure>>

(* A line shallower than the first of the text ends the program early.     *)
EndParse ==
  /\ status = "parsing"
  /\ open = << >>
  /\ IF row <= Len(recs) THEN Raise(row)
     ELSE /\ status' = "accepted"
          /\ UNCHANGED <<recs, row, open, scopeChar, parent, warnings, failure>>

Done == status \in {"accepted", "refused"}
ParserFinished == Done /\ UNCHANGED parserVars

ParserNext ==
  \/ BuildRecords \/ CloseBlock \/ RefuseLine \/ ReadLine \/ EndParse \/ ParserFinished

ParserSpec == ParserInit /\ [][ParserNext]_parserVars

-----------------------------------------------------------------------------
(* The layout rule as a grammar of the text alone, no blocks and no order: *)
(* a line is below the nearest earlier one that is indented less.          *)
Below(j) ==
  LET less == {k \in 1 .. j - 1 : recs[k].indent.len < recs[j].indent.len}
  IN  IF less = {} THEN 0 ELSE CHOOSE k \in less : \A l \in less : l <= k

(* The structure a line is in is the last line up to it that is below none. *)
Structure(j) == CHOOSE k \in 1 .. j : Below(k) = 0 /\ \A l \in k + 1 .. j : Below(l) # 0

(* A shape that may stand where the layout puts it: a header at the top, an *)
(* entry directly below the header of its block, or a statement in an       *)
(* instance, below its header or below a statement that can have others.    *)
Fits(j) ==
  LET above == Below(j)
      shape == recs[j].shape
  IN  IF above = 0 THEN shape.top # "none"
      ELSE \/ /\ Below(above) = 0
              /\ recs[above].shape.top \in shape.entry
           \/ /\ recs[Structure(j)].shape.top = "instance"
              /\ Below(above) = 0 \/ recs[above].shape.body \in {"assign", "bare"}
              /\ shape.body # "none"

(* The first n lines: each fits, siblings are indented alike, the lines    *)
(* below one header share a character, and no line mixes two.              *)
WellFormed(n) ==
  /\ \A j \in 1 .. n : Fits(j) /\ recs[j].indent.char # "mixed"
  /\ \A j, k \in 1 .. n :
       /\ Below(j) = Below(k) => recs[j].indent = recs[k].indent
       /\ Structure(j) = Structure(k) /\ Below(j) # 0 /\ Below(k) # 0
            => recs[j].indent.char = recs[k].indent.char

(* Exactly the well-formed texts are accepted: the descent, with its early *)
(* exits and its checks at different levels, knows no other layout rule.   *)
AcceptsWellFormed ==
  Done => (status = "accepted" <=> WellFormed(Len(recs)))

(* What is accepted is wholly in the tree, each line below the one the     *)
(* layout puts it below, also after a dedent through several levels, and   *)
(* a warning is given for exactly the bare fields with nothing below them. *)
TreeIsLayout ==
  status = "accepted" =>
    /\ Len(parent) = Len(recs)
    /\ \A j \in DOMAIN recs : parent[j] = Below(j)
    /\ warnings = {j \in DOMAIN recs :
                     /\ recs[j].shape.body = "bare"
                     /\ recs[Structure(j)].shape.top = "instance"
                     /\ Below(j) # 0
                     /\ \A k \in DOMAIN recs : Below(k) # j}

(* The line of an error is never before the fault: the text up to it, that *)
(* line included, is malformed already.                                    *)
ErrorAtFault == status = "refused" => ~WellFormed(failure)
=============================================================================
