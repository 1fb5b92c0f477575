--------------------------- MODULE MCCompileMulti ---------------------------
(* Up to MaxArgs arguments over three paths, the first two of which are    *)
(* two spellings of one file, and files of one line of every shape or of   *)
(* two that leave a comment open or close it.                              *)
EXTENDS CompileMulti

CONSTANT MaxArgs

MCNorm == [p \in Path |-> IF p = 2 THEN 1 ELSE p]

MCArg == [pattern : {FALSE}, files : {{p} : p \in Path} \cup {{}}]
           \cup [pattern : {TRUE}, files : SUBSET Path]
MCArgs == UNION {[1 .. k -> MCArg] : k \in 1 .. MaxArgs}

Statement == <<"text">>
Blank == << >>
Comments == <<"open", "open", "close", "text", "close">>
StringLine == <<"text", "quote", "open", "quote">>
OpenString == <<"text", "quote">>
OpenComment == <<"text", "open">>
CloseComment == <<"close", "text">>

MCLine == {Statement, Blank, Comments, StringLine, OpenString, OpenComment,
           CloseComment}

Spanning == {Statement, OpenComment, CloseComment}

MCFile ==
  {<< >>} \cup [1 .. 1 -> MCLine] \cup [1 .. 2 -> Spanning]

(* Two files at most, so that paths 1 and 2 hold the same. *)
MCContents == {[p \in Path |-> IF p = 3 THEN f ELSE g] : f, g \in MCFile}
=============================================================================
