-------------------------- MODULE MCRegisterNames --------------------------
(* Programs of up to MaxDecls declarations: identifier blocks D of up to   *)
(* two entries, with and without a width, flags D, a define, and instances *)
(* of TypeName; hash functions that are injective or have one collision.   *)
EXTENDS RegisterNames

CONSTANTS D, TypeName, x, y, MaxDecls

MCNamespace == {D, TypeName}
MCText == {x, y}
MCId == Namespace \X Text

Merge(p, q) == [n \in Qualified |-> IF n = q THEN p ELSE n]
MCHashes == {Merge(p, q) : p, q \in Qualified}

Blocks == UNION {[1 .. k -> EntryOf] : k \in 0 .. 2}
Fields == {<<>>, <<[key |-> x, text |-> x]>>,
           <<[key |-> x, text |-> x], [key |-> x, text |-> x]>>}
MCDecl ==
  [kind : {"identifier"}, name : {D}, entries : Blocks, capacity : {NoCapacity}]
  \cup [kind : {"identifier"}, name : {D}, capacity : {1},
        entries : {b \in Blocks : Len(b) = 2 /\ b[1].text = x}]
  \cup [kind : {"flags"}, name : {D}, entries : Fields, capacity : {NoCapacity}]
  \cup [kind : {"define"}, name : {TypeName}, entries : Fields,
        capacity : {NoCapacity}]
  \cup [kind : {"instance"}, type : {TypeName}, name : Text]
MCProgram == UNION {[1 .. k -> MCDecl] : k \in 0 .. MaxDecls}
=============================================================================
