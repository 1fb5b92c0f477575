---------------------------- MODULE MCFlagsBits ----------------------------
(* Every block of at most MaxEntries entries over a few member names, for  *)
(* a domain of Width bits; claims go up to the first bit past the width.   *)
EXTENDS FlagsBits

CONSTANTS MaxEntries

MCEntry == [name : Member, kind : {"auto", "number"}, bit : {0}]
             \cup [name : Member, kind : {"bit"}, bit : 0 .. Width]
MCBlock == UNION {[1 .. k -> MCEntry] : k \in 0 .. MaxEntries}
=============================================================================
