------------------------------ MODULE FlagsBits ------------------------------
(***************************************************************************)
(* Phase 4's registration of one flags domain: duplicate members dropped,  *)
(* then Registry._assign_flags_bits, which hands out the bits of the       *)
(* domain's width in two passes over the members: the explicit claims      *)
(* ("= bN"), wherever they are in the block, then the members that leave   *)
(* their bit to the compiler, in declaration order, around those claims.   *)
(* A member written "= 0" is the empty set of bits and claims none.        *)
(***************************************************************************)
EXTENDS Naturals, Sequences, Functions

CONSTANTS Member,   \* member names
          Width,    \* number of bits of the domain's width
          Block     \* the blocks of entries a source file may hold

(* An entry of kind "bit" claims .bit; the other kinds have no use for it. *)
Entry == [name : Member, kind : {"auto", "bit", "number"}, bit : Nat]

ASSUME FlagsAssumption ==
  /\ Width \in Nat \ {0}
  /\ Block \subseteq Seq(Entry)

VARIABLES block,    \* the domain's entries as parsed
          entries,  \* unique_entries, as positions (lines) in the block
          pass,     \* "names", "explicit", "auto", "done"
          at,       \* position of the running loop
          claimed,  \* claimed: the bits taken, by either pass
          cursor,   \* the second pass looks for free bits from here on
          bits,     \* flags_bits: the one bit of each member that got one
          zeros,    \* members with value 0 in flags_values
          errors    \* errors reported: the entry's position and the check

vars == <<block, entries, pass, at, claimed, cursor, bits, zeros, errors>>

Bit == 0 .. Width - 1
NoBit == Width

Check == {"duplicate_name", "flags_bit_exceeds_width", "flags_bit_collision",
          "flags_width_overflow"}

TypeOK ==
  /\ block \in Seq(Entry)
  /\ entries \in Seq(DOMAIN block)
  /\ pass \in {"names", "explicit", "auto", "done"}
  /\ at \in Nat \ {0}
  /\ claimed \subseteq Bit
  /\ cursor \in Nat
  /\ bits \in [Member -> Bit \cup {NoBit}]
  /\ zeros \subseteq Member
  /\ errors \subseteq (DOMAIN block) \X Check

Init ==
  /\ block \in Block
  /\ entries = << >>
  /\ pass = "names"
  /\ at = 1
  /\ claimed = {}
  /\ cursor = 0
  /\ bits = [m \in Member |-> NoBit]
  /\ zeros = {}
  /\ errors = {}

Seen == {block[i].name : i \in Range(entries)}

(* One entry of the block: the first of a name stays, a later one is an    *)
(* error and is dropped.                                                   *)
KeepName ==
  /\ pass = "names" /\ at <= Len(block)
  /\ block[at].name \notin Seen
  /\ entries' = Append(entries, at)
  /\ at' = at + 1
  /\ UNCHANGED <<block, pass, claimed, cursor, bits, zeros, errors>>

DropName ==
  /\ pass = "names" /\ at <= Len(block)
  /\ block[at].name \in Seen
  /\ errors' = errors \cup {<<at, "duplicate_name">>}
  /\ at' = at + 1
  /\ UNCHANGED <<block, entries, pass, claimed, cursor, bits, zeros>>

Current == block[entries[at]]

Claim(b) ==
  /\ claimed' = claimed \cup {b}
  /\ bits' = [bits EXCEPT ![Current.name] = b]

(* First pass: explicit claims only. *)
InExplicit == pass = "explicit" /\ at <= Len(entries)

PassOver ==
  /\ \/ InExplicit /\ Current.kind # "bit"
     \/ pass = "auto" /\ at <= Len(entries) /\ Current.kind = "bit"
  /\ at' = at + 1
  /\ UNCHANGED <<block, entries, pass, claimed, cursor, bits, zeros, errors>>

ClaimExplicit ==
  /\ InExplicit /\ Current.kind = "bit"
  /\ Current.bit < Width /\ Current.bit \notin claimed
  /\ Claim(Current.bit)
  /\ at' = at + 1
  /\ UNCHANGED <<block, entries, pass, cursor, zeros, errors>>

RefuseExplicit ==
  /\ InExplicit /\ Current.kind = "bit"
  /\ Current.bit >= Width \/ Current.bit \in claimed
  /\ errors' = errors \cup
       {<<entries[at], IF Current.bit >= Width THEN "flags_bit_exceeds_width"
                       ELSE "flags_bit_collision">>}
  /\ at' = at + 1
  /\ UNCHANGED <<block, entries, pass, claimed, cursor, bits, zeros>>

(* Second pass: the sentinel, and the members whose bit is assigned. *)
InAuto(kind) == pass = "auto" /\ at <= Len(entries) /\ Current.kind = kind

SetZero ==
  /\ InAuto("number")
  /\ zeros' = zeros \cup {Current.name}
  /\ at' = at + 1
  /\ UNCHANGED <<block, entries, pass, claimed, cursor, bits, errors>>

(* while cursor in claimed: cursor += 1 *)
SkipClaimed ==
  /\ InAuto("auto")
  /\ cursor \in claimed
  /\ cursor' = cursor + 1
  /\ UNCHANGED <<block, entries, pass, at, claimed, bits, zeros, errors>>

(* Mutant of AssignAuto: the claimed bits are not looked up. *)
AssignAutoBlind ==
  /\ InAuto("auto") /\ cursor < Width
  /\ Claim(cursor)
  /\ cursor' = cursor + 1
  /\ at' = at + 1
  /\ UNCHANGED <<block, entries, pass, zeros, errors>>

AssignAuto ==
  /\ InAuto("auto")
  /\ cursor \notin claimed /\ cursor < Width
  /\ Claim(cursor)
  /\ cursor' = cursor + 1
  /\ at' = at + 1
  /\ UNCHANGED <<block, entries, pass, zeros, errors>>

(* Mutant of OverflowAuto: the last bit counts as past the width. *)
OverflowEarly ==
  /\ InAuto("auto") /\ cursor \notin claimed /\ cursor + 1 >= Width
  /\ errors' = errors \cup {<<entries[at], "flags_width_overflow">>}
  /\ cursor' = cursor + 1
  /\ at' = at + 1
  /\ UNCHANGED <<block, entries, pass, claimed, bits, zeros>>

OverflowAuto ==
  /\ InAuto("auto")
  /\ cursor \notin claimed /\ cursor >= Width
  /\ errors' = errors \cup {<<entries[at], "flags_width_overflow">>}
  /\ cursor' = cursor + 1
  /\ at' = at + 1
  /\ UNCHANGED <<block, entries, pass, claimed, bits, zeros>>

EndPass ==
  /\ \/ /\ pass = "names" /\ at > Len(block) /\ pass' = "explicit"
     \/ /\ pass = "explicit" /\ at > Len(entries) /\ pass' = "auto"
     \/ /\ pass = "auto" /\ at > Len(entries) /\ pass' = "done"
  /\ at' = 1
  /\ UNCHANGED <<block, entries, claimed, cursor, bits, zeros, errors>>

Done == pass = "done"
Finished == Done /\ UNCHANGED vars

Next ==
  \/ KeepName \/ DropName \/ PassOver \/ ClaimExplicit \/ RefuseExplicit
  \/ SetZero \/ SkipClaimed \/ AssignAuto \/ OverflowAuto \/ EndPass \/ Finished

Spec == Init /\ [][Next]_vars

-----------------------------------------------------------------------------
Holders == {m \in Member : bits[m] # NoBit}

Kept == Range(entries)
IsAuto(line) == block[line].kind = "auto"
BitOf(line) == bits[block[line].name]

(* "explicit-vs-auto and auto-vs-auto collisions structurally impossible": *)
(* no two members of a domain ever hold the same bit.                      *)
BitsDistinct == \A m, n \in Holders : bits[m] = bits[n] => m = n

(* A member that names its bit gets that bit or none, whatever bits the    *)
(* members without one, before it or after it, are given.                  *)
ExplicitHonoured ==
  \A e \in Kept :
    block[e].kind = "bit" => BitOf(e) \in {block[e].bit, NoBit}

(* The bits the compiler chooses are, in declaration order, the bits left  *)
(* by the explicit claims of the whole domain: below the bit of an         *)
(* automatic member there are only explicit claims and the bits of the     *)
(* automatic members above it in the file, which are all lower.            *)
AutoTakesNextUnclaimed ==
  \A e \in Kept :
    IsAuto(e) /\ BitOf(e) # NoBit =>
      /\ \A f \in Kept : f < e /\ IsAuto(f) => BitOf(f) < BitOf(e)
      /\ \A b \in 0 .. BitOf(e) - 1 :
           \E f \in Kept : BitOf(f) = b /\ (IsAuto(f) => f < e)

(* A member is refused for want of bits only if all of them are taken: no  *)
(* bit is wasted by a claim that failed or by the forward-only cursor.     *)
OverflowOnlyWhenFull ==
  (\E e \in Kept : <<e, "flags_width_overflow">> \in errors) => claimed = Bit
=============================================================================
