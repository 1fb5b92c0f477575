---------------------------- MODULE Registry_proofs ----------------------------
(***************************************************************************)
(* Proofs about the registry of phase 4: the bits of FlagsBits, for every  *)
(* width and every block of entries, and the names and permanent IDs of    *)
(* RegisterNames, for every program and every hash function.               *)
(***************************************************************************)
EXTENDS FlagsBits, RegisterNames, SeqLemmas, TLAPS

-----------------------------------------------------------------------------
(* The inductive invariant, in named parts.                                *)

(* The entries kept are in the order of the file, and have one name each.  *)
Ascending ==
  /\ \A i, j \in 1 .. Len(entries) : i < j => entries[i] < entries[j]
  /\ pass = "names" => \A i \in 1 .. Len(entries) : entries[i] < at

NamesUnique ==
  \A e, f \in Kept : block[e].name = block[f].name => e = f

(* The passes up to the automatic one.                                     *)
NothingYet ==
  /\ pass = "names" => \A m \in Member : bits[m] = NoBit
  /\ pass \in {"names", "explicit"} =>
       /\ cursor = 0
       /\ \A e \in Kept : IsAuto(e) => BitOf(e) = NoBit
       /\ \A e \in DOMAIN block : <<e, "flags_width_overflow">> \notin errors

(* claimed is the set of the bits that members hold.                       *)
HeldClaimed == \A m \in Holders : bits[m] \in claimed
ClaimedHeld == \A b \in claimed : \E e \in Kept : BitOf(e) = b

(* What the running pass has still to do has no bit yet.                   *)
PendingFree ==
  \A i \in 1 .. Len(entries) : i >= at =>
    /\ pass = "explicit" => BitOf(entries[i]) = NoBit
    /\ pass = "auto" /\ IsAuto(entries[i]) => BitOf(entries[i]) = NoBit

(* The cursor has passed claimed bits only, and every automatic member it  *)
(* has been moved for; NoBit, the width, is below it once bits ran out.    *)
CursorPassed ==
  /\ \A b \in Bit : b < cursor => b \in claimed
  /\ pass = "auto" =>
       \A i \in 1 .. Len(entries) :
         i < at /\ IsAuto(entries[i]) => BitOf(entries[i]) < cursor

IInv ==
  /\ TypeOK
  /\ Ascending
  /\ NamesUnique
  /\ NothingYet
  /\ HeldClaimed
  /\ ClaimedHeld
  /\ PendingFree
  /\ CursorPassed
  /\ BitsDistinct
  /\ ExplicitHonoured
  /\ AutoTakesNextUnclaimed
  /\ OverflowOnlyWhenFull

-----------------------------------------------------------------------------
(* Type correctness.                                                       *)
LEMMA EntryFacts ==
  ASSUME TypeOK
  PROVE  /\ Len(block) \in Nat /\ Len(entries) \in Nat
         /\ \A e \in 1 .. Len(block) : block[e] \in Entry
         /\ DOMAIN block = 1 .. Len(block)
         /\ \A i \in 1 .. Len(entries) : entries[i] \in Kept
         /\ \A e \in Kept : /\ e \in 1 .. Len(block)
                            /\ \E i \in 1 .. Len(entries) : entries[i] = e
BY DEF TypeOK, Kept, Range

LEMMA EntryParts ==
  ASSUME NEW e \in Entry
  PROVE  e.name \in Member /\ e.bit \in Nat /\ e.kind \in {"auto", "bit", "number"}
BY DEF Entry

LEMMA CurrentFacts ==
  ASSUME TypeOK, at <= Len(entries)
  PROVE  /\ at \in 1 .. Len(entries) /\ entries[at] \in Kept
         /\ entries[at] \in DOMAIN block
         /\ Current.name \in Member /\ Current.bit \in Nat
<1>1. at \in 1 .. Len(entries)
  BY EntryFacts DEF TypeOK
<1>2. entries[at] \in Kept /\ entries[at] \in 1 .. Len(block)
  BY <1>1, EntryFacts
<1>3. Current \in Entry
  BY <1>2, EntryFacts DEF Current
<1> QED
  BY <1>1, <1>2, <1>3, EntryFacts, EntryParts

(* A claim of bit b by the current entry changes this member's bit only.   *)
LEMMA ClaimFacts ==
  ASSUME TypeOK, at <= Len(entries), NEW b \in Bit, Claim(b)
  PROVE  /\ claimed' = claimed \cup {b} /\ claimed' \subseteq Bit
         /\ bits' \in [Member -> Bit \cup {NoBit}]
         /\ bits'[Current.name] = b
         /\ \A m \in Member \ {Current.name} : bits'[m] = bits[m]
<1>1. Current.name \in Member
  BY CurrentFacts
<1>2. bits \in [Member -> Bit \cup {NoBit}] /\ claimed \subseteq Bit
  BY DEF TypeOK
<1>3. bits' = [bits EXCEPT ![Current.name] = b] /\ claimed' = claimed \cup {b}
  BY DEF Claim
<1> QED
  BY <1>1, <1>2, <1>3

LEMMA TypeInit == Init => TypeOK
BY FlagsAssumption DEF Init, TypeOK, Bit, NoBit

LEMMA TypeStep == TypeOK /\ [Next]_vars => TypeOK'
<1> SUFFICES ASSUME TypeOK, [Next]_vars PROVE TypeOK'
  OBVIOUS
<1> USE DEF TypeOK
<1>1. CASE KeepName
  <2>1. at \in DOMAIN block
    BY <1>1, EntryFacts DEF KeepName
  <2> QED
    BY <1>1, <2>1 DEF KeepName
<1>2. CASE DropName
  <2>1. at \in DOMAIN block
    BY <1>2, EntryFacts DEF DropName
  <2> QED
    BY <1>2, <2>1 DEF DropName, Check
<1>3. CASE PassOver
  BY <1>3 DEF PassOver
<1>4. CASE ClaimExplicit
  <2>1. Current.bit \in Bit
    BY <1>4, CurrentFacts, FlagsAssumption DEF ClaimExplicit, InExplicit, Bit
  <2> QED
    BY <1>4, <2>1, ClaimFacts DEF ClaimExplicit, InExplicit
<1>5. CASE RefuseExplicit
  BY <1>5, CurrentFacts DEF RefuseExplicit, InExplicit, Check
<1>6. CASE SetZero
  BY <1>6, CurrentFacts DEF SetZero, InAuto
<1>7. CASE SkipClaimed
  BY <1>7 DEF SkipClaimed
<1>8. CASE AssignAuto
  <2>1. cursor \in Bit
    BY <1>8, FlagsAssumption DEF AssignAuto, Bit
  <2> QED
    BY <1>8, <2>1, ClaimFacts DEF AssignAuto, InAuto
<1>9. CASE OverflowAuto
  BY <1>9, CurrentFacts DEF OverflowAuto, InAuto, Check
<1>10. CASE EndPass
  BY <1>10 DEF EndPass
<1>11. CASE UNCHANGED vars
  BY <1>11 DEF vars
<1> QED
  BY <1>1, <1>2, <1>3, <1>4, <1>5, <1>6, <1>7, <1>8, <1>9, <1>10, <1>11
     DEF Next, Finished

(* Every variable keeps its type: no bit outside the declared width is     *)
(* ever claimed, and every error is at a line of the block.                *)
THEOREM TypeCorrect == Spec => []TypeOK
BY TypeInit, TypeStep, PTL DEF Spec

-----------------------------------------------------------------------------
(* Steps that leave the entries as they are.                               *)
LEMMA OrderKept ==
  ASSUME UNCHANGED <<block, entries>>, pass' = "names" => pass = "names" /\ at <= at',
         TypeOK, TypeOK', Ascending, NamesUnique
  PROVE  Ascending' /\ NamesUnique'
<1>1. NamesUnique'
  BY DEF NamesUnique, Kept
<1>2. Ascending'
  BY EntryFacts DEF Ascending, TypeOK
<1> QED
  BY <1>1, <1>2

(* What a claim by the current entry, if it has no bit yet, comes to.      *)
LEMMA ClaimStep ==
  ASSUME TypeOK, NamesUnique, HeldClaimed, ClaimedHeld, BitsDistinct,
         at <= Len(entries), NEW line, line = entries[at], BitOf(line) = NoBit,
         NEW b \in Bit \ claimed, Claim(b), UNCHANGED <<block, entries>>
  PROVE  /\ HeldClaimed' /\ ClaimedHeld' /\ BitsDistinct'
         /\ BitOf(line)' = b
         /\ \A e \in Kept \ {line} : BitOf(e)' = BitOf(e)
<1> DEFINE m == Current.name
<1>1. /\ at \in 1 .. Len(entries) /\ line \in Kept
      /\ m \in Member /\ m = block[line].name
  BY CurrentFacts DEF Current
<1>2. /\ claimed' = claimed \cup {b}
      /\ bits' \in [Member -> Bit \cup {NoBit}]
      /\ bits'[m] = b
      /\ \A n \in Member \ {m} : bits'[n] = bits[n]
  BY ClaimFacts
<1>3. NoBit \notin Bit
  BY FlagsAssumption DEF Bit, NoBit
<1>4. bits[m] = NoBit
  BY <1>1 DEF BitOf
<1> HIDE DEF m
<1>5. Holders' = Holders \cup {m} /\ m \notin Holders
  BY <1>1, <1>2, <1>3, <1>4 DEF Holders
<1>6. HeldClaimed'
  BY <1>2, <1>5 DEF HeldClaimed, Holders
<1>7. BitsDistinct'
  BY <1>2, <1>5 DEF BitsDistinct, HeldClaimed, Holders
<1>8. BitOf(line)' = b
  BY <1>1, <1>2 DEF BitOf
<1>9. \A e \in Kept \ {line} : BitOf(e)' = BitOf(e)
  <2> SUFFICES ASSUME NEW e \in Kept \ {line} PROVE BitOf(e)' = BitOf(e)
    OBVIOUS
  <2>1. block[e].name \in Member /\ block[e].name # m
    BY <1>1, EntryFacts, EntryParts DEF NamesUnique
  <2> QED
    BY <1>2, <2>1 DEF BitOf
<1>10. ClaimedHeld'
  <2> SUFFICES ASSUME NEW c \in claimed' PROVE \E e \in Kept : BitOf(e)' = c
    BY DEF ClaimedHeld, Kept
  <2>1. CASE c = b
    BY <1>1, <1>8, <2>1
  <2>2. CASE c \in claimed
    <3>1. PICK e \in Kept : BitOf(e) = c
      BY <2>2 DEF ClaimedHeld
    <3>2. e # line
      BY <1>3, <2>2, <3>1 DEF TypeOK
    <3> QED
      BY <1>9, <3>1, <3>2
  <2> QED
    BY <1>2, <2>1, <2>2
<1> QED
  BY <1>6, <1>7, <1>8, <1>9, <1>10

(* Steps that touch no bit.                                                *)
LEMMA QuietStep ==
  ASSUME UNCHANGED <<block, entries, claimed, bits>>,
         HeldClaimed, ClaimedHeld, BitsDistinct, ExplicitHonoured,
         AutoTakesNextUnclaimed
  PROVE  /\ HeldClaimed' /\ ClaimedHeld' /\ BitsDistinct' /\ ExplicitHonoured'
         /\ AutoTakesNextUnclaimed'
         /\ Kept' = Kept /\ \A e : BitOf(e)' = BitOf(e) /\ IsAuto(e)' = IsAuto(e)
<1>1. Kept' = Kept /\ Holders' = Holders
      /\ \A e : BitOf(e)' = BitOf(e) /\ IsAuto(e)' = IsAuto(e)
  BY DEF Kept, Holders, BitOf, IsAuto
<1>2. HeldClaimed' /\ ClaimedHeld' /\ BitsDistinct'
  BY <1>1 DEF HeldClaimed, ClaimedHeld, BitsDistinct
<1>3. ExplicitHonoured' /\ AutoTakesNextUnclaimed'
  BY <1>1 DEF ExplicitHonoured, AutoTakesNextUnclaimed, NoBit
<1> QED
  BY <1>1, <1>2, <1>3

-----------------------------------------------------------------------------
(* Each action preserves the invariant.                                    *)
LEMMA KeepNameStep ==
  ASSUME IInv, TypeOK', KeepName
  PROVE  IInv'
<1> USE DEF IInv
<1>1. /\ pass = "names" /\ at \in 1 .. Len(block) /\ block[at].name \notin Seen
      /\ entries' = Append(entries, at) /\ at' = at + 1
      /\ UNCHANGED <<block, pass, claimed, cursor, bits, zeros, errors>>
  BY DEF KeepName, TypeOK
<1>2. /\ Len(entries') = Len(entries) + 1 /\ entries'[Len(entries) + 1] = at
      /\ \A i \in 1 .. Len(entries) : entries'[i] = entries[i]
      /\ Len(entries) \in Nat /\ at \in Nat
  BY <1>1 DEF TypeOK
<1>3. Kept' = Kept \cup {at}
  <2>1. /\ Kept = {entries[i] : i \in 1 .. Len(entries)}
        /\ Kept' = {entries'[i] : i \in 1 .. Len(entries')}
    <3>1. entries \in Seq(DOMAIN block) /\ entries' \in Seq(DOMAIN block')
      BY DEF TypeOK
    <3> HIDE DEF IInv
    <3>2. /\ Range(entries) = {entries[i] : i \in 1 .. Len(entries)}
          /\ Range(entries') = {entries'[i] : i \in 1 .. Len(entries')}
      BY <3>1, RangeIndexed
    <3> QED
      BY <3>2 DEF Kept
  <2>2. 1 .. Len(entries') = 1 .. Len(entries) \cup {Len(entries) + 1}
    BY <1>2
  <2> QED
    BY <1>2, <2>1, <2>2
<1>4. Ascending'
  <2>1. \A i \in 1 .. Len(entries) : entries[i] < at /\ entries[i] \in Nat
    BY <1>1, EntryFacts DEF Ascending
  <2>2. \A i \in 1 .. Len(entries') : i \in 1 .. Len(entries) \/ i = Len(entries) + 1
    BY <1>2
  <2>3. \A i \in 1 .. Len(entries') : entries'[i] < at + 1
    BY <1>1, <1>2, <2>1, <2>2
  <2>4. \A i, j \in 1 .. Len(entries') : i < j => entries'[i] < entries'[j]
    BY <1>2, <2>1, <2>2 DEF Ascending
  <2> QED
    BY <1>1, <2>3, <2>4 DEF Ascending
<1>5. NamesUnique'
  BY <1>1, <1>3 DEF NamesUnique, Seen, Kept
<1>6. \A m \in Member : bits[m] = NoBit /\ bits'[m] = NoBit
  BY <1>1 DEF NothingYet, NoBit
<1>7. \A e \in Kept' : BitOf(e)' = NoBit
  <2>1. \A e \in Kept' : e \in 1 .. Len(block)
    BY <1>1, <1>3, EntryFacts
  <2> QED
    BY <1>1, <1>6, <2>1, EntryFacts, EntryParts DEF BitOf
<1>8. NothingYet'
  BY <1>1, <1>6, <1>7 DEF NothingYet, NoBit
<1>9. HeldClaimed' /\ BitsDistinct'
  BY <1>6 DEF HeldClaimed, BitsDistinct, Holders, NoBit
<1>10. ClaimedHeld'
  BY <1>1, <1>3 DEF ClaimedHeld, BitOf
<1>11. PendingFree' /\ CursorPassed'
  BY <1>1 DEF PendingFree, CursorPassed, Bit
<1>12. ExplicitHonoured' /\ AutoTakesNextUnclaimed'
  BY <1>7 DEF ExplicitHonoured, AutoTakesNextUnclaimed, NoBit
<1>13. OverflowOnlyWhenFull'
  BY <1>1, <1>3, EntryFacts DEF NothingYet, OverflowOnlyWhenFull
<1> QED
  BY <1>4, <1>5, <1>8, <1>9, <1>10, <1>11, <1>12, <1>13

(* The steps that move no bit: an error, a member passed over, the next    *)
(* pass.                                                                   *)
LEMMA QuietInv ==
  ASSUME IInv, TypeOK',
         UNCHANGED <<block, entries, claimed, bits>>,
         \/ DropName \/ PassOver \/ RefuseExplicit \/ SetZero \/ SkipClaimed
         \/ EndPass \/ UNCHANGED vars
  PROVE  IInv'
<1> USE DEF IInv
<1>0. /\ at \in Nat /\ Len(entries) \in Nat /\ cursor \in Nat
      /\ at <= Len(entries) => at \in 1 .. Len(entries)
      /\ Current = block[entries[at]]
  BY DEF TypeOK, Current
<1>1. /\ HeldClaimed' /\ ClaimedHeld' /\ BitsDistinct' /\ ExplicitHonoured'
      /\ AutoTakesNextUnclaimed' /\ Kept' = Kept
      /\ \A e : BitOf(e)' = BitOf(e) /\ IsAuto(e)' = IsAuto(e)
  BY QuietStep
<1>2. Ascending' /\ NamesUnique'
  <2>1. pass' = "names" => pass = "names" /\ at <= at'
    BY <1>0 DEF DropName, PassOver, RefuseExplicit, SetZero, SkipClaimed, EndPass,
                InExplicit, InAuto, vars
  <2> QED
    BY <2>1, OrderKept
<1>3. /\ pass' = "names" => pass = "names"
      /\ pass' \in {"names", "explicit"} =>
           pass \in {"names", "explicit"} /\ cursor' = cursor
      /\ \A e : <<e, "flags_width_overflow">> \in errors' =>
                <<e, "flags_width_overflow">> \in errors
  BY DEF DropName, PassOver, RefuseExplicit, SetZero, SkipClaimed, EndPass,
         InExplicit, InAuto, vars
<1>4. NothingYet'
  BY <1>1, <1>3 DEF NothingYet, NoBit
<1>5. OverflowOnlyWhenFull'
  BY <1>1, <1>3 DEF OverflowOnlyWhenFull, Bit
<1>6. PendingFree' /\ CursorPassed'
  <2>1. CASE DropName
    BY <2>1 DEF DropName, PendingFree, CursorPassed, Bit
  <2>2. CASE PassOver \/ RefuseExplicit \/ SetZero
    <3>1. /\ at' = at + 1 /\ pass' = pass /\ cursor' = cursor
          /\ at \in 1 .. Len(entries)
          /\ pass = "auto" => ~IsAuto(entries[at])
      BY <1>0, <2>2 DEF PassOver, RefuseExplicit, SetZero, InExplicit, InAuto, IsAuto
    <3>2. PendingFree'
      BY <1>0, <1>1, <3>1 DEF PendingFree, NoBit
    <3>3. CursorPassed'
      BY <1>0, <1>1, <3>1 DEF CursorPassed, Bit
    <3> QED
      BY <3>2, <3>3
  <2>3. CASE SkipClaimed
    <3>1. /\ at' = at /\ pass' = pass /\ cursor' = cursor + 1 /\ cursor \in claimed
      BY <2>3 DEF SkipClaimed
    <3>2. PendingFree'
      BY <1>1, <3>1 DEF PendingFree, NoBit
    <3>3. \A b \in Bit : b < cursor + 1 => b \in claimed
      BY <1>0, <3>1 DEF CursorPassed, Bit
    <3>4. \A e \in Kept : BitOf(e) < cursor => BitOf(e) < cursor + 1
      <4>1. \A e \in Kept : BitOf(e) \in Nat
        BY EntryFacts, EntryParts, FlagsAssumption DEF BitOf, TypeOK, Bit, NoBit
      <4> QED
        BY <1>0, <4>1
    <3>5. CursorPassed'
      BY <1>0, <1>1, <3>1, <3>3, <3>4, EntryFacts DEF CursorPassed, Bit
    <3> QED
      BY <3>2, <3>5
  <2>4. CASE EndPass
    <3>1. CASE pass = "names" /\ pass' = "explicit"
      <4>1. \A i \in 1 .. Len(entries) : BitOf(entries[i]) = NoBit
        BY <3>1, EntryFacts, EntryParts DEF NothingYet, BitOf
      <4> QED
        BY <1>1, <2>4, <3>1, <4>1 DEF EndPass, PendingFree, CursorPassed, Bit, NoBit
    <3>2. CASE pass = "explicit" /\ pass' = "auto"
      <4>1. \A i \in 1 .. Len(entries) : IsAuto(entries[i]) => BitOf(entries[i]) = NoBit
        BY <3>2, EntryFacts DEF NothingYet
      <4>2. at' = 1 /\ cursor' = cursor
        BY <2>4 DEF EndPass
      <4>3. \A i \in 1 .. Len(entries) : ~ (i < 1)
        OBVIOUS
      <4>4. PendingFree'
        BY <1>1, <3>2, <4>1 DEF PendingFree, NoBit
      <4>5. CursorPassed'
        BY <1>1, <3>2, <4>2, <4>3 DEF CursorPassed, Bit
      <4> QED
        BY <4>4, <4>5
    <3>3. CASE pass = "auto" /\ pass' = "done"
      BY <2>4, <3>3 DEF EndPass, PendingFree, CursorPassed, Bit
    <3> QED
      BY <2>4, <3>1, <3>2, <3>3 DEF EndPass
  <2>5. CASE UNCHANGED vars
    BY <1>1, <2>5 DEF vars, PendingFree, CursorPassed, Bit, NoBit
  <2> QED
    BY <2>1, <2>2, <2>3, <2>4, <2>5
<1> QED
  BY <1>1, <1>2, <1>4, <1>5, <1>6

(* Only automatic members get the bits of the second pass, and the first   *)
(* one finds no automatic member with a bit.                               *)
LEMMA ClaimExplicitStep ==
  ASSUME IInv, TypeOK', ClaimExplicit
  PROVE  IInv'
<1> USE DEF IInv
<1>0. PICK line : line = entries[at]
  OBVIOUS
<1>1. /\ pass = "explicit" /\ at \in 1 .. Len(entries) /\ at' = at + 1
      /\ line \in Kept /\ Current = block[line] /\ block[line].kind = "bit"
      /\ block[line].bit \in Bit \ claimed /\ Claim(block[line].bit)
      /\ UNCHANGED <<block, entries, pass, cursor, zeros, errors>>
      /\ at \in Nat /\ at <= Len(entries)
  BY <1>0, CurrentFacts, FlagsAssumption DEF ClaimExplicit, InExplicit, Current, Bit, TypeOK
<1>2. BitOf(line) = NoBit
  BY <1>0, <1>1 DEF PendingFree
<1>3. /\ HeldClaimed' /\ ClaimedHeld' /\ BitsDistinct'
      /\ BitOf(line)' = block[line].bit
      /\ \A e \in Kept \ {line} : BitOf(e)' = BitOf(e)
  BY <1>0, <1>1, <1>2, ClaimStep
<1>4. claimed \subseteq claimed' /\ Kept' = Kept
      /\ \A e : IsAuto(e)' = IsAuto(e)
  BY <1>1 DEF Claim, Kept, IsAuto
<1>5. Ascending' /\ NamesUnique'
  BY <1>1, OrderKept
<1>6. \A e \in Kept : IsAuto(e) => e # line /\ BitOf(e) = NoBit /\ BitOf(e)' = NoBit
  BY <1>1, <1>3 DEF NothingYet, IsAuto
<1>7. NothingYet'
  BY <1>1, <1>4, <1>6 DEF NothingYet, NoBit
<1>8. PendingFree'
  <2> SUFFICES ASSUME NEW i \in 1 .. Len(entries), i >= at + 1
               PROVE  BitOf(entries[i])' = NoBit
    BY <1>1 DEF PendingFree, NoBit
  <2>1. entries[i] \in Kept /\ entries[i] # line
    BY <1>0, <1>1, EntryFacts DEF Ascending
  <2>2. BitOf(entries[i]) = NoBit
    BY <1>1 DEF PendingFree
  <2> QED
    BY <1>1, <1>3, <2>1, <2>2
<1>9. CursorPassed'
  BY <1>1, <1>4 DEF CursorPassed, Bit
<1>10. ExplicitHonoured'
  <2> SUFFICES ASSUME NEW e \in Kept, block[e].kind = "bit"
               PROVE  BitOf(e)' \in {block[e].bit, NoBit}
    BY <1>1, <1>4 DEF ExplicitHonoured, NoBit
  <2>1. CASE e = line
    BY <1>3, <2>1
  <2>2. CASE e # line
    BY <1>3, <2>2 DEF ExplicitHonoured
  <2> QED
    BY <2>1, <2>2
<1>11. AutoTakesNextUnclaimed'
  BY <1>4, <1>6 DEF AutoTakesNextUnclaimed, NoBit
<1>12. OverflowOnlyWhenFull'
  BY <1>1, <1>4, EntryFacts DEF NothingYet, OverflowOnlyWhenFull
<1> QED
  BY <1>3, <1>5, <1>7, <1>8, <1>9, <1>10, <1>11, <1>12

LEMMA AssignAutoStep ==
  ASSUME IInv, TypeOK', AssignAuto
  PROVE  IInv'
<1> USE DEF IInv
<1>0. PICK line : line = entries[at]
  OBVIOUS
<1>1. /\ pass = "auto" /\ at \in 1 .. Len(entries) /\ at' = at + 1
      /\ line \in Kept /\ IsAuto(line) /\ cursor \in Bit \ claimed /\ Claim(cursor)
      /\ cursor' = cursor + 1 /\ at \in Nat /\ cursor \in Nat /\ at <= Len(entries)
      /\ UNCHANGED <<block, entries, pass, zeros, errors>>
  BY <1>0, CurrentFacts, FlagsAssumption DEF AssignAuto, InAuto, Current, IsAuto, Bit, TypeOK
<1>2. BitOf(line) = NoBit
  BY <1>0, <1>1 DEF PendingFree
<1>3. /\ HeldClaimed' /\ ClaimedHeld' /\ BitsDistinct'
      /\ BitOf(line)' = cursor
      /\ \A e \in Kept \ {line} : BitOf(e)' = BitOf(e)
  BY <1>1, <1>2, <1>0, ClaimStep
<1>4. claimed' = claimed \cup {cursor} /\ Kept' = Kept
      /\ \A e : IsAuto(e)' = IsAuto(e)
  BY <1>1 DEF Claim, Kept, IsAuto
<1>5. Ascending' /\ NamesUnique'
  BY <1>1, OrderKept
<1>6. NothingYet'
  BY <1>1 DEF NothingYet
<1>7. \A i \in 1 .. Len(entries) :
        /\ entries[i] \in Kept
        /\ i # at => entries[i] # line
        /\ i < at => entries[i] < line
        /\ i > at => line < entries[i]
  <2>1. \A i \in 1 .. Len(entries) : entries[i] \in Kept /\ entries[i] \in Nat
    BY EntryFacts
  <2> QED
    BY <1>1, <1>0, <2>1 DEF Ascending, TypeOK
<1>8. PendingFree'
  <2> SUFFICES ASSUME NEW i \in 1 .. Len(entries), i >= at + 1, IsAuto(entries[i])
               PROVE  BitOf(entries[i])' = NoBit
    BY <1>1, <1>4 DEF PendingFree, NoBit
  <2>1. BitOf(entries[i]) = NoBit
    BY <1>1 DEF PendingFree
  <2> QED
    BY <1>1, <1>3, <1>7, <2>1
<1>9. \A e \in Kept : BitOf(e) \in Bit \cup {NoBit}
  BY EntryFacts, EntryParts DEF BitOf, TypeOK
<1>10. \A b \in Bit : b < cursor + 1 => b \in claimed'
  BY <1>1, <1>4 DEF CursorPassed, Bit
<1>11. CursorPassed'
  <2>1. ASSUME NEW i \in 1 .. Len(entries), i < at + 1, IsAuto(entries[i])
        PROVE  BitOf(entries[i])' < cursor + 1
    <3>1. CASE i = at
      BY <1>1, <1>3, <1>0, <3>1
    <3>2. CASE i < at
      <4>1. BitOf(entries[i])' = BitOf(entries[i])
        BY <1>1, <1>3, <1>7, <3>2
      <4>2. BitOf(entries[i]) < cursor /\ BitOf(entries[i]) \in Nat
        BY <1>1, <1>7, <1>9, <2>1, <3>2, FlagsAssumption DEF CursorPassed, Bit, NoBit
      <4> QED
        BY <1>1, <4>1, <4>2
    <3> QED
      BY <1>1, <2>1, <3>1, <3>2
  <2> QED
    BY <1>1, <1>4, <1>10, <2>1 DEF CursorPassed, Bit
<1>12. ExplicitHonoured'
  <2>1. \A e \in Kept : block[e].kind = "bit" => e # line
    BY <1>1 DEF IsAuto
  <2> QED
    BY <1>1, <1>3, <1>4, <2>1 DEF ExplicitHonoured, NoBit
<1>13. AutoTakesNextUnclaimed'
  <2> SUFFICES ASSUME NEW e \in Kept, IsAuto(e), BitOf(e)' # NoBit
               PROVE  /\ \A f \in Kept : f < e /\ IsAuto(f) => BitOf(f)' < BitOf(e)'
                      /\ \A b \in 0 .. BitOf(e)' - 1 :
                           \E f \in Kept : BitOf(f)' = b /\ (IsAuto(f) => f < e)
    BY <1>4 DEF AutoTakesNextUnclaimed, NoBit
  (* An automatic member that has a bit is the current one or before it.   *)
  <2>1. ASSUME NEW f \in Kept, IsAuto(f), BitOf(f) # NoBit
        PROVE  f < line
    <3>1. PICK i \in 1 .. Len(entries) : entries[i] = f
      BY EntryFacts
    <3>2. i < at
      BY <1>1, <2>1, <3>1 DEF PendingFree
    <3> QED
      BY <1>7, <3>1, <3>2
  <2>2. CASE e = line
    <3>1. ASSUME NEW f \in Kept, f < line, IsAuto(f)
          PROVE  BitOf(f)' < cursor
      <4>1. PICK i \in 1 .. Len(entries) : entries[i] = f
        BY EntryFacts
      <4>2. i < at
        <5>1. f \in Nat /\ line \in Nat
          BY <1>1, EntryFacts
        <5> QED
          BY <1>1, <1>7, <1>0, <3>1, <4>1, <5>1
      <4>3. BitOf(f) < cursor
        BY <1>1, <3>1, <4>1, <4>2 DEF CursorPassed
      <4> QED
        BY <1>1, <1>3, <1>7, <4>1, <4>2, <4>3
    <3>2. ASSUME NEW b \in 0 .. cursor - 1
          PROVE  \E f \in Kept : BitOf(f)' = b /\ (IsAuto(f) => f < line)
      <4>1. b \in claimed /\ b # NoBit
        BY <1>1, FlagsAssumption DEF CursorPassed, Bit, NoBit
      <4>2. PICK f \in Kept : BitOf(f) = b
        BY <4>1 DEF ClaimedHeld
      <4>3. f # line
        BY <1>2, <4>1, <4>2
      <4> QED
        BY <1>3, <2>1, <4>1, <4>2, <4>3
    <3> QED
      BY <1>3, <2>2, <3>1, <3>2
  <2>3. CASE e # line
    <3>1. BitOf(e)' = BitOf(e) /\ BitOf(e) # NoBit /\ e < line
      BY <1>3, <2>1, <2>3
    <3>2. \A f \in Kept : f < e => f # line
      BY <1>1, <3>1, EntryFacts
    <3>3. \A f \in Kept : f < e /\ IsAuto(f) => BitOf(f)' < BitOf(e)'
      BY <1>3, <3>1, <3>2 DEF AutoTakesNextUnclaimed
    <3>4. ASSUME NEW b \in 0 .. BitOf(e) - 1
          PROVE  \E f \in Kept : BitOf(f)' = b /\ (IsAuto(f) => f < e)
      <4>1. PICK f \in Kept : BitOf(f) = b /\ (IsAuto(f) => f < e)
        BY <3>1 DEF AutoTakesNextUnclaimed
      <4>2. b # NoBit
        BY <1>9, <3>1, FlagsAssumption DEF Bit, NoBit
      <4> QED
        BY <1>2, <1>3, <4>1, <4>2
    <3> QED
      BY <3>1, <3>3, <3>4
  <2> QED
    BY <2>2, <2>3
<1>14. OverflowOnlyWhenFull'
  BY <1>1, <1>4 DEF OverflowOnlyWhenFull, TypeOK, Bit
<1> QED
  BY <1>3, <1>5, <1>6, <1>8, <1>11, <1>12, <1>13, <1>14

(* With no bit left, the cursor has passed them all.                       *)
LEMMA OverflowAutoStep ==
  ASSUME IInv, TypeOK', OverflowAuto
  PROVE  IInv'
<1> USE DEF IInv
<1>0. PICK line : line = entries[at]
  OBVIOUS
<1>1. /\ pass = "auto" /\ at \in 1 .. Len(entries) /\ at' = at + 1 /\ at \in Nat
      /\ line \in Kept /\ cursor >= Width /\ cursor' = cursor + 1 /\ cursor \in Nat
      /\ IsAuto(line)
      /\ UNCHANGED <<block, entries, pass, claimed, bits, zeros>>
  BY <1>0, CurrentFacts DEF OverflowAuto, InAuto, Current, IsAuto, TypeOK
<1>2. /\ HeldClaimed' /\ ClaimedHeld' /\ BitsDistinct' /\ ExplicitHonoured'
      /\ AutoTakesNextUnclaimed' /\ Kept' = Kept
      /\ \A e : BitOf(e)' = BitOf(e) /\ IsAuto(e)' = IsAuto(e)
  BY <1>1, QuietStep
<1>3. Ascending' /\ NamesUnique'
  BY <1>1, OrderKept
<1>4. NothingYet'
  BY <1>1 DEF NothingYet
<1>5. PendingFree'
  BY <1>1, <1>2 DEF PendingFree, NoBit
<1>6. claimed = Bit
  <2>1. \A b \in Bit : b < cursor
    BY <1>1, FlagsAssumption DEF Bit
  <2>2. Bit \subseteq claimed
    BY <2>1 DEF CursorPassed
  <2> QED
    BY <2>2 DEF TypeOK
<1>7. CursorPassed'
  <2>1. \A i \in 1 .. Len(entries) : IsAuto(entries[i]) => BitOf(entries[i]) < cursor + 1
    <3>1. \A e \in Kept : BitOf(e) \in Bit \cup {NoBit}
      BY EntryFacts, EntryParts DEF BitOf, TypeOK
    <3>2. \A e \in Kept : BitOf(e) < cursor + 1
      BY <1>1, <3>1, FlagsAssumption DEF Bit, NoBit
    <3> QED
      BY <3>2, EntryFacts
  <2> QED
    BY <1>1, <1>2, <1>6, <2>1 DEF CursorPassed, Bit
<1>8. OverflowOnlyWhenFull'
  BY <1>1, <1>6 DEF OverflowOnlyWhenFull, Bit
<1> QED
  BY <1>2, <1>3, <1>4, <1>5, <1>7, <1>8

LEMMA InvInit == Init => IInv
<1> SUFFICES ASSUME Init PROVE IInv
  OBVIOUS
<1>1. TypeOK
  BY TypeInit
<1>2. Kept = {} /\ Holders = {} /\ Len(entries) = 0
  BY DEF Init, Kept, Range, Holders
<1>3. Ascending /\ NamesUnique /\ NothingYet /\ HeldClaimed /\ ClaimedHeld /\ PendingFree
  BY <1>2 DEF Init, Ascending, NamesUnique, NothingYet, HeldClaimed, ClaimedHeld, PendingFree
<1>4. CursorPassed
  BY FlagsAssumption DEF Init, CursorPassed, Bit
<1>5. BitsDistinct /\ ExplicitHonoured /\ AutoTakesNextUnclaimed /\ OverflowOnlyWhenFull
  BY <1>2 DEF BitsDistinct, ExplicitHonoured, AutoTakesNextUnclaimed, OverflowOnlyWhenFull
<1> QED
  BY <1>1, <1>3, <1>4, <1>5 DEF IInv

LEMMA InvStep == IInv /\ [Next]_vars => IInv'
<1> SUFFICES ASSUME IInv, [Next]_vars PROVE IInv'
  OBVIOUS
<1>1. TypeOK'
  BY TypeStep DEF IInv
<1>2. DropName \/ PassOver \/ RefuseExplicit \/ SetZero \/ SkipClaimed \/ EndPass
        \/ UNCHANGED vars
      => UNCHANGED <<block, entries, claimed, bits>>
  BY DEF DropName, PassOver, RefuseExplicit, SetZero, SkipClaimed, EndPass, vars
<1> QED
  BY <1>1, <1>2, KeepNameStep, QuietInv, ClaimExplicitStep, AssignAutoStep,
     OverflowAutoStep
     DEF Next, Finished

LEMMA Invariant == Spec => []IInv
BY InvInit, InvStep, PTL DEF Spec

-----------------------------------------------------------------------------
(* For every width and every block, however its explicit and automatic     *)
(* members are mixed: no two members hold one bit, and a member that names *)
(* its bit gets that bit or none.                                          *)
THEOREM NoTwoOwners == Spec => [](BitsDistinct /\ ExplicitHonoured)
<1>1. IInv => BitsDistinct /\ ExplicitHonoured
  BY DEF IInv
<1> QED
  BY <1>1, Invariant, PTL

(* The automatic bits are the unclaimed ones in the order of the file, and *)
(* a member is refused for want of bits only when every bit is taken.      *)
THEOREM BitsWellSpent == Spec => [](AutoTakesNextUnclaimed /\ OverflowOnlyWhenFull)
<1>1. IInv => AutoTakesNextUnclaimed /\ OverflowOnlyWhenFull
  BY DEF IInv
<1> QED
  BY <1>1, Invariant, PTL

-----------------------------------------------------------------------------
(* Names and permanent IDs.  An item is a declaration that has an ID, at   *)
(* entry 0 for an instance; the loop has passed it when it is Before the   *)
(* loop's position.                                                        *)
IsInstance(p) == p \in DOMAIN program /\ program[p].kind = "instance"
IsEntry(p, e) ==
  /\ p \in DOMAIN program
  /\ program[p].kind = "identifier"
  /\ e \in DOMAIN program[p].entries
IsItem(p, e) == (IsInstance(p) /\ e = 0) \/ IsEntry(p, e)

NameOf(p, e) ==
  IF e = 0 THEN <<program[p].type, program[p].name>>
  ELSE <<program[p].name, program[p].entries[e].text>>
IdentityOf(p, e) ==
  IF e = 0 THEN <<program[p].type, program[p].name>>
  ELSE <<program[p].name, program[p].entries[e].key>>

Before(p, e) == p < decl \/ (p = decl /\ e < entry)
Opened(p) == p < decl \/ (p = decl /\ entry > 0)

(* Names of identifier domains and types of instances are kept apart: an   *)
(* entry and an instance then never have one identity.                     *)
NamesApart ==
  \A p, q \in DOMAIN program :
    program[p].kind = "identifier" /\ program[q].kind = "instance"
      => program[p].name # program[q].type

Typed ==
  /\ program \in Seq(Decl)
  /\ decl \in Nat \ {0}
  /\ entry \in Nat
  /\ entry > 0 => /\ decl <= Len(program)
                  /\ program[decl].kind # "instance"
                  /\ entry <= Len(program[decl].entries) + 1

(* A row of the table is of an item, and no ID has two identities.         *)
TableReal ==
  \A t \in table : \E p, e : /\ IsItem(p, e)
                             /\ t[1] = hash[NameOf(p, e)]
                             /\ t[2] = IdentityOf(p, e)
TableFunctional == \A s, t \in table : s[1] = t[1] => s[2] = t[2]

CollisionsReal ==
  \A err \in duplicateErrors : err[3] = "id_collision" =>
    \E p, e, q, f : /\ IsItem(p, e) /\ IsItem(q, f)
                    /\ err[1] = p /\ err[2] = e
                    /\ <<q, f>> # <<p, e>>
                    /\ hash[NameOf(p, e)] = hash[NameOf(q, f)]

(* While there is no error: what is passed is in the tables, and is unique. *)
TableFull ==
  \A p, e : IsItem(p, e) /\ Before(p, e) =>
    \E t \in table : t[1] = hash[NameOf(p, e)] /\ t[2] = IdentityOf(p, e)
DeclaredFull ==
  \A p \in DOMAIN program : Opened(p) =>
    <<program[p].name, p>> \in declared[program[p].kind]
DeclsUnique ==
  \A p, q \in DOMAIN program :
    Opened(p) /\ Opened(q) /\ program[p].kind = program[q].kind
      /\ program[p].name = program[q].name => p = q
SeenFull ==
  entry > 0 =>
    /\ \A e \in DOMAIN program[decl].entries : e < entry => program[decl].entries[e].key \in seen
    /\ IsFiniteSet(seen) /\ Cardinality(seen) = entry - 1
KeysUnique ==
  \A p \in DOMAIN program : program[p].kind # "instance" =>
    \A e, f \in DOMAIN program[p].entries :
      Before(p, e) /\ Before(p, f)
        /\ program[p].entries[e].key = program[p].entries[f].key => e = f
WidthsKept ==
  \A p \in DOMAIN program :
    p < decl /\ program[p].kind = "identifier" /\ program[p].capacity # NoCapacity
      => Len(program[p].entries) <= program[p].capacity

CleanSoFar ==
  duplicateErrors = {} => /\ TableFull /\ DeclaredFull /\ DeclsUnique
                 /\ SeenFull /\ KeysUnique /\ WidthsKept

RegInv ==
  /\ Typed /\ DOMAIN declared = Kind
  /\ TableReal /\ TableFunctional /\ CollisionsReal
  /\ CleanSoFar

-----------------------------------------------------------------------------
(* A declaration has a kind; one that is no instance has entries, numbered  *)
(* from one.                                                                *)
LEMMA DeclShape ==
  ASSUME Typed, NEW p \in DOMAIN program
  PROVE  /\ p \in Nat \ {0} /\ p <= Len(program) /\ Len(program) \in Nat
         /\ program[p].kind \in Kind
         /\ program[p].kind # "instance" =>
              /\ program[p].entries \in Seq(EntryOf)
              /\ Len(program[p].entries) \in Nat
              /\ DOMAIN program[p].entries = 1 .. Len(program[p].entries)
<1>1. program[p] \in Decl /\ DOMAIN program = 1 .. Len(program) /\ Len(program) \in Nat
  BY DEF Typed
<1>2. CASE program[p] \in [kind : Kind \ {"instance"}, name : Namespace,
                           entries : Seq(EntryOf), capacity : Nat]
  BY <1>1, <1>2
<1>3. CASE program[p] \in [kind : {"instance"}, type : Namespace, name : Text]
  BY <1>1, <1>3 DEF Kind
<1> QED
  BY <1>1, <1>2, <1>3 DEF Decl

LEMMA CapacityIsNat ==
  ASSUME Typed, NEW p \in DOMAIN program, program[p].kind # "instance"
  PROVE  program[p].capacity \in Nat
<1>1. program[p] \in Decl
  BY DEF Typed
<1> QED
  BY <1>1 DEF Decl

(* An item's entry tells what it is. *)
LEMMA ItemShape ==
  ASSUME Typed, NEW p, NEW e, IsItem(p, e)
  PROVE  /\ p \in DOMAIN program /\ e \in Nat
         /\ e = 0 <=> program[p].kind = "instance"
         /\ e # 0 => program[p].kind = "identifier" /\ e \in DOMAIN program[p].entries
<1>1. p \in DOMAIN program
  BY DEF IsItem, IsInstance, IsEntry
<1> QED
  BY <1>1, DeclShape DEF IsItem, IsInstance, IsEntry

LEMMA RegInit == RegisterInit => RegInv
<1> SUFFICES ASSUME RegisterInit PROVE RegInv
  OBVIOUS
<1>1. Typed
  BY RegisterAssumption DEF RegisterInit, Typed
<1>2. DOMAIN program = 1 .. Len(program) /\ Len(program) \in Nat
  BY <1>1 DEF Typed
<1>3. TableReal /\ TableFunctional /\ CollisionsReal
  BY DEF RegisterInit, TableReal, TableFunctional, CollisionsReal
<1>4. \A p \in DOMAIN program : ~Opened(p) /\ \A e : ~Before(p, e) \/ e < 0
  BY <1>2 DEF RegisterInit, Opened, Before
<1>5. \A p, e : IsItem(p, e) => ~Before(p, e)
  <2> SUFFICES ASSUME NEW p, NEW e, IsItem(p, e) PROVE ~Before(p, e)
    OBVIOUS
  <2> QED
    BY <1>1, <1>2, ItemShape DEF Before, RegisterInit
<1>6. KeysUnique
  <2> SUFFICES ASSUME NEW p \in DOMAIN program, program[p].kind # "instance",
                      NEW e \in DOMAIN program[p].entries
               PROVE  ~Before(p, e)
    BY DEF KeysUnique
  <2> QED
    BY <1>1, <1>2, DeclShape DEF Before, RegisterInit
<1>7. CleanSoFar
  BY <1>2, <1>4, <1>5, <1>6
     DEF CleanSoFar, TableFull, DeclaredFull, DeclsUnique, SeenFull, WidthsKept, RegisterInit
<1> QED
  BY <1>1, <1>3, <1>7 DEF RegInv, RegisterInit

-----------------------------------------------------------------------------
(* A step that registers nothing keeps what is said of the table; and of    *)
(* the errors, if it adds none about an ID.                                 *)
LEMMA TableKept ==
  ASSUME RegInv, UNCHANGED <<program, hash, table>>,
         \A err \in duplicateErrors' : err \in duplicateErrors \/ err[3] # "id_collision"
  PROVE  TableReal' /\ TableFunctional' /\ CollisionsReal'
<1>1. \A p, e : /\ IsItem(p, e)' = IsItem(p, e)
                /\ hash'[NameOf(p, e)'] = hash[NameOf(p, e)]
                /\ IdentityOf(p, e)' = IdentityOf(p, e)
  BY DEF IsItem, IsInstance, IsEntry, NameOf, IdentityOf
<1>2. TableReal' /\ TableFunctional'
  BY <1>1 DEF RegInv, TableReal, TableFunctional
<1>3. CollisionsReal'
  <2> SUFFICES ASSUME NEW err \in duplicateErrors, err[3] = "id_collision"
               PROVE  \E p, e, q, f : /\ IsItem(p, e) /\ IsItem(q, f)
                                      /\ err[1] = p /\ err[2] = e
                                      /\ <<q, f>> # <<p, e>>
                                      /\ hash[NameOf(p, e)] = hash[NameOf(q, f)]
    BY <1>1 DEF CollisionsReal
  <2> QED
    BY DEF RegInv, CollisionsReal
<1> QED
  BY <1>2, <1>3

(* Registering an item: its row is there unless another identity holds the  *)
(* ID, and then there is an error, a true one.                              *)
LEMMA Registering ==
  ASSUME RegInv, NEW p, NEW e, IsItem(p, e), p = decl, e = entry,
         RegisterId(IdentityOf(p, e), NameOf(p, e)), UNCHANGED <<program, hash>>
  PROVE  /\ TableReal' /\ TableFunctional' /\ CollisionsReal'
         /\ duplicateErrors' = {} =>
              /\ duplicateErrors = {}
              /\ \E t \in table' : t[1] = hash[NameOf(p, e)] /\ t[2] = IdentityOf(p, e)
              /\ \A s \in table : \E t \in table' : t[1] = s[1] /\ t[2] = s[2]
<1> DEFINE id == hash[NameOf(p, e)]
           held == {t \in table : t[1] = id}
           clash == \E t \in held : t[2] # IdentityOf(p, e)
           new == <<id, IdentityOf(p, e), NameOf(p, e)>>
           err == <<decl, entry, "id_collision">>
<1>1. /\ table' = IF clash THEN table ELSE (table \ held) \cup {new}
      /\ duplicateErrors' = IF clash THEN duplicateErrors \cup {err} ELSE duplicateErrors
  BY DEF RegisterId
<1>2. \A q, f : /\ IsItem(q, f)' = IsItem(q, f)
                /\ hash'[NameOf(q, f)'] = hash[NameOf(q, f)]
                /\ IdentityOf(q, f)' = IdentityOf(q, f)
  BY DEF IsItem, IsInstance, IsEntry, NameOf, IdentityOf
<1>3. new[1] = id /\ new[2] = IdentityOf(p, e)
  OBVIOUS
<1>4. TableReal'
  <2> SUFFICES ASSUME NEW t \in table'
               PROVE  \E q, f : /\ IsItem(q, f)
                                /\ t[1] = hash[NameOf(q, f)] /\ t[2] = IdentityOf(q, f)
    BY <1>2 DEF TableReal
  <2>1. CASE t \in table
    BY <2>1 DEF RegInv, TableReal
  <2>2. CASE t = new
    BY <2>2, <1>3
  <2> QED
    BY <1>1, <2>1, <2>2
<1>5. TableFunctional'
  <2> SUFFICES ASSUME NEW s \in table', NEW t \in table', s[1] = t[1] PROVE s[2] = t[2]
    BY DEF TableFunctional
  <2>1. CASE clash
    BY <2>1, <1>1 DEF RegInv, TableFunctional
  <2>2. CASE ~clash
    <3>1. CASE s \in table \ held /\ t \in table \ held
      BY <3>1 DEF RegInv, TableFunctional
    <3>2. CASE s = new /\ t \in table \ held
      BY <3>2, <1>3
    <3>3. CASE s \in table \ held /\ t = new
      BY <3>3, <1>3
    <3> QED
      BY <2>2, <1>1, <3>1, <3>2, <3>3
  <2> QED
    BY <2>1, <2>2
<1>6. CollisionsReal'
  <2> SUFFICES ASSUME NEW r \in duplicateErrors', r[3] = "id_collision"
               PROVE  \E a, b, q, f : /\ IsItem(a, b) /\ IsItem(q, f)
                                      /\ r[1] = a /\ r[2] = b
                                      /\ <<q, f>> # <<a, b>>
                                      /\ hash[NameOf(a, b)] = hash[NameOf(q, f)]
    BY <1>2 DEF CollisionsReal
  <2>1. CASE r \in duplicateErrors
    BY <2>1 DEF RegInv, CollisionsReal
  <2>2. CASE r = err /\ clash
    <3>1. PICK t \in held : t[2] # IdentityOf(p, e)
      BY <2>2
    <3>2. PICK q, f : IsItem(q, f) /\ t[1] = hash[NameOf(q, f)] /\ t[2] = IdentityOf(q, f)
      BY <3>1 DEF RegInv, TableReal
    <3>3. <<q, f>> # <<p, e>>
      <4> SUFFICES ASSUME q = p /\ f = e PROVE FALSE
        OBVIOUS
      <4> QED
        BY <3>1, <3>2
    <3>4. r[1] = p /\ r[2] = e
      BY <2>2
    <3> QED
      BY <3>1, <3>2, <3>3, <3>4
  <2> QED
    BY <1>1, <2>1, <2>2
<1>7. ASSUME duplicateErrors' = {}
      PROVE  /\ duplicateErrors = {}
             /\ \E t \in table' : t[1] = id /\ t[2] = IdentityOf(p, e)
             /\ \A s \in table : \E t \in table' : t[1] = s[1] /\ t[2] = s[2]
  <2>1. ~clash /\ duplicateErrors = {} /\ table' = (table \ held) \cup {new}
    BY <1>1, <1>7
  <2>2. \A s \in table : \E t \in table' : t[1] = s[1] /\ t[2] = s[2]
    <3> SUFFICES ASSUME NEW s \in table
                 PROVE  \E t \in table' : t[1] = s[1] /\ t[2] = s[2]
      OBVIOUS
    <3>1. CASE s \in held
      <4>1. s[1] = id /\ s[2] = IdentityOf(p, e)
        BY <2>1, <3>1
      <4> QED
        BY <4>1, <2>1, <1>3
    <3>2. CASE s \notin held
      BY <3>2, <2>1
    <3> QED
      BY <3>1, <3>2
  <2> QED
    BY <2>1, <2>2, <1>3
<1> QED
  BY <1>4, <1>5, <1>6, <1>7

(* The first of a name is the only one of it that has been opened. *)
LEMMA Declaring ==
  ASSUME RegInv, CleanSoFar /\ duplicateErrors = {}, AtDecl(Kind), ~IsDeclared, Declare,
         UNCHANGED program,
         \A p \in DOMAIN program : Opened(p)' => Opened(p) \/ p = decl
  PROVE  DeclaredFull' /\ DeclsUnique'
<1>1. decl \in DOMAIN program /\ Typed /\ DOMAIN declared = Kind
  BY DEF RegInv, Typed, AtDecl
<1>2. program[decl].kind \in Kind
  BY <1>1, DeclShape
<1>3. /\ declared'[program[decl].kind]
           = declared[program[decl].kind] \cup {<<program[decl].name, decl>>}
      /\ \A k \in Kind \ {program[decl].kind} : declared'[k] = declared[k]
  BY <1>1, <1>2 DEF Declare, Declaration
<1>4. ASSUME NEW p \in DOMAIN program, Opened(p)'
      PROVE  <<program[p].name, p>> \in declared'[program[p].kind]
  <2>1. program[p].kind \in Kind
    BY <1>1, DeclShape
  <2>2. CASE p = decl
    BY <2>2, <1>3
  <2>3. CASE Opened(p)
    <3>1. <<program[p].name, p>> \in declared[program[p].kind]
      BY <2>3 DEF CleanSoFar, DeclaredFull
    <3> QED
      BY <3>1, <2>1, <1>3
  <2> QED
    BY <1>4, <2>2, <2>3
<1>5. ASSUME NEW p \in DOMAIN program, Opened(p), p # decl,
             program[p].kind = program[decl].kind
      PROVE  program[p].name # program[decl].name
  <2>1. <<program[p].name, p>> \in declared[program[decl].kind]
    BY <1>5 DEF CleanSoFar, DeclaredFull
  <2> QED
    BY <2>1 DEF IsDeclared, Declaration
<1>6. DeclsUnique'
  <2> SUFFICES ASSUME NEW p \in DOMAIN program, NEW q \in DOMAIN program,
                      Opened(p)', Opened(q)', program[p].kind = program[q].kind,
                      program[p].name = program[q].name, p # q
               PROVE  FALSE
    BY DEF DeclsUnique
  <2>1. CASE p = decl
    BY <2>1, <1>5
  <2>2. CASE q = decl
    BY <2>2, <1>5
  <2>3. CASE Opened(p) /\ Opened(q)
    BY <2>3 DEF CleanSoFar, DeclsUnique
  <2> QED
    BY <2>1, <2>2, <2>3
<1> QED
  BY <1>4, <1>6 DEF DeclaredFull

LEMMA DuplicateDeclInv == RegInv /\ DuplicateDecl => RegInv'
<1> SUFFICES ASSUME RegInv, DuplicateDecl PROVE RegInv'
  OBVIOUS
<1>1. /\ duplicateErrors' = duplicateErrors \cup {<<decl, 0, "duplicate_name">>}
      /\ decl' = decl + 1 /\ entry = 0
      /\ UNCHANGED <<program, hash, entry, declared, table>>
  BY DEF DuplicateDecl, AtDecl
<1>2. Typed' /\ DOMAIN declared' = Kind
  BY <1>1 DEF RegInv, Typed
<1>3. TableReal' /\ TableFunctional' /\ CollisionsReal'
  BY <1>1, TableKept
<1>4. CleanSoFar'
  BY <1>1 DEF CleanSoFar
<1> QED
  BY <1>2, <1>3, <1>4 DEF RegInv

LEMMA DeclareInstanceInv == RegInv /\ DeclareInstance => RegInv'
<1> SUFFICES ASSUME RegInv, DeclareInstance PROVE RegInv'
  OBVIOUS
<1>1. /\ entry = 0 /\ decl \in DOMAIN program /\ program[decl].kind = "instance"
      /\ decl' = decl + 1 /\ UNCHANGED <<program, hash, entry, seen>>
      /\ Typed /\ AtDecl(Kind) /\ ~IsDeclared /\ Declare
  BY DEF DeclareInstance, AtDecl, Declaration, RegInv, Typed, Kind
<1>2. /\ IsItem(decl, entry)
      /\ RegisterId(IdentityOf(decl, entry), NameOf(decl, entry))
  BY <1>1 DEF DeclareInstance, IsItem, IsInstance, IdentityOf, NameOf, Declaration
<1>3. /\ TableReal' /\ TableFunctional' /\ CollisionsReal'
      /\ duplicateErrors' = {} =>
           /\ duplicateErrors = {}
           /\ \E t \in table' : t[1] = hash[NameOf(decl, entry)] /\ t[2] = IdentityOf(decl, entry)
           /\ \A s \in table : \E t \in table' : t[1] = s[1] /\ t[2] = s[2]
  BY <1>1, <1>2, Registering
<1>4. Typed' /\ DOMAIN declared' = Kind
  BY <1>1 DEF RegInv, Typed, Declare
<1>5. ASSUME duplicateErrors' = {} PROVE CleanSoFar'
  <2>1. CleanSoFar /\ duplicateErrors = {} /\ decl \in Nat
    BY <1>1, <1>3, <1>5 DEF RegInv, Typed
  <2>2. /\ DOMAIN program = 1 .. Len(program) /\ Len(program) \in Nat
    BY <1>1 DEF Typed
  <2>3. DeclaredFull' /\ DeclsUnique'
    <3>1. \A p \in DOMAIN program : Opened(p)' => Opened(p) \/ p = decl
      BY <1>1, <2>1, <2>2 DEF Opened
    <3> QED
      BY <1>1, <2>1, <3>1, Declaring
  <2>4. TableFull'
    <3> SUFFICES ASSUME NEW q, NEW f, IsItem(q, f), Before(q, f)'
                 PROVE  \E t \in table' : t[1] = hash[NameOf(q, f)] /\ t[2] = IdentityOf(q, f)
      BY <1>1 DEF TableFull, IsItem, IsInstance, IsEntry, NameOf, IdentityOf
    <3>1. q \in DOMAIN program /\ f \in Nat /\ (f = 0 <=> program[q].kind = "instance")
      BY <1>1, ItemShape
    <3>2. q < decl \/ q = decl
      BY <3>1, <1>1, <2>1, <2>2 DEF Before
    <3>3. CASE q < decl
      <4>1. \E s \in table : s[1] = hash[NameOf(q, f)] /\ s[2] = IdentityOf(q, f)
        BY <3>3, <2>1 DEF CleanSoFar, TableFull, Before
      <4> QED
        BY <4>1, <1>3, <1>5
    <3>4. CASE q = decl
      BY <3>4, <3>1, <1>1, <1>3, <1>5
    <3> QED
      BY <3>2, <3>3, <3>4
  <2>5. KeysUnique'
    <3> SUFFICES ASSUME NEW p \in DOMAIN program, program[p].kind # "instance",
                        NEW e \in DOMAIN program[p].entries, Before(p, e)'
                 PROVE  Before(p, e)
      BY <1>1, <2>1 DEF KeysUnique, CleanSoFar
    <3>1. e \in Nat /\ e > 0
      BY <1>1, DeclShape
    <3> QED
      BY <3>1, <1>1, <2>1, <2>2 DEF Before
  <2>6. SeenFull' /\ WidthsKept'
    BY <1>1, <2>1, <2>2 DEF SeenFull, WidthsKept, CleanSoFar
  <2> QED
    BY <2>3, <2>4, <2>5, <2>6 DEF CleanSoFar
<1> QED
  BY <1>3, <1>4, <1>5 DEF RegInv, CleanSoFar

LEMMA OpenBlockInv == RegInv /\ OpenBlock => RegInv'
<1> SUFFICES ASSUME RegInv, OpenBlock PROVE RegInv'
  OBVIOUS
<1>1. /\ entry = 0 /\ decl \in DOMAIN program /\ program[decl].kind # "instance"
      /\ entry' = 1 /\ seen' = {} /\ UNCHANGED <<program, hash, decl, table, duplicateErrors>>
      /\ Typed /\ AtDecl(Kind) /\ ~IsDeclared /\ Declare
  BY DEF OpenBlock, AtDecl, Declaration, RegInv, Typed
<1>2. /\ decl \in Nat \ {0} /\ decl <= Len(program) /\ Len(program[decl].entries) \in Nat
      /\ DOMAIN program[decl].entries = 1 .. Len(program[decl].entries)
  BY <1>1, DeclShape
<1>3. TableReal' /\ TableFunctional' /\ CollisionsReal'
  BY <1>1, TableKept
<1>4. Typed' /\ DOMAIN declared' = Kind
  BY <1>1, <1>2 DEF RegInv, Typed, Declare
<1>5. ASSUME duplicateErrors' = {} PROVE CleanSoFar'
  <2>1. CleanSoFar /\ duplicateErrors = {}
    BY <1>1, <1>5 DEF RegInv
  <2>2. DOMAIN program = 1 .. Len(program) /\ Len(program) \in Nat
    BY <1>1 DEF Typed
  <2>3. DeclaredFull' /\ DeclsUnique'
    <3>1. \A p \in DOMAIN program : Opened(p)' => Opened(p) \/ p = decl
      BY <1>1 DEF Opened
    <3> QED
      BY <1>1, <2>1, <3>1, Declaring
  <2>4. ASSUME NEW p \in DOMAIN program, NEW e \in Nat \ {0}, Before(p, e)'
        PROVE  Before(p, e)
    BY <2>4, <1>1 DEF Before
  <2>5. TableFull'
    <3> SUFFICES ASSUME NEW q, NEW f, IsItem(q, f), Before(q, f)'
                 PROVE  Before(q, f)
      BY <1>1, <2>1 DEF TableFull, CleanSoFar, IsItem, IsInstance, IsEntry, NameOf, IdentityOf
    <3>1. q \in DOMAIN program /\ f \in Nat /\ (f = 0 <=> program[q].kind = "instance")
      BY <1>1, ItemShape
    <3> QED
      BY <3>1, <1>1, <1>2 DEF Before
  <2>6. KeysUnique'
    <3> SUFFICES ASSUME NEW p \in DOMAIN program, program[p].kind # "instance",
                        NEW e \in DOMAIN program[p].entries, Before(p, e)'
                 PROVE  Before(p, e)
      BY <1>1, <2>1 DEF KeysUnique, CleanSoFar
    <3>1. e \in Nat \ {0}
      BY <1>1, DeclShape
    <3> QED
      BY <3>1, <2>4
  <2>7. SeenFull' /\ WidthsKept'
    BY <1>1, <1>2, <2>1, FS_EmptySet DEF SeenFull, WidthsKept, CleanSoFar
  <2> QED
    BY <2>3, <2>5, <2>6, <2>7 DEF CleanSoFar
<1> QED
  BY <1>3, <1>4, <1>5 DEF RegInv, CleanSoFar

LEMMA DuplicateEntryInv == RegInv /\ DuplicateEntry => RegInv'
<1> SUFFICES ASSUME RegInv, DuplicateEntry PROVE RegInv'
  OBVIOUS
<1>1. /\ duplicateErrors' = duplicateErrors \cup {<<decl, entry, "duplicate_name">>}
      /\ entry' = entry + 1 /\ entry > 0 /\ entry <= Len(program[decl].entries)
      /\ UNCHANGED <<program, hash, decl, declared, table>>
  BY DEF DuplicateEntry, AtEntry, Declaration
<1>2. Typed' /\ DOMAIN declared' = Kind
  <2>1. Typed /\ decl \in DOMAIN program /\ program[decl].kind # "instance"
    BY <1>1 DEF RegInv, Typed
  <2>2. Len(program[decl].entries) \in Nat
    BY <2>1, DeclShape
  <2> QED
    BY <1>1, <2>1, <2>2 DEF RegInv, Typed
<1>3. TableReal' /\ TableFunctional' /\ CollisionsReal'
  BY <1>1, TableKept
<1>4. CleanSoFar'
  BY <1>1 DEF CleanSoFar
<1> QED
  BY <1>2, <1>3, <1>4 DEF RegInv

LEMMA KeepEntryInv == RegInv /\ KeepEntry => RegInv'
<1> SUFFICES ASSUME RegInv, KeepEntry PROVE RegInv'
  OBVIOUS
<1>1. /\ entry > 0 /\ entry <= Len(program[decl].entries) /\ entry' = entry + 1
      /\ program[decl].entries[entry].key \notin seen
      /\ seen' = seen \cup {program[decl].entries[entry].key}
      /\ UNCHANGED <<program, hash, decl, declared>>
      /\ Typed /\ decl \in DOMAIN program /\ program[decl].kind # "instance"
  BY DEF KeepEntry, AtEntry, DeclEntry, Declaration, RegInv, Typed
<1>2. /\ decl \in Nat \ {0} /\ decl <= Len(program) /\ Len(program[decl].entries) \in Nat
      /\ entry \in Nat /\ entry # 0
      /\ DOMAIN program[decl].entries = 1 .. Len(program[decl].entries)
  BY <1>1, DeclShape DEF Typed
<1>3. Typed' /\ DOMAIN declared' = Kind
  BY <1>1, <1>2 DEF RegInv, Typed
<1>4. /\ TableReal' /\ TableFunctional' /\ CollisionsReal'
      /\ duplicateErrors' = {} =>
           /\ duplicateErrors = {}
           /\ program[decl].kind = "identifier" =>
                \E t \in table' : t[1] = hash[NameOf(decl, entry)] /\ t[2] = IdentityOf(decl, entry)
           /\ \A s \in table : \E t \in table' : t[1] = s[1] /\ t[2] = s[2]
  <2>1. CASE program[decl].kind = "identifier"
    <3>1. /\ IsItem(decl, entry)
          /\ RegisterId(IdentityOf(decl, entry), NameOf(decl, entry))
      BY <2>1, <1>1, <1>2
         DEF KeepEntry, IsItem, IsEntry, IdentityOf, NameOf, Declaration, DeclEntry
    <3> QED
      BY <1>1, <3>1, Registering
  <2>2. CASE program[decl].kind # "identifier"
    <3>1. UNCHANGED <<table, duplicateErrors>>
      BY <2>2 DEF KeepEntry, Declaration
    <3> QED
      BY <1>1, <2>2, <3>1, TableKept
  <2> QED
    BY <2>1, <2>2
<1>5. ASSUME duplicateErrors' = {} PROVE CleanSoFar'
  <2>1. CleanSoFar /\ duplicateErrors = {}
    BY <1>4, <1>5 DEF RegInv
  <2>2. ASSUME NEW p \in DOMAIN program, NEW e \in Nat, Before(p, e)'
        PROVE  Before(p, e) \/ (p = decl /\ e = entry)
    BY <2>2, <1>1, <1>2 DEF Before
  <2>3. DeclaredFull' /\ DeclsUnique'
    <3>1. \A p \in DOMAIN program : Opened(p)' => Opened(p)
      BY <1>1 DEF Opened
    <3> QED
      BY <3>1, <1>1, <2>1 DEF CleanSoFar, DeclaredFull, DeclsUnique
  <2>4. TableFull'
    <3> SUFFICES ASSUME NEW q, NEW f, IsItem(q, f), Before(q, f)'
                 PROVE  \E t \in table' : t[1] = hash[NameOf(q, f)] /\ t[2] = IdentityOf(q, f)
      BY <1>1 DEF TableFull, IsItem, IsInstance, IsEntry, NameOf, IdentityOf
    <3>1. /\ q \in DOMAIN program /\ f \in Nat
          /\ f # 0 => program[q].kind = "identifier"
      BY <1>1, ItemShape
    <3>2. CASE Before(q, f)
      <4>1. \E s \in table : s[1] = hash[NameOf(q, f)] /\ s[2] = IdentityOf(q, f)
        BY <3>2, <2>1 DEF CleanSoFar, TableFull
      <4> QED
        BY <4>1, <1>4, <1>5
    <3>3. CASE q = decl /\ f = entry
      BY <3>3, <3>1, <1>2, <1>4, <1>5
    <3> QED
      BY <3>1, <2>2, <3>2, <3>3
  <2>5. SeenFull'
    <3>1. /\ \A e \in DOMAIN program[decl].entries :
               e < entry => program[decl].entries[e].key \in seen
          /\ IsFiniteSet(seen) /\ Cardinality(seen) = entry - 1
      BY <1>1, <2>1 DEF CleanSoFar, SeenFull
    <3>2. IsFiniteSet(seen') /\ Cardinality(seen') = entry
      <4> DEFINE k == program[decl].entries[entry].key
      <4>1. seen' = seen \cup {k} /\ k \notin seen
        BY <1>1
      <4>2. IsFiniteSet(seen \cup {k}) /\ Cardinality(seen \cup {k}) = Cardinality(seen) + 1
        BY <3>1, <4>1, FS_AddElement
      <4> QED
        BY <3>1, <4>1, <4>2, <1>2
    <3>3. \A e \in DOMAIN program[decl].entries :
            e < entry + 1 => program[decl].entries[e].key \in seen'
      BY <3>1, <1>1, <1>2
    <3> QED
      BY <3>2, <3>3, <1>1, <1>2 DEF SeenFull
  <2>6. KeysUnique'
    <3> SUFFICES ASSUME NEW p \in DOMAIN program, program[p].kind # "instance",
                        NEW e \in DOMAIN program[p].entries,
                        NEW f \in DOMAIN program[p].entries,
                        Before(p, e)', Before(p, f)',
                        program[p].entries[e].key = program[p].entries[f].key, e # f
                 PROVE  FALSE
      BY <1>1 DEF KeysUnique
    <3>1. e \in Nat /\ f \in Nat
      BY <1>1, DeclShape
    <3>2. \A g \in DOMAIN program[decl].entries :
            g < entry => program[decl].entries[g].key # program[decl].entries[entry].key
      BY <1>1, <2>1 DEF CleanSoFar, SeenFull
    <3>3. CASE Before(p, e) /\ Before(p, f)
      BY <3>3, <2>1 DEF CleanSoFar, KeysUnique
    <3>4. CASE p = decl /\ e = entry
      <4>1. f < entry
        BY <3>1, <3>4, <1>1, <1>2 DEF Before
      <4> QED
        BY <4>1, <3>2, <3>4
    <3>5. CASE p = decl /\ f = entry
      <4>1. e < entry
        BY <3>1, <3>5, <1>1, <1>2 DEF Before
      <4> QED
        BY <4>1, <3>2, <3>5
    <3> QED
      BY <3>1, <2>2, <3>3, <3>4, <3>5
  <2>7. WidthsKept'
    BY <1>1, <2>1 DEF WidthsKept, CleanSoFar
  <2> QED
    BY <2>3, <2>4, <2>5, <2>6, <2>7 DEF CleanSoFar
<1> QED
  BY <1>3, <1>4, <1>5 DEF RegInv, CleanSoFar

LEMMA CloseBlockInv == RegInv /\ CloseBlock => RegInv'
<1> SUFFICES ASSUME RegInv, CloseBlock PROVE RegInv'
  OBVIOUS
<1>1. /\ entry > 0 /\ entry > Len(program[decl].entries)
      /\ decl' = decl + 1 /\ entry' = 0
      /\ UNCHANGED <<program, hash, declared, seen, table>>
      /\ Typed /\ decl \in DOMAIN program /\ program[decl].kind # "instance"
  BY DEF CloseBlock, Declaration, RegInv, Typed
<1>2. /\ decl \in Nat \ {0} /\ decl <= Len(program) /\ Len(program) \in Nat
      /\ Len(program[decl].entries) \in Nat
      /\ entry = Len(program[decl].entries) + 1
      /\ DOMAIN program[decl].entries = 1 .. Len(program[decl].entries)
      /\ DOMAIN program = 1 .. Len(program)
  BY <1>1, DeclShape DEF Typed
<1>3. Typed' /\ DOMAIN declared' = Kind
  BY <1>1, <1>2 DEF RegInv, Typed
<1>4. /\ \A err \in duplicateErrors' : err \in duplicateErrors \/ err[3] # "id_collision"
      /\ duplicateErrors' = {} =>
           /\ duplicateErrors = {}
           /\ program[decl].kind = "identifier" /\ program[decl].capacity # NoCapacity
                => ~(Cardinality(seen) > program[decl].capacity)
  <2> DEFINE over == /\ program[decl].kind = "identifier"
                     /\ program[decl].capacity # NoCapacity
                     /\ Cardinality(seen) > program[decl].capacity
             err == <<decl, 0, "indexed_width_overflow">>
  <2>1. duplicateErrors' = IF over THEN duplicateErrors \cup {err} ELSE duplicateErrors
    BY DEF CloseBlock, Declaration
  <2>2. err[3] # "id_collision"
    OBVIOUS
  <2>3. CASE over
    BY <2>1, <2>2, <2>3
  <2>4. CASE ~over
    BY <2>1, <2>4
  <2> QED
    BY <2>3, <2>4
<1>5. TableReal' /\ TableFunctional' /\ CollisionsReal'
  BY <1>1, <1>4, TableKept
<1>6. ASSUME duplicateErrors' = {} PROVE CleanSoFar'
  <2>1. CleanSoFar /\ duplicateErrors = {}
    BY <1>4, <1>6 DEF RegInv
  <2>2. ASSUME NEW p \in DOMAIN program, Opened(p)'
        PROVE  Opened(p) /\ p <= decl
    BY <2>2, <1>1, <1>2 DEF Opened
  <2>3. DeclaredFull' /\ DeclsUnique'
    BY <2>1, <2>2, <1>1 DEF CleanSoFar, DeclaredFull, DeclsUnique
  <2>4. ASSUME NEW p \in DOMAIN program, NEW e \in Nat, Before(p, e)',
               p = decl => e <= Len(program[decl].entries)
        PROVE  Before(p, e)
    BY <2>4, <1>1, <1>2 DEF Before
  <2>5. TableFull'
    <3> SUFFICES ASSUME NEW q, NEW f, IsItem(q, f), Before(q, f)'
                 PROVE  Before(q, f)
      BY <1>1, <2>1 DEF TableFull, CleanSoFar, IsItem, IsInstance, IsEntry, NameOf, IdentityOf
    <3>1. /\ q \in DOMAIN program /\ f \in Nat
          /\ f = 0 <=> program[q].kind = "instance"
          /\ f # 0 => f \in DOMAIN program[q].entries
      BY <1>1, ItemShape
    <3> QED
      BY <3>1, <2>4, <1>1, <1>2
  <2>6. KeysUnique'
    <3> SUFFICES ASSUME NEW p \in DOMAIN program, program[p].kind # "instance",
                        NEW e \in DOMAIN program[p].entries, Before(p, e)'
                 PROVE  Before(p, e)
      BY <1>1, <2>1 DEF KeysUnique, CleanSoFar
    <3>1. e \in Nat
      BY <1>1, DeclShape
    <3> QED
      BY <3>1, <2>4, <1>2
  <2>7. WidthsKept'
    <3> SUFFICES ASSUME NEW p \in DOMAIN program, p < decl + 1,
                        program[p].kind = "identifier", program[p].capacity # NoCapacity
                 PROVE  Len(program[p].entries) <= program[p].capacity
      BY <1>1 DEF WidthsKept
    <3>1. CASE p < decl
      BY <3>1, <2>1 DEF CleanSoFar, WidthsKept
    <3>2. CASE p = decl
      <4>1. Cardinality(seen) = Len(program[decl].entries)
        BY <1>1, <1>2, <2>1 DEF CleanSoFar, SeenFull
      <4>2. program[decl].capacity \in Nat
        BY <3>2, <1>1, CapacityIsNat
      <4> QED
        BY <4>1, <4>2, <3>2, <1>2, <1>4, <1>6
    <3> QED
      BY <3>1, <3>2, <1>2
  <2>8. SeenFull'
    BY <1>1 DEF SeenFull
  <2> QED
    BY <2>3, <2>5, <2>6, <2>7, <2>8 DEF CleanSoFar
<1> QED
  BY <1>3, <1>5, <1>6 DEF RegInv, CleanSoFar

LEMMA RegNext == RegInv /\ [RegisterNext]_registerVars => RegInv'
<1> SUFFICES ASSUME RegInv, [RegisterNext]_registerVars PROVE RegInv'
  OBVIOUS
<1>1. CASE DuplicateDecl
  BY <1>1, DuplicateDeclInv
<1>2. CASE DeclareInstance
  BY <1>2, DeclareInstanceInv
<1>3. CASE OpenBlock
  BY <1>3, OpenBlockInv
<1>4. CASE DuplicateEntry
  BY <1>4, DuplicateEntryInv
<1>5. CASE KeepEntry
  BY <1>5, KeepEntryInv
<1>6. CASE CloseBlock
  BY <1>6, CloseBlockInv
<1>7. CASE UNCHANGED registerVars
  <2>1. UNCHANGED <<program, hash, decl, entry, declared, seen, table, duplicateErrors>>
    BY <1>7 DEF registerVars
  <2>2. \A p, e : /\ IsItem(p, e)' = IsItem(p, e)
                  /\ hash'[NameOf(p, e)'] = hash[NameOf(p, e)]
                  /\ IdentityOf(p, e)' = IdentityOf(p, e)
                  /\ Before(p, e)' = Before(p, e) /\ Opened(p)' = Opened(p)
    BY <2>1 DEF IsItem, IsInstance, IsEntry, NameOf, IdentityOf, Before, Opened
  <2>3. TableReal' /\ TableFunctional' /\ CollisionsReal'
    BY <2>1, TableKept
  <2>4. CleanSoFar => CleanSoFar'
    <3>1. TableFull => TableFull'
      BY <2>1, <2>2 DEF TableFull
    <3>2. DeclaredFull /\ DeclsUnique => DeclaredFull' /\ DeclsUnique'
      BY <2>1, <2>2 DEF DeclaredFull, DeclsUnique
    <3>3. SeenFull => SeenFull'
      BY <2>1 DEF SeenFull
    <3>4. KeysUnique /\ WidthsKept => KeysUnique' /\ WidthsKept'
      BY <2>1, <2>2 DEF KeysUnique, WidthsKept
    <3> QED
      BY <2>1, <3>1, <3>2, <3>3, <3>4 DEF CleanSoFar
  <2> QED
    BY <2>1, <2>3, <2>4 DEF RegInv, Typed
<1> QED
  BY <1>1, <1>2, <1>3, <1>4, <1>5, <1>6, <1>7 DEF RegisterNext, RegisterFinished

-----------------------------------------------------------------------------
(* The items are what the properties call Identified. *)
LEMMA ItemsAreIdentified ==
  ASSUME Typed
  PROVE  /\ \A x \in Identified : \E p, e : /\ IsItem(p, e)
                                            /\ x.what = <<p, e>> /\ x.name = NameOf(p, e)
         /\ \A p, e : IsItem(p, e) =>
              \E x \in Identified : x.what = <<p, e>> /\ x.name = NameOf(p, e)
<1>1. ASSUME NEW x \in Identified
      PROVE  \E p, e : IsItem(p, e) /\ x.what = <<p, e>> /\ x.name = NameOf(p, e)
  <2>1. CASE \E p \in {q \in DOMAIN program : program[q].kind = "instance"} :
               x = [what |-> <<p, 0>>, name |-> <<program[p].type, program[p].name>>]
    BY <2>1 DEF IsItem, IsInstance, NameOf
  <2>2. CASE \E p \in {q \in DOMAIN program : program[q].kind = "identifier"} :
             \E e \in Entries(p) :
               x = [what |-> <<p, e>>,
                    name |-> <<program[p].name, program[p].entries[e].text>>]
    <3>1. PICK p \in {q \in DOMAIN program : program[q].kind = "identifier"} :
               \E e \in Entries(p) :
                 x = [what |-> <<p, e>>,
                      name |-> <<program[p].name, program[p].entries[e].text>>]
      BY <2>2
    <3>2. PICK e \in Entries(p) :
                 x = [what |-> <<p, e>>,
                      name |-> <<program[p].name, program[p].entries[e].text>>]
      BY <3>1
    <3>3. e # 0
      BY <3>1, <3>2, DeclShape DEF Entries
    <3>4. IsItem(p, e)
      BY <3>1, <3>2 DEF IsItem, IsEntry, Entries
    <3>5. x.what = <<p, e>> /\ x.name = NameOf(p, e)
      BY <3>2, <3>3 DEF NameOf
    <3> QED
      BY <3>4, <3>5
  <2> QED
    BY <1>1, <2>1, <2>2 DEF Identified
<1>2. ASSUME NEW p, NEW e, IsItem(p, e)
      PROVE  \E x \in Identified : x.what = <<p, e>> /\ x.name = NameOf(p, e)
  <2>1. CASE IsInstance(p) /\ e = 0
    <3> DEFINE x == [what |-> <<p, 0>>, name |-> <<program[p].type, program[p].name>>]
    <3>1. p \in {q \in DOMAIN program : program[q].kind = "instance"}
      BY <2>1 DEF IsInstance
    <3>2. x \in Identified
      BY <3>1 DEF Identified
    <3>3. x.what = <<p, e>> /\ x.name = NameOf(p, e)
      BY <2>1 DEF NameOf
    <3> QED
      BY <3>2, <3>3
  <2>2. CASE IsEntry(p, e)
    <3>1. e # 0
      BY <2>2, DeclShape DEF IsEntry
    <3> DEFINE x == [what |-> <<p, e>>,
                     name |-> <<program[p].name, program[p].entries[e].text>>]
    <3>2. x \in Identified
      <4> DEFINE Of(q) == {[what |-> <<q, g>>,
                            name |-> <<program[q].name, program[q].entries[g].text>>] :
                             g \in Entries(q)}
                 Blocks == {q \in DOMAIN program : program[q].kind = "identifier"}
      <4>1. p \in Blocks /\ e \in Entries(p)
        BY <2>2 DEF IsEntry, Entries
      <4>2. x \in Of(p)
        BY <4>1
      <4>3. x \in UNION {Of(q) : q \in Blocks}
        BY <4>1, <4>2
      <4> QED
        BY <4>3 DEF Identified
    <3>3. x.what = <<p, e>> /\ x.name = NameOf(p, e)
      BY <3>1 DEF NameOf
    <3> QED
      BY <3>2, <3>3
  <2> QED
    BY <1>2, <2>1, <2>2 DEF IsItem
<1> QED
  BY <1>1, <1>2

LEMMA CollisionsFollow ==
  ASSUME RegInv, NEW err \in duplicateErrors, err[3] = "id_collision"
  PROVE  \E x, y \in Identified : /\ x.what = <<err[1], err[2]>>
                                  /\ y.what # x.what
                                  /\ hash[x.name] = hash[y.name]
<1>1. PICK p, e, q, f : /\ IsItem(p, e) /\ IsItem(q, f)
                        /\ err[1] = p /\ err[2] = e
                        /\ <<q, f>> # <<p, e>>
                        /\ hash[NameOf(p, e)] = hash[NameOf(q, f)]
  BY DEF RegInv, CollisionsReal
<1>2. PICK x \in Identified : x.what = <<p, e>> /\ x.name = NameOf(p, e)
  BY <1>1, ItemsAreIdentified DEF RegInv
<1>3. PICK y \in Identified : y.what = <<q, f>> /\ y.name = NameOf(q, f)
  BY <1>1, ItemsAreIdentified DEF RegInv
<1> QED
  BY <1>1, <1>2, <1>3

-----------------------------------------------------------------------------
(* The errors that are not about IDs.  The table of a kind holds names of   *)
(* declarations already opened, and seen the keys of the entries passed and *)
(* no others: so many that a block past its width really is.                *)
DeclaredReal ==
  \A k \in Kind : \A d \in declared[k] :
    /\ d[2] \in DOMAIN program /\ Opened(d[2])
    /\ program[d[2]].kind = k /\ program[d[2]].name = d[1]
KeysBefore(p, e) ==
  {program[p].entries[f].key : f \in {g \in DOMAIN program[p].entries : g < e}}
SeenReal == entry > 0 => seen = KeysBefore(decl, entry)
DuplicateReal(p, e) ==
  IF e = 0
  THEN \E q \in DOMAIN program : /\ q < p
                                 /\ program[q].kind = program[p].kind
                                 /\ program[q].name = program[p].name
  ELSE \E f \in Entries(p) : /\ f < e
                             /\ program[p].entries[f].key = program[p].entries[e].key
OverflowReal(p) ==
  Cardinality({program[p].entries[f].key : f \in Entries(p)}) > program[p].capacity
OthersReal ==
  \A err \in duplicateErrors :
    /\ err[3] = "duplicate_name" => DuplicateReal(err[1], err[2])
    /\ err[3] = "indexed_width_overflow" => OverflowReal(err[1])

ErrInv == DeclaredReal /\ SeenReal /\ OthersReal

LEMMA ErrInit == RegisterInit => ErrInv
  BY DEF RegisterInit, ErrInv, DeclaredReal, SeenReal, OthersReal

(* What an error says is of the program, which no step changes. *)
LEMMA OthersKept ==
  ASSUME OthersReal, UNCHANGED program,
         \A err \in duplicateErrors' :
           \/ err \in duplicateErrors
           \/ /\ err[3] = "duplicate_name" => DuplicateReal(err[1], err[2])
              /\ err[3] = "indexed_width_overflow" => OverflowReal(err[1])
  PROVE  OthersReal'
  BY DEF OthersReal, DuplicateReal, OverflowReal, Entries

(* Declaring the declaration the loop is at, which is then opened. *)
LEMMA DeclaredKept ==
  ASSUME Typed, DOMAIN declared = Kind, DeclaredReal, UNCHANGED program,
         decl \in DOMAIN program, program[decl].kind \in Kind,
         \/ declared' = declared
         \/ Declare /\ \A p \in DOMAIN program : p = decl => Opened(p)',
         \A p \in DOMAIN program : Opened(p) => Opened(p)'
  PROVE  DeclaredReal'
<1> SUFFICES ASSUME NEW k \in Kind, NEW d \in declared'[k]
             PROVE  /\ d[2] \in DOMAIN program /\ Opened(d[2])'
                    /\ program[d[2]].kind = k /\ program[d[2]].name = d[1]
  BY DEF DeclaredReal
<1>1. CASE d \in declared[k]
  BY <1>1 DEF DeclaredReal
<1>2. CASE d \notin declared[k]
  <2>1. Declare /\ \A p \in DOMAIN program : p = decl => Opened(p)'
    BY <1>2
  <2>2. k = program[decl].kind /\ d[1] = program[decl].name /\ d[2] = decl
    BY <1>2, <2>1 DEF Declare, Declaration
  <2>3. Opened(d[2])'
    BY <2>1, <2>2
  <2> QED
    BY <2>2, <2>3
<1> QED
  BY <1>1, <1>2

LEMMA DuplicateDeclErr == RegInv /\ ErrInv /\ DuplicateDecl => ErrInv'
<1> SUFFICES ASSUME RegInv, ErrInv, DuplicateDecl PROVE ErrInv'
  OBVIOUS
<1>1. /\ duplicateErrors' = duplicateErrors \cup {<<decl, 0, "duplicate_name">>}
      /\ decl' = decl + 1 /\ entry = 0 /\ decl \in DOMAIN program
      /\ program[decl].kind \in Kind
      /\ UNCHANGED <<program, entry, declared, seen>>
      /\ Typed /\ DOMAIN declared = Kind
  BY DEF DuplicateDecl, AtDecl, Declaration, RegInv, Typed
<1>2. PICK d \in declared[program[decl].kind] : d[1] = program[decl].name
  BY DEF DuplicateDecl, IsDeclared, Declaration
<1>3. DuplicateReal(decl, 0)
  <2>1. /\ d[2] \in DOMAIN program /\ Opened(d[2])
        /\ program[d[2]].kind = program[decl].kind /\ program[d[2]].name = d[1]
    BY <1>1, <1>2 DEF ErrInv, DeclaredReal
  <2>2. d[2] < decl
    BY <2>1, <1>1 DEF Opened, Typed
  <2> QED
    BY <2>1, <2>2, <1>2 DEF DuplicateReal
<1>4. OthersReal'
  BY <1>1, <1>3, OthersKept DEF ErrInv
<1>5. \A p \in DOMAIN program : Opened(p) => Opened(p)'
  BY <1>1, DeclShape DEF Opened, Typed
<1>6. DeclaredReal'
  BY <1>1, <1>5, DeclaredKept DEF ErrInv
<1> QED
  BY <1>1, <1>4, <1>6 DEF ErrInv, SeenReal

LEMMA DeclareErr == RegInv /\ ErrInv /\ (DeclareInstance \/ OpenBlock) => ErrInv'
<1> SUFFICES ASSUME RegInv, ErrInv, DeclareInstance \/ OpenBlock PROVE ErrInv'
  OBVIOUS
<1>1. /\ decl \in DOMAIN program /\ program[decl].kind \in Kind /\ entry = 0
      /\ UNCHANGED program /\ Declare /\ Typed /\ DOMAIN declared = Kind
  BY DEF DeclareInstance, OpenBlock, AtDecl, Declaration, RegInv, Typed, Kind
<1>2. \/ decl' = decl + 1 /\ entry' = 0
      \/ decl' = decl /\ entry' = 1 /\ seen' = {}
  BY <1>1 DEF DeclareInstance, OpenBlock
<1>3. \A p \in DOMAIN program : Opened(p) \/ p = decl => Opened(p)'
  BY <1>1, <1>2, DeclShape DEF Opened, Typed
<1>4. DeclaredReal'
  BY <1>1, <1>3, DeclaredKept DEF ErrInv
<1>5. SeenReal'
  <2>1. CASE entry' = 0
    BY <2>1 DEF SeenReal
  <2>2. CASE decl' = decl /\ entry' = 1 /\ seen' = {}
    <3>1. program[decl].kind # "instance"
      BY <1>1, <2>2 DEF DeclareInstance, OpenBlock, AtDecl, Declaration, Typed
    <3>2. \A g \in DOMAIN program[decl].entries : ~(g < 1)
      BY <1>1, <3>1, DeclShape
    <3>3. KeysBefore(decl, entry)' = {}
      BY <1>1, <2>2, <3>2 DEF KeysBefore
    <3> QED
      BY <2>2, <3>3 DEF SeenReal
  <2> QED
    BY <1>2, <2>1, <2>2
<1>6. \A err \in duplicateErrors' : err \in duplicateErrors \/ err[3] = "id_collision"
  BY DEF DeclareInstance, OpenBlock, RegisterId
<1>7. OthersReal'
  BY <1>1, <1>6, OthersKept DEF ErrInv
<1> QED
  BY <1>4, <1>5, <1>7 DEF ErrInv

LEMMA EntryErr == RegInv /\ ErrInv /\ (DuplicateEntry \/ KeepEntry) => ErrInv'
<1> SUFFICES ASSUME RegInv, ErrInv, DuplicateEntry \/ KeepEntry PROVE ErrInv'
  OBVIOUS
<1> DEFINE key == program[decl].entries[entry].key
<1>1. /\ entry > 0 /\ entry <= Len(program[decl].entries) /\ entry' = entry + 1
      /\ UNCHANGED <<program, decl, declared>> /\ seen' = seen \cup {key}
      /\ Typed /\ DOMAIN declared = Kind
      /\ decl \in DOMAIN program /\ program[decl].kind # "instance"
  BY DEF DuplicateEntry, KeepEntry, AtEntry, DeclEntry, Declaration, RegInv, Typed
<1>2. /\ Len(program[decl].entries) \in Nat /\ entry \in Nat
      /\ DOMAIN program[decl].entries = 1 .. Len(program[decl].entries)
      /\ program[decl].kind \in Kind
  BY <1>1, DeclShape DEF Typed
<1>3. \A p \in DOMAIN program : Opened(p) => Opened(p)'
  BY <1>1, <1>2 DEF Opened
<1>4. DeclaredReal'
  BY <1>1, <1>2, <1>3, DeclaredKept DEF ErrInv
<1>5. seen = KeysBefore(decl, entry)
  BY <1>1 DEF ErrInv, SeenReal
<1>6. SeenReal'
  <2>1. \A g \in DOMAIN program[decl].entries : g < entry + 1 <=> g < entry \/ g = entry
    BY <1>2
  <2>2. entry \in DOMAIN program[decl].entries
    BY <1>1, <1>2
  <2>3. KeysBefore(decl, entry)' = KeysBefore(decl, entry) \cup {key}
    BY <1>1, <2>1, <2>2 DEF KeysBefore
  <2> QED
    BY <1>1, <1>5, <2>3 DEF SeenReal
<1>7. \A err \in duplicateErrors' :
        \/ err \in duplicateErrors \/ err[3] = "id_collision"
        \/ err = <<decl, entry, "duplicate_name">> /\ key \in seen
  BY DEF DuplicateEntry, KeepEntry, RegisterId, DeclEntry, Declaration
<1>8. key \in seen => DuplicateReal(decl, entry)
  BY <1>1, <1>2, <1>5 DEF KeysBefore, DuplicateReal, Entries
<1>9. OthersReal'
  BY <1>1, <1>7, <1>8, OthersKept DEF ErrInv
<1> QED
  BY <1>4, <1>6, <1>9 DEF ErrInv

LEMMA CloseBlockErr == RegInv /\ ErrInv /\ CloseBlock => ErrInv'
<1> SUFFICES ASSUME RegInv, ErrInv, CloseBlock PROVE ErrInv'
  OBVIOUS
<1>1. /\ entry > 0 /\ entry > Len(program[decl].entries)
      /\ decl' = decl + 1 /\ entry' = 0 /\ UNCHANGED <<program, declared, seen>>
      /\ Typed /\ DOMAIN declared = Kind
      /\ decl \in DOMAIN program /\ program[decl].kind # "instance"
  BY DEF CloseBlock, Declaration, RegInv, Typed
<1>2. /\ Len(program[decl].entries) \in Nat /\ entry \in Nat /\ decl \in Nat
      /\ DOMAIN program[decl].entries = 1 .. Len(program[decl].entries)
      /\ program[decl].kind \in Kind
  BY <1>1, DeclShape DEF Typed
<1>3. \A p \in DOMAIN program : Opened(p) => Opened(p)'
  BY <1>1, <1>2, DeclShape DEF Opened
<1>4. DeclaredReal'
  BY <1>1, <1>2, <1>3, DeclaredKept DEF ErrInv
<1>5. seen = {program[decl].entries[f].key : f \in Entries(decl)}
  <2>1. \A g \in DOMAIN program[decl].entries : g < entry
    BY <1>1, <1>2
  <2> QED
    BY <1>1, <2>1 DEF ErrInv, SeenReal, KeysBefore, Entries
<1>6. \A err \in duplicateErrors' :
        \/ err \in duplicateErrors
        \/ /\ err = <<decl, 0, "indexed_width_overflow">>
           /\ Cardinality(seen) > program[decl].capacity
  BY DEF CloseBlock, Declaration
<1>7. \A err \in duplicateErrors' :
        \/ err \in duplicateErrors
        \/ /\ err[3] = "duplicate_name" => DuplicateReal(err[1], err[2])
           /\ err[3] = "indexed_width_overflow" => OverflowReal(err[1])
  <2>1. Cardinality(seen) > program[decl].capacity => OverflowReal(decl)
    BY <1>5 DEF OverflowReal
  <2> QED
    BY <1>6, <2>1
<1>8. OthersReal'
  BY <1>1, <1>7, OthersKept DEF ErrInv
<1> QED
  BY <1>1, <1>4, <1>8 DEF ErrInv, SeenReal

LEMMA ErrNext == RegInv /\ ErrInv /\ [RegisterNext]_registerVars => ErrInv'
<1> SUFFICES ASSUME RegInv, ErrInv, [RegisterNext]_registerVars PROVE ErrInv'
  OBVIOUS
<1>1. CASE UNCHANGED registerVars
  <2>1. UNCHANGED <<program, decl, entry, declared, seen, duplicateErrors>>
    BY <1>1 DEF registerVars
  <2>2. DeclaredReal' /\ SeenReal'
    BY <2>1 DEF ErrInv, DeclaredReal, Opened, SeenReal, KeysBefore
  <2>3. OthersReal'
    BY <2>1, OthersKept DEF ErrInv
  <2> QED
    BY <2>2, <2>3 DEF ErrInv
<1> QED
  BY <1>1, DuplicateDeclErr, DeclareErr, EntryErr, CloseBlockErr
     DEF RegisterNext, RegisterFinished

LEMMA ErrorsFollow == RegInv /\ ErrInv => ErrorIsReal
<1> SUFFICES ASSUME RegInv, ErrInv PROVE ErrorIsReal
  OBVIOUS
<1>1. \A err \in duplicateErrors : err[3] = "id_collision" =>
        \E x, y \in Identified : /\ x.what = <<err[1], err[2]>>
                                 /\ y.what # x.what
                                 /\ hash[x.name] = hash[y.name]
  BY CollisionsFollow
<1> QED
  BY <1>1 DEF ErrInv, OthersReal, DuplicateReal, OverflowReal, ErrorIsReal

(* Two items with one identity are one item, if no declaration and no key   *)
(* is there twice.                                                          *)
LEMMA IdentityTells ==
  ASSUME RegInv, Registered, CleanSoFar /\ duplicateErrors = {}, NamesApart,
         NEW p, NEW e, NEW q, NEW f, IsItem(p, e), IsItem(q, f),
         IdentityOf(p, e) = IdentityOf(q, f)
  PROVE  p = q /\ e = f
<1>1. /\ p \in DOMAIN program /\ e \in Nat /\ (e = 0 <=> program[p].kind = "instance")
      /\ e # 0 => program[p].kind = "identifier" /\ e \in DOMAIN program[p].entries
      /\ q \in DOMAIN program /\ f \in Nat /\ (f = 0 <=> program[q].kind = "instance")
      /\ f # 0 => program[q].kind = "identifier" /\ f \in DOMAIN program[q].entries
  BY ItemShape DEF RegInv
<1>2. \A r \in DOMAIN program : r < decl /\ Opened(r) /\ \A g : Before(r, g)
  BY DEF RegInv, Typed, Registered, Opened, Before
<1>3. program[p].kind = program[q].kind /\ program[p].name = program[q].name => p = q
  BY <1>1, <1>2 DEF CleanSoFar, DeclsUnique
<1>4. CASE e = 0 /\ f = 0
  BY <1>1, <1>3, <1>4 DEF IdentityOf
<1>5. CASE e # 0 /\ f # 0
  <2>1. program[p].name = program[q].name
        /\ program[p].entries[e].key = program[q].entries[f].key
    BY <1>5 DEF IdentityOf
  <2>2. p = q
    BY <2>1, <1>1, <1>3, <1>5
  <2> QED
    BY <2>1, <2>2, <1>1, <1>2, <1>5 DEF CleanSoFar, KeysUnique
<1>6. CASE (e = 0) # (f = 0)
  BY <1>1, <1>6 DEF IdentityOf, NamesApart
<1> QED
  BY <1>4, <1>5, <1>6

LEMMA CleanFollows == RegInv /\ NamesApart => CleanIsUnambiguous
<1> SUFFICES ASSUME RegInv, NamesApart, Registered, duplicateErrors = {} PROVE CleanIsUnambiguous
  BY DEF CleanIsUnambiguous, Clean
<1>1. CleanSoFar /\ Typed
  BY DEF RegInv
<1>2. \A r \in DOMAIN program : r < decl /\ Opened(r) /\ \A g : Before(r, g)
  BY <1>1 DEF Typed, Registered, Opened, Before
<1>3. ASSUME NEW x \in Identified, NEW y \in Identified, hash[x.name] = hash[y.name]
      PROVE  x.what = y.what
  <2>1. PICK p, e : IsItem(p, e) /\ x.what = <<p, e>> /\ x.name = NameOf(p, e)
    BY <1>1, ItemsAreIdentified
  <2>2. PICK q, f : IsItem(q, f) /\ y.what = <<q, f>> /\ y.name = NameOf(q, f)
    BY <1>1, ItemsAreIdentified
  <2>3. Before(p, e) /\ Before(q, f)
    BY <1>1, <1>2, <2>1, <2>2, ItemShape
  <2>4. PICK s \in table : s[1] = hash[NameOf(p, e)] /\ s[2] = IdentityOf(p, e)
    BY <1>1, <2>1, <2>3 DEF CleanSoFar, TableFull
  <2>5. PICK t \in table : t[1] = hash[NameOf(q, f)] /\ t[2] = IdentityOf(q, f)
    BY <1>1, <2>2, <2>3 DEF CleanSoFar, TableFull
  <2>6. IdentityOf(p, e) = IdentityOf(q, f)
    BY <1>3, <2>1, <2>2, <2>4, <2>5 DEF RegInv, TableFunctional
  <2>7. p = q /\ e = f
    BY <1>1, <2>1, <2>2, <2>6, IdentityTells
  <2> QED
    BY <2>1, <2>2, <2>7
<1>4. \A p, q \in DOMAIN program :
        program[p].kind = program[q].kind /\ program[p].name = program[q].name => p = q
  BY <1>1, <1>2 DEF CleanSoFar, DeclsUnique
<1>5. ASSUME NEW p \in DOMAIN program, program[p].kind # "instance"
      PROVE  /\ \A e, f \in Entries(p) :
                  program[p].entries[e].key = program[p].entries[f].key => e = f
             /\ program[p].kind = "identifier" /\ program[p].capacity # NoCapacity
                  => Len(program[p].entries) <= program[p].capacity
  BY <1>1, <1>2, <1>5 DEF CleanSoFar, KeysUnique, WidthsKept, Entries
<1> QED
  BY <1>3, <1>4, <1>5 DEF CleanIsUnambiguous

-----------------------------------------------------------------------------
(* Whatever the program and the hash function, every error of phase 4's     *)
(* registration is a true one: two things with equal IDs, a name or a key   *)
(* that was there before, more distinct keys than the width can address.    *)
THEOREM ErrorsAreReal == RegisterSpec => []ErrorIsReal
<1>1. RegInv /\ ErrInv => ErrorIsReal
  BY ErrorsFollow
<1> QED
  BY <1>1, RegInit, RegNext, ErrInit, ErrNext, PTL DEF RegisterSpec

(* A program without an error has no two declarations of one kind and name, *)
(* no key twice, no indexed domain past its width, and no ID twice, if its  *)
(* domains and the types of its instances have different names: the check   *)
(* takes an entry and an instance with one qualified name for one thing.    *)
THEOREM CleanProgramsAreUnambiguous == RegisterSpec /\ NamesApart => []CleanIsUnambiguous
<1>1. NamesApart /\ [RegisterNext]_registerVars => NamesApart'
  BY DEF NamesApart, RegisterNext, registerVars, DuplicateDecl, DeclareInstance, OpenBlock,
     DuplicateEntry, KeepEntry, CloseBlock, RegisterFinished
<1>2. RegInv /\ NamesApart => CleanIsUnambiguous
  BY CleanFollows
<1> QED
  BY <1>1, <1>2, RegInit, RegNext, PTL DEF RegisterSpec
=============================================================================
