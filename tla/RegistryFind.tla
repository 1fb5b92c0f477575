---------------------------- MODULE RegistryFind ----------------------------
(***************************************************************************)
(* The Find(uint64_t) that the C++ exporter writes out for every type, as  *)
(* it runs in the consumer of the generated code: a binary search of the   *)
(* registry table, whose entries the exporter has sorted by stable ID.     *)
(* Indices are those of C++, so the entry at index k is table[k + 1].      *)
(***************************************************************************)
EXTENDS Integers, Sequences

CONSTANT Row                \* what an entry leads to: a pointer or an index

VARIABLES table,            \* the entries [id, row] of the registry
          probe,            \* the stable ID that is asked for
          lo, hi,
          answer            \* << >> while searching, then <<row>> or <<"none">>

findVars == <<table, probe, lo, hi, answer>>

Entry == [id : Nat, row : Row]

(* Distinct IDs in ascending order; a build with a collision is refused.   *)
SortedById(s) ==
  \A j, k \in 1 .. Len(s) : j < k => s[j].id < s[k].id

FindTypeOK ==
  /\ table \in Seq(Entry)
  /\ probe \in Nat
  /\ lo \in 0 .. Len(table) /\ hi \in 0 .. Len(table)
  /\ answer \in {<< >>, <<"none">>} \cup {<<r>> : r \in Row}

FindStart == lo = 0 /\ hi = Len(table) /\ answer = << >>

FindInit ==
  /\ table \in Seq(Entry) /\ SortedById(table)
  /\ probe \in Nat
  /\ FindStart

Mid == lo + (hi - lo) \div 2

(* Mutant of GoRight: mid itself stays in the range that is left. *)
GoRightLate ==
  /\ answer = << >> /\ lo < hi
  /\ table[Mid + 1].id <= probe
  /\ lo' = Mid + 1
  /\ UNCHANGED <<table, probe, hi, answer>>

(* Mutant of GoRight: the range need not become smaller. *)
GoRightStay ==
  /\ answer = << >> /\ lo < hi
  /\ table[Mid + 1].id < probe
  /\ lo' = Mid
  /\ UNCHANGED <<table, probe, hi, answer>>

GoRight ==
  /\ answer = << >> /\ lo < hi
  /\ table[Mid + 1].id < probe
  /\ lo' = Mid + 1
  /\ UNCHANGED <<table, probe, hi, answer>>

GoLeft ==
  /\ answer = << >> /\ lo < hi
  /\ table[Mid + 1].id >= probe
  /\ hi' = Mid
  /\ UNCHANGED <<table, probe, lo, answer>>

Hit ==
  /\ answer = << >> /\ lo >= hi
  /\ lo < Len(table)
  /\ table[lo + 1].id = probe
  /\ answer' = <<table[lo + 1].row>>
  /\ UNCHANGED <<table, probe, lo, hi>>

Miss ==
  /\ answer = << >> /\ lo >= hi
  /\ lo < Len(table) => table[lo + 1].id # probe
  /\ answer' = <<"none">>
  /\ UNCHANGED <<table, probe, lo, hi>>

FindNext == GoRight \/ GoLeft \/ Hit \/ Miss

FindSpec == FindInit /\ [][FindNext]_findVars

-----------------------------------------------------------------------------
(* Find answers with the row of the entry that has the ID asked for, and   *)
(* with the null pointer or npos exactly when there is none.               *)
FindExact ==
  answer # << >> =>
    \/ \E k \in 1 .. Len(table) : table[k].id = probe /\ answer = <<table[k].row>>
    \/ answer = <<"none">> /\ \A k \in 1 .. Len(table) : table[k].id # probe
=============================================================================
