----------------------------- MODULE BinaryFile -----------------------------
(***************************************************************************)
(* The writer of a standalone binary: write_binary lays out a header, one  *)
(* table entry per type, then the record arrays and then the lookup tables *)
(* of the types.  Every size is summed up first, and the offsets so found  *)
(* are written into the entries and the manifest; the pieces are written   *)
(* afterwards, by loops of their own that look at no offset.               *)
(* Both passes take the pieces in one order: the n entries, the n record   *)
(* arrays, the n lookup tables, so that "piece" numbers them 1 .. 3n.       *)
(* A byte is an integer.                                                   *)
(***************************************************************************)
EXTENDS Integers, Sequences

VARIABLES types,            \* what is gathered for each type, in order
          pass,            \* measure, write, closed
          piece,
          cursor,           \* the end of the pieces measured
          starts,           \* the offset of every piece measured
          file              \* the bytes written

binVars == <<types, pass, piece, cursor, starts, file>>

Packed == [name : Seq(Int), hash : Int, size : Nat, count : Nat,
           records : Seq(Int), lookups : Nat, lookup : Seq(Int)]

(* Each of the "count" records has "size" bytes, a lookup row has twelve.  *)
Consistent(t) ==
  Len(t.records) = t.count * t.size /\ Len(t.lookup) = t.lookups * 12

BinTypeOK ==
  /\ types \in Seq(Packed)
  /\ pass \in {"measure", "write", "closed"}
  /\ piece \in 1 .. 3 * Len(types) + 1
  /\ cursor \in Nat
  /\ starts \in Seq(Nat)
  /\ file \in Seq(Int)

Scale == <<1, 256, 65536, 16777216>>

(* An integer of at most 32 bits as w bytes, the lowest first.             *)
Word(n, w) ==
  [k \in 1 .. w |-> IF k <= 4 THEN (n \div Scale[k]) % 256
                              ELSE IF n < 0 THEN 255 ELSE 0]

Header == <<71, 68, 66, 68>> \o Word(1, 1) \o Word(Len(types), 4)

BinStart ==
  /\ pass = "measure" /\ piece = 1
  /\ cursor = 9
  /\ starts = << >> /\ file = << >>

BinInit ==
  /\ types \in Seq(Packed)
  /\ \A i \in 1 .. Len(types) : Consistent(types[i])
  /\ BinStart

N == Len(types)

RecordsAt(i) == starts[N + i]
LookupAt(i) == IF types[i].lookups = 0 THEN 0 ELSE starts[2 * N + i]

(* Mutant of EntrySize: the name is taken to need no length before it. *)
EntrySizeNoLength(t) == Len(t.name) + 36

EntrySize(t) == 2 + Len(t.name) + 36

Size(k) ==
  IF k <= N THEN EntrySize(types[k])
  ELSE IF k <= 2 * N THEN types[k - N].count * types[k - N].size
  ELSE types[k - 2 * N].lookups * 12

TableEntry(i) ==
  LET t == types[i] IN
  Word(Len(t.name), 2) \o t.name \o Word(t.hash, 8) \o Word(t.size, 4)
    \o Word(t.count, 4) \o Word(RecordsAt(i), 8) \o Word(LookupAt(i), 8)
    \o Word(t.lookups, 4)

Piece(k) ==
  IF k <= N THEN TableEntry(k)
  ELSE IF k <= 2 * N THEN types[k - N].records
  ELSE types[k - 2 * N].lookup

Measure ==
  /\ pass = "measure" /\ piece <= 3 * N
  /\ starts' = Append(starts, cursor)
  /\ cursor' = cursor + Size(piece)
  /\ piece' = piece + 1
  /\ UNCHANGED <<types, pass, file>>

WriteHeader ==
  /\ pass = "measure" /\ piece > 3 * N
  /\ file' = Header
  /\ pass' = "write" /\ piece' = 1
  /\ UNCHANGED <<types, cursor, starts>>

WritePiece ==
  /\ pass = "write" /\ piece <= 3 * N
  /\ file' = file \o Piece(piece)
  /\ piece' = piece + 1
  /\ UNCHANGED <<types, pass, cursor, starts>>

Close ==
  /\ pass = "write" /\ piece > 3 * N
  /\ pass' = "closed"
  /\ UNCHANGED <<types, piece, cursor, starts, file>>

BinNext == Measure \/ WriteHeader \/ WritePiece \/ Close

BinSpec == BinInit /\ [][BinNext]_binVars

-----------------------------------------------------------------------------
At(offset, s) == \A k \in 1 .. Len(s) : file[offset + k] = s[k]

(* The offsets that the entries and the manifest state are those at which  *)
(* the loops wrote the records and lookup tables of each type, an absent   *)
(* table being 0, and the file ends where the last piece does.             *)
RecordsInPlace ==
  pass = "closed" =>
    /\ Len(file) = cursor
    /\ \A i \in 1 .. N :
         /\ At(RecordsAt(i), types[i].records)
         /\ At(LookupAt(i), types[i].lookup)
         /\ LookupAt(i) = 0 <=> types[i].lookups = 0
=============================================================================
