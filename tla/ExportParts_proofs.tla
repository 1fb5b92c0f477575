------------------------- MODULE ExportParts_proofs -------------------------
(***************************************************************************)
(* Proofs about four parts of the exporters that know nothing of each      *)
(* other: the binary search of the generated registries (FindIsExact,      *)
(* RangeShrinks), the zero-page pointers of a 6502 export (PointersAreSafe)*)
(* the two passes of the binary writer (OffsetsAreReal) and the ordering   *)
(* of composed types (OrderIsSound, RaiseIsSound, RequestIsExact).  Each   *)
(* theorem is about the specification of its own part.                     *)
(***************************************************************************)
EXTENDS RegistryFind, ZeroPage, BinaryFile, TopoSort, SeqLemmas

-----------------------------------------------------------------------------
(* The binary search, for every table of every length and every ID.        *)

(* What is left of the range still holds every entry with the ID asked for. *)
BelowLo == \A k \in 1 .. Len(table) : k <= lo => table[k].id < probe
AboveHi == \A k \in 1 .. Len(table) : k > hi => table[k].id >= probe

FindInv ==
  /\ FindTypeOK
  /\ SortedById(table)
  /\ lo <= hi
  /\ BelowLo /\ AboveHi
  /\ FindExact

LEMMA EntryIds ==
  ASSUME FindTypeOK
  PROVE  /\ Len(table) \in Nat
         /\ \A k \in 1 .. Len(table) : table[k].id \in Nat /\ table[k].row \in Row
<1>1. \A k \in 1 .. Len(table) : table[k] \in Entry
  BY DEF FindTypeOK
<1> QED
  BY <1>1 DEF FindTypeOK, Entry

LEMMA FindInitInv == FindInit => FindInv
<1> SUFFICES ASSUME FindInit PROVE FindInv
  OBVIOUS
<1>1. Len(table) \in Nat /\ lo = 0 /\ hi = Len(table) /\ answer = << >>
  BY DEF FindInit, FindStart
<1>2. FindTypeOK
  BY <1>1 DEF FindInit, FindTypeOK
<1>3. BelowLo /\ AboveHi /\ FindExact
  BY <1>1 DEF BelowLo, AboveHi, FindExact
<1> QED
  BY <1>1, <1>2, <1>3 DEF FindInv, FindInit

(* The middle lies in the range, so every step makes the range smaller and *)
(* reads an entry of the table.                                            *)
LEMMA MidInRange ==
  ASSUME FindInv, lo < hi
  PROVE  /\ lo \in Int /\ hi \in Int /\ Len(table) \in Nat
         /\ Mid \in Int /\ lo <= Mid /\ Mid < hi /\ Mid + 1 \in 1 .. Len(table)
<1>1. lo \in Int /\ hi \in Int /\ Len(table) \in Nat /\ 0 <= lo /\ hi <= Len(table)
  BY DEF FindInv, FindTypeOK
<1>2. (hi - lo) \div 2 \in Int /\ 0 <= (hi - lo) \div 2 /\ (hi - lo) \div 2 < hi - lo
  BY <1>1
<1> QED
  BY <1>1, <1>2 DEF Mid

LEMMA GoRightInv == FindInv /\ GoRight => FindInv'
<1> SUFFICES ASSUME FindInv, GoRight PROVE FindInv'
  OBVIOUS
<1>1. /\ answer = << >> /\ lo < hi /\ table[Mid + 1].id < probe /\ lo' = Mid + 1
      /\ UNCHANGED <<table, probe, hi, answer>>
  BY DEF GoRight
<1>2. /\ lo \in Int /\ hi \in Int /\ Len(table) \in Nat
      /\ Mid \in Int /\ lo <= Mid /\ Mid < hi /\ Mid + 1 \in 1 .. Len(table)
  BY <1>1, MidInRange
<1>3. FindTypeOK' /\ lo' <= hi'
  BY <1>1, <1>2 DEF FindInv, FindTypeOK
<1>4. BelowLo'
  <2> SUFFICES ASSUME NEW k \in 1 .. Len(table), k <= Mid + 1
               PROVE  table[k].id < probe
    BY <1>1 DEF BelowLo
  <2>1. table[k].id \in Nat /\ table[Mid + 1].id \in Nat /\ probe \in Nat
    BY <1>2, EntryIds DEF FindInv, FindTypeOK
  <2>2. k = Mid + 1 \/ table[k].id < table[Mid + 1].id
    BY <1>2 DEF FindInv, SortedById
  <2> QED
    BY <1>1, <2>1, <2>2
<1>5. SortedById(table)' /\ AboveHi' /\ FindExact'
  BY <1>1 DEF FindInv, SortedById, AboveHi, FindExact
<1> QED
  BY <1>3, <1>4, <1>5 DEF FindInv

LEMMA GoLeftInv == FindInv /\ GoLeft => FindInv'
<1> SUFFICES ASSUME FindInv, GoLeft PROVE FindInv'
  OBVIOUS
<1>1. /\ answer = << >> /\ lo < hi /\ table[Mid + 1].id >= probe /\ hi' = Mid
      /\ UNCHANGED <<table, probe, lo, answer>>
  BY DEF GoLeft
<1>2. /\ lo \in Int /\ hi \in Int /\ Len(table) \in Nat
      /\ Mid \in Int /\ lo <= Mid /\ Mid < hi /\ Mid + 1 \in 1 .. Len(table)
  BY <1>1, MidInRange
<1>3. FindTypeOK' /\ lo' <= hi'
  BY <1>1, <1>2 DEF FindInv, FindTypeOK
<1>4. AboveHi'
  <2> SUFFICES ASSUME NEW k \in 1 .. Len(table), k > Mid
               PROVE  table[k].id >= probe
    BY <1>1 DEF AboveHi
  <2>1. table[k].id \in Nat /\ table[Mid + 1].id \in Nat /\ probe \in Nat
    BY <1>2, EntryIds DEF FindInv, FindTypeOK
  <2>2. k = Mid + 1 \/ table[Mid + 1].id < table[k].id
    BY <1>2 DEF FindInv, SortedById
  <2> QED
    BY <1>1, <2>1, <2>2
<1>5. SortedById(table)' /\ BelowLo' /\ FindExact'
  BY <1>1 DEF FindInv, SortedById, BelowLo, FindExact
<1> QED
  BY <1>3, <1>4, <1>5 DEF FindInv

(* When the range is empty, the entries before it are too small and those  *)
(* after it are large enough: only the first of these can have the ID.     *)
LEMMA AnswerInv == FindInv /\ (Hit \/ Miss) => FindInv'
<1> SUFFICES ASSUME FindInv, Hit \/ Miss PROVE FindInv'
  OBVIOUS
<1>1. UNCHANGED <<table, probe, lo, hi>> /\ lo >= hi
  BY DEF Hit, Miss
<1>2. lo = hi /\ lo \in Nat /\ Len(table) \in Nat /\ lo <= Len(table) /\ probe \in Nat
  BY <1>1 DEF FindInv, FindTypeOK
<1>3. SortedById(table)' /\ BelowLo' /\ AboveHi' /\ lo' <= hi'
  BY <1>1 DEF FindInv, SortedById, BelowLo, AboveHi
<1>4. CASE Hit
  <2>1. lo + 1 \in 1 .. Len(table) /\ answer' = <<table[lo + 1].row>>
        /\ table[lo + 1].id = probe
    BY <1>2, <1>4 DEF Hit
  <2>2. table[lo + 1].row \in Row
    BY <2>1, EntryIds DEF FindInv
  <2>3. FindTypeOK'
    BY <1>1, <2>1, <2>2 DEF FindInv, FindTypeOK
  <2>4. FindExact'
    BY <1>1, <2>1 DEF FindExact
  <2> QED
    BY <1>3, <2>3, <2>4 DEF FindInv
<1>5. CASE Miss
  <2>1. answer' = <<"none">> /\ (lo < Len(table) => table[lo + 1].id # probe)
    BY <1>5 DEF Miss
  <2>2. \A k \in 1 .. Len(table) : table[k].id # probe
    <3> TAKE k \in 1 .. Len(table)
    <3>1. table[k].id \in Nat
      BY EntryIds DEF FindInv
    <3>2. CASE k <= lo
      BY <1>2, <3>1, <3>2 DEF FindInv, BelowLo
    <3>3. CASE k = lo + 1
      BY <1>2, <2>1, <3>3
    <3>4. CASE k > lo + 1
      <4>1. lo + 1 \in 1 .. Len(table) /\ table[lo + 1].id \in Nat
        BY <1>2, <3>4, EntryIds DEF FindInv
      <4>2. table[lo + 1].id >= probe /\ table[lo + 1].id < table[k].id
        BY <1>2, <3>4, <4>1 DEF FindInv, AboveHi, SortedById
      <4> QED
        BY <1>2, <3>1, <4>1, <4>2
    <3> QED
      BY <1>2, <3>2, <3>3, <3>4
  <2>3. FindTypeOK'
    BY <1>1, <2>1 DEF FindInv, FindTypeOK
  <2>4. FindExact'
    BY <1>1, <2>1, <2>2 DEF FindExact
  <2> QED
    BY <1>3, <2>3, <2>4 DEF FindInv
<1> QED
  BY <1>4, <1>5

LEMMA FindNextInv == FindInv /\ [FindNext]_findVars => FindInv'
<1>1. FindInv /\ UNCHANGED findVars => FindInv'
  BY DEF FindInv, FindTypeOK, SortedById, BelowLo, AboveHi, FindExact, findVars
<1> QED
  BY <1>1, GoRightInv, GoLeftInv, AnswerInv DEF FindNext

(* Find is right about every ID, in tables of any length.                  *)
THEOREM FindIsExact == FindSpec => []FindExact
<1>1. FindInit => FindInv
  BY FindInitInv
<1>2. FindInv /\ [FindNext]_findVars => FindInv'
  BY FindNextInv
<1>3. FindInv => FindExact
  BY DEF FindInv
<1> QED
  BY <1>1, <1>2, <1>3, PTL DEF FindSpec

(* Every step of the search makes the range smaller, and an empty range is *)
(* answered: the generated loop ends.                                      *)
THEOREM RangeShrinks ==
  FindInv /\ (GoRight \/ GoLeft) => hi' - lo' < hi - lo /\ hi' - lo' >= 0
<1> SUFFICES ASSUME FindInv, GoRight \/ GoLeft
             PROVE  hi' - lo' < hi - lo /\ hi' - lo' >= 0
  OBVIOUS
<1>1. lo < hi
  BY DEF GoRight, GoLeft
<1> QED
  BY <1>1, MidInRange DEF GoRight, GoLeft

-----------------------------------------------------------------------------
(* The zero page, for every base and every list of types and domains.      *)

(* The block of consumer number k begins at the base plus 2(k - 1), and    *)
(* the counter is the first address after the last block.                  *)
Placed ==
  stage \notin {"validate"} /\ ValidBase =>
    /\ request.base[1] \in Int
    /\ \A k \in 1 .. Len(blocks) : blocks[k].base = request.base[1] + 2 * (k - 1)
    /\ addr = request.base[1] + 2 * Len(blocks)

Judged ==
  /\ stage = "granted" => ValidBase /\ addr - 1 <= 255
  /\ stage = "refused" /\ ValidBase => addr - 1 > 255
  /\ stage \in {"registry", "dispatch", "room"} => ValidBase
  /\ stage = "validate" => blocks = << >>

ZpInv == ZpTypeOK /\ Placed /\ Judged

LEMMA BaseIsInt ==
  ASSUME ZpTypeOK, ValidBase
  PROVE  request.base[1] \in Int
BY DEF ZpTypeOK, Request, ValidBase

LEMMA ZpInitInv == ZpInit => ZpInv
<1> SUFFICES ASSUME ZpInit PROVE ZpInv
  OBVIOUS
<1> USE DEF ZpInit, ZpStart
<1>1. ZpTypeOK
  BY DEF ZpTypeOK
<1>2. Placed /\ Judged
  BY DEF Placed, Judged
<1> QED
  BY <1>1, <1>2 DEF ZpInv

LEMMA HandInv ==
  ASSUME ZpInv, NEW c \in Consumer, Hand(c), stage \in {"registry", "dispatch"}
  PROVE  ZpInv'
<1>1. /\ blocks' = Append(blocks, [owner |-> c, base |-> addr])
      /\ addr' = addr + 2 /\ turn' = turn + 1 /\ UNCHANGED <<request, stage>>
  BY DEF Hand
<1>2. ValidBase /\ request.base[1] \in Int
  BY BaseIsInt DEF ZpInv, Judged
<1>3. /\ [owner |-> c, base |-> addr] \in Block
      /\ blocks \in Seq(Block) /\ Len(blocks) \in Nat
  BY DEF ZpInv, ZpTypeOK, Block
<1>4. /\ blocks' \in Seq(Block) /\ Len(blocks') = Len(blocks) + 1
      /\ \A k \in 1 .. Len(blocks) : blocks'[k] = blocks[k]
      /\ blocks'[Len(blocks) + 1] = [owner |-> c, base |-> addr]
  BY <1>1, <1>3
<1>5. ZpTypeOK'
  BY <1>1, <1>4 DEF ZpInv, ZpTypeOK
<1>6. ValidBase' /\ request' = request
  BY <1>1, <1>2 DEF ValidBase
<1>7. /\ \A k \in 1 .. Len(blocks) : blocks[k].base = request.base[1] + 2 * (k - 1)
      /\ addr = request.base[1] + 2 * Len(blocks)
  BY <1>2 DEF ZpInv, Placed
<1>8. Placed'
  <2>1. \A k \in 1 .. Len(blocks') : blocks'[k].base = request.base[1] + 2 * (k - 1)
    <3> TAKE k \in 1 .. Len(blocks')
    <3>1. CASE k \in 1 .. Len(blocks)
      BY <1>4, <1>7, <3>1
    <3>2. CASE k = Len(blocks) + 1
      BY <1>3, <1>4, <1>7, <3>2
    <3> QED
      BY <1>3, <1>4, <3>1, <3>2
  <2>2. addr' = request.base[1] + 2 * Len(blocks')
    BY <1>1, <1>2, <1>3, <1>4, <1>7
  <2> QED
    BY <1>2, <1>6, <2>1, <2>2 DEF Placed
<1>9. Judged'
  BY <1>1, <1>6 DEF Judged
<1> QED
  BY <1>5, <1>8, <1>9 DEF ZpInv

LEMMA ValidateInv == ZpInv /\ Validate => ZpInv'
<1> SUFFICES ASSUME ZpInv, Validate PROVE ZpInv'
  OBVIOUS
<1>1. /\ stage = "validate" /\ stage' = "registry" /\ addr' = request.base[1]
      /\ UNCHANGED <<request, turn, blocks>> /\ ValidBase
  BY DEF Validate
<1>2. request.base[1] \in Int /\ blocks = << >>
  BY <1>1, BaseIsInt DEF ZpInv, Judged
<1>3. ZpTypeOK'
  BY <1>1, <1>2 DEF ZpInv, ZpTypeOK
<1>4. ValidBase' /\ Placed' /\ Judged'
  BY <1>1, <1>2 DEF ValidBase, Placed, Judged
<1> QED
  BY <1>3, <1>4 DEF ZpInv

(* The steps that hand out nothing keep the blocks where they are.         *)
LEMMA OtherInv ==
  ZpInv /\ (RejectBase \/ RegistriesDone \/ SkipFlags \/ DispatchesDone
              \/ Grant \/ RejectNeed) => ZpInv'
<1> SUFFICES ASSUME ZpInv, RejectBase \/ RegistriesDone \/ SkipFlags
                             \/ DispatchesDone \/ Grant \/ RejectNeed
             PROVE  ZpInv'
  OBVIOUS
<1>1. UNCHANGED <<request, addr, blocks>>
  BY DEF RejectBase, RegistriesDone, SkipFlags, DispatchesDone, Grant, RejectNeed
<1>2. ValidBase' <=> ValidBase
  BY <1>1 DEF ValidBase
<1>3. ZpTypeOK'
  BY <1>1 DEF ZpInv, ZpTypeOK, RejectBase, RegistriesDone, SkipFlags, DispatchesDone,
              Grant, RejectNeed
<1>4. Judged'
  BY <1>1, <1>2 DEF ZpInv, ZpTypeOK, Judged, RejectBase, RegistriesDone, SkipFlags,
                    DispatchesDone, Grant, RejectNeed, Room
<1>5. Placed'
  <2>1. CASE RejectBase
    BY <1>2, <2>1 DEF Placed, RejectBase
  <2>2. CASE ~RejectBase
    BY <1>1, <1>2, <2>2 DEF ZpInv, Placed, RegistriesDone, SkipFlags, DispatchesDone,
                            Grant, RejectNeed
  <2> QED
    BY <2>1, <2>2
<1> QED
  BY <1>3, <1>4, <1>5 DEF ZpInv

LEMMA ZpNextInv == ZpInv /\ [ZpNext]_zpVars => ZpInv'
<1> SUFFICES ASSUME ZpInv, [ZpNext]_zpVars PROVE ZpInv'
  OBVIOUS
<1>1. CASE RegistryBlock
  <2>1. request.types[turn] \in Consumer
    BY <1>1 DEF RegistryBlock, ZpInv, ZpTypeOK, Request
  <2> QED
    BY <1>1, <2>1, HandInv DEF RegistryBlock
<1>2. CASE DispatchBlock
  <2>1. /\ request.domains \in Seq([name : Consumer, kind : {"identifier", "flags"}])
        /\ turn \in 1 .. Len(request.domains)
    BY <1>2 DEF DispatchBlock, ZpInv, ZpTypeOK, Request
  <2> DEFINE Domain == [name : Consumer, kind : {"identifier", "flags"}]
  <2>2. \A d \in Domain : d.name \in Consumer
    OBVIOUS
  <2> HIDE DEF Domain
  <2>3. request.domains[turn] \in Domain
    <3>1. request.domains \in Seq(Domain)
      BY <2>1 DEF Domain
    <3> QED
      BY <2>1, <3>1
  <2>4. request.domains[turn].name \in Consumer
    BY <2>2, <2>3
  <2> QED
    BY <1>2, <2>4, HandInv DEF DispatchBlock
<1>3. CASE UNCHANGED zpVars
  BY <1>3 DEF zpVars, ZpInv, ZpTypeOK, Placed, Judged, ValidBase
<1> QED
  BY <1>1, <1>2, <1>3, ValidateInv, OtherInv DEF ZpNext

(* Accepted pointers are disjoint and in the page, and a valid base is     *)
(* refused only for want of room, whatever is exported.                    *)
THEOREM PointersAreSafe == ZpSpec => []ZeroPageSafe
<1>1. ZpInit => ZpInv
  BY ZpInitInv
<1>2. ZpInv /\ [ZpNext]_zpVars => ZpInv'
  BY ZpNextInv
<1>3. ZpInv => ZeroPageSafe
  <2> SUFFICES ASSUME ZpInv PROVE ZeroPageSafe
    OBVIOUS
  <2>1. Len(blocks) \in Nat
    BY DEF ZpInv, ZpTypeOK
  <2>2. CASE stage = "granted"
    <3>1. /\ ValidBase /\ addr <= 256 /\ request.base[1] \in Int
          /\ \A k \in 1 .. Len(blocks) : blocks[k].base = request.base[1] + 2 * (k - 1)
          /\ addr = request.base[1] + 2 * Len(blocks)
      BY <2>2, <2>1 DEF ZpInv, Judged, Placed
    <3>2. \A k \in 1 .. Len(blocks) : Bytes(blocks[k]) \subseteq request.base[1] .. 255
      BY <2>1, <3>1 DEF Bytes
    <3>3. \A j, k \in 1 .. Len(blocks) :
            j # k => Bytes(blocks[j]) \cap Bytes(blocks[k]) = {}
      BY <2>1, <3>1 DEF Bytes
    <3> QED
      BY <2>2, <3>2, <3>3 DEF ZeroPageSafe
  <2>3. CASE stage = "refused" /\ ValidBase
    <3>1. addr - 1 > 255 /\ addr = request.base[1] + 2 * Len(blocks) /\ addr \in Int
      BY <2>3 DEF ZpInv, ZpTypeOK, Judged, Placed
    <3> QED
      BY <2>3, <3>1 DEF ZeroPageSafe
  <2> QED
    BY <2>2, <2>3 DEF ZeroPageSafe
<1> QED
  BY <1>1, <1>2, <1>3, PTL DEF ZpSpec

-----------------------------------------------------------------------------
(* The two passes of the writer agree, for any number of types of any      *)
(* size.  The invariant has two halves: while measuring, the start of a    *)
(* piece is the start of the one before plus its size; while writing, the  *)
(* file is as long as the start of the piece that is next, and every piece *)
(* that is written is still where it was put.                              *)

Chained ==
  /\ \A k \in 1 .. Len(starts) :
       /\ starts[k] >= 9
       /\ k < Len(starts) => starts[k + 1] = starts[k] + Size(k)
  /\ Len(starts) > 0 => /\ starts[1] = 9
                        /\ cursor = starts[Len(starts)] + Size(Len(starts))
  /\ Len(starts) = 0 => cursor = 9

Written ==
  /\ Len(file) = IF piece <= 3 * N THEN starts[piece] ELSE cursor
  /\ \A j \in 1 .. piece - 1 :
       /\ starts[j] + Len(Piece(j)) <= Len(file)
       /\ At(starts[j], Piece(j))

BinInv ==
  /\ BinTypeOK
  /\ \A i \in 1 .. N : Consistent(types[i])
  /\ Chained
  /\ pass = "measure" => Len(starts) = piece - 1
  /\ pass # "measure" => Len(starts) = 3 * N /\ Written
  /\ pass = "closed" => piece = 3 * N + 1

(* A word has the bytes it is asked to have. *)
LEMMA WordBytes ==
  ASSUME NEW n \in Int, NEW w \in Nat
  PROVE  Word(n, w) \in Seq(Int) /\ Len(Word(n, w)) = w
<1>1. \A k \in 1 .. w : Word(n, w)[k] \in Int
  <2> SUFFICES ASSUME NEW k \in 1 .. w
               PROVE  (IF k <= 4 THEN (n \div Scale[k]) % 256
                                 ELSE IF n < 0 THEN 255 ELSE 0) \in Int
    BY DEF Word
  <2>1. CASE k <= 4
    <3>1. k \in 1 .. 4 => Scale[k] \in Nat \ {0}
      BY DEF Scale
    <3> QED BY <2>1, <3>1
  <2>2. CASE k > 4
    BY <2>2
  <2> QED BY <2>1, <2>2
<1>2. Word(n, w) = [k \in 1 .. w |-> Word(n, w)[k]]
  BY DEF Word
<1>3. Word(n, w) \in [1 .. w -> Int]
  BY <1>1, <1>2
<1>4. [1 .. w -> Int] \subseteq Seq(Int)
  OBVIOUS
<1>5. DOMAIN Word(n, w) = 1 .. w
  BY DEF Word
<1> QED BY <1>3, <1>4, <1>5

LEMMA Joined ==
  ASSUME NEW a \in Seq(Int), NEW b \in Seq(Int)
  PROVE  /\ a \o b \in Seq(Int) /\ Len(a \o b) = Len(a) + Len(b)
         /\ \A k \in 1 .. Len(a) : (a \o b)[k] = a[k]
         /\ \A k \in 1 .. Len(b) : (a \o b)[Len(a) + k] = b[k]
  OBVIOUS

(* What is measured for a piece is what is written for it. *)
LEMMA PieceSize ==
  ASSUME BinTypeOK, \A i \in 1 .. N : Consistent(types[i]),
         Len(starts) = 3 * N, NEW k \in 1 .. 3 * N
  PROVE  Piece(k) \in Seq(Int) /\ Len(Piece(k)) = Size(k)
<1> N \in Nat
  BY DEF N, BinTypeOK
<1>1. CASE k <= N
  <2> DEFINE t == types[k]
  <2>0. k \in 1 .. N
    BY <1>1
  <2>1. t \in Packed /\ t.name \in Seq(Int) /\ t.hash \in Int /\ t.size \in Int
        /\ t.count \in Int /\ t.lookups \in Int
    <3>1. t \in Packed
      BY <2>0 DEF BinTypeOK, N
    <3> QED BY <3>1 DEF Packed
  <2>2. RecordsAt(k) \in Int /\ LookupAt(k) \in Int
    <3>1. N + k \in 1 .. Len(starts) /\ 2 * N + k \in 1 .. Len(starts)
      BY <2>0
    <3>2. starts[N + k] \in Nat /\ starts[2 * N + k] \in Nat
      BY <3>1 DEF BinTypeOK
    <3> QED BY <3>2 DEF RecordsAt, LookupAt
  <2>3. Len(t.name) \in Int
    BY <2>1
  <2> DEFINE w1 == Word(Len(t.name), 2)  w2 == Word(t.hash, 8)  w3 == Word(t.size, 4)
             w4 == Word(t.count, 4)  w5 == Word(RecordsAt(k), 8)
             w6 == Word(LookupAt(k), 8)  w7 == Word(t.lookups, 4)
  <2>4. w1 \in Seq(Int) /\ Len(w1) = 2 /\ w2 \in Seq(Int) /\ Len(w2) = 8
        /\ w3 \in Seq(Int) /\ Len(w3) = 4 /\ w4 \in Seq(Int) /\ Len(w4) = 4
    BY <2>1, <2>3, WordBytes
  <2>5. w5 \in Seq(Int) /\ Len(w5) = 8 /\ w6 \in Seq(Int) /\ Len(w6) = 8
        /\ w7 \in Seq(Int) /\ Len(w7) = 4
    BY <2>1, <2>2, WordBytes
  <2>6. Piece(k) = w1 \o t.name \o w2 \o w3 \o w4 \o w5 \o w6 \o w7
    BY <1>1 DEF Piece, TableEntry
  <2>7. Size(k) = 2 + Len(t.name) + 36
    BY <1>1 DEF Size, EntrySize
  <2> HIDE DEF t, w1, w2, w3, w4, w5, w6, w7
  <2> DEFINE s1 == w1 \o t.name
             s2 == s1 \o w2
             s3 == s2 \o w3
             s4 == s3 \o w4
             s5 == s4 \o w5
             s6 == s5 \o w6
             s7 == s6 \o w7
  <2>8. s1 \in Seq(Int) /\ Len(s1) = 2 + Len(t.name)
    <3>1. s1 \in Seq(Int) /\ Len(s1) = Len(w1) + Len(t.name)
      BY <2>1, <2>4, Joined
    <3> QED BY <3>1, <2>4
  <2>9. s2 \in Seq(Int) /\ Len(s2) = 10 + Len(t.name)
    <3> HIDE DEF s1
    <3>1. s2 \in Seq(Int) /\ Len(s2) = Len(s1) + Len(w2)
      BY <2>8, <2>4, Joined
    <3> QED BY <3>1, <2>8, <2>4, <2>3
  <2>10. s3 \in Seq(Int) /\ Len(s3) = 14 + Len(t.name)
    <3> HIDE DEF s2
    <3>1. s3 \in Seq(Int) /\ Len(s3) = Len(s2) + Len(w3)
      BY <2>9, <2>4, Joined
    <3> QED BY <3>1, <2>9, <2>4, <2>3
  <2>11. s4 \in Seq(Int) /\ Len(s4) = 18 + Len(t.name)
    <3> HIDE DEF s3
    <3>1. s4 \in Seq(Int) /\ Len(s4) = Len(s3) + Len(w4)
      BY <2>10, <2>4, Joined
    <3> QED BY <3>1, <2>10, <2>4, <2>3
  <2>12. s5 \in Seq(Int) /\ Len(s5) = 26 + Len(t.name)
    <3> HIDE DEF s4
    <3>1. s5 \in Seq(Int) /\ Len(s5) = Len(s4) + Len(w5)
      BY <2>11, <2>5, Joined
    <3> QED BY <3>1, <2>11, <2>5, <2>3
  <2>13. s6 \in Seq(Int) /\ Len(s6) = 34 + Len(t.name)
    <3> HIDE DEF s5
    <3>1. s6 \in Seq(Int) /\ Len(s6) = Len(s5) + Len(w6)
      BY <2>12, <2>5, Joined
    <3> QED BY <3>1, <2>12, <2>5, <2>3
  <2>14. s7 \in Seq(Int) /\ Len(s7) = 38 + Len(t.name)
    <3> HIDE DEF s6
    <3>1. s7 \in Seq(Int) /\ Len(s7) = Len(s6) + Len(w7)
      BY <2>13, <2>5, Joined
    <3> QED BY <3>1, <2>13, <2>5, <2>3
  <2> QED BY <2>14, <2>6, <2>7
<1>2. CASE k > N /\ k <= 2 * N
  <2>1. k - N \in 1 .. N
    BY <1>2
  <2>2. types[k - N] \in Packed /\ Consistent(types[k - N])
    BY <2>1 DEF BinTypeOK, N
  <2>3. Piece(k) = types[k - N].records /\ Size(k) = types[k - N].count * types[k - N].size
    BY <1>2 DEF Piece, Size
  <2> QED BY <2>2, <2>3 DEF Packed, Consistent
<1>3. CASE k > 2 * N
  <2>1. k - 2 * N \in 1 .. N
    BY <1>3
  <2>2. types[k - 2 * N] \in Packed /\ Consistent(types[k - 2 * N])
    BY <2>1 DEF BinTypeOK, N
  <2>3. ~(k <= N) /\ ~(k <= 2 * N)
    BY <1>3
  <2>4. Piece(k) = types[k - 2 * N].lookup /\ Size(k) = types[k - 2 * N].lookups * 12
    BY <2>3 DEF Piece, Size
  <2> QED BY <2>2, <2>4 DEF Packed, Consistent
<1> QED BY <1>1, <1>2, <1>3

(* A size is a natural number, also while not all starts are known. *)
LEMMA SizeNat ==
  ASSUME BinTypeOK, NEW k \in 1 .. 3 * N
  PROVE  Size(k) \in Nat
<1> N \in Nat
  BY DEF N, BinTypeOK
<1>1. CASE k <= N
  <2>1. types[k] \in Packed
    BY <1>1 DEF BinTypeOK, N
  <2> QED BY <1>1, <2>1 DEF Size, EntrySize, Packed
<1>2. CASE k > N /\ k <= 2 * N
  <2>1. types[k - N] \in Packed
    BY <1>2 DEF BinTypeOK, N
  <2>2. types[k - N].count \in Nat /\ types[k - N].size \in Nat
    BY <2>1 DEF Packed
  <2>3. Size(k) = types[k - N].count * types[k - N].size
    BY <1>2 DEF Size
  <2> QED BY <2>2, <2>3
<1>3. CASE k > 2 * N
  <2>1. types[k - 2 * N] \in Packed
    BY <1>3 DEF BinTypeOK, N
  <2>2. ~(k <= N) /\ ~(k <= 2 * N)
    BY <1>3
  <2> QED BY <2>1, <2>2 DEF Size, Packed
<1> QED BY <1>1, <1>2, <1>3

LEMMA BinInitInv == BinInit => BinInv
  BY DEF BinInit, BinStart, BinInv, BinTypeOK, Chained, N

LEMMA BinNextInv == BinInv /\ [BinNext]_binVars => BinInv'
<1> SUFFICES ASSUME BinInv, [BinNext]_binVars PROVE BinInv'
  OBVIOUS
<1> N \in Nat /\ N = Len(types)
  BY DEF BinInv, BinTypeOK, N
<1>0. piece \in Nat /\ 1 <= piece /\ piece <= 3 * N + 1
  BY DEF BinInv, BinTypeOK
<1>1. CASE Measure
  <2> USE <1>1 DEF Measure
  <2>1. piece \in 1 .. 3 * N /\ Len(starts) = piece - 1
    BY DEF BinInv, BinTypeOK
  <2>2. Size(piece) \in Nat
    BY <2>1, SizeNat DEF BinInv
  <2>3. types' = types /\ N' = N /\ \A k : Size(k)' = Size(k)
    BY DEF N, Size
  <2>4. BinTypeOK' /\ Len(starts') = piece
    BY <2>1, <2>2 DEF BinInv, BinTypeOK
  <2>5. \A k \in 1 .. piece - 1 : starts'[k] = starts[k] /\ k \in 1 .. Len(starts)
    BY <2>1 DEF BinInv, BinTypeOK
  <2>6. starts'[piece] = cursor
    BY <2>1 DEF BinInv, BinTypeOK
  <2>7. cursor >= 9 /\ (piece > 1 => cursor = starts[piece - 1] + Size(piece - 1))
    <3>1. CASE piece = 1
      BY <3>1, <2>1 DEF BinInv, Chained
    <3>2. CASE piece > 1
      <4>1. Size(piece - 1) \in Nat
        BY <3>2, <2>1, SizeNat DEF BinInv
      <4>2. piece - 1 \in 1 .. Len(starts) /\ starts[piece - 1] \in Nat
        BY <3>2, <2>1 DEF BinInv, BinTypeOK
      <4> QED BY <3>2, <2>1, <4>1, <4>2 DEF BinInv, Chained
    <3> QED BY <2>1, <3>1, <3>2
  <2>8. Chained'
    <3>1. ASSUME NEW k \in 1 .. piece
          PROVE  starts'[k] >= 9 /\ (k < piece => starts'[k + 1] = starts'[k] + Size(k))
      <4>1. CASE k = piece
        BY <4>1, <2>6, <2>7
      <4>2. CASE k = piece - 1
        BY <4>2, <2>1, <2>5, <2>6, <2>7 DEF BinInv, Chained
      <4>3. CASE k < piece - 1
        <5>1. k \in 1 .. piece - 1 /\ k + 1 \in 1 .. piece - 1
          BY <4>3, <2>1
        <5> QED BY <4>3, <5>1, <2>1, <2>5 DEF BinInv, Chained
      <4> QED BY <2>1, <4>1, <4>2, <4>3
    <3>2. starts'[1] = 9
      <4>1. CASE piece = 1
        BY <4>1, <2>1, <2>6 DEF BinInv, Chained
      <4>2. CASE piece > 1
        BY <4>2, <2>1, <2>5 DEF BinInv, Chained
      <4> QED BY <2>1, <4>1, <4>2
    <3>3. cursor' = starts'[piece] + Size(piece)
      BY <2>6
    <3> QED BY <3>1, <3>2, <3>3, <2>1, <2>3, <2>4 DEF Chained
  <2>9. (\A i \in 1 .. N : Consistent(types[i]))'
    BY <2>3 DEF BinInv, Consistent
  <2> QED BY <2>1, <2>4, <2>8, <2>9 DEF BinInv
<1>2. CASE WriteHeader
  <2> USE <1>2 DEF WriteHeader
  <2>1. piece = 3 * N + 1 /\ Len(starts) = 3 * N
    <3>1. piece > 3 * N /\ Len(starts) = piece - 1
      BY DEF BinInv
    <3> QED BY <1>0, <3>1
  <2>2. N' = N /\ \A k : Size(k)' = Size(k)
    BY DEF N, Size
  <2>3. Header \in Seq(Int) /\ Len(Header) = 9
    <3>1. Word(1, 1) \in Seq(Int) /\ Len(Word(1, 1)) = 1
      <4>1. 1 \in Int /\ 1 \in Nat
        OBVIOUS
      <4> QED BY <4>1, WordBytes
    <3>2. Word(Len(types), 4) \in Seq(Int) /\ Len(Word(Len(types), 4)) = 4
      <4>1. Len(types) \in Int /\ 4 \in Nat
        OBVIOUS
      <4> QED BY <4>1, WordBytes
    <3>3. <<71, 68, 66, 68>> \in Seq(Int) /\ Len(<<71, 68, 66, 68>>) = 4
      OBVIOUS
    <3> DEFINE a == <<71, 68, 66, 68>>  b == Word(1, 1)  c == Word(Len(types), 4)
    <3>4. Header = a \o b \o c
      BY DEF Header
    <3> HIDE DEF a, b, c
    <3>5. a \o b \in Seq(Int) /\ Len(a \o b) = 5
      <4>1. a \in Seq(Int) /\ Len(a) = 4 /\ b \in Seq(Int) /\ Len(b) = 1
        BY <3>1, <3>3 DEF a, b
      <4>2. a \o b \in Seq(Int) /\ Len(a \o b) = Len(a) + Len(b)
        BY <4>1, Joined
      <4> QED BY <4>1, <4>2
    <3> DEFINE ab == a \o b
    <3> HIDE DEF ab
    <3>6. ab \o c \in Seq(Int) /\ Len(ab \o c) = 9
      <4>1. c \in Seq(Int) /\ Len(c) = 4
        BY <3>2 DEF c
      <4>2. ab \in Seq(Int) /\ Len(ab) = 5
        BY <3>5 DEF ab
      <4>3. ab \o c \in Seq(Int) /\ Len(ab \o c) = Len(ab) + Len(c)
        BY <4>1, <4>2, Joined
      <4> QED BY <4>1, <4>2, <4>3
    <3> QED BY <3>4, <3>6 DEF ab
  <2>4. BinTypeOK' /\ (\A i \in 1 .. N : Consistent(types[i]))'
    BY <2>1, <2>2, <2>3 DEF BinInv, BinTypeOK, Consistent
  <2>5. Chained'
    BY <2>2 DEF BinInv, Chained
  <2>6. Written'
    BY <2>1, <2>2, <2>3 DEF BinInv, Chained, Written
  <2> QED BY <2>1, <2>2, <2>4, <2>5, <2>6 DEF BinInv
<1>3. CASE WritePiece
  <2> USE <1>3 DEF WritePiece
  <2>1. piece \in 1 .. 3 * N /\ Len(starts) = 3 * N /\ Len(file) = starts[piece]
    BY DEF BinInv, BinTypeOK, Written
  <2>2. N' = N /\ (\A k : Size(k)' = Size(k)) /\ (\A k : Piece(k)' = Piece(k))
    BY DEF N, Size, Piece, TableEntry, RecordsAt, LookupAt
  <2>3. \A k \in 1 .. 3 * N : Piece(k) \in Seq(Int) /\ Len(Piece(k)) = Size(k)
    BY <2>1, PieceSize DEF BinInv
  <2>4. file \in Seq(Int) /\ Piece(piece) \in Seq(Int) /\ file' \in Seq(Int)
        /\ Len(file') = Len(file) + Size(piece) /\ Size(piece) \in Nat
    <3>1. file \in Seq(Int) /\ Piece(piece) \in Seq(Int) /\ Len(Piece(piece)) = Size(piece)
      BY <2>1, <2>3 DEF BinInv, BinTypeOK
    <3>2. file \o Piece(piece) \in Seq(Int)
          /\ Len(file \o Piece(piece)) = Len(file) + Len(Piece(piece))
      BY <3>1, Joined
    <3>3. Size(piece) \in Nat
      BY <2>1, SizeNat DEF BinInv
    <3> QED BY <3>1, <3>2, <3>3
  <2>5. BinTypeOK' /\ (\A i \in 1 .. N : Consistent(types[i]))' /\ Chained'
    BY <2>1, <2>2, <2>4 DEF BinInv, BinTypeOK, Consistent, Chained
  <2>6. Len(file') = IF piece' <= 3 * N THEN starts[piece'] ELSE cursor
    <3>1. CASE piece < 3 * N
      <4>1. starts[piece + 1] = starts[piece] + Size(piece)
        BY <3>1, <2>1 DEF BinInv, Chained
      <4> QED BY <3>1, <4>1, <2>1, <2>4
    <3>2. CASE piece = 3 * N
      <4>1. cursor = starts[piece] + Size(piece)
        BY <3>2, <2>1 DEF BinInv, Chained
      <4> QED BY <3>2, <4>1, <2>1, <2>4
    <3> QED BY <2>1, <3>1, <3>2
  <2>7. ASSUME NEW j \in 1 .. piece
        PROVE  /\ starts[j] + Len(Piece(j)) <= Len(file')
               /\ \A k \in 1 .. Len(Piece(j)) : file'[starts[j] + k] = Piece(j)[k]
    <3>0. starts[j] \in Nat /\ Piece(j) \in Seq(Int)
      BY <2>1, <2>3 DEF BinInv, BinTypeOK
    <3>1. CASE j = piece
      <4>1. \A k \in 1 .. Len(Piece(piece)) :
              (file \o Piece(piece))[Len(file) + k] = Piece(piece)[k]
        BY <2>4, Joined
      <4>2. Len(Piece(piece)) = Size(piece)
        BY <2>1, <2>3
      <4> QED BY <3>1, <4>1, <4>2, <2>1, <2>4
    <3>2. CASE j < piece
      <4>1. j \in 1 .. piece - 1
        BY <3>2, <2>1
      <4>2. starts[j] + Len(Piece(j)) <= Len(file) /\ At(starts[j], Piece(j))
        BY <4>1 DEF BinInv, Written
      <4>3. ASSUME NEW k \in 1 .. Len(Piece(j))
            PROVE  file'[starts[j] + k] = file[starts[j] + k]
        <5>1. starts[j] + k \in 1 .. Len(file)
          <6>1. Len(Piece(j)) \in Nat /\ Len(file) \in Nat
            BY <3>0, <2>4
          <6>2. starts[j] + k <= Len(file) /\ starts[j] + k >= 1
            BY <4>2, <3>0, <6>1
          <6> QED BY <6>1, <6>2, <3>0
        <5> QED BY <5>1, <2>4, Joined
      <4>4. Len(Piece(j)) \in Nat /\ Len(file') >= Len(file)
        BY <3>0, <2>4
      <4>5. starts[j] + Len(Piece(j)) <= Len(file')
        BY <4>2, <4>4, <3>0, <2>4
      <4>6. \A k \in 1 .. Len(Piece(j)) : file[starts[j] + k] = Piece(j)[k]
        BY <4>2 DEF At
      <4> QED BY <4>3, <4>5, <4>6
    <3> QED
      <4>1. j = piece \/ j < piece
        BY <2>1
      <4> QED BY <4>1, <3>1, <3>2
  <2>8. Written'
    <3>1. piece' - 1 = piece
      BY <2>1
    <3>2. starts' = starts /\ cursor' = cursor
      OBVIOUS
    <3> QED BY <3>1, <3>2, <2>2, <2>6, <2>7 DEF Written, At
  <2> QED BY <2>1, <2>2, <2>5, <2>8 DEF BinInv
<1>4. CASE Close
  <2> USE <1>4 DEF Close
  <2>1. piece = 3 * N + 1
    <3>1. piece > 3 * N
      OBVIOUS
    <3> QED BY <1>0, <3>1
  <2>2. N' = N /\ (\A k : Size(k)' = Size(k)) /\ (\A k : Piece(k)' = Piece(k))
    BY DEF N, Size, Piece, TableEntry, RecordsAt, LookupAt
  <2> QED BY <2>1, <2>2 DEF BinInv, BinTypeOK, Consistent, Chained, Written, At
<1>5. CASE UNCHANGED binVars
  <2> USE <1>5 DEF binVars
  <2>1. N' = N /\ (\A k : Size(k)' = Size(k)) /\ (\A k : Piece(k)' = Piece(k))
    BY DEF N, Size, Piece, TableEntry, RecordsAt, LookupAt
  <2>2. BinTypeOK' /\ (\A i \in 1 .. N : Consistent(types[i]))' /\ Chained'
    BY <2>1 DEF BinInv, BinTypeOK, Consistent, Chained
  <2>3. Written => Written'
    BY <2>1 DEF Written, At
  <2> QED BY <2>1, <2>2, <2>3 DEF BinInv
<1> QED BY <1>1, <1>2, <1>3, <1>4, <1>5 DEF BinNext

LEMMA BinInvPlaces == BinInv => RecordsInPlace
<1> SUFFICES ASSUME BinInv, pass = "closed"
             PROVE  /\ Len(file) = cursor
                    /\ \A i \in 1 .. N :
                         /\ At(RecordsAt(i), types[i].records)
                         /\ At(LookupAt(i), types[i].lookup)
                         /\ LookupAt(i) = 0 <=> types[i].lookups = 0
  BY DEF RecordsInPlace
<1> N \in Nat
  BY DEF BinInv, BinTypeOK, N
<1>1. piece = 3 * N + 1 /\ Len(starts) = 3 * N /\ Written
  BY DEF BinInv
<1>2. Len(file) = cursor
  BY <1>1 DEF Written
<1>3. ASSUME NEW i \in 1 .. N
      PROVE  /\ At(RecordsAt(i), types[i].records)
             /\ At(LookupAt(i), types[i].lookup)
             /\ LookupAt(i) = 0 <=> types[i].lookups = 0
  <2>1. N + i \in 1 .. 3 * N /\ ~(N + i <= N) /\ N + i <= 2 * N /\ N + i - N = i
    OBVIOUS
  <2>2. 2 * N + i \in 1 .. 3 * N /\ ~(2 * N + i <= N) /\ ~(2 * N + i <= 2 * N)
        /\ 2 * N + i - 2 * N = i
    OBVIOUS
  <2>3. types[i] \in Packed /\ Consistent(types[i])
    BY DEF BinInv, BinTypeOK, N
  <2>4. At(RecordsAt(i), types[i].records)
    <3>1. At(starts[N + i], Piece(N + i))
      BY <2>1, <1>1 DEF Written
    <3> QED BY <3>1, <2>1 DEF RecordsAt, Piece
  <2>5. At(starts[2 * N + i], types[i].lookup) /\ starts[2 * N + i] >= 9
    <3>1. At(starts[2 * N + i], Piece(2 * N + i))
      BY <2>2, <1>1 DEF Written
    <3>2. starts[2 * N + i] >= 9
      BY <2>2, <1>1 DEF BinInv, Chained
    <3> QED BY <3>1, <3>2, <2>2 DEF Piece
  <2>6. CASE types[i].lookups = 0
    <3>1. Len(types[i].lookup) = 0
      BY <2>6, <2>3 DEF Consistent
    <3> QED BY <2>4, <2>6, <3>1 DEF At, LookupAt
  <2>7. CASE types[i].lookups # 0
    <3>1. LookupAt(i) = starts[2 * N + i] /\ LookupAt(i) # 0
      BY <2>5, <2>7, <2>2, <1>1 DEF LookupAt, BinInv, BinTypeOK
    <3> QED BY <2>4, <2>5, <2>7, <3>1
  <2> QED BY <2>6, <2>7
<1> QED BY <1>2, <1>3

(* For any types of any size, the offsets that a binary states are those   *)
(* at which its records and lookup tables were written (write_binary).     *)
THEOREM OffsetsAreReal == BinSpec => []RecordsInPlace
<1>1. BinSpec => []BinInv
  BY BinInitInv, BinNextInv, PTL DEF BinSpec
<1> QED BY <1>1, BinInvPlaces, PTL

-----------------------------------------------------------------------------
(* The ordering of composed types, for every set of defines, every         *)
(* composition of them and every request.                                  *)

(* The inductive invariant, in named parts.                                *)
Members(s) == {s[k] : k \in 1 .. Len(s)}

VisitedIsOrder == visited = Members(order)
VisitingIsStack == visiting = Members(stack)
StackDistinct == \A j, k \in 1 .. Len(stack) : stack[j] = stack[k] => j = k
Apart == visited \cap visiting = {}

(* The fields a frame has passed are of visited types.                     *)
PassedVisited ==
  \A t \in Type : \A i \in 1 .. Len(uses[t]) : i < at[t] => uses[t][i] \in visited

(* A frame below the top waits at the field whose type is the frame above. *)
FramesChained ==
  \A k \in 1 .. Len(stack) - 1 :
    /\ at[stack[k]] \in 1 .. Len(uses[stack[k]])
    /\ uses[stack[k]][at[stack[k]]] = stack[k + 1]

(* Nothing outside a closed set that holds the roots is ever entered.      *)
InEveryClosure ==
  \A S \in SUBSET Type :
    Members(roots) \subseteq S /\ Closed(S) => visited \cup visiting \subseteq S

RootsEntered == \A i \in 1 .. next - 1 : roots[i] \in visited \cup visiting

TopoInv ==
  /\ TopoTypeOK
  /\ VisitedIsOrder /\ VisitingIsStack /\ StackDistinct /\ Apart
  /\ PassedVisited /\ FramesChained /\ InEveryClosure /\ RootsEntered
  /\ NestedFirst /\ RaisedOnCycle

-----------------------------------------------------------------------------
LEMMA RangeMembers ==
  ASSUME NEW S, NEW s \in Seq(S)
  PROVE  Range(s) = Members(s)
BY DEF Range, Members

LEMMA MembersAppend ==
  ASSUME NEW S, NEW s \in Seq(S), NEW e \in S
  PROVE  /\ Append(s, e) \in Seq(S)
         /\ Len(Append(s, e)) = Len(s) + 1
         /\ Len(s) \in Nat
         /\ \A k \in 1 .. Len(s) : Append(s, e)[k] = s[k]
         /\ Append(s, e)[Len(s) + 1] = e
         /\ Members(Append(s, e)) = Members(s) \cup {e}
<1>1. /\ Append(s, e) \in Seq(S)
      /\ Len(Append(s, e)) = Len(s) + 1
      /\ Len(s) \in Nat
      /\ \A k \in 1 .. Len(s) : Append(s, e)[k] = s[k]
      /\ Append(s, e)[Len(s) + 1] = e
  OBVIOUS
<1>2. 1 .. Len(s) + 1 = (1 .. Len(s)) \cup {Len(s) + 1}
  BY <1>1
<1>3. Members(Append(s, e)) = Members(s) \cup {e}
  BY <1>1, <1>2 DEF Members
<1> QED
  BY <1>1, <1>3

LEMMA MembersFront ==
  ASSUME NEW S, NEW s \in Seq(S), s # << >>,
         \A j, k \in 1 .. Len(s) : s[j] = s[k] => j = k
  PROVE  /\ Len(s) \in Nat \ {0}
         /\ SubSeq(s, 1, Len(s) - 1) \in Seq(S)
         /\ Len(SubSeq(s, 1, Len(s) - 1)) = Len(s) - 1
         /\ \A k \in 1 .. Len(s) - 1 : SubSeq(s, 1, Len(s) - 1)[k] = s[k]
         /\ Members(SubSeq(s, 1, Len(s) - 1)) = Members(s) \ {s[Len(s)]}
<1>1. Len(s) \in Nat \ {0}
  OBVIOUS
<1>2. /\ SubSeq(s, 1, Len(s) - 1) \in Seq(S)
      /\ Len(SubSeq(s, 1, Len(s) - 1)) = Len(s) - 1
      /\ \A k \in 1 .. Len(s) - 1 : SubSeq(s, 1, Len(s) - 1)[k] = s[k]
  BY FrontFacts
<1>3. Members(SubSeq(s, 1, Len(s) - 1)) = {s[k] : k \in 1 .. Len(s) - 1}
  BY <1>2 DEF Members
<1>4. {s[k] : k \in 1 .. Len(s) - 1} = Members(s) \ {s[Len(s)]}
  BY <1>1 DEF Members
<1> QED
  BY <1>1, <1>2, <1>3, <1>4

-----------------------------------------------------------------------------
LEMMA InitInv == TopoInit => TopoInv
<1> SUFFICES ASSUME TopoInit PROVE TopoInv
  OBVIOUS
<1> USE DEF TopoInit, TopoStart
<1>1. TopoTypeOK
  <2>1. Len(roots) \in Nat /\ next \in 1 .. Len(roots) + 1
    OBVIOUS
  <2>2. << >> \in Seq(Type) /\ at \in [Type -> Nat \ {0}]
    OBVIOUS
  <2> QED
    BY <2>1, <2>2 DEF TopoTypeOK
<1>2. VisitedIsOrder /\ VisitingIsStack /\ StackDistinct /\ Apart
  BY DEF VisitedIsOrder, VisitingIsStack, StackDistinct, Apart, Members
<1>3. PassedVisited /\ FramesChained /\ InEveryClosure /\ RootsEntered
  BY DEF PassedVisited, FramesChained, InEveryClosure, RootsEntered
<1>4. NestedFirst /\ RaisedOnCycle
  BY DEF NestedFirst, RaisedOnCycle
<1> QED
  BY <1>1, <1>2, <1>3, <1>4 DEF TopoInv

-----------------------------------------------------------------------------
(* A new frame, whether for a root or for the type of a field.             *)
LEMMA EnterInv ==
  ASSUME TopoInv, NEW t \in Type, t \notin visited, t \notin visiting, Enter(t),
         UNCHANGED <<uses, roots, visited, at, order, raised>>,
         ~raised, next' \in 1 .. Len(roots) + 1,
         \A i \in 1 .. next' - 1 : roots[i] \in visited \cup visiting \cup {t},
         stack # << >> => /\ at[Frame] \in 1 .. Len(uses[Frame])
                          /\ uses[Frame][at[Frame]] = t,
         \A S \in SUBSET Type : Members(roots) \subseteq S /\ Closed(S) => t \in S
  PROVE  TopoInv'
<1>1. /\ stack' \in Seq(Type) /\ Len(stack') = Len(stack) + 1 /\ Len(stack) \in Nat
      /\ \A k \in 1 .. Len(stack) : stack'[k] = stack[k]
      /\ stack'[Len(stack) + 1] = t
      /\ Members(stack') = Members(stack) \cup {t}
  BY MembersAppend DEF TopoInv, TopoTypeOK, Enter
<1>2. visiting' = visiting \cup {t}
  BY DEF Enter
<1>3. TopoTypeOK'
  BY <1>1, <1>2 DEF TopoInv, TopoTypeOK
<1>4. VisitedIsOrder' /\ VisitingIsStack'
  BY <1>1, <1>2 DEF TopoInv, VisitedIsOrder, VisitingIsStack, Members
<1>5. StackDistinct'
  <2>1. \A k \in 1 .. Len(stack) : stack[k] # t
    BY DEF TopoInv, VisitingIsStack, Members
  <2> QED
    BY <1>1, <2>1 DEF TopoInv, StackDistinct
<1>6. Apart' /\ PassedVisited'
  BY <1>2 DEF TopoInv, Apart, PassedVisited
<1>7. FramesChained'
  <2> SUFFICES ASSUME NEW k \in 1 .. Len(stack') - 1
               PROVE  /\ at[stack'[k]] \in 1 .. Len(uses[stack'[k]])
                      /\ uses[stack'[k]][at[stack'[k]]] = stack'[k + 1]
    BY DEF FramesChained
  <2>1. k \in 1 .. Len(stack)
    BY <1>1
  <2>2. CASE k = Len(stack)
    <3>1. stack # << >> /\ stack'[k] = Frame
      BY <1>1, <2>1, <2>2 DEF Frame
    <3> QED
      BY <1>1, <2>2, <3>1
  <2>3. CASE k # Len(stack)
    <3>1. k \in 1 .. Len(stack) - 1 /\ k + 1 \in 1 .. Len(stack)
      BY <1>1, <2>1, <2>3
    <3> QED
      BY <1>1, <2>1, <3>1 DEF TopoInv, FramesChained
  <2> QED
    BY <2>2, <2>3
<1>8. InEveryClosure'
  <2>1. Members(roots)' = Members(roots) /\ \A S : Closed(S)' <=> Closed(S)
    BY DEF Members, Closed
  <2> SUFFICES ASSUME NEW S \in SUBSET Type, Members(roots) \subseteq S, Closed(S)
               PROVE  (visited \cup visiting \subseteq S)'
    BY <2>1 DEF InEveryClosure
  <2>2. visited \cup visiting \subseteq S /\ t \in S
    BY DEF TopoInv, InEveryClosure
  <2> QED
    BY <1>2, <2>2
<1>9. RootsEntered'
  BY <1>2 DEF RootsEntered
<1>10. NestedFirst' /\ RaisedOnCycle'
  BY DEF TopoInv, NestedFirst, RaisedOnCycle
<1> QED
  BY <1>3, <1>4, <1>5, <1>6, <1>7, <1>8, <1>9, <1>10 DEF TopoInv

LEMMA VisitRootInv == TopoInv /\ VisitRoot => TopoInv'
<1> SUFFICES ASSUME TopoInv, VisitRoot PROVE TopoInv'
  OBVIOUS
<1> DEFINE t == roots[next]
<1>1. t \in Type /\ t \in Members(roots) /\ next \in 1 .. Len(roots) /\ Len(roots) \in Nat
  BY DEF TopoInv, TopoTypeOK, VisitRoot, Members
<1>2. visiting = {}
  BY DEF TopoInv, VisitingIsStack, Members, VisitRoot
<1>3. next' \in 1 .. Len(roots) + 1
  BY <1>1 DEF VisitRoot
<1>4. \A i \in 1 .. next' - 1 : roots[i] \in visited \cup visiting \cup {t}
  BY <1>1 DEF VisitRoot, TopoInv, RootsEntered
<1>5. t \notin visited /\ t \notin visiting /\ Enter(t) /\ ~raised /\ stack = << >>
      /\ UNCHANGED <<uses, roots, visited, at, order, raised>>
  BY <1>2 DEF VisitRoot
<1>6. \A S \in SUBSET Type : Members(roots) \subseteq S /\ Closed(S) => t \in S
  BY <1>1
<1> HIDE DEF t
<1> QED
  BY <1>1, <1>3, <1>4, <1>5, <1>6, EnterInv

LEMMA FrameFacts ==
  ASSUME TopoInv, AtField
  PROVE  /\ Frame \in Type /\ Frame \in visiting
         /\ Len(stack) \in Nat \ {0} /\ Len(uses[Frame]) \in Nat
         /\ at[Frame] \in 1 .. Len(uses[Frame])
         /\ FieldType \in Type
         /\ FieldType \in Range(uses[Frame])
<1>1. Len(stack) \in Nat \ {0} /\ Frame \in Type /\ Frame \in visiting
  BY DEF TopoInv, TopoTypeOK, AtField, Frame, VisitingIsStack, Members
<1>2. uses[Frame] \in Seq(Type) /\ at[Frame] \in Nat \ {0}
  BY <1>1 DEF TopoInv, TopoTypeOK
<1>3. at[Frame] \in 1 .. Len(uses[Frame])
  BY <1>2 DEF AtField
<1>4. FieldType \in Members(uses[Frame])
  BY <1>3 DEF FieldType, Members
<1> QED
  BY <1>1, <1>2, <1>3, <1>4, RangeMembers DEF FieldType

LEMMA DescendInv == TopoInv /\ Descend => TopoInv'
<1> SUFFICES ASSUME TopoInv, Descend PROVE TopoInv'
  OBVIOUS
<1> DEFINE t == FieldType
<1>1. AtField
  BY DEF Descend
<1>2. /\ t \in Type /\ Frame \in visiting /\ t \in Range(uses[Frame])
      /\ at[Frame] \in 1 .. Len(uses[Frame]) /\ uses[Frame][at[Frame]] = t
  BY <1>1, FrameFacts DEF FieldType
<1>3. \A S \in SUBSET Type : Members(roots) \subseteq S /\ Closed(S) => t \in S
  BY <1>2 DEF TopoInv, InEveryClosure, Closed
<1>4. /\ next' \in 1 .. Len(roots) + 1
      /\ \A i \in 1 .. next' - 1 : roots[i] \in visited \cup visiting \cup {t}
  BY DEF Descend, TopoInv, TopoTypeOK, RootsEntered
<1>5. t \notin visited /\ t \notin visiting /\ Enter(t) /\ ~raised
      /\ UNCHANGED <<uses, roots, visited, at, order, raised>>
  BY DEF Descend, AtField
<1> HIDE DEF t
<1> QED
  BY <1>2, <1>3, <1>4, <1>5, EnterInv

LEMMA SkipRootInv == TopoInv /\ SkipRoot => TopoInv'
<1> SUFFICES ASSUME TopoInv, SkipRoot PROVE TopoInv'
  OBVIOUS
<1> USE DEF TopoInv, SkipRoot
<1>1. TopoTypeOK'
  BY DEF TopoTypeOK
<1>2. VisitedIsOrder' /\ VisitingIsStack' /\ StackDistinct' /\ Apart'
  BY DEF VisitedIsOrder, VisitingIsStack, StackDistinct, Apart, Members
<1>3. PassedVisited' /\ FramesChained'
  BY DEF PassedVisited, FramesChained
<1>4. InEveryClosure'
  BY DEF InEveryClosure, Members, Closed
<1>5. RootsEntered'
  BY DEF RootsEntered, TopoTypeOK
<1>6. NestedFirst' /\ RaisedOnCycle'
  BY DEF NestedFirst, RaisedOnCycle
<1> QED
  BY <1>1, <1>2, <1>3, <1>4, <1>5, <1>6

LEMMA MeetVisitedInv == TopoInv /\ MeetVisited => TopoInv'
<1> SUFFICES ASSUME TopoInv, MeetVisited PROVE TopoInv'
  OBVIOUS
<1>1. /\ Frame \in Type /\ Len(stack) \in Nat \ {0}
      /\ at[Frame] \in 1 .. Len(uses[Frame]) /\ FieldType \in visited
  BY FrameFacts DEF MeetVisited
<1>2. at' = [at EXCEPT ![Frame] = at[Frame] + 1]
      /\ UNCHANGED <<uses, roots, visited, visiting, stack, next, order, raised>>
  BY DEF MeetVisited
<1>3. TopoTypeOK'
  <2>1. at \in [Type -> Nat \ {0}] /\ at[Frame] + 1 \in Nat \ {0}
    BY <1>1 DEF TopoInv, TopoTypeOK
  <2>2. at' \in [Type -> Nat \ {0}]
    BY <1>1, <1>2, <2>1
  <2> QED
    BY <1>2, <2>2 DEF TopoInv, TopoTypeOK
<1>4. VisitedIsOrder' /\ VisitingIsStack' /\ StackDistinct' /\ Apart' /\ RootsEntered'
  BY <1>2 DEF TopoInv, VisitedIsOrder, VisitingIsStack, StackDistinct, Apart,
              Members, RootsEntered
<1>5. PassedVisited'
  <2> SUFFICES ASSUME NEW t \in Type, NEW i \in 1 .. Len(uses[t]), i < at'[t]
               PROVE  uses[t][i] \in visited
    BY <1>2 DEF PassedVisited
  <2>1. at \in [Type -> Nat \ {0}]
    BY DEF TopoInv, TopoTypeOK
  <2>2. CASE t = Frame /\ i = at[Frame]
    BY <1>1, <2>2 DEF FieldType
  <2>3. CASE ~(t = Frame /\ i = at[Frame])
    <3>1. i < at[t]
      BY <1>1, <1>2, <2>1, <2>3
    <3> QED
      BY <3>1 DEF TopoInv, PassedVisited
  <2> QED
    BY <2>2, <2>3
<1>6. FramesChained'
  <2> SUFFICES ASSUME NEW k \in 1 .. Len(stack) - 1
               PROVE  at'[stack[k]] = at[stack[k]]
    BY <1>2 DEF TopoInv, FramesChained
  <2>1. k \in 1 .. Len(stack) /\ Len(stack) \in 1 .. Len(stack) /\ k # Len(stack)
    BY <1>1
  <2>2. stack[k] # Frame
    BY <2>1 DEF TopoInv, StackDistinct, Frame
  <2> QED
    BY <1>2, <2>1, <2>2 DEF TopoInv, TopoTypeOK
<1>7. InEveryClosure'
  BY <1>2 DEF TopoInv, InEveryClosure, Members, Closed
<1>8. NestedFirst' /\ RaisedOnCycle'
  BY <1>2 DEF TopoInv, NestedFirst, RaisedOnCycle
<1> QED
  BY <1>3, <1>4, <1>5, <1>6, <1>7, <1>8 DEF TopoInv

(* The types being visited contain each other: each waits for the next, and *)
(* the last for one of them.                                                *)
LEMMA CircularInv == TopoInv /\ Circular => TopoInv'
<1> SUFFICES ASSUME TopoInv, Circular PROVE TopoInv'
  OBVIOUS
<1>1. /\ Frame \in visiting /\ FieldType \in Range(uses[Frame])
      /\ FieldType \in visiting /\ Len(stack) \in Nat \ {0}
      /\ UNCHANGED <<uses, roots, visited, visiting, stack, at, next, order>>
      /\ raised' = TRUE
  BY FrameFacts DEF Circular
<1>2. \A t \in visiting : Range(uses[t]) \cap visiting # {}
  <2> TAKE t \in visiting
  <2>1. PICK k \in 1 .. Len(stack) : t = stack[k]
    BY DEF TopoInv, VisitingIsStack, Members
  <2>2. CASE k = Len(stack)
    BY <1>1, <2>1, <2>2 DEF Frame
  <2>3. CASE k # Len(stack)
    <3>1. k \in 1 .. Len(stack) - 1 /\ k + 1 \in 1 .. Len(stack)
      BY <1>1, <2>1, <2>3
    <3>2. uses[t] \in Seq(Type) /\ stack[k + 1] \in Members(uses[t])
      BY <2>1, <3>1 DEF TopoInv, FramesChained, TopoTypeOK, Members
    <3>3. stack[k + 1] \in visiting
      BY <3>1 DEF TopoInv, VisitingIsStack, Members
    <3> QED
      BY <3>2, <3>3, RangeMembers
  <2> QED
    BY <2>2, <2>3
<1>3. RaisedOnCycle'
  <2>1. visiting \in SUBSET Type /\ visiting # {}
    BY <1>1 DEF TopoInv, TopoTypeOK
  <2> QED
    BY <1>1, <1>2, <2>1 DEF RaisedOnCycle
<1>4. TopoTypeOK'
  BY <1>1 DEF TopoInv, TopoTypeOK
<1>5. VisitedIsOrder' /\ VisitingIsStack' /\ StackDistinct' /\ Apart' /\ RootsEntered'
  BY <1>1 DEF TopoInv, VisitedIsOrder, VisitingIsStack, StackDistinct, Apart,
              Members, RootsEntered
<1>6. PassedVisited' /\ FramesChained' /\ NestedFirst'
  BY <1>1 DEF TopoInv, PassedVisited, FramesChained, NestedFirst
<1>7. InEveryClosure'
  BY <1>1 DEF TopoInv, InEveryClosure, Members, Closed
<1> QED
  BY <1>3, <1>4, <1>5, <1>6, <1>7 DEF TopoInv

LEMMA LeaveInv == TopoInv /\ Leave => TopoInv'
<1> SUFFICES ASSUME TopoInv, Leave PROVE TopoInv'
  OBVIOUS
<1>1. /\ Len(stack) \in Nat \ {0}
      /\ stack' \in Seq(Type) /\ Len(stack') = Len(stack) - 1
      /\ \A k \in 1 .. Len(stack) - 1 : stack'[k] = stack[k]
      /\ Members(stack') = Members(stack) \ {Frame}
  BY MembersFront DEF TopoInv, TopoTypeOK, StackDistinct, Leave, Frame
<1>2. Frame \in Type /\ Frame \in visiting /\ Frame \notin visited
  BY <1>1 DEF TopoInv, TopoTypeOK, VisitingIsStack, Members, Apart, Frame
<1>3. /\ order' \in Seq(Type) /\ Len(order') = Len(order) + 1 /\ Len(order) \in Nat
      /\ \A k \in 1 .. Len(order) : order'[k] = order[k]
      /\ order'[Len(order) + 1] = Frame
      /\ Members(order') = Members(order) \cup {Frame}
  BY <1>2, MembersAppend DEF TopoInv, TopoTypeOK, Leave
<1>4. /\ visiting' = visiting \ {Frame} /\ visited' = visited \cup {Frame}
      /\ UNCHANGED <<uses, roots, at, next, raised>>
      /\ ~raised /\ at[Frame] > Len(uses[Frame])
  BY DEF Leave
<1>5. TopoTypeOK'
  BY <1>1, <1>2, <1>3, <1>4 DEF TopoInv, TopoTypeOK
<1>6. VisitedIsOrder' /\ VisitingIsStack' /\ Apart' /\ RootsEntered'
  <2>1. VisitedIsOrder' /\ VisitingIsStack'
    BY <1>1, <1>3, <1>4 DEF TopoInv, VisitedIsOrder, VisitingIsStack, Members
  <2>2. Apart' /\ RootsEntered'
    BY <1>4 DEF TopoInv, Apart, RootsEntered
  <2> QED
    BY <2>1, <2>2
<1>7. StackDistinct' /\ FramesChained'
  BY <1>1, <1>4 DEF TopoInv, StackDistinct, FramesChained
<1>8. PassedVisited'
  BY <1>4 DEF TopoInv, PassedVisited
<1>9. InEveryClosure'
  <2>1. visited' \cup visiting' = visited \cup visiting
    BY <1>2, <1>4
  <2> QED
    BY <1>4, <2>1 DEF TopoInv, InEveryClosure, Members, Closed
<1>10. NestedFirst'
  <2> SUFFICES ASSUME NEW k \in 1 .. Len(order')
               PROVE  /\ \A u \in Range(uses[order'[k]]) :
                           \E j \in 1 .. k - 1 : order'[j] = u
                      /\ \A j \in 1 .. k - 1 : order'[j] # order'[k]
    BY <1>4 DEF NestedFirst
  <2>1. CASE k \in 1 .. Len(order)
    <3>1. order'[k] = order[k]
          /\ \A j \in 1 .. k - 1 : j \in 1 .. Len(order) /\ order'[j] = order[j]
      BY <1>3, <2>1
    <3>2. /\ \A u \in Range(uses[order[k]]) : \E j \in 1 .. k - 1 : order[j] = u
          /\ \A j \in 1 .. k - 1 : order[j] # order[k]
      BY <2>1 DEF TopoInv, NestedFirst
    <3>3. \A j \in 1 .. k - 1 : order'[j] # order'[k]
      BY <3>1, <3>2
    <3> QED
      BY <3>1, <3>2, <3>3
  <2>2. CASE k = Len(order) + 1
    <3>1. uses[Frame] \in Seq(Type) /\ at[Frame] \in Nat
      BY <1>2 DEF TopoInv, TopoTypeOK
    <3>2. Members(uses[Frame]) \subseteq visited
      BY <1>2, <1>4, <3>1 DEF TopoInv, PassedVisited, Members
    <3>3. \A u \in Range(uses[Frame]) : \E j \in 1 .. Len(order) : order[j] = u
      BY <3>1, <3>2, RangeMembers DEF TopoInv, VisitedIsOrder, Members
    <3>4. \A j \in 1 .. Len(order) : order[j] # Frame
      BY <1>2 DEF TopoInv, VisitedIsOrder, Members
    <3>5. \A j \in 1 .. k - 1 : j \in 1 .. Len(order) /\ order'[j] = order[j]
      BY <1>3, <2>2
    <3> QED
      BY <1>3, <2>2, <3>3, <3>4, <3>5
  <2> QED
    BY <1>3, <2>1, <2>2
<1>11. RaisedOnCycle'
  BY <1>4 DEF RaisedOnCycle
<1> QED
  BY <1>5, <1>6, <1>7, <1>8, <1>9, <1>10, <1>11 DEF TopoInv

LEMMA StutterInv == TopoInv /\ UNCHANGED topoVars => TopoInv'
<1> SUFFICES ASSUME TopoInv, UNCHANGED topoVars PROVE TopoInv'
  OBVIOUS
<1> USE DEF TopoInv, topoVars
<1>1. TopoTypeOK' /\ VisitedIsOrder' /\ VisitingIsStack' /\ StackDistinct' /\ Apart'
  BY DEF TopoTypeOK, VisitedIsOrder, VisitingIsStack, StackDistinct, Apart, Members
<1>2. PassedVisited' /\ FramesChained' /\ RootsEntered' /\ NestedFirst' /\ RaisedOnCycle'
  BY DEF PassedVisited, FramesChained, RootsEntered, NestedFirst, RaisedOnCycle
<1>3. InEveryClosure'
  BY DEF InEveryClosure, Members, Closed
<1> QED
  BY <1>1, <1>2, <1>3

LEMMA NextInv == TopoInv /\ [TopoNext]_topoVars => TopoInv'
BY VisitRootInv, SkipRootInv, MeetVisitedInv, CircularInv, DescendInv, LeaveInv,
   StutterInv DEF TopoNext

(* The invariant holds in every state of the search.                       *)
THEOREM TopoInductive == TopoSpec => []TopoInv
<1>1. TopoInit => TopoInv
  BY InitInv
<1>2. TopoInv /\ [TopoNext]_topoVars => TopoInv'
  BY NextInv
<1> QED
  BY <1>1, <1>2, PTL DEF TopoSpec

-----------------------------------------------------------------------------
(* Every type is emitted once and after the types it is composed of, for   *)
(* every composition of any number of types.                               *)
THEOREM OrderIsSound == TopoSpec => []NestedFirst
<1>1. TopoInv => NestedFirst
  BY DEF TopoInv
<1> QED
  BY <1>1, TopoInductive, PTL

(* The search raises only when some types contain each other.              *)
THEOREM RaiseIsSound == TopoSpec => []RaisedOnCycle
<1>1. TopoInv => RaisedOnCycle
  BY DEF TopoInv
<1> QED
  BY <1>1, TopoInductive, PTL

(* A search that ends has emitted the least set of types that holds the    *)
(* request and what its members are composed of.                           *)
THEOREM RequestIsExact == TopoSpec => []ExactlyNeeded
<1>1. TopoInv => ExactlyNeeded
  <2> SUFFICES ASSUME TopoInv, Ordered PROVE
        /\ Range(roots) \subseteq Range(order)
        /\ Closed(Range(order))
        /\ \A S \in SUBSET Type :
             Range(roots) \subseteq S /\ Closed(S) => Range(order) \subseteq S
    BY DEF ExactlyNeeded
  <2>1. Range(roots) = Members(roots) /\ Range(order) = visited
    BY RangeMembers DEF TopoInv, TopoTypeOK, VisitedIsOrder
  <2>2. visiting = {}
    BY DEF TopoInv, VisitingIsStack, Members, Ordered
  <2>3. Members(roots) \subseteq visited
    <3>1. \A i \in 1 .. Len(roots) : i \in 1 .. next - 1
      BY DEF TopoInv, TopoTypeOK, Ordered
    <3> QED
      BY <2>2, <3>1 DEF TopoInv, RootsEntered, Members
  <2>4. Closed(visited)
    <3> SUFFICES ASSUME NEW t \in visited, NEW u \in Range(uses[t])
                 PROVE  u \in visited
      BY DEF Closed
    <3>1. PICK k \in 1 .. Len(order) : t = order[k]
      BY DEF TopoInv, VisitedIsOrder, Members
    <3>2. PICK j \in 1 .. k - 1 : order[j] = u
      BY <3>1 DEF TopoInv, NestedFirst
    <3>3. j \in 1 .. Len(order)
      BY <3>1, <3>2 DEF TopoInv, TopoTypeOK
    <3> QED
      BY <3>2, <3>3 DEF TopoInv, VisitedIsOrder, Members
  <2> QED
    BY <2>1, <2>2, <2>3, <2>4 DEF TopoInv, InEveryClosure
<1> QED
  BY <1>1, TopoInductive, PTL
=============================================================================
