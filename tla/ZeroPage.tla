------------------------------ MODULE ZeroPage ------------------------------
(***************************************************************************)
(* The zero-page pointers of a 6502 export: allocate_zero_page hands out   *)
(* two bytes to every consumer, first to the registries of the types, then *)
(* to the dispatch routines of the domains, from the base that the user    *)
(* gives.  The address counter is not bounded while blocks are handed out; *)
(* one test at the end refuses the whole export.                           *)
(***************************************************************************)
EXTENDS Integers, Sequences

CONSTANT Consumer           \* the names of types and of domains

VARIABLES request,          \* what is exported, and the base: << >> if missing
          stage,            \* validate, registry, dispatch, room, granted, refused
          turn,             \* the consumer of this stage that is next
          addr,             \* the next free address
          blocks            \* the blocks handed out: [owner, base]

zpVars == <<request, stage, turn, addr, blocks>>

Request ==
  [base : {<< >>} \cup {<<b>> : b \in Int},
   types : Seq(Consumer),
   domains : Seq([name : Consumer, kind : {"identifier", "flags"}]),
   layout : {"aos", "soa"}]

Block == [owner : Consumer, base : Int]

ZpTypeOK ==
  /\ request \in Request
  /\ stage \in {"validate", "registry", "dispatch", "room", "granted", "refused"}
  /\ turn \in Nat \ {0}
  /\ addr \in Int
  /\ blocks \in Seq(Block)

ZpStart == stage = "validate" /\ turn = 1 /\ addr = 0 /\ blocks = << >>

ZpInit == request \in Request /\ ZpStart

ValidBase == request.base # << >> /\ 0 <= request.base[1] /\ request.base[1] <= 255

Validate ==
  /\ stage = "validate"
  /\ ValidBase
  /\ stage' = "registry"
  /\ addr' = request.base[1]
  /\ UNCHANGED <<request, turn, blocks>>

RejectBase ==
  /\ stage = "validate"
  /\ ~ValidBase
  /\ stage' = "refused"
  /\ UNCHANGED <<request, turn, addr, blocks>>

(* Mutant of Hand: a pointer is taken to be one byte. *)
HandOneByte(consumer) ==
  /\ blocks' = Append(blocks, [owner |-> consumer, base |-> addr])
  /\ addr' = addr + 1
  /\ turn' = turn + 1
  /\ UNCHANGED <<request, stage>>

Hand(consumer) ==
  /\ blocks' = Append(blocks, [owner |-> consumer, base |-> addr])
  /\ addr' = addr + 2
  /\ turn' = turn + 1
  /\ UNCHANGED <<request, stage>>

(* Only under aos has a type a registry, and so a pointer. *)
RegistryBlock ==
  /\ stage = "registry"
  /\ request.layout = "aos"
  /\ turn <= Len(request.types)
  /\ Hand(request.types[turn])

RegistriesDone ==
  /\ stage = "registry"
  /\ request.layout = "aos" => turn > Len(request.types)
  /\ stage' = "dispatch" /\ turn' = 1
  /\ UNCHANGED <<request, addr, blocks>>

DispatchBlock ==
  /\ stage = "dispatch"
  /\ turn <= Len(request.domains)
  /\ request.domains[turn].kind = "identifier"
  /\ Hand(request.domains[turn].name)

(* Nothing is dispatched on a flags domain, which gets no pointer. *)
SkipFlags ==
  /\ stage = "dispatch"
  /\ turn <= Len(request.domains)
  /\ request.domains[turn].kind = "flags"
  /\ turn' = turn + 1
  /\ UNCHANGED <<request, stage, addr, blocks>>

DispatchesDone ==
  /\ stage = "dispatch"
  /\ turn > Len(request.domains)
  /\ stage' = "room"
  /\ UNCHANGED <<request, turn, addr, blocks>>

Room == addr - 1 <= 255

Grant ==
  /\ stage = "room"
  /\ Room
  /\ stage' = "granted"
  /\ UNCHANGED <<request, turn, addr, blocks>>

RejectNeed ==
  /\ stage = "room"
  /\ ~Room
  /\ stage' = "refused"
  /\ UNCHANGED <<request, turn, addr, blocks>>

ZpNext == \/ Validate \/ RejectBase \/ RegistryBlock \/ RegistriesDone
          \/ DispatchBlock \/ SkipFlags \/ DispatchesDone \/ Grant \/ RejectNeed

ZpSpec == ZpInit /\ [][ZpNext]_zpVars

-----------------------------------------------------------------------------
Bytes(block) == {block.base, block.base + 1}

(* The pointers of an accepted export lie in the zero page, at or above    *)
(* the base, and no two of them share a byte: a handler may look up or     *)
(* dispatch while another pointer is in use.  An export with a valid base  *)
(* is refused only when its pointers would not fit above that base.        *)
ZeroPageSafe ==
  /\ stage = "granted" =>
       /\ \A k \in 1 .. Len(blocks) : Bytes(blocks[k]) \subseteq request.base[1] .. 255
       /\ \A j, k \in 1 .. Len(blocks) :
            j # k => Bytes(blocks[j]) \cap Bytes(blocks[k]) = {}
  /\ stage = "refused" /\ ValidBase =>
       request.base[1] + 2 * Len(blocks) > 256
=============================================================================
