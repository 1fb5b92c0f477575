---------------------------- MODULE RegisterNames ----------------------------
(***************************************************************************)
(* Phase 4's registration loop, Registry.__init__: the declarations of the *)
(* program in order, the first of each name winning in the table of its    *)
(* kind, the entries of a block the same way, the permanent ID of every    *)
(* identifier entry and of every instance, and the one table that is meant *)
(* to catch two of them sharing an ID.  FNV-1a is any function from        *)
(* qualified names ("Namespace::text") to IDs; TLC is given some that      *)
(* collide.  The bits of a flags domain are FlagsBits.                     *)
(***************************************************************************)
EXTENDS Naturals, Sequences, FiniteSets, Functions

CONSTANTS Namespace,  \* names of blocks and types
          Text,       \* keys, descriptions, field and instance names
          Id,
          Hashes,     \* hash functions to consider
          Program     \* programs to consider

Kind == {"identifier", "flags", "define", "instance"}

(* logical_id hashes the namespace and the text, as written. *)
Qualified == Namespace \X Text

(* A declaration: an instance has its type in .type and no entries; only   *)
(* an identifier block may have a .capacity, what its width can address.   *)
NoCapacity == 0
EntryOf == [key : Text, text : Text]
Decl == [kind : Kind \ {"instance"}, name : Namespace,
         entries : Seq(EntryOf), capacity : Nat]
          \cup [kind : {"instance"}, type : Namespace, name : Text]

ASSUME RegisterAssumption ==
  /\ Hashes \subseteq [Qualified -> Id]
  /\ Program \subseteq Seq(Decl)

VARIABLES program, hash,
          decl,      \* the declaration the loop is at
          entry,     \* the entry of its block, 0 outside a block
          declared,  \* declared[k]: <<name, position>> of the first ones
          seen,      \* seen_keys of the block
          ids,       \* logical_ids and instance_ids: <<identity, id>>
          table,     \* _id_table: <<id, identity, qualified name>>
          duplicateErrors  \* duplicate_errors: <<declaration, entry, check>>

registerVars == <<program, hash, decl, entry, declared, seen, ids, table, duplicateErrors>>

RegisterInit ==
  /\ program \in Program
  /\ hash \in Hashes
  /\ decl = 1
  /\ entry = 0
  /\ declared = [k \in Kind |-> {}]
  /\ seen = {}
  /\ ids = {}
  /\ table = {}
  /\ duplicateErrors = {}

Declaration == program[decl]
AtDecl(kinds) == decl <= Len(program) /\ entry = 0 /\ Declaration.kind \in kinds

IsDeclared == \E d \in declared[Declaration.kind] : d[1] = Declaration.name

Declare ==
  declared' = [declared EXCEPT ![Declaration.kind] = @ \cup {<<Declaration.name, decl>>}]

DuplicateDecl ==
  /\ AtDecl(Kind)
  /\ IsDeclared
  /\ duplicateErrors' = duplicateErrors \cup {<<decl, 0, "duplicate_name">>}
  /\ decl' = decl + 1
  /\ UNCHANGED <<program, hash, entry, declared, seen, ids, table>>

(* Mutant of RegisterId: the text stands in for its hash. *)
RegisterIdByText(identity, qualified) ==
  LET id == hash[qualified]
      held == {t \in table : t[3][2] = qualified[2]}
      clash == \E t \in held : t[2] # identity
  IN  /\ table' = IF clash THEN table
                  ELSE (table \ held) \cup {<<id, identity, qualified>>}
      /\ duplicateErrors' =
           IF clash THEN duplicateErrors \cup {<<decl, entry, "id_collision">>}
           ELSE duplicateErrors
      /\ ids' = ids \cup {<<identity, id>>}

(* _check_id_collision, with the ID stored whatever the check found: the   *)
(* table's entry is set unless another identity holds the ID already.      *)
RegisterId(identity, qualified) ==
  LET id == hash[qualified]
      held == {t \in table : t[1] = id}
      clash == \E t \in held : t[2] # identity
  IN  /\ table' = IF clash THEN table
                  ELSE (table \ held) \cup {<<id, identity, qualified>>}
      /\ duplicateErrors' =
           IF clash THEN duplicateErrors \cup {<<decl, entry, "id_collision">>}
           ELSE duplicateErrors
      /\ ids' = ids \cup {<<identity, id>>}

DeclareInstance ==
  /\ AtDecl({"instance"})
  /\ ~IsDeclared
  /\ Declare
  /\ LET name == <<Declaration.type, Declaration.name>> IN RegisterId(name, name)
  /\ decl' = decl + 1
  /\ UNCHANGED <<program, hash, entry, seen>>

OpenBlock ==
  /\ AtDecl(Kind \ {"instance"})
  /\ ~IsDeclared
  /\ Declare
  /\ entry' = 1
  /\ seen' = {}
  /\ UNCHANGED <<program, hash, decl, ids, table, duplicateErrors>>

AtEntry == entry > 0 /\ entry <= Len(Declaration.entries)
DeclEntry == Declaration.entries[entry]

DuplicateEntry ==
  /\ AtEntry
  /\ DeclEntry.key \in seen
  /\ duplicateErrors' = duplicateErrors \cup {<<decl, entry, "duplicate_name">>}
  /\ entry' = entry + 1
  /\ UNCHANGED <<program, hash, decl, declared, seen, ids, table>>

(* Only an identifier entry has an ID, made from its description. *)
KeepEntry ==
  /\ AtEntry
  /\ DeclEntry.key \notin seen
  /\ seen' = seen \cup {DeclEntry.key}
  /\ IF Declaration.kind = "identifier"
     THEN RegisterId(<<Declaration.name, DeclEntry.key>>,
                     <<Declaration.name, DeclEntry.text>>)
     ELSE UNCHANGED <<ids, table, duplicateErrors>>
  /\ entry' = entry + 1
  /\ UNCHANGED <<program, hash, decl, declared>>

(* Mutant of CloseBlock: a block that just fits is refused. *)
CloseBlockAtCapacity ==
  /\ entry > 0 /\ entry > Len(Declaration.entries)
  /\ duplicateErrors' =
       IF /\ Declaration.kind = "identifier" /\ Declaration.capacity # NoCapacity
          /\ Cardinality(seen) >= Declaration.capacity
       THEN duplicateErrors \cup {<<decl, 0, "indexed_width_overflow">>} ELSE duplicateErrors
  /\ decl' = decl + 1
  /\ entry' = 0
  /\ UNCHANGED <<program, hash, declared, seen, ids, table>>

CloseBlock ==
  /\ entry > 0 /\ entry > Len(Declaration.entries)
  /\ duplicateErrors' =
       IF /\ Declaration.kind = "identifier" /\ Declaration.capacity # NoCapacity
          /\ Cardinality(seen) > Declaration.capacity
       THEN duplicateErrors \cup {<<decl, 0, "indexed_width_overflow">>} ELSE duplicateErrors
  /\ decl' = decl + 1
  /\ entry' = 0
  /\ UNCHANGED <<program, hash, declared, seen, ids, table>>

Registered == decl > Len(program)
RegisterFinished == Registered /\ UNCHANGED registerVars

RegisterNext ==
  \/ DuplicateDecl \/ DeclareInstance \/ OpenBlock
  \/ DuplicateEntry \/ KeepEntry \/ CloseBlock \/ RegisterFinished

RegisterSpec == RegisterInit /\ [][RegisterNext]_registerVars

-----------------------------------------------------------------------------
(* What a program gives an ID: its identifier entries and its instances,   *)
(* each with the qualified name its ID is the hash of.                     *)
Entries(p) == DOMAIN program[p].entries
Identified ==
  {[what |-> <<p, 0>>, name |-> <<program[p].type, program[p].name>>] :
     p \in {q \in DOMAIN program : program[q].kind = "instance"}}
  \cup
  UNION {{[what |-> <<p, e>>,
           name |-> <<program[p].name, program[p].entries[e].text>>] :
            e \in Entries(p)} :
         p \in {q \in DOMAIN program : program[q].kind = "identifier"}}

Clean == Registered /\ duplicateErrors = {}

(* Every error of the registration is a true one.  A collision is of two    *)
(* different things whose IDs are equal, never of one entry met twice; a   *)
(* duplicate repeats the name of an earlier declaration of its kind, or the *)
(* key of an earlier entry of its block; and a domain is past its width    *)
(* only if its distinct keys, at the capacity they still fit, are more     *)
(* than the width can address.                                             *)
ErrorIsReal ==
  \A err \in duplicateErrors :
    LET p == err[1]
        e == err[2]
    IN  /\ err[3] = "id_collision" =>
             \E x, y \in Identified : /\ x.what = <<p, e>>
                                      /\ y.what # x.what
                                      /\ hash[x.name] = hash[y.name]
        /\ err[3] = "duplicate_name" =>
             IF e = 0
             THEN \E q \in DOMAIN program : /\ q < p
                                            /\ program[q].kind = program[p].kind
                                            /\ program[q].name = program[p].name
             ELSE \E f \in Entries(p) : /\ f < e
                                        /\ program[p].entries[f].key = program[p].entries[e].key
        /\ err[3] = "indexed_width_overflow" =>
             Cardinality({program[p].entries[f].key : f \in Entries(p)}) > program[p].capacity

(* A program registered without an error has no two declarations of one    *)
(* kind and name, no two entries of one block with one key, no indexed     *)
(* domain with more entries than its width can address, and no two entries *)
(* or instances with the same ID: "every logical/stable ID must be unique  *)
(* across the shared 64-bit space".                                        *)
CleanIsUnambiguous ==
  Clean =>
    /\ \A x, y \in Identified :
         hash[x.name] = hash[y.name] => x.what = y.what
    /\ \A p, q \in DOMAIN program :
         program[p].kind = program[q].kind /\ program[p].name = program[q].name
           => p = q
    /\ \A p \in DOMAIN program : program[p].kind # "instance" =>
         /\ \A e, f \in Entries(p) :
              program[p].entries[e].key = program[p].entries[f].key => e = f
         /\ program[p].kind = "identifier" /\ program[p].capacity # NoCapacity
              => Len(program[p].entries) <= program[p].capacity
=============================================================================
