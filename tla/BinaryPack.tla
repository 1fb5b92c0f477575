---------------------------- MODULE BinaryPack ------------------------------
(***************************************************************************)
(* What the binary exporter gathers for its writer (BinaryFile): records   *)
(* packed leaf by leaf and lookup rows sorted by stable ID, and the fields *)
(* of the manifest.  Integers are written with the lowest byte first.      *)
(***************************************************************************)
EXTENDS Schema, BinaryFile

CONSTANT SchemaHash(_)      \* fnv1a_64 of the canonical string of some leaves

RECURSIVE Pack(_, _)
Pack(v, type) ==
  CASE type.kind \in {"int", "float", "flags"} -> Word(v, BinaryWidth(type))
    [] type.kind = "string" -> v \o [k \in 1 .. type.size - Len(v) |-> 0]
    [] type.kind = "ident" -> Word(LogicalId(v), 8)
    [] type.kind = "indexed" -> Word(DenseIndex(v), BinaryWidth(type))
    [] type.kind = "array" ->
         LET cells == RowMajor(v, type.dims) IN
         FlattenSeq([k \in DOMAIN cells |-> Pack(cells[k], type.elem)])

PackRecord(v, t) ==
  LET flat == FlatValue(v, t) IN
  FlattenSeq([k \in DOMAIN flat |-> Pack(flat[k], LeafTypes(t)[k])])

ById(rows) == SortSeq(rows, LAMBDA a, b : a.id < b.id)

(* Mutant of LookupRows: a row holds its own position once it is sorted. *)
LookupRowsRanked(t) ==
  LET rows == ById([k \in DOMAIN Instances(t) |-> [id |-> Instances(t)[k].id]]) IN
  [k \in DOMAIN rows |-> [id |-> rows[k].id, index |-> k - 1]]

LookupRows(t) ==
  ById([k \in DOMAIN Instances(t) |-> [id |-> Instances(t)[k].id, index |-> k - 1]])

(* Types come in the order, and as often, as they are asked for.           *)
GatherBinary ==
  [k \in DOMAIN job.requested |->
     LET t == job.requested[k] IN
     [name |-> job.nameBytes[t],
      hash |-> SchemaHash(Leaves(t, "")),
      size |-> RecordSize(t),
      count |-> Len(Instances(t)),
      records |-> FlattenSeq([i \in DOMAIN Instances(t) |->
                                PackRecord(Instances(t)[i].value, t)]),
      lookups |-> Len(Instances(t)),
      lookup |-> FlattenSeq([i \in DOMAIN LookupRows(t) |->
                               Word(LookupRows(t)[i].id, 8)
                                 \o Word(LookupRows(t)[i].index, 4)])]]

(* The fields of the manifest: a leaf begins where those before it end.    *)
ManifestFields(t) ==
  [k \in DOMAIN LeafTypes(t) |->
     [offset |-> Sum([j \in 1 .. k - 1 |-> BinaryWidth(LeafTypes(t)[j])]),
      width |-> BinaryWidth(LeafTypes(t)[k])]]

-----------------------------------------------------------------------------
(* A reader that knows the format, the schema and nothing of the writer.   *)
RECURSIVE Number(_, _)
Number(offset, w) ==
  IF w = 0 THEN 0 ELSE file[offset + 1] + 256 * Number(offset + 1, w - 1)

Text(offset, size) ==
  LET bytes == SubSeq(file, offset + 1, offset + size)
      nul == SelectInSeq(bytes, LAMBDA b : b = 0)
  IN SubSeq(bytes, 1, nul - 1)

(* Whether the bytes at an offset mean the value to whoever reads them.    *)
RECURSIVE Means(_, _, _)
Means(offset, type, v) ==
  LET w == BinaryWidth(type) IN
  CASE type.kind = "string" -> v = Text(offset, type.size)
    [] type.kind = "ident" ->
         {k \in DOMAIN Domain(type.domain).keys :
            Domain(type.domain).ids[k] = Number(offset, w)}
           = {Position(Domain(type.domain).keys, v.key)}
    [] type.kind = "indexed" -> Domain(type.domain).keys[Number(offset, w) + 1] = v.key
    [] type.kind = "array" ->
         \A k \in 1 .. Product(type.dims) :
           Means(offset + (k - 1) * BinaryWidth(type.elem), type.elem,
                 RowMajor(v, type.dims)[k])
    [] OTHER -> \A k \in 1 .. w : file[offset + k] = Word(v, w)[k]

(* The table entry that begins at an offset, and where the next one does.  *)
ReadEntry(offset) ==
  LET rest == offset + 2 + Number(offset, 2) IN
  [name |-> SubSeq(file, offset + 3, rest),
   hash |-> Number(rest, 8), size |-> Number(rest + 8, 4),
   count |-> Number(rest + 12, 4), records |-> Number(rest + 16, 8),
   lookup |-> Number(rest + 24, 8), lookups |-> Number(rest + 32, 4),
   after |-> rest + 36]

RECURSIVE EntryAt(_)
EntryAt(k) == IF k = 1 THEN ReadEntry(9) ELSE ReadEntry(EntryAt(k - 1).after)

(* The records that the lookup table of an entry leads to from an ID.      *)
Found(e, id) ==
  {e.records + Number(e.lookup + (k - 1) * 12 + 8, 4) * e.size :
     k \in {k \in 1 .. e.lookups : Number(e.lookup + (k - 1) * 12, 8) = id}}

(* Whoever opens the binary finds each exported instance under its ID, at  *)
(* one record, in which every field is at the offset of the manifest and   *)
(* means what was compiled; deleted instances are nowhere, and the IDs of  *)
(* a lookup table ascend, as the search of a consumer requires.            *)
BinaryReadsBack ==
  job.target = "bin" /\ pass = "closed" =>
    /\ Number(5, 4) = Len(job.requested)
    /\ \A k \in DOMAIN job.requested :
         LET t == job.requested[k]
             e == EntryAt(k)
         IN /\ e.name = job.nameBytes[t]
            /\ e.hash = SchemaHash(Leaves(t, ""))
            /\ \A j \in 1 .. e.lookups - 1 :
                 Number(e.lookup + (j - 1) * 12, 8) < Number(e.lookup + j * 12, 8)
            /\ \A i \in Range(job.instances) :
                 LET live == i.type = t /\ ~i.delete /\ i.cached IN
                 /\ Cardinality(Found(e, i.id)) = IF live THEN 1 ELSE 0
                 /\ live =>
                      \A r \in Found(e, i.id) : \A f \in DOMAIN ManifestFields(t) :
                        /\ ManifestFields(t)[f].offset + ManifestFields(t)[f].width
                             <= e.size
                        /\ Means(r + ManifestFields(t)[f].offset, LeafTypes(t)[f],
                                 FlatValue(i.value, t)[f])
=============================================================================
