------------------------------- MODULE Schema -------------------------------
(***************************************************************************)
(* What every exporter reads: the defines, domains and resolved instances  *)
(* of a build without errors, and the flattening of composed types into    *)
(* leaf fields that all layouts but the plain struct share.                *)
(* A field type is a record with its "kind" and what the kind needs:       *)
(*   int, float [bytes, signed]   string [size]      struct [name]         *)
(*   ident, indexed, flags [domain]                  array [elem, dims]    *)
(* A value is a number, a sequence of bytes (string), [domain, key], a     *)
(* nested sequence (array) or a function on the fields (struct).           *)
(***************************************************************************)
EXTENDS Integers, Sequences, FiniteSets, SequencesExt, TLC

VARIABLE job                \* the request: the registry, the cache, the options

Def(t) == job.fields[t]
IsStruct(f) == f.type.kind = "struct"

Named(seq, name) == CHOOSE r \in Range(seq) : r.name = name
Domain(d) == Named(job.domains, d)
Position(seq, x) == CHOOSE k \in DOMAIN seq : seq[k] = x

(* Flattening unwinds the composition with no memory of where it has been. *)
RECURSIVE Unwinds(_, _)
Unwinds(t, depth) ==
  /\ depth <= Len(job.types)
  /\ \A f \in Range(Def(t)) : IsStruct(f) => Unwinds(f.type.name, depth + 1)

RECURSIVE Leaves(_, _)
Leaves(t, prefix) ==
  FlattenSeq([k \in DOMAIN Def(t) |->
    LET f == Def(t)[k] IN
    IF IsStruct(f) THEN Leaves(f.type.name, prefix \o f.name \o "_")
    ELSE <<[path |-> prefix \o f.name, type |-> f.type]>>])

RECURSIVE FlatValue(_, _)
FlatValue(v, t) ==
  FlattenSeq([k \in DOMAIN Def(t) |->
    LET f == Def(t)[k] IN
    IF IsStruct(f) THEN FlatValue(v[f.name], f.type.name) ELSE <<v[f.name]>>])

(* Mutant of Instances: deleted instances are exported with the others. *)
InstancesWithDeleted(t) ==
  SelectSeq(job.instances, LAMBDA i : i.type = t /\ i.cached)

Instances(t) ==
  SelectSeq(job.instances, LAMBDA i : i.type = t /\ ~i.delete /\ i.cached)

(* The dense index of a member: its position among those of its domain.    *)
DenseIndex(v) == Position(Domain(v.domain).keys, v.key) - 1

LogicalId(v) == Domain(v.domain).ids[DenseIndex(v) + 1]

UsedIndexed ==
  {d.name : d \in {d \in Range(job.domains) :
     /\ d.width # 0
     /\ \E t \in Range(job.types) : \E f \in Range(Def(t)) :
          f.type.kind = "indexed" /\ f.type.domain = d.name}}

Product(dims) == FoldLeft(LAMBDA a, b : a * b, 1, dims)

Sum(numbers) == FoldLeft(LAMBDA a, b : a + b, 0, numbers)

(* The bytes of a leaf in a binary and in the size of the schema table.    *)
RECURSIVE BinaryWidth(_)
BinaryWidth(type) ==
  CASE type.kind \in {"int", "float"} -> type.bytes
    [] type.kind = "string" -> type.size
    [] type.kind = "ident" -> 8
    [] type.kind \in {"indexed", "flags"} -> Domain(type.domain).width
    [] type.kind = "array" -> Product(type.dims) * BinaryWidth(type.elem)

LeafTypes(t) == [k \in DOMAIN Leaves(t, "") |-> Leaves(t, "")[k].type]

RecordSize(t) == Sum([k \in DOMAIN LeafTypes(t) |-> BinaryWidth(LeafTypes(t)[k])])

(* The row-major sequence of the elements of a nested array.               *)
RECURSIVE RowMajor(_, _)
RowMajor(v, dims) ==
  IF Len(dims) = 1 THEN v
  ELSE FlattenSeq([k \in DOMAIN v |-> RowMajor(v[k], Tail(dims))])

(* One value per leaf, for every instance; a column is what is in one leaf. *)
Rows(t) == [k \in DOMAIN Instances(t) |-> FlatValue(Instances(t)[k].value, t)]
Column(t, leaf) == [k \in DOMAIN Rows(t) |-> Rows(t)[k][leaf]]

(* The types asked for, in the order in which they are declared.           *)
Requested == SelectSeq(job.types, LAMBDA t : t \in Range(job.requested))
=============================================================================
