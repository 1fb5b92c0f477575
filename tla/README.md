# GDDL compiler: TLA+ models, checks and proofs

GDDL is a language for game data.  Its Python compiler
(`src/compiler-python/gddl`) reads source files, resolves the instances they
declare, and writes C++, binary or assembler tables.  This directory holds
TLA+ modules that model it from the list of its inputs to what a consumer reads
out of its output, TLC configurations that check them on small instances, and
TLAPS proofs for the parts the rest relies on.

The compiler is one thread that reads its inputs and exits.  What makes it hard
to test is not concurrency but

* **order**: Python sets with a different iteration order in every process,
  directory listings in any order, passes whose errors are merged;
* **unwinding**: a recursion over instances with an exception that is caught at
  one level, turned into another at the next, and sometimes caught nowhere;
* **state behind the text**: objects shared or copied between instances, nested
  scopes, an indentation character and a comment depth carried over lines;
* **two walks over one program** that must agree: phase 4 against phase 6 on
  what is referenced, phase 5 against phase 6 on what is legal, the writer of a
  header against the writer of its source, offsets against the bytes written;
* **arithmetic at an edge**: ends of ranges, braces that may be left out, the end
  of the zero page, a product formed by shifts and adds, positions counted before
  or after a sort.

Contents: 1 the system, 2 the modules, 3 the runs, 4 fairness, 5 the proofs,
6 where code and documents disagree, 7 what is left out, 8 the plan.

## 1. The system

| component | state | operations | talks to |
|---|---|---|---|
| inputs, `combine.py` | list of paths; combined text; spans (file, first line, last line) | expand patterns, sort, drop duplicates; concatenate; take a line back to its file | file system; parser; every diagnostic |
| preprocessing, `parser.py:131-203` | comment depth, string flag, numbered lines | strip comments, number the lines | combined text in, records out |
| parser, `parser.py:205-716` | position, scope character, call stack, warnings | blocks of entries, instance bodies, nested statements | records in, `Program` out |
| registry, `registry.py` | tables of the four kinds of declaration; one table of 64-bit IDs; widths; flags bits; errors | register, detect duplicates and collisions, check widths, assign bits, detect circular copies | `Program` in; read by all phases |
| phase 5, `phase5.py` | one error per instance | walk bodies for the shape of statements, then for identifier types | registry; seeds phase 6 |
| phase 6, `resolve.py` | `cache`, `errors`, `blocked`, `_resolving`; the objects of instances | resolve instances recursively, apply statements | registry; itself |
| phase 7, fused into 6, `resolve.py:343-907` | the current value of the field | evaluate tokens from left to right, coerce, check ranges and lengths, match array literals | scope of the statement; domains |
| phase 8 and the gate, `validate.py` | a report | find fields without a value; decide whether an exporter may run | reads everything |
| C++ exporter, `export_cpp.py` | visited and visiting sets, order of types; lines of text | order types, write six combinations of layout and split, sort registries | registry and `cache`; a C++ compiler, `Find` in the consumer |
| binary exporter, `export_binary.py` | running offset; bytes | pack records and lookup rows, sum sizes up, write, list both in a manifest | registry and `cache`; a reader of the file |
| 6502 exporter, `export_6502*.py` | next zero-page address, blocks | check widths, allocate pointers, write tables and routines | registry and `cache`; an assembler, the chip |
| Z80 exporter, `export_z80*.py` | lines of text | sizes, shift-and-add products, tables and routines, or C | the same; a C compiler |
| 68000 exporter, `export_68000.py` | order of types, lines of text | gather what a request needs, write C89 | the same; a C compiler |

A compilation is a chain: inputs -> combine -> preprocess -> parse -> register
-> circular copies (phase 4) -> statement checks (5) -> resolve (6) ->
completeness (8) -> gate -> exporter.  Nothing runs backwards, except that a
diagnostic of any phase is taken back through the spans to a file and line, and
that phase 6 calls itself for every instance a body copies.

What makes each part correct:

* inputs: the same list for every order of directory listings; each existing
  argument contributes; every diagnostic names the line it is about;
* parser: exactly the layouts of the grammar are accepted, and the tree is what
  the layout says, at every dedent;
* registry: IDs are unique or a collision is reported; no two flags share a bit
  and no bit is wasted; a cycle of copies never passes, and nobody is blamed for
  a cycle it is not on;
* phase 5: refuses nothing legal, and lets nothing through that phase 6 cannot
  stop;
* phase 6: each instance gets one verdict, with the right cause, that never
  changes; a resolved instance is never changed by a later one that copies it;
* expressions: what is stored is in the range of its field; a value is that of
  strict left-to-right evaluation; a literal is accepted only in the declared
  shape, and always then unless a string in it holds a brace;
* gate: an exporter runs only on a program all of which was resolved and is
  complete;
* exporters: a type comes after all it contains; the text is one a compiler
  accepts as far as names and braces go; offsets are where things are; pointers
  do not overlap and stay in the zero page; and whoever asks for an instance, by
  ID or by index, gets the value that was compiled for it.

## 2. The modules

`A -> B` below reads "A uses B" by EXTENDS or INSTANCE.

```
CompileMulti -> ResolveInputs, Combine
FrontEnd     -> CycleDetect, Resolve
Resolve      -> ResolveOutcome         (as the contract it implements)
Exports      -> C89Output, BinaryPack, TopoSort, RegistryFind, ZeroPage
C89Output    -> CppOutput, ChipOutput -> Schema
BinaryPack   -> Schema, BinaryFile
Parser  Statements  FieldStore  FlagsBits  RegisterNames  Expressions
                                       (on their own)
X_proofs     -> X, SeqLemmas           for X = CycleDetect, Resolve, FieldStore
Statements_proofs  -> Statements, Expressions, SeqLemmas
Registry_proofs    -> FlagsBits, RegisterNames, SeqLemmas
FrontEnd_proofs    -> FrontEnd, Parser, CompileMulti, SeqLemmas, and
                      CycleDetect_proofs, Resolve_proofs as instances
ExportParts_proofs -> RegistryFind, ZeroPage, BinaryFile, TopoSort, SeqLemmas
MCX          -> X                      for every X with a run
```

Definitions that begin with "Mutant of" are deliberate faults: a copy of the
definition that follows, changed as a plausible bug would change it.  Each
property has one it detects; they are listed in PROJECT.json and nothing else
uses them.

**CycleDetect** (`Registry._detect_circular_dependencies`).  `color` is the
white/gray/black table, `path` the stack of `dfs` calls with `pending`, the
neighbours each call has still to visit, `errors` the cycle each instance is
reported with, `next` the outer loop.  Neighbours come out of a Python set, so
`Visit` takes any of those left.  `VisitDone`, `VisitGray` and `VisitWhite` are
the three branches of the loop body; `Leave` is the return.

**Resolve** (`Resolver.resolve_instance`, `resolve_all`).  `cache`, `errors`,
`blocked` and `resolving` are the resolver's own; `stack` and `pc` are the
Python calls and where each is in its instance's body; `raised` is the
exception in flight.  A body is the sequence of its calls into
`resolve_instance`, with `Fail` for a statement that raises `GDDLResolveError`
and `Crash` for one that raises anything else (division by zero, overflow).
`UseCached`, `MeetFailed`, `Backstop`, `Descend`, `MeetOwnError`, `MeetCrash`
are what a step can meet, in the order the code tests; `Complete`,
`FileBlocked`, `FileError` are the three ways a call ends; `Swallow` is the
handler in `resolve_all`; `Aborted` is a crash that has left it.

**ResolveOutcome** is the contract of phase 6 without stack and order: an
instance is filed as resolved when all it copies is resolved, as failed when
its first step that cannot be taken is its own, as blocked on the root cause of
what it copies otherwise.

**FrontEnd** is phase 4, the seeding of the resolver with the reports of phases
4 and 5, phase 6 and the gate, as one machine over the variables of the two
modules it instantiates.  Its own: `hidden` (the references phase 4's walk does
not see, because it types nested statements by declaration and phase 6 by the
value present), `phase`, `diagnosis` (the phase an instance's error is from),
`verdict`.

**FlagsBits** (`_assign_flags_bits` and the duplicates removed before it).
`pass` runs over "names", "explicit", "auto"; `claimed`, `bits` and `cursor`
are the code's.  **RegisterNames** is the registration loop for the other
declarations, with the ID table; FNV-1a is replaced by any function from
qualified names to IDs.

**ResolveInputs**, **Combine** and their composition **CompileMulti**: the
arguments, the matches in any order; files whose lines are sequences of the
tokens `strip_comments` distinguishes (open, close, quote, other text);
`depth` and `quoted` are its state.  A path is a number, its place in the order
of strings, and `Norm` gives the spelling that stands for the file.  A record is
a line number with the files' lines whose text it carries; `report` is a
diagnostic on one of them after `remap_line`.

**Parser** (`Parser`).  A line is an indentation (length and character) and a
shape: what it can be read as at the top level, in a body and among the entries
of each kind of block.  The code tests a line anew at each place, so that `T b = a`
is a declaration and a field of a define but no statement, and `x =1` a statement,
an entry, and at the top level an instance called `=1`.  `open` is the stack of active `_parse_...` calls, each with the
indentation its first line fixed (`block_indent`, `entry_indent`,
`stmt_indent`); `scopeChar` is `_scope_char`.  `CloseBlock` is a return to the
caller, `ReadLine` one round of a loop, `RefuseLine` a `GDDLParseError`.
The grammar it is compared with (`WellFormed`) uses none of this: a line is
below the nearest earlier line that is indented less.

**Statements** (`phase5.py`, and the checks of `Resolver._apply_*`).  One
instance body goes through the field_shape walk, the domain_typing walk and
phase 6.  A body is a tree of any depth: the statements by their positions, those
below position p at p with one more number.  `frames` is the stack of statement
lists being walked; `values` holds the kind of value at each path of fields.
`EnterCopyShape` drops the rest of its list, as `return _walk_statements(...)`
at phase5.py:95 does.  Whether a statement is legal (`Legal`) is defined
without the walks, from its position and the declared types alone.

**FieldStore** (the objects of phase 6).  A heap of struct values and lists;
`frames` are the nested scopes of the statements being applied; `cache` maps
resolved instances to their objects.  `CopyStruct` and the copying of a source
are `copy.deepcopy`; `AssignElem` changes a list in place; `Exported` is what
`final_validate` lets through.  `Abort` is the TypeError or AttributeError of a
statement that meets a value of another kind than the declared one; `PassBare`
is a bare field without children, which looks at nothing.  `mixed` is a history
variable: an instance was copied to where another type is declared, or a field
read into one of another kind, which no phase refuses.

**Expressions** (`Resolver._apply_assign`, `_apply_op`,
`_apply_array_element_assign`, `_apply_array_element_op` and all they call, down
to `_check_range`).  A body is applied statement by statement, a statement token
by token.  `step` is what comes next: a statement (`next`), an operand or what
follows a value (`operand`, `value`), or a part of a literal (`part`).  `calls`
are the active calls of `_parse_operand` and `_fold_left` that wait for a value:
a sign, a parenthesis, or an operator with the value to its left.  `ReadSign`,
`ReadAtom`, `Apply`, `TakeOperator`, `CloseParen` and `EndExpr` are the branches
of those two functions.  In an array literal `at` is the place of
`_parse_array_group`, by position, and `cells` the elements done;
`OpenLiteral`, `OpenGroup`, `ParseElement`, `CloseGroup` are its entry, its
recursion, a leaf and its return.  Where a group ends, the code finds by counting
braces, those inside quoted strings as well (`_is_single_brace_group`): a text
carries the braces it holds, and `ClosedAt` counts them with those of the groups
between two parts.  `Store` ends a statement, `Stop` is an
exception: `error` a `GDDLResolveError`, `crash` another one.
A text is a tree of parts by position; a value is an integer as unbounded as
Python's, an exact fraction, a string known by its length, a member of a
domain, an array or a struct.  The reference that evaluation is compared with,
`Meant`, uses no stack and reads from the other end: the last operator outside
parentheses takes all that stands before it.

**Schema** is what every exporter reads, with the flattening of composed types
into leaves (`_flatten_leaves` and `_flatten_value` of each exporter).  An exporter's
output is data, not text:

* **CppOutput** gives the declarations of the C++ exporter in their order, each
  with its name, its form (type, constant, extern), the names it needs, its type
  and its initialiser, a tree in which braces are explicit.  Every layout has a
  definition for one file and another for two, as the code has.
* **C89Output** does the same for the 68000 exporter and the Z80's z88dk C mode.
* **ChipOutput** gives listings (labelled bytes) for ACME and SjASMPlus and the
  routines in them as instructions.  `AcmeRun` and `Z80Run` execute those, with
  registers of 8 and 16 bits that wrap.
* **BinaryPack** gathers what **BinaryFile** writes in its two passes, measuring
  and writing, piece by piece.
* **TopoSort** is `_topo_sort_defines`, one action per call, test and return of
  `visit`; **RegistryFind** the generated `Find(uint64_t)`, a round a step, with
  the indices of C++; **ZeroPage** is `allocate_zero_page` with the validation
  of the base before it.

**Exports** composes them: a request (`job`) goes through the machines that its
target uses in the order of the code, and then a consumer acts: `Ask` and
`FindStep` call the `Find` of any type with any ID, the routines of a listing
run from every index, a reader takes the binary file apart with nothing but its
header.  Flattening and rendering keep no state between steps and are one
action each.

## 3. The runs

States are distinct states; all runs are exhaustive.

| run | states | checks |
|---|---|---|
| `cycle_detect` | 334,028 | ReportedOnCycle, NoCleanCycle |
| `resolve` | 767,961 | FiledOnce, BlockedOnRootCause, ImplementsOutcome |
| `front_end` | 106,992 | BackstopUnreached, BuildIsSound, EarliestPhaseWins, Terminates |
| `flags_bits` | 697,264 | BitsDistinct, OverflowOnlyWhenFull |
| `register_names` | 114,036 | ErrorIsReal, CleanIsUnambiguous |
| `compile_multi` | 636,335 | OrderReproducible, ExactLineByLine |
| `parse` | 422,967 | AcceptsWellFormed, TreeIsLayout, ErrorAtFault |
| `statements` | 77,484 | FaultIsReal, OnlyUndeclaredPass, KindsKept |
| `field_store` | 255,954 | NothingShared, TypedExportComplete, CachedFrozen, StatementLocal |
| `expressions` | 98,448 | StoredInRange, LeftToRight, ShapeExact |
| `exports` | 21,854 | NestedFirst, RaisedOnCycle, ExactlyNeeded, FindExact, AnswersAsCompiled, UnitLinks, InitialisersFit, RecordsInPlace, BinaryReadsBack, ZeroPageSafe, ChipAnswers, ExportTerminates |
| `split_columns` | violation | SplitColumnsFit |

What they show, and why the bounds are enough:

* **cycle_detect**: every graph over three instances and one undeclared name,
  and every order of visiting neighbours.  Three instances give self-loops,
  two- and three-cycles, two cycles through one instance, a cycle reached from
  outside it, and a node already black on a second cycle; the theorems of
  section 5 remove the bound.  ReportedOnCycle: no instance is blamed for a
  cycle it merely reaches.  NoCleanCycle: no cycle is left without a report,
  which is all that keeps phase 6's recursion finite.
* **resolve**: every program of three instances and an undeclared name with
  bodies of up to two steps, under every set of instances already refused that
  leaves no cycle among the others.  Chains of length three give a caller of a
  caller of a failure; two steps give a failure after a success and two causes
  to choose from.  BlockedOnRootCause: the cause is the failed instance that the
  first unresolvable step leads to, not a later one and not an intermediate one.
  ImplementsOutcome: the recursion, its exceptions and its memoisation implement
  ResolveOutcome, which has none of them, including that every instance is filed
  in the end unless a crash ends the loop.
* **front_end**: the same programs with cycles, hidden references and phase 5.
  A reference can hide only below a field that a copy before it has filled, so
  two steps are needed and enough.  BuildIsSound: an exporter runs only if every
  instance is resolved from resolved ones and no copies are circular, those
  phase 4 did not see included.  BackstopUnreached holds when nothing
  is hidden; with a hidden reference the backstop is reached (section 6), and
  BuildIsSound and Terminates hold all the same.  A crash anywhere ends the
  compiler with an internal failure and no build.
* **flags_bits**: blocks of up to four entries over three names and two bits,
  claims up to one past the width, so that the cursor meets a claimed bit
  before, at and after it, the width is exceeded by one and by two, and a name
  occurs twice.  The theorems remove the bound.
* **register_names**: two declarations are enough for everything RegisterId
  distinguishes, which are pairs; the hash functions are those under which any
  one pair of qualified names collides.  Types and domains have different names
  (see section 6), so that an entry and an instance never share their key.  The
  capacity of an indexed domain is one, so that it is met exactly, exceeded by
  one, and exceeded by a duplicate only.  CleanIsUnambiguous says that nothing
  wrong passes, ErrorIsReal that nothing right is refused: a width met exactly,
  or one key written twice, is no overflow.
* **compile_multi**: two arguments over three paths, two of which are spellings
  of one file, every listing order; files of up to two lines.
  OrderReproducible: the inputs are the same for all of them, and none of an
  argument's files is missing.
  ExactLineByLine: with no empty file and no comment open over a line break, each
  diagnostic that is reported names the file and line it is about.  What the code
  does with empty files and with comments over lines is in the model, but no
  property holds of it that is worth stating (section 6).
* **parse**: every text of three lines of any shape with indentations up to two
  (MCParser gives a line for each of its twelve shapes; the theorems are about all
  combinations of readings), and an instance with three more lines with indentations
  up to three, where a dedent can end between two open levels and several blocks
  close at one line.
  AcceptsWellFormed is the equivalence of the recursive descent and the layout
  grammar; TreeIsLayout adds the tree and the warnings; ErrorAtFault that the
  line of an error is at or after the fault, never before.
* **statements**: bodies of up to two statements of every kind and three of some,
  in structs two deep, so that positions are up to three long (`Depth`), over a
  field of every category and one that does not exist.
  FaultIsReal: phase 5 refuses nothing legal.  OnlyUndeclaredPass: what phase 5
  skips is refused by phase 6, except for statements on undeclared fields.
  KindsKept: no path through copies and nested scopes leaves an identifier,
  array or struct field with a value of another kind.
* **field_store**: three instances, one copying another, bodies of two or three
  statements over a number, a list and a struct, scopes two deep, one field
  assigned another, and copies declared with another type; at most `MaxNum` = 2
  as a value.  NothingShared: no object belongs to two instances, resolved or
  being resolved.  CachedFrozen: once resolved, no object of an instance
  changes.  StatementLocal: a statement changes its own field only and leaves
  everything below the others alone, unless the same object is held by two
  fields (section 6).  TypedExportComplete: in a program that does not mix
  types, whatever phase 8 passes has a value of the declared kind in every field
  at every depth.
* **expressions**: one statement of every form against a field of every kind,
  with up to three operands and parentheses or a sign around any part, right
  and wrong; literals of up to three parts nested up to three deep against
  arrays of shapes [2], [2][1] and [1]; literals against arrays of text of shapes
  [2] and [1][2], with braces in the strings; and bodies of two, where the second
  reads what the first stored.  Operands are at and one past the ends of u8 and i8
  (`MCU8`, `MCI8`), halves that add up to integers, and a float limit.  Three
  operands are the fewest on which precedence could differ; two dimensions and
  length one are where an optional brace is ambiguous.  A blank instance and a
  copy are the two states a body can start from.  `| & ^` work on operands of
  `BitWidth` = 12 bits, more than the widest value here.
  The properties relate the end of a statement to its whole text: StoredInRange
  what any body leaves in a field; LeftToRight the value stored, or the refusal,
  to what the expression means; ShapeExact the array stored, or the refusal, to
  how the text nests.  With a brace in a string the code refuses some literals of
  the declared shape: ShapeExact then says only that what is taken has the shape.
* **exports**: three types in every composition with up to two struct fields
  each, which gives chains, diamonds, a type contained twice, and cycles of
  length one to three; one schema with every kind of leaf (`Full`), one with
  types without instances (`Few`), one three levels deep with arrays of one row
  and strings (`Deep`), one without the kinds the chips refuse (`Flat`), and
  three instances in every order of their IDs (`Sorted`).  IDs are out of
  declaration order and one instance is deleted, so a position taken before or
  after the sort or the deletion differs.  Sizes of records have several binary
  ones, offsets and values go past 255.  Zero-page bases are those that fit with
  room, exactly and not by one, and the ends of what is accepted.
  Every target is run in every layout it has.
  The properties say: types come in an order a compiler takes (NestedFirst,
  RaisedOnCycle, ExactlyNeeded), the units link and their braces are accepted
  (UnitLinks, InitialisersFit: braces only where the compiler wants or allows
  them, all elements given; a struct is declared before the C arrays and columns
  of it; arrays of no rows are left out, see section 6), the generated search is
  exact (FindExact), and
  from the output alone a consumer gets back what was compiled
  (AnswersAsCompiled, ChipAnswers, BinaryReadsBack, RecordsInPlace), with
  pointers that collide with nothing (ZeroPageSafe).
* **split_columns**: the same requests; one writer leaves out braces that C++
  needs, for a column of arrays with several rows, of several dimensions or of
  text.

Deadlock is checked in every run; `Finished` steps stand for the program having
ended, and nothing else may stop.

## 4. Fairness

Only Resolve, FrontEnd, the contract ResolveOutcome and Exports assume fairness,
weak fairness of the next-state relation.  The compiler is one thread with no
input once it has started: the interpreter takes the next step whenever there
is one.  No fairness of one action against another is assumed, and none would
be justified.  Exports states it in two parts, which together say that and are
cheaper to check: weak fairness of the loops, and that the compiler does not
stay where the next step is the return of a function (`[]<>~AtOnce`; every
action enabled there leaves).  Liveness is then termination with a result:
`Terminates`, `ExportTerminates`, and the fairness conjunct of
ImplementsOutcome.  The other modules state safety only.

## 5. The proofs

TLAPS checks the 42 theorems listed in PROJECT.json for every value of the
constants: any number of instances, any names and bodies at any depth, any width,
any text, any files, any composition of types, any tables.  The assumptions are
those named in the modules.  Each says only what sort of thing a constant is:

* `DeclOrderAssumption`: the declarations are a sequence of names;
* `FlagsAssumption`: the width is positive, blocks are sequences of entries;
* `ResolveAssumption`, `FrontEndAssumption`: bodies are sequences of steps; the
  values that stand for "none" and for exceptions are no names and differ;
* `RegisterAssumption`: the hash functions are functions on qualified names,
  programs are sequences of declarations;
* `ContentsAssumption`, `InputsAssumption`: there are finitely many paths, two
  spellings of one file have one content, lines are sequences of tokens;
* `TextsAssumption`: a text is a sequence of lines;
* `TypesAssumption`, `BodiesAssumption` of Statements: struct and domain names
  are no names of kinds; a body is a tree: with a statement, those before it in
  its list and those it stands below are in it, only assignments and bare fields
  have statements below them, and depth is bounded, by any number;
* `TypeAssumption`, `SourcesAssumption`, `ListsAssumption` of Expressions: a
  field has a type the registry gives out (an element of an array is a scalar, an
  array has one or more dimensions, none of them 0); a body starts from values
  that fit their fields, as a body leaves them (StoredInRangeHolds); a statement
  has a known form, the tokens of an expression are of the kinds the tokenizer
  makes, and only groups have parts.  Of texts with several parts, those are left
  out that the braces in their strings make look like one group (`Split`);
* `TypesAssumption`, `StatementAssumption`, `ProgramsAssumption` of FieldStore:
  there is a field; the statements of the programs are finitely many, each of
  one of the forms with the fields the form has.

**CycleDetect_proofs.**  TypeCorrect, FirstReportStays, Sound, Complete.  The
invariant says that the gray nodes are exactly those on the path, that the path
has no repetition and follows edges, that what is pending at a call are
dependencies of it, and, for completeness, three facts about finished work: a
visited neighbour of a node on the path is black or the next on it, unless that
node is reported (VisitedDeps); a black node that is not reported depends on
black nodes only (BlackDeps); and there is no cycle among the black unreported nodes.
Acyclicity is stated as: every non-empty set of such nodes has a member with no
dependency in the set.  That form needs no induction over paths: when a node
turns black, a set that contains it has it, or a member of the rest, as witness.
At the end all instances are black, which is Complete.

**Registry_proofs.**  *Flags bits*: TypeCorrect, NoTwoOwners, BitsWellSpent.  The
invariant ties the set `claimed` to the members that hold a bit (HeldClaimed,
ClaimedHeld), says that members still to come hold none (PendingFree), and that
every bit below the cursor is claimed (CursorPassed).  Without the last one,
neither the order of automatic bits nor "overflow only when full" is inductive.

*Names*: ErrorsAreReal, CleanProgramsAreUnambiguous.
RegInv says that every row of the ID table is of a real declaration or entry,
that no ID has two identities in it, and that as long as there is no error all
that the loop has passed is in the tables and differs from all else there.
ErrInv says the converse for ErrorsAreReal: the tables hold names of declarations
already opened, and `seen` the keys of the entries passed and nothing else, so
that its size at the end of a block is the number of distinct keys.  The
second theorem has a hypothesis, NamesApart: no domain has the name of a type
that has instances.  Without it the statement is false (section 6,
`registry.py:605`).

**Resolve_proofs.**  TypeCorrect, AllFiledOnce, NoRuntimeCycle, VerdictsSound,
VerdictsFinal, SafeImplementation.  The invariant has three parts.  The stack:
its members are distinct, unfiled, exactly `resolving`, and each is called by a
step of the one below it (StackCalls).  The bodies: what an active call has
passed is resolved (StackPrefix), and an exception in flight is the one the
current step causes (RaisedCause).  The graph: what is resolved has no cycle
(CachedAcyclic).  What phase 4 provides, that the instances not yet refused have
no cycle (CleanAcyclic), is kept apart from the invariant as a premise.
NoRuntimeCycle needs it: a backstop would make the stack from the repeated
instance upward a set in which every member depends on another, all of them
clean.  SafeImplementation maps each step to a step of ResolveOutcome or to a
stutter: the filing actions are its actions, all others leave its variables
alone.

**FrontEnd_proofs** is about the chain up to the gate.  *The pipeline*:
BackstopIsDead, BuildsAreSound, EarliestDiagnosis.  The proofs of CycleDetect and
of Resolve are instantiated with the variables of the pipeline, and their invariants hold through it.  PipeInv adds what each phase
hands to the next one: before the seeding phase 6 has not begun; after it, the
search is over and its reports are errors; at the report every instance has its
verdict.  BackstopIsDead joins the two ends: no cycle is left among the
instances phase 4 does not report (DoneClean), so CleanAcyclic holds for phase
6.  BuildsAreSound does without that premise: where a copy is hidden from phase
4, a cycle ends at the backstop, in `errors`, and CachedAcyclic covers the rest.

*The command line*: OrderIsReproducible.  What has been collected from the
arguments passed is what the arguments alone determine; while the sorted matches
are taken, what was added is ascending, consists of the least spelling of each
file, and lies below everything left (DedupInv).  The sorted sequence itself is
defined by ranks, how many are smaller, so that it needs no recursion.

*Lines*: LinesAreExact, for files that are not empty and comments that end on
their line, as ExactLineByLine says.  The spans follow each other without overlap, and, when
no file is empty, each combined line lies in one span, at the line of the file it
came from (SpansInv).  In `strip_comments` the line being written never runs
ahead of the line read, and while the two are equal every record written so far
carries exactly the text of its own line (StripInv).

*The parser*: AcceptedIsWellFormed, TheTreeIsTheLayout, ErrorsAreAtTheFault.
ParseInv relates the stack of open blocks to the layout, which is defined without
a stack: the owner of each block is the line its entries are directly below
(Stacked).  It adds the scope character (Scoped), that a line deeper than the last
block's lines opens nothing the grammar has (Deeper), and that the lines read are
well formed unless an operator statement with lines below it is open (Doomed):
that one is refused only when its block ends, so that well-formedness of what was
read, alone, is not inductive.

**Statements_proofs.**  OnlyUndeclaredPasses, FaultsAreReal, KindsAreKept.
WalkInv says of every statement of the body and each of the three walks: the
statement is still to come in one of the lists on the stack, or it was passed and
the walk found it in order, or it stands where phase 5 does not look, after a copy
with children (AfterCopy), or an error has ended the walks.  A list on the stack
is tied to the body by the position of the statement it is below and the type
declared on the path to it (Placed).  What escapes is then what both phase 5 skips
and phase 6 does not check.  KindInv is KindsKept with it: each store is of a
value whose kind the same step has checked, or of a complete value of the field's
own struct type.

The second part of the module is about Expressions: StoredInRangeHolds,
LeftToRightHolds, ShapeExactHolds.

*Ranges*.  ExprInv says that every value on the way is sound (a float is a
fraction with a positive denominator, a member is of its domain), that the cells
done so far hold values of the element type, and that in a literal the way to the
part has been checked: at each level as many parts stand within the braces as the
dimension says.  The last fact is what a stored array has its shape from.

*Evaluation*.  `Meant` is a recursive function over intervals of tokens; that
it solves its equation for every interval is proved first, by a least interval on
which it would not (MeaningSolves).  The invariant `Traced` then makes the stack
into text: a call that waits is written as its sign, its parenthesis, or its left
value and operator; the value in hand as a literal; after them the rest of the
text.  That text always means what the whole expression means.  Each step of the
descent replaces one token, or two or three, by a literal of the same meaning (an
atom, a sign and its operand, a left operand with its operator and right operand,
a parenthesis), and a lemma for each says when this keeps the meaning of all that
is around it.  For the operator that is so only because no operator outside
parentheses stands before it: this is where reading from the left and `Meant`,
which splits at the last operator, agree.  Refusals need the converse: what means
something is regular (OkRegular) - it begins with an operand, operands and
operators alternate, parentheses balance - so where the descent finds a token out
of place, there is no meaning.  "Means" is equality of values, and for failures
only that both fail: which of two errors comes first is not claimed.

*Literals*.  The parts of a text nest as the dimensions (`Nested`, a statement
about the whole tree) exactly if each part on its own has the number of parts its
depth calls for, or is no group at the last depth (`Local`; LocalNested and
NestedLocal).  `Located` says this of every part that lies, in the order of
reading, before the place `at` or around it, and that the cells before it hold
what their parts mean, which Traced supplies as each element ends.  When the
outermost brace closes, every part lies before the place.  PlainGroup says that
in a text without braces in its strings every group is a single brace group for
the code, which is where "always then" comes from; OneBase and BaseUnique that a
text nests in one of the two ways only, with its own pair of braces or without.
Where a string holds a brace, only the direction from taken to shape is claimed.

**FieldStore_proofs.**  StoreIsSound, ObjectsAreApart, ResolvedStaysFrozen,
ExportsAreComplete, StatementsAreLocal.  The heap only grows, and StoreInv
divides it at the roots of instances: each is a Cut, an address that no
reference crosses in either direction (RegionInv).  Objects of an instance hence
lie between its root and the next one's, and everything reachable stays there;
NothingShared and CachedFrozen follow, the latter because a step only writes at
or above the root of the body being resolved (WritesOwn).  That no object reaches
itself (Acyclic), needed for StatementLocal, is not inductive for references alone:
the object of an inner scope is stored in the outer one when the scope ends, so
the relation that is acyclic leads from each scope's object to the next one's as
well.  TypedInv, while nothing is mixed, is that every field without a gap holds
a value of its declared kind and every scope is of the type its field declares.
`deepcopy` is described once, by a lemma (Copied): the new objects are the
reachable ones, renamed by a bijection.  Reachability is computed by rounds as
many as there are objects; that it is the least closed set is proved by counting:
a round that adds nothing ends it, and each that adds something adds one of
finitely many.

**ExportParts_proofs** is about four small parts of the exporters.

*The order of types*: TopoInductive, OrderIsSound, RaiseIsSound, RequestIsExact.
TopoInv says that `visiting` is what is on the stack, that each frame was called
by the field at the position of the frame below it, that what a frame has passed
has been left and lies in the order, after all it contains, and that whatever
has been entered is in every closed set of types with the roots in it.  The
raise then closes a chain of frames into a cycle of compositions, in the same
form as above: a non-empty set in which every type contains another one.

*The search*: FindIsExact, RangeShrinks.  FindInv: the range lies in
the table, and everything left of it has a smaller ID and right of it a larger
one; which is where the table's order, a fact about the exporter's sort, is used.
Termination is a decreasing range, which is safety; liveness itself is TLC's.

*The zero page*: PointersAreSafe.  The blocks granted so far are those of
the consumers passed, two bytes each, from the base to the next address without
a gap; the one test after the loops is then enough.

*The binary writer*: OffsetsAreReal.  The invariant of the measuring pass is
that each piece starts where the one before it ends; that of the writing pass
that the file is as long as the start of the next piece.

The theorems of ExportParts_proofs are about the specification of the component
alone.  In Exports its steps are the same actions, with the other variables
unchanged, from the states that `TopoStart`, `FindStart`, `ZpStart` and `BinStart`
fix.

Some theorems (type correctness, FirstReportStays, VerdictsFinal,
NoRuntimeCycle, the order of automatic bits) are about definitions that no run
repeats: what is proved for all sizes is not checked again for small ones unless
the run needs the property for what the proof leaves open.

**SeqLemmas** holds what these proofs share about sequences: prefixes and
fronts, ranks in a finite set of numbers, and the least and the greatest member
of a set of naturals.  An induction over positions or depth is done with those:
a counterexample would have a least one, which the facts about its predecessor
exclude.

Only model-checked:

* liveness, which is out of the prover's reach: Terminates, ExportTerminates and
  the fairness conjunct of ImplementsOutcome;
* AnswersAsCompiled, UnitLinks, InitialisersFit, BinaryReadsBack and ChipAnswers:
  Schema, CppOutput, C89Output, ChipOutput, BinaryPack and Exports flatten and
  render nested types with RECURSIVE operators, which the prover cannot use, and
  what these compute is induction over data.  The names that link the parts of
  an output are strings put together with `\o`, and that two of them differ is
  nothing the prover knows.  TopoSort, RegistryFind,
  ZeroPage and BinaryFile were made modules of their own so that they can be
  proved about and composed.

## 6. Where code and documents disagree

A run shows one of these: in split SoA output, a column of arrays has one pair of
braces too few (`export_cpp.py:1465`; the writer of the single header,
export_cpp.py:577, has the rule), which C++ refuses when the column has two or
more rows, or one row of an array with several dimensions or of text:
`split_columns`.

The models reproduce the following as well; the properties of the passing runs
are conditioned so as not to contradict them, and say how:

* the instances reported for a cycle depend on the order of a set
  (`registry.py:570`; SPEC.md:36): two searches of one graph can blame different
  instances.  ReportedOnCycle and NoCleanCycle hold for every order.
* a block comment over several lines shifts the lines of later diagnostics
  (`parser.py:146`; SPEC.md:1121).  ExactLineByLine excludes texts in which a
  comment is open over a line break, and LinesAreExact with it: of the numbers
  after such a comment nothing is shown.
* phase 5 stops looking at a list of statements after a copy with children
  (`phase5.py:95`; phase5.py:10).  OnlyUndeclaredPass says what gets through.
* phase 4 types nested statements by declaration, phase 6 by the value present
  (`registry.py:519`): a cycle below a field that holds a value of another type
  is met only by the backstop that `resolve.py:230` calls unreachable.
  FrontEnd's `hidden`; BackstopUnreached is conditional.
* an exception that is not a GDDLResolveError leaves instances in no table and
  ends the compiler (`resolve.py:280`); a division by zero is one
  (`resolve.py:848`).  `Crash`; FiledOnce requires each
  instance in one table only when the loop has not been aborted.
* an identifier entry and an instance with the same qualified name get one ID
  and no error, because `_check_id_collision` tells things apart by a key they
  can share (`registry.py:605`; SPEC.md:102).  `register_names` keeps names of
  domains and types apart, as the theorem does (NamesApart): of programs that do
  not, CleanIsUnambiguous says nothing.
* an empty file adds a line to the spans, none to the records
  (`combine.py:147`).  ExactLineByLine excludes empty files: the special case
  itself is not shown right.
* the error for an unknown source has no line (`resolve.py:248`), and one for a
  comment open at the end of the last file may be past every span: `remap_line`
  then ends the compiler (`combine.py:160`).  `NoReport`.
* `x = r` for an array field r and a scalar field x stores the list itself, and
  `r[0] = 1` changes both (`resolve.py:490`; SPEC.md:358).  StatementLocal
  excludes fields that hold the changed object in common; an index into a field
  that holds no list raises a TypeError, statements below a bare field that
  holds no struct an AttributeError (`Abort`).
* a copy keeps the fields of the source's type when it is declared with another
  type, and phase 8 looks at the fields present (`validate.py:27`;
  SPEC.md:381).  TypedExportComplete is about programs that do not (`mixed`); a
  copy of another type can pass phase 8 incomplete.
* the indentation character of a header is never compared with that of the
  lines below it (`parser.py:343`), while SPEC.md:54 says "from its header line
  to its final dedent".  WellFormed compares the lines below a header only.
* a scalar field accepts a value that is no number (`_coerce_numeric` returns
  it unchanged, `resolve.py:597`) and a string field a number, which the comment
  at `resolve.py:657` calls a gap.  KindsKept is about the other categories, and
  StoredInRange about numbers.
* through the same gap `a[0] = b` stores the whole array b in an element of a
  (`_apply_array_element_assign`); StoredInRange is about the elements that are
  numbers or text.  Objects stored this way are shared in Python and copied in
  Expressions; FieldStore is about the sharing.
* the outermost braces of an array literal are taken away whenever there is one
  group (`resolve.py:539`), so the literal `{1, 2}` of an array [1][2] is
  refused without another pair, although `resolve.py:530-537` calls that pair
  optional.  ShapeExact says so: where the first of several dimensions is one,
  the array begins within the outer braces (`Bases`).
* where a group ends is found by counting every brace, also those in quoted
  strings (`_is_single_brace_group`, `resolve.py:167-183`), although the comment
  over it calls it quote-aware (`resolve.py:159-165`).  So `{"}", "a"}` is refused
  for an array of two strings and `{"a", "b"}` is not; ShapeExact claims that a
  literal of the declared shape is taken only of texts without braces in strings
  (`NoBraces`), and of all texts that what is taken has the shape.  The other way
  round, `{"a", "{"}, {"}", "b"}` looks like one group and is taken by an array of
  three strings, the middle one `{"}, {"}`.  Such texts, in which several parts
  look like one group, are left out of the model (`Split`).
* types that contain each other pass every phase: the C++ exporter raises the
  ValueError "should be impossible" (`export_cpp.py:694`), every other one a
  RecursionError as it flattens.
  `Crash` in Exports, RaisedOnCycle.
* the z88dk C source includes `gddl_z80_export.h` (`export_z80_z88dk_c.py:345`)
  whatever the header is called when it is written (`export_z80.py:589`).
  UnitLinks reads the header that was written.
* for a type without instances the C exporters write an array of no elements,
  `const T T_Instances[0] = { };` or a column of it (`export_68000.py:516-551`,
  `export_z80_z88dk_c.py:239`, `:299`, `:355`), which C89 has not.  The C++
  exporter has no such case, std::array of size 0 being legal.  InitialisersFit
  leaves these arrays out (`NoRows`); that they are declared, defined and found
  alike is checked.
* text in 6502 SoA output is written as its low and high byte
  (`export_6502_acme.py:236`), while `export_6502.py:420` says that the
  renderers raise.  ChipAnswers leaves such columns out.
* the chips and C order instances by declaration, the binary exporter writes the
  requested types in the order of the request, twice if asked twice
  (`Pos, Pos` in `BinJobs`).
* the ends of 8 bits: lookup tables of the 6502 are indexed with X
  (`export_6502_acme.py:334`) and nothing refuses a 257th instance.  Not
  conditioned: the instances checked are few, and the hazard is listed as open.

## 7. What is left out

* Parser: the regular expressions that decide a line's shape, string escapes,
  and the splitting of an expression into tokens.
* Registry: the checks of `@Domain` and array types, field by field and without
  state.  FrontEnd takes their verdict as an input of the gate (`invalid`).
* Expressions: the rounding of floats (a fraction is exact).
* Exporters: the dialects 64tass, KickAssembler and z88dk assembler, which write
  the listing of ACME and SjASMPlus in another syntax; `Find` by name; alignment,
  comments and layout of text; names that flattening makes equal; the lists of
  IDs and bindings in JSON.
* Reading, decoding and writing files; the text of messages; the command line.
* The C++ compiler, which is not started.

## 8. The plan

The first plan (expressions, layout, zero page and multiplication) is carried
out, and expressions are proved about.  What remains, in this order:

1. **Proofs** about output: the flattening of types as trees by position, like
   the texts of Expressions, so that the rows of the binary file and the units of
   the C++ exporter can be proved about as well as checked.
2. **Widths**: the registry's checks of field types, which the gate depends on,
   and what each exporter assumes of them (`_leaf_byte_width` of the 6502 knows
   one and two bytes only).
3. **Wrap-around**: a 6502 listing with more rows than X can count, once the
   code says what it promises there.
4. **Lines**: shapes and tokens from characters, so that Parser and Expressions
   begin where Combine ends.
