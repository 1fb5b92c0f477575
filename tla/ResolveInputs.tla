---------------------------- MODULE ResolveInputs ----------------------------
(***************************************************************************)
(* combine.resolve_inputs: command-line arguments to the ordered list of   *)
(* source files.  A path is a number, ordered as its text; two paths are   *)
(* one file if os.path.normpath makes them equal.  glob.glob returns the   *)
(* matches of a pattern in whatever order the file system lists them.      *)
(***************************************************************************)
EXTENDS Naturals, Sequences, FiniteSets, SequencesExt

CONSTANTS Path,     \* paths, as numbers
          Norm,     \* Norm[p]: the normal form of p
          Args      \* argument lists to consider

(* A literal path that may be missing, or a pattern and what it matches.   *)
Arg == [pattern : {FALSE}, files : {{p} : p \in Path} \cup {{}}]
         \cup [pattern : {TRUE}, files : SUBSET Path]

VARIABLES args,
          at,        \* the argument the loop is at
          literals,  \* literal_files
          matches,   \* glob_matches, then what is left of its sorted copy
          used,      \* already_used
          result,    \* the list returned
          stage      \* "args", "dedup", "done", or "failed": CombineError

Init ==
  /\ args \in Args
  /\ at = 1
  /\ literals = << >> /\ matches = << >> /\ used = {} /\ result = << >>
  /\ stage = "args"

AtArg(isPattern) ==
  stage = "args" /\ at <= Len(args) /\ args[at].pattern = isPattern

Listings(files) == SetToSeqs(files)

(* A literal that does not exist and a pattern without a match are one     *)
(* error, and it ends the run.                                             *)
RefuseArg ==
  /\ stage = "args" /\ at <= Len(args)
  /\ args[at].files = {}
  /\ stage' = "failed"
  /\ UNCHANGED <<args, at, literals, matches, used, result>>

TakeLiteral ==
  /\ AtArg(FALSE)
  /\ \E p \in args[at].files : literals' = Append(literals, p)
  /\ at' = at + 1
  /\ UNCHANGED <<args, matches, used, result, stage>>

TakePattern ==
  /\ AtArg(TRUE)
  /\ args[at].files # {}
  /\ \E found \in Listings(args[at].files) : matches' = matches \o found
  /\ at' = at + 1
  /\ UNCHANGED <<args, literals, used, result, stage>>

(* sorted(): the path at k has fewer than k paths before it and at least k *)
(* with those that are equal to it.                                        *)
Sorted(paths) ==
  LET Before(p) == Cardinality({i \in DOMAIN paths : paths[i] < p})
      UpTo(p)   == Cardinality({i \in DOMAIN paths : paths[i] <= p})
  IN  [k \in DOMAIN paths |->
         CHOOSE p \in Range(paths) : Before(p) < k /\ k <= UpTo(p)]

(* Mutant of StartDedup: the matches stay as the file system lists them. *)
StartDedupUnsorted ==
  /\ stage = "args" /\ at > Len(args)
  /\ used' = {Norm[p] : p \in Range(literals)}
  /\ result' = literals
  /\ stage' = "dedup"
  /\ UNCHANGED <<args, at, literals, matches>>

StartDedup ==
  /\ stage = "args" /\ at > Len(args)
  /\ used' = {Norm[p] : p \in Range(literals)}
  /\ matches' = Sorted(matches)
  /\ result' = literals
  /\ stage' = "dedup"
  /\ UNCHANGED <<args, at, literals>>

(* One match, in sorted order: kept unless its file is in the list. *)
TakeMatch ==
  /\ stage = "dedup" /\ matches # << >>
  /\ LET m == Head(matches)
     IN  IF Norm[m] \in used
         THEN UNCHANGED <<used, result>>
         ELSE used' = used \cup {Norm[m]} /\ result' = Append(result, m)
  /\ matches' = Tail(matches)
  /\ UNCHANGED <<args, at, literals, stage>>

EndDedup ==
  /\ stage = "dedup" /\ matches = << >>
  /\ stage' = "done"
  /\ UNCHANGED <<args, at, literals, matches, used, result>>

Ended == stage \in {"done", "failed"}

Next ==
  \/ RefuseArg \/ TakeLiteral \/ TakePattern
  \/ StartDedup \/ TakeMatch \/ EndDedup

-----------------------------------------------------------------------------
(* The elements of a finite set of numbers, ascending. *)
Ascending(S) ==
  [k \in 1 .. Cardinality(S) |->
     CHOOSE n \in S : Cardinality({m \in S : m <= n}) = k]

LiteralArgs == {i \in DOMAIN args : ~args[i].pattern}
LiteralFiles == UNION {args[i].files : i \in LiteralArgs}
Matched == UNION {args[i].files : i \in DOMAIN args \ LiteralArgs}

TheFile(i) == CHOOSE p \in args[i].files : TRUE

(* The literal files as given. *)
AsGiven == [k \in 1 .. Cardinality(LiteralArgs) |-> TheFile(Ascending(LiteralArgs)[k])]

(* The least path of every matched file that is not among the literals. *)
Added ==
  {p \in Matched : /\ \A q \in LiteralFiles : Norm[q] # Norm[p]
                   /\ \A q \in Matched : Norm[q] = Norm[p] => p <= q}

(* The order of combination is "reproducible across identical runs, not    *)
(* dependent on filesystem enumeration order": whatever order the matches  *)
(* are listed in, the literal files come first as given, then, ascending,  *)
(* the least path of every matched file that is not among the literals.    *)
(* An argument without a file is "never a silent no-op".                   *)
OrderReproducible ==
  stage = "done" =>
    /\ \A i \in DOMAIN args : args[i].files # {}
    /\ result = AsGiven \o Ascending(Added)
=============================================================================
