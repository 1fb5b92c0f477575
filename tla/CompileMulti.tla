---------------------------- MODULE CompileMulti ----------------------------
(***************************************************************************)
(* From the command line to the report, combine.compile_multi: the inputs  *)
(* are resolved (ResolveInputs), read, combined and stripped of comments   *)
(* (Combine), and the line of each diagnostic of the later phases is taken *)
(* back to a file and a line of it.  What the later phases complain about  *)
(* is left open: any line that is parsed, or no line at all, which is what *)
(* the error for a copy of an undeclared instance carries.                 *)
(***************************************************************************)
EXTENDS Naturals, Sequences, FiniteSets

CONSTANTS Path, Norm, Args,   \* of ResolveInputs
          Line, File,         \* of Combine
          Contents,           \* what the files may hold, by path
          NoLine              \* the line of a diagnostic that has none

ASSUME ContentsAssumption ==
  /\ Path \subseteq Nat /\ IsFiniteSet(Path) /\ Norm \in [Path -> Path]
  /\ File \subseteq Seq(Line)
  /\ Contents \subseteq [Path -> File]
  /\ \A content \in Contents, p, q \in Path :
       Norm[p] = Norm[q] => content[p] = content[q]
  /\ NoLine \notin Nat

VARIABLES
  content,                                            \* the file system
  args, arg, literals, matches, used, result, stage,  \* resolve_inputs
  files, file, combined, spans, start, at, depth, quoted, number, here,
  records, error,                                     \* combine, strip
  report   \* the diagnostic reported, the file and line it is reported at and
           \* the line it had; "failed": an exception that nothing expects

inputVars == <<args, arg, literals, matches, used, result, stage>>
textVars == <<files, file, combined, spans, start, at, depth, quoted, number,
              here, records, error>>
compileVars == <<content, inputVars, textVars, report>>

Inputs == INSTANCE ResolveInputs WITH at <- arg
Text == INSTANCE Combine

ASSUME InputsAssumption ==
  Args \subseteq Seq(Inputs!Arg) /\ Line \subseteq Seq(Text!Token)

Reported(line, place) == [outcome |-> "reported", line |-> line, at |-> place]
NoReport(outcome) == [outcome |-> outcome, line |-> 0, at |-> <<0, 0>>]

CompileInit ==
  /\ content \in Contents
  /\ Inputs!Init
  /\ Text!Init
  /\ report = NoReport("none")

InputStep ==
  /\ ~Inputs!Ended
  /\ Inputs!Next
  /\ UNCHANGED <<content, textVars, report>>

Open ==
  /\ stage = "done" /\ files = << >>
  /\ files' = [i \in DOMAIN result |-> content[result[i]]]
  /\ UNCHANGED <<content, inputVars, file, combined, spans, start, at, depth,
                 quoted, number, here, records, error, report>>

TextStep ==
  /\ files # << >> /\ ~Text!Done
  /\ Text!Next
  /\ UNCHANGED <<content, inputVars, report>>

(* One diagnostic, if any: of strip_comments, or of a later phase.  A line *)
(* in no span, or no line to compare with the spans, is an exception.      *)
Diagnose ==
  /\ Text!Done /\ report.outcome = "none"
  /\ \E line \in Text!DiagnosticLines \cup (IF error > 0 THEN {} ELSE {NoLine}) :
       report' = IF line = NoLine \/ Text!SpansOf(line) = {}
                 THEN NoReport("failed") ELSE Reported(line, Text!Remap(line))
  /\ UNCHANGED <<content, inputVars, textVars>>

CompileFinished ==
  /\ stage = "failed" \/ (Text!Done /\ report.outcome # "none")
  /\ UNCHANGED compileVars

CompileNext == InputStep \/ Open \/ TextStep \/ Diagnose \/ CompileFinished

CompileSpec == CompileInit /\ [][CompileNext]_compileVars

-----------------------------------------------------------------------------
(* The order of combination is "reproducible across identical runs, not    *)
(* dependent on filesystem enumeration order".                             *)
OrderReproducible == Inputs!OrderReproducible

(* The condition under which the lines of the text and of the files are    *)
(* the same: no file is empty, no comment spans a line break.              *)
LineByLine == (\A i \in DOMAIN files : files[i] # << >>) /\ number = at

(* Under it, every diagnostic names the file and the line of the statement *)
(* it is about, however the files are ordered and spelled.                 *)
ExactLineByLine ==
  report.outcome = "reported" /\ error = 0 /\ LineByLine =>
    \E r \in records : r[1] = report.line /\ report.at \in r[2]
=============================================================================
