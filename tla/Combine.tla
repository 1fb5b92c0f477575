------------------------------ MODULE Combine ------------------------------
(***************************************************************************)
(* Line numbers from the source files to the diagnostics: combine_sources  *)
(* concatenates the files and records where each begins, strip_comments    *)
(* and preprocess number the lines left once comments are gone, and        *)
(* remap_line takes a number back to a file and a line of it.              *)
(*                                                                         *)
(* A line is the sequence of its tokens as strip_comments tells them       *)
(* apart: "open" and "close" of a block comment, an unescaped "quote", and *)
(* "text" for a run of anything else that is not blank.  A line comment    *)
(* ends where its line does and changes no number: it is left out.         *)
(***************************************************************************)
EXTENDS Naturals, Sequences, SequencesExt

VARIABLES files,     \* the contents of the inputs, in order
          file,      \* the input combine_sources is at
          combined,  \* combined_lines, each as <<file, line of the file>>
          spans,     \* FileSpan start_line and line_count, by input
          start,     \* current_line
          at,        \* the combined line strip_comments is at, 0 before it
          depth,     \* block_depth
          quoted,    \* in_string
          number,    \* the line of the stripped text being written
          here,      \* lines with text that survives on that line
          records,   \* what preprocess returns: <<number, lines it is of>>
          error      \* line of the GDDLParseError of strip_comments, or 0

Token == {"open", "close", "quote", "text"}

Init ==
  /\ files = << >>
  /\ file = 1 /\ combined = << >> /\ spans = << >> /\ start = 1
  /\ at = 0 /\ depth = 0 /\ quoted = FALSE
  /\ number = 1 /\ here = {} /\ records = {} /\ error = 0

AtLeastOne(n) == IF n = 0 THEN 1 ELSE n

(* Mutant of AddFile: the next file begins one line too late. *)
AddFileLate ==
  /\ file <= Len(files)
  /\ LET lines == files[file]
         count == AtLeastOne(Len(lines))
     IN  /\ combined' = combined \o [i \in DOMAIN lines |-> <<file, i>>]
         /\ spans' = Append(spans, [start |-> start, count |-> count])
         /\ start' = start + count + 1
  /\ file' = file + 1
  /\ UNCHANGED <<files, at, depth, quoted, number, here, records, error>>

(* One input: max(line_count, 1) lines are accounted for, line_count of    *)
(* them are there.                                                         *)
AddFile ==
  /\ file <= Len(files)
  /\ LET lines == files[file]
         count == AtLeastOne(Len(lines))
     IN  /\ combined' = combined \o [i \in DOMAIN lines |-> <<file, i>>]
         /\ spans' = Append(spans, [start |-> start, count |-> count])
         /\ start' = start + count
  /\ file' = file + 1
  /\ UNCHANGED <<files, at, depth, quoted, number, here, records, error>>

StartStrip ==
  /\ file > Len(files) /\ at = 0
  /\ at' = 1
  /\ UNCHANGED <<files, file, combined, spans, start, depth, quoted, number,
                 here, records, error>>

(* The scanner's state after one token: comments nest, a quote counts only *)
(* outside them, and a comment cannot open inside a string; whatever is    *)
(* not swallowed by a comment or one of its marks is output.               *)
Scan(state, token) ==
  IF state.depth > 0
  THEN [state EXCEPT !.depth = CASE token = "open"  -> @ + 1
                                 [] token = "close" -> @ - 1
                                 [] OTHER           -> @]
  ELSE IF token = "open" /\ ~state.quoted
  THEN [state EXCEPT !.depth = 1]
  ELSE [state EXCEPT !.kept = TRUE,
                     !.quoted = IF token = "quote" THEN ~@ ELSE @]

After == FoldLeft(Scan, [depth |-> depth, quoted |-> quoted, kept |-> FALSE],
                  files[combined[at][1]][combined[at][2]])

Kept == here \cup (IF After.kept THEN {combined[at]} ELSE {})

Flushed == IF Kept = {} THEN records ELSE records \cup {<<number, Kept>>}

Scanning == at > 0 /\ at <= Len(combined)

(* A newline inside a block comment is not output: the line being written  *)
(* goes on, and every later one gets a number that is one too small.       *)
StripLine ==
  /\ Scanning
  /\ depth' = After.depth
  /\ quoted' = After.quoted
  /\ IF After.depth = 0
     THEN /\ number' = number + 1
          /\ here' = {}
          /\ records' = Flushed
     ELSE /\ here' = Kept
          /\ UNCHANGED <<number, records>>
  /\ at' = at + 1
  /\ UNCHANGED <<files, file, combined, spans, start, error>>

(* At the end of the text an open comment or string is an error, at the    *)
(* line after the last newline; no record is parsed then.                  *)
EndStrip ==
  /\ at > Len(combined) /\ at > 0 /\ error = 0
  /\ depth > 0 \/ quoted
  /\ error' = Len(combined) + 1
  /\ records' = {}
  /\ UNCHANGED <<files, file, combined, spans, start, at, depth, quoted,
                 number, here>>

Done == at > Len(combined) /\ at > 0 /\ (error > 0 \/ (depth = 0 /\ ~quoted))

Next == AddFile \/ StartStrip \/ StripLine \/ EndStrip

-----------------------------------------------------------------------------
SpansOf(n) ==
  {i \in DOMAIN spans : spans[i].start <= n /\ n < spans[i].start + spans[i].count}

(* remap_line returns the first span that holds the number. *)
Remap(n) ==
  LET i == CHOOSE k \in SpansOf(n) : \A j \in SpansOf(n) : k <= j
  IN  <<i, n - spans[i].start + 1>>

(* The line numbers a diagnostic can carry: a later phase's is the number  *)
(* of some record, the scanner's own is the error's.                       *)
DiagnosticLines ==
  {r[1] : r \in records} \cup (IF error > 0 THEN {error} ELSE {})
=============================================================================
