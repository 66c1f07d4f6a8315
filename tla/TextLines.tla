------------------------------- MODULE TextLines -------------------------------
(***************************************************************************)
(* _Lines of contracts/stream.py: bytes become lines of bounded length, an *)
(* oversized line is dropped up to its end, and the rest is flushed when   *)
(* the stream ends.  "shown" is what reached the display, without line     *)
(* ends; "omitted" says that something was dropped.                        *)
(***************************************************************************)
EXTENDS SequencesExt, Integers

NL == "nl"

NewLines == [pending |-> <<>>, discarding |-> FALSE, shown |-> <<>>, omitted |-> FALSE]

FlushLines(lines) ==
  [pending |-> <<>>, discarding |-> FALSE,
   shown |-> lines.shown \o lines.pending, omitted |-> lines.omitted]

\* One byte; the code takes the bytes up to a newline at once, with the same result
FeedChar(lines, char, limit) ==
  CASE char = NL -> FlushLines(lines)
    [] char # NL /\ lines.discarding -> lines
    [] char # NL /\ ~lines.discarding /\ Len(lines.pending) >= limit ->
         [lines EXCEPT !.pending = <<>>, !.discarding = TRUE, !.omitted = TRUE]
    [] OTHER -> [lines EXCEPT !.pending = Append(@, char)]

Feed(lines, chunk, limit) ==
  FoldLeft(LAMBDA state, char: FeedChar(state, char, limit), lines, chunk)

\* lines.pending.clear(): what was not shown yet is forgotten
Withhold(lines) ==
  [pending |-> <<>>, discarding |-> lines.discarding,
   shown |-> lines.shown, omitted |-> lines.omitted]

\* What a text shows when all of it is shown
Visible(text) ==
  FoldLeft(LAMBDA seen, char: IF char = NL THEN seen ELSE Append(seen, char), <<>>, text)
=============================================================================
