------------------------------ MODULE Transcript ------------------------------
(***************************************************************************)
(* The transcript of a run (_Transcript of core/contract_logger.py): lines *)
(* of different lengths, of which a file of limited size keeps the         *)
(* beginning and the end, and says exactly what is missing between them.   *)
(***************************************************************************)
EXTENDS Integers, Sequences, SequencesExt

CONSTANTS
  Budget,      \* bytes the file may hold, without the omission notice
  Lengths,     \* bytes of a line
  MaxLines     \* bound: lines of a transcript

ASSUME TranscriptAssumption == Budget \in Nat /\ Lengths \subseteq Nat \ {0} /\ MaxLines \in Nat

VARIABLES
  transcript,  \* what is kept
  said         \* history: every line

transcriptVars == <<transcript, said>>

Size(lines) == FoldLeft(+, 0, lines)

EmptyTranscript == [head |-> <<>>, tail |-> <<>>, lines |-> 0, bytes |-> 0, full |-> FALSE]

\* The shortest beginning of a tail whose removal makes room
Excess(head, tail) ==
  CHOOSE n \in 0 .. Len(tail) :
    /\ Size(head) + Size(SubSeq(tail, n + 1, Len(tail))) <= Budget
    /\ \A m \in 0 .. n - 1 : Size(head) + Size(SubSeq(tail, m + 1, Len(tail))) > Budget

\* Mutated: a later, shorter line still goes to the beginning
KeepGreedily(t, line) ==
  IF Size(t.head) + line <= Budget \div 2
  THEN [t EXCEPT !.head = Append(@, line)]
  ELSE LET tail == Append(t.tail, line)
           n == Excess(t.head, tail)
       IN [t EXCEPT !.full = TRUE, !.tail = SubSeq(tail, n + 1, Len(tail)),
                    !.lines = @ + n, !.bytes = @ + Size(SubSeq(tail, 1, n))]

\* A line that does not fit the first half ends the beginning, for good
Keep(t, line) ==
  IF ~t.full /\ Size(t.head) + line <= Budget \div 2
  THEN [t EXCEPT !.head = Append(@, line)]
  ELSE LET tail == Append(t.tail, line)
           n == Excess(t.head, tail)
       IN [t EXCEPT !.full = TRUE, !.tail = SubSeq(tail, n + 1, Len(tail)),
                    !.lines = @ + n, !.bytes = @ + Size(SubSeq(tail, 1, n))]

\* write: the notice stands where the lines are missing
Written(t) == [before |-> t.head, noticed |-> t.lines > 0, after |-> t.tail]

TranscriptInit == transcript = EmptyTranscript /\ said = <<>>

SayLine ==
  /\ Len(said) < MaxLines
  /\ \E line \in Lengths : /\ transcript' = Keep(transcript, line)
                           /\ said' = Append(said, line)

TranscriptSpec == TranscriptInit /\ [][SayLine]_transcriptVars

-----------------------------------------------------------------------------
(* Properties *)

\* Hazard: a run says more than its transcript may hold.  The file stays within
\* its limit, what it shows is the beginning and the end of what was said, and the
\* lines and bytes it reports as missing are exactly those that stood between them.
TranscriptIsExact ==
  LET file == Written(transcript)
      kept == Len(file.before) + Len(file.after)
  IN /\ Size(file.before) + Size(file.after) <= Budget
     /\ IsPrefix(file.before, said) /\ IsSuffix(file.after, said)
     /\ transcript.lines = Len(said) - kept
     /\ transcript.bytes = Size(said) - Size(file.before) - Size(file.after)
     /\ file.noticed <=> kept < Len(said)
=============================================================================
