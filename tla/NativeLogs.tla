------------------------------ MODULE NativeLogs ------------------------------
(***************************************************************************)
(* NativeLogStream of contracts/native_logs.py: the supervisor mirrors     *)
(* what a native agent appends to the .log files of one directory, reads   *)
(* bounded chunks between its other work, and gives up, with a notice, on  *)
(* anything that is not a growing ordinary file.                           *)
(***************************************************************************)
EXTENDS TextLines, FiniteSets

CONSTANTS
  LogNames,     \* names the agent gives its log files
  FileLimit,    \* _MAX_FILES
  ByteLimit,    \* _MAX_BYTES
  ChunkLimit,   \* _CHUNK
  LineLimit,    \* TEXT_LINE_BYTES
  MaxLog        \* bound: length of a log file

ASSUME LogAssumption ==
  {FileLimit, ByteLimit, ChunkLimit, LineLimit, MaxLog} \subseteq Nat /\ ChunkLimit # 0

VARIABLES
  logs,      \* the directory: name -> identity and content; "linked" is no plain file
  redirected,\* the directory is not the one that was seen first
  tails,     \* _tails
  disabled,  \* _disabled
  warned,    \* _notices
  mirrored,  \* _bytes
  todo,      \* the files this poll has still to read
  moved,     \* bytes that this poll read so far
  ending,    \* finish() was called
  shut       \* _closed

logVars == <<logs, redirected, tails, disabled, warned, mirrored, todo, moved, ending, shut>>
watched == <<logs, redirected>>

LogChars == {"a", NL}
Files == [id: 1 .. 2, data: UNION {[1 .. n -> LogChars] : n \in 0 .. MaxLog}, plain: BOOLEAN, grows: BOOLEAN]

Warn(key) == warned' = warned \cup {key}

\* A mapping with one entry set
SetEntry(mapping, key, entry) ==
  [other \in DOMAIN mapping \cup {key} |-> IF other = key THEN entry ELSE mapping[other]]

-----------------------------------------------------------------------------

\* The head of poll(): the limit, the directory, and the number of files
PollBegins ==
  /\ ~shut /\ todo = {}
  /\ ending = (moved > 0)
  /\ IF mirrored >= ByteLimit
     THEN Warn("limit") /\ moved' = 0 /\ UNCHANGED <<todo, tails, shut>>
     ELSE IF redirected \/ Cardinality(DOMAIN logs \cup DOMAIN tails \cup disabled) > FileLimit
     THEN Warn("directory") /\ shut' = TRUE /\ tails' = <<>> /\ moved' = 0 /\ UNCHANGED todo
     ELSE todo' = DOMAIN logs \ disabled /\ moved' = 0 /\ UNCHANGED <<warned, tails, shut>>
  /\ UNCHANGED <<watched, disabled, mirrored, ending>>

Without(name) == [other \in DOMAIN tails \ {name} |-> tails[other]]

TailOf(name) ==
  IF name \in DOMAIN tails THEN tails[name]
  ELSE [id |-> logs[name].id, offset |-> 0, lines |-> NewLines]

\* Not an ordinary file, not the same file, or shorter than what was read
Changed(name) ==
  \/ ~logs[name].plain
  \/ logs[name].id # TailOf(name).id
  \/ Len(logs[name].data) < TailOf(name).offset

Least(a, b) == IF a <= b THEN a ELSE b

\* Mutated: the offset is where the file ends
ChunkToEnd(name) ==
  LET from == IF name \in DOMAIN tails THEN TailOf(name).offset ELSE Least(1, Len(logs[name].data))
  IN  SubSeq(logs[name].data, from + 1,
             Least(Len(logs[name].data), from + Least(ChunkLimit, ByteLimit - mirrored)))

\* stream.seek(offset) and one read
Chunk(name) ==
  LET from == TailOf(name).offset
  IN  SubSeq(logs[name].data, from + 1,
             Least(Len(logs[name].data), from + Least(ChunkLimit, ByteLimit - mirrored)))

\* _read: one bounded chunk of one file
ReadLog(name) ==
  /\ name \in todo /\ todo' = todo \ {name}
  /\ IF mirrored >= ByteLimit THEN UNCHANGED <<tails, disabled, warned, mirrored, moved>>
     ELSE IF Changed(name)
     THEN /\ disabled' = disabled \cup {name} /\ tails' = Without(name) /\ Warn("changed")
          /\ UNCHANGED <<mirrored, moved>>
     ELSE LET chunk == Chunk(name)
              fed == Feed(TailOf(name).lines, chunk, LineLimit)
          IN  /\ tails' = SetEntry(tails, name, [id |-> TailOf(name).id,
                                              offset |-> TailOf(name).offset + Len(chunk),
                                              lines |-> fed])
              /\ mirrored' = mirrored + Len(chunk)
              /\ moved' = moved + Len(chunk)
              /\ warned' = warned \cup (IF fed.omitted THEN {"line"} ELSE {})
              /\ UNCHANGED disabled
  /\ UNCHANGED <<watched, ending, shut>>

\* A file that cannot be opened or read this time (bound: this is noticed once)
ReadFails(name) ==
  /\ name \in todo /\ warned = {} /\ todo' = todo \ {name}
  /\ Warn("read")
  /\ UNCHANGED <<watched, tails, disabled, mirrored, moved, ending, shut>>

\* The supervisor does other work before it polls again
PollEnds ==
  /\ ~shut /\ ~ending /\ todo = {} /\ moved > 0
  /\ moved' = 0
  /\ UNCHANGED <<watched, tails, disabled, warned, mirrored, todo, ending, shut>>

\* finish(), after the agent has ended: poll until nothing moves
FinishLogs ==
  /\ ~shut /\ ~ending /\ todo = {} /\ moved = 0
  /\ ending' = TRUE /\ moved' = 1
  /\ UNCHANGED <<watched, tails, disabled, warned, mirrored, todo, shut>>

\* Nothing moved: show the last lines, unless the limit was reached
FlushLogs ==
  /\ ending /\ ~shut /\ todo = {} /\ moved = 0
  /\ shut' = TRUE
  /\ tails' = IF mirrored >= ByteLimit THEN tails
              ELSE [name \in DOMAIN tails |-> [tails[name] EXCEPT !.lines = FlushLines(@)]]
  /\ UNCHANGED <<watched, disabled, warned, mirrored, todo, moved, ending>>

-----------------------------------------------------------------------------
(* The agent and its directory *)

AppendLog(name, char) ==
  /\ name \in DOMAIN logs /\ logs[name].grows /\ Len(logs[name].data) < MaxLog
  /\ logs' = [logs EXCEPT ![name].data = Append(@, char)]
  /\ UNCHANGED redirected

CreateLog(name) ==
  /\ name \notin DOMAIN logs
  /\ logs' = SetEntry(logs, name, [id |-> 1, data |-> <<>>, plain |-> TRUE, grows |-> TRUE])
  /\ UNCHANGED redirected

\* Bound: the agent does at most one unexpected thing
Ordinary ==
  /\ ~redirected
  /\ \A name \in DOMAIN logs : logs[name].id = 1 /\ logs[name].plain /\ logs[name].grows

\* Rotation, a link in its place, or truncation.  Logs are append-only: one that
\* was truncated and grew again to its old length could not be told from itself.
ReplaceLog(name) ==
  /\ name \in DOMAIN logs /\ Ordinary
  /\ \/ logs' = [logs EXCEPT ![name] = [@ EXCEPT !.id = 2, !.data = <<>>]]
     \/ logs' = [logs EXCEPT ![name] = [@ EXCEPT !.data = <<>>, !.grows = FALSE]]
     \/ logs' = [logs EXCEPT ![name].plain = FALSE]
  /\ UNCHANGED redirected

LogsChange ==
  /\ ~ending /\ ~shut
  /\ \/ \E name \in LogNames : \/ \E char \in LogChars : AppendLog(name, char)
                               \/ CreateLog(name) \/ ReplaceLog(name)
     \/ Ordinary /\ redirected' = TRUE /\ UNCHANGED logs
  /\ UNCHANGED <<tails, disabled, warned, mirrored, todo, moved, ending, shut>>

Mirror ==
  \/ PollBegins \/ PollEnds \/ FinishLogs \/ FlushLogs
  \/ \E name \in LogNames : ReadLog(name) \/ ReadFails(name)

LogsInit ==
  /\ logs = <<>> /\ redirected = FALSE
  /\ tails = <<>> /\ disabled = {} /\ warned = {} /\ mirrored = 0
  /\ todo = {} /\ moved = 0 /\ ending = FALSE /\ shut = FALSE

-----------------------------------------------------------------------------
(* Properties *)

\* A mirror that ended without a notice showed every byte of every log file once
\* and in order, however the appends fell between its polls.
QuietMirrorIsComplete ==
  (shut /\ warned = {}) =>
     \A name \in DOMAIN logs :
        name \in DOMAIN tails /\ tails[name].lines.shown = Visible(logs[name].data)
=============================================================================
