----------------------------- MODULE DetailView -----------------------------
(***************************************************************************)
(* What is read from the logs of one session from their first line on: its *)
(* row, as after a start of the Connector, and the answer to View details, *)
(* the events with limits in the order of their times (codexobserver       *)
(* detail.go; lineobserver Detail).  Codex writes most messages twice, as  *)
(* an event_msg and as a response_item; its adapter shows them once.       *)
(*                                                                         *)
(* The nesting that text extraction looks through and the repair of        *)
(* mis-decoded tool output are left out.  A step is a line or an event.    *)
(***************************************************************************)
EXTENDS SessionRow, SequencesExt

CONSTANTS
    Logs,         \* bound: kinds of logs, each the adapter, the lines that may
                  \* be read, at most how many, when a continuation may begin;
                  \* no line is newer than the time it is read at
    EventLimit,   \* maxDetailEvents
    RuneLimit,    \* maxDetailTotalRunes
    TextLimit,    \* maxDetailContentRunes
    Window,       \* detailDuplicateWindow
    Now           \* bound: when the logs are read

\* source: the outer type of a Codex line, which tells the two representations
\* of a message apart.
Messages == {"user_message", "assistant_message"}
Kinds == Messages \cup {"tool_call", "tool_result"}
Events == [kind : Kinds, content : Nat \ {0}, source : STRING, at : Nat]

ASSUME DetailAssumption ==
    /\ \A k \in DOMAIN Logs : /\ Logs[k].adapter \in Adapters
                              /\ \A line \in Logs[k].lines :
                                    line \in Lines /\ line.at <= Now
                              /\ Logs[k].most \in Nat
                              /\ Logs[k].resumed \subseteq Nat
    /\ {EventLimit, RuneLimit, Window, Now} \subseteq Nat
    /\ TextLimit \in Nat \ {0}

VARIABLES
    log,         \* the kind of the session's logs
    read,        \* history: the lines read so far
    own,         \* how many of them are of the session's own log
    began,       \* the time the continuation's log, if it is read, starts with
    row,         \* the session's row after them
    queue,       \* the events of the latest line that are still to be taken
    candidates,  \* those kept of them
    totalRunes,
    truncated,
    phase        \* "reading"; "answered" or "failed" once Detail has returned

position == <<log, read, own, began>>
view == <<candidates, totalRunes, truncated>>
vars == <<position, row, queue, view, phase>>

adapter == Logs[log].adapter
NotYet == -1
continued == began # NotYet

Init ==
    /\ log \in DOMAIN Logs
    /\ read = <<>> /\ own = 0 /\ began = NotYet
    /\ row = NewRow(Logs[log].adapter) /\ queue = <<>>
    /\ candidates = <<>> /\ totalRunes = 0 /\ truncated = FALSE
    /\ phase = "reading"

-----------------------------------------------------------------------------
(* The events of a line.                                                   *)

Dots == 3     \* the runes of the "..." that lineobserver's Sanitize appends
\* sanitizeDetail cuts a text at TextLimit, Sanitize marks the cut.
Cut(n) == IF n <= TextLimit THEN n
          ELSE TextLimit + (IF adapter = "codex" THEN 0 ELSE Dots)

Runes(parts) == FoldLeft(LAMBDA sum, part : sum + part.runes, 0, parts)

Only(parts, kinds) ==
    FlattenSeq([i \in DOMAIN parts |-> IF parts[i].part \in kinds
                                       THEN <<parts[i]>> ELSE <<>>])

\* No event for an empty text.
Event(kind, runes, line) ==
    IF runes = 0 THEN <<>>
    ELSE <<[kind |-> kind, content |-> Cut(runes), source |-> line.outer,
            at |-> line.at]>>

\* detailEventWithSource: at most one event, by the two types and the role.
CodexKind(line) ==
    CASE \/ line.outer = "event_msg" /\ line.type = "user_message"
         \/ /\ line.outer = "response_item" /\ line.type = "message"
            /\ line.role = "user"
              -> "user_message"
      [] \/ line.outer = "event_msg" /\ line.type = "agent_message"
         \/ /\ line.outer = "response_item" /\ line.type = "message"
            /\ line.role = "assistant"
              -> "assistant_message"
      [] line.outer = "response_item" /\ line.type \in Calls   -> "tool_call"
      [] line.outer = "response_item" /\ line.type \in Outputs -> "tool_result"
      [] OTHER -> "none"

CodexEvents(line) ==
    IF CodexKind(line) = "none" THEN <<>>
    ELSE Event(CodexKind(line), Runes(line.parts), line)

\* A user line is its first tool result, and the user's text only when it has
\* none; an assistant line is an event per text and per tool, whose arguments
\* are not shown (its fixed text counts as one rune).
ClaudeEvents(line) ==
    LET results == Only(line.parts, {"tool_result"}) IN
    CASE line.outer = "user" /\ results # <<>>
              -> Event("tool_result", Head(results).runes, line)
      [] line.outer = "user" /\ results = <<>>
              -> Event("user_message", Runes(Only(line.parts, {"text"})), line)
      [] line.outer = "assistant"
              -> FlattenSeq([i \in DOMAIN line.parts |->
                    CASE line.parts[i].part = "text"
                           -> Event("assistant_message", line.parts[i].runes,
                                    line)
                      [] line.parts[i].part = "tool_use"
                           -> Event("tool_call", 1, line)
                      [] OTHER -> <<>>])
      [] OTHER -> <<>>

GeminiEvents(line) ==
    CASE line.outer = "user"
              -> Event("user_message", Runes(line.parts), line)
      [] line.outer = "gemini"
              -> Event("assistant_message", Runes(line.parts), line)
      [] OTHER -> <<>>

EventsOf(line) ==
    CASE adapter = "codex"  -> CodexEvents(line)
      [] adapter = "claude" -> ClaudeEvents(line)
      [] adapter = "gemini" -> GeminiEvents(line)

RowAfter(line) ==
    IF line.outer = "unreadable"
    THEN Unreadable(row, IF adapter = "codex" THEN Now ELSE line.at)
    ELSE CASE adapter = "codex"  -> CodexRow(row, line, continued)
           [] adapter = "claude" -> ClaudeRow(row, line)
           [] adapter = "gemini" -> GeminiRow(row, line)

Read(line) ==
    /\ phase = "reading" /\ queue = <<>> /\ Len(read) < Logs[log].most
    /\ read' = Append(read, line)
    /\ own' = IF continued THEN own ELSE own + 1
    /\ row' = RowAfter(line)
    /\ queue' = EventsOf(line)
    /\ UNCHANGED <<log, began, view, phase>>

\* The next log is that of the continuation, with a session_meta line.
ReadContinuation(at) ==
    /\ phase = "reading" /\ queue = <<>>
    /\ adapter = "codex" /\ ~continued
    /\ began' = at
    /\ row' = Continued(row, at)
    /\ UNCHANGED <<log, read, own, queue, view, phase>>

-----------------------------------------------------------------------------
(* The limits and the merge.                                               *)

CrossAny(left, right) == TRUE                 \* mutant of Cross
\* isCrossRepresentation.
Cross(left, right) == left.source # right.source

TogetherAlways(left, right) == TRUE           \* mutant of Together
Together(left, right) ==
    left.at - right.at \in -Window .. Window

SameMessage(left, right) ==
    /\ left.kind \in Messages
    /\ left.kind = right.kind /\ left.content = right.content
    /\ Cross(left, right) /\ Together(left, right)

\* The candidates that findDuplicateCandidate may return; it takes the last.
Duplicates(event) ==
    IF adapter = "codex"
    THEN {i \in DOMAIN candidates : SameMessage(candidates[i], event)}
    ELSE {}

\* The representation as event_msg is the one that is shown.
Merge(event) ==
    /\ Duplicates(event) # {}
    /\ candidates' = IF event.source = "event_msg"
                     THEN ReplaceAt(candidates, Max(Duplicates(event)), event)
                     ELSE candidates
    /\ UNCHANGED <<totalRunes, truncated>>

FitsLate(event) ==                            \* mutant of Fits
    /\ Len(candidates) <= EventLimit
    /\ totalRunes + event.content <= RuneLimit
FitsAnySize(event) ==                         \* mutant of Fits
    Len(candidates) < EventLimit
Fits(event) ==
    /\ Len(candidates) < EventLimit
    /\ totalRunes + event.content <= RuneLimit

Keep(event) ==
    /\ Duplicates(event) = {} /\ Fits(event)
    /\ candidates' = Append(candidates, event)
    /\ totalRunes' = totalRunes + event.content
    /\ UNCHANGED truncated

\* A later, shorter event may still fit.
Drop(event) ==
    /\ Duplicates(event) = {} /\ ~Fits(event)
    /\ truncated' = TRUE
    /\ UNCHANGED <<candidates, totalRunes>>

Take ==
    /\ phase = "reading" /\ queue # <<>>
    /\ queue' = Tail(queue)
    /\ \/ Merge(Head(queue)) \/ Keep(Head(queue)) \/ Drop(Head(queue))
    /\ UNCHANGED <<position, row, phase>>

\* A file cannot be opened, or has a line beyond the scanner's buffer: there is
\* no answer at all.
Fail ==
    /\ phase = "reading" /\ queue = <<>>
    /\ phase' = "failed"
    /\ candidates' = <<>>
    /\ UNCHANGED <<position, row, queue, totalRunes, truncated>>

\* sort.SliceStable by time.  The code compares the strings of the logs, which
\* order like numbers as long as they are written with one precision.
Before(i, j) ==
    \/ candidates[i].at < candidates[j].at
    \/ candidates[i].at = candidates[j].at /\ i <= j

Sorted ==
    [n \in DOMAIN candidates |->
       candidates[CHOOSE j \in DOMAIN candidates :
                     Cardinality({i \in DOMAIN candidates : Before(i, j)}) = n]]

Answer ==
    /\ phase = "reading" /\ queue = <<>>
    /\ phase' = "answered"
    /\ candidates' = Sorted
    /\ UNCHANGED <<position, row, queue, totalRunes, truncated>>

Next ==
    \/ \E line \in Logs[log].lines : Read(line)
    \/ \E at \in Logs[log].resumed : ReadContinuation(at)
    \/ Take \/ Fail \/ Answer

Spec == Init /\ [][Next]_vars
-----------------------------------------------------------------------------
(* Properties.                                                             *)

\* Every variable keeps its type.
TypeOK ==
    /\ log \in DOMAIN Logs /\ read \in Seq(Lines) /\ row \in Rows
    /\ own \in 0 .. Len(read) /\ began \in Nat \cup {NotYet}
    /\ queue \in Seq(Events) /\ candidates \in Seq(Events)
    /\ totalRunes \in 0 .. RuneLimit /\ truncated \in BOOLEAN
    /\ phase \in {"reading", "answered", "failed"}

\* The guide: "The detail view has event and total-size limits": what is kept
\* respects both, although events replace each other, and neither limit is
\* spent on events that are not shown.
LimitsKept ==
    phase # "failed" =>
       /\ Len(candidates) <= EventLimit
       /\ FoldLeft(LAMBDA sum, e : sum + e.content, 0, candidates) = totalRunes
       /\ totalRunes <= RuneLimit

\* shown is event, or the other representation of the same message.
Stands(shown, event) ==
    \/ shown = event
    \/ /\ adapter = "codex" /\ event.kind \in Messages
       /\ shown.kind = event.kind /\ shown.content = event.content
       /\ shown.source # event.source
       /\ shown.at - event.at \in -Window .. Window

\* The events of the lines read, in their order.
AllEvents == FlattenSeq([i \in DOMAIN read |-> EventsOf(read[i])])

\* Every event read is shown, itself or the other representation of the same
\* message at most a Window away, unless the answer says it is truncated: the
\* replacement of candidates forgets no message, however many are alike.
NothingForgotten ==
    truncated \/ phase = "failed" \/
       LET all == AllEvents IN
       \A i \in 1 .. Len(all) - Len(queue) :
          \E j \in DOMAIN candidates : Stands(candidates[j], all[i])

\* The messages of the lines read.
MessagesOf(events) ==
    FlattenSeq([i \in DOMAIN events |-> IF events[i].kind \in Messages
                                        THEN <<events[i]>> ELSE <<>>])
Halves == MessagesOf(AllEvents)

\* Every message is there twice, one half after the other.
WrittenTwice(halves) ==
    /\ Len(halves) % 2 = 0
    /\ \A i \in DOMAIN halves :
          i % 2 = 1 => halves[i] # halves[i + 1]
                       /\ Stands(halves[i], halves[i + 1])

\* detail_test.go: "same-source user messages must remain distinct" and
\* "separate assistant turns must remain distinct": when Codex writes every
\* message twice, one after the other in either order, each is shown exactly
\* once, even if the same text is sent again within the Window.
MessagesShownOnce ==
    (adapter = "codex" /\ queue = <<>> /\ ~truncated /\ phase # "failed") =>
       LET halves == Halves IN
       WrittenTwice(halves) =>
          2 * Cardinality({i \in DOMAIN candidates :
                              candidates[i].kind \in Messages}) = Len(halves)

\* The lines of a log are in the order of their times.
Later(i, j) ==
    \/ read[i].at > read[j].at
    \/ read[i].at = read[j].at /\ i >= j

InOrder ==
    \A i \in DOMAIN read :
       /\ i > own => read[i].at >= began
       /\ \A j \in 1 .. i : i <= own \/ j > own => Later(i, j)

Readable == \A i \in DOMAIN read : read[i].outer # "unreadable"

\* The row agrees with what a line says of the status and the tool.
Agrees(line) ==
    LET type == EventType(line) IN
    /\ type = "task_started" => row.status = "active"
    /\ type = "task_complete" => row.status = "completed"
    /\ type = "turn_aborted" => row.status = "aborted"
    /\ type \in Calls => row.status = "active" /\ row.tool = "running"
    /\ type \in Outputs => row.tool # "running"
    /\ line.outer = "unreadable" => row.status = "unknown"

\* Test of observer_test.go: "observer restart must rebuild sessions from local
\* JSONL": read again from their first lines, one log after the other, the logs
\* of a session and its continuation give the row that the latest of all lines
\* calls for, whichever log it is in.  (An unreadable line makes every line of
\* the continuation after it older than the row: the row stays unknown.)
LatestDecides ==
    adapter = "codex" /\ InOrder /\ (continued => Readable) =>
       \A i \in DOMAIN read :
          (\A j \in DOMAIN read : Later(i, j)) =>
             row.at >= read[i].at /\ Agrees(read[i])
=============================================================================
