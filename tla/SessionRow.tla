----------------------------- MODULE SessionRow -----------------------------
(***************************************************************************)
(* What a line of a log changes of its session's row on the dashboard: the *)
(* event part of reduceLine (codexobserver observer.go) and the Reduce     *)
(* functions of claudeobserver and geminiobserver, for a session that      *)
(* exists.  A row is its status, its current tool and its last activity;   *)
(* directory, source, title, turn and tool names are left out.             *)
(***************************************************************************)
EXTENDS Integers, Sequences

Adapters == {"codex", "claude", "gemini"}

\* A line is its types and the parts of its content, and a text the number of
\* its runes.  role: the role of a Codex message; "" for what is not there.
\* The outer type of a line that is no JSON is "unreadable".
Parts == [part : {"text", "tool_use", "tool_result", "other"}, runes : Nat]
Lines == [outer : STRING, type : STRING, role : STRING, parts : Seq(Parts),
          at : Nat]

Rows == [status : {"unknown", "active", "idle", "completed", "aborted"},
         tool : {"none", "running", "finished"}, at : Nat]

NewRow(adapter) ==
    [status |-> IF adapter = "codex" THEN "unknown" ELSE "idle",
     tool |-> "none", at |-> 0]

Calls == {"function_call", "custom_tool_call"}
Outputs == {"function_call_output", "custom_tool_call_output"}

EventType(line) ==
    IF line.outer \in {"event_msg", "response_item"} THEN line.type
                                                     ELSE line.outer

\* A result says nothing of a tool that nobody has called.
Finished(row) == IF row.tool = "none" THEN row.tool ELSE "finished"

\* The switch of reduceLine.
Told(row, type) ==
    CASE type = "task_started"  -> [row EXCEPT !.status = "active"]
      [] type = "task_complete" -> [row EXCEPT !.status = "completed"]
      [] type = "turn_aborted"  -> [row EXCEPT !.status = "aborted"]
      [] type \in Calls         -> [row EXCEPT !.status = "active",
                                               !.tool = "running"]
      [] type \in Outputs       -> [row EXCEPT !.tool = Finished(row)]
      [] type = "user_message" /\ row.status \in {"completed", "aborted"}
                                -> [row EXCEPT !.status = "idle"]
      [] OTHER                  -> row

CodexRowAnyTime(row, line, continued) ==      \* mutant of CodexRow
    Told([row EXCEPT !.at = line.at], EventType(line))

\* A line of a continuation that is older than the row says nothing.
CodexRow(row, line, continued) ==
    IF continued /\ row.at > line.at THEN row
    ELSE Told([row EXCEPT !.at = line.at], EventType(line))

\* The session_meta line of a continuation's log.
Continued(row, at) == IF at > row.at THEN [row EXCEPT !.at = at] ELSE row

\* A line that is no JSON; in a Codex log it also makes now, when it is read,
\* the time of the session's last activity.
Unreadable(row, at) == [row EXCEPT !.status = "unknown", !.at = at]

Has(line, part) == \E i \in DOMAIN line.parts : line.parts[i].part = part

ClaudeRow(row, line) ==
    LET next == [row EXCEPT !.at = line.at] IN
    CASE line.outer = "user"
           -> [next EXCEPT !.status = "active",
                 !.tool = IF Has(line, "tool_result") THEN Finished(row) ELSE @]
      [] line.outer = "assistant" /\ Has(line, "tool_use")
           -> [next EXCEPT !.status = "active", !.tool = "running"]
      [] line.outer = "assistant" /\ ~Has(line, "tool_use")
           -> [next EXCEPT !.status = "idle"]
      [] line.outer = "system" /\ line.type = "error"
           -> [next EXCEPT !.status = "aborted"]
      [] OTHER -> next

GeminiRow(row, line) ==
    LET next == [row EXCEPT !.at = line.at] IN
    CASE line.outer = "user"   -> [next EXCEPT !.status = "active"]
      [] line.outer = "gemini" -> [next EXCEPT !.status = "idle"]
      [] OTHER -> next
=============================================================================
