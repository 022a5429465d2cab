---------------------------- MODULE MCDetailView ----------------------------
(* Model-checking constants of DetailView.  Codex: one text at three times in *)
(* both representations, a long text, another role, a tool call, and a line   *)
(* that is no event; or turns and tools in two logs.  Claude Code: texts,     *)
(* tools and results, several in a line.  Gemini CLI: a text of either side.  *)
EXTENDS DetailView

Part(part, runes) == [part |-> part, runes |-> runes]

Line(outer, type, role, parts, at) ==
    [outer |-> outer, type |-> type, role |-> role, parts |-> parts, at |-> at]

Typed(role, runes, at) ==
    Line("event_msg", IF role = "user" THEN "user_message" ELSE "agent_message",
         "", <<Part("text", runes)>>, at)
Replied(role, runes, at) ==
    Line("response_item", "message", role, <<Part("text", runes)>>, at)

CodexLines ==
    {Typed("user", 1, at) : at \in 0 .. 2} \cup {Typed("user", 3, 0)}
    \cup {Replied("user", 1, at) : at \in 0 .. 2} \cup {Replied("user", 3, 0)}
    \cup {Typed("assistant", 1, 0), Replied("assistant", 1, 0),
          Replied("developer", 1, 0),
          Line("response_item", "function_call", "", <<Part("text", 1)>>, 1)}

ClaudeLines ==
    {Line("user", "", "", parts, 1) :
        parts \in {<<Part("text", 1)>>, <<Part("text", 3)>>,
                   <<Part("tool_result", 2), Part("text", 1)>>}}
    \cup {Line("assistant", "", "", parts, 0) :
        parts \in {<<Part("text", 1), Part("tool_use", 0)>>,
                   <<Part("tool_use", 0), Part("other", 1)>>}}

Broken(at) == Line("unreadable", "", "", <<>>, at)

GeminiLines ==
    {Line("user", "", "", <<Part("text", runes)>>, 1) : runes \in 0 .. 3}
    \cup {Line("gemini", "", "", <<Part("text", 1)>>, 0), Broken(2)}

Turn(type, at) == Line("event_msg", type, "", <<>>, at)
TurnLines ==
    {Turn(type, at) : type \in {"task_started", "turn_aborted"}, at \in 0 .. 2}
    \cup {Turn("task_complete", 2), Typed("user", 1, 1), Broken(1)}
    \cup {Line("response_item", type, "", <<Part("text", 1)>>, at) :
            type \in {"function_call", "function_call_output"}, at \in 1 .. 2}

Of(agent, lines, most, resumed) ==
    [adapter |-> agent, lines |-> lines, most |-> most, resumed |-> resumed]

SomeLogs ==
    <<Of("codex", CodexLines, 5, {}), Of("codex", TurnLines, 4, {1, 2}),
      Of("claude", ClaudeLines, 5, {}), Of("gemini", GeminiLines, 5, {})>>
=============================================================================
