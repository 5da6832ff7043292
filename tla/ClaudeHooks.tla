----------------------------- MODULE ClaudeHooks -----------------------------
(***************************************************************************)
(* What one Claude hook record or tool call says of its session, and what  *)
(* becomes of that as it ages (core/src/claude.ts).                        *)
(***************************************************************************)
EXTENDS Integers

CONSTANTS
  ToolsUsed,                 \* the families of tools that Claude uses
  ActiveWindow, DoneWindow   \* RECENT_CLAUDE_HOOK_ACTIVE_WINDOW_MS,
                             \* RECENT_DONE_WINDOW_MS, in ticks

ASSUME ClaudeTools ==
  ToolsUsed \subseteq {"Edit", "Bash", "Test", "Read", "Task", "Other"}
ASSUME ClaudeWindows == ActiveWindow \in Nat /\ DoneWindow \in Nat
                        /\ ActiveWindow <= DoneWindow

Transient == {"planning", "scanning", "thinking", "editing", "running",
              "validating", "delegating"}

Summary(state, ongoing, needs, at) ==
  [state |-> state, ongoing |-> ongoing, needs |-> needs, at |-> at]
NoSummary == Summary("none", FALSE, "none", -1)

ToolState == [Edit |-> "editing", Bash |-> "running", Test |-> "validating",
              Read |-> "scanning", Task |-> "delegating"]

\* claudeToolSummary: a tool of no known family has no summary.
ToolSummary(tool, failed, at) ==
  IF tool \notin DOMAIN ToolState THEN NoSummary
  ELSE Summary(IF failed THEN "blocked" ELSE ToolState[tool],
               ~failed, "none", at)

ToolEvents == [event : {"PreToolUse", "PostToolUse", "PostToolUseFailure"},
               tool : ToolsUsed]
\* The other hook events, by what their summary is.
Asking == [PermissionRequest |-> <<"blocked", "approval">>,
           Elicitation |-> <<"waiting", "input">>]
Planning == {"UserPromptSubmit", "SessionStart", "ElicitationResult",
             "AgentsOfficePermissionDecision"}
Thinking == {"PreCompact", "PostToolBatch", "MessageDisplay",
             "NotificationOther"}
Ending == {"Stop", "TaskCompleted", "SessionEnd", "SubagentStop"}
Failing == {"StopFailure", "PermissionDenied", "NotificationError"}
Idling == {"TeammateIdle", "NotificationWait"}

\* summariseClaudeHookRecord
HookSummary(r) ==
  LET e == r.event.event IN
  CASE e \in DOMAIN Asking -> Summary(Asking[e][1], TRUE, Asking[e][2], r.at)
    [] e \in Planning -> Summary("planning", TRUE, "none", r.at)
    [] e \in Thinking -> Summary("thinking", TRUE, "none", r.at)
    [] e \in {"SubagentStart", "TaskCreated"} ->
         Summary("delegating", TRUE, "none", r.at)
    [] e = "FileChanged" -> Summary("editing", TRUE, "none", r.at)
    [] e \in Ending -> Summary("done", FALSE, "none", r.at)
    [] e \in Failing -> Summary("blocked", FALSE, "none", r.at)
    [] e \in Idling -> Summary("waiting", TRUE, "none", r.at)
    [] OTHER -> ToolSummary(r.event.tool, e = "PostToolUseFailure", r.at)

Old(at, now, window) == now - at > window

\* What settles a message or a tool as the time passes.
Faded(at, now, fresh) ==
  IF ~Old(at, now, ActiveWindow) THEN fresh
  ELSE IF ~Old(at, now, DoneWindow) THEN "done" ELSE "idle"

AgedSummary_OnlyOngoing(s, now) ==
  IF s.ongoing /\ Old(s.at, now, DoneWindow)
    THEN [s EXCEPT !.state = "idle", !.ongoing = FALSE] ELSE s

\* ageClaudeSummary: what waits for somebody does not age.
AgedSummary(s, now) ==
  IF \/ s.needs # "none" \/ s.state \notin Transient
     \/ ~Old(s.at, now, ActiveWindow)
    THEN s
    ELSE [s EXCEPT !.state = Faded(s.at, now, s.state), !.ongoing = FALSE]
=============================================================================
