---------------------------- MODULE ClaudeSession ----------------------------
(***************************************************************************)
(* What the dashboard says of a Claude lead session (core/src/claude.ts,   *)
(* claude-session-registry.ts): the latest summarised hook record, else    *)
(* the transcript, aged by the clock, and over both the status that        *)
(* Claude's own session registry has for a living process.                 *)
(*                                                                         *)
(* Claude itself is outside: it works, asks, ends its turn or dies, and    *)
(* leaves hook records (where the sidecar is installed), transcript lines  *)
(* and, later, its registry entry (where it keeps one).                    *)
(***************************************************************************)
EXTENDS ClaudeHooks, Sequences

CONSTANTS MaxHooks, MaxClock   \* bounds

ASSUME ClaudeBounds == MaxHooks \in Nat /\ MaxClock \in Nat

VARIABLES
  claude,      \* what the process does: off, idle, busy, waiting
  hookLog,     \* the sidecar: [event, at]
  lines,       \* the latest timed text, tool and user line: [tool, at]
  registered,  \* the registry file: [status, at]
  equipped,    \* the installation: which of sidecar and registry there are
  clock

claudeVars == <<claude, hookLog, lines, registered, equipped, clock>>

NoLine == [tool |-> "none", at |-> -1]
Unregistered == [status |-> "none", at |-> -1]

ClaudeInit ==
  /\ claude = "idle" /\ clock = 0 /\ hookLog = <<>>
  /\ lines = [text |-> NoLine, tool |-> NoLine, user |-> NoLine]
  /\ registered = Unregistered
  /\ equipped \in SUBSET {"sidecar", "registry"}

(***************************************************************************)
(* The summary of the session.                                             *)
(***************************************************************************)

\* mergeClaudeAssistantTextSummary
WithText(s) ==
  IF \/ lines.text = NoLine \/ lines.text.at < s.at
     \/ s.needs # "none" \/ s.state \in {"waiting", "blocked"}
    THEN s
    ELSE LET state == Faded(lines.text.at, clock, "thinking") IN
         Summary(state, state = "thinking" /\ s.ongoing, "none",
                 lines.text.at)

Latest(s) == \E i \in DOMAIN hookLog :
  /\ s = HookSummary(hookLog[i]) /\ s # NoSummary
  /\ \A j \in i + 1 .. Len(hookLog) : HookSummary(hookLog[j]) = NoSummary

HookSummaries == {HookSummary(hookLog[i]) : i \in DOMAIN hookLog}

FromTranscript ==
  LET text == lines.text.at  tool == lines.tool.at  user == lines.user.at
      used == ToolSummary(lines.tool.tool, FALSE, tool)
      state == Faded(text, clock, "thinking") IN
  IF text >= 0 /\ text >= tool /\ text >= user
    THEN Summary(state, state = "thinking", "none", text)
  ELSE IF used # NoSummary /\ tool >= user THEN AgedSummary(used, clock)
  ELSE IF user >= 0
    THEN AgedSummary(Summary("planning", TRUE, "none", user), clock)
  ELSE Summary("idle", FALSE, "none", 0)

\* summariseClaudeSession
SessionSummary ==
  IF \E s \in HookSummaries : Latest(s)
    THEN WithText(AgedSummary(CHOOSE s \in HookSummaries : Latest(s), clock))
    ELSE FromTranscript

\* applyClaudeRegistryStatus, on the entries of living processes.
WithRegistry(s) ==
  LET at == IF s.at > registered.at THEN s.at ELSE registered.at IN
  IF registered = Unregistered \/ claude = "off" THEN s
  ELSE CASE registered.status = "busy" ->
         Summary(IF s.state \in Transient THEN s.state ELSE "thinking",
                 TRUE, "none", at)
    [] registered.status = "waiting" ->
         Summary("waiting", TRUE,
                 IF s.needs # "none" THEN s.needs ELSE "placeholder", at)
    [] registered.status = "idle" ->
         IF ~s.ongoing /\ s.state \notin Transient \cup {"waiting"} THEN s
         ELSE Summary(IF Old(at, clock, DoneWindow) THEN "idle" ELSE "done",
                      FALSE, "none", s.at)

ClaudeView == WithRegistry(SessionSummary)

(***************************************************************************)
(* Claude.                                                                 *)
(***************************************************************************)

Plain(e) == [event |-> e, tool |-> "none"]

\* A record is lost where the sidecar is not installed.
Hook(e) ==
  IF "sidecar" \in equipped
    THEN /\ Len(hookLog) < MaxHooks
         /\ hookLog' = Append(hookLog, [event |-> e, at |-> clock])
    ELSE UNCHANGED hookLog

Line(kind, tool) == lines' = [lines EXCEPT ![kind] = [tool |-> tool,
                                                      at |-> clock]]
ClaudeGoes(from, to) == claude \in from /\ claude' = to

Prompted ==
  /\ ClaudeGoes({"idle"}, "busy") /\ Hook(Plain("UserPromptSubmit"))
  /\ Line("user", "none")
  /\ UNCHANGED <<registered, equipped, clock>>

UsesTool(e) ==
  /\ ClaudeGoes({"busy"}, "busy") /\ Hook(e)
  /\ IF e.event = "PreToolUse" THEN Line("tool", e.tool) ELSE UNCHANGED lines
  /\ UNCHANGED <<registered, equipped, clock>>

\* MessageDisplay and the other events of a turn that goes on.
Works(e) ==
  /\ ClaudeGoes({"busy"}, "busy") /\ Hook(Plain(e))
  /\ UNCHANGED <<lines, registered, equipped, clock>>

Speaks ==
  /\ ClaudeGoes({"busy"}, "busy") /\ Line("text", "none")
  /\ UNCHANGED <<hookLog, registered, equipped, clock>>

Asks(e) ==
  /\ ClaudeGoes({"busy"}, "waiting") /\ Hook(Plain(e))
  /\ UNCHANGED <<lines, registered, equipped, clock>>

\* Answered in the terminal, a permission leaves no record of its own; a
\* parallel tool may report while the question stands.
IsAnswered ==
  /\ ClaudeGoes({"waiting"}, "busy")
  /\ UNCHANGED <<hookLog, lines, registered, equipped, clock>>
ReportsMeanwhile(e) ==
  /\ ClaudeGoes({"waiting"}, "waiting") /\ Hook(e)
  /\ UNCHANGED <<lines, registered, equipped, clock>>

EndsTurn(e) ==
  /\ ClaudeGoes({"busy"}, "idle") /\ Hook(Plain(e))
  /\ UNCHANGED <<lines, registered, equipped, clock>>

Notifies(e) ==
  /\ ClaudeGoes({"idle"}, "idle") /\ Hook(Plain(e))
  /\ UNCHANGED <<lines, registered, equipped, clock>>

Leaves ==
  /\ ClaudeGoes({"idle"}, "off") /\ Hook(Plain("SessionEnd"))
  /\ UNCHANGED <<lines, registered, equipped, clock>>

\* Killed, it leaves no record, and its registry entry stays.
Dies ==
  /\ ClaudeGoes({"idle", "busy", "waiting"}, "off")
  /\ UNCHANGED <<hookLog, lines, registered, equipped, clock>>

WritesRegistry ==
  /\ "registry" \in equipped /\ claude # "off"
  /\ registered.status # claude
  /\ registered' = [status |-> claude, at |-> clock]
  /\ UNCHANGED <<claude, hookLog, lines, equipped, clock>>

ClaudeTick ==
  /\ clock < MaxClock /\ clock' = clock + 1
  /\ UNCHANGED <<claude, hookLog, lines, registered, equipped>>

ClaudeNext ==
  \/ Prompted \/ Speaks \/ IsAnswered \/ Leaves \/ Dies
  \/ WritesRegistry \/ ClaudeTick
  \/ \E e \in ToolEvents : UsesTool(e)
  \/ \E e \in {"MessageDisplay", "TaskCreated", "FileChanged"} : Works(e)
  \/ \E e \in DOMAIN Asking : Asks(e)
  \/ \E e \in {[event |-> "PostToolUse", tool |-> "Read"],
               Plain("NotificationWait")} : ReportsMeanwhile(e)
  \/ \E e \in {"Stop", "StopFailure"} : EndsTurn(e)
  \/ \E e \in {"NotificationWait", "NotificationError"} : Notifies(e)

ClaudeSpec == ClaudeInit /\ [][ClaudeNext]_claudeVars

(***************************************************************************)
(* Properties.                                                             *)
(***************************************************************************)

\* architecture.md:443: where the registry has the process's own status, it
\* decides whether the session works and whether it asks, whatever hooks and
\* transcript have left behind.
RegistryDecides ==
  registered.status = claude =>
    /\ ClaudeView.ongoing <=> claude # "idle"
    /\ ClaudeView.needs # "none" <=> claude = "waiting"
    /\ claude = "idle" => ClaudeView.state \notin Transient \cup {"waiting"}

\* claude.ts:225: a session nothing is heard of stops looking busy, though
\* it died in the middle of its turn; only what waits for somebody stays.
NoGhostWork ==
  LET heard == {lines[k].at : k \in DOMAIN lines}
               \cup {hookLog[i].at : i \in DOMAIN hookLog} IN
  /\ claude = "off" \/ registered = Unregistered
  /\ \A at \in heard : Old(at, clock, ActiveWindow)
  => /\ ClaudeView.state \notin Transient
     /\ ClaudeView.ongoing => ClaudeView.state \in {"blocked", "waiting"}

ClaudeIsTold == RegistryDecides /\ NoGhostWork
=============================================================================
