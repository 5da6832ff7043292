---------------------------- MODULE ClaudeProofs ----------------------------
(***************************************************************************)
(* Proofs about what is made of Claude's files, for any tools, hooks,      *)
(* clocks and bounds: the lead session, its child agents, the questions    *)
(* its hooks ask of the browser, and its background tasks.                 *)
(***************************************************************************)
EXTENDS ClaudeSession, ClaudeAgents, ClaudeHookBridge, ClaudeBackgroundTasks,
        FiniteSetTheorems, SequenceTheorems, WellFoundedInduction, TLAPS

-----------------------------------------------------------------------------
(* Numbers.                                                                *)

\* A set of numbers that is not empty has a least one: the intervals 0..n are
\* finite, so one of them includes no other.
LEMMA LeastNumber ==
  ASSUME NEW S \in SUBSET Nat, S # {}
  PROVE  \E c \in S : \A d \in S : c <= d
<1> DEFINE Upto == {0..c : c \in S}
<1>1. Upto \subseteq FiniteSubsetsOf(Nat)
  <2> SUFFICES ASSUME NEW c \in S PROVE 0..c \in SUBSET Nat /\ IsFiniteSet(0..c)
    BY DEF FiniteSubsetsOf
  <2> QED
    BY FS_Interval
<1>2. Upto # {}
  OBVIOUS
<1> HIDE DEF Upto
<1>3. PICK m \in Upto : \A u \in Upto : ~ (<<u, m>> \in StrictSubsetOrdering(Nat))
  BY <1>1, <1>2, FS_StrictSubsetOrderingWellFounded, WFMin
<1>4. PICK c \in S : m = 0..c
  BY DEF Upto
<1>5. ASSUME NEW d \in S, ~ (c <= d) PROVE FALSE
  <2>1. 0..d \in Upto
    BY DEF Upto
  <2>2. 0..d \subseteq 0..c /\ c \in 0..c /\ c \notin 0..d
    BY <1>5
  <2>3. 0..d \in SUBSET Nat /\ 0..c \in SUBSET Nat
    OBVIOUS
  <2>4. <<0..d, 0..c>> \in StrictSubsetOrdering(Nat)
    BY <2>2, <2>3 DEF StrictSubsetOrdering
  <2> QED
    BY <1>3, <1>4, <2>1, <2>4
<1> QED
  BY <1>5

\* Of numbers that stay below a bound there is also a greatest.
LEMMA GreatestNumber ==
  ASSUME NEW S \in SUBSET Nat, S # {}, NEW bound \in Nat,
         \A c \in S : c <= bound
  PROVE  \E c \in S : \A d \in S : d <= c
<1> DEFINE Rest == {bound - c : c \in S}
<1>1. Rest \in SUBSET Nat /\ Rest # {}
  <2>1. \A c \in S : bound - c \in Nat
    OBVIOUS
  <2> QED
    BY <2>1
<1>2. PICK least \in Rest : \A r \in Rest : least <= r
  BY <1>1, LeastNumber
<1>3. PICK c \in S : least = bound - c
  OBVIOUS
<1>4. ASSUME NEW d \in S PROVE d <= c
  <2>1. bound - c <= bound - d
    BY <1>2, <1>3
  <2> QED
    BY <2>1
<1> QED
  BY <1>4

-----------------------------------------------------------------------------
(* Claude's lead session: registry, hooks and transcript.                  *)

\* The registry never says that a process is gone.
SessionTyped ==
  /\ claude \in {"off", "idle", "busy", "waiting"}
  /\ registered.status \in {"none", "idle", "busy", "waiting"}
  /\ registered.status = "none" => registered = Unregistered
  /\ DOMAIN lines = {"text", "tool", "user"}

\* What a summary may be: only what is not done asks or goes on, and what goes
\* on beyond a transient state is blocked or waits.
Plausible(s) ==
  /\ s = Summary(s.state, s.ongoing, s.needs, s.at)
  /\ s.ongoing \in BOOLEAN
  /\ s.needs # "none" => s.ongoing /\ s.state \in {"blocked", "waiting"}
  /\ s.ongoing /\ s.state \notin Transient => s.state \in {"blocked", "waiting"}

\* The same of one that is old.
Settles(s) == Plausible(s) /\ s.state \notin Transient

LEMMA ToolSummaryPlausible ==
  ASSUME NEW tool, NEW failed \in BOOLEAN, NEW at
  PROVE  /\ Plausible(ToolSummary(tool, failed, at))
         /\ ToolSummary(tool, failed, at) # NoSummary
              => ToolSummary(tool, failed, at).at = at
<1>1. DOMAIN ToolState = {"Edit", "Bash", "Test", "Read", "Task"}
  BY DEF ToolState
<1>2. CASE tool \notin DOMAIN ToolState
  BY <1>2 DEF ToolSummary, NoSummary, Summary, Plausible
<1>3. CASE tool \in DOMAIN ToolState
  <2>1. ToolState[tool] \in Transient
    BY <1>1, <1>3 DEF ToolState, Transient
  <2>2. ToolSummary(tool, failed, at)
          = Summary(IF failed THEN "blocked" ELSE ToolState[tool], ~failed, "none", at)
    BY <1>3 DEF ToolSummary
  <2> QED
    BY <2>1, <2>2 DEF Summary, Plausible
<1> QED
  BY <1>2, <1>3

\* Two of the classes of events that HookSummary tells apart by name.
Delegating == {"SubagentStart", "TaskCreated"}
Changing == {"FileChanged"}

LEMMA HookSummaryPlausible ==
  ASSUME NEW r
  PROVE  /\ Plausible(HookSummary(r))
         /\ HookSummary(r) # NoSummary => HookSummary(r).at = r.at
<1> DEFINE e == r.event.event
<1>1. DOMAIN Asking = {"PermissionRequest", "Elicitation"}
  BY DEF Asking
<1>2. CASE e \in DOMAIN Asking
  <2>1. /\ e \notin Planning
        /\ e \notin Thinking
        /\ e \notin Delegating
        /\ e \notin Changing
        /\ e \notin Ending
        /\ e \notin Failing
        /\ e \notin Idling
    BY <1>1, <1>2 DEF Planning, Thinking, Delegating, Changing, Ending, Failing,
                    Idling
  <2>2. HookSummary(r) = Summary(Asking[e][1], TRUE, Asking[e][2], r.at)
    BY <1>2, <2>1 DEF HookSummary, Delegating, Changing
  <2>3. Asking[e][1] \in {"blocked", "waiting"}
    BY <1>1, <1>2 DEF Asking
  <2> QED
    BY <2>2, <2>3 DEF Summary, Plausible
<1>3. CASE e \in Planning
  <2>1. /\ e \notin DOMAIN Asking
        /\ e \notin Thinking
        /\ e \notin Delegating
        /\ e \notin Changing
        /\ e \notin Ending
        /\ e \notin Failing
        /\ e \notin Idling
    BY <1>1, <1>3 DEF Planning, Thinking, Delegating, Changing, Ending, Failing,
                    Idling
  <2>2. HookSummary(r) = Summary("planning", TRUE, "none", r.at)
    BY <1>3, <2>1 DEF HookSummary, Delegating, Changing
  <2> QED
    BY <2>2 DEF Summary, Plausible, Transient
<1>4. CASE e \in Thinking
  <2>1. /\ e \notin DOMAIN Asking
        /\ e \notin Planning
        /\ e \notin Delegating
        /\ e \notin Changing
        /\ e \notin Ending
        /\ e \notin Failing
        /\ e \notin Idling
    BY <1>1, <1>4 DEF Planning, Thinking, Delegating, Changing, Ending, Failing,
                    Idling
  <2>2. HookSummary(r) = Summary("thinking", TRUE, "none", r.at)
    BY <1>4, <2>1 DEF HookSummary, Delegating, Changing
  <2> QED
    BY <2>2 DEF Summary, Plausible, Transient
<1>5. CASE e \in Delegating
  <2>1. /\ e \notin DOMAIN Asking
        /\ e \notin Planning
        /\ e \notin Thinking
        /\ e \notin Changing
        /\ e \notin Ending
        /\ e \notin Failing
        /\ e \notin Idling
    BY <1>1, <1>5 DEF Planning, Thinking, Delegating, Changing, Ending, Failing,
                    Idling
  <2>2. HookSummary(r) = Summary("delegating", TRUE, "none", r.at)
    BY <1>5, <2>1 DEF HookSummary, Delegating, Changing
  <2> QED
    BY <2>2 DEF Summary, Plausible, Transient
<1>6. CASE e \in Changing
  <2>1. /\ e \notin DOMAIN Asking
        /\ e \notin Planning
        /\ e \notin Thinking
        /\ e \notin Delegating
        /\ e \notin Ending
        /\ e \notin Failing
        /\ e \notin Idling
    BY <1>1, <1>6 DEF Planning, Thinking, Delegating, Changing, Ending, Failing,
                    Idling
  <2>2. HookSummary(r) = Summary("editing", TRUE, "none", r.at)
    BY <1>6, <2>1 DEF HookSummary, Delegating, Changing
  <2> QED
    BY <2>2 DEF Summary, Plausible, Transient
<1>7. CASE e \in Ending
  <2>1. /\ e \notin DOMAIN Asking
        /\ e \notin Planning
        /\ e \notin Thinking
        /\ e \notin Delegating
        /\ e \notin Changing
        /\ e \notin Failing
        /\ e \notin Idling
    BY <1>1, <1>7 DEF Planning, Thinking, Delegating, Changing, Ending, Failing,
                    Idling
  <2>2. HookSummary(r) = Summary("done", FALSE, "none", r.at)
    BY <1>7, <2>1 DEF HookSummary, Delegating, Changing
  <2> QED
    BY <2>2 DEF Summary, Plausible, Transient
<1>8. CASE e \in Failing
  <2>1. /\ e \notin DOMAIN Asking
        /\ e \notin Planning
        /\ e \notin Thinking
        /\ e \notin Delegating
        /\ e \notin Changing
        /\ e \notin Ending
        /\ e \notin Idling
    BY <1>1, <1>8 DEF Planning, Thinking, Delegating, Changing, Ending, Failing,
                    Idling
  <2>2. HookSummary(r) = Summary("blocked", FALSE, "none", r.at)
    BY <1>8, <2>1 DEF HookSummary, Delegating, Changing
  <2> QED
    BY <2>2 DEF Summary, Plausible, Transient
<1>9. CASE e \in Idling
  <2>1. /\ e \notin DOMAIN Asking
        /\ e \notin Planning
        /\ e \notin Thinking
        /\ e \notin Delegating
        /\ e \notin Changing
        /\ e \notin Ending
        /\ e \notin Failing
    BY <1>1, <1>9 DEF Planning, Thinking, Delegating, Changing, Ending, Failing,
                    Idling
  <2>2. HookSummary(r) = Summary("waiting", TRUE, "none", r.at)
    BY <1>9, <2>1 DEF HookSummary, Delegating, Changing
  <2> QED
    BY <2>2 DEF Summary, Plausible, Transient
<1>10. CASE /\ e \notin DOMAIN Asking
           /\ e \notin Planning
           /\ e \notin Thinking
           /\ e \notin Delegating
           /\ e \notin Changing
           /\ e \notin Ending
           /\ e \notin Failing
           /\ e \notin Idling
  <2> DEFINE failed == e = "PostToolUseFailure"
             tool == r.event.tool
             at == r.at
  <2>1. HookSummary(r) = ToolSummary(tool, failed, at)
    BY <1>10 DEF HookSummary, Delegating, Changing
  <2>2. failed \in BOOLEAN
    OBVIOUS
  <2>3. at = r.at
    OBVIOUS
  <2> HIDE DEF failed, tool, at
  <2>4. /\ Plausible(ToolSummary(tool, failed, at))
        /\ ToolSummary(tool, failed, at) # NoSummary
             => ToolSummary(tool, failed, at).at = at
    BY <2>2, ToolSummaryPlausible, Zenon
  <2> QED
    BY <2>1, <2>3, <2>4
<1> QED
  BY <1>2, <1>3, <1>4, <1>5, <1>6, <1>7, <1>8, <1>9, <1>10

LEMMA AgedPlausible ==
  ASSUME NEW s, NEW now, Plausible(s)
  PROVE  /\ Plausible(AgedSummary(s, now))
         /\ Old(s.at, now, ActiveWindow) => Settles(AgedSummary(s, now))
BY DEF AgedSummary, Plausible, Settles, Summary, Faded, Transient

LEMMA SaidPlausible ==
  ASSUME NEW said \in {"thinking", "done", "idle"}, NEW going \in BOOLEAN,
         NEW at, going => said = "thinking"
  PROVE  /\ Plausible(Summary(said, going, "none", at))
         /\ said # "thinking" => Settles(Summary(said, going, "none", at))
BY DEF Summary, Plausible, Settles, Transient

\* A sentence said after the hooks leaves no question open, and ages as they do.
LEMMA WithTextPlausible ==
  ASSUME NEW s, Plausible(s)
  PROVE  /\ Plausible(WithText(s))
         /\ Settles(s) /\ Old(lines.text.at, clock, ActiveWindow)
              => Settles(WithText(s))
<1> DEFINE faded == Faded(lines.text.at, clock, "thinking")
           going == faded = "thinking" /\ s.ongoing
<1>1. faded \in {"thinking", "done", "idle"}
  BY DEF Faded
<1>2. Old(lines.text.at, clock, ActiveWindow) => faded # "thinking"
  BY DEF Faded
<1>3. \/ WithText(s) = s
      \/ /\ s.needs = "none"
         /\ WithText(s) = Summary(faded, going, "none", lines.text.at)
  BY DEF WithText
<1> HIDE DEF faded
<1>4. CASE WithText(s) = s
  BY <1>4
<1>5. CASE WithText(s) = Summary(faded, going, "none", lines.text.at)
  <2>1. going \in BOOLEAN /\ (going => faded = "thinking")
    OBVIOUS
  <2> DEFINE at == lines.text.at
  <2> HIDE DEF going, at
  <2>2. /\ Plausible(Summary(faded, going, "none", at))
        /\ faded # "thinking" => Settles(Summary(faded, going, "none", at))
    BY <1>1, <2>1, SaidPlausible
  <2> QED
    BY <1>2, <1>5, <2>2 DEF at
<1> QED
  BY <1>3, <1>4, <1>5

\* Without hooks, the same of the transcript.
Heard == {lines[k].at : k \in DOMAIN lines}
         \cup {hookLog[i].at : i \in DOMAIN hookLog}

LEMMA TranscriptPlausible ==
  ASSUME SessionTyped
  PROVE  /\ Plausible(FromTranscript)
         /\ (\A at \in Heard : Old(at, clock, ActiveWindow))
              => Settles(FromTranscript)
<1> DEFINE said == Faded(lines.text.at, clock, "thinking")
           at == lines.tool.at
           kind == lines.tool.tool
           used == ToolSummary(kind, FALSE, at)
           asked == Summary("planning", TRUE, "none", lines.user.at)
           nothing == Summary("idle", FALSE, "none", 0)
           silent == \A a \in Heard : Old(a, clock, ActiveWindow)
<1>1. \/ FromTranscript = Summary(said, said = "thinking", "none", lines.text.at)
      \/ used # NoSummary /\ FromTranscript = AgedSummary(used, clock)
      \/ FromTranscript = AgedSummary(asked, clock)
      \/ FromTranscript = nothing
  BY DEF FromTranscript
<1>2. silent => /\ Old(lines.text.at, clock, ActiveWindow)
                /\ Old(lines.tool.at, clock, ActiveWindow)
                /\ Old(lines.user.at, clock, ActiveWindow)
  BY SessionTyped DEF SessionTyped, Heard
<1>3. CASE FromTranscript = Summary(said, said = "thinking", "none", lines.text.at)
  <2>1. said \in {"thinking", "done", "idle"}
    BY DEF Faded
  <2>2. Old(lines.text.at, clock, ActiveWindow) => said # "thinking"
    BY DEF Faded
  <2> DEFINE going == said = "thinking"
             when == lines.text.at
  <2>3. going \in BOOLEAN /\ (going => said = "thinking")
    OBVIOUS
  <2>4. FromTranscript = Summary(said, going, "none", when)
    BY <1>3
  <2> HIDE DEF said, going, when, silent
  <2>5. /\ Plausible(Summary(said, going, "none", when))
        /\ said # "thinking" => Settles(Summary(said, going, "none", when))
    BY <2>1, <2>3, SaidPlausible
  <2> QED
    BY <1>2, <2>2, <2>4, <2>5 DEF silent
<1>4. CASE used # NoSummary /\ FromTranscript = AgedSummary(used, clock)
  <2>1. at = lines.tool.at
    OBVIOUS
  <2>2. used = ToolSummary(kind, FALSE, at)
    OBVIOUS
  <2> HIDE DEF at, kind, used, silent
  <2>3. /\ Plausible(ToolSummary(kind, FALSE, at))
        /\ ToolSummary(kind, FALSE, at) # NoSummary
             => ToolSummary(kind, FALSE, at).at = at
    BY ToolSummaryPlausible
  <2>4. Plausible(used) /\ used.at = lines.tool.at
    BY <1>4, <2>1, <2>2, <2>3
  <2>5. /\ Plausible(AgedSummary(used, clock))
        /\ Old(used.at, clock, ActiveWindow) => Settles(AgedSummary(used, clock))
    BY <2>4, AgedPlausible, Zenon
  <2> QED
    BY <1>2, <1>4, <2>4, <2>5 DEF silent
<1>5. CASE FromTranscript = AgedSummary(asked, clock)
  <2>1. Plausible(asked) /\ asked.at = lines.user.at
    BY DEF Summary, Plausible, Transient
  <2> HIDE DEF asked, silent
  <2>2. /\ Plausible(AgedSummary(asked, clock))
        /\ Old(asked.at, clock, ActiveWindow) => Settles(AgedSummary(asked, clock))
    BY <2>1, AgedPlausible, Zenon
  <2> QED
    BY <1>2, <1>5, <2>1, <2>2 DEF silent
<1>6. CASE FromTranscript = nothing
  BY <1>6 DEF Summary, Plausible, Settles, Transient
<1> QED
  BY <1>1, <1>3, <1>4, <1>5, <1>6

LEMMA SummaryPlausible ==
  ASSUME SessionTyped
  PROVE  /\ Plausible(SessionSummary)
         /\ (\A at \in Heard : Old(at, clock, ActiveWindow))
              => Settles(SessionSummary)
<1> DEFINE silent == \A at \in Heard : Old(at, clock, ActiveWindow)
<1>1. CASE ~ \E s \in HookSummaries : Latest(s)
  BY <1>1, TranscriptPlausible DEF SessionSummary
<1>2. CASE \E s \in HookSummaries : Latest(s)
  <2> DEFINE last == CHOOSE s \in HookSummaries : Latest(s)
             aged == AgedSummary(last, clock)
  <2>1. Latest(last)
    BY <1>2
  <2>2. SessionSummary = WithText(aged)
    BY <1>2 DEF SessionSummary
  <2> HIDE DEF last
  <2>3. PICK i \in DOMAIN hookLog : last = HookSummary(hookLog[i])
                                    /\ last # NoSummary
    BY <2>1 DEF Latest
  <2>4. /\ Plausible(HookSummary(hookLog[i]))
        /\ HookSummary(hookLog[i]) # NoSummary
             => HookSummary(hookLog[i]).at = hookLog[i].at
    BY HookSummaryPlausible
  <2>5. Plausible(last) /\ last.at = hookLog[i].at
    BY <2>3, <2>4
  <2>6. silent => /\ Old(last.at, clock, ActiveWindow)
                  /\ Old(lines.text.at, clock, ActiveWindow)
    BY <2>5, SessionTyped DEF SessionTyped, Heard
  <2> HIDE DEF silent
  <2>7. /\ Plausible(aged)
        /\ Old(last.at, clock, ActiveWindow) => Settles(aged)
    BY <2>5, AgedPlausible, Zenon
  <2> HIDE DEF aged
  <2>8. /\ Plausible(WithText(aged))
        /\ Settles(aged) /\ Old(lines.text.at, clock, ActiveWindow)
             => Settles(WithText(aged))
    BY <2>7, WithTextPlausible, Zenon
  <2> QED
    BY <2>2, <2>6, <2>7, <2>8 DEF silent
<1> QED
  BY <1>1, <1>2

-----------------------------------------------------------------------------

LEMMA SessionTypedHolds == ClaudeSpec => []SessionTyped
<1>1. ClaudeInit => SessionTyped
  BY DEF ClaudeInit, SessionTyped, Unregistered
<1>2. SessionTyped /\ [ClaudeNext]_claudeVars => SessionTyped'
  <2> SUFFICES ASSUME SessionTyped, [ClaudeNext]_claudeVars
               PROVE  SessionTyped'
    OBVIOUS
  <2> USE DEF SessionTyped, ClaudeGoes
  <2>1. CASE Prompted
    BY <2>1 DEF Prompted, Line
  <2>2. CASE Speaks
    BY <2>2 DEF Speaks, Line
  <2>3. CASE IsAnswered
    BY <2>3 DEF IsAnswered
  <2>4. CASE Leaves
    BY <2>4 DEF Leaves
  <2>5. CASE Dies
    BY <2>5 DEF Dies
  <2>6. CASE WritesRegistry
    BY <2>6 DEF WritesRegistry
  <2>7. CASE ClaudeTick
    BY <2>7 DEF ClaudeTick
  <2>8. CASE \E e \in ToolEvents : UsesTool(e)
    BY <2>8 DEF UsesTool, Line
  <2>9. ASSUME NEW e, Works(e)
        PROVE  SessionTyped'
    BY <2>9 DEF Works
  <2>10. ASSUME NEW e, Asks(e)
         PROVE  SessionTyped'
    BY <2>10 DEF Asks
  <2>11. ASSUME NEW e, ReportsMeanwhile(e)
         PROVE  SessionTyped'
    BY <2>11 DEF ReportsMeanwhile
  <2>12. ASSUME NEW e, EndsTurn(e)
         PROVE  SessionTyped'
    BY <2>12 DEF EndsTurn
  <2>13. ASSUME NEW e, Notifies(e)
         PROVE  SessionTyped'
    BY <2>13 DEF Notifies
  <2>14. CASE UNCHANGED claudeVars
    BY <2>14 DEF claudeVars, Unregistered
  <2> QED
    BY <2>1, <2>2, <2>3, <2>4, <2>5, <2>6, <2>7, <2>8, <2>9, <2>10, <2>11,
       <2>12, <2>13, <2>14 DEF ClaudeNext
<1> QED
  BY <1>1, <1>2, PTL DEF ClaudeSpec

LEMMA RegistryDecidesThen ==
  ASSUME SessionTyped
  PROVE  RegistryDecides
<1> DEFINE s == SessionSummary
           at == IF s.at > registered.at THEN s.at ELSE registered.at
<1> SUFFICES ASSUME registered.status = claude
             PROVE  /\ WithRegistry(s).ongoing <=> claude # "idle"
                    /\ WithRegistry(s).needs # "none" <=> claude = "waiting"
                    /\ claude = "idle"
                         => WithRegistry(s).state \notin Transient \cup {"waiting"}
  BY DEF RegistryDecides, ClaudeView
<1>1. Plausible(s)
  BY SummaryPlausible
<1> HIDE DEF s
<1>2. claude \in {"idle", "busy", "waiting"}
  BY DEF SessionTyped
<1>3. registered # Unregistered
  BY <1>2 DEF Unregistered
<1>4. CASE claude = "busy"
  <2>1. WithRegistry(s) = Summary(IF s.state \in Transient THEN s.state
                                  ELSE "thinking", TRUE, "none", at)
    BY <1>3, <1>4 DEF WithRegistry
  <2> QED
    BY <1>4, <2>1 DEF Summary
<1>5. CASE claude = "waiting"
  <2>1. WithRegistry(s) = Summary("waiting", TRUE,
                 IF s.needs # "none" THEN s.needs ELSE "placeholder", at)
    BY <1>3, <1>5 DEF WithRegistry
  <2> QED
    BY <1>5, <2>1 DEF Summary
<1>6. CASE claude = "idle"
  <2>1. WithRegistry(s)
          = IF ~s.ongoing /\ s.state \notin Transient \cup {"waiting"} THEN s
            ELSE Summary(IF Old(at, clock, DoneWindow) THEN "idle" ELSE "done",
                         FALSE, "none", s.at)
    BY <1>3, <1>6 DEF WithRegistry
  <2>2. CASE ~s.ongoing /\ s.state \notin Transient \cup {"waiting"}
    BY <1>1, <1>6, <2>1, <2>2 DEF Plausible
  <2>3. CASE ~(~s.ongoing /\ s.state \notin Transient \cup {"waiting"})
    BY <1>6, <2>1, <2>3 DEF Summary, Transient
  <2> QED
    BY <2>2, <2>3
<1> QED
  BY <1>2, <1>4, <1>5, <1>6

LEMMA NoGhostWorkThen ==
  ASSUME SessionTyped
  PROVE  NoGhostWork
<1> SUFFICES ASSUME claude = "off" \/ registered = Unregistered,
                    \A at \in Heard : Old(at, clock, ActiveWindow)
             PROVE  /\ ClaudeView.state \notin Transient
                    /\ ClaudeView.ongoing
                         => ClaudeView.state \in {"blocked", "waiting"}
  BY DEF NoGhostWork, Heard
<1>1. ClaudeView = SessionSummary
  BY DEF ClaudeView, WithRegistry
<1>2. Settles(SessionSummary)
  BY SummaryPlausible
<1> QED
  BY <1>1, <1>2 DEF Settles, Plausible

\* ClaudeIsTold (claude.ts, applyClaudeRegistryStatus and ageClaudeSummary):
\* where Claude's registry has the status of a living process, that decides
\* whether the session works and whether it asks; and a session of which
\* nothing has been heard for the active window looks busy no more. Both hold
\* whatever hooks, lines and registry entries came in which order.
THEOREM ClaudeIsAlwaysTold == ClaudeSpec => []ClaudeIsTold
<1>1. SessionTyped => ClaudeIsTold
  BY RegistryDecidesThen, NoGhostWorkThen DEF ClaudeIsTold
<1> QED
  BY <1>1, SessionTypedHolds, PTL

-----------------------------------------------------------------------------
(* Claude's child agents: transcript, journal, the lead's hooks and teams. *)

ChildRecords == [event : ChildHookEvents, at : Nat]

ChildTyped ==
  /\ childHooks \in Seq(ChildRecords) /\ Len(childHooks) <= MaxChildHooks
  /\ childClock \in Nat
  /\ \A i \in DOMAIN childHooks : childHooks[i].at <= childClock
  /\ childFile \in [text : BOOLEAN, result : {"none", "blocked"}, at : Int]
  /\ journal \in [state : {"none", "running", "done", "blocked"}, at : Int]
  /\ journal.state = "none" => journal.at = -1
  /\ teammate \in [member : BOOLEAN, active : BOOLEAN, at : Nat]

LEMMA ChildTypedStep ==
  ASSUME ChildTyped, [ChildNext]_childVars
  PROVE  ChildTyped'
<1>1. ASSUME NEW e \in ChildHookEvents, NEW at \in {childClock, childClock - 1} \cap Nat,
             ChildHook(e, at)
      PROVE  ChildTyped'
  <2> DEFINE written == [event |-> e, at |-> at]
  <2>1. written \in ChildRecords
    BY DEF ChildRecords
  <2>2. /\ childHooks \in Seq(ChildRecords)
        /\ Len(childHooks) < MaxChildHooks
        /\ MaxChildHooks \in Nat
        /\ childClock \in Nat
        /\ at <= childClock
    BY <1>1, ChildBounds DEF ChildTyped, ChildHook
  <2>3. /\ childHooks' = Append(childHooks, written)
        /\ UNCHANGED <<childFile, journal, teammate, childClock>>
    BY <1>1 DEF ChildHook
  <2> HIDE DEF written
  <2>4. /\ childHooks' \in Seq(ChildRecords)
        /\ Len(childHooks') <= MaxChildHooks
        /\ DOMAIN childHooks' = 1 .. Len(childHooks) + 1
        /\ \A i \in DOMAIN childHooks : childHooks'[i] = childHooks[i]
        /\ childHooks'[Len(childHooks) + 1] = written
    BY <2>1, <2>2, <2>3
  <2>5. \A i \in DOMAIN childHooks' : childHooks'[i].at <= childClock
    <3> SUFFICES ASSUME NEW i \in DOMAIN childHooks'
                 PROVE  childHooks'[i].at <= childClock
      OBVIOUS
    <3>1. CASE i \in DOMAIN childHooks
      BY <2>4, <3>1 DEF ChildTyped
    <3>2. CASE i = Len(childHooks) + 1
      BY <2>2, <2>4, <3>2 DEF written
    <3>3. i \in DOMAIN childHooks \/ i = Len(childHooks) + 1
      BY <2>2, <2>4
    <3> QED
      BY <3>1, <3>2, <3>3
  <2> QED
    BY <2>3, <2>4, <2>5 DEF ChildTyped
<1>2. ASSUME NEW text \in BOOLEAN, NEW r \in {"none", "blocked"}, ChildWrites(text, r)
      PROVE  ChildTyped'
  <2>1. childFile' \in [text : BOOLEAN, result : {"none", "blocked"}, at : Int]
    <3> DEFINE result == IF r # "none" THEN r ELSE childFile.result
               told == childFile.text \/ text
    <3>1. result \in {"none", "blocked"} /\ told \in BOOLEAN /\ childClock \in Int
      BY DEF ChildTyped
    <3>2. childFile' = [text |-> told, at |-> childClock, result |-> result]
      BY <1>2 DEF ChildWrites
    <3> HIDE DEF result, told
    <3> QED
      BY <3>1, <3>2
  <2> QED
    BY <1>2, <2>1 DEF ChildWrites, ChildTyped
<1>3. ASSUME NEW s \in {"running", "done", "blocked"}, JournalEntry(s)
      PROVE  ChildTyped'
  BY <1>3 DEF JournalEntry, ChildTyped
<1>4. ASSUME NEW active \in BOOLEAN, TeamFileChanges(active)
      PROVE  ChildTyped'
  BY <1>4 DEF TeamFileChanges, ChildTyped
<1>5. CASE ChildTick
  <2>1. /\ childClock' = childClock + 1
        /\ UNCHANGED <<childHooks, childFile, journal, teammate>>
    BY <1>5 DEF ChildTick
  <2>2. \A i \in DOMAIN childHooks' : childHooks'[i].at <= childClock'
    <3> SUFFICES ASSUME NEW i \in DOMAIN childHooks
                 PROVE  childHooks[i].at <= childClock + 1
      BY <2>1
    <3>1. childHooks[i] \in ChildRecords
      BY DEF ChildTyped
    <3>2. childHooks[i].at \in Nat /\ childHooks[i].at <= childClock /\ childClock \in Nat
      BY <3>1 DEF ChildRecords, ChildTyped
    <3> QED
      BY <3>2
  <2> QED
    BY <2>1, <2>2 DEF ChildTyped
<1>6. CASE UNCHANGED childVars
  BY <1>6 DEF childVars, ChildTyped
<1> QED
  BY <1>1, <1>2, <1>3, <1>4, <1>5, <1>6 DEF ChildNext

LEMMA ChildTypedHolds == ChildSpec => []ChildTyped
<1>1. ChildInit => ChildTyped
  <2> SUFFICES ASSUME ChildInit PROVE ChildTyped
    OBVIOUS
  <2>1. PICK m \in BOOLEAN : teammate = [member |-> m, active |-> m, at |-> 0]
    BY DEF ChildInit
  <2>2. teammate \in [member : BOOLEAN, active : BOOLEAN, at : Nat]
    BY <2>1
  <2>3. <<>> \in Seq(ChildRecords) /\ Len(<<>>) = 0 /\ DOMAIN <<>> = {}
    OBVIOUS
  <2> QED
    BY <2>2, <2>3, ChildBounds DEF ChildInit, ChildTyped
<1> QED
  BY <1>1, ChildTypedStep, PTL DEF ChildSpec

-----------------------------------------------------------------------------

\* The loop of buildClaudeSubagentAgents, one record at a time.
FirstRow == [typed |-> FALSE, at |-> Seed.at,
             summary |-> IF Seed = NoSummary THEN NoSummary
                         ELSE AgedSummary(Seed, childClock)]
RowOf(told) == [typed |-> TRUE, at |-> told.at,
                summary |-> AgedSummary(told, childClock)]
NextRow(n, row) ==
  IF /\ HookSummary(childHooks[n]) # NoSummary
     /\ Replaces(row, HookSummary(childHooks[n]).at)
    THEN RowOf(HookSummary(childHooks[n]))
    ELSE row

RowsUpto(f, m) == f = [n \in 0..m |-> IF n = 0 THEN FirstRow
                                      ELSE NextRow(n, f[n - 1])]

\* The recursion has a solution: were there a least length without one, the
\* solution for one less would extend to it.
LEMMA RowsExist == \A m \in Nat : \E f : RowsUpto(f, m)
<1> DEFINE Without == {m \in Nat : ~ \E f : RowsUpto(f, m)}
<1>1. SUFFICES ASSUME Without # {} PROVE FALSE
  OBVIOUS
<1>2. Without \in SUBSET Nat
  OBVIOUS
<1>3. PICK m \in Without : \A d \in Without : m <= d
  <2> HIDE DEF Without
  <2> QED
    BY <1>1, <1>2, LeastNumber
<1>4. m \in Nat /\ ~ \E f : RowsUpto(f, m)
  OBVIOUS
<1>5. CASE m = 0
  <2> DEFINE f == [n \in 0..0 |-> FirstRow]
  <2>1. f = [n \in 0..0 |-> IF n = 0 THEN FirstRow ELSE NextRow(n, f[n - 1])]
    OBVIOUS
  <2>2. RowsUpto(f, 0)
    BY <2>1 DEF RowsUpto
  <2> QED
    BY <1>4, <1>5, <2>2
<1>6. CASE m # 0
  <2>1. m - 1 \in Nat /\ m - 1 \notin Without
    <3>1. m - 1 \in Nat /\ ~ (m <= m - 1)
      BY <1>4, <1>6
    <3> HIDE DEF Without
    <3> QED
      BY <1>3, <3>1
  <2>2. PICK f : RowsUpto(f, m - 1)
    BY <2>1
  <2> DEFINE next == NextRow(m, f[m - 1])
             g == [n \in 0..m |-> IF n = m THEN next ELSE f[n]]
  <2>3. \A n \in 0 .. m - 1 : f[n] = IF n = 0 THEN FirstRow ELSE NextRow(n, f[n - 1])
    BY <2>2 DEF RowsUpto
  <2>4. \A n \in 0 .. m - 1 : g[n] = f[n]
    BY <1>4
  <2>5. g[m] = next /\ DOMAIN g = 0..m
    BY <1>4
  <2> DEFINE step == [n \in 0..m |-> IF n = 0 THEN FirstRow ELSE NextRow(n, g[n - 1])]
  <2>6. \A n \in 0..m : g[n] = IF n = 0 THEN FirstRow ELSE NextRow(n, g[n - 1])
    <3> SUFFICES ASSUME NEW n \in 0..m
                 PROVE  g[n] = IF n = 0 THEN FirstRow ELSE NextRow(n, g[n - 1])
      OBVIOUS
    <3>1. CASE n = m
      <4>1. m - 1 \in 0 .. m - 1
        BY <2>1
      <4>2. g[m - 1] = f[m - 1]
        BY <2>4, <4>1, Zenon
      <4> HIDE DEF g
      <4> QED
        BY <1>6, <2>5, <3>1, <4>2
    <3>2. CASE n # m /\ n = 0
      <4>1. n \in 0 .. m - 1
        BY <2>1, <3>2
      <4> HIDE DEF g
      <4> QED
        BY <2>3, <2>4, <3>2, <4>1
    <3>3. CASE n # m /\ n # 0
      <4>1. n \in 0 .. m - 1 /\ n - 1 \in 0 .. m - 1
        BY <1>4, <3>3
      <4>2. /\ g[n] = f[n]
            /\ g[n - 1] = f[n - 1]
            /\ f[n] = IF n = 0 THEN FirstRow ELSE NextRow(n, f[n - 1])
        BY <2>3, <2>4, <4>1, Zenon
      <4> HIDE DEF g
      <4> QED
        BY <3>3, <4>2
    <3> QED
      BY <3>1, <3>2, <3>3
  <2>7. g = step
    <3>1. g = [n \in DOMAIN g |-> g[n]]
      OBVIOUS
    <3> HIDE DEF g
    <3> QED
      BY <2>5, <2>6, <3>1
  <2>8. RowsUpto(g, m)
    <3> HIDE DEF g
    <3> QED
      BY <2>7 DEF RowsUpto
  <2> QED
    BY <1>4, <2>8
<1> QED
  BY <1>5, <1>6

LEMMA HookRowSteps ==
  /\ HookRow[0] = FirstRow
  /\ \A n \in 1..MaxChildHooks : HookRow[n] = NextRow(n, HookRow[n - 1])
<1>1. HookRow = CHOOSE f : RowsUpto(f, MaxChildHooks)
  BY DEF HookRow, RowsUpto, FirstRow, NextRow, RowOf
<1>2. MaxChildHooks \in Nat
  BY ChildBounds
<1>3. RowsUpto(HookRow, MaxChildHooks)
  BY <1>1, <1>2, RowsExist
<1>4. \A n \in 0..MaxChildHooks :
        HookRow[n] = IF n = 0 THEN FirstRow ELSE NextRow(n, HookRow[n - 1])
  BY <1>3 DEF RowsUpto
<1>5. 0 \in 0..MaxChildHooks /\ \A n \in 1..MaxChildHooks : n \in 0..MaxChildHooks /\ n # 0
  BY <1>2
<1> QED
  BY <1>4, <1>5

\* After n records the row is of the latest of those that said something, by
\* their time; or, where none did, of what is only inferred.
SaidUpto(n) == {i \in 1..n : HookSummary(childHooks[i]) # NoSummary}

RowSays(n) ==
  \/ SaidUpto(n) = {} /\ HookRow[n] = FirstRow
  \/ \E i \in SaidUpto(n) :
       /\ \A j \in SaidUpto(n) : childHooks[j].at <= childHooks[i].at
       /\ HookRow[n] = RowOf(HookSummary(childHooks[i]))

LEMMA TellsItsTime ==
  ASSUME ChildTyped, NEW i \in DOMAIN childHooks
  PROVE  /\ Plausible(HookSummary(childHooks[i]))
         /\ childHooks[i].at \in Nat
         /\ HookSummary(childHooks[i]) # NoSummary
              => HookSummary(childHooks[i]).at = childHooks[i].at
<1>1. childHooks[i] \in ChildRecords
  BY DEF ChildTyped
<1> DEFINE r == childHooks[i]
<1> HIDE DEF r
<1>2. /\ Plausible(HookSummary(r))
      /\ HookSummary(r) # NoSummary => HookSummary(r).at = r.at
  BY HookSummaryPlausible, Zenon
<1> QED
  BY <1>1, <1>2 DEF r, ChildRecords

LEMMA RowSaysNext ==
  ASSUME ChildTyped, NEW n \in 1..Len(childHooks), RowSays(n - 1)
  PROVE  RowSays(n)
<1> DEFINE told == HookSummary(childHooks[n])
           row == HookRow[n - 1]
<1>1. /\ n \in 1..MaxChildHooks
      /\ n \in DOMAIN childHooks
      /\ n \in Nat
      /\ 1..n = (1 .. n - 1) \cup {n}
  BY ChildBounds DEF ChildTyped
<1>2. HookRow[n] = NextRow(n, row)
  BY <1>1, HookRowSteps
<1>3. /\ childHooks[n].at \in Nat
      /\ told # NoSummary => told.at = childHooks[n].at
  BY <1>1, TellsItsTime
<1>4. \A j \in 1 .. n - 1 : childHooks[j].at \in Nat
  <2>1. \A j \in 1 .. n - 1 : j \in DOMAIN childHooks
    BY <1>1 DEF ChildTyped
  <2> QED
    BY <2>1, TellsItsTime
<1>5. SaidUpto(n) = IF told # NoSummary THEN SaidUpto(n - 1) \cup {n}
                    ELSE SaidUpto(n - 1)
  BY <1>1 DEF SaidUpto
<1>6. CASE told = NoSummary
  <2>1. HookRow[n] = row /\ SaidUpto(n) = SaidUpto(n - 1)
    BY <1>2, <1>5, <1>6 DEF NextRow
  <2> QED
    BY <2>1 DEF RowSays
<1>7. CASE told # NoSummary /\ Replaces(row, told.at)
  <2>1. HookRow[n] = RowOf(told)
    BY <1>2, <1>7 DEF NextRow
  <2>2. n \in SaidUpto(n) /\ SaidUpto(n) = SaidUpto(n - 1) \cup {n}
    BY <1>5, <1>7
  <2>3. \A j \in SaidUpto(n - 1) : childHooks[j].at <= childHooks[n].at
    <3>1. CASE SaidUpto(n - 1) = {}
      BY <3>1
    <3>2. ASSUME NEW i \in SaidUpto(n - 1),
                 \A j \in SaidUpto(n - 1) : childHooks[j].at <= childHooks[i].at,
                 row = RowOf(HookSummary(childHooks[i]))
          PROVE  \A j \in SaidUpto(n - 1) : childHooks[j].at <= childHooks[n].at
      <4>1. SaidUpto(n - 1) \subseteq 1 .. n - 1
        BY DEF SaidUpto
      <4>2. i \in DOMAIN childHooks /\ HookSummary(childHooks[i]) # NoSummary
        BY <1>1, <4>1 DEF ChildTyped, SaidUpto
      <4>3. row.typed = TRUE /\ row.at = childHooks[i].at
        BY <3>2, <4>2, TellsItsTime DEF RowOf
      <4>4. childHooks[i].at <= childHooks[n].at
        BY <1>3, <1>7, <4>3 DEF Replaces
      <4>5. childHooks[i].at \in Nat /\ \A j \in SaidUpto(n - 1) : childHooks[j].at \in Nat
        BY <1>4, <4>1
      <4> HIDE DEF row, told
      <4> QED
        BY <1>3, <3>2, <4>4, <4>5
    <3> QED
      BY <3>1, <3>2 DEF RowSays
  <2>4. \A j \in SaidUpto(n) : childHooks[j].at <= childHooks[n].at
    BY <1>3, <2>2, <2>3
  <2> QED
    BY <2>1, <2>2, <2>4 DEF RowSays
<1>8. CASE told # NoSummary /\ ~Replaces(row, told.at)
  <2>1. HookRow[n] = row
    BY <1>2, <1>8 DEF NextRow
  <2>2. SaidUpto(n) = SaidUpto(n - 1) \cup {n}
    BY <1>5, <1>8
  <2>3. SaidUpto(n - 1) # {}
    <3>1. FirstRow.typed = FALSE
      BY DEF FirstRow
    <3> QED
      BY <1>8, <3>1 DEF RowSays, Replaces
  <2>4. PICK i \in SaidUpto(n - 1) :
          /\ \A j \in SaidUpto(n - 1) : childHooks[j].at <= childHooks[i].at
          /\ row = RowOf(HookSummary(childHooks[i]))
    BY <2>3 DEF RowSays
  <2>5. i \in 1 .. n - 1 /\ i \in DOMAIN childHooks
        /\ HookSummary(childHooks[i]) # NoSummary
    BY <1>1 DEF ChildTyped, SaidUpto
  <2>6. row.at = childHooks[i].at
    BY <2>4, <2>5, TellsItsTime DEF RowOf
  <2>7. ~(childHooks[i].at <= childHooks[n].at)
    BY <1>3, <1>8, <2>6 DEF Replaces
  <2>8. childHooks[n].at <= childHooks[i].at
    BY <1>3, <1>4, <2>5, <2>7
  <2> QED
    BY <2>1, <2>2, <2>4, <2>8 DEF RowSays
<1> QED
  BY <1>6, <1>7, <1>8

LEMMA RowSaysLast ==
  ASSUME ChildTyped
  PROVE  RowSays(Len(childHooks))
<1> DEFINE Wrong == {n \in 0..Len(childHooks) : ~RowSays(n)}
<1>1. Len(childHooks) \in Nat
  BY DEF ChildTyped
<1>2. SUFFICES ASSUME Wrong # {} PROVE FALSE
  BY <1>1
<1>3. Wrong \in SUBSET Nat
  OBVIOUS
<1>4. PICK n \in Wrong : \A m \in Wrong : n <= m
  <2> HIDE DEF Wrong
  <2> QED
    BY <1>2, <1>3, LeastNumber
<1>5. n \in 0..Len(childHooks) /\ ~RowSays(n)
  OBVIOUS
<1>6. RowSays(0)
  BY HookRowSteps DEF RowSays, SaidUpto
<1>7. n \in 1..Len(childHooks) /\ n - 1 \in 0..Len(childHooks) /\ ~(n <= n - 1)
  BY <1>1, <1>5, <1>6
<1>8. RowSays(n - 1)
  <2>1. n - 1 \notin Wrong
    <3> HIDE DEF Wrong
    <3> QED
      BY <1>4, <1>7
  <2> QED
    BY <1>7, <2>1
<1> QED
  BY <1>5, <1>7, <1>8, RowSaysNext

-----------------------------------------------------------------------------

LEMMA ToldIsSaid ==
  ASSUME ChildTyped
  PROVE  /\ SaidUpto(Len(childHooks)) = ToldAt
         /\ ToldAt # {} => SaidLast # {}
         /\ \/ ToldAt = {} /\ HookRow[Len(childHooks)] = FirstRow
            \/ \E i \in SaidLast :
                 HookRow[Len(childHooks)] = RowOf(HookSummary(childHooks[i]))
<1>1. SaidUpto(Len(childHooks)) = ToldAt
  BY DEF SaidUpto, ToldAt, ChildTyped
<1>2. RowSays(Len(childHooks))
  BY RowSaysLast
<1> QED
  BY <1>1, <1>2 DEF RowSays, SaidLast

LEMMA TeamHookIsLast ==
  ASSUME ChildTyped
  PROVE  \/ ToldAt = {} /\ TeamHook = NoSummary
         \/ /\ \E i \in SaidLast :
                 TeamHook = AgedSummary(HookSummary(childHooks[i]), childClock)
            /\ \E i \in ToldAt : TeamHookAt = childHooks[i].at
<1> DEFINE told == {HookSummary(childHooks[i]) : i \in DOMAIN childHooks}
                     \ {NoSummary}
           newest == {i \in DOMAIN childHooks :
                        /\ HookSummary(childHooks[i]) # NoSummary
                        /\ \A s \in told : s.at <= childHooks[i].at}
           ats == {childHooks[i].at : i \in ToldAt}
           last == CHOOSE i \in newest : \A j \in newest : j <= i
           at == CHOOSE a \in ats : \A b \in ats : b <= a
<1>1. CASE ToldAt = {}
  <2>1. told = {}
    BY <1>1 DEF ToldAt
  <2> QED
    BY <1>1, <2>1 DEF TeamHook
<1>2. CASE ToldAt # {}
  <2>1. told # {}
    BY <1>2 DEF ToldAt
  <2>2. newest = SaidLast
    <3>1. \A j \in ToldAt : /\ HookSummary(childHooks[j]) \in told
                            /\ HookSummary(childHooks[j]).at = childHooks[j].at
      BY TellsItsTime DEF ToldAt
    <3>2. \A s \in told : \E j \in ToldAt : s = HookSummary(childHooks[j])
      BY DEF ToldAt
    <3> HIDE DEF told
    <3>3. \A i \in ToldAt : (\A s \in told : s.at <= childHooks[i].at)
                            <=> (\A j \in ToldAt : childHooks[j].at <= childHooks[i].at)
      BY <3>1, <3>2
    <3> QED
      BY <3>3 DEF SaidLast, ToldAt
  <2>3. TeamHook = AgedSummary(HookSummary(childHooks[last]), childClock)
    BY <2>1 DEF TeamHook
  <2>4. TeamHookAt = at
    BY DEF TeamHookAt, ToldAt
  <2>5. PICK first \in SaidLast : TRUE
    BY <1>2, ToldIsSaid
  <2>6. last \in newest
    <3> DEFINE size == Len(childHooks)
    <3>1. /\ size \in Nat
          /\ newest \in SUBSET Nat
          /\ \A c \in newest : c <= size
      BY DEF ChildTyped
    <3>2. newest # {}
      BY <2>2, <2>5
    <3> HIDE DEF newest, size
    <3>3. \E i \in newest : \A j \in newest : j <= i
      BY <3>1, <3>2, GreatestNumber
    <3> QED
      BY <3>3
  <2>7. at \in ats
    <3>1. first \in ToldAt /\ \A j \in ToldAt : childHooks[j].at <= childHooks[first].at
      BY <2>5 DEF SaidLast
    <3>2. /\ childHooks[first].at \in ats
          /\ \A b \in ats : b <= childHooks[first].at
      BY <3>1
    <3> HIDE DEF ats
    <3> QED
      BY <3>2
  <2> HIDE DEF newest, last, at
  <2>8. \E i \in SaidLast :
          TeamHook = AgedSummary(HookSummary(childHooks[i]), childClock)
    BY <2>2, <2>3, <2>6
  <2>9. \E i \in ToldAt : TeamHookAt = childHooks[i].at
    BY <2>4, <2>7
  <2> QED
    BY <2>8, <2>9
<1> QED
  BY <1>1, <1>2

\* What goes on, and only in a passing state, rests once it is old.
LEMMA AgedRests ==
  ASSUME NEW s, NEW now, Plausible(s), s.ongoing => s.state \in Transient,
         Old(s.at, now, ActiveWindow)
  PROVE  AgedSummary(s, now).ongoing = FALSE
<1>1. s = Summary(s.state, s.ongoing, s.needs, s.at)
  BY DEF Plausible
<1>2. s.needs # "none" => FALSE
  BY DEF Plausible, Transient
<1>3. CASE s.state \notin Transient
  BY <1>1, <1>3 DEF AgedSummary, Plausible
<1>4. CASE s.state \in Transient
  <2>1. AgedSummary(s, now) = [s EXCEPT !.state = Faded(s.at, now, s.state),
                                        !.ongoing = FALSE]
    BY <1>2, <1>4 DEF AgedSummary
  <2> DEFINE state == Faded(s.at, now, s.state)
  <2>2. AgedSummary(s, now) = [s EXCEPT !.state = state, !.ongoing = FALSE]
    BY <2>1
  <2> HIDE DEF state
  <2> QED
    BY <1>1, <2>2 DEF Summary
<1> QED
  BY <1>3, <1>4

LEMMA SeedPlausible ==
  ASSUME ChildTyped
  PROVE  Plausible(Seed) /\ (Seed.ongoing => Seed.state \in Transient)
<1>1. \/ Seed = NoSummary
      \/ journal.at # -1 /\ Seed = JournalSummary
      \/ \E at : Seed = FileSummary(at)
  BY DEF Seed, MaxOf, ChildTyped
<1>2. CASE Seed = NoSummary
  BY <1>2 DEF NoSummary, Summary, Plausible
<1>3. CASE journal.at # -1 /\ Seed = JournalSummary
  <2>1. journal.state \in {"running", "done", "blocked"}
    BY <1>3 DEF ChildTyped
  <2> DEFINE going == journal.state \notin Settled
  <2>2. going \in BOOLEAN /\ (going => journal.state = "running")
    BY <2>1 DEF Settled
  <2>3. Seed = Summary(journal.state, going, "none", journal.at)
    BY <1>3 DEF JournalSummary
  <2> HIDE DEF going
  <2> QED
    BY <2>2, <2>3 DEF Summary, Plausible, Transient
<1>4. ASSUME NEW at, Seed = FileSummary(at)
      PROVE  Plausible(Seed) /\ (Seed.ongoing => Seed.state \in Transient)
  <2> DEFINE state == IF childFile.result # "none" THEN childFile.result
                      ELSE IF childFile.text THEN "done"
                      ELSE IF Old(at, childClock, DoneWindow) THEN "idle"
                      ELSE "running"
             going == state \notin Settled
  <2>1. going \in BOOLEAN /\ (going => state = "running")
    BY DEF Settled, ChildTyped
  <2>2. Seed = Summary(state, going, "none", at)
    BY <1>4 DEF FileSummary
  <2> HIDE DEF going, state
  <2> QED
    BY <2>1, <2>2 DEF Summary, Plausible, Transient
<1> QED
  BY <1>1, <1>2, <1>3, <1>4

LEMMA StopIsDone ==
  ASSUME NEW r, r.event.event = "SubagentStop"
  PROVE  HookSummary(r) = Summary("done", FALSE, "none", r.at)
<1>1. DOMAIN Asking = {"PermissionRequest", "Elicitation"}
  BY DEF Asking
<1> DEFINE e == r.event.event
<1>2. /\ e \notin DOMAIN Asking
      /\ e \notin Planning
      /\ e \notin Thinking
      /\ e \notin {"SubagentStart", "TaskCreated"}
      /\ e # "FileChanged"
      /\ e \in Ending
      /\ e \notin Failing
      /\ e \notin Idling
  BY <1>1 DEF Planning, Thinking, Ending, Failing, Idling
<1> QED
  BY <1>2 DEF HookSummary

-----------------------------------------------------------------------------

LEMMA MergedGoesOn ==
  ASSUME NEW s, NEW at, NEW t, NEW bt, s.ongoing \in BOOLEAN, t.ongoing \in BOOLEAN
  PROVE  LET merged == Merged(Row(s, at), Row(t, bt)) IN
         /\ ~(merged.ongoing /\ merged.stopped)
         /\ ~s.ongoing /\ ~t.ongoing => ~merged.ongoing
<1> DEFINE a == Row(s, at)
           b == Row(t, bt)
           later == IF b.at >= a.at THEN b ELSE a
           other == IF b.at >= a.at THEN a ELSE b
           going == later.ongoing \/ (other.ongoing /\ ~later.stopped)
           stopped == ~(later.ongoing \/ other.ongoing)
                      /\ (later.stopped \/ other.stopped)
<1>1. Merged(a, b) = [later EXCEPT !.ongoing = going, !.stopped = stopped]
  BY DEF Merged
<1>2. /\ going \in BOOLEAN
      /\ stopped \in BOOLEAN
      /\ ~(going /\ stopped)
      /\ ~s.ongoing /\ ~t.ongoing => ~going
  BY DEF Row
<1>3. DOMAIN later = {"state", "ongoing", "needs", "at", "stopped"}
  BY DEF Row
<1> HIDE DEF later, going, stopped
<1>4. Merged(a, b).ongoing = going /\ Merged(a, b).stopped = stopped
  BY <1>1, <1>3
<1> QED
  BY <1>2, <1>4

LEMMA RowsAreProper ==
  ASSUME ChildTyped
  PROVE  /\ \E s, at : s.ongoing \in BOOLEAN /\ ChildRow = Row(s, at)
         /\ \E s, at : s.ongoing \in BOOLEAN /\ TeamRow = Row(s, at)
         /\ ~ NoRow.ongoing
<1>1. NoSummary.ongoing \in BOOLEAN /\ ~ NoSummary.ongoing /\ Plausible(NoSummary)
  BY DEF NoSummary, Summary, Plausible
<1>2. ~ NoRow.ongoing
  BY <1>1 DEF NoRow, Row
<1>3. \A i \in DOMAIN childHooks :
        AgedSummary(HookSummary(childHooks[i]), childClock).ongoing \in BOOLEAN
  <2> SUFFICES ASSUME NEW i \in DOMAIN childHooks
               PROVE  AgedSummary(HookSummary(childHooks[i]), childClock).ongoing
                        \in BOOLEAN
    OBVIOUS
  <2> DEFINE said == HookSummary(childHooks[i])
  <2>1. Plausible(said)
    BY TellsItsTime
  <2> HIDE DEF said
  <2>2. Plausible(AgedSummary(said, childClock))
    BY <2>1, AgedPlausible, Zenon
  <2> QED
    BY <2>2 DEF Plausible, said
<1>4. AgedSummary(Seed, childClock).ongoing \in BOOLEAN
  <2>1. Plausible(Seed)
    BY SeedPlausible
  <2>2. Plausible(AgedSummary(Seed, childClock))
    BY <2>1, AgedPlausible, Zenon
  <2> QED
    BY <2>2 DEF Plausible
<1>5. \E s, at : s.ongoing \in BOOLEAN /\ ChildRow = Row(s, at)
  <2> DEFINE row == HookRow[Len(childHooks)]
  <2>1. row.summary.ongoing \in BOOLEAN
    <3>1. CASE row = FirstRow
      <4>1. row.summary = IF Seed = NoSummary THEN NoSummary
                          ELSE AgedSummary(Seed, childClock)
        BY <3>1 DEF FirstRow
      <4> HIDE DEF row
      <4> QED
        BY <1>1, <1>4, <4>1
    <3>2. ASSUME NEW i \in SaidLast, row = RowOf(HookSummary(childHooks[i]))
          PROVE  row.summary.ongoing \in BOOLEAN
      <4>1. row.summary = AgedSummary(HookSummary(childHooks[i]), childClock)
        BY <3>2 DEF RowOf
      <4>2. i \in DOMAIN childHooks
        BY DEF SaidLast, ToldAt
      <4> HIDE DEF row
      <4> QED
        BY <1>3, <4>1, <4>2
    <3> QED
      BY <3>1, <3>2, ToldIsSaid
  <2>2. ChildRow = Row(NoSummary, -1) \/ ChildRow = Row(row.summary, row.summary.at)
    BY DEF ChildRow, NoRow
  <2> HIDE DEF row
  <2> QED
    BY <1>1, <2>1, <2>2
<1>6. \E s, at : s.ongoing \in BOOLEAN /\ TeamRow = Row(s, at)
  <2>1. CASE ~teammate.member
    BY <1>1, <2>1 DEF TeamRow, NoRow
  <2>2. FreshMember \in BOOLEAN
    BY DEF FreshMember, ChildTyped
  <2>3. CASE teammate.member /\ TeamHook = NoSummary
    <3> DEFINE s == Summary(IF FreshMember THEN "running" ELSE "idle", FreshMember,
                            "none", teammate.at)
    <3>1. TeamRow = Row(s, teammate.at)
      BY <2>3 DEF TeamRow
    <3>2. s.ongoing \in BOOLEAN
      BY <2>2 DEF Summary
    <3> HIDE DEF s
    <3> QED
      BY <3>1, <3>2
  <2>4. CASE teammate.member /\ TeamHook # NoSummary
    <3>1. PICK i \in SaidLast :
            TeamHook = AgedSummary(HookSummary(childHooks[i]), childClock)
      BY <2>4, TeamHookIsLast
    <3>2. TeamHook.ongoing \in BOOLEAN /\ Plausible(TeamHook)
      <4>1. i \in DOMAIN childHooks
        BY DEF SaidLast, ToldAt
      <4> DEFINE said == HookSummary(childHooks[i])
      <4>2. Plausible(said)
        BY <4>1, TellsItsTime
      <4> HIDE DEF said
      <4>3. Plausible(AgedSummary(said, childClock))
        BY <4>2, AgedPlausible, Zenon
      <4> QED
        BY <3>1, <4>3 DEF said, Plausible
    <3>3. TeamHook = Summary(TeamHook.state, TeamHook.ongoing, TeamHook.needs,
                             TeamHook.at)
      BY <3>2 DEF Plausible
    <3> DEFINE state == IF FreshMember /\ TeamHook.state \in {"done", "idle"}
                          THEN "running" ELSE TeamHook.state
               going == TeamHook.ongoing \/ FreshMember
               s == [TeamHook EXCEPT !.state = state, !.ongoing = going]
               at == MaxOf(teammate.at, TeamHookAt)
    <3>4. TeamRow = Row(s, at)
      BY <2>4 DEF TeamRow
    <3>5. going \in BOOLEAN
      BY <2>2, <3>2
    <3>6. s.ongoing = going
      <4> HIDE DEF state, going
      <4> QED
        BY <3>3 DEF Summary
    <3> HIDE DEF s, at, going
    <3> QED
      BY <3>4, <3>5, <3>6
  <2> QED
    BY <2>1, <2>3, <2>4
<1> QED
  BY <1>2, <1>5, <1>6

\* The team's row goes on only by what the lead's hooks said or while the team
\* calls the member active.
LEMMA TeamRowGoesOn ==
  ASSUME ChildTyped, ~FreshMember, ~TeamHook.ongoing
  PROVE  ~TeamRow.ongoing
<1>1. CASE ~teammate.member
  BY <1>1, RowsAreProper DEF TeamRow
<1>2. CASE teammate.member /\ TeamHook = NoSummary
  <2>1. TeamRow = Row(Summary("idle", FreshMember, "none", teammate.at), teammate.at)
    BY <1>2 DEF TeamRow
  <2> QED
    BY <2>1 DEF Row, Summary
<1>3. CASE teammate.member /\ TeamHook # NoSummary
  <2>1. PICK i \in SaidLast :
          TeamHook = AgedSummary(HookSummary(childHooks[i]), childClock)
    BY <1>3, TeamHookIsLast
  <2>2. TeamHook = Summary(TeamHook.state, TeamHook.ongoing, TeamHook.needs,
                           TeamHook.at)
    <3>1. i \in DOMAIN childHooks
      BY DEF SaidLast, ToldAt
    <3> DEFINE said == HookSummary(childHooks[i])
    <3>2. Plausible(said)
      BY <3>1, TellsItsTime
    <3> HIDE DEF said
    <3>3. Plausible(AgedSummary(said, childClock))
      BY <3>2, AgedPlausible, Zenon
    <3> QED
      BY <2>1, <3>3 DEF said, Plausible
  <2> DEFINE state == IF FreshMember /\ TeamHook.state \in {"done", "idle"}
                        THEN "running" ELSE TeamHook.state
             going == TeamHook.ongoing \/ FreshMember
             s == [TeamHook EXCEPT !.state = state, !.ongoing = going]
             at == MaxOf(teammate.at, TeamHookAt)
  <2>3. TeamRow = Row(s, at)
    BY <1>3 DEF TeamRow
  <2>4. ~going
    OBVIOUS
  <2>5. s.ongoing = going
    <3> HIDE DEF state, going
    <3> QED
      BY <2>2 DEF Summary
  <2> HIDE DEF s, at, going
  <2> QED
    BY <2>3, <2>4, <2>5 DEF Row
<1> QED
  BY <1>1, <1>2, <1>3

LEMMA AgentGoesOn ==
  ASSUME ChildTyped
  PROVE  /\ ~(ChildAgent.ongoing /\ ChildAgent.stopped)
         /\ ~ChildRow.ongoing /\ ~TeamRow.ongoing => ~ChildAgent.ongoing
<1>1. PICK s, at : s.ongoing \in BOOLEAN /\ ChildRow = Row(s, at)
  BY RowsAreProper
<1>2. PICK t, bt : t.ongoing \in BOOLEAN /\ TeamRow = Row(t, bt)
  BY RowsAreProper
<1>3. /\ ~(Merged(Row(s, at), Row(t, bt)).ongoing
           /\ Merged(Row(s, at), Row(t, bt)).stopped)
      /\ ~s.ongoing /\ ~t.ongoing => ~Merged(Row(s, at), Row(t, bt)).ongoing
  BY <1>1, <1>2, MergedGoesOn
<1>4. /\ ~(ChildRow.ongoing /\ ChildRow.stopped)
      /\ ~(TeamRow.ongoing /\ TeamRow.stopped)
      /\ ChildRow.ongoing = s.ongoing
      /\ TeamRow.ongoing = t.ongoing
  BY <1>1, <1>2 DEF Row
<1>5. \/ ChildAgent = TeamRow
      \/ ChildAgent = ChildRow
      \/ ChildAgent = Merged(Row(s, at), Row(t, bt))
  BY <1>1, <1>2 DEF ChildAgent
<1> QED
  BY <1>3, <1>4, <1>5

LEMMA StoppedStaysStoppedThen ==
  ASSUME ChildTyped
  PROVE  StoppedStaysStopped
<1> SUFFICES ASSUME SaidLast # {}, ~FreshMember,
                    \A i \in SaidLast : childHooks[i].event.event = "SubagentStop"
             PROVE  ~ChildAgent.ongoing
  BY DEF StoppedStaysStopped
<1>1. ASSUME NEW i \in SaidLast
      PROVE  ~ AgedSummary(HookSummary(childHooks[i]), childClock).ongoing
  <2>1. HookSummary(childHooks[i]) = Summary("done", FALSE, "none", childHooks[i].at)
    BY StopIsDone
  <2> QED
    BY <2>1 DEF AgedSummary, Summary, Transient
<1>2. ToldAt # {}
  BY DEF SaidLast
<1>3. ~ChildRow.ongoing
  <2>1. PICK i \in SaidLast :
          HookRow[Len(childHooks)] = RowOf(HookSummary(childHooks[i]))
    BY <1>2, ToldIsSaid
  <2> DEFINE aged == AgedSummary(HookSummary(childHooks[i]), childClock)
  <2>2. HookRow[Len(childHooks)].summary = aged
    BY <2>1 DEF RowOf
  <2>3. ~aged.ongoing
    BY <1>1
  <2> HIDE DEF aged
  <2> QED
    BY <2>2, <2>3, RowsAreProper DEF ChildRow, Row
<1>4. ~TeamHook.ongoing
  BY <1>1, <1>2, TeamHookIsLast
<1> QED
  BY <1>3, <1>4, TeamRowGoesOn, AgentGoesOn

LEMMA NoForgottenChildThen ==
  ASSUME ChildTyped
  PROVE  NoForgottenChild
<1>1. ~(ChildAgent.ongoing /\ ChildAgent.stopped)
  BY AgentGoesOn
<1> SUFFICES ASSUME \A i \in ToldAt :
                      /\ Old(childHooks[i].at, childClock, DoneWindow)
                      /\ HookSummary(childHooks[i]).state \in Transient \cup {"done"},
                    Old(Seed.at, childClock, DoneWindow),
                    Old(teammate.at, childClock, DoneWindow)
             PROVE  ~ChildAgent.ongoing
  BY <1>1 DEF NoForgottenChild
<1>2. ASSUME NEW i \in SaidLast
      PROVE  ~ AgedSummary(HookSummary(childHooks[i]), childClock).ongoing
  <2>1. i \in ToldAt /\ i \in DOMAIN childHooks
        /\ HookSummary(childHooks[i]) # NoSummary
    BY DEF SaidLast, ToldAt
  <2> DEFINE said == HookSummary(childHooks[i])
  <2>2. Plausible(said) /\ said.at = childHooks[i].at /\ childHooks[i].at \in Nat
    BY <2>1, TellsItsTime
  <2>3. said.state \in Transient \cup {"done"} /\ Old(said.at, childClock, DoneWindow)
        /\ said.at \in Nat
    BY <2>1, <2>2
  <2> HIDE DEF said
  <2>4. Old(said.at, childClock, ActiveWindow)
    BY <2>3, ClaudeWindows DEF Old, ChildTyped
  <2>5. said.ongoing => said.state \in Transient
    BY <2>2, <2>3 DEF Plausible
  <2>6. AgedSummary(said, childClock).ongoing = FALSE
    BY <2>2, <2>4, <2>5, AgedRests
  <2> QED
    BY <2>6 DEF said
<1>3. Seed # NoSummary => ~ AgedSummary(Seed, childClock).ongoing
  <2>1. Seed.at \in Int
    BY DEF Seed, NoSummary, Summary, JournalSummary, FileSummary, MaxOf, ChildTyped
  <2>2. Old(Seed.at, childClock, ActiveWindow)
    BY <2>1, ClaudeWindows DEF Old, ChildTyped
  <2> QED
    BY <2>2, SeedPlausible, AgedRests
<1>4. ~ChildRow.ongoing
  <2> DEFINE row == HookRow[Len(childHooks)]
  <2>1. row.summary # NoSummary => ~row.summary.ongoing
    <3>1. CASE row = FirstRow
      <4>1. row.summary = IF Seed = NoSummary THEN NoSummary
                          ELSE AgedSummary(Seed, childClock)
        BY <3>1 DEF FirstRow
      <4> HIDE DEF row
      <4> QED
        BY <1>3, <4>1
    <3>2. ASSUME NEW i \in SaidLast, row = RowOf(HookSummary(childHooks[i]))
          PROVE  ~row.summary.ongoing
      <4>1. row.summary = AgedSummary(HookSummary(childHooks[i]), childClock)
        BY <3>2 DEF RowOf
      <4> HIDE DEF row
      <4> QED
        BY <1>2, <4>1
    <3> QED
      BY <3>1, <3>2, ToldIsSaid
  <2>2. ChildRow = IF row.summary = NoSummary THEN NoRow
                   ELSE Row(row.summary, row.summary.at)
    BY DEF ChildRow
  <2> HIDE DEF row
  <2> QED
    BY <2>1, <2>2, RowsAreProper DEF Row
<1>5. ~TeamHook.ongoing
  <2>1. ~NoSummary.ongoing
    BY DEF NoSummary, Summary
  <2> QED
    BY <1>2, <2>1, TeamHookIsLast
<1>6. ~FreshMember
  <2>1. CASE TeamHook = NoSummary
    BY <2>1 DEF FreshMember
  <2>2. CASE TeamHook # NoSummary
    <3>1. PICK i \in ToldAt : TeamHookAt = childHooks[i].at
      BY <2>2, TeamHookIsLast
    <3> QED
      BY <3>1 DEF FreshMember
  <2> QED
    BY <2>1, <2>2
<1> QED
  BY <1>4, <1>5, <1>6, TeamRowGoesOn, AgentGoesOn

\* ChildrenAreTold (claude.ts, buildClaudeSubagentAgents and
\* mergeClaudeDashboardAgents): a child whose lead was told last, by time, that
\* it stopped is not shown at work by a record that stands later in the file
\* but is earlier, nor by its transcript and journal; a child of which every
\* trace is old goes on no more; and no child is at work and stopped at once.
\* For any hooks, any order of them in the file, and any team.
THEOREM ChildrenAreAlwaysTold == ChildSpec => []ChildrenAreTold
<1>1. ChildTyped => ChildrenAreTold
  BY StoppedStaysStoppedThen, NoForgottenChildThen DEF ChildrenAreTold
<1> QED
  BY <1>1, ChildTypedHolds, PTL

-----------------------------------------------------------------------------
(* Claude's hooks: the questions they ask and the files of the answers.    *)

CallStages == {"none", "polling", "read", "returned", "threw", "aborted"}
AnswerStages == {"none", "opening", "writing", "marking", "done"}

BridgeTyped ==
  /\ instant \in 0..MaxInstant
  /\ call \in [Calls -> [stage : CallStages, request : RequestIds \cup {NoRequest},
                         got : {"none", "empty", "accept", "decline"}]]
  /\ file \in [RequestIds -> {"absent", "empty", "accept", "decline"}]
  /\ answer \in [Calls -> [stage : AnswerStages,
                           decision : {"none", "accept", "decline"}]]

\* The id of a hook that has asked is of its event and of an earlier instant,
\* and no other hook has it: no file is two hooks'.
RequestsAreOwn ==
  /\ \A c \in Calls :
       IF call[c].stage = "none"
         THEN call[c].request = NoRequest
         ELSE call[c].request \in RequestIds /\ call[c].request.instant < instant
  /\ \A c, d \in Calls :
       call[c].stage # "none" /\ call[c].request = call[d].request => c = d
  /\ \A q \in RequestIds : q.instant >= instant => file[q] = "absent"

\* A hook's file holds nothing but what the browser answered that hook, and is
\* there from its opening until the hook has read it.
FilesAreTheirs ==
  \A c \in Calls :
    /\ call[c].stage = "none" => answer[c].stage = "none"
    /\ answer[c].stage # "none" => answer[c].decision \in Decisions(c)
    /\ call[c].stage # "none" =>
         /\ file[call[c].request] \in {"absent", "empty"} \cup Decisions(c)
         /\ file[call[c].request] # "absent" => answer[c].stage # "none"
    /\ call[c].stage \in {"read", "returned"} =>
         answer[c].stage # "none" /\ call[c].got \in {"empty"} \cup Decisions(c)
    /\ call[c].stage = "returned" => call[c].got # "empty"
    /\ answer[c].stage \in {"writing", "marking", "done"} =>
         \/ file[call[c].request] # "absent"
         \/ call[c].stage \in {"read", "returned", "threw"}

BridgeInv == BridgeTyped /\ RequestsAreOwn /\ FilesAreTheirs

-----------------------------------------------------------------------------
LEMMA DecisionsAreWords ==
  ASSUME NEW c \in Calls
  PROVE  Decisions(c) \subseteq {"accept", "decline"}
BY DEF Decisions

LEMMA NoRequestIsNone == NoRequest \notin RequestIds
BY DEF NoRequest, RequestIds

LEMMA BridgeStart == BridgeInit => BridgeInv
BY NoRequestIsNone, BridgeAssumption
   DEF BridgeInit, BridgeInv, BridgeTyped, RequestsAreOwn, FilesAreTheirs,
       CallStages, AnswerStages

\* A hook asks under an id nobody has.
LEMMA HookAsksKeeps ==
  ASSUME BridgeInv, NEW c \in Calls, HookAsks(c)
  PROVE  BridgeInv'
<1> DEFINE q == RequestId(c)
<1>1. /\ call[c].stage = "none" /\ instant \in 0..MaxInstant
      /\ instant < MaxInstant /\ instant' = instant + 1
      /\ call' = [call EXCEPT ![c] = [@ EXCEPT !.stage = "polling", !.request = q]]
      /\ UNCHANGED <<file, answer>>
  BY DEF HookAsks, BridgeInv, BridgeTyped
<1>2. q \in RequestIds /\ q.instant = instant
  BY <1>1 DEF RequestId, RequestIds, EventOf
<1> HIDE DEF q
<1>3. /\ \A d \in Calls : d # c => call'[d] = call[d]
      /\ call'[c].stage = "polling" /\ call'[c].request = q /\ call'[c].got = call[c].got
      /\ call'[c] = [call[c] EXCEPT !.stage = "polling", !.request = q]
  BY <1>1 DEF BridgeInv, BridgeTyped
<1>4. \A d \in Calls : call[d].request # q
  BY <1>1, <1>2, NoRequestIsNone DEF BridgeInv, RequestsAreOwn
<1>5. file[q] = "absent" /\ answer[c].stage = "none"
  BY <1>1, <1>2 DEF BridgeInv, RequestsAreOwn, FilesAreTheirs
<1>6. BridgeTyped'
  <2>1. instant' \in 0..MaxInstant
    BY <1>1, BridgeAssumption
  <2>2. call' \in [Calls -> [stage : CallStages, request : RequestIds \cup {NoRequest},
                             got : {"none", "empty", "accept", "decline"}]]
    BY <1>1, <1>2 DEF BridgeInv, BridgeTyped, CallStages
  <2> QED BY <1>1, <2>1, <2>2 DEF BridgeInv, BridgeTyped
<1>7. RequestsAreOwn'
  <2>1. \A d \in Calls : d # c /\ call[d].stage # "none" =>
          call'[d].request \in RequestIds /\ call'[d].request.instant < instant'
    <3> SUFFICES ASSUME NEW d \in Calls, d # c, call[d].stage # "none"
                 PROVE  call'[d].request \in RequestIds /\ call'[d].request.instant < instant'
      OBVIOUS
    <3>1. call[d].request \in RequestIds /\ call[d].request.instant < instant
      BY DEF BridgeInv, RequestsAreOwn
    <3>2. call[d].request.instant \in Nat /\ instant \in Nat
      BY <3>1, <1>1 DEF RequestIds
    <3> QED BY <3>1, <3>2, <1>1, <1>3
  <2>2. \A d \in Calls : d # c /\ call[d].stage = "none" => call'[d].request = NoRequest
    BY <1>3 DEF BridgeInv, RequestsAreOwn
  <2>3. instant < instant'
    BY <1>1
  <2>4. \A d, e \in Calls :
          call'[d].stage # "none" /\ call'[d].request = call'[e].request => d = e
    <3> SUFFICES ASSUME NEW d \in Calls, NEW e \in Calls, call'[d].stage # "none",
                        call'[d].request = call'[e].request, d # e
                 PROVE  FALSE
      OBVIOUS
    <3>1. CASE d = c
      BY <3>1, <1>3, <1>4
    <3>2. CASE e = c
      BY <3>2, <1>3, <1>4
    <3>3. CASE d # c /\ e # c
      <4>1. call'[d] = call[d] /\ call'[e] = call[e]
        BY <3>3, <1>3
      <4> QED BY <4>1 DEF BridgeInv, RequestsAreOwn
    <3> QED BY <3>1, <3>2, <3>3
  <2>5. \A r \in RequestIds : r.instant >= instant' => file'[r] = "absent"
    <3> SUFFICES ASSUME NEW r \in RequestIds, r.instant >= instant'
                 PROVE  file[r] = "absent"
      BY <1>1
    <3>1. r.instant \in Nat
      BY DEF RequestIds
    <3>2. r.instant >= instant
      BY <3>1, <1>1
    <3> QED BY <3>2 DEF BridgeInv, RequestsAreOwn
  <2> QED BY <1>2, <1>3, <2>1, <2>2, <2>3, <2>4, <2>5 DEF RequestsAreOwn
<1>8. FilesAreTheirs'
  <2>1. \A d \in Calls : d # c => UNCHANGED <<call[d], answer[d], file[call[d].request]>>
    BY <1>1, <1>3
  <2> QED BY <1>1, <1>3, <1>5, <2>1 DEF BridgeInv, FilesAreTheirs
<1> QED BY <1>6, <1>7, <1>8 DEF BridgeInv

\* A step of one hook or answer, that changes nobody's request.
LEMMA OthersKept ==
  ASSUME BridgeInv, NEW c \in Calls,
         BridgeTyped', instant' = instant,
         call[c].stage # "none", call'[c].stage # "none",
         \A d \in Calls : call'[d].request = call[d].request,
         \A d \in Calls \ {c} : call'[d] = call[d] /\ answer'[d] = answer[d],
         \A q \in RequestIds \ {call[c].request} : file'[q] = file[q],
         answer'[c].stage # "none" => answer'[c].decision \in Decisions(c),
         file'[call[c].request] \in {"absent", "empty"} \cup Decisions(c),
         file'[call[c].request] # "absent" => answer'[c].stage # "none",
         call'[c].stage \in {"read", "returned"} =>
           answer'[c].stage # "none" /\ call'[c].got \in {"empty"} \cup Decisions(c),
         call'[c].stage = "returned" => call'[c].got # "empty",
         answer'[c].stage \in {"writing", "marking", "done"} =>
           \/ file'[call[c].request] # "absent"
           \/ call'[c].stage \in {"read", "returned", "threw"}
  PROVE  BridgeInv'
<1>1. call[c].request \in RequestIds /\ call[c].request.instant < instant
  BY DEF BridgeInv, RequestsAreOwn
<1>2. RequestsAreOwn'
  <2>1. \A d \in Calls : call'[d].stage = "none" <=> call[d].stage = "none"
    OBVIOUS
  <2>2. \A r \in RequestIds : r.instant >= instant => r # call[c].request
    <3> SUFFICES ASSUME NEW r \in RequestIds, r.instant >= instant, r = call[c].request
                 PROVE  FALSE
      OBVIOUS
    <3>1. r.instant \in Nat /\ instant \in Nat
      BY DEF RequestIds, BridgeInv, BridgeTyped
    <3> QED BY <1>1, <3>1
  <2> QED BY <2>1, <2>2 DEF BridgeInv, RequestsAreOwn
<1>3. FilesAreTheirs'
  <2>1. \A d \in Calls \ {c} : call[d].stage # "none" =>
          /\ call[d].request \in RequestIds /\ call[d].request # call[c].request
          /\ file'[call'[d].request] = file[call[d].request]
    BY DEF BridgeInv, RequestsAreOwn
  <2> SUFFICES ASSUME NEW d \in Calls PROVE
        (/\ call[d].stage = "none" => answer[d].stage = "none"
         /\ answer[d].stage # "none" => answer[d].decision \in Decisions(d)
         /\ call[d].stage # "none" =>
              /\ file[call[d].request] \in {"absent", "empty"} \cup Decisions(d)
              /\ file[call[d].request] # "absent" => answer[d].stage # "none"
         /\ call[d].stage \in {"read", "returned"} =>
              answer[d].stage # "none" /\ call[d].got \in {"empty"} \cup Decisions(d)
         /\ call[d].stage = "returned" => call[d].got # "empty"
         /\ answer[d].stage \in {"writing", "marking", "done"} =>
              \/ file[call[d].request] # "absent"
              \/ call[d].stage \in {"read", "returned", "threw"})'
    BY DEF FilesAreTheirs, Decisions
  <2>2. CASE d = c
    BY <2>2 DEF Decisions
  <2>3. CASE d # c
    BY <2>3, <2>1 DEF BridgeInv, FilesAreTheirs, Decisions
  <2> QED BY <2>2, <2>3
<1> QED BY <1>2, <1>3 DEF BridgeInv


-----------------------------------------------------------------------------
(* The other steps.                                                        *)

LEMMA HookStep ==
  ASSUME BridgeInv, NEW c \in Calls, PollFinds(c) \/ PollRemoves(c) \/ HookAborted(c)
  PROVE  BridgeInv'
<1> DEFINE q == call[c].request
<1>1. call[c].stage # "none" /\ instant' = instant /\ answer' = answer
  BY DEF PollFinds, PollRemoves, HookAborted
<1>2. /\ q \in RequestIds /\ call[c] \in [stage : CallStages,
                                request : RequestIds \cup {NoRequest},
                                got : {"none", "empty", "accept", "decline"}]
      /\ file[q] \in {"absent", "empty"} \cup Decisions(c)
      /\ file[q] # "absent" => answer[c].stage # "none"
      /\ answer[c].stage # "none" => answer[c].decision \in Decisions(c)
      /\ call[c].stage \in {"read", "returned"} =>
           answer[c].stage # "none" /\ call[c].got \in {"empty"} \cup Decisions(c)
      /\ answer[c].stage \in {"writing", "marking", "done"} =>
           \/ file[q] # "absent"
           \/ call[c].stage \in {"read", "returned", "threw"}
  BY <1>1 DEF BridgeInv, BridgeTyped, RequestsAreOwn, FilesAreTheirs
<1>3. Decisions(c) \subseteq {"accept", "decline"}
  BY DecisionsAreWords
<1>4. CASE PollFinds(c)
  <2>1. /\ call[c].stage = "polling" /\ file[q] # "absent" /\ file' = file
        /\ call' = [call EXCEPT ![c].stage = "read", ![c].got = file[q]]
    BY <1>4 DEF PollFinds
  <2>2. /\ call'[c].stage = "read" /\ call'[c].got = file[q] /\ call'[c].request = q
        /\ \A d \in Calls \ {c} : call'[d] = call[d]
    BY <2>1, <1>2 DEF BridgeInv, BridgeTyped
  <2>3. BridgeTyped'
    <3>1. file[q] \in {"none", "empty", "accept", "decline"}
      BY <2>1, <1>2, <1>3
    <3>2. call' \in [Calls -> [stage : CallStages, request : RequestIds \cup {NoRequest},
                               got : {"none", "empty", "accept", "decline"}]]
      <4> DEFINE half == [call EXCEPT ![c].stage = "read"]
      <4>1. half \in [Calls -> [stage : CallStages, request : RequestIds \cup {NoRequest},
                                got : {"none", "empty", "accept", "decline"}]]
        BY DEF BridgeInv, BridgeTyped, CallStages
      <4>2. call' = [half EXCEPT ![c].got = file[q]]
        BY <2>1
      <4> HIDE DEF half
      <4> QED BY <3>1, <4>1, <4>2
    <3> QED BY <3>2, <2>1, <1>1 DEF BridgeInv, BridgeTyped
  <2> HIDE DEF q
  <2> QED BY <1>1, <1>2, <2>1, <2>2, <2>3, OthersKept DEF q
<1>5. CASE PollRemoves(c)
  <2>1. /\ call[c].stage = "read" /\ file' = [file EXCEPT ![q] = "absent"]
        /\ call' = [call EXCEPT ![c].stage =
                      IF call[c].got = "empty" THEN "threw" ELSE "returned"]
    BY <1>5 DEF PollRemoves
  <2>2. /\ call'[c].stage = IF call[c].got = "empty" THEN "threw" ELSE "returned"
        /\ call'[c].got = call[c].got /\ call'[c].request = q
        /\ \A d \in Calls \ {c} : call'[d] = call[d]
        /\ file'[q] = "absent" /\ \A r \in RequestIds \ {q} : file'[r] = file[r]
    BY <2>1, <1>2 DEF BridgeInv, BridgeTyped
  <2>3. BridgeTyped'
    <3>1. PICK s \in CallStages : call' = [call EXCEPT ![c].stage = s]
      BY <2>1 DEF CallStages
    <3>2. call' \in [Calls -> [stage : CallStages, request : RequestIds \cup {NoRequest},
                               got : {"none", "empty", "accept", "decline"}]]
      BY <3>1 DEF BridgeInv, BridgeTyped
    <3>3. file' \in [RequestIds -> {"absent", "empty", "accept", "decline"}]
      BY <2>1 DEF BridgeInv, BridgeTyped
    <3> QED BY <3>2, <3>3, <1>1 DEF BridgeInv, BridgeTyped
  <2> QED BY <1>1, <1>2, <2>1, <2>2, <2>3, OthersKept
<1>6. CASE HookAborted(c)
  <2>1. /\ call[c].stage = "polling" /\ file' = file
        /\ call' = [call EXCEPT ![c].stage = "aborted"]
    BY <1>6 DEF HookAborted
  <2>2. /\ call'[c].stage = "aborted" /\ call'[c].request = q
        /\ \A d \in Calls \ {c} : call'[d] = call[d]
    BY <2>1, <1>2 DEF BridgeInv, BridgeTyped
  <2>3. BridgeTyped'
    BY <2>1, <1>1 DEF BridgeInv, BridgeTyped, CallStages
  <2> QED BY <1>1, <1>2, <2>1, <2>2, <2>3, OthersKept
<1> QED BY <1>4, <1>5, <1>6

LEMMA AnswerStep ==
  ASSUME BridgeInv, NEW c \in Calls,
         \/ \E d \in Decisions(c) : BrowserAnswers(c, d)
         \/ AnswerOpens(c) \/ AnswerWrites(c) \/ AnswerMarks(c)
  PROVE  BridgeInv'
<1> DEFINE q == call[c].request
<1>1. call[c].stage # "none" /\ instant' = instant /\ call' = call
  BY DEF BridgeInv, RequestsAreOwn, FilesAreTheirs, BrowserAnswers, AnswerOpens,
     AnswerWrites, AnswerMarks
<1>2. /\ q \in RequestIds
      /\ file[q] \in {"absent", "empty"} \cup Decisions(c)
      /\ file[q] # "absent" => answer[c].stage # "none"
      /\ answer[c].stage # "none" => answer[c].decision \in Decisions(c)
      /\ call[c].stage \in {"read", "returned"} =>
           answer[c].stage # "none" /\ call[c].got \in {"empty"} \cup Decisions(c)
      /\ call[c].stage = "returned" => call[c].got # "empty"
      /\ answer[c].stage \in {"writing", "marking", "done"} =>
           \/ file[q] # "absent"
           \/ call[c].stage \in {"read", "returned", "threw"}
  BY <1>1 DEF BridgeInv, RequestsAreOwn, FilesAreTheirs
<1>3. Decisions(c) \subseteq {"accept", "decline"}
  BY DecisionsAreWords
<1>4. ASSUME NEW d \in Decisions(c), BrowserAnswers(c, d) PROVE BridgeInv'
  <2>1. answer' = [answer EXCEPT ![c] = [stage |-> "opening", decision |-> d]]
        /\ file' = file
    BY <1>4 DEF BrowserAnswers
  <2>2. /\ answer'[c].stage = "opening" /\ answer'[c].decision = d
        /\ \A e \in Calls \ {c} : answer'[e] = answer[e]
    BY <2>1 DEF BridgeInv, BridgeTyped
  <2>3. BridgeTyped'
    BY <2>1, <1>1, <1>3 DEF BridgeInv, BridgeTyped, AnswerStages
  <2> QED BY <1>1, <1>2, <2>1, <2>2, <2>3, OthersKept
<1>5. CASE AnswerOpens(c)
  <2>1. /\ answer[c].stage = "opening"
        /\ file' = [file EXCEPT ![q] = "empty"]
        /\ answer' = [answer EXCEPT ![c].stage = "writing"]
    BY <1>5 DEF AnswerOpens
  <2>2. /\ answer'[c].stage = "writing" /\ answer'[c].decision = answer[c].decision
        /\ \A e \in Calls \ {c} : answer'[e] = answer[e]
        /\ file'[q] = "empty" /\ \A r \in RequestIds \ {q} : file'[r] = file[r]
    BY <2>1, <1>2 DEF BridgeInv, BridgeTyped
  <2>3. BridgeTyped'
    BY <2>1, <1>1 DEF BridgeInv, BridgeTyped, AnswerStages
  <2> QED BY <1>1, <1>2, <2>1, <2>2, <2>3, OthersKept
<1>6. CASE AnswerWrites(c)
  <2>1. /\ answer[c].stage = "writing"
        /\ file' = [file EXCEPT ![q] = IF @ = "absent" THEN "absent"
                                       ELSE answer[c].decision]
        /\ answer' = [answer EXCEPT ![c].stage = "marking"]
    BY <1>6 DEF AnswerWrites
  <2>2. /\ answer'[c].stage = "marking" /\ answer'[c].decision = answer[c].decision
        /\ \A e \in Calls \ {c} : answer'[e] = answer[e]
        /\ file'[q] = IF file[q] = "absent" THEN "absent" ELSE answer[c].decision
        /\ \A r \in RequestIds \ {q} : file'[r] = file[r]
        /\ answer[c].decision # "absent"
    BY <2>1, <1>2, <1>3 DEF BridgeInv, BridgeTyped
  <2>3. BridgeTyped'
    <3>1. answer[c].decision \in {"accept", "decline"}
      BY <2>1, <1>2, <1>3
    <3> QED BY <3>1, <2>1, <1>1 DEF BridgeInv, BridgeTyped, AnswerStages
  <2> QED BY <1>1, <1>2, <2>1, <2>2, <2>3, OthersKept
<1>7. CASE AnswerMarks(c)
  <2>1. /\ answer[c].stage = "marking" /\ file' = file
        /\ answer' = [answer EXCEPT ![c].stage = "done"]
    BY <1>7 DEF AnswerMarks
  <2>2. /\ answer'[c].stage = "done" /\ answer'[c].decision = answer[c].decision
        /\ \A e \in Calls \ {c} : answer'[e] = answer[e]
    BY <2>1 DEF BridgeInv, BridgeTyped
  <2>3. BridgeTyped'
    BY <2>1, <1>1 DEF BridgeInv, BridgeTyped, AnswerStages
  <2> QED BY <1>1, <1>2, <2>1, <2>2, <2>3, OthersKept
<1> QED BY <1>4, <1>5, <1>6, <1>7

LEMMA BridgeStep == BridgeInv /\ [BridgeNext]_bridgeVars => BridgeInv'
<1> SUFFICES ASSUME BridgeInv, [BridgeNext]_bridgeVars PROVE BridgeInv'
  OBVIOUS
<1>1. CASE UNCHANGED <<instant, call, file, answer>>
  BY <1>1 DEF BridgeInv, BridgeTyped, RequestsAreOwn, FilesAreTheirs, Decisions
<1>2. ASSUME NEW e, OtherHook(e) \/ SnapshotRefreshes PROVE BridgeInv'
  BY <1>1, <1>2 DEF OtherHook, SnapshotRefreshes
<1>3. CASE UNCHANGED bridgeVars
  BY <1>1, <1>3 DEF bridgeVars
<1> QED BY <1>2, <1>3, HookAsksKeeps, HookStep, AnswerStep DEF BridgeNext

THEOREM BridgeInvariant == BridgeSpec => []BridgeInv
BY BridgeStart, BridgeStep, PTL DEF BridgeSpec

\* claude-agent-sdk.ts: a hook that returns a decision returns one that the
\* browser gave to its own request, and a decision whose file is gone was read
\* by that hook, however many hooks of the session wait at once.
THEOREM AnswersAlwaysFindTheirHook == BridgeSpec => []AnswersFindTheirHook
<1>1. BridgeInv => AnswersFindTheirHook
  BY DEF BridgeInv, FilesAreTheirs, AnswersFindTheirHook
<1> QED BY <1>1, BridgeInvariant, PTL

-----------------------------------------------------------------------------
(* Claude's background tasks: the part of the transcript that is cached.   *)

\* The last elements of a sequence.
LEMMA LastOfProperties ==
  ASSUME NEW S, NEW s \in Seq(S), NEW n \in Nat
  PROVE  /\ LastOf(s, n) \in Seq(S)
         /\ Len(LastOf(s, n)) = Least(n, Len(s))
         /\ Least(n, Len(s)) \in Nat /\ Least(n, Len(s)) <= Len(s)
         /\ \A i \in 1..Least(n, Len(s)) :
              LastOf(s, n)[i] = s[Len(s) - Least(n, Len(s)) + i]
<1> DEFINE k == Least(n, Len(s))
<1>1. Len(s) \in Nat /\ k \in Nat /\ k <= Len(s) /\ DOMAIN s = 1..Len(s)
  BY DEF Least
<1> DEFINE from == Len(s) - k + 1
<1> HIDE DEF k
<1>2. from \in Int /\ from >= 1 /\ Len(s) \in Int
  BY <1>1
<1>3. \A i \in from..Len(s) : s[i] \in S
  BY <1>1, <1>2
<1>4. /\ SubSeq(s, from, Len(s)) \in Seq(S)
      /\ Len(SubSeq(s, from, Len(s))) = IF from <= Len(s) THEN Len(s) - from + 1 ELSE 0
      /\ \A i \in 1..Len(s) - from + 1 : SubSeq(s, from, Len(s))[i] = s[from + i - 1]
  BY <1>2, <1>3, SubSeqProperties
<1>5. Len(SubSeq(s, from, Len(s))) = k
  BY <1>1, <1>4
<1>6. ASSUME NEW i \in 1..k
      PROVE  SubSeq(s, from, Len(s))[i] = s[Len(s) - k + i]
  <2>1. i \in 1..Len(s) - from + 1 /\ from + i - 1 = Len(s) - k + i
    BY <1>1
  <2> QED
    BY <1>4, <2>1
<1>7. LastOf(s, n) = SubSeq(s, from, Len(s))
  BY DEF LastOf, k
<1> HIDE DEF from
<1> QED
  BY <1>1, <1>4, <1>5, <1>6, <1>7 DEF k

\* Taking the last elements of what follows the last elements.
LEMMA LastOfLast ==
  ASSUME NEW S, NEW s \in Seq(S), NEW t \in Seq(S), NEW n \in Nat
  PROVE  LastOf(LastOf(s, n) \o t, n) = LastOf(s \o t, n)
<1> DEFINE a == LastOf(s, n)
           u == a \o t
           v == s \o t
           k == Least(n, Len(s))
           uk == Least(n, Len(u))
           vk == Least(n, Len(v))
<1>1. Len(s) \in Nat /\ Len(t) \in Nat
  OBVIOUS
<1>2. /\ a \in Seq(S) /\ Len(a) = k /\ k \in Nat /\ k <= Len(s)
      /\ \A i \in 1..k : a[i] = s[Len(s) - k + i]
  BY LastOfProperties, Zenon
<1> HIDE DEF a
<1>3. /\ u \in Seq(S) /\ Len(u) = k + Len(t)
      /\ \A i \in 1..k + Len(t) : u[i] = IF i <= k THEN a[i] ELSE t[i - k]
  BY <1>2, ConcatProperties
<1>4. /\ v \in Seq(S) /\ Len(v) = Len(s) + Len(t)
      /\ \A i \in 1..Len(s) + Len(t) : v[i] = IF i <= Len(s) THEN s[i] ELSE t[i - Len(s)]
  BY ConcatProperties
<1> HIDE DEF u, v
<1>5. /\ LastOf(u, n) \in Seq(S) /\ Len(LastOf(u, n)) = uk
      /\ uk \in Nat /\ uk <= Len(u)
      /\ \A i \in 1..uk : LastOf(u, n)[i] = u[Len(u) - uk + i]
  BY <1>3, LastOfProperties, Zenon
<1>6. /\ LastOf(v, n) \in Seq(S) /\ Len(LastOf(v, n)) = vk
      /\ vk \in Nat /\ vk <= Len(v)
      /\ \A i \in 1..vk : LastOf(v, n)[i] = v[Len(v) - vk + i]
  BY <1>4, LastOfProperties, Zenon
<1>7. uk = vk
  BY <1>1, <1>2, <1>3, <1>4 DEF Least
<1> HIDE DEF k, uk, vk
<1>8. ASSUME NEW i \in 1..uk
      PROVE  LastOf(u, n)[i] = LastOf(v, n)[i]
  <2> DEFINE m == Len(u) - uk + i
             j == Len(v) - vk + i
  <2>1. /\ m \in 1..k + Len(t) /\ j \in 1..Len(s) + Len(t)
        /\ j = m + Len(s) - k /\ m \in Nat /\ j \in Nat
    BY <1>1, <1>2, <1>3, <1>4, <1>5, <1>7
  <2>2. LastOf(u, n)[i] = u[m] /\ LastOf(v, n)[i] = v[j]
    BY <1>5, <1>6, <1>7
  <2> HIDE DEF m, j
  <2>3. CASE m <= k
    <3>1. m \in 1..k /\ j <= Len(s) /\ Len(s) - k + m = j
      BY <1>1, <1>2, <2>1, <2>3
    <3>2. u[m] = s[j]
      BY <1>2, <1>3, <2>1, <2>3, <3>1
    <3>3. v[j] = s[j]
      BY <1>4, <2>1, <3>1
    <3> QED
      BY <2>2, <3>2, <3>3
  <2>4. CASE ~(m <= k)
    <3>1. ~(j <= Len(s)) /\ j - Len(s) = m - k
      BY <1>1, <1>2, <2>1, <2>4
    <3>2. u[m] = t[m - k]
      BY <1>3, <2>1, <2>4
    <3>3. v[j] = t[j - Len(s)]
      BY <1>4, <2>1, <3>1
    <3> QED
      BY <2>2, <3>1, <3>2, <3>3
  <2> QED
    BY <2>3, <2>4
<1>9. LastOf(u, n) = LastOf(v, n)
  BY <1>5, <1>6, <1>7, <1>8, SeqEqual
<1> QED
  BY <1>9 DEF a, u, v

\* What is appended changes no part that was there before.
LEMMA PartStays ==
  ASSUME NEW S, NEW s \in Seq(S), NEW e \in S, NEW n \in 0..Len(s)
  PROVE  SubSeq(Append(s, e), 1, n) = SubSeq(s, 1, n)
<1> DEFINE t == Append(s, e)
<1>1. /\ t \in Seq(S) /\ \A i \in 1..n : t[i] = s[i] /\ s[i] \in S
      /\ n \in Int /\ 1 \in Int
  OBVIOUS
<1> HIDE DEF t
<1>2. \A i \in 1..n : t[i] \in S
  BY <1>1
<1>3. /\ SubSeq(t, 1, n) \in Seq(S)
      /\ Len(SubSeq(t, 1, n)) = IF 1 <= n THEN n - 1 + 1 ELSE 0
      /\ \A i \in 1..n - 1 + 1 : SubSeq(t, 1, n)[i] = t[1 + i - 1]
  BY <1>1, <1>2, SubSeqProperties
<1>4. /\ SubSeq(s, 1, n) \in Seq(S)
      /\ Len(SubSeq(s, 1, n)) = IF 1 <= n THEN n - 1 + 1 ELSE 0
      /\ \A i \in 1..n - 1 + 1 : SubSeq(s, 1, n)[i] = s[1 + i - 1]
  BY <1>1, SubSeqProperties
<1>5. Len(SubSeq(t, 1, n)) = n /\ Len(SubSeq(s, 1, n)) = n
  BY <1>1, <1>3, <1>4
<1>6. ASSUME NEW i \in 1..n PROVE SubSeq(t, 1, n)[i] = SubSeq(s, 1, n)[i]
  <2>1. i \in 1..n - 1 + 1 /\ 1 + i - 1 = i
    BY <1>1
  <2> QED
    BY <1>1, <1>3, <1>4, <2>1
<1>7. SubSeq(t, 1, n) = SubSeq(s, 1, n)
  BY <1>3, <1>4, <1>5, <1>6, SeqEqual
<1> QED
  BY <1>7 DEF t

\* A part of a sequence is a sequence of its elements.
LEMMA PartIsSeq ==
  ASSUME NEW S, NEW s \in Seq(S), NEW m \in Nat, m >= 1, NEW n \in 0..Len(s)
  PROVE  SubSeq(s, m, n) \in Seq(S)
<1>1. m \in Int /\ n \in Int /\ \A i \in m..n : s[i] \in S
  OBVIOUS
<1> QED
  BY <1>1, SubSeqProperties

-----------------------------------------------------------------------------
(* The inductive invariant.                                                *)

Kinds == {"other", "launch", "started", "finished"}
Lines == [kind : Kinds, at : Nat]
Entries == [ino : Nat, offset : Nat, pending : {None} \cup (Nat \X Nat),
            records : Seq(Lines)]
Readings == [at : {"idle", "statted", "reading"}, ino : Nat, size : Nat,
             entry : Entries, kept : BOOLEAN]

\* The file ends in the middle of its last line or after it.
TranscriptTyped ==
  /\ transcript.ino \in Nat \ {0} /\ transcript.before \in Nat
  /\ transcript.lines \in Seq(Lines)
  /\ transcript.size \in Nat /\ (transcript.size + 1) \div 2 = Len(transcript.lines)
  /\ transcript = [ino |-> transcript.ino, lines |-> transcript.lines,
                   size |-> transcript.size, before |-> transcript.before]

\* What an entry says was read is a part of the file it names, if that file is
\* still in place, and its records and its unfinished line are that part's.
Holding(entry) ==
  /\ entry.ino <= transcript.ino
  /\ entry.ino = transcript.ino =>
       /\ entry.offset <= transcript.size
       /\ entry.records = LastOf(SubSeq(transcript.lines, 1, entry.offset \div 2),
                                 MaxCached)
       /\ entry.pending = IF Odd(entry.offset)
                            THEN <<transcript.ino, (entry.offset + 1) \div 2>>
                            ELSE None

\* A load has seen a size of the file it saw, and goes on from before it.
ReadingOn(me) ==
  /\ me.at # "idle" =>
       /\ me.ino <= transcript.ino
       /\ me.ino = transcript.ino => me.size <= transcript.size
  /\ me.at = "reading" =>
       Holding(me.entry) /\ me.entry.ino = me.ino /\ me.entry.offset <= me.size

TasksInv ==
  /\ TranscriptTyped
  /\ cached \in Entries /\ Holding(cached)
  /\ reading \in [Readers -> Readings]
  /\ \A r \in Readers : ReadingOn(reading[r])

LEMMA NothingRead ==
  /\ NoEntry \in Entries /\ NotReading \in Readings
  /\ NoEntry.ino = 0 /\ NotReading.at = "idle"
  /\ \A ino \in Nat : Entry(ino, 0, None, <<>>) \in Entries
BY DEF NoEntry, NotReading, Entry, Entries, Readings, Lines

\* Nothing is the part of a file up to its beginning.
LEMMA BeginningHolds ==
  ASSUME TranscriptTyped, NEW ino \in Nat, ino <= transcript.ino
  PROVE  Holding(Entry(ino, 0, None, <<>>))
<1>1. MaxCached \in Nat /\ Len(<<>>) = 0
  BY TaskBounds
<1>2. SubSeq(transcript.lines, 1, 0) = <<>> /\ LastOf(<<>>, MaxCached) = <<>>
  BY <1>1, SubSeqEmpty DEF LastOf, Least
<1>3. 0 \div 2 = 0 /\ ~Odd(0)
  BY DEF Odd
<1> DEFINE e == Entry(ino, 0, None, <<>>)
<1>4. e.ino = ino /\ e.offset = 0 /\ e.pending = None /\ e.records = <<>>
  BY DEF Entry
<1>5. 0 <= transcript.size
  BY DEF TranscriptTyped
<1> HIDE DEF e
<1>6. Holding(e)
  BY <1>2, <1>3, <1>4, <1>5 DEF Holding
<1> QED
  BY <1>6 DEF e

LEMMA TasksStart == TasksInit => TasksInv
<1> SUFFICES ASSUME TasksInit PROVE TasksInv
  OBVIOUS
<1>1. TranscriptTyped /\ transcript.ino = 1
  BY DEF TasksInit, TranscriptTyped
<1>2. cached \in Entries /\ Holding(cached)
  BY <1>1, NothingRead, BeginningHolds DEF TasksInit, NoEntry
<1>3. reading \in [Readers -> Readings] /\ \A r \in Readers : reading[r].at = "idle"
  BY NothingRead DEF TasksInit
<1> QED
  BY <1>1, <1>2, <1>3 DEF TasksInv, ReadingOn

-----------------------------------------------------------------------------
(* Claude writes, or replaces the file.                                    *)

LEMMA WritingKeeps ==
  ASSUME TasksInv, UNCHANGED <<cached, reading>>, TranscriptTyped',
         \/ transcript'.ino = transcript.ino + 1
         \/ /\ transcript'.ino = transcript.ino
            /\ transcript.size <= transcript'.size
            /\ \A n \in 0..Len(transcript.lines) :
                 SubSeq(transcript'.lines, 1, n) = SubSeq(transcript.lines, 1, n)
  PROVE  TasksInv'
<1>1. ASSUME NEW e \in Entries, Holding(e) PROVE Holding(e)'
  <2>1. /\ e.ino \in Nat /\ transcript.ino \in Nat /\ e.offset \in Nat
        /\ transcript.size \in Nat /\ transcript'.size \in Nat
        /\ (transcript.size + 1) \div 2 = Len(transcript.lines)
    BY DEF Entries, TasksInv, TranscriptTyped
  <2>2. CASE transcript'.ino = transcript.ino + 1
    BY <1>1, <2>1, <2>2 DEF Holding
  <2>3. CASE transcript'.ino = transcript.ino
    <3>1. CASE e.ino = transcript.ino
      <4>1. e.offset <= transcript.size
        BY <1>1, <3>1 DEF Holding
      <4>2. e.offset \div 2 \in 0..Len(transcript.lines)
        BY <2>1, <4>1
      <4>3. /\ transcript.size <= transcript'.size
            /\ \A n \in 0..Len(transcript.lines) :
                 SubSeq(transcript'.lines, 1, n) = SubSeq(transcript.lines, 1, n)
        BY <2>1, <2>3
      <4>4. e.offset <= transcript'.size
        BY <2>1, <4>1, <4>3
      <4>5. SubSeq(transcript'.lines, 1, e.offset \div 2)
              = SubSeq(transcript.lines, 1, e.offset \div 2)
        BY <4>2, <4>3, Zenon
      <4> QED
        BY <1>1, <2>3, <3>1, <4>4, <4>5 DEF Holding
    <3>2. CASE e.ino # transcript.ino
      BY <1>1, <2>3, <3>2 DEF Holding
    <3> QED
      BY <3>1, <3>2
  <2> QED
    BY <2>2, <2>3
<1>2. ASSUME NEW r \in Readers PROVE ReadingOn(reading[r])'
  <2>1. reading[r] \in Readings /\ ReadingOn(reading[r])
    BY DEF TasksInv
  <2>2. /\ reading[r].entry \in Entries /\ reading[r].ino \in Nat
        /\ reading[r].size \in Nat /\ transcript.ino \in Nat
        /\ transcript.size \in Nat /\ transcript'.size \in Nat
    BY <2>1 DEF Readings, TasksInv, TranscriptTyped
  <2>3. reading[r].at = "reading" => Holding(reading[r].entry)'
    BY <1>1, <2>1, <2>2 DEF ReadingOn
  <2> QED
    BY <2>1, <2>2, <2>3 DEF ReadingOn
<1>3. cached \in Entries /\ Holding(cached)
  BY DEF TasksInv
<1>4. Holding(cached)'
  BY <1>1, <1>3 DEF Holding
<1> QED
  BY <1>2, <1>4 DEF TasksInv

LEMMA ClaudeKeeps ==
  ASSUME TasksInv,
         (\E kind \in NextKinds : BeginsLine(kind)) \/ EndsLine \/ Replaced
  PROVE  TasksInv'
<1>1. /\ transcript.ino \in Nat \ {0} /\ transcript.before \in Nat
      /\ transcript.lines \in Seq(Lines) /\ transcript.size \in Nat
      /\ (transcript.size + 1) \div 2 = Len(transcript.lines)
      /\ transcript = [ino |-> transcript.ino, lines |-> transcript.lines,
                       size |-> transcript.size, before |-> transcript.before]
      /\ Now \in Nat /\ Len(transcript.lines) \in Nat
  BY DEF TasksInv, TranscriptTyped, Now
<1>2. ASSUME NEW kind \in NextKinds, BeginsLine(kind) PROVE TasksInv'
  <2> DEFINE line == [kind |-> kind, at |-> Now + 1]
  <2>1. line \in Lines
    BY <1>1 DEF NextKinds, Lines, Kinds
  <2>2. /\ transcript' = [ino |-> transcript.ino,
                          lines |-> Append(transcript.lines, line),
                          size |-> transcript.size + 1,
                          before |-> transcript.before]
        /\ ~Odd(transcript.size) /\ UNCHANGED <<cached, reading>>
    BY <1>1, <1>2 DEF BeginsLine
  <2> HIDE DEF line
  <2>3. /\ Append(transcript.lines, line) \in Seq(Lines)
        /\ Len(Append(transcript.lines, line)) = Len(transcript.lines) + 1
    BY <1>1, <2>1
  <2>4. (transcript.size + 1 + 1) \div 2 = Len(transcript.lines) + 1
    BY <1>1, <2>2 DEF Odd
  <2>5. TranscriptTyped'
    BY <1>1, <2>2, <2>3, <2>4 DEF TranscriptTyped
  <2>6. /\ transcript'.ino = transcript.ino /\ transcript.size <= transcript'.size
        /\ transcript'.lines = Append(transcript.lines, line)
    BY <1>1, <2>2
  <2>7. \A n \in 0..Len(transcript.lines) :
          SubSeq(transcript'.lines, 1, n) = SubSeq(transcript.lines, 1, n)
    BY <1>1, <2>1, <2>6, PartStays
  <2> QED
    BY <2>2, <2>5, <2>6, <2>7, WritingKeeps
<1>3. CASE EndsLine
  <2>1. /\ transcript' = [ino |-> transcript.ino, lines |-> transcript.lines,
                          size |-> transcript.size + 1,
                          before |-> transcript.before]
        /\ Odd(transcript.size) /\ UNCHANGED <<cached, reading>>
    BY <1>1, <1>3 DEF EndsLine
  <2>2. (transcript.size + 1 + 1) \div 2 = Len(transcript.lines)
    BY <1>1, <2>1 DEF Odd
  <2>3. TranscriptTyped'
    BY <1>1, <2>1, <2>2 DEF TranscriptTyped
  <2>4. /\ transcript'.ino = transcript.ino /\ transcript.size <= transcript'.size
        /\ transcript'.lines = transcript.lines
    BY <1>1, <2>1
  <2> QED
    BY <2>1, <2>3, <2>4, WritingKeeps
<1>4. CASE Replaced
  <2>1. /\ transcript' = [ino |-> transcript.ino + 1, lines |-> <<>>, size |-> 0,
                          before |-> Now]
        /\ UNCHANGED <<cached, reading>>
    BY <1>4 DEF Replaced
  <2>2. TranscriptTyped' /\ transcript'.ino = transcript.ino + 1
    BY <1>1, <2>1 DEF TranscriptTyped
  <2> QED
    BY <2>1, <2>2, WritingKeeps
<1> QED
  BY <1>2, <1>3, <1>4

-----------------------------------------------------------------------------
(* The loads.                                                              *)

\* One load goes on.
LEMMA LoadKeeps ==
  ASSUME TasksInv, NEW r \in Readers, NEW me \in Readings, ReadingOn(me),
         reading' = [reading EXCEPT ![r] = me], transcript' = transcript,
         cached' \in Entries, Holding(cached')
  PROVE  TasksInv'
<1>1. reading \in [Readers -> Readings]
  BY DEF TasksInv
<1>2. /\ reading' \in [Readers -> Readings] /\ reading'[r] = me
      /\ \A q \in Readers : q # r => reading'[q] = reading[q]
  BY <1>1
<1>3. \A q \in Readers : ReadingOn(reading'[q])
  BY <1>2 DEF TasksInv
<1>4. \A q \in Readers : ReadingOn(reading[q])'
  BY <1>3 DEF ReadingOn, Holding
<1>5. Holding(cached)'
  BY DEF Holding
<1> QED
  BY <1>2, <1>4, <1>5 DEF TasksInv, TranscriptTyped

LEMMA IdleHolds == ReadingOn(NotReading) /\ NotReading \in Readings
BY NothingRead DEF ReadingOn

LEMMA StatsKeeps ==
  ASSUME TasksInv, NEW r \in Readers, Stats(r)
  PROVE  TasksInv'
<1> DEFINE me == [NotReading EXCEPT !.at = "statted", !.ino = transcript.ino,
                                    !.size = transcript.size]
<1>1. transcript.ino \in Nat /\ transcript.size \in Nat
  BY DEF TasksInv, TranscriptTyped
<1>2. /\ me \in Readings /\ me.at = "statted" /\ me.ino = transcript.ino
      /\ me.size = transcript.size
  BY <1>1, NothingRead DEF Readings
<1>3. /\ reading' = [reading EXCEPT ![r] = me]
      /\ UNCHANGED <<transcript, cached>>
  BY DEF Stats
<1> HIDE DEF me
<1>4. ReadingOn(me)
  BY <1>1, <1>2 DEF ReadingOn
<1> QED
  BY <1>2, <1>3, <1>4, LoadKeeps DEF TasksInv

LEMMA LooksUpKeeps ==
  ASSUME TasksInv, NEW r \in Readers, LooksUp(r)
  PROVE  TasksInv'
<1> DEFINE me == reading[r]
           kept == CanAppend(me.ino, me.size)
           entry == IF kept THEN cached ELSE Entry(me.ino, 0, None, <<>>)
           next == [me EXCEPT !.at = "reading", !.entry = entry, !.kept = kept]
<1>1. /\ me \in Readings /\ ReadingOn(me) /\ me.at = "statted"
      /\ cached \in Entries /\ Holding(cached)
      /\ reading \in [Readers -> Readings] /\ transcript' = transcript
  BY DEF TasksInv, LooksUp
<1>2. me.ino \in Nat /\ me.size \in Nat /\ me.ino <= transcript.ino
      /\ (me.ino = transcript.ino => me.size <= transcript.size)
  BY <1>1 DEF Readings, ReadingOn
<1>3. /\ entry \in Entries /\ Holding(entry) /\ entry.ino = me.ino
      /\ entry.offset <= me.size
  <2>1. CASE kept
    <3>1. cached.ino = me.ino /\ me.size >= cached.offset
      BY <2>1 DEF CanAppend
    <3>2. cached.offset \in Nat
      BY <1>1 DEF Entries
    <3> QED
      BY <1>1, <1>2, <2>1, <3>1, <3>2
  <2>2. CASE ~kept
    <3>1. /\ entry = Entry(me.ino, 0, None, <<>>)
          /\ entry.ino = me.ino /\ entry.offset = 0
      BY <2>2 DEF Entry
    <3> QED
      BY <1>2, <3>1, NothingRead, BeginningHolds DEF TasksInv
  <2> QED
    BY <2>1, <2>2
<1>4. CASE me.size = entry.offset
  <2>1. cached' = entry /\ reading' = [reading EXCEPT ![r] = NotReading]
    BY <1>4 DEF LooksUp
  <2> HIDE DEF entry, me
  <2> QED
    BY <1>1, <1>3, <2>1, IdleHolds, LoadKeeps
<1>5. CASE me.size # entry.offset
  <2>1. kept \in BOOLEAN
    BY DEF CanAppend
  <2>2. /\ reading' = [reading EXCEPT ![r].at = "reading", ![r].entry = entry,
                                      ![r].kept = kept]
        /\ cached' = cached
    BY <1>5 DEF LooksUp
  <2> HIDE DEF entry, kept
  <2>3. reading' = [reading EXCEPT ![r] = next]
    BY <1>1, <2>2
  <2>4. /\ next \in Readings /\ next.at = "reading" /\ next.entry = entry
        /\ next.ino = me.ino /\ next.size = me.size
    BY <1>1, <1>3, <2>1 DEF Readings
  <2> HIDE DEF next, me
  <2>5. ReadingOn(next)
    BY <1>2, <1>3, <2>4 DEF ReadingOn
  <2> QED
    BY <1>1, <2>2, <2>3, <2>4, <2>5, LoadKeeps
<1> QED
  BY <1>4, <1>5

\* What a load has read of the file in place, after what its entry held.
LEMMA ReadsOn ==
  ASSUME TasksInv, NEW entry \in Entries, Holding(entry), NEW size \in Nat,
         entry.offset <= size,
         entry.ino = transcript.ino => size <= transcript.size
  PROVE  LET end == Least(size, transcript.size)
             new == Entry(entry.ino, size, StillPending(entry, end),
                          LastOf(entry.records \o NewLines(entry, end), MaxCached)) IN
         new \in Entries /\ Holding(new)
<1> DEFINE end == Least(size, transcript.size)
           added == NewLines(entry, end)
           records == LastOf(entry.records \o added, MaxCached)
           pending == StillPending(entry, end)
           new == Entry(entry.ino, size, pending, records)
           k == entry.offset \div 2
           n == end \div 2
<1>1. /\ transcript.ino \in Nat /\ transcript.lines \in Seq(Lines)
      /\ transcript.size \in Nat
      /\ (transcript.size + 1) \div 2 = Len(transcript.lines)
      /\ Len(transcript.lines) \in Nat
      /\ MaxCached \in Nat
  BY TaskBounds DEF TasksInv, TranscriptTyped
<1>2. /\ entry.ino \in Nat /\ entry.offset \in Nat /\ entry.records \in Seq(Lines)
      /\ entry.pending \in {None} \cup (Nat \X Nat)
  BY DEF Entries
<1>3. end \in Nat /\ end <= transcript.size /\ end <= size
      /\ (size <= transcript.size => end = size)
  BY <1>1 DEF Least
<1> HIDE DEF end
<1>4. n \in 0..Len(transcript.lines) /\ k \in Nat
  <2> DEFINE length == transcript.size
             count == Len(transcript.lines)
             offset == entry.offset
  <2>1. /\ length \in Nat /\ count \in Nat /\ (length + 1) \div 2 = count
        /\ offset \in Nat /\ end \in Nat /\ end <= length
    BY <1>1, <1>2, <1>3
  <2> HIDE DEF length, count, offset
  <2>2. end \div 2 \in 0..count /\ offset \div 2 \in Nat
    BY <2>1
  <2> QED
    BY <2>2 DEF count, offset
<1>5. added \in Seq(Lines)
  <2>1. k + 1 \in Nat /\ k + 1 + 1 \in Nat /\ k + 1 >= 1 /\ k + 1 + 1 >= 1
    BY <1>4
  <2> HIDE DEF k, n
  <2>2. /\ SubSeq(transcript.lines, k + 1, n) \in Seq(Lines)
        /\ SubSeq(transcript.lines, k + 1 + 1, n) \in Seq(Lines)
    BY <1>1, <1>4, <2>1, PartIsSeq
  <2> QED
    BY <2>2 DEF NewLines, k, n
<1>6. records \in Seq(Lines)
  <2> DEFINE both == entry.records \o added
  <2>1. both \in Seq(Lines)
    BY <1>2, <1>5, ConcatProperties
  <2> HIDE DEF both
  <2>2. LastOf(both, MaxCached) \in Seq(Lines)
    BY <1>1, <2>1, LastOfProperties
  <2> QED
    BY <2>2 DEF both
<1>7. pending \in {None} \cup (Nat \X Nat)
  BY <1>1, <1>2, <1>3 DEF StillPending
<1>8. /\ new.ino = entry.ino /\ new.offset = size
      /\ new.pending = pending /\ new.records = records
  BY DEF Entry
<1>9. new \in Entries
  BY <1>2, <1>6, <1>7 DEF Entry, Entries
<1>10. ASSUME entry.ino = transcript.ino
       PROVE  /\ records = LastOf(SubSeq(transcript.lines, 1, size \div 2), MaxCached)
              /\ pending = IF Odd(size) THEN <<transcript.ino, (size + 1) \div 2>>
                                        ELSE None
  <2>1. end = size /\ size <= transcript.size
    BY <1>3, <1>10
  <2>2. /\ entry.records = LastOf(SubSeq(transcript.lines, 1, k), MaxCached)
        /\ entry.pending = IF Odd(entry.offset)
                             THEN <<transcript.ino, (entry.offset + 1) \div 2>>
                             ELSE None
    BY <1>10 DEF Holding
  <2>3. pending = IF Odd(size) THEN <<transcript.ino, (size + 1) \div 2>> ELSE None
    <3>1. CASE end <= entry.offset
      <4>1. size = entry.offset
        BY <1>2, <2>1, <3>1
      <4> QED
        BY <2>1, <2>2, <3>1, <4>1 DEF StillPending
    <3>2. CASE ~(end <= entry.offset)
      BY <2>1, <3>2 DEF StillPending
    <3> QED
      BY <3>1, <3>2
  <2>4. Odd(entry.offset) => (entry.offset + 1) \div 2 = k + 1
    BY <1>2 DEF Odd
  <2>5. added = SubSeq(transcript.lines, k + 1, n)
    <3>1. entry.pending = IF Odd(entry.offset) THEN <<transcript.ino, k + 1>> ELSE None
      BY <2>2, <2>4
    <3> QED
      BY <3>1 DEF NewLines
  <2>6. k <= n
    BY <1>2, <2>1
  <2> HIDE DEF k, n
  <2>7. SubSeq(transcript.lines, 1, k) \in Seq(Lines)
    <3>1. k \in 0..Len(transcript.lines)
      BY <1>1, <1>4, <2>6
    <3> QED
      BY <1>1, <3>1, PartIsSeq
  <2>8. SubSeq(transcript.lines, 1, k) \o SubSeq(transcript.lines, k + 1, n)
          = SubSeq(transcript.lines, 1, n)
    <3>1. /\ 1 \in 1..Len(transcript.lines) + 1 /\ k \in 1 - 1 .. Len(transcript.lines)
          /\ n \in k..Len(transcript.lines)
      BY <1>1, <1>4, <2>6
    <3> QED
      BY <1>1, <3>1, ConcatAdjacentSubSeq
  <2>9. LastOf(LastOf(SubSeq(transcript.lines, 1, k), MaxCached) \o added, MaxCached)
          = LastOf(SubSeq(transcript.lines, 1, k) \o added, MaxCached)
    BY <1>1, <1>5, <2>7, LastOfLast
  <2>10. records = LastOf(SubSeq(transcript.lines, 1, n), MaxCached)
    BY <2>2, <2>5, <2>8, <2>9
  <2> QED
    BY <2>1, <2>3, <2>10 DEF n
<1> HIDE DEF records, pending, added, new
<1>11. Holding(new)
  BY <1>8, <1>10 DEF Holding
<1> QED
  BY <1>9, <1>11 DEF new, records, pending, added, end

LEMMA ReadsAndRemembersKeeps ==
  ASSUME TasksInv, NEW r \in Readers, ReadsAndRemembers(r)
  PROVE  TasksInv'
<1> DEFINE entry == reading[r].entry
           size == reading[r].size
           end == Least(size, transcript.size)
           new == Entry(entry.ino, size, StillPending(entry, end),
                        LastOf(entry.records \o NewLines(entry, end), MaxCached))
<1>1. /\ reading[r] \in Readings /\ ReadingOn(reading[r]) /\ reading[r].at = "reading"
      /\ cached' = new /\ reading' = [reading EXCEPT ![r] = NotReading]
      /\ transcript' = transcript
  BY DEF TasksInv, ReadsAndRemembers
<1>2. /\ entry \in Entries /\ size \in Nat /\ Holding(entry) /\ entry.offset <= size
      /\ entry.ino = transcript.ino => size <= transcript.size
  BY <1>1 DEF Readings, ReadingOn
<1> HIDE DEF entry, size
<1>3. new \in Entries /\ Holding(new)
  BY <1>2, ReadsOn
<1> HIDE DEF new
<1> QED
  BY <1>1, <1>3, IdleHolds, LoadKeeps

LEMMA TasksStep == TasksInv /\ [TasksNext]_taskVars => TasksInv'
<1> SUFFICES ASSUME TasksInv, [TasksNext]_taskVars PROVE TasksInv'
  OBVIOUS
<1>1. ASSUME NEW r \in Readers, ReadFails(r) PROVE TasksInv'
  <2> DEFINE entry == IF reading[r].kept THEN reading[r].entry ELSE NoEntry
  <2>1. /\ reading[r] \in Readings /\ ReadingOn(reading[r])
        /\ reading[r].at = "reading" /\ cached' = entry
        /\ reading' = [reading EXCEPT ![r] = NotReading] /\ transcript' = transcript
    BY <1>1 DEF TasksInv, ReadFails
  <2>2. reading[r].entry \in Entries /\ Holding(reading[r].entry)
    BY <2>1 DEF Readings, ReadingOn
  <2>3. Holding(NoEntry)
    BY BeginningHolds DEF NoEntry, TasksInv, TranscriptTyped
  <2>4. entry \in Entries /\ Holding(entry)
    BY <2>2, <2>3, NothingRead
  <2> HIDE DEF entry
  <2> QED
    BY <2>1, <2>4, IdleHolds, LoadKeeps
<1>2. CASE Evicted
  <2>1. Holding(NoEntry) /\ UNCHANGED <<transcript, reading>> /\ cached' = NoEntry
    BY <1>2, BeginningHolds DEF NoEntry, TasksInv, TranscriptTyped, Evicted
  <2> QED
    BY <2>1, NothingRead DEF TasksInv, TranscriptTyped, ReadingOn, Holding
<1>3. CASE UNCHANGED taskVars
  BY <1>3 DEF taskVars, TasksInv, TranscriptTyped, ReadingOn, Holding
<1> QED
  BY <1>1, <1>2, <1>3, ClaudeKeeps, StatsKeeps, LooksUpKeeps,
     ReadsAndRemembersKeeps
  DEF TasksNext

\* What comes after the records of a task that ended does not undo its end.
LEMMA EndStays ==
  ASSUME NEW a \in Seq(Lines), NEW b \in Seq(Lines), Ended(a)
  PROVE  Ended(a \o b)
<1> DEFINE c == a \o b
<1>1. /\ DOMAIN a = 1..Len(a) /\ Len(a) \in Nat /\ Len(b) \in Nat
      /\ c \in Seq(Lines) /\ DOMAIN c = 1..Len(a) + Len(b)
      /\ \A i \in 1..Len(a) : c[i] = a[i]
  BY ConcatProperties
<1>2. \A i \in DOMAIN a : i \in DOMAIN c /\ c[i] = a[i]
  BY <1>1
<1> HIDE DEF c
<1>3. \A kind, after : Holds(a, kind, after) \subseteq Holds(c, kind, after)
  BY <1>2 DEF Holds
<1>4. Made(a) \subseteq Made(c)
  BY <1>3 DEF Made
<1>5. Ended(c)
  BY <1>3, <1>4 DEF Ended
<1> QED
  BY <1>5 DEF c

\* claude-background-tasks.ts, readRawBackgroundTaskRecords: however the loads
\* and the writes interleave, what is cached of the file in place is exactly the
\* last records of the part it says was read, and a task whose end was read does
\* not run again because the sample repeats its start.
THEOREM TasksAreAlwaysTold == TasksSpec => []TasksAreTold
<1>1. TasksSpec => []TasksInv
  BY TasksStart, TasksStep, PTL DEF TasksSpec
<1>2. TasksInv => CacheIsAPrefix
  BY DEF TasksInv, Holding, CacheIsAPrefix
<1>3. TasksInv => FinishedStaysFinished
  <2> SUFFICES ASSUME TasksInv, Ended(cached.records),
                      NEW n \in 0..(transcript.size \div 2), NEW outputAt \in 0..Now
               PROVE  TaskShown(cached.records \o SampleOf(n), outputAt) # "running"
    BY DEF FinishedStaysFinished
  <2>1. /\ transcript.lines \in Seq(Lines) /\ transcript.size \in Nat
        /\ (transcript.size + 1) \div 2 = Len(transcript.lines)
        /\ Len(transcript.lines) \in Nat /\ cached.records \in Seq(Lines)
    BY DEF TasksInv, TranscriptTyped, Entries
  <2>2. n \in 0..Len(transcript.lines) /\ Least(n, 2) \in 0..Len(transcript.lines)
    BY <2>1 DEF Least
  <2>3. /\ SubSeq(transcript.lines, 1, Least(n, 2)) \in Seq(Lines)
        /\ SubSeq(transcript.lines, 1, n) \in Seq(Lines)
    BY <2>1, <2>2, PartIsSeq
  <2>4. LastOf(SubSeq(transcript.lines, 1, n), 1) \in Seq(Lines)
    BY <2>3, LastOfProperties
  <2>5. SampleOf(n) \in Seq(Lines)
    BY <2>3, <2>4, ConcatProperties DEF SampleOf
  <2>6. Ended(cached.records \o SampleOf(n))
    BY <2>1, <2>5, EndStays
  <2> QED
    BY <2>6 DEF TaskShown
<1> QED
  BY <1>1, <1>2, <1>3, PTL DEF TasksAreTold
=============================================================================
