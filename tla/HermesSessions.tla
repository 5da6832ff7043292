--------------------------- MODULE HermesSessions ---------------------------
(***************************************************************************)
(* One Hermes session (core/src/hermes.ts).  Three sources tell of it: its *)
(* row in the SQLite store, the records its hooks write, under its own id  *)
(* or under the id of a task or a process, and the process of the CLI.     *)
(* Each project loads by itself and decides whether the session is on its  *)
(* floor; the fleet also looks for projects and for roaming sessions.      *)
(*                                                                         *)
(* A path counts for the project it lies in.  The code's limits on         *)
(* sessions, files, records and text are not reached.                      *)
(***************************************************************************)
EXTENDS Integers, Sequences, FiniteSets

CONSTANTS
  Floors,             \* the projects of the fleet
  RelationWindow,     \* HERMES_PROJECT_RELATION_ACTION_WINDOW, in records
  HookEvents,         \* the kinds of hook events that happen
  OpenTime,           \* HERMES_RECENT_OPEN_WINDOW_MS, in ticks
  DoneTime,           \* HERMES_RECENT_DONE_WINDOW_MS
  DiscoveryTime,      \* HERMES_PROJECT_DISCOVERY_HOOK_WINDOW_MS
  MaxHermesHooks, MaxHermesClock   \* bounds

ASSUME HermesWindows ==
  /\ {RelationWindow, OpenTime, DoneTime, DiscoveryTime, MaxHermesHooks,
      MaxHermesClock} \subseteq Nat
  /\ RelationWindow > 0 /\ DoneTime <= OpenTime /\ OpenTime <= DiscoveryTime

VARIABLES
  stored,        \* [is, cli, ended, active, last, root]: the latest message,
                 \* the project of the latest that names a path, or Nowhere
  hermesHooks,   \* in the order of time: [stream, event, root, at]
  process,       \* the project the CLI process runs in, or Nowhere
  hermesClock

hermesVars == <<stored, hermesHooks, process, hermesClock>>

Nowhere == "nowhere"
Places == Floors \cup {Nowhere}
Streams == {"session", "task"}

\* A prompt, a tool call or a result leaves the turn open.
Messages == {"open", "failure", "reply"}
ToolEvent == {"tool", "toolFailed"}
OnlyFromOpen == {"api", "verify", "subagent", "subagentFailed", "prompt"}
Closing == {"end", "finalize"}

ASSUME HermesEvents ==
  HookEvents \subseteq ToolEvent \cup OnlyFromOpen \cup Closing \cup {"reply"}

HermesInit ==
  /\ stored \in [is : {FALSE}, cli : BOOLEAN, ended : {-1}, active : {0},
                 started : {0}, last : {"none"}, root : {Nowhere}]
  /\ hermesHooks = <<>> /\ process = Nowhere /\ hermesClock = 0

(***************************************************************************)
(* Hermes.                                                                 *)
(***************************************************************************)

SessionStored(root) ==
  /\ ~stored.is
  /\ stored' = [stored EXCEPT !.is = TRUE, !.started = hermesClock,
                  !.active = hermesClock, !.root = root]
  /\ UNCHANGED <<hermesHooks, process, hermesClock>>

MessageStored(message, root) ==
  /\ stored.is /\ stored.ended = -1
  /\ stored' = [stored EXCEPT !.active = hermesClock, !.last = message,
                  !.root = IF root = Nowhere THEN @ ELSE root]
  /\ UNCHANGED <<hermesHooks, process, hermesClock>>

SessionEnds ==
  /\ stored.is /\ stored.ended = -1
  /\ stored' = [stored EXCEPT !.ended = hermesClock]
  /\ UNCHANGED <<hermesHooks, process, hermesClock>>

HookWritten(stream, event, root) ==
  /\ Len(hermesHooks) < MaxHermesHooks
  /\ hermesHooks' = Append(hermesHooks, [stream |-> stream, event |-> event,
                                         root |-> root, at |-> hermesClock])
  /\ UNCHANGED <<stored, process, hermesClock>>

ProcessMoves(place) ==
  /\ process' = place
  /\ UNCHANGED <<stored, hermesHooks, hermesClock>>

HermesTick ==
  /\ hermesClock < MaxHermesClock /\ hermesClock' = hermesClock + 1
  /\ UNCHANGED <<stored, hermesHooks, process>>

HermesNext ==
  \/ \E root \in Places : SessionStored(root) \/ ProcessMoves(root)
  \/ \E m \in Messages, root \in Places : MessageStored(m, root)
  \/ \E s \in Streams, e \in HookEvents, root \in Places :
       HookWritten(s, e, root)
  \/ SessionEnds \/ HermesTick

HermesSpec == HermesInit /\ [][HermesNext]_hermesVars

(***************************************************************************)
(* What each source says.                                                  *)
(***************************************************************************)

Told(state, ongoing, at) == [state |-> state, ongoing |-> ongoing, at |-> at]
NotTold == Told("none", FALSE, -1)
HermesQuiet(told) == told.state = "idle" /\ ~told.ongoing
Within(at, window) == hermesClock - at <= window

\* Records are told by their indices: those of one stream, and their latest.
StreamOf(s) == {i \in DOMAIN hermesHooks : hermesHooks[i].stream = s}
LatestRecord(records) ==
  hermesHooks[CHOOSE i \in records : \A j \in records : j <= i]

\* summarizeHermesHookSession: the latest record decides.
HooksSay(records) ==
  LET last == LatestRecord(records)
      open == Within(last.at, OpenTime)
      done == Within(last.at, DoneTime) IN
  CASE last.event \in ToolEvent ->
         Told(IF last.event = "toolFailed" THEN "blocked" ELSE "running",
              open, last.at)
    [] last.event = "reply" ->
         Told(IF done THEN "done" ELSE "idle", done, last.at)
    [] last.event = "api" ->
         Told(IF open THEN "thinking" ELSE "idle", open, last.at)
    [] last.event \in Closing -> Told("done", FALSE, last.at)
    [] last.event = "subagentFailed" -> Told("blocked", open, last.at)
    [] OTHER -> Told("working", open, last.at)

\* latestActiveSessionForHome: the open session of a CLI is its process's.
IsTheProcess(floor) ==
  process = floor /\ floor # Nowhere /\ stored.is /\ stored.cli
  /\ stored.ended = -1

\* summarizeHermesSession
StoreSays(floor) ==
  LET ended == stored.ended # -1
      fresh == ~ended /\ Within(stored.active, OpenTime)
      unfinished == stored.last \in {"open", "failure"}
      ongoing == ~ended /\ (fresh \/ (unfinished /\ IsTheProcess(floor))) IN
  CASE stored.last = "failure" -> Told("blocked", ongoing, stored.active)
    [] stored.last = "open" /\ ongoing -> Told("working", TRUE, stored.active)
    [] stored.last = "none" /\ IsTheProcess(floor) ->
         Told("thinking", TRUE, stored.active)
    [] stored.last \in {"none", "reply"} /\ fresh
         /\ ~(stored.last = "none" /\ IsTheProcess(floor)) ->
         Told("waiting", TRUE, stored.active)
    [] OTHER -> Told(IF Within(stored.active, DoneTime) THEN "done"
                     ELSE "idle", FALSE, stored.active)

(***************************************************************************)
(* Where it is.                                                            *)
(***************************************************************************)

\* currentProjectRootForHermesHookSession: the latest of the last records
\* that names a project.
HookRoot(records) ==
  LET naming == {i \in records :
                   /\ Cardinality({j \in records : j > i}) < RelationWindow
                   /\ hermesHooks[i].root # Nowhere} IN
  IF naming = {} THEN Nowhere ELSE LatestRecord(naming).root

\* canonicalHermesSessionIdForHookRecords: the records of a task belong to
\* the stored session that was open about when the last was written.
IsOfTheSession(s) ==
  LET records == StreamOf(s) IN
  /\ records # {}
  /\ s = "task" =>
       /\ stored.is /\ LatestRecord(records).at >= stored.started
       /\ stored.ended # -1 => LatestRecord(records).at <= stored.ended + 1

\* currentProjectRootForHermesSession
StoredRoot(floor) == IF IsTheProcess(floor) THEN process ELSE stored.root

\* The records a project takes for the session: those of each stream that
\* is now at that project.
HooksOn(floor) ==
  UNION {StreamOf(s) : s \in {t \in Streams :
           IsOfTheSession(t) /\ HookRoot(StreamOf(t)) = floor}}

(***************************************************************************)
(* What is shown.                                                          *)
(***************************************************************************)

Newer_HooksFirst(hooks, store) == hooks # NotTold
Newer(hooks, store) == hooks # NotTold /\ hooks.at >= store.at

\* loadHermesProjectSnapshotData: a stored session first, then one that only
\* its hooks know.
SessionRow(floor) ==
  LET records == HooksOn(floor)
      hooks == IF records = {} THEN NotTold ELSE HooksSay(records)
      store == StoreSays(floor)
      told == IF stored.is /\ StoredRoot(floor) = floor
                THEN IF Newer(hooks, store) THEN hooks ELSE store
              ELSE hooks IN
  IF HermesQuiet(told) THEN NotTold ELSE told

\* A process whose session is not shown gets a row of its own.
ProcessRow(floor) ==
  /\ process = floor
  /\ ~(IsTheProcess(floor) /\ SessionRow(floor) # NotTold)

\* loadRoamingHermesSnapshotData
Roams ==
  LET records == StreamOf("session") IN
  /\ records # {} /\ HookRoot(records) \notin Floors
  /\ ~HermesQuiet(HooksSay(records))

StoredCanBeFound == Within(stored.active, OpenTime)

\* discoverHermesProjects
Discovered ==
  {f \in Floors :
     \/ process = f
     \/ \E s \in Streams :
          LET records == StreamOf(s) IN
          /\ records # {} /\ HookRoot(records) = f
          /\ Within(LatestRecord(records).at, DiscoveryTime)
          /\ ~HermesQuiet(HooksSay(records))
     \/ /\ stored.is /\ stored.ended = -1
        /\ StoredCanBeFound /\ stored.root = f}

(***************************************************************************)
(* Properties.                                                             *)
(***************************************************************************)

\* A session at work on a floor makes that floor known: the loads and the
\* discovery read the same files by different rules.
NobodyIsHidden ==
  \A f \in Floors :
    SessionRow(f).ongoing \/ ProcessRow(f) => f \in Discovered

\* A process in a project is seen there, by itself or by its session.
ProcessIsSeen ==
  process # Nowhere => ProcessRow(process) \/ SessionRow(process) # NotTold

\* Nothing is at work once every source is silent for the open window,
\* unless the process is still there.
SilenceEnds ==
  \A f \in Floors \ {process} :
    (/\ \A i \in DOMAIN hermesHooks : ~Within(hermesHooks[i].at, OpenTime)
     /\ ~Within(stored.active, OpenTime))
    => ~SessionRow(f).ongoing

\* What was stored after the last hook is not hidden by the hook, and the
\* other way round: where both are at one floor, the later decides whether
\* the session goes on.
LaterDecides ==
  \A f \in Floors :
    (stored.is /\ StoredRoot(f) = f /\ HooksOn(f) # {}) =>
      LET hooks == HooksSay(HooksOn(f)) IN
      SessionRow(f).ongoing = IF hooks.at < stored.active
                                THEN StoreSays(f).ongoing ELSE hooks.ongoing

HermesIsTold == NobodyIsHidden /\ ProcessIsSeen /\ SilenceEnds /\ LaterDecides

\* What docs/integration-hooks.md says: one session, one current floor.
OneCurrentFloor ==
  \A f, g \in Floors :
    (SessionRow(f) # NotTold /\ SessionRow(g) # NotTold) => f = g
=============================================================================
