----------------------------- MODULE MCProviders -----------------------------
(***************************************************************************)
(* What the providers make of the files and answers of the programs they   *)
(* watch, in one run: for Claude the lead session, its subagents and team  *)
(* members, the questions its hooks ask of the browser, and its background *)
(* tasks; and what Hermes, OpenClaw and Cursor leave or answer.  The       *)
(* system under check is any one of them, and the others stay as they      *)
(* began.                                                                  *)
(***************************************************************************)
EXTENDS ClaudeSession, ClaudeAgents, ClaudeHookBridge, ClaudeBackgroundTasks,
        HermesSessions, OpenClawGateway, CursorHooks, CursorCloud

CONSTANTS c1, c2, r1, r2, u1, u2

VARIABLE which

allVars == <<claudeVars, childVars, bridgeVars, taskVars, hermesVars, clawVars,
             cursorVars, cloudVars, which>>

ProvidersInit ==
  /\ ClaudeInit /\ ChildInit /\ BridgeInit /\ TasksInit
  /\ HermesInit /\ ClawInit /\ CursorInit /\ CloudInit
  /\ which \in {"session", "agents", "bridge", "tasks", "hermes", "claw",
                "cursor", "cloud"}
  /\ which # "session" => equipped = {}
  /\ which # "agents" => ~teammate.member
  /\ which # "hermes" => stored.cli
  /\ which # "claw" => gateway = "none"
  /\ which # "cloud" => cloudAgent = [messages |-> 0, ofInterest |-> FALSE,
                                     key |-> TRUE]

RestOf(part) ==
  /\ which = part
  /\ part # "session" => UNCHANGED claudeVars
  /\ part # "agents" => UNCHANGED childVars
  /\ part # "bridge" => UNCHANGED bridgeVars
  /\ part # "tasks" => UNCHANGED taskVars
  /\ part # "hermes" => UNCHANGED hermesVars
  /\ part # "claw" => UNCHANGED clawVars
  /\ part # "cursor" => UNCHANGED cursorVars
  /\ part # "cloud" => UNCHANGED cloudVars

\* Two hooks or all of the clock, but not both.
HooksOrTime ==
  /\ Len(childHooks) < MaxChildHooks \/ childClock < MaxChildClock
  /\ Len(hermesHooks) < MaxHermesHooks \/ hermesClock < MaxHermesClock

ProvidersNext ==
  /\ UNCHANGED which
  /\ \/ RestOf("session") /\ ClaudeNext
     \/ RestOf("agents") /\ ChildNext /\ HooksOrTime'
     \/ RestOf("bridge") /\ BridgeNext
     \/ RestOf("tasks") /\ TasksNext
     \/ RestOf("hermes") /\ HermesNext /\ HooksOrTime'
     \/ RestOf("claw") /\ ClawNext
     \/ RestOf("cursor") /\ CursorNext
     \/ RestOf("cloud") /\ CloudNext

ProvidersSpec == ProvidersInit /\ [][ProvidersNext]_allVars
==============================================================================
