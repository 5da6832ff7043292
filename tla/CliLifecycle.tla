---------------------------- MODULE CliLifecycle ----------------------------
(***************************************************************************)
(* `aot start`, `stop` and `restart` (cli/src/lifecycle.ts) and the server *)
(* processes they act on (web/src/server/server.ts): one port, one pid     *)
(* file, commands that may overlap or be interrupted, and servers started  *)
(* by others.                                                              *)
(*                                                                         *)
(* A step is what a command does between two awaits.  A probe of           *)
(* /api/health/live is answered with the pid of the server on the port, or *)
(* fails; it may also fail though a server is there, when the answer takes *)
(* more than two seconds.  Pids are not reused.                            *)
(***************************************************************************)
EXTENDS Integers

CONSTANTS
  Terminals,      \* where commands are given
  MaxPid,         \* bound: servers launched
  Polls           \* START_POLL_ATTEMPTS, and the 40 of runStop()

ASSUME LifecycleBoundsAssumption == MaxPid \in Nat /\ Polls \in Nat \ {0}

VARIABLES
  server,     \* the server processes by pid
  pidfile,    \* the pid it names; 0 when there is none
  shell,      \* the command running in each terminal
  calm        \* history: nothing of DISTURBANCES has happened

lifecycleVars == <<server, pidfile, shell, calm>>

Pids == 1..MaxPid
NoServer == [stage |-> "none", by |-> "none", killed |-> "no"]
Dead == [NoServer EXCEPT !.stage = "dead"]
Prompt == [op |-> "none", stage |-> "idle", force |-> FALSE, named |-> 0,
           live |-> 0, left |-> 0]

LifecycleInit ==
  /\ server = [s \in Pids |-> NoServer]
  /\ pidfile = 0
  /\ shell = [t \in Terminals |-> Prompt]
  /\ calm = TRUE

Bound(s) == server[s].stage \in {"live", "draining"}
Fresh(s) == server[s] = NoServer /\ \A r \in Pids : r < s => server[r] # NoServer

Launched(s, by) ==
  server' = [server EXCEPT ![s] = [NoServer EXCEPT !.stage = "booting",
                                                   !.by = by]]

Step(t, c) == shell' = [shell EXCEPT ![t] = c]
Ends(t) == Step(t, Prompt)

-----------------------------------------------------------------------------
(* Servers.                                                                *)

\* DISTURBANCES: another launcher, two commands at once, a probe that fails
\* though a server holds the port, and a command given while a server boots.
ForeignLaunch(s) ==
  /\ Fresh(s)
  /\ Launched(s, "other")
  /\ calm' = FALSE
  /\ UNCHANGED <<pidfile, shell>>

\* listen(): the port is free, or the process ends with EADDRINUSE.
Listens(s) ==
  /\ server[s].stage = "booting"
  /\ server' = [server EXCEPT ![s] = IF \E r \in Pids : Bound(r) THEN Dead
                                       ELSE [@ EXCEPT !.stage = "live"]]
  /\ UNCHANGED <<pidfile, shell, calm>>

\* A server ends by itself, or shutdown() is over: stop() and close(), or five
\* seconds, whichever is first.
ServerEnds(s) ==
  /\ server[s].stage \in {"booting", "live", "draining"}
  /\ server' = [server EXCEPT ![s] = Dead]
  /\ UNCHANGED <<pidfile, shell, calm>>

-----------------------------------------------------------------------------
(* Commands.                                                               *)

\* runStop() reads the pid file before it probes.
Given(t, op, force) ==
  /\ shell[t] = Prompt
  /\ force => op # "start"
  /\ Step(t, [Prompt EXCEPT !.op = op, !.force = force, !.named = pidfile,
                            !.stage = IF op = "start" THEN "probing"
                                                      ELSE "stopProbing"])
  /\ calm' = /\ calm
              /\ \A u \in Terminals : shell[u] = Prompt
              /\ \A s \in Pids : server[s].stage # "booting"
  /\ UNCHANGED <<server, pidfile>>

\* Where the probe of a stage leads when it is answered by pid s; NotLive: not.
ProbeStages == {"probing", "polling", "stopProbing", "stopPolling"}

ProbeAnswered(t, s) ==
  /\ shell[t].stage \in ProbeStages
  /\ Bound(s)
  /\ CASE shell[t].stage \in {"probing", "polling"} -> Ends(t)
       [] shell[t].stage = "stopProbing" ->
            Step(t, [shell[t] EXCEPT !.stage = "judging", !.live = s])
       [] shell[t].stage = "stopPolling" ->
            IF shell[t].left > 1 THEN Step(t, [shell[t] EXCEPT !.left = @ - 1])
                                 ELSE Ends(t)
  /\ UNCHANGED <<server, pidfile, calm>>

\* After a stop that returns, restart goes on with runStart().
Stopped(t) ==
  IF shell[t].op = "restart"
    THEN Step(t, [Prompt EXCEPT !.op = "start", !.stage = "probing"])
    ELSE Ends(t)

\* spawn(), and the pid file is written before the child has bound the port.
Spawn(t, s) ==
  /\ Fresh(s)
  /\ Launched(s, "start")
  /\ pidfile' = s
  /\ Step(t, [shell[t] EXCEPT !.stage = "polling", !.left = Polls])

NobodyAnswers(t) ==
  /\ calm' = (calm /\ \A s \in Pids : ~Bound(s))
  /\ \/ /\ shell[t].stage = "probing"
        /\ \E s \in Pids : Spawn(t, s)
     \/ /\ shell[t].stage = "polling" /\ shell[t].left > 1
        /\ Step(t, [shell[t] EXCEPT !.left = @ - 1])
        /\ UNCHANGED <<server, pidfile>>
     \/ /\ shell[t].stage \in {"stopProbing", "stopPolling"}
        /\ pidfile' = 0
        /\ Stopped(t)
        /\ UNCHANGED server

\* Not live within the polls: exit(1), the pid file stays.
StartGivesUp(t) ==
  /\ shell[t].stage = "polling" /\ shell[t].left = 1
  /\ Ends(t)
  /\ UNCHANGED <<server, pidfile, calm>>

StopSafety_NoPidfileIsSafe(named, live) ==
  IF named \in {0, live} THEN "safe" ELSE "ownership-mismatch"

\* evaluateStopSafety() of a server that answers.
StopSafety(named, live) ==
  IF named = live THEN "safe" ELSE "ownership-mismatch"

\* The kill follows the answer of the probe; the server may have ended since,
\* then process.kill() throws.
Judges(t) ==
  LET s == shell[t].live
      may == StopSafety(shell[t].named, s) = "safe" \/ shell[t].force
      how == IF shell[t].force THEN "forced" ELSE "owned"
  IN  /\ shell[t].stage = "judging"
      /\ IF may /\ Bound(s)
           THEN /\ server' = [server EXCEPT ![s].stage = "draining",
                                            ![s].killed = how]
                /\ Step(t, [shell[t] EXCEPT !.stage = "stopPolling",
                                            !.live = 0, !.left = Polls])
           ELSE Ends(t) /\ UNCHANGED server
      /\ UNCHANGED <<pidfile, calm>>

\* Ctrl-C, at any await.
Interrupted(t) ==
  /\ shell[t] # Prompt
  /\ Ends(t)
  /\ UNCHANGED <<server, pidfile, calm>>

LifecycleNext ==
  \/ \E s \in Pids : ForeignLaunch(s) \/ Listens(s) \/ ServerEnds(s)
  \/ \E t \in Terminals :
       \/ \E op \in {"start", "stop", "restart"}, force \in BOOLEAN :
            Given(t, op, force)
       \/ \E s \in Pids : ProbeAnswered(t, s)
       \/ NobodyAnswers(t) \/ StartGivesUp(t) \/ Judges(t) \/ Interrupted(t)

LifecycleSpec == LifecycleInit /\ [][LifecycleNext]_lifecycleVars

-----------------------------------------------------------------------------
\* A server that is up answers to the pid file, so that `aot stop` will stop it,
\* whatever starts and stops failed or were interrupted before: unless something
\* of DISTURBANCES has happened.
OwnServerIsNamed ==
  calm => \A s \in Pids : server[s].stage = "live" => pidfile = s

\* A server that another launcher has started is not killed without --force
\* (evaluateStopSafety()), also when the pid file, the probe and the kill see
\* three different states of the port.
ForeignSpared ==
  \A s \in Pids : server[s].killed = "owned" => server[s].by = "start"

StopIsSafe == OwnServerIsNamed /\ ForeignSpared
=============================================================================
