-------------------------- MODULE FleetLiveService --------------------------
(***************************************************************************)
(* FleetLiveService (web/src/server/fleet-live-service.ts): the server's   *)
(* one owner of project monitors, of the published fleet and of the        *)
(* browsers' event streams.                                                *)
(*                                                                         *)
(* Requests, monitor events and the start run as concurrent calls that     *)
(* yield at each await.  A monitor is reduced to whether it runs and to    *)
(* the version of the project its last snapshot shows; discovery to the    *)
(* set of roots it answers with (a seed is one it never loses).  Account   *)
(* and roaming agents only delay a publish here; demo mode and the shared  *)
(* cloud tasks are left out.                                               *)
(***************************************************************************)
EXTENDS Naturals

CONSTANTS
  Roots,       \* project roots
  Calls,       \* bound: calls in progress
  Clients,     \* browsers
  MaxWorld,    \* bound: versions of a project
  MaxMoves     \* bound: changes of what discovery answers

ASSUME FleetBoundsAssumption ==
  MaxWorld \in Nat \ {0} /\ MaxMoves \in Nat /\ "none" \notin Calls

VARIABLES
  service,    \* "new", "running", "stopping", "stopped"
  visited,    \* roots whose monitor stop() has told to stop
  call,       \* the calls, see CallStates
  scans,      \* refreshProjectSet() calls in progress, see Scans
  inFlight,   \* projectSetRefresh: the call that started it, or NoCall
  due,        \* PROJECT_SET_REFRESH_INTERVAL_MS is over
  recent,     \* recentlyDiscoveredProjects
  projects,
  held,       \* the keys of the monitors map
  monitor,    \* what the latest monitor of a root is doing
  snapshot,   \* getSnapshot() of that monitor; 0 is none
  fleet,      \* version published for a root; 0: none, or a startup snapshot
  clients, shown,
  world,      \* the version of each project
  found, moves  \* what discovery answers

callVars == <<call, scans, inFlight, due>>
monitorVars == <<recent, projects, held, monitor, snapshot>>
browserVars == <<fleet, clients, shown>>
envVars == <<world, found, moves>>
vars == <<service, visited, callVars, monitorVars, browserVars, envVars>>

NoCall == "none"
Blank == [r \in Roots |-> 0]
Versions == [Roots -> 0..MaxWorld]

\* work: the call has its own business to do before it publishes.
CallStates ==
  [stage : {"idle", "ensure", "waiting", "work", "accounts", "roaming"},
   force : BOOLEAN, work : BOOLEAN, on : Calls \cup {NoCall}, view : Versions]

Idle == [stage |-> "idle", force |-> FALSE, work |-> FALSE, on |-> NoCall,
         view |-> Blank]

Scans == [of : Calls, stage : {"discovering", "starting", "leaving"},
          roots : SUBSET Roots,    \* the new project set
          leaving : SUBSET Roots,  \* monitors to stop; stops: the one being so
          stops : SUBSET Roots]

Init ==
  /\ service = "new" /\ visited = {}
  /\ call = [c \in Calls |-> Idle]
  /\ scans = {} /\ inFlight = NoCall /\ due = TRUE
  /\ recent = {} /\ projects = {} /\ held = {}
  /\ monitor = [r \in Roots |-> "none"] /\ snapshot = Blank
  /\ fleet = Blank /\ clients = {} /\ shown = [b \in Clients |-> Blank]
  /\ world = [r \in Roots |-> 1] /\ found = {} /\ moves = 0

-----------------------------------------------------------------------------
(* Outside: projects change, appear and go; time passes.                   *)

WorldChanges(r) ==
  /\ world[r] < MaxWorld
  /\ world' = [world EXCEPT ![r] = @ + 1]
  /\ UNCHANGED <<service, visited, callVars, monitorVars, browserVars, found,
                 moves>>

TimePasses ==
  /\ ~due
  /\ due' = TRUE
  /\ UNCHANGED <<service, visited, call, scans, inFlight, monitorVars,
                 browserVars, envVars>>

-----------------------------------------------------------------------------
(* Calls.                                                                  *)

Begin(c, stage, force, work) ==
  /\ call[c] = Idle
  /\ call' = [call EXCEPT ![c] = [Idle EXCEPT !.stage = stage,
                                              !.force = force, !.work = work]]

Start(c) ==
  /\ service = "new"
  /\ service' = "running"
  /\ Begin(c, "ensure", TRUE, TRUE)
  /\ UNCHANGED <<visited, scans, inFlight, due, monitorVars, browserVars,
                 envVars>>

\* The server answers until stop() is over.
Serving == service \in {"running", "stopping"}

\* refreshAll() forces a project set, answers and replies take the one there is;
\* settings and appearance need none before they publish.
Request(c) ==
  /\ Serving
  /\ \/ \E force \in BOOLEAN : Begin(c, "ensure", force, TRUE)
     \/ Begin(c, "work", FALSE, TRUE)
  /\ UNCHANGED <<service, visited, scans, inFlight, due, monitorVars,
                 browserVars, envVars>>

MonitorEmits_Mistake(c, r) ==
  /\ monitor[r] = "running"
  /\ snapshot' = [snapshot EXCEPT ![r] = world[r]]
  /\ IF snapshot[r] = 0 THEN Begin(c, "ensure", FALSE, FALSE)
                        ELSE UNCHANGED call
  /\ UNCHANGED <<service, visited, scans, inFlight, due, recent, projects,
                 held, monitor, browserVars, envVars>>

\* A monitor has assembled a snapshot; its listener publishes.
MonitorEmits(c, r) ==
  /\ monitor[r] = "running"
  /\ snapshot' = [snapshot EXCEPT ![r] = world[r]]
  /\ Begin(c, "ensure", FALSE, FALSE)
  /\ UNCHANGED <<service, visited, scans, inFlight, due, recent, projects,
                 held, monitor, browserVars, envVars>>

\* The project set is there: do the call's work, or publish.
Ensured(state) ==
  [state EXCEPT !.stage = IF state.work THEN "work" ELSE "accounts",
                !.on = NoCall]

NewScan(c) ==
  [of |-> c, stage |-> "discovering", roots |-> {}, leaving |-> {},
   stops |-> {}]

JoinsScan_Mistake(c) == inFlight # NoCall /\ ~call[c].force

JoinsScan(c) == inFlight # NoCall

Ensure(c) ==
  /\ call[c].stage = "ensure"
  /\ IF ~due /\ ~call[c].force
     THEN /\ call' = [call EXCEPT ![c] = Ensured(@)]
          /\ UNCHANGED <<scans, inFlight>>
     ELSE LET on == IF JoinsScan(c) THEN inFlight ELSE c IN
          /\ call' = [call EXCEPT ![c].stage = "waiting", ![c].on = on]
          /\ inFlight' = on
          /\ scans' = IF JoinsScan(c) THEN scans ELSE scans \cup {NewScan(c)}
  /\ UNCHANGED <<service, visited, due, monitorVars, browserVars, envVars>>

\* Monitors have refreshed, or the timeouts of a refresh of all are over;
\* publish() follows.
WorkEnds(c) ==
  /\ call[c].stage = "work"
  /\ call' = [call EXCEPT ![c].stage = "ensure", ![c].work = FALSE,
                          ![c].force = FALSE]
  /\ UNCHANGED <<service, visited, scans, inFlight, due, monitorVars,
                 browserVars, envVars>>

\* No such monitor, or it rejects the answer: the request ends with an error.
\* getProjects() ends here too: it publishes nothing.
WorkFails(c) ==
  /\ call[c].stage = "work"
  /\ call' = [call EXCEPT ![c] = Idle]
  /\ UNCHANGED <<service, visited, scans, inFlight, due, monitorVars,
                 browserVars, envVars>>

Snapshots ==
  [r \in Roots |-> IF r \in projects \cap held THEN snapshot[r] ELSE 0]

\* refreshAccountAgents() is over: publish() collects the snapshots.
Collect(c) ==
  /\ call[c].stage = "accounts"
  /\ call' = [call EXCEPT ![c].stage = "roaming", ![c].view = Snapshots]
  /\ UNCHANGED <<service, visited, scans, inFlight, due, monitorVars,
                 browserVars, envVars>>

\* The roaming agents are in: the fleet of the projects there are now.
Publish(c) ==
  /\ call[c].stage = "roaming"
  /\ call' = [call EXCEPT ![c] = Idle]
  /\ fleet' = [r \in Roots |-> IF r \in projects THEN call[c].view[r] ELSE 0]
  /\ shown' = [b \in Clients |-> IF b \in clients THEN fleet' ELSE shown[b]]
  /\ UNCHANGED <<service, visited, scans, inFlight, due, clients, monitorVars,
                 envVars>>

-----------------------------------------------------------------------------
(* refreshProjectSet.                                                      *)

Advance(s, new) == scans' = (scans \ {s}) \cup {new}

\* Discovery answers; a failed one finds nothing.  A root it no longer finds is
\* kept for two minutes, while it exists.
Discovered(s) ==
  /\ s.stage = "discovering"
  /\ found' \in SUBSET Roots
  /\ moves' = IF found' = found THEN moves ELSE moves + 1
  /\ moves' <= MaxMoves
  /\ \E kept \in SUBSET (recent \ found') :
       LET next == found' \cup kept
           new == next \ held
       IN /\ recent' = next
          /\ held' = held \cup new /\ visited' = visited \ new
          /\ monitor' = [r \in Roots |->
                           IF r \in new THEN "running" ELSE monitor[r]]
          /\ snapshot' = [r \in Roots |->
                            IF r \in new THEN 0 ELSE snapshot[r]]
          /\ Advance(s, [s EXCEPT !.stage = "starting", !.roots = next])
  /\ UNCHANGED <<service, call, inFlight, due, projects, browserVars, world>>

\* The new monitors have started, or 8 s are over.
Started(s) ==
  /\ s.stage = "starting"
  /\ Advance(s, [s EXCEPT !.stage = "leaving", !.leaving = held \ s.roots])
  /\ UNCHANGED <<service, visited, call, inFlight, due, monitorVars,
                 browserVars, envVars>>

StopMonitor(r) ==
  monitor' = [monitor EXCEPT ![r] = IF @ = "running" THEN "stopping" ELSE @]

StopLeaving(s, r) ==
  /\ s.stage = "leaving" /\ r \in s.leaving /\ s.stops = {}
  /\ StopMonitor(r)
  /\ Advance(s, [s EXCEPT !.stops = {r}])
  /\ UNCHANGED <<service, visited, call, inFlight, due, recent, projects, held,
                 snapshot, browserVars, envVars>>

MonitorStops(r) ==
  /\ monitor[r] = "stopping"
  /\ monitor' = [monitor EXCEPT ![r] = "stopped"]
  /\ UNCHANGED <<service, visited, callVars, recent, projects, held, snapshot,
                 browserVars, envVars>>

Forget(s, r) ==
  /\ s.stops = {r} /\ monitor[r] = "stopped"
  /\ held' = held \ {r}
  /\ Advance(s, [s EXCEPT !.leaving = @ \ {r}, !.stops = {}])
  /\ UNCHANGED <<service, visited, call, inFlight, due, recent, projects,
                 monitor, snapshot, browserVars, envVars>>

\* The new set is in force, and those who waited for it go on.
ScanEnds(s) ==
  /\ s.stage = "leaving" /\ s.leaving = {}
  /\ projects' = s.roots
  /\ due' = FALSE
  /\ scans' = scans \ {s}
  /\ inFlight' = IF inFlight = s.of THEN NoCall ELSE inFlight
  /\ call' = [c \in Calls |-> IF call[c].stage = "waiting" /\ call[c].on = s.of
                              THEN Ensured(call[c]) ELSE call[c]]
  /\ UNCHANGED <<service, visited, recent, held, monitor, snapshot,
                 browserVars, envVars>>

-----------------------------------------------------------------------------
(* Browsers.                                                               *)

RegisterSse_Mistake(b) ==
  /\ Serving /\ b \notin clients
  /\ clients' = clients \cup {b}
  /\ UNCHANGED <<service, visited, callVars, monitorVars, fleet, shown,
                 envVars>>

RegisterSse(b) ==
  /\ Serving /\ b \notin clients
  /\ clients' = clients \cup {b}
  /\ shown' = [shown EXCEPT ![b] = fleet]
  /\ UNCHANGED <<service, visited, callVars, monitorVars, fleet, envVars>>

Disconnect(b) ==
  /\ b \in clients
  /\ clients' = clients \ {b}
  /\ shown' = [shown EXCEPT ![b] = Blank]
  /\ UNCHANGED <<service, visited, callVars, monitorVars, fleet, envVars>>

-----------------------------------------------------------------------------
(* stop(): one monitor after another, also those added meanwhile.          *)

Stop ==
  /\ service = "running"
  /\ service' = "stopping"
  /\ UNCHANGED <<visited, callVars, monitorVars, browserVars, envVars>>

StopNext(r) ==
  /\ service = "stopping" /\ r \in held \ visited
  /\ \A q \in visited : monitor[q] = "stopped"
  /\ StopMonitor(r)
  /\ visited' = visited \cup {r}
  /\ UNCHANGED <<service, callVars, recent, projects, held, snapshot,
                 browserVars, envVars>>

Stopped ==
  /\ service = "stopping" /\ held \subseteq visited
  /\ \A q \in visited : monitor[q] = "stopped"
  /\ service' = "stopped"
  /\ held' = {} /\ clients' = {} /\ shown' = [b \in Clients |-> Blank]
  /\ UNCHANGED <<visited, callVars, recent, projects, monitor, snapshot,
                 fleet, envVars>>

-----------------------------------------------------------------------------

Scan(s) ==
  \/ Discovered(s) \/ Started(s) \/ ScanEnds(s)
  \/ \E r \in Roots : StopLeaving(s, r) \/ Forget(s, r)

Proceed(c) ==
  Ensure(c) \/ WorkEnds(c) \/ WorkFails(c) \/ Collect(c) \/ Publish(c)

Stopping ==
  \/ Stopped
  \/ \E r \in Roots : StopNext(r)

Next ==
  \/ \E r \in Roots : WorldChanges(r)
  \/ TimePasses
  \/ \E c \in Calls : Start(c) \/ Request(c) \/ Proceed(c)
  \/ \E c \in Calls, r \in Roots : MonitorEmits(c, r)
  \/ \E s \in scans : Scan(s)
  \/ \E r \in Roots : MonitorStops(r)
  \/ \E b \in Clients : RegisterSse(b) \/ Disconnect(b)
  \/ Stop \/ Stopping

\* Each await has a timer, or is one of a monitor's calls, which return (see
\* SnapshotCoordinator); a monitor assembles a snapshot every few seconds, and
\* that a call is free for it is only a bound.
Fairness ==
  /\ \A c \in Calls : WF_vars(Proceed(c))
  /\ WF_vars(\E s \in scans : Scan(s))
  /\ \A r \in Roots : WF_vars(MonitorStops(r))
  /\ \A r \in Roots : SF_vars(\E c \in Calls : MonitorEmits(c, r))
  /\ WF_vars(Stopping)

Safety == Init /\ [][Next]_vars
Spec == Safety /\ Fairness

-----------------------------------------------------------------------------

TypeOK ==
  /\ service \in {"new", "running", "stopping", "stopped"}
  /\ visited \subseteq Roots
  /\ call \in [Calls -> CallStates]
  /\ scans \subseteq Scans
  /\ inFlight \in Calls \cup {NoCall}
  /\ due \in BOOLEAN
  /\ recent \subseteq Roots /\ projects \subseteq Roots /\ held \subseteq Roots
  /\ monitor \in [Roots -> {"none", "running", "stopping", "stopped"}]
  /\ snapshot \in Versions /\ fleet \in Versions /\ world \in Versions
  /\ clients \subseteq Clients /\ shown \in [Clients -> Versions]
  /\ found \subseteq Roots /\ moves \in 0..MaxMoves

\* A project on the board has a monitor that runs, or the refresh that takes it
\* off the board is at work: refreshes of the set do not overlap, or one would
\* stop what another has just started.
ProjectsHaveMonitors ==
  service = "running" =>
    \A r \in projects :
      \/ r \in held /\ monitor[r] = "running"
      \/ \E s \in scans : s.stage = "leaving" /\ r \notin s.roots

\* No monitor that has yet to stop is out of the map: stop() and the next
\* refresh of the set reach each of them, whichever of the two comes first.
MonitorsReachable ==
  \A r \in Roots : monitor[r] \in {"running", "stopping"} => r \in held

\* Refreshes of the set and stop(), whichever comes first, lose no monitor.
MonitorsAreKept == ProjectsHaveMonitors /\ MonitorsReachable

\* What a connected browser shows is what the server has published, whenever it
\* connected.
ClientsHaveTheFleet == \A b \in clients : shown[b] = fleet

\* Publishes overlap, and a slow one may put an older snapshot over a newer; the
\* next snapshot of any monitor repairs that.
FleetCatchesUp ==
  <>[](service = "running") =>
    <>[](\A r \in projects : fleet[r] = world[r])

\* No call waits for ever, whichever refresh it joins, whoever stops meanwhile.
CallsReturn == \A c \in Calls : call[c].stage # "idle" ~> call[c].stage = "idle"

\* The two together: the service keeps answering, with what its monitors know.
FleetIsServed == FleetCatchesUp /\ CallsReturn
=============================================================================
