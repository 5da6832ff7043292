----------------------- MODULE FleetLiveServiceProofs -----------------------
(***************************************************************************)
(* Proofs about the two ends of a fleet: its monitors and what clients are *)
(* told of it (FleetLiveService), for any roots, clients and bounds; and   *)
(* the page that shows it: its renderers (OfficeScene), for any floors,    *)
(* calls and bounds, and how its agents move (AgentMotion), for any        *)
(* agents, rooms, seats and bounds.                                        *)
(***************************************************************************)
EXTENDS FleetLiveService, OfficeScene, AgentMotion, SequenceTheorems, TLAPS

-----------------------------------------------------------------------------
(* The inductive invariant.                                                *)

Doings == {"none", "running", "stopping", "stopped"}
Stages == {"discovering", "starting", "leaving"}

SetTypeOK ==
  /\ monitor \in [Roots -> Doings]
  /\ found \subseteq Roots /\ recent \subseteq Roots
  /\ held \subseteq Roots /\ projects \subseteq Roots
  /\ scans \subseteq Scans

\* Calls that want the project set refreshed share the refresh in flight.
OneScan ==
  /\ \A s \in scans : s.of = inFlight
  /\ \A s, t \in scans : s = t

\* stop() has not begun: it breaks what a refresh of the set relies on.
Unstopped == service \notin {"stopping", "stopped"}

\* A refresh stops only what its new set leaves out, one at a time; what is in
\* its set has a monitor.
ScansInOrder ==
  \A s \in scans :
    /\ s.stage # "leaving" => s.leaving = {} /\ s.stops = {}
    /\ s.stops \subseteq s.leaving
    /\ s.leaving \cap s.roots = {}
    /\ s.stage # "discovering" /\ Unstopped => s.roots \subseteq held

\* While the service is up only a refresh stops a monitor of the map.
HeldMonitorsRun ==
  Unstopped => \A r \in held : \/ monitor[r] = "running"
                          \/ \E s \in scans : r \in s.stops

ProjectsInOrder ==
  Unstopped => \A r \in projects :
            \/ r \in held /\ monitor[r] = "running"
            \/ \E s \in scans : s.stage = "leaving" /\ r \notin s.roots

IInv ==
  /\ SetTypeOK /\ OneScan /\ ScansInOrder
  /\ HeldMonitorsRun /\ ProjectsInOrder /\ MonitorsReachable

\* The variables the invariant speaks of.
setVars == <<service, scans, inFlight, found, recent, projects, held, monitor>>

\* Steps that touch nothing the invariant speaks of.
LEMMA Stutter == IInv /\ UNCHANGED setVars => IInv'
  BY DEF IInv, SetTypeOK, OneScan, ScansInOrder, HeldMonitorsRun,
         ProjectsInOrder, MonitorsReachable, Unstopped, setVars

-----------------------------------------------------------------------------

\* The service begins with no monitor and no refresh.
LEMMA InitIInv == Init => IInv
  BY DEF Init, IInv, SetTypeOK, OneScan, ScansInOrder, HeldMonitorsRun,
         ProjectsInOrder, MonitorsReachable, Doings

\* A call starts a refresh only when none is in flight.
LEMMA EnsureIInv ==
  ASSUME IInv, NEW c \in Calls, Ensure(c)
  PROVE  IInv'
<1>1. UNCHANGED <<service, found, recent, projects, held, monitor>>
  BY DEF Ensure, monitorVars, envVars
<1>2. CASE UNCHANGED <<scans, inFlight>>
  BY <1>1, <1>2, Stutter DEF setVars
<1>3. CASE ~UNCHANGED <<scans, inFlight>>
  <2> DEFINE n == NewScan(c)
  <2>1. ~JoinsScan(c) /\ inFlight' = c /\ scans' = scans \cup {n}
    BY <1>3 DEF Ensure
  <2>2. scans = {}
    BY <2>1, FleetBoundsAssumption
       DEF IInv, OneScan, SetTypeOK, Scans, JoinsScan, NoCall
  <2>3. scans' = {n} /\ n \in Scans
    BY <2>1, <2>2 DEF NewScan, Scans
  <2>4. /\ n.of = c /\ n.stage = "discovering"
        /\ n.leaving = {} /\ n.stops = {}
    BY DEF NewScan
  <2> HIDE DEF n
  <2>5. SetTypeOK' /\ OneScan'
    BY <1>1, <2>1, <2>3, <2>4 DEF IInv, SetTypeOK, OneScan
  <2>6. ScansInOrder'
    BY <2>3, <2>4 DEF ScansInOrder
  <2>7. HeldMonitorsRun' /\ ProjectsInOrder' /\ MonitorsReachable'
    BY <1>1, <2>2 DEF IInv, HeldMonitorsRun, ProjectsInOrder,
                      MonitorsReachable, Unstopped
  <2> QED BY <2>5, <2>6, <2>7 DEF IInv
<1> QED BY <1>2, <1>3

-----------------------------------------------------------------------------
(* The refresh of the project set.  It is the only one: in each step scans *)
(* goes from {s} to {t}, or to {}.                                         *)

\* Whoever takes a step of a refresh is the refresh in flight.
LEMMA OnlyScan ==
  ASSUME IInv, NEW s \in scans
  PROVE  scans = {s} /\ s \in Scans /\ s.of = inFlight
  BY DEF IInv, OneScan, SetTypeOK

\* The new monitors enter the map as they start.
LEMMA DiscoveredIInv ==
  ASSUME IInv, NEW s \in scans, Discovered(s)
  PROVE  IInv'
<1>0. scans = {s} /\ s \in Scans /\ s.of = inFlight
  BY OnlyScan
<1>1. PICK kept \in SUBSET (recent \ found') :
        LET next == found' \cup kept
            new == next \ held
        IN /\ recent' = next
           /\ held' = held \cup new /\ visited' = visited \ new
           /\ monitor' = [r \in Roots |->
                            IF r \in new THEN "running" ELSE monitor[r]]
           /\ Advance(s, [s EXCEPT !.stage = "starting", !.roots = next])
  BY DEF Discovered
<1> DEFINE next == found' \cup kept
           new == next \ held
           t == [s EXCEPT !.stage = "starting", !.roots = next]
<1>2. /\ recent' = next /\ held' = held \cup next
      /\ monitor' = [r \in Roots |->
                       IF r \in new THEN "running" ELSE monitor[r]]
      /\ scans' = {t}
  BY <1>0, <1>1 DEF Advance
<1>3. /\ found' \subseteq Roots /\ s.stage = "discovering"
      /\ UNCHANGED <<service, inFlight, projects>>
  BY DEF Discovered
<1>4. next \subseteq Roots /\ new \subseteq next /\ held \cap new = {}
  BY <1>1, <1>3 DEF IInv, SetTypeOK
<1>5. /\ t \in Scans /\ t.of = s.of /\ t.stage = "starting" /\ t.roots = next
      /\ t.leaving = {} /\ t.stops = {} /\ s.leaving = {} /\ s.stops = {}
  BY <1>0, <1>3, <1>4 DEF IInv, ScansInOrder, Scans
<1>6. new = next \ held
  OBVIOUS
<1> HIDE DEF next, new, t
<1>7. SetTypeOK'
  BY <1>2, <1>3, <1>4, <1>5 DEF IInv, SetTypeOK, Doings
<1>8. OneScan' /\ ScansInOrder'
  BY <1>0, <1>2, <1>3, <1>5 DEF OneScan, ScansInOrder
<1>9. \A r \in held' : Unstopped => monitor'[r] = "running"
  BY <1>0, <1>2, <1>4, <1>5, <1>6 DEF IInv, HeldMonitorsRun, SetTypeOK
<1>10. HeldMonitorsRun' /\ ProjectsInOrder'
  BY <1>0, <1>2, <1>3, <1>5, <1>9
     DEF IInv, HeldMonitorsRun, ProjectsInOrder, Unstopped
<1>11. MonitorsReachable'
  BY <1>2, <1>4 DEF IInv, MonitorsReachable
<1> QED BY <1>7, <1>8, <1>10, <1>11 DEF IInv

\* What is not in the new set is what will be stopped.
LEMMA StartedIInv ==
  ASSUME IInv, NEW s \in scans, Started(s)
  PROVE  IInv'
<1> DEFINE t == [s EXCEPT !.stage = "leaving", !.leaving = held \ s.roots]
<1>0. scans = {s} /\ s \in Scans /\ s.of = inFlight
  BY OnlyScan
<1>1. /\ s.stage = "starting" /\ scans' = {t}
      /\ UNCHANGED <<service, inFlight, found, recent, projects, held, monitor>>
  BY <1>0 DEF Started, Advance, monitorVars, envVars
<1>2. /\ t \in Scans /\ t.of = s.of /\ t.stage = "leaving"
      /\ t.roots = s.roots /\ t.leaving = held \ s.roots /\ t.stops = {}
      /\ s.stops = {}
  BY <1>0, <1>1 DEF IInv, ScansInOrder, SetTypeOK, Scans
<1> HIDE DEF t
<1>3. SetTypeOK' /\ OneScan' /\ MonitorsReachable'
  BY <1>0, <1>1, <1>2 DEF IInv, SetTypeOK, OneScan, MonitorsReachable
<1>4. ScansInOrder'
  BY <1>0, <1>1, <1>2 DEF IInv, ScansInOrder, Unstopped
<1>5. \A r \in held : Unstopped => monitor[r] = "running"
  BY <1>0, <1>2 DEF IInv, HeldMonitorsRun
<1>6. HeldMonitorsRun'
  BY <1>1, <1>5 DEF HeldMonitorsRun, Unstopped
<1>7. ProjectsInOrder'
  BY <1>0, <1>1, <1>5 DEF IInv, ProjectsInOrder, Unstopped
<1> QED BY <1>3, <1>4, <1>6, <1>7 DEF IInv

\* A monitor is stopped while it is still in the map, and only outside the new set.
LEMMA StopLeavingIInv ==
  ASSUME IInv, NEW s \in scans, NEW r \in Roots, StopLeaving(s, r)
  PROVE  IInv'
<1> DEFINE t == [s EXCEPT !.stops = {r}]
<1>0. scans = {s} /\ s \in Scans /\ s.of = inFlight
  BY OnlyScan
<1>1. /\ s.stage = "leaving" /\ r \in s.leaving /\ s.stops = {}
      /\ scans' = {t} /\ StopMonitor(r)
      /\ UNCHANGED <<service, inFlight, found, recent, projects, held>>
  BY <1>0 DEF StopLeaving, Advance, envVars
<1>2. /\ t \in Scans /\ t.of = s.of /\ t.stage = "leaving"
      /\ t.roots = s.roots /\ t.leaving = s.leaving /\ t.stops = {r}
  BY <1>0, <1>1 DEF Scans
<1>3. r \notin s.roots
  BY <1>1 DEF IInv, ScansInOrder
<1> HIDE DEF t
<1>4. SetTypeOK' /\ OneScan'
  BY <1>0, <1>1, <1>2 DEF IInv, SetTypeOK, OneScan, StopMonitor, Doings
<1>5. \A q \in Roots \ {r} : monitor'[q] = monitor[q]
  BY <1>1 DEF IInv, SetTypeOK, StopMonitor
<1>6. monitor'[r] \in {"running", "stopping"} => monitor[r] \in {"running", "stopping"}
  BY <1>1 DEF IInv, SetTypeOK, StopMonitor
<1>7. ScansInOrder'
  BY <1>0, <1>1, <1>2 DEF IInv, ScansInOrder, Unstopped
<1>8. HeldMonitorsRun'
  BY <1>0, <1>1, <1>2, <1>5 DEF IInv, SetTypeOK, HeldMonitorsRun, Unstopped
<1>9. ProjectsInOrder'
  BY <1>0, <1>1, <1>2, <1>3, <1>5 DEF IInv, SetTypeOK, ProjectsInOrder, Unstopped
<1>10. MonitorsReachable'
  BY <1>1, <1>5, <1>6 DEF IInv, MonitorsReachable
<1> QED BY <1>4, <1>7, <1>8, <1>9, <1>10 DEF IInv

\* Only a stopped monitor leaves the map.
LEMMA ForgetIInv ==
  ASSUME IInv, NEW s \in scans, NEW r \in Roots, Forget(s, r)
  PROVE  IInv'
<1> DEFINE t == [s EXCEPT !.leaving = @ \ {r}, !.stops = {}]
<1>0. scans = {s} /\ s \in Scans /\ s.of = inFlight
  BY OnlyScan
<1>1. /\ s.stops = {r} /\ monitor[r] = "stopped"
      /\ scans' = {t} /\ held' = held \ {r}
      /\ UNCHANGED <<service, inFlight, found, recent, projects, monitor>>
  BY <1>0 DEF Forget, Advance, envVars
<1>2. /\ t \in Scans /\ t.of = s.of /\ t.stage = s.stage
      /\ t.roots = s.roots /\ t.leaving = s.leaving \ {r} /\ t.stops = {}
  BY <1>0, <1>1 DEF Scans
<1>3. s.stage = "leaving" /\ r \notin s.roots
  BY <1>1 DEF IInv, ScansInOrder
<1> HIDE DEF t
<1>4. SetTypeOK' /\ OneScan' /\ MonitorsReachable'
  BY <1>0, <1>1, <1>2 DEF IInv, SetTypeOK, OneScan, MonitorsReachable
<1>5. ScansInOrder'
  BY <1>0, <1>1, <1>2, <1>3 DEF IInv, ScansInOrder, Unstopped
<1>6. HeldMonitorsRun'
  BY <1>0, <1>1, <1>2 DEF IInv, HeldMonitorsRun, Unstopped
<1>7. ProjectsInOrder'
  BY <1>0, <1>1, <1>2, <1>3 DEF IInv, ProjectsInOrder, Unstopped
<1> QED BY <1>4, <1>5, <1>6, <1>7 DEF IInv

\* When nothing is left to stop, every project of the new set has its monitor.
LEMMA ScanEndsIInv ==
  ASSUME IInv, NEW s \in scans, ScanEnds(s)
  PROVE  IInv'
<1>0. scans = {s} /\ s \in Scans /\ s.of = inFlight
  BY OnlyScan
<1>1. /\ s.stage = "leaving" /\ s.leaving = {} /\ scans' = {}
      /\ projects' = s.roots
      /\ UNCHANGED <<service, found, recent, held, monitor>>
  BY <1>0 DEF ScanEnds, envVars
<1>2. s.stops = {} /\ s.roots \subseteq Roots
  BY <1>0, <1>1 DEF IInv, ScansInOrder, Scans
<1>3. SetTypeOK' /\ OneScan' /\ ScansInOrder' /\ MonitorsReachable'
  BY <1>1, <1>2
     DEF IInv, SetTypeOK, OneScan, ScansInOrder, MonitorsReachable
<1>4. HeldMonitorsRun'
  BY <1>0, <1>1, <1>2 DEF IInv, HeldMonitorsRun, Unstopped
<1>5. Unstopped => s.roots \subseteq held
  BY <1>1 DEF IInv, ScansInOrder
<1>6. ProjectsInOrder'
  BY <1>1, <1>4, <1>5 DEF HeldMonitorsRun, ProjectsInOrder, Unstopped
<1> QED BY <1>3, <1>4, <1>6 DEF IInv

-----------------------------------------------------------------------------
(* The monitors, and stop().                                               *)

\* A monitor that stops was told to: it did not run any more.
LEMMA MonitorStopsIInv ==
  ASSUME IInv, NEW r \in Roots, MonitorStops(r)
  PROVE  IInv'
<1>1. /\ monitor[r] = "stopping" /\ monitor' = [monitor EXCEPT ![r] = "stopped"]
      /\ UNCHANGED <<service, scans, inFlight, found, recent, projects, held>>
  BY DEF MonitorStops, callVars, envVars
<1>2. SetTypeOK' /\ OneScan' /\ ScansInOrder' /\ MonitorsReachable'
  BY <1>1 DEF IInv, SetTypeOK, OneScan, ScansInOrder, MonitorsReachable,
              Doings, Unstopped
<1>3. \A q \in Roots : monitor[q] = "running" => monitor'[q] = "running"
  BY <1>1 DEF IInv, SetTypeOK
<1>4. HeldMonitorsRun' /\ ProjectsInOrder'
  BY <1>1, <1>3 DEF IInv, SetTypeOK, HeldMonitorsRun, ProjectsInOrder, Unstopped
<1> QED BY <1>2, <1>4 DEF IInv

\* stop() stops a monitor that stays in the map until the walk is over.
LEMMA StopNextIInv ==
  ASSUME IInv, NEW r \in Roots, StopNext(r)
  PROVE  IInv'
<1>1. /\ service = "stopping" /\ StopMonitor(r)
      /\ UNCHANGED <<service, scans, inFlight, found, recent, projects, held>>
  BY DEF StopNext, callVars, envVars
<1>2. SetTypeOK' /\ OneScan' /\ ScansInOrder'
  BY <1>1 DEF IInv, SetTypeOK, OneScan, ScansInOrder, StopMonitor, Doings, Unstopped
<1>3. MonitorsReachable'
  BY <1>1 DEF IInv, SetTypeOK, MonitorsReachable, StopMonitor
<1>4. HeldMonitorsRun' /\ ProjectsInOrder'
  BY <1>1 DEF HeldMonitorsRun, ProjectsInOrder, Unstopped
<1> QED BY <1>2, <1>3, <1>4 DEF IInv

\* stop() clears the map when each monitor in it has stopped.
LEMMA StoppedIInv ==
  ASSUME IInv, Stopped
  PROVE  IInv'
<1>1. /\ held \subseteq visited /\ \A q \in visited : monitor[q] = "stopped"
      /\ held' = {} /\ service' = "stopped"
      /\ UNCHANGED <<scans, inFlight, found, recent, projects, monitor>>
  BY DEF Stopped, callVars, envVars
<1>2. SetTypeOK' /\ OneScan' /\ ScansInOrder'
  BY <1>1 DEF IInv, SetTypeOK, OneScan, ScansInOrder, Unstopped
<1>3. MonitorsReachable'
  BY <1>1 DEF IInv, MonitorsReachable
<1>4. HeldMonitorsRun' /\ ProjectsInOrder'
  BY <1>1 DEF HeldMonitorsRun, ProjectsInOrder, Unstopped
<1> QED BY <1>2, <1>3, <1>4 DEF IInv

\* The service comes up with no monitor, and is given up when it stops.
LEMMA ServiceIInv ==
  ASSUME IInv, Stop \/ \E c \in Calls : Start(c)
  PROVE  IInv'
<1>1. /\ UNCHANGED <<scans, inFlight, found, recent, projects, held, monitor>>
      /\ Unstopped' => Unstopped
  BY DEF Stop, Start, callVars, monitorVars, envVars, Unstopped
<1> QED BY <1>1 DEF IInv, SetTypeOK, OneScan, ScansInOrder, HeldMonitorsRun,
                    ProjectsInOrder, MonitorsReachable

-----------------------------------------------------------------------------

\* Every step keeps the invariant.
LEMMA NextIInv == IInv /\ [Next]_vars => IInv'
<1> SUFFICES ASSUME IInv, [Next]_vars PROVE IInv'
  OBVIOUS
<1>1. CASE UNCHANGED vars
  <2>1. UNCHANGED setVars
    BY <1>1 DEF vars, callVars, monitorVars, envVars, setVars
  <2> QED BY <2>1, Stutter
<1>2. ASSUME NEW r \in Roots, WorldChanges(r) PROVE IInv'
  BY <1>2, Stutter DEF WorldChanges, callVars, monitorVars, setVars
<1>3. CASE TimePasses
  BY <1>3, Stutter DEF TimePasses, monitorVars, envVars, setVars
<1>4. ASSUME NEW c \in Calls, Start(c) \/ Request(c) \/ Proceed(c) PROVE IInv'
  <2>1. CASE Start(c)
    BY <2>1, ServiceIInv
  <2>2. CASE Request(c)
    BY <2>2, Stutter DEF Request, monitorVars, envVars, setVars
  <2>3. CASE Ensure(c)
    BY <2>3, EnsureIInv
  <2>4. CASE WorkEnds(c) \/ WorkFails(c) \/ Collect(c) \/ Publish(c)
    <3>1. UNCHANGED setVars
      BY <2>4 DEF WorkEnds, WorkFails, Collect, Publish, monitorVars, envVars,
                  setVars
    <3> QED BY <3>1, Stutter
  <2> QED BY <1>4, <2>1, <2>2, <2>3, <2>4 DEF Proceed
<1>5. ASSUME NEW c \in Calls, NEW r \in Roots, MonitorEmits(c, r) PROVE IInv'
  BY <1>5, Stutter DEF MonitorEmits, envVars, setVars
<1>6. ASSUME NEW s \in scans, Scan(s) PROVE IInv'
  BY <1>6, DiscoveredIInv, StartedIInv, ScanEndsIInv, StopLeavingIInv, ForgetIInv
     DEF Scan
<1>7. ASSUME NEW r \in Roots, MonitorStops(r) PROVE IInv'
  BY <1>7, MonitorStopsIInv
<1>8. ASSUME NEW b \in Clients, RegisterSse(b) \/ Disconnect(b) PROVE IInv'
  BY <1>8, Stutter
     DEF RegisterSse, Disconnect, callVars, monitorVars, envVars, setVars
<1>9. CASE Stop
  BY <1>9, ServiceIInv
<1>10. CASE Stopping
  BY <1>10, StoppedIInv, StopNextIInv DEF Stopping
<1> QED BY <1>1, <1>2, <1>3, <1>4, <1>5, <1>6, <1>7, <1>8, <1>9, <1>10 DEF Next

\* The invariant holds in every reachable state.
THEOREM Invariant == Spec => []IInv
<1>1. Safety => []IInv
  BY InitIInv, NextIInv, PTL DEF Safety
<1> QED BY <1>1, PTL DEF Spec

\* However calls join, force and interleave refreshes of the project set, each
\* project of the service has a running monitor in the map, but for the one that
\* the refresh at work is taking off; and whatever they and stop() do in whichever
\* order, a monitor that has yet to stop is in the map.
THEOREM MonitorsAlwaysKept == Spec => []MonitorsAreKept
<1>1. IInv => MonitorsReachable
  BY DEF IInv
<1>2. IInv => ProjectsHaveMonitors
  BY DEF IInv, ProjectsInOrder, ProjectsHaveMonitors, Unstopped
<1>3. IInv => MonitorsAreKept
  BY <1>1, <1>2 DEF MonitorsAreKept
<1> QED BY <1>3, Invariant, PTL

-----------------------------------------------------------------------------
(* The calls and the browsers.                                             *)

\* A call that waits for a refresh of the project set waits for the one in
\* progress, which will let it go on.
WaitersAreExpected ==
  /\ inFlight # NoCall => \E s \in scans : s.of = inFlight
  /\ \A c \in Calls : call[c].stage = "waiting" =>
       \E s \in scans : s.of = call[c].on

\* The whole invariant.
ServiceInv == TypeOK /\ IInv /\ WaitersAreExpected /\ ClientsHaveTheFleet

\* The service begins with no call and no browser.
LEMMA InitService == Init => ServiceInv
<1> SUFFICES ASSUME Init PROVE ServiceInv
  OBVIOUS
<1>1. Blank \in Versions /\ [r \in Roots |-> 1] \in Versions
  BY FleetBoundsAssumption DEF Blank, Versions
<1>2. Idle \in CallStates
  BY <1>1 DEF Idle, CallStates
<1>3. TypeOK
  BY <1>1, <1>2, FleetBoundsAssumption DEF Init, TypeOK
<1>4. WaitersAreExpected /\ ClientsHaveTheFleet
  BY DEF Init, WaitersAreExpected, ClientsHaveTheFleet, Idle
<1> QED BY <1>3, <1>4, InitIInv DEF ServiceInv

\* What a call that begins, or changes one of its own fields, is.
LEMMA BeginsWell ==
  ASSUME TypeOK, NEW c \in Calls, NEW stage \in {"ensure", "work"},
         NEW force \in BOOLEAN, NEW work \in BOOLEAN, Begin(c, stage, force, work)
  PROVE  /\ call' \in [Calls -> CallStates]
         /\ call'[c].stage # "waiting"
         /\ \A d \in Calls : d # c => call'[d] = call[d]
<1>1. Blank \in Versions
  BY FleetBoundsAssumption DEF Blank, Versions
<1>2. Idle \in CallStates
  BY <1>1 DEF Idle, CallStates
<1>3. /\ [Idle EXCEPT !.stage = stage, !.force = force, !.work = work] \in CallStates
      /\ [Idle EXCEPT !.stage = stage, !.force = force, !.work = work].stage = stage
  BY <1>2 DEF CallStates
<1> QED BY <1>3 DEF Begin, TypeOK

\* Steps of the outside and of the service as a whole.
LEMMA OutsideService ==
  ASSUME ServiceInv,
         \/ UNCHANGED vars \/ TimePasses \/ Stop
         \/ \E r \in Roots : WorldChanges(r) \/ MonitorStops(r) \/ StopNext(r)
  PROVE  TypeOK' /\ WaitersAreExpected' /\ ClientsHaveTheFleet'
<1> DEFINE Typed == /\ service' \in {"new", "running", "stopping", "stopped"}
                    /\ visited' \subseteq Roots /\ due' \in BOOLEAN
                    /\ monitor' \in [Roots -> {"none", "running", "stopping", "stopped"}]
                    /\ world' \in Versions
<1>1. UNCHANGED <<call, scans, inFlight, recent, projects, held, snapshot,
                  fleet, clients, shown, found, moves>>
  BY DEF TimePasses, Stop, WorldChanges, MonitorStops, StopNext, vars, callVars,
         monitorVars, browserVars, envVars
<1>2. Typed
  <2>1. CASE UNCHANGED vars \/ TimePasses \/ Stop
    BY <2>1 DEF TimePasses, Stop, vars, callVars, monitorVars, envVars,
       ServiceInv, TypeOK
  <2>2. ASSUME NEW r \in Roots, WorldChanges(r)
        PROVE  Typed
    <3>1. world' \in Versions
      BY <2>2, FleetBoundsAssumption DEF WorldChanges, ServiceInv, TypeOK, Versions
    <3> QED BY <2>2, <3>1 DEF WorldChanges, callVars, monitorVars, ServiceInv, TypeOK
  <2>3. ASSUME NEW r \in Roots, MonitorStops(r) \/ StopNext(r)
        PROVE  Typed
    BY <2>3 DEF MonitorStops, StopNext, StopMonitor, callVars, envVars,
       ServiceInv, TypeOK
  <2> QED BY <2>1, <2>2, <2>3
<1>3. TypeOK'
  BY <1>1, <1>2 DEF ServiceInv, TypeOK
<1> QED BY <1>1, <1>3 DEF ServiceInv, WaitersAreExpected, ClientsHaveTheFleet

\* Calls that begin.
LEMMA BeginningService ==
  ASSUME ServiceInv, NEW c \in Calls,
         Start(c) \/ Request(c) \/ \E r \in Roots : MonitorEmits(c, r)
  PROVE  TypeOK' /\ WaitersAreExpected' /\ ClientsHaveTheFleet'
<1> DEFINE Begun ==
      /\ UNCHANGED <<visited, scans, inFlight, due, recent, projects, held,
                     monitor, fleet, clients, shown, world, found, moves>>
      /\ service' \in {"new", "running", "stopping", "stopped"}
      /\ snapshot' \in Versions
<1>1. Begun
  <2>1. CASE Start(c) \/ Request(c)
    BY <2>1 DEF Start, Request, ServiceInv, TypeOK, monitorVars, browserVars, envVars
  <2>2. ASSUME NEW r \in Roots, MonitorEmits(c, r) PROVE Begun
    <3>1. snapshot' \in Versions
      BY <2>2 DEF MonitorEmits, ServiceInv, TypeOK, Versions
    <3> QED BY <2>2, <3>1 DEF MonitorEmits, ServiceInv, TypeOK, browserVars, envVars
  <2> QED BY <2>1, <2>2
<1>2. PICK stage \in {"ensure", "work"}, force \in BOOLEAN, work \in BOOLEAN :
        Begin(c, stage, force, work)
  BY DEF Start, Request, MonitorEmits
<1>3. /\ call' \in [Calls -> CallStates] /\ call'[c].stage # "waiting"
      /\ \A d \in Calls : d # c => call'[d] = call[d]
  BY <1>2, BeginsWell DEF ServiceInv
<1>4. TypeOK'
  BY <1>1, <1>3 DEF ServiceInv, TypeOK
<1>5. WaitersAreExpected'
  BY <1>1, <1>3 DEF ServiceInv, WaitersAreExpected
<1> QED BY <1>1, <1>4, <1>5 DEF ServiceInv, ClientsHaveTheFleet

\* A call that needs the project set refreshed waits for the refresh it joined
\* or started.
LEMMA EnsureService ==
  ASSUME ServiceInv, NEW c \in Calls, Ensure(c)
  PROVE  TypeOK' /\ WaitersAreExpected' /\ ClientsHaveTheFleet'
<1>1. UNCHANGED <<service, visited, due, recent, projects, held, monitor, snapshot,
                  fleet, clients, shown, world, found, moves>>
  BY DEF Ensure, monitorVars, browserVars, envVars
<1>2. /\ call \in [Calls -> CallStates] /\ call[c] \in CallStates
      /\ scans \subseteq Scans /\ inFlight \in Calls \cup {NoCall}
  BY DEF ServiceInv, TypeOK
<1>3. CASE ~due /\ ~call[c].force
  <2>1. UNCHANGED <<scans, inFlight>> /\ call' = [call EXCEPT ![c] = Ensured(@)]
    BY <1>3 DEF Ensure
  <2>2. Ensured(call[c]) \in CallStates /\ Ensured(call[c]).stage # "waiting"
    BY <1>2 DEF Ensured, CallStates
  <2>3. /\ call' \in [Calls -> CallStates] /\ call'[c].stage # "waiting"
        /\ \A d \in Calls : d # c => call'[d] = call[d]
    BY <1>2, <2>1, <2>2
  <2> QED BY <1>1, <2>1, <2>3 DEF ServiceInv, TypeOK, WaitersAreExpected,
             ClientsHaveTheFleet
<1>4. CASE ~(~due /\ ~call[c].force)
  <2> DEFINE on == IF JoinsScan(c) THEN inFlight ELSE c
  <2>1. /\ call' = [call EXCEPT ![c].stage = "waiting", ![c].on = on]
        /\ inFlight' = on /\ on \in Calls
        /\ scans' = IF JoinsScan(c) THEN scans ELSE scans \cup {NewScan(c)}
    BY <1>2, <1>4 DEF Ensure, JoinsScan
  <2>2. scans' \subseteq Scans
    BY <1>2, <2>1 DEF NewScan, Scans
  <2>3. \E s \in scans' : s.of = on
    <3>1. CASE JoinsScan(c)
      <4>1. scans' = scans /\ on = inFlight /\ inFlight # NoCall
        BY <2>1, <3>1 DEF JoinsScan
      <4> HIDE DEF on
      <4> QED BY <4>1 DEF ServiceInv, WaitersAreExpected
    <3>2. CASE ~JoinsScan(c)
      <4>1. NewScan(c) \in scans' /\ on = c
        BY <2>1, <3>2
      <4>2. NewScan(c).of = c
        BY DEF NewScan
      <4> QED BY <4>1, <4>2
    <3> QED BY <3>1, <3>2
  <2>4. \A s \in scans : s \in scans'
    BY <2>1
  <2> HIDE DEF on
  <2>5. /\ call' \in [Calls -> CallStates] /\ call'[c].on = on
        /\ \A d \in Calls : d # c => call'[d] = call[d]
    BY <1>2, <2>1 DEF CallStates
  <2>6. TypeOK'
    BY <1>1, <2>1, <2>2, <2>5 DEF ServiceInv, TypeOK
  <2>7. WaitersAreExpected'
    BY <2>1, <2>3, <2>4, <2>5 DEF ServiceInv, WaitersAreExpected
  <2> QED BY <1>1, <2>6, <2>7 DEF ServiceInv, ClientsHaveTheFleet
<1> QED BY <1>3, <1>4

\* Calls that go on without the project set.
LEMMA CallGoesOnService ==
  ASSUME ServiceInv, NEW c \in Calls, WorkEnds(c) \/ WorkFails(c) \/ Collect(c)
  PROVE  TypeOK' /\ WaitersAreExpected' /\ ClientsHaveTheFleet'
<1>1. UNCHANGED <<service, visited, scans, inFlight, due, recent, projects, held,
                  monitor, snapshot, fleet, clients, shown, world, found, moves>>
  BY DEF WorkEnds, WorkFails, Collect, monitorVars, browserVars, envVars
<1>2. Snapshots \in Versions /\ Idle \in CallStates
  BY FleetBoundsAssumption DEF Snapshots, Idle, Blank, CallStates, Versions,
     ServiceInv, TypeOK
<1>3. /\ call' \in [Calls -> CallStates] /\ call'[c].stage # "waiting"
      /\ \A d \in Calls : d # c => call'[d] = call[d]
  <2>1. call[c] \in CallStates
    BY DEF ServiceInv, TypeOK
  <2>2. PICK new \in CallStates :
          call' = [call EXCEPT ![c] = new] /\ new.stage # "waiting"
    <3>1. CASE WorkEnds(c)
      <4> DEFINE new == [call[c] EXCEPT !.stage = "ensure", !.work = FALSE,
                                        !.force = FALSE]
      <4>1. new \in CallStates /\ new.stage # "waiting"
        BY <2>1 DEF CallStates
      <4>2. call' = [call EXCEPT ![c] = new]
        BY <3>1 DEF WorkEnds, ServiceInv, TypeOK
      <4> QED BY <4>1, <4>2
    <3>2. CASE WorkFails(c)
      BY <1>2, <3>2 DEF WorkFails, Idle
    <3>3. CASE Collect(c)
      <4> DEFINE new == [call[c] EXCEPT !.stage = "roaming", !.view = Snapshots]
      <4>1. new \in CallStates /\ new.stage # "waiting"
        BY <1>2, <2>1 DEF CallStates
      <4>2. call' = [call EXCEPT ![c] = new]
        BY <3>3 DEF Collect, ServiceInv, TypeOK
      <4> QED BY <4>1, <4>2
    <3> QED BY <3>1, <3>2, <3>3
  <2> QED BY <2>2 DEF ServiceInv, TypeOK
<1> QED BY <1>1, <1>3 DEF ServiceInv, TypeOK, WaitersAreExpected, ClientsHaveTheFleet

\* A publication reaches every browser that is connected.
LEMMA PublishService ==
  ASSUME ServiceInv, NEW c \in Calls, Publish(c)
  PROVE  TypeOK' /\ WaitersAreExpected' /\ ClientsHaveTheFleet'
<1>1. UNCHANGED <<service, visited, scans, inFlight, due, recent, projects, held,
                  monitor, snapshot, clients, world, found, moves>>
  BY DEF Publish, monitorVars, envVars
<1>2. Idle \in CallStates /\ Idle.stage # "waiting"
  BY FleetBoundsAssumption DEF Idle, Blank, CallStates, Versions
<1>3. /\ call' \in [Calls -> CallStates] /\ call'[c].stage # "waiting"
      /\ \A d \in Calls : d # c => call'[d] = call[d]
  BY <1>2 DEF Publish, ServiceInv, TypeOK
<1>4. fleet' \in Versions
  BY FleetBoundsAssumption DEF Publish, ServiceInv, TypeOK, CallStates, Versions
<1>5. /\ shown' \in [Clients -> Versions]
      /\ \A b \in clients : shown'[b] = fleet'
  BY <1>4 DEF Publish, ServiceInv, TypeOK
<1>6. TypeOK'
  BY <1>1, <1>3, <1>4, <1>5 DEF ServiceInv, TypeOK
<1>7. WaitersAreExpected'
  BY <1>1, <1>3 DEF ServiceInv, WaitersAreExpected
<1> QED BY <1>1, <1>5, <1>6, <1>7 DEF ClientsHaveTheFleet

\* A refresh of the project set that goes on is still the one that is waited
\* for.
LEMMA ScanAdvances ==
  ASSUME ServiceInv, NEW s \in scans, NEW new \in Scans, new.of = s.of,
         Advance(s, new), UNCHANGED <<call, inFlight>>
  PROVE  scans' \subseteq Scans /\ WaitersAreExpected'
<1>1. scans' = (scans \ {s}) \cup {new} /\ scans \subseteq Scans
  BY DEF Advance, ServiceInv, TypeOK
<1>2. \A t \in scans : \E u \in scans' : u.of = t.of
  BY <1>1
<1> QED BY <1>1, <1>2 DEF ServiceInv, WaitersAreExpected

LEMMA ScanGoesOnService ==
  ASSUME ServiceInv, NEW s \in scans,
         \/ Discovered(s) \/ Started(s)
         \/ \E r \in Roots : StopLeaving(s, r) \/ Forget(s, r)
  PROVE  TypeOK' /\ WaitersAreExpected' /\ ClientsHaveTheFleet'
<1>1. s \in Scans
  BY DEF ServiceInv, TypeOK
<1>2. UNCHANGED <<service, call, inFlight, due, projects, fleet, clients, shown, world>>
  BY DEF Discovered, Started, StopLeaving, Forget, browserVars, envVars, monitorVars
<1> DEFINE Typed == /\ visited' \subseteq Roots
                    /\ recent' \subseteq Roots /\ held' \subseteq Roots
                    /\ monitor' \in [Roots -> {"none", "running", "stopping", "stopped"}]
                    /\ snapshot' \in Versions
                    /\ found' \subseteq Roots /\ moves' \in 0..MaxMoves
<1>3. Typed /\ \E new \in Scans : new.of = s.of /\ Advance(s, new)
  <2>1. CASE Discovered(s)
    <3>1. PICK kept \in SUBSET (recent \ found') :
            LET next == found' \cup kept
                new == next \ held
            IN /\ recent' = next
               /\ held' = held \cup new /\ visited' = visited \ new
               /\ monitor' = [r \in Roots |->
                                IF r \in new THEN "running" ELSE monitor[r]]
               /\ snapshot' = [r \in Roots |->
                                 IF r \in new THEN 0 ELSE snapshot[r]]
               /\ Advance(s, [s EXCEPT !.stage = "starting", !.roots = next])
      BY <2>1 DEF Discovered
    <3>2. found' \subseteq Roots /\ moves' \in 0..MaxMoves
      <4>1. found' \subseteq Roots /\ moves' <= MaxMoves
        BY <2>1 DEF Discovered
      <4>2. moves' = moves \/ moves' = moves + 1
        BY <2>1 DEF Discovered
      <4>3. moves \in 0..MaxMoves
        BY DEF ServiceInv, TypeOK
      <4> QED BY <4>1, <4>2, <4>3, FleetBoundsAssumption
    <3>3. snapshot' \in Versions
      BY <3>1, FleetBoundsAssumption DEF ServiceInv, TypeOK, Versions
    <3>4. Typed
      BY <3>1, <3>2, <3>3 DEF ServiceInv, TypeOK
    <3> DEFINE new == [s EXCEPT !.stage = "starting", !.roots = found' \cup kept]
    <3>5. new \in Scans /\ new.of = s.of
      BY <1>1, <3>1, <3>2 DEF Scans, ServiceInv, TypeOK
    <3> QED BY <3>1, <3>4, <3>5
  <2>2. CASE Started(s)
    <3> DEFINE new == [s EXCEPT !.stage = "leaving", !.leaving = held \ s.roots]
    <3>1. new \in Scans /\ new.of = s.of
      BY <1>1 DEF Scans, ServiceInv, TypeOK
    <3> QED BY <2>2, <3>1 DEF Started, ServiceInv, TypeOK, monitorVars, envVars
  <2>3. ASSUME NEW r \in Roots, StopLeaving(s, r)
        PROVE  Typed /\ \E new \in Scans : new.of = s.of /\ Advance(s, new)
    <3> DEFINE new == [s EXCEPT !.stops = {r}]
    <3>1. new \in Scans /\ new.of = s.of
      BY <1>1 DEF Scans
    <3> QED BY <2>3, <3>1 DEF StopLeaving, StopMonitor, ServiceInv, TypeOK, envVars
  <2>4. ASSUME NEW r \in Roots, Forget(s, r)
        PROVE  Typed /\ \E new \in Scans : new.of = s.of /\ Advance(s, new)
    <3> DEFINE new == [s EXCEPT !.leaving = @ \ {r}, !.stops = {}]
    <3>1. new \in Scans /\ new.of = s.of
      BY <1>1 DEF Scans
    <3> QED BY <2>4, <3>1 DEF Forget, ServiceInv, TypeOK, envVars
  <2> QED BY <2>1, <2>2, <2>3, <2>4
<1>4. scans' \subseteq Scans /\ WaitersAreExpected'
  BY <1>2, <1>3, ScanAdvances
<1>5. TypeOK'
  BY <1>2, <1>3, <1>4 DEF ServiceInv, TypeOK
<1> QED BY <1>2, <1>4, <1>5 DEF ServiceInv, ClientsHaveTheFleet

\* A refresh that ends lets go whoever waits for it, and nobody waits for
\* another: there was only the one.
LEMMA ScanEndsService ==
  ASSUME ServiceInv, NEW s \in scans, ScanEnds(s)
  PROVE  TypeOK' /\ WaitersAreExpected' /\ ClientsHaveTheFleet'
<1>1. UNCHANGED <<service, visited, recent, held, monitor, snapshot, fleet,
                  clients, shown, world, found, moves>>
  BY DEF ScanEnds, browserVars, envVars
<1>2. /\ s.of = inFlight /\ \A t \in scans : t = s
      /\ s \in Scans /\ call \in [Calls -> CallStates]
  BY DEF ServiceInv, TypeOK, IInv, OneScan
<1>3. /\ scans' = {} /\ inFlight' = NoCall /\ projects' = s.roots /\ due' = FALSE
      /\ call' = [c \in Calls |-> IF call[c].stage = "waiting" /\ call[c].on = s.of
                                  THEN Ensured(call[c]) ELSE call[c]]
  BY <1>2 DEF ScanEnds
<1>4. \A c \in Calls : call[c] \in CallStates /\ Ensured(call[c]) \in CallStates
                       /\ Ensured(call[c]).stage # "waiting"
  BY <1>2 DEF Ensured, CallStates
<1>5. \A c \in Calls : call[c].stage = "waiting" => call[c].on = s.of
  BY <1>2 DEF ServiceInv, WaitersAreExpected
<1>6. call' \in [Calls -> CallStates] /\ \A c \in Calls : call'[c].stage # "waiting"
  BY <1>3, <1>4, <1>5
<1>7. TypeOK'
  BY <1>1, <1>2, <1>3, <1>6 DEF ServiceInv, TypeOK, Scans
<1>8. WaitersAreExpected'
  BY <1>3, <1>6 DEF WaitersAreExpected
<1> QED BY <1>1, <1>7, <1>8 DEF ServiceInv, ClientsHaveTheFleet

\* A browser that connects is given the fleet there is; stop() ends them all.
LEMMA BrowserService ==
  ASSUME ServiceInv,
         Stopped \/ \E b \in Clients : RegisterSse(b) \/ Disconnect(b)
  PROVE  TypeOK' /\ WaitersAreExpected' /\ ClientsHaveTheFleet'
<1>1. /\ UNCHANGED <<visited, call, scans, inFlight, due, recent, projects,
                     monitor, snapshot, fleet, world, found, moves>>
      /\ service' \in {service, "stopped"} /\ held' \in {held, {}}
  BY DEF Stopped, RegisterSse, Disconnect, callVars, monitorVars, envVars
<1>2. Blank \in Versions
  BY FleetBoundsAssumption DEF Blank, Versions
<1> DEFINE Told == /\ clients' \subseteq Clients /\ shown' \in [Clients -> Versions]
                   /\ ClientsHaveTheFleet'
<1>3. Told
  <2>1. CASE Stopped
    BY <1>2, <2>1 DEF Stopped, ClientsHaveTheFleet
  <2>2. ASSUME NEW b \in Clients, RegisterSse(b)
        PROVE  Told
    BY <2>2 DEF RegisterSse, ServiceInv, TypeOK, ClientsHaveTheFleet
  <2>3. ASSUME NEW b \in Clients, Disconnect(b)
        PROVE  Told
    BY <1>2, <2>3 DEF Disconnect, ServiceInv, TypeOK, ClientsHaveTheFleet
  <2> QED BY <2>1, <2>2, <2>3
<1>4. TypeOK'
  BY <1>1, <1>3 DEF ServiceInv, TypeOK
<1> QED BY <1>1, <1>3, <1>4 DEF ServiceInv, WaitersAreExpected

\* Every step keeps the whole invariant.
LEMMA NextService == ServiceInv /\ [Next]_vars => ServiceInv'
<1> SUFFICES ASSUME ServiceInv, [Next]_vars PROVE ServiceInv'
  OBVIOUS
<1>1. IInv'
  BY NextIInv DEF ServiceInv
<1>2. TypeOK' /\ WaitersAreExpected' /\ ClientsHaveTheFleet'
  <2>1. CASE \/ UNCHANGED vars \/ TimePasses \/ Stop
             \/ \E r \in Roots : WorldChanges(r) \/ MonitorStops(r) \/ StopNext(r)
    BY <2>1, OutsideService
  <2>2. CASE \E c \in Calls : \/ Start(c) \/ Request(c)
                              \/ \E r \in Roots : MonitorEmits(c, r)
    BY <2>2, BeginningService
  <2>3. CASE \E c \in Calls : Proceed(c)
    BY <2>3, EnsureService, CallGoesOnService, PublishService DEF Proceed
  <2>4. CASE \E s \in scans : Scan(s)
    BY <2>4, ScanGoesOnService, ScanEndsService DEF Scan
  <2>5. CASE Stopped \/ \E b \in Clients : RegisterSse(b) \/ Disconnect(b)
    BY <2>5, BrowserService
  <2> QED BY <2>1, <2>2, <2>3, <2>4, <2>5 DEF Next, Stopping
<1> QED BY <1>1, <1>2 DEF ServiceInv

\* The whole invariant always holds.
THEOREM ServiceInvariant == Spec => []ServiceInv
<1>1. Safety => []ServiceInv
  BY InitService, NextService, PTL DEF Safety
<1> QED BY <1>1, PTL DEF Spec

\* The variables keep their types.
THEOREM TypeCorrect == Spec => []TypeOK
BY ServiceInvariant, PTL DEF ServiceInv

\* Whenever a browser connects, and however publications and disconnections
\* interleave, each connected browser shows the fleet the server last published.
THEOREM ClientsAlwaysHaveTheFleet == Spec => []ClientsHaveTheFleet
BY ServiceInvariant, PTL DEF ServiceInv

\* No call waits for a refresh of the project set that is over: the refresh it
\* joined is in progress, whatever was forced, joined or stopped meanwhile.
THEOREM WaitersAreAlwaysExpected == Spec => []WaitersAreExpected
BY ServiceInvariant, PTL DEF ServiceInv

-----------------------------------------------------------------------------
(* OfficeScene: the inductive invariant.                                   *)

SceneRenderers ==
  [floor : Floors, host : Nat, at : {"starting", "ready", "given up", "failed"},
   destroyed : BOOLEAN, shows : Nat]
SceneSyncs ==
  [at : {"idle", "next", "ensuring", "loading"}, given : [Floors -> Nat],
   todo : SUBSET (Floors \X Nat), host : {<<>>} \cup (Floors \X Nat), on : Nat, sound : BOOLEAN]

SceneTypeOK ==
  /\ hosts \in [Floors -> Nat] /\ shells \in Nat
  /\ newest \in [Floors -> Nat \ {0}] /\ latest \in [Floors -> Nat]
  /\ registry \in [Floors -> Nat] /\ renderers \in Seq(SceneRenderers)
  /\ sync \in [Syncs -> SceneSyncs]

\* A floor's entry is one of its renderers.
RegistryInOrder ==
  \A f \in Floors : registry[f] # 0 =>
    registry[f] \in DOMAIN renderers /\ renderers[registry[f]].floor = f

\* Who does not start has been destroyed.
GivenUpAreDestroyed ==
  \A r \in DOMAIN renderers : renderers[r].at \in {"given up", "failed"} => renderers[r].destroyed

\* Of a registered renderer that cannot be used, a call waits for, who will
\* take it out of the register.
Waited(r) == \E k \in Syncs : sync[k].at = "ensuring" /\ sync[k].on = r
UselessAreWaited ==
  \A f \in Floors : registry[f] # 0 /\ ~Usable(registry[f]) => Waited(registry[f])

\* What a call waits for and draws is a renderer of its host.
Busy(k) == sync[k].at \in {"ensuring", "loading"}
SyncsInOrder ==
  \A k \in Syncs : Busy(k) =>
    /\ sync[k].on \in DOMAIN renderers /\ sync[k].host \in Floors \X Nat
    /\ renderers[sync[k].on].floor = sync[k].host[1]
    /\ renderers[sync[k].on].host = sync[k].host[2]

\* The list that a resize draws again is the newest, where there is a host.
LatestIsNewest == \A f \in Floors : hosts[f] # 0 => latest[f] = newest[f]

\* A sound call is alone, has what is newest and the hosts in the document, and
\* what it waits for stays registered.
SoundInOrder(k) ==
  /\ \A j \in Syncs \ {k} : sync[j].at = "idle"
  /\ \A f \in Floors : hosts[f] # 0 => sync[k].given[f] = newest[f]
  /\ \A h \in sync[k].todo : h[2] = hosts[h[1]] /\ h[2] # 0
  /\ Busy(k) => /\ sync[k].host[2] = hosts[sync[k].host[1]] /\ sync[k].host[2] # 0
                /\ registry[sync[k].host[1]] = sync[k].on
                /\ ~renderers[sync[k].on].destroyed
  /\ sync[k].at = "loading" => renderers[sync[k].on].at = "ready"

SoundAreInOrder == \A k \in Syncs : sync[k].sound => SoundInOrder(k)

\* FloorsAreRepaired, of one call.
Repaired(k) ==
  \A f \in Floors :
    \/ hosts[f] = 0 \/ <<f, hosts[f]>> \in sync[k].todo
    \/ sync[k].at \in {"ensuring", "loading"} /\ sync[k].host = <<f, hosts[f]>>
    \/ DrawnNew(f, newest[f])

SceneInv ==
  /\ SceneTypeOK
  /\ RegistryInOrder /\ RenderersAreRegistered /\ GivenUpAreDestroyed /\ UselessAreWaited
  /\ SyncsInOrder /\ LatestIsNewest /\ SoundAreInOrder /\ FloorsAreRepaired

-----------------------------------------------------------------------------
(* OfficeScene: what the steps do.                                         *)

LEMMA RendererTyped ==
  ASSUME SceneTypeOK, NEW r \in DOMAIN renderers
  PROVE  /\ renderers[r] \in SceneRenderers /\ r \in Nat \ {0}
         /\ renderers[r].floor \in Floors /\ renderers[r].host \in Nat
         /\ renderers[r].at \in {"starting", "ready", "given up", "failed"}
         /\ renderers[r].destroyed \in BOOLEAN /\ renderers[r].shows \in Nat
<1>1. renderers \in Seq(SceneRenderers)
  BY DEF SceneTypeOK
<1>2. renderers[r] \in SceneRenderers /\ r \in Nat \ {0}
  BY <1>1
<1> QED
  BY <1>2 DEF SceneRenderers

LEMMA SyncTyped ==
  ASSUME SceneTypeOK, NEW k \in Syncs
  PROVE  /\ sync[k] \in SceneSyncs
         /\ sync[k].at \in {"idle", "next", "ensuring", "loading"}
         /\ sync[k].given \in [Floors -> Nat] /\ sync[k].todo \in SUBSET (Floors \X Nat)
         /\ sync[k].host \in {<<>>} \cup (Floors \X Nat) /\ sync[k].on \in Nat
         /\ sync[k].sound \in BOOLEAN
BY DEF SceneTypeOK, SceneSyncs

LEMMA DisturbedIs ==
  ASSUME SceneTypeOK, NEW k \in Syncs
  PROVE  /\ Disturbed(k) \in SceneSyncs /\ ~ Disturbed(k).sound
         /\ Disturbed(k).at = sync[k].at /\ Disturbed(k).given = sync[k].given
         /\ Disturbed(k).todo = sync[k].todo
         /\ Disturbed(k).host = sync[k].host /\ Disturbed(k).on = sync[k].on
BY DEF SceneTypeOK, SceneSyncs, Disturbed

\* destroyOfficeRenderer() of some.
DestroysOnly(rs, D) ==
  /\ rs \in Seq(SceneRenderers) /\ Len(rs) = Len(renderers) /\ DOMAIN rs = DOMAIN renderers
  /\ \A r \in DOMAIN renderers :
       /\ rs[r].floor = renderers[r].floor /\ rs[r].host = renderers[r].host
       /\ rs[r].at = renderers[r].at /\ rs[r].shows = renderers[r].shows
       /\ rs[r].destroyed <=> (r \in D \/ renderers[r].destroyed)

LEMMA DestroyedIs ==
  ASSUME SceneTypeOK, NEW D
  PROVE  DestroysOnly(Destroyed(renderers, D), D)
<1> DEFINE rs == Destroyed(renderers, D)
<1>1. renderers \in Seq(SceneRenderers) /\ DOMAIN renderers = 1..Len(renderers) /\ Len(renderers) \in Nat
  BY DEF SceneTypeOK
<1>2. rs = [r \in 1..Len(renderers) |->
              IF r \in D THEN [renderers[r] EXCEPT !.destroyed = TRUE] ELSE renderers[r]]
  BY <1>1 DEF Destroyed
<1>3. ASSUME NEW r \in 1..Len(renderers)
      PROVE  /\ rs[r] \in SceneRenderers
             /\ rs[r].floor = renderers[r].floor /\ rs[r].host = renderers[r].host
             /\ rs[r].at = renderers[r].at /\ rs[r].shows = renderers[r].shows
             /\ rs[r].destroyed <=> (r \in D \/ renderers[r].destroyed)
  <2>1. renderers[r] \in SceneRenderers
    BY <1>1
  <2>2. rs[r] = IF r \in D THEN [renderers[r] EXCEPT !.destroyed = TRUE] ELSE renderers[r]
    BY <1>2
  <2> HIDE DEF rs
  <2> QED
    BY <2>1, <2>2 DEF SceneRenderers
<1>4. rs \in [1..Len(renderers) -> SceneRenderers]
  BY <1>2, <1>3
<1>5. rs \in Seq(SceneRenderers) /\ Len(rs) = Len(renderers) /\ DOMAIN rs = DOMAIN renderers
  <2> HIDE DEF rs
  <2> QED
    BY <1>1, <1>4
<1> QED
  BY <1>1, <1>3, <1>5 DEF DestroysOnly

\* cleanupOfficeRenderers(): who loses a place in the register is destroyed.
LEMMA CleanupIs ==
  ASSUME SceneTypeOK, RegistryInOrder, NEW doc \in [Floors -> Nat], Cleanup(doc)
  PROVE  /\ DestroysOnly(renderers', {registry[f] : f \in Stray(doc)})
         /\ registry' \in [Floors -> Nat]
         /\ \A f \in Floors : registry'[f] = IF f \in Stray(doc) THEN 0 ELSE registry[f]
<1>1. registry \in [Floors -> Nat]
  BY DEF SceneTypeOK
<1> QED
  BY <1>1, DestroyedIs DEF Cleanup

\* The register after a cleanup.
RegisterInv == RegistryInOrder /\ RenderersAreRegistered /\ GivenUpAreDestroyed

LEMMA CleanupKeeps ==
  ASSUME SceneTypeOK, RegisterInv, NEW doc \in [Floors -> Nat], Cleanup(doc)
  PROVE  /\ RegisterInv'
         /\ \A f \in Floors : registry'[f] # 0 => registry'[f] = registry[f]
                                                  /\ renderers'[registry[f]] = renderers[registry[f]]
<1>1. /\ DestroysOnly(renderers', {registry[f] : f \in Stray(doc)})
      /\ registry' \in [Floors -> Nat]
      /\ \A f \in Floors : registry'[f] = IF f \in Stray(doc) THEN 0 ELSE registry[f]
  BY CleanupIs DEF RegisterInv
<1>2. Stray(doc) \subseteq Floors
  BY DEF Stray
<1>3. ASSUME NEW f \in Floors, registry'[f] # 0
      PROVE  registry'[f] = registry[f] /\ renderers'[registry[f]] = renderers[registry[f]]
             /\ registry[f] \in DOMAIN renderers /\ renderers[registry[f]].floor = f
  <2>1. f \notin Stray(doc) /\ registry'[f] = registry[f]
    BY <1>1, <1>3
  <2>2. registry[f] \in DOMAIN renderers /\ renderers[registry[f]].floor = f
    BY <1>3, <2>1 DEF RegisterInv, RegistryInOrder
  <2>3. registry[f] \notin {registry[g] : g \in Stray(doc)}
    <3> SUFFICES ASSUME NEW g \in Stray(doc), registry[g] = registry[f] PROVE FALSE
      OBVIOUS
    <3>1. g \in Floors /\ registry[g] # 0
      BY <1>2, <1>3, <2>1
    <3>2. renderers[registry[g]].floor = g
      BY <3>1 DEF RegisterInv, RegistryInOrder
    <3> QED
      BY <2>1, <2>2, <3>2
  <2>4. renderers'[registry[f]] \in SceneRenderers /\ renderers[registry[f]] \in SceneRenderers
    <3>1. renderers' \in Seq(SceneRenderers) /\ registry[f] \in DOMAIN renderers'
      BY <1>1, <2>2 DEF DestroysOnly
    <3>2. renderers'[registry[f]] \in SceneRenderers
      BY <3>1
    <3>3. renderers[registry[f]] \in SceneRenderers
      BY <2>2, RendererTyped
    <3> QED
      BY <3>2, <3>3
  <2>5. /\ renderers'[registry[f]].floor = renderers[registry[f]].floor
        /\ renderers'[registry[f]].host = renderers[registry[f]].host
        /\ renderers'[registry[f]].at = renderers[registry[f]].at
        /\ renderers'[registry[f]].shows = renderers[registry[f]].shows
        /\ renderers'[registry[f]].destroyed = renderers[registry[f]].destroyed
    <3>1. renderers'[registry[f]].destroyed <=> renderers[registry[f]].destroyed
      BY <1>1, <2>2, <2>3 DEF DestroysOnly
    <3>2. renderers'[registry[f]].destroyed \in BOOLEAN /\ renderers[registry[f]].destroyed \in BOOLEAN
      BY <2>4 DEF SceneRenderers
    <3> QED
      BY <1>1, <2>2, <3>1, <3>2 DEF DestroysOnly
  <2>6. renderers'[registry[f]] = renderers[registry[f]]
    <3> DEFINE a == renderers'[registry[f]]
               b == renderers[registry[f]]
    <3>1. a \in SceneRenderers /\ b \in SceneRenderers /\ a.floor = b.floor /\ a.host = b.host
          /\ a.at = b.at /\ a.shows = b.shows /\ a.destroyed = b.destroyed
      BY <2>4, <2>5
    <3> HIDE DEF a, b
    <3>2. a = [floor |-> a.floor, host |-> a.host, at |-> a.at, destroyed |-> a.destroyed, shows |-> a.shows]
      BY <3>1 DEF SceneRenderers
    <3>3. b = [floor |-> b.floor, host |-> b.host, at |-> b.at, destroyed |-> b.destroyed, shows |-> b.shows]
      BY <3>1 DEF SceneRenderers
    <3>4. a = b
      BY <3>1, <3>2, <3>3
    <3> QED
      BY <3>4 DEF a, b
  <2> QED
    BY <2>1, <2>2, <2>6
<1>4. RegistryInOrder'
  BY <1>1, <1>3 DEF RegistryInOrder, DestroysOnly
<1>5. RenderersAreRegistered'
  <2> SUFFICES ASSUME NEW r \in DOMAIN renderers', ~ renderers'[r].destroyed
               PROVE  registry'[renderers'[r].floor] = r
    BY DEF RenderersAreRegistered
  <2>1. /\ r \in DOMAIN renderers /\ renderers'[r].floor = renderers[r].floor
        /\ r \notin {registry[f] : f \in Stray(doc)} /\ ~ renderers[r].destroyed
    BY <1>1 DEF DestroysOnly
  <2>2. renderers[r].floor \in Floors /\ registry[renderers[r].floor] = r
    BY <2>1, RendererTyped DEF RegisterInv, RenderersAreRegistered
  <2> QED
    BY <1>1, <2>1, <2>2
<1>6. GivenUpAreDestroyed'
  BY <1>1 DEF GivenUpAreDestroyed, DestroysOnly, RegisterInv
<1> QED
  BY <1>3, <1>4, <1>5, <1>6 DEF RegisterInv

\* What waits for a useless renderer, and what a call waits for, survives a
\* cleanup that disturbs the calls.
LEMMA CleanupKeepsCalls ==
  ASSUME SceneInv, NEW doc \in [Floors -> Nat], Cleanup(doc),
         NEW k, k \in Syncs => sync[k].at = "idle",
         \A j \in Syncs \ {k} : sync'[j] = Disturbed(j),
         k \in Syncs => sync'[k].at \in {"idle", "next"}
  PROVE  UselessAreWaited' /\ SyncsInOrder' /\ RegisterInv' /\ registry' \in [Floors -> Nat]
         /\ renderers' \in Seq(SceneRenderers)
<1>1. SceneTypeOK /\ RegisterInv
  BY DEF SceneInv, RegisterInv
<1>2. /\ RegisterInv'
      /\ \A f \in Floors : registry'[f] # 0 => registry'[f] = registry[f]
                                               /\ renderers'[registry[f]] = renderers[registry[f]]
  BY <1>1, CleanupKeeps
<1>3. /\ DestroysOnly(renderers', {registry[f] : f \in Stray(doc)})
      /\ registry' \in [Floors -> Nat]
  BY <1>1, CleanupIs DEF RegisterInv
<1>4. ASSUME NEW j \in Syncs, j # k
      PROVE  /\ sync'[j].at = sync[j].at /\ sync'[j].on = sync[j].on /\ sync'[j].host = sync[j].host
  BY <1>1, <1>4, DisturbedIs
<1>5. UselessAreWaited'
  <2> SUFFICES ASSUME NEW f \in Floors, registry'[f] # 0, ~ (Usable(registry[f])')
               PROVE  \E j \in Syncs : sync'[j].at = "ensuring" /\ sync'[j].on = registry[f]
    BY <1>2 DEF UselessAreWaited, Waited, Usable
  <2>1. registry[f] # 0 /\ ~ Usable(registry[f])
    BY <1>2 DEF Usable
  <2>2. PICK j \in Syncs : sync[j].at = "ensuring" /\ sync[j].on = registry[f]
    BY <2>1 DEF SceneInv, UselessAreWaited, Waited
  <2> QED
    BY <1>4, <2>2
<1>6. SyncsInOrder'
  <2> SUFFICES ASSUME NEW j \in Syncs, sync'[j].at \in {"ensuring", "loading"}
               PROVE  /\ sync'[j].on \in DOMAIN renderers' /\ sync'[j].host \in Floors \X Nat
                      /\ renderers'[sync'[j].on].floor = sync'[j].host[1]
                      /\ renderers'[sync'[j].on].host = sync'[j].host[2]
    BY DEF SyncsInOrder, Busy
  <2>1. /\ sync'[j].at = sync[j].at /\ sync'[j].on = sync[j].on /\ sync'[j].host = sync[j].host
    BY <1>4
  <2>2. /\ sync[j].on \in DOMAIN renderers /\ sync[j].host \in Floors \X Nat
        /\ renderers[sync[j].on].floor = sync[j].host[1]
        /\ renderers[sync[j].on].host = sync[j].host[2]
    BY <2>1 DEF SceneInv, SyncsInOrder, Busy
  <2> QED
    BY <1>3, <2>1, <2>2 DEF DestroysOnly
<1> QED
  BY <1>2, <1>3, <1>5, <1>6 DEF DestroysOnly

LEMMA BeginsKeeps ==
  ASSUME SceneInv, NEW k \in Syncs, NEW given \in [Floors -> Nat], NEW doc \in [Floors -> Nat],
         Begins(k, given, doc), hosts' = doc, shells' \in Nat, newest' \in [Floors -> Nat \ {0}],
         \A f \in Floors : doc[f] # 0 => given[f] = newest'[f]
  PROVE  SceneInv'
<1> DEFINE new == [at |-> "next", given |-> given,
                   todo |-> {<<f, doc[f]>> : f \in {g \in Floors : doc[g] # 0}},
                   host |-> <<>>, on |-> 0, sound |-> \A j \in Syncs \ {k} : sync[j].at = "idle"]
<1>1. SceneTypeOK /\ sync[k].at = "idle" /\ Cleanup(doc) /\ latest' = given
      /\ sync' = [AllDisturbed EXCEPT ![k] = new]
  BY DEF SceneInv, Begins
<1>2. AllDisturbed = [j \in Syncs |-> Disturbed(j)]
  BY DEF AllDisturbed
<1>3. new \in SceneSyncs
  <2>1. {<<f, doc[f]>> : f \in {g \in Floors : doc[g] # 0}} \in SUBSET (Floors \X Nat)
    OBVIOUS
  <2> QED
    BY <2>1 DEF SceneSyncs
<1>4. /\ new.at = "next" /\ new.given = given
      /\ new.todo = {<<f, doc[f]>> : f \in {g \in Floors : doc[g] # 0}}
      /\ new.sound = \A j \in Syncs \ {k} : sync[j].at = "idle"
  OBVIOUS
<1> HIDE DEF new
<1>5. sync'[k] = new /\ \A j \in Syncs \ {k} : sync'[j] = Disturbed(j)
  BY <1>1, <1>2
<1>6. \A j \in Syncs \ {k} : sync'[j] \in SceneSyncs /\ ~ sync'[j].sound /\ sync'[j].at = sync[j].at
  BY <1>1, <1>5, DisturbedIs
<1>7. sync' \in [Syncs -> SceneSyncs]
  <2>1. sync' = [j \in Syncs |-> IF j = k THEN new ELSE Disturbed(j)]
    BY <1>1, <1>2
  <2> QED
    BY <1>3, <1>5, <1>6, <2>1
<1>8. UselessAreWaited' /\ SyncsInOrder' /\ RegisterInv' /\ registry' \in [Floors -> Nat]
      /\ renderers' \in Seq(SceneRenderers)
  BY <1>1, <1>4, <1>5, CleanupKeepsCalls
<1>9. SceneTypeOK'
  BY <1>1, <1>7, <1>8 DEF SceneTypeOK
<1>10. LatestIsNewest'
  BY <1>1 DEF LatestIsNewest
<1>11. ASSUME NEW j \in Syncs, sync'[j].sound
       PROVE  SoundInOrder(j)' /\ \A f \in Floors : \/ hosts'[f] = 0
                                                    \/ <<f, hosts'[f]>> \in sync'[j].todo
  <2>1. j = k
    BY <1>6, <1>11
  <2>2. \A i \in Syncs \ {k} : sync'[i].at = "idle"
    BY <1>4, <1>5, <1>6, <1>11, <2>1
  <2>3. \A h \in new.todo : h[2] = doc[h[1]] /\ h[2] # 0
    BY <1>4
  <2>4. \A f \in Floors : \/ doc[f] = 0 \/ <<f, doc[f]>> \in new.todo
    BY <1>4
  <2>5. sync'[k].at = "next"
    BY <1>4, <1>5
  <2>6. SoundInOrder(k)'
    BY <1>4, <1>5, <2>2, <2>3, <2>5 DEF SoundInOrder, Busy
  <2> QED
    BY <1>5, <2>1, <2>4, <2>6
<1>12. SoundAreInOrder'
  BY <1>11 DEF SoundAreInOrder
<1>13. FloorsAreRepaired'
  BY <1>11 DEF FloorsAreRepaired
<1> QED
  BY <1>8, <1>9, <1>10, <1>12, <1>13 DEF SceneInv, RegisterInv

\* No host is left, and no call is sound.
LEMMA LeavingKeepsScene ==
  ASSUME SceneInv, hosts' = NoProjects, sync' = AllDisturbed, shells' = shells, latest' = latest,
         newest' \in [Floors -> Nat \ {0}],
         Cleanup(hosts) \/ (registry' = registry /\ renderers' = renderers)
  PROVE  SceneInv'
<1>1. SceneTypeOK
  BY DEF SceneInv
<1>2. \A j \in Syncs : sync'[j] = Disturbed(j)
  BY DEF AllDisturbed
<1>3. \A j \in Syncs : sync'[j] \in SceneSyncs /\ ~ sync'[j].sound /\ sync'[j].at = sync[j].at
                       /\ sync'[j].on = sync[j].on /\ sync'[j].host = sync[j].host
  BY <1>1, <1>2, DisturbedIs
<1>4. sync' \in [Syncs -> SceneSyncs]
  BY <1>3 DEF AllDisturbed
<1>5. UselessAreWaited' /\ SyncsInOrder' /\ RegisterInv' /\ registry' \in [Floors -> Nat]
      /\ renderers' \in Seq(SceneRenderers)
  <2>1. CASE Cleanup(hosts)
    <3>1. PICK k : k \notin Syncs
      BY NoSetContainsEverything
    <3>2. hosts \in [Floors -> Nat]
      BY <1>1 DEF SceneTypeOK
    <3> QED
      BY <1>2, <2>1, <3>1, <3>2, CleanupKeepsCalls
  <2>2. CASE registry' = registry /\ renderers' = renderers
    <3>1. UselessAreWaited'
      BY <1>3, <2>2 DEF SceneInv, UselessAreWaited, Waited, Usable
    <3>2. SyncsInOrder'
      BY <1>3, <2>2 DEF SceneInv, SyncsInOrder, Busy
    <3>3. RegisterInv'
      BY <2>2 DEF SceneInv, RegisterInv, RegistryInOrder, RenderersAreRegistered, GivenUpAreDestroyed
    <3> QED
      BY <1>1, <2>2, <3>1, <3>2, <3>3 DEF SceneTypeOK
  <2> QED
    BY <2>1, <2>2
<1>6. hosts' \in [Floors -> Nat] /\ \A f \in Floors : hosts'[f] = 0
  BY DEF NoProjects
<1>7. SceneTypeOK'
  BY <1>1, <1>4, <1>5, <1>6 DEF SceneTypeOK
<1>8. LatestIsNewest' /\ SoundAreInOrder' /\ FloorsAreRepaired'
  BY <1>3, <1>6 DEF LatestIsNewest, SoundAreInOrder, FloorsAreRepaired
<1> QED
  BY <1>5, <1>7, <1>8 DEF SceneInv, RegisterInv

-----------------------------------------------------------------------------
(* OfficeScene: the actions of the page.                                   *)

LEMMA RendersMapKeeps ==
  ASSUME SceneInv, NEW k \in Syncs, NEW S \in SUBSET Floors, NEW changed \in SUBSET Floors,
         NEW anew \in BOOLEAN, RendersMap(k, S, changed, anew)
  PROVE  SceneInv'
<1> DEFINE given == [f \in Floors |-> IF f \in S THEN newest'[f] ELSE 0]
<1>1. /\ hosts \in [Floors -> Nat] /\ shells \in Nat /\ newest \in [Floors -> Nat \ {0}]
  BY DEF SceneInv, SceneTypeOK
<1>2. newest' \in [Floors -> Nat \ {0}]
  <2>1. newest' = [f \in Floors |-> IF f \in changed THEN newest[f] + 1 ELSE newest[f]]
    BY DEF RendersMap
  <2> QED
    BY <1>1, <2>1
<1>3. given \in [Floors -> Nat]
  BY <1>2
<1>4. /\ shells' \in Nat /\ hosts' \in [Floors -> Nat]
      /\ \A f \in Floors : hosts'[f] # 0 => f \in S
  <2>1. /\ shells' = IF ~anew /\ view = "map" /\ S = {f \in Floors : hosts[f] # 0}
                       THEN shells ELSE shells + 1
        /\ hosts' = IF shells' = shells THEN hosts
                                        ELSE [f \in Floors |-> IF f \in S THEN shells + 1 ELSE 0]
    BY DEF RendersMap
  <2>2. CASE ~anew /\ view = "map" /\ S = {f \in Floors : hosts[f] # 0}
    BY <1>1, <2>1, <2>2
  <2>3. CASE ~ (~anew /\ view = "map" /\ S = {f \in Floors : hosts[f] # 0})
    <3>1. shells' = shells + 1 /\ shells' # shells
      BY <1>1, <2>1, <2>3
    <3>2. hosts' = [f \in Floors |-> IF f \in S THEN shells + 1 ELSE 0]
      BY <2>1, <3>1
    <3> QED
      BY <1>1, <3>1, <3>2
  <2> QED
    BY <2>2, <2>3
<1>5. \A f \in Floors : hosts'[f] # 0 => given[f] = newest'[f]
  BY <1>4
<1>6. Begins(k, given, hosts')
  BY DEF RendersMap
<1> HIDE DEF given
<1> QED
  BY <1>2, <1>3, <1>4, <1>5, <1>6, BeginsKeeps

LEMMA SceneStays ==
  ASSUME SceneInv, UNCHANGED <<hosts, shells, newest, latest, registry, renderers, sync>>
  PROVE  SceneInv'
<1>1. /\ hosts' = hosts /\ shells' = shells /\ newest' = newest /\ latest' = latest
      /\ registry' = registry /\ renderers' = renderers /\ sync' = sync
  OBVIOUS
<1>2. SceneTypeOK'
  BY <1>1 DEF SceneInv, SceneTypeOK
<1>3. RegistryInOrder' /\ RenderersAreRegistered' /\ GivenUpAreDestroyed'
  BY <1>1 DEF SceneInv, RegistryInOrder, RenderersAreRegistered, GivenUpAreDestroyed
<1>4. UselessAreWaited'
  BY <1>1 DEF SceneInv, UselessAreWaited, Waited, Usable
<1>5. SyncsInOrder' /\ LatestIsNewest'
  BY <1>1 DEF SceneInv, SyncsInOrder, Busy, LatestIsNewest
<1>6. SoundAreInOrder'
  <2> SUFFICES ASSUME NEW k \in Syncs, sync[k].sound PROVE SoundInOrder(k)'
    BY <1>1 DEF SoundAreInOrder
  <2>1. SoundInOrder(k)
    BY DEF SceneInv, SoundAreInOrder
  <2> QED
    BY <1>1, <2>1 DEF SoundInOrder, Busy
<1>7. FloorsAreRepaired'
  <2> SUFFICES ASSUME NEW k \in Syncs, sync[k].sound PROVE Repaired(k)'
    BY <1>1 DEF FloorsAreRepaired, Repaired
  <2>1. Repaired(k)
    BY DEF SceneInv, FloorsAreRepaired, Repaired
  <2> QED
    BY <1>1, <2>1 DEF Repaired, DrawnNew, Usable
<1> QED
  BY <1>2, <1>3, <1>4, <1>5, <1>6, <1>7 DEF SceneInv

LEMMA FrameKeeps ==
  ASSUME SceneInv, NEW k \in Syncs, FrameComes(k)
  PROVE  SceneInv'
<1>1. hosts' = hosts /\ shells' = shells /\ newest' = newest
  BY DEF FrameComes
<1>2. /\ hosts \in [Floors -> Nat] /\ shells \in Nat /\ newest \in [Floors -> Nat \ {0}]
      /\ latest \in [Floors -> Nat] /\ \A f \in Floors : hosts[f] # 0 => latest[f] = newest[f]
  BY DEF SceneInv, SceneTypeOK, LatestIsNewest
<1>3. CASE view = "map" /\ latest # NoProjects
  <2>1. Begins(k, latest, hosts)
    BY <1>3 DEF FrameComes
  <2> QED
    BY <1>1, <1>2, <2>1, BeginsKeeps
<1>4. CASE ~ (view = "map" /\ latest # NoProjects)
  <2>1. latest' = latest /\ registry' = registry /\ renderers' = renderers /\ sync' = sync
    BY <1>4 DEF FrameComes
  <2> QED
    BY <1>1, <2>1, SceneStays
<1> QED
  BY <1>3, <1>4

LEMMA PageKeeps ==
  ASSUME SceneInv
  PROVE  /\ \A changed \in SUBSET Floors : RendersTerminal(changed) => SceneInv'
         /\ RenderFails => SceneInv'
         /\ Resized => SceneInv'
<1>1. newest \in [Floors -> Nat \ {0}]
  BY DEF SceneInv, SceneTypeOK
<1>2. ASSUME NEW changed \in SUBSET Floors, RendersTerminal(changed) PROVE SceneInv'
  <2>1. newest' = [f \in Floors |-> IF f \in changed THEN newest[f] + 1 ELSE newest[f]]
    BY <1>2 DEF RendersTerminal
  <2>2. newest' \in [Floors -> Nat \ {0}]
    BY <1>1, <2>1
  <2>3. hosts' = NoProjects /\ sync' = AllDisturbed /\ shells' = shells /\ latest' = latest /\ Cleanup(hosts)
    BY <1>2 DEF RendersTerminal
  <2> QED
    BY <2>2, <2>3, LeavingKeepsScene
<1>3. ASSUME RenderFails PROVE SceneInv'
  <2>1. /\ hosts' = NoProjects /\ sync' = AllDisturbed /\ shells' = shells /\ latest' = latest
        /\ newest' = newest
        /\ Cleanup(hosts) \/ (registry' = registry /\ renderers' = renderers)
    BY <1>3 DEF RenderFails
  <2> QED
    BY <1>1, <2>1, LeavingKeepsScene
<1>4. ASSUME Resized PROVE SceneInv'
  BY <1>4, SceneStays DEF Resized
<1> QED
  BY <1>2, <1>3, <1>4

-----------------------------------------------------------------------------
(* OfficeScene: the calls.                                                 *)

\* While a call is under way no other is sound.
LEMMA SoundIsAlone ==
  ASSUME SceneInv, NEW k \in Syncs, sync[k].at # "idle", NEW j \in Syncs, sync[j].sound
  PROVE  j = k
BY DEF SceneInv, SoundAreInOrder, SoundInOrder

LEMMA GoesIs ==
  ASSUME SceneTypeOK, NEW k \in Syncs, NEW c \in SceneSyncs, Goes(k, c)
  PROVE  /\ sync' \in [Syncs -> SceneSyncs] /\ sync'[k] = c
         /\ \A j \in Syncs \ {k} : sync'[j] = sync[j]
BY DEF SceneTypeOK, Goes

\* What a step of one call has to keep.
LEMMA CallKeeps ==
  ASSUME SceneInv, NEW k \in Syncs, sync[k].at # "idle", NEW c \in SceneSyncs, Goes(k, c), SceneUnchanged,
         c.sound => sync[k].sound,
         registry' \in [Floors -> Nat], renderers' \in Seq(SceneRenderers), RegisterInv', UselessAreWaited',
         \A r \in DOMAIN renderers : /\ r \in DOMAIN renderers' /\ renderers'[r].floor = renderers[r].floor
                                     /\ renderers'[r].host = renderers[r].host,
         c.at \in {"ensuring", "loading"} =>
           /\ c.on \in DOMAIN renderers' /\ c.host \in Floors \X Nat
           /\ renderers'[c.on].floor = c.host[1] /\ renderers'[c.on].host = c.host[2],
         c.sound => SoundInOrder(k)' /\ Repaired(k)'
  PROVE  SceneInv'
<1>1. /\ hosts' = hosts /\ shells' = shells /\ newest' = newest /\ latest' = latest
  BY DEF SceneUnchanged
<1>2. /\ sync' \in [Syncs -> SceneSyncs] /\ sync'[k] = c
      /\ \A j \in Syncs \ {k} : sync'[j] = sync[j]
  BY GoesIs DEF SceneInv
<1>3. SceneTypeOK'
  BY <1>1, <1>2 DEF SceneInv, SceneTypeOK
<1>4. SyncsInOrder'
  <2> SUFFICES ASSUME NEW j \in Syncs, sync'[j].at \in {"ensuring", "loading"}
               PROVE  /\ sync'[j].on \in DOMAIN renderers' /\ sync'[j].host \in Floors \X Nat
                      /\ renderers'[sync'[j].on].floor = sync'[j].host[1]
                      /\ renderers'[sync'[j].on].host = sync'[j].host[2]
    BY DEF SyncsInOrder, Busy
  <2>1. CASE j = k
    BY <1>2, <2>1
  <2>2. CASE j # k
    <3>1. sync'[j] = sync[j]
      BY <1>2, <2>2
    <3>2. /\ sync[j].on \in DOMAIN renderers /\ sync[j].host \in Floors \X Nat
          /\ renderers[sync[j].on].floor = sync[j].host[1]
          /\ renderers[sync[j].on].host = sync[j].host[2]
      BY <3>1 DEF SceneInv, SyncsInOrder, Busy
    <3> QED
      BY <3>1, <3>2
  <2> QED
    BY <2>1, <2>2
<1>5. LatestIsNewest'
  BY <1>1 DEF SceneInv, LatestIsNewest
<1>6. ASSUME NEW j \in Syncs, sync'[j].sound PROVE SoundInOrder(j)' /\ Repaired(j)'
  <2>1. sync[j].sound
    BY <1>2, <1>6
  <2>2. j = k
    BY <2>1, SoundIsAlone
  <2> QED
    BY <1>2, <1>6, <2>2
<1>7. SoundAreInOrder'
  BY <1>6 DEF SoundAreInOrder
<1>8. FloorsAreRepaired'
  BY <1>6 DEF FloorsAreRepaired, Repaired
<1> QED
  BY <1>3, <1>4, <1>5, <1>7, <1>8 DEF SceneInv, RegisterInv

\* As long as only a call alone goes on, its hosts and what it was given stay.
LEMMA SoundGoesOn ==
  ASSUME SceneInv, NEW k \in Syncs, sync[k].at # "idle", NEW c \in SceneSyncs, Goes(k, c), SceneUnchanged,
         sync[k].sound, c.given = sync[k].given, c.todo \subseteq sync[k].todo,
         c.at \in {"ensuring", "loading"} =>
           /\ c.host[2] = hosts[c.host[1]] /\ c.host[2] # 0
           /\ registry'[c.host[1]] = c.on /\ ~ renderers'[c.on].destroyed,
         c.at = "loading" => renderers'[c.on].at = "ready"
  PROVE  SoundInOrder(k)'
<1>1. hosts' = hosts /\ newest' = newest
  BY DEF SceneUnchanged
<1>2. sync'[k] = c /\ \A j \in Syncs \ {k} : sync'[j] = sync[j]
  BY GoesIs DEF SceneInv
<1>3. SoundInOrder(k)
  BY DEF SceneInv, SoundAreInOrder
<1>4. /\ \A j \in Syncs \ {k} : sync'[j].at = "idle"
      /\ \A f \in Floors : hosts[f] # 0 => c.given[f] = newest[f]
      /\ \A h \in c.todo : h[2] = hosts[h[1]] /\ h[2] # 0
  BY <1>2, <1>3 DEF SoundInOrder
<1> QED
  BY <1>1, <1>2, <1>4 DEF SoundInOrder, Busy

\* Nobody waits but a call alone, so what is registered is of use unless the
\* call waits for it.
LEMMA RegisteredAreUsable ==
  ASSUME SceneInv, NEW k \in Syncs, sync[k].sound, NEW f \in Floors, registry[f] # 0,
         sync[k].at # "ensuring" \/ sync[k].on # registry[f]
  PROVE  Usable(registry[f])
<1>1. \A j \in Syncs \ {k} : sync[j].at = "idle"
  BY DEF SceneInv, SoundAreInOrder, SoundInOrder
<1> QED
  BY <1>1 DEF SceneInv, UselessAreWaited, Waited

LEMMA SkipKeeps ==
  ASSUME SceneInv, NEW k \in Syncs, NEW h \in sync[k].todo, SkipsHost(k, h)
  PROVE  SceneInv'
<1> DEFINE c == [sync[k] EXCEPT !.todo = sync[k].todo \ {h}]
<1>1. /\ SceneTypeOK /\ sync[k].at = "next" /\ sync[k].given[h[1]] = 0 /\ SceneUnchanged
      /\ Goes(k, c) /\ registry' = registry /\ renderers' = renderers
  BY DEF SceneInv, SkipsHost
<1>2. sync[k] \in SceneSyncs /\ sync[k].todo \in SUBSET (Floors \X Nat)
  BY <1>1, SyncTyped
<1>3. /\ c \in SceneSyncs /\ c.at = "next" /\ c.sound = sync[k].sound /\ c.given = sync[k].given
      /\ c.todo = sync[k].todo \ {h} /\ c.on = sync[k].on
  BY <1>1, <1>2 DEF SceneSyncs
<1> HIDE DEF c
<1>4. /\ sync'[k] = c /\ \A j \in Syncs \ {k} : sync'[j] = sync[j]
  BY <1>1, <1>3, GoesIs
<1>5. hosts' = hosts /\ newest' = newest
  BY <1>1 DEF SceneUnchanged
<1>6. RegisterInv'
  BY <1>1 DEF SceneInv, RegisterInv, RegistryInOrder, RenderersAreRegistered, GivenUpAreDestroyed
<1>7. UselessAreWaited'
  <2> SUFFICES ASSUME NEW f \in Floors, registry[f] # 0, ~ Usable(registry[f])
               PROVE  \E j \in Syncs : sync'[j].at = "ensuring" /\ sync'[j].on = registry[f]
    BY <1>1 DEF UselessAreWaited, Waited, Usable
  <2>1. PICK j \in Syncs : sync[j].at = "ensuring" /\ sync[j].on = registry[f]
    BY DEF SceneInv, UselessAreWaited, Waited
  <2> QED
    BY <1>1, <1>4, <2>1
<1>8. ASSUME sync[k].sound PROVE SoundInOrder(k)' /\ Repaired(k)'
  <2>1. SoundInOrder(k)'
    BY <1>1, <1>3, <1>8, SoundGoesOn
  <2>2. Repaired(k)'
    <3> SUFFICES ASSUME NEW f \in Floors, hosts[f] # 0
                 PROVE  <<f, hosts[f]>> \in c.todo \/ DrawnNew(f, newest[f])
      BY <1>1, <1>4, <1>5 DEF Repaired, DrawnNew, Usable
    <3>1. <<f, hosts[f]>> \in sync[k].todo \/ DrawnNew(f, newest[f])
      BY <1>1, <1>8 DEF SceneInv, FloorsAreRepaired
    <3>2. h # <<f, hosts[f]>>
      <4>1. sync[k].given[f] = newest[f] /\ newest[f] # 0
        BY <1>8 DEF SceneInv, SoundAreInOrder, SoundInOrder, SceneTypeOK
      <4> QED
        BY <1>1, <4>1
    <3> QED
      BY <1>3, <3>1, <3>2
  <2> QED
    BY <2>1, <2>2
<1> QED
  BY <1>1, <1>3, <1>6, <1>7, <1>8, CallKeeps DEF SceneTypeOK

LEMMA ChangedIs ==
  ASSUME SceneTypeOK, NEW r \in DOMAIN renderers, NEW new \in SceneRenderers,
         new.floor = renderers[r].floor, new.host = renderers[r].host,
         renderers' = [renderers EXCEPT ![r] = new]
  PROVE  /\ renderers' \in Seq(SceneRenderers) /\ DOMAIN renderers' = DOMAIN renderers
         /\ renderers'[r] = new
         /\ \A q \in DOMAIN renderers : q # r => renderers'[q] = renderers[q]
         /\ \A q \in DOMAIN renderers : /\ renderers'[q].floor = renderers[q].floor
                                        /\ renderers'[q].host = renderers[q].host
BY DEF SceneTypeOK

\* A renderer has started, or never will.
LEMMA StartedKeeps ==
  ASSUME SceneInv, NEW r \in DOMAIN renderers, renderers[r].at = "starting", NEW new \in SceneRenderers,
         new.floor = renderers[r].floor, new.host = renderers[r].host,
         renderers' = [renderers EXCEPT ![r] = new],
         new.at = "ready" \/ new.destroyed, renderers[r].destroyed => new.destroyed,
         registry' = registry, SceneUnchanged, sync' \in [Syncs -> SceneSyncs],
         \A k \in Syncs :
           /\ sync'[k].at = sync[k].at /\ sync'[k].given = sync[k].given /\ sync'[k].todo = sync[k].todo
           /\ sync'[k].host = sync[k].host /\ sync'[k].on = sync[k].on
           /\ sync'[k].sound => /\ sync[k].sound
                                /\ ~ Busy(k) \/ sync[k].on # r \/ ~ new.destroyed
  PROVE  SceneInv'
<1>1. /\ hosts' = hosts /\ shells' = shells /\ newest' = newest /\ latest' = latest
  BY DEF SceneUnchanged
<1>2. /\ renderers' \in Seq(SceneRenderers) /\ DOMAIN renderers' = DOMAIN renderers
      /\ renderers'[r] = new
      /\ \A q \in DOMAIN renderers : q # r => renderers'[q] = renderers[q]
      /\ \A q \in DOMAIN renderers : /\ renderers'[q].floor = renderers[q].floor
                                     /\ renderers'[q].host = renderers[q].host
  BY ChangedIs DEF SceneInv
<1>3. SceneTypeOK'
  BY <1>1, <1>2 DEF SceneInv, SceneTypeOK
<1>4. RegistryInOrder' /\ RenderersAreRegistered' /\ GivenUpAreDestroyed'
  <2>1. RegistryInOrder'
    BY <1>2 DEF SceneInv, RegistryInOrder
  <2>2. RenderersAreRegistered'
    <3> SUFFICES ASSUME NEW q \in DOMAIN renderers, ~ renderers'[q].destroyed
                 PROVE  registry[renderers[q].floor] = q
      BY <1>2 DEF RenderersAreRegistered
    <3>1. ~ renderers[q].destroyed
      BY <1>2
    <3> QED
      BY <3>1 DEF SceneInv, RenderersAreRegistered
  <2>3. GivenUpAreDestroyed'
    <3> SUFFICES ASSUME NEW q \in DOMAIN renderers, renderers'[q].at \in {"given up", "failed"}
                 PROVE  renderers'[q].destroyed
      BY <1>2 DEF GivenUpAreDestroyed
    <3>1. CASE q = r
      BY <1>2, <3>1
    <3>2. CASE q # r
      BY <1>2, <3>2 DEF SceneInv, GivenUpAreDestroyed
    <3> QED
      BY <3>1, <3>2
  <2> QED
    BY <2>1, <2>2, <2>3
<1>5. ASSUME NEW q \in DOMAIN renderers, Usable(q)
      PROVE  q # r /\ Usable(q)' /\ renderers'[q] = renderers[q]
  <2>1. q # r
    BY <1>5 DEF Usable
  <2> QED
    BY <1>2, <1>5, <2>1 DEF Usable
<1>6. UselessAreWaited'
  <2> SUFFICES ASSUME NEW f \in Floors, registry[f] # 0, ~ (Usable(registry[f])')
               PROVE  \E j \in Syncs : sync'[j].at = "ensuring" /\ sync'[j].on = registry[f]
    BY DEF UselessAreWaited, Waited, Usable
  <2>1. ~ Usable(registry[f])
    BY <1>5 DEF SceneInv, RegistryInOrder
  <2>2. PICK j \in Syncs : sync[j].at = "ensuring" /\ sync[j].on = registry[f]
    BY <2>1 DEF SceneInv, UselessAreWaited, Waited
  <2> QED
    BY <2>2
<1>7. SyncsInOrder'
  BY <1>2 DEF SceneInv, SyncsInOrder, Busy
<1>8. LatestIsNewest'
  BY <1>1 DEF SceneInv, LatestIsNewest
<1>9. ASSUME NEW k \in Syncs, sync'[k].sound PROVE SoundInOrder(k)' /\ Repaired(k)'
  <2>1. sync[k].sound /\ SoundInOrder(k)
    BY <1>9 DEF SceneInv, SoundAreInOrder
  <2>2. Busy(k) => ~ renderers'[sync[k].on].destroyed
    <3> SUFFICES ASSUME Busy(k) PROVE ~ renderers'[sync[k].on].destroyed
      OBVIOUS
    <3>1. sync[k].on \in DOMAIN renderers /\ ~ renderers[sync[k].on].destroyed
      BY <2>1 DEF SceneInv, SyncsInOrder, SoundInOrder
    <3>2. sync[k].on # r \/ ~ new.destroyed
      BY <1>9
    <3> QED
      BY <1>2, <3>1, <3>2
  <2>3. sync[k].at = "loading" => renderers'[sync[k].on].at = "ready"
    <3> SUFFICES ASSUME sync[k].at = "loading" PROVE renderers'[sync[k].on].at = "ready"
      OBVIOUS
    <3>1. sync[k].on \in DOMAIN renderers /\ renderers[sync[k].on].at = "ready"
      BY <2>1 DEF SceneInv, SyncsInOrder, SoundInOrder, Busy
    <3> QED
      BY <1>2, <3>1
  <2>4. SoundInOrder(k)'
    BY <1>1, <2>1, <2>2, <2>3 DEF SoundInOrder, Busy
  <2>5. Repaired(k)'
    <3> SUFFICES ASSUME NEW f \in Floors, DrawnNew(f, newest[f]) PROVE DrawnNew(f, newest[f])'
      BY <1>1, <2>1 DEF Repaired, SceneInv, FloorsAreRepaired
    <3>1. registry[f] \in DOMAIN renderers /\ Usable(registry[f])
      BY DEF SceneInv, RegistryInOrder, DrawnNew
    <3>2. Usable(registry[f])' /\ renderers'[registry[f]] = renderers[registry[f]]
      BY <1>5, <3>1
    <3> QED
      BY <1>1, <3>2 DEF DrawnNew, Usable
  <2> QED
    BY <2>4, <2>5
<1>10. SoundAreInOrder' /\ FloorsAreRepaired'
  BY <1>9 DEF SoundAreInOrder, FloorsAreRepaired, Repaired
<1> QED
  BY <1>3, <1>4, <1>6, <1>7, <1>8, <1>10 DEF SceneInv

LEMMA StartsKeeps ==
  ASSUME SceneInv, NEW r \in DOMAIN renderers, Starts(r) \/ StartFails(r)
  PROVE  SceneInv'
<1>1. SceneTypeOK /\ renderers[r] \in SceneRenderers /\ SceneUnchanged /\ registry' = registry
      /\ renderers[r].at = "starting"
  BY RendererTyped DEF SceneInv, Starts, StartFails
<1>2. CASE Starts(r)
  <2> DEFINE to == IF renderers[r].destroyed THEN "given up" ELSE "ready"
             new == [renderers[r] EXCEPT !.at = to]
  <2>1. renderers' = [renderers EXCEPT ![r] = new] /\ sync' = sync
    BY <1>2 DEF Starts
  <2>2. /\ new \in SceneRenderers /\ new.floor = renderers[r].floor /\ new.host = renderers[r].host
        /\ new.destroyed = renderers[r].destroyed /\ new.at = to
    BY <1>1 DEF SceneRenderers
  <2>3. new.at = "ready" \/ new.destroyed
    BY <2>2
  <2> HIDE DEF new
  <2>4. sync' \in [Syncs -> SceneSyncs]
    BY <2>1 DEF SceneInv, SceneTypeOK
  <2>5. \A k \in Syncs : sync[k].sound => ~ Busy(k) \/ sync[k].on # r \/ ~ new.destroyed
    <3> SUFFICES ASSUME NEW k \in Syncs, sync[k].sound, Busy(k), sync[k].on = r
                 PROVE  ~ new.destroyed
      OBVIOUS
    <3> QED
      BY <2>2 DEF SceneInv, SoundAreInOrder, SoundInOrder
  <2> QED
    BY <1>1, <2>1, <2>2, <2>3, <2>4, <2>5, StartedKeeps
<1>3. CASE StartFails(r)
  <2> DEFINE one == [renderers[r] EXCEPT !.at = "failed"]
             new == [one EXCEPT !.destroyed = TRUE]
  <2>1. renderers' = [renderers EXCEPT ![r] = new]
    BY <1>3 DEF StartFails
  <2>2. one \in SceneRenderers /\ one.floor = renderers[r].floor /\ one.host = renderers[r].host
    BY <1>1 DEF SceneRenderers
  <2>3. /\ new \in SceneRenderers /\ new.floor = renderers[r].floor /\ new.host = renderers[r].host
        /\ new.destroyed
    <3> HIDE DEF one
    <3> QED
      BY <2>2 DEF SceneRenderers
  <2> HIDE DEF new
  <2>4. \A k \in Syncs : sync'[k] = IF sync[k].at # "idle" /\ sync[k].on = r THEN Disturbed(k) ELSE sync[k]
    BY <1>3 DEF StartFails
  <2>5. \A k \in Syncs :
           /\ sync'[k] \in SceneSyncs
           /\ sync'[k].at = sync[k].at /\ sync'[k].given = sync[k].given /\ sync'[k].todo = sync[k].todo
           /\ sync'[k].host = sync[k].host /\ sync'[k].on = sync[k].on
           /\ sync'[k].sound => /\ sync[k].sound
                                /\ ~ Busy(k) \/ sync[k].on # r
    BY <1>1, <2>4, DisturbedIs, SyncTyped DEF Busy
  <2>6. sync' \in [Syncs -> SceneSyncs]
    BY <1>3, <2>4, <2>5 DEF StartFails
  <2> QED
    BY <1>1, <2>1, <2>3, <2>5, <2>6, StartedKeeps
<1> QED
  BY <1>2, <1>3

LEMMA EndKeeps ==
  ASSUME SceneInv, NEW k \in Syncs, SyncEnds(k)
  PROVE  SceneInv'
<1> DEFINE c == [sync[k] EXCEPT !.at = "idle"]
<1>1. /\ SceneTypeOK /\ sync[k].at = "next" /\ sync[k].todo = {} /\ SceneUnchanged
      /\ Goes(k, c) /\ registry' = registry /\ renderers' = renderers
  BY DEF SceneInv, SyncEnds
<1>2. sync[k] \in SceneSyncs
  BY <1>1, SyncTyped
<1>3. /\ c \in SceneSyncs /\ c.at = "idle" /\ c.sound = sync[k].sound /\ c.given = sync[k].given
      /\ c.todo = sync[k].todo /\ c.on = sync[k].on
  BY <1>1, <1>2 DEF SceneSyncs
<1> HIDE DEF c
<1>4. /\ sync'[k] = c /\ \A j \in Syncs \ {k} : sync'[j] = sync[j]
  BY <1>1, <1>3, GoesIs
<1>5. hosts' = hosts /\ newest' = newest
  BY <1>1 DEF SceneUnchanged
<1>6. RegisterInv'
  BY <1>1 DEF SceneInv, RegisterInv, RegistryInOrder, RenderersAreRegistered, GivenUpAreDestroyed
<1>7. UselessAreWaited'
  <2> SUFFICES ASSUME NEW f \in Floors, registry[f] # 0, ~ Usable(registry[f])
               PROVE  \E j \in Syncs : sync'[j].at = "ensuring" /\ sync'[j].on = registry[f]
    BY <1>1 DEF UselessAreWaited, Waited, Usable
  <2>1. PICK j \in Syncs : sync[j].at = "ensuring" /\ sync[j].on = registry[f]
    BY DEF SceneInv, UselessAreWaited, Waited
  <2> QED
    BY <1>1, <1>4, <2>1
<1>8. ASSUME sync[k].sound PROVE SoundInOrder(k)' /\ Repaired(k)'
  <2>1. SoundInOrder(k)'
    BY <1>1, <1>3, <1>8, SoundGoesOn
  <2>2. Repaired(k)'
    <3> SUFFICES ASSUME NEW f \in Floors, hosts[f] # 0 PROVE DrawnNew(f, newest[f])
      BY <1>1, <1>4, <1>5 DEF Repaired, DrawnNew, Usable
    <3> QED
      BY <1>1, <1>8 DEF SceneInv, FloorsAreRepaired
  <2> QED
    BY <2>1, <2>2
<1> QED
  BY <1>1, <1>3, <1>6, <1>7, <1>8, CallKeeps DEF SceneTypeOK

LEMMA ReadyKeeps ==
  ASSUME SceneInv, NEW k \in Syncs, RendererReady(k)
  PROVE  SceneInv'
<1> DEFINE r == sync[k].on
           f == sync[k].host[1]
           to == IF Usable(r) /\ renderers[r].shows # sync[k].given[f] THEN "loading" ELSE "next"
           c == [sync[k] EXCEPT !.at = to]
<1>1. /\ SceneTypeOK /\ sync[k].at = "ensuring" /\ SceneUnchanged /\ renderers[r].at # "starting"
      /\ Goes(k, c) /\ registry' = GivenUp(f, r) /\ renderers' = renderers
  BY DEF SceneInv, RendererReady
<1>2. sync[k] \in SceneSyncs
  BY <1>1, SyncTyped
<1>3. /\ c \in SceneSyncs /\ c.at = to /\ c.sound = sync[k].sound /\ c.given = sync[k].given
      /\ c.todo = sync[k].todo /\ c.on = r /\ c.host = sync[k].host
  BY <1>1, <1>2 DEF SceneSyncs
<1> HIDE DEF c
<1>4. /\ sync'[k] = c /\ \A j \in Syncs \ {k} : sync'[j] = sync[j]
  BY <1>1, <1>3, GoesIs
<1>5. hosts' = hosts /\ newest' = newest
  BY <1>1 DEF SceneUnchanged
<1>6. /\ r \in DOMAIN renderers /\ sync[k].host \in Floors \X Nat /\ f \in Floors
      /\ renderers[r].floor = f /\ renderers[r].host = sync[k].host[2]
  <2>1. /\ r \in DOMAIN renderers /\ sync[k].host \in Floors \X Nat
        /\ renderers[r].floor = f /\ renderers[r].host = sync[k].host[2]
    BY <1>1 DEF SceneInv, SyncsInOrder, Busy
  <2> QED
    BY <2>1
<1>7. ~ Usable(r) => renderers[r].destroyed
  <2>1. renderers[r].at \in {"starting", "ready", "given up", "failed"}
    BY <1>1, <1>6, RendererTyped
  <2> QED
    BY <1>1, <1>6, <2>1 DEF SceneInv, GivenUpAreDestroyed, Usable
<1>8. /\ registry' \in [Floors -> Nat]
      /\ \A g \in Floors : registry'[g] = IF g = f /\ ~ Usable(r) /\ registry[f] = r THEN 0 ELSE registry[g]
  <2>1. registry \in [Floors -> Nat]
    BY <1>1 DEF SceneTypeOK
  <2>2. CASE ~ Usable(r) /\ registry[f] = r
    <3>1. registry' = [registry EXCEPT ![f] = 0]
      BY <1>1, <2>2 DEF GivenUp
    <3> HIDE DEF r, f
    <3> QED
      BY <2>1, <2>2, <3>1
  <2>3. CASE ~ (~ Usable(r) /\ registry[f] = r)
    <3>1. registry' = registry
      BY <1>1, <2>3 DEF GivenUp
    <3> HIDE DEF r, f
    <3> QED
      BY <2>1, <2>3, <3>1
  <2> QED
    BY <2>2, <2>3
<1> HIDE DEF r, f
<1>9. RegisterInv'
  <2>1. RegistryInOrder'
    BY <1>1, <1>8 DEF SceneInv, RegistryInOrder
  <2>2. RenderersAreRegistered'
    <3> SUFFICES ASSUME NEW q \in DOMAIN renderers, ~ renderers[q].destroyed
                 PROVE  registry'[renderers[q].floor] = q
      BY <1>1 DEF RenderersAreRegistered
    <3>1. registry[renderers[q].floor] = q /\ renderers[q].floor \in Floors
      BY <1>1, RendererTyped DEF SceneInv, RenderersAreRegistered
    <3> QED
      BY <1>7, <1>8, <3>1
  <2>3. GivenUpAreDestroyed'
    BY <1>1 DEF SceneInv, GivenUpAreDestroyed
  <2> QED
    BY <2>1, <2>2, <2>3 DEF RegisterInv
<1>10. UselessAreWaited'
  <2> SUFFICES ASSUME NEW g \in Floors, registry'[g] # 0, ~ Usable(registry'[g])
               PROVE  \E j \in Syncs : sync'[j].at = "ensuring" /\ sync'[j].on = registry'[g]
    BY <1>1 DEF UselessAreWaited, Waited, Usable
  <2>1. registry'[g] = registry[g] /\ ~ (g = f /\ ~ Usable(r) /\ registry[f] = r)
    BY <1>8
  <2>2. PICK j \in Syncs : sync[j].at = "ensuring" /\ sync[j].on = registry[g]
    BY <2>1 DEF SceneInv, UselessAreWaited, Waited
  <2>3. j # k
    <3> SUFFICES ASSUME j = k PROVE FALSE
      OBVIOUS
    <3>1. registry[g] = r
      BY <2>2 DEF r
    <3>2. renderers[registry[g]].floor = g
      BY <2>1 DEF SceneInv, RegistryInOrder
    <3> QED
      BY <1>6, <2>1, <3>1, <3>2
  <2> QED
    BY <1>4, <2>1, <2>2, <2>3
<1>11. ASSUME c.sound PROVE SoundInOrder(k)' /\ Repaired(k)'
  <2>1. sync[k].sound /\ SoundInOrder(k)
    BY <1>3, <1>11 DEF SceneInv, SoundAreInOrder
  <2>2. /\ sync[k].host[2] = hosts[f] /\ hosts[f] # 0 /\ registry[f] = r /\ ~ renderers[r].destroyed
        /\ sync[k].given[f] = newest[f]
    <3>1. /\ sync[k].host[2] = hosts[f] /\ sync[k].host[2] # 0 /\ registry[f] = r /\ ~ renderers[r].destroyed
      BY <1>1, <2>1 DEF SoundInOrder, Busy, r, f
    <3> QED
      BY <1>6, <2>1, <3>1 DEF SoundInOrder
  <2>3. Usable(r) /\ \A g \in Floors : registry'[g] = registry[g]
    BY <1>7, <1>8, <2>2
  <2>4. SoundInOrder(k)'
    <3>1. c.host[1] = f
      BY <1>3 DEF f
    <3>2. c.host[2] = hosts[c.host[1]] /\ c.host[2] # 0
          /\ registry'[c.host[1]] = c.on /\ ~ renderers'[c.on].destroyed
      BY <1>1, <1>3, <1>6, <2>2, <2>3, <3>1
    <3>3. renderers'[c.on].at = "ready"
      BY <1>1, <1>3, <2>3 DEF Usable
    <3> QED
      BY <1>1, <1>3, <2>1, <3>2, <3>3, SoundGoesOn
  <2>5. Repaired(k)'
    <3> SUFFICES ASSUME NEW g \in Floors, hosts[g] # 0, <<g, hosts[g]>> \notin c.todo,
                        ~ DrawnNew(g, newest[g])
                 PROVE  c.at = "loading" /\ c.host = <<g, hosts[g]>>
      BY <1>1, <1>4, <1>5, <2>3 DEF Repaired, DrawnNew, Usable
    <3>1. sync[k].host = <<g, hosts[g]>>
      BY <1>3, <2>1 DEF SceneInv, FloorsAreRepaired
    <3>2. g = f
      BY <3>1 DEF f
    <3>3. renderers[r].shows # newest[f]
      BY <1>6, <2>2, <2>3, <3>2, RendererTyped DEF DrawnNew, SceneInv
    <3> QED
      BY <1>3, <2>2, <2>3, <3>1, <3>3
  <2> QED
    BY <2>4, <2>5
<1> QED
  <2>1. c.at \in {"ensuring", "loading"} =>
           /\ c.on \in DOMAIN renderers' /\ c.host \in Floors \X Nat
           /\ renderers'[c.on].floor = c.host[1] /\ renderers'[c.on].host = c.host[2]
    BY <1>1, <1>3, <1>6 DEF f
  <2>2. renderers' \in Seq(SceneRenderers)
    BY <1>1 DEF SceneTypeOK
  <2> HIDE DEF to
  <2> QED
    BY <1>1, <1>3, <1>8, <1>9, <1>10, <1>11, <2>1, <2>2, CallKeeps

LEMMA DrawKeeps ==
  ASSUME SceneInv, NEW k \in Syncs, Draws(k)
  PROVE  SceneInv'
<1>0. PICK r, f : r = sync[k].on /\ f = sync[k].host[1]
  OBVIOUS
<1> DEFINE x == sync[k].given[f]
           new == [renderers[r] EXCEPT !.shows = x]
           c == [sync[k] EXCEPT !.at = "next"]
<1>1. /\ SceneTypeOK /\ sync[k].at = "loading" /\ SceneUnchanged /\ Goes(k, c)
      /\ registry' = registry /\ renderers' = [renderers EXCEPT ![r] = new]
  BY <1>0 DEF SceneInv, Draws, AssetsAreThere
<1>2. sync[k] \in SceneSyncs /\ sync[k].given \in [Floors -> Nat]
  BY <1>1, SyncTyped
<1>3. /\ c \in SceneSyncs /\ c.at = "next" /\ c.sound = sync[k].sound /\ c.given = sync[k].given
      /\ c.todo = sync[k].todo
  BY <1>1, <1>2 DEF SceneSyncs
<1> HIDE DEF c
<1>4. /\ sync'[k] = c /\ \A j \in Syncs \ {k} : sync'[j] = sync[j]
  BY <1>1, <1>3, GoesIs
<1>5. hosts' = hosts /\ newest' = newest
  BY <1>1 DEF SceneUnchanged
<1>6. /\ r \in DOMAIN renderers /\ f \in Floors
      /\ renderers[r].floor = f /\ renderers[r].host = sync[k].host[2]
  <2>1. /\ r \in DOMAIN renderers /\ sync[k].host \in Floors \X Nat
        /\ renderers[r].floor = f /\ renderers[r].host = sync[k].host[2]
    BY <1>0, <1>1 DEF SceneInv, SyncsInOrder, Busy
  <2> QED
    BY <1>0, <2>1
<1>7. /\ new \in SceneRenderers /\ new.floor = renderers[r].floor /\ new.host = renderers[r].host
      /\ new.at = renderers[r].at /\ new.destroyed = renderers[r].destroyed /\ new.shows = x
  <2>1. renderers[r] \in SceneRenderers /\ x \in Nat
    BY <1>1, <1>2, <1>6, RendererTyped
  <2> HIDE DEF x
  <2> QED
    BY <2>1 DEF SceneRenderers
<1> HIDE DEF new
<1>8. /\ renderers' \in Seq(SceneRenderers) /\ DOMAIN renderers' = DOMAIN renderers
      /\ renderers'[r] = new
      /\ \A q \in DOMAIN renderers : q # r => renderers'[q] = renderers[q]
      /\ \A q \in DOMAIN renderers : /\ renderers'[q].floor = renderers[q].floor
                                     /\ renderers'[q].host = renderers[q].host
  BY <1>1, <1>6, <1>7, ChangedIs
<1>9. \A q \in DOMAIN renderers : /\ renderers'[q].at = renderers[q].at
                                  /\ renderers'[q].destroyed = renderers[q].destroyed
  BY <1>7, <1>8
<1>10. RegisterInv'
  <2>1. RegistryInOrder'
    BY <1>1, <1>8 DEF SceneInv, RegistryInOrder
  <2>2. RenderersAreRegistered'
    BY <1>1, <1>8, <1>9 DEF SceneInv, RenderersAreRegistered
  <2>3. GivenUpAreDestroyed'
    BY <1>8, <1>9 DEF SceneInv, GivenUpAreDestroyed
  <2> QED
    BY <2>1, <2>2, <2>3 DEF RegisterInv
<1>11. UselessAreWaited'
  <2> SUFFICES ASSUME NEW g \in Floors, registry[g] # 0, ~ (Usable(registry[g])')
               PROVE  \E j \in Syncs : sync'[j].at = "ensuring" /\ sync'[j].on = registry[g]
    BY <1>1 DEF UselessAreWaited, Waited, Usable
  <2>1. registry[g] \in DOMAIN renderers
    BY DEF SceneInv, RegistryInOrder
  <2>2. ~ Usable(registry[g])
    BY <1>1, <1>9, <2>1 DEF Usable
  <2>3. PICK j \in Syncs : sync[j].at = "ensuring" /\ sync[j].on = registry[g]
    BY <2>2 DEF SceneInv, UselessAreWaited, Waited
  <2> QED
    BY <1>1, <1>4, <2>3
<1>12. ASSUME c.sound PROVE SoundInOrder(k)' /\ Repaired(k)'
  <2>1. sync[k].sound /\ SoundInOrder(k)
    BY <1>3, <1>12 DEF SceneInv, SoundAreInOrder
  <2>2. SoundInOrder(k)'
    BY <1>1, <1>3, <2>1, SoundGoesOn
  <2>3. /\ sync[k].host[2] = hosts[f] /\ hosts[f] # 0 /\ registry[f] = r /\ ~ renderers[r].destroyed
        /\ renderers[r].at = "ready" /\ sync[k].given[f] = newest[f]
    <3>1. /\ sync[k].host[2] = hosts[f] /\ sync[k].host[2] # 0 /\ registry[f] = r /\ ~ renderers[r].destroyed
          /\ renderers[r].at = "ready"
      BY <1>0, <1>1, <2>1 DEF SoundInOrder, Busy
    <3> QED
      BY <1>6, <2>1, <3>1 DEF SoundInOrder
  <2>4. DrawnNew(f, newest[f])'
    <3>1. r # 0
      BY <1>1, <1>6, RendererTyped
    <3>2. renderers'[r].at = "ready" /\ ~ renderers'[r].destroyed /\ renderers'[r].host = hosts[f]
          /\ renderers'[r].shows = newest[f]
      BY <1>6, <1>7, <1>8, <2>3
    <3> QED
      BY <1>1, <1>5, <2>3, <3>1, <3>2 DEF DrawnNew, Usable
  <2>5. Repaired(k)'
    <3> SUFFICES ASSUME NEW g \in Floors, hosts[g] # 0, <<g, hosts[g]>> \notin c.todo
                 PROVE  DrawnNew(g, newest[g])'
      BY <1>4, <1>5 DEF Repaired
    <3>1. CASE g = f
      BY <2>4, <3>1
    <3>2. CASE g # f
      <4>1. sync[k].host # <<g, hosts[g]>>
        BY <1>0, <3>2
      <4>2. DrawnNew(g, newest[g])
        BY <1>3, <2>1, <4>1 DEF SceneInv, FloorsAreRepaired
      <4>3. registry[g] \in DOMAIN renderers /\ renderers[registry[g]].floor = g
        BY <4>2 DEF SceneInv, RegistryInOrder, DrawnNew
      <4>4. registry[g] # r
        BY <1>6, <3>2, <4>3
      <4>5. renderers'[registry[g]] = renderers[registry[g]]
        BY <1>8, <4>3, <4>4
      <4> QED
        BY <1>1, <1>5, <4>2, <4>5 DEF DrawnNew, Usable
    <3> QED
      BY <3>1, <3>2
  <2> QED
    BY <2>2, <2>5
<1> QED
  <2>1. registry' \in [Floors -> Nat]
    BY <1>1 DEF SceneTypeOK
  <2> QED
    BY <1>1, <1>3, <1>8, <1>10, <1>11, <1>12, <2>1, CallKeeps

LEMMA DrawFailureKeeps ==
  ASSUME SceneInv, NEW k \in Syncs, DrawFails(k)
  PROVE  SceneInv'
<1> DEFINE d == Disturbed(k)
           c == [d EXCEPT !.at = "next"]
<1>1. /\ SceneTypeOK /\ sync[k].at = "loading" /\ SceneUnchanged
      /\ Goes(k, c) /\ registry' = registry /\ renderers' = renderers
  BY DEF SceneInv, DrawFails, AssetsAreThere
<1>2. d \in SceneSyncs /\ ~ d.sound
  BY <1>1, DisturbedIs
<1>3. c \in SceneSyncs /\ c.at = "next" /\ ~ c.sound
  <2> HIDE DEF d
  <2> QED
    BY <1>2 DEF SceneSyncs
<1> HIDE DEF c
<1>4. /\ sync'[k] = c /\ \A j \in Syncs \ {k} : sync'[j] = sync[j]
  BY <1>1, <1>3, GoesIs
<1>6. RegisterInv'
  BY <1>1 DEF SceneInv, RegisterInv, RegistryInOrder, RenderersAreRegistered, GivenUpAreDestroyed
<1>7. UselessAreWaited'
  <2> SUFFICES ASSUME NEW f \in Floors, registry[f] # 0, ~ Usable(registry[f])
               PROVE  \E j \in Syncs : sync'[j].at = "ensuring" /\ sync'[j].on = registry[f]
    BY <1>1 DEF UselessAreWaited, Waited, Usable
  <2>1. PICK j \in Syncs : sync[j].at = "ensuring" /\ sync[j].on = registry[f]
    BY DEF SceneInv, UselessAreWaited, Waited
  <2> QED
    BY <1>1, <1>4, <2>1
<1> QED
  BY <1>1, <1>3, <1>6, <1>7, CallKeeps DEF SceneTypeOK

\* What a call knows once it has taken a host.
Taken(s, h, o) == [s EXCEPT !.at = "ensuring", !.todo = s.todo \ {h}, !.host = h, !.on = o]

LEMMA TakenIs ==
  ASSUME SceneTypeOK, NEW k \in Syncs, NEW h \in Floors \X Nat, NEW o \in Nat,
         NEW c, c = Taken(sync[k], h, o)
  PROVE  /\ c \in SceneSyncs /\ c.at = "ensuring" /\ c.todo = sync[k].todo \ {h} /\ c.host = h /\ c.on = o
         /\ c.given = sync[k].given /\ c.sound = sync[k].sound
<1>1. sync[k] \in SceneSyncs
  BY SyncTyped
<1>2. c = [at |-> "ensuring", given |-> sync[k].given, todo |-> sync[k].todo \ {h}, host |-> h,
           on |-> o, sound |-> sync[k].sound]
  BY <1>1 DEF SceneSyncs, Taken
<1>3. /\ sync[k].given \in [Floors -> Nat] /\ sync[k].todo \ {h} \in SUBSET (Floors \X Nat)
      /\ h \in {<<>>} \cup (Floors \X Nat) /\ sync[k].sound \in BOOLEAN
  BY SyncTyped
<1> QED
  BY <1>2, <1>3 DEF SceneSyncs

LEMMA TakeKeeps ==
  ASSUME SceneInv, NEW k \in Syncs, NEW h \in sync[k].todo, TakesHost(k, h)
  PROVE  SceneInv'
<1>0. SceneTypeOK /\ h \in Floors \X Nat
  BY SyncTyped DEF SceneInv
<1>1. PICK f, v : f = h[1] /\ v = h[2] /\ f \in Floors /\ v \in Nat /\ h = <<f, v>>
  BY <1>0
<1>2. PICK o : o = registry'[f]
  OBVIOUS
<1> DEFINE c == Taken(sync[k], h, o)
<1>3. /\ sync[k].at = "next" /\ SceneUnchanged /\ Goes(k, c)
      /\ IF ~HasRenderer(h)
           THEN /\ renderers' = Append(Destroyed(renderers, {registry[f]}), NewRenderer(f, v))
                /\ registry' = [registry EXCEPT ![f] = Len(renderers) + 1]
           ELSE UNCHANGED <<renderers, registry>>
  BY <1>1, <1>2 DEF TakesHost, Taken
<1>4. registry \in [Floors -> Nat] /\ Len(renderers) \in Nat /\ DOMAIN renderers = 1..Len(renderers)
      /\ renderers \in Seq(SceneRenderers)
  BY <1>0 DEF SceneTypeOK
<1>5. o \in Nat
  BY <1>1, <1>2, <1>3, <1>4
<1>6. /\ c \in SceneSyncs /\ c.at = "ensuring" /\ c.todo = sync[k].todo \ {h} /\ c.host = h /\ c.on = o
      /\ c.given = sync[k].given /\ c.sound = sync[k].sound
  BY <1>0, <1>5, TakenIs
<1> HIDE DEF c
<1>7. /\ sync'[k] = c /\ \A j \in Syncs \ {k} : sync'[j] = sync[j]
  BY <1>0, <1>3, <1>6, GoesIs
<1>8. hosts' = hosts /\ newest' = newest
  BY <1>3 DEF SceneUnchanged
\* What remains is to be shown in each of the two cases.
<1>9. ASSUME /\ registry' \in [Floors -> Nat] /\ renderers' \in Seq(SceneRenderers) /\ RegisterInv'
             /\ \A r \in DOMAIN renderers : /\ r \in DOMAIN renderers'
                                            /\ renderers'[r].floor = renderers[r].floor
                                            /\ renderers'[r].host = renderers[r].host,
             /\ o \in DOMAIN renderers' /\ renderers'[o].floor = f /\ renderers'[o].host = v
             /\ sync[k].sound => ~ renderers'[o].destroyed,
             \A g \in Floors \ {f} : /\ registry'[g] = registry[g]
                                     /\ registry[g] # 0 => renderers'[registry[g]] = renderers[registry[g]]
      PROVE  SceneInv'
  <2>1. UselessAreWaited'
    <3> SUFFICES ASSUME NEW g \in Floors, registry'[g] # 0,
                        ~ (renderers'[registry'[g]].at = "ready" /\ ~ renderers'[registry'[g]].destroyed)
                 PROVE  \E j \in Syncs : sync'[j].at = "ensuring" /\ sync'[j].on = registry'[g]
      BY DEF UselessAreWaited, Waited, Usable
    <3>1. CASE g = f
      BY <1>2, <1>6, <1>7, <3>1
    <3>2. CASE g # f
      <4>1. registry'[g] = registry[g] /\ ~ Usable(registry[g])
        BY <1>9, <3>2 DEF Usable
      <4>2. PICK j \in Syncs : sync[j].at = "ensuring" /\ sync[j].on = registry[g]
        BY <4>1 DEF SceneInv, UselessAreWaited, Waited
      <4> QED
        BY <1>3, <1>7, <4>1, <4>2
    <3> QED
      BY <3>1, <3>2
  <2>2. ASSUME c.sound PROVE SoundInOrder(k)' /\ Repaired(k)'
    <3>1. sync[k].sound /\ SoundInOrder(k)
      BY <1>6, <2>2 DEF SceneInv, SoundAreInOrder
    <3>2. v = hosts[f] /\ v # 0
      BY <1>1, <3>1 DEF SoundInOrder
    <3>3. SoundInOrder(k)'
      BY <1>1, <1>2, <1>3, <1>6, <1>9, <3>1, <3>2, SoundGoesOn
    <3>4. Repaired(k)'
      <4> SUFFICES ASSUME NEW g \in Floors, hosts[g] # 0, g # f, <<g, hosts[g]>> \notin c.todo
                   PROVE  DrawnNew(g, newest[g])'
        BY <1>1, <1>6, <1>7, <1>8, <3>2 DEF Repaired
      <4>1. <<g, hosts[g]>> # h
        BY <1>1
      <4>2. DrawnNew(g, newest[g])
        BY <1>3, <1>6, <3>1, <4>1 DEF SceneInv, FloorsAreRepaired
      <4>3. registry'[g] = registry[g] /\ renderers'[registry[g]] = renderers[registry[g]]
        BY <1>9, <4>2 DEF DrawnNew
      <4> QED
        BY <1>8, <4>2, <4>3 DEF DrawnNew, Usable
    <3> QED
      BY <3>3, <3>4
  <2>3. c.at \in {"ensuring", "loading"} =>
           /\ c.on \in DOMAIN renderers' /\ c.host \in Floors \X Nat
           /\ renderers'[c.on].floor = c.host[1] /\ renderers'[c.on].host = c.host[2]
    BY <1>0, <1>1, <1>6, <1>9
  <2> QED
    BY <1>3, <1>6, <1>9, <2>1, <2>2, <2>3, CallKeeps
<1>10. CASE HasRenderer(h)
  <2>1. renderers' = renderers /\ registry' = registry /\ o = registry[f] /\ registry[f] # 0
        /\ renderers[registry[f]].host = v
    BY <1>1, <1>2, <1>3, <1>10 DEF HasRenderer
  <2>2. registry[f] \in DOMAIN renderers /\ renderers[registry[f]].floor = f
    BY <1>1, <2>1 DEF SceneInv, RegistryInOrder
  <2>3. sync[k].sound => ~ renderers[registry[f]].destroyed
    BY <1>1, <1>3, <2>1, RegisteredAreUsable DEF Usable
  <2>4. RegisterInv'
    BY <2>1 DEF SceneInv, RegisterInv, RegistryInOrder, RenderersAreRegistered, GivenUpAreDestroyed
  <2> QED
    BY <1>4, <1>9, <2>1, <2>2, <2>3, <2>4
<1>11. CASE ~ HasRenderer(h)
  <2> DEFINE rs == Destroyed(renderers, {registry[f]})
             fresh == NewRenderer(f, v)
             n == Len(renderers)
  <2>1. renderers' = Append(rs, fresh) /\ registry' = [registry EXCEPT ![f] = n + 1] /\ o = n + 1
    BY <1>1, <1>2, <1>3, <1>4, <1>11
  <2>2. DestroysOnly(rs, {registry[f]})
    BY <1>0, DestroyedIs
  <2>3. /\ fresh \in SceneRenderers /\ fresh.floor = f /\ fresh.host = v /\ fresh.at = "starting"
        /\ ~ fresh.destroyed
    BY <1>1 DEF NewRenderer, SceneRenderers
  <2> HIDE DEF rs, fresh
  <2>4. /\ renderers' \in Seq(SceneRenderers) /\ DOMAIN renderers' = 1..(n + 1) /\ renderers'[n + 1] = fresh
        /\ \A q \in 1..n : renderers'[q] = rs[q]
    BY <2>1, <2>2, <2>3, AppendProperties DEF DestroysOnly
  <2> HIDE DEF n
  <2>5. n \in Nat /\ DOMAIN renderers = 1..n
    BY <1>4 DEF n
  <2>6. \A q \in DOMAIN renderers :
          /\ q \in DOMAIN renderers' /\ q # n + 1
          /\ renderers'[q].floor = renderers[q].floor /\ renderers'[q].host = renderers[q].host
          /\ renderers'[q].at = renderers[q].at /\ renderers'[q].shows = renderers[q].shows
          /\ renderers'[q].destroyed <=> (q = registry[f] \/ renderers[q].destroyed)
    BY <2>2, <2>4, <2>5 DEF DestroysOnly
  <2>7. /\ registry' \in [Floors -> Nat] /\ registry'[f] = n + 1
        /\ \A g \in Floors \ {f} : registry'[g] = registry[g]
    BY <1>1, <1>4, <2>1, <2>5
  <2>8. \A q \in DOMAIN renderers' : q = n + 1 \/ q \in DOMAIN renderers
    BY <2>4, <2>5
  <2>9. RegistryInOrder'
    <3> SUFFICES ASSUME NEW g \in Floors, registry'[g] # 0
                 PROVE  registry'[g] \in DOMAIN renderers' /\ renderers'[registry'[g]].floor = g
      BY DEF RegistryInOrder
    <3>1. CASE g = f
      BY <2>3, <2>4, <2>5, <2>7, <3>1
    <3>2. CASE g # f
      <4>1. registry'[g] = registry[g]
        BY <2>7, <3>2
      <4>2. registry[g] \in DOMAIN renderers /\ renderers[registry[g]].floor = g
        BY <4>1 DEF SceneInv, RegistryInOrder
      <4> QED
        BY <2>6, <4>1, <4>2
    <3> QED
      BY <3>1, <3>2
  <2>10. RenderersAreRegistered'
    <3> SUFFICES ASSUME NEW q \in DOMAIN renderers', ~ renderers'[q].destroyed
                 PROVE  registry'[renderers'[q].floor] = q
      BY DEF RenderersAreRegistered
    <3>1. CASE q = n + 1
      BY <2>3, <2>4, <2>7, <3>1
    <3>2. CASE q \in DOMAIN renderers
      <4>1. q # registry[f] /\ ~ renderers[q].destroyed /\ renderers'[q].floor = renderers[q].floor
        BY <2>6, <3>2
      <4>2. registry[renderers[q].floor] = q /\ renderers[q].floor \in Floors
        BY <1>0, <3>2, <4>1, RendererTyped DEF SceneInv, RenderersAreRegistered
      <4> QED
        BY <2>7, <4>1, <4>2
    <3> QED
      BY <2>8, <3>1, <3>2
  <2>11. GivenUpAreDestroyed'
    <3> SUFFICES ASSUME NEW q \in DOMAIN renderers', renderers'[q].at \in {"given up", "failed"}
                 PROVE  renderers'[q].destroyed
      BY DEF GivenUpAreDestroyed
    <3>1. q \in DOMAIN renderers
      BY <2>3, <2>4, <2>8
    <3> QED
      BY <2>6, <3>1 DEF SceneInv, GivenUpAreDestroyed
  <2>12. ASSUME NEW g \in Floors \ {f}, registry[g] # 0
         PROVE  renderers'[registry[g]] = renderers[registry[g]]
    <3>1. registry[g] \in DOMAIN renderers /\ renderers[registry[g]].floor = g
      BY <2>12 DEF SceneInv, RegistryInOrder
    <3>2. registry[g] # registry[f]
      BY <1>1, <2>12, <3>1 DEF SceneInv, RegistryInOrder
    <3>3. rs[registry[g]] = renderers[registry[g]]
      BY <3>1, <3>2 DEF Destroyed, rs
    <3> QED
      BY <2>4, <2>5, <3>1, <3>3
  <2>13. n + 1 \in DOMAIN renderers'
    BY <2>4, <2>5
  <2>14. RegisterInv'
    BY <2>9, <2>10, <2>11 DEF RegisterInv
  <2>15. /\ registry' \in [Floors -> Nat] /\ renderers' \in Seq(SceneRenderers) /\ RegisterInv'
         /\ \A r \in DOMAIN renderers : /\ r \in DOMAIN renderers'
                                        /\ renderers'[r].floor = renderers[r].floor
                                        /\ renderers'[r].host = renderers[r].host
    BY <2>4, <2>6, <2>7, <2>14
  <2>16. /\ o \in DOMAIN renderers' /\ renderers'[o].floor = f /\ renderers'[o].host = v
         /\ sync[k].sound => ~ renderers'[o].destroyed
    BY <2>1, <2>3, <2>4, <2>13 DEF n
  <2> QED
    BY <1>9, <2>7, <2>12, <2>15, <2>16
<1> QED
  BY <1>10, <1>11

-----------------------------------------------------------------------------
(* OfficeScene: the theorem.                                               *)

LEMMA SceneStarts == SceneInit => SceneInv
<1> SUFFICES ASSUME SceneInit PROVE SceneInv
  OBVIOUS
<1>1. /\ hosts = NoProjects /\ shells = 0 /\ newest = [f \in Floors |-> 1] /\ latest = NoProjects
      /\ registry = [f \in Floors |-> 0] /\ renderers = <<>> /\ sync = [k \in Syncs |-> NoSync]
  BY DEF SceneInit
<1>2. NoProjects \in [Floors -> Nat] /\ \A f \in Floors : NoProjects[f] = 0
  BY DEF NoProjects
<1>3. NoSync \in SceneSyncs /\ NoSync.at = "idle" /\ ~ NoSync.sound
  BY <1>2 DEF NoSync, SceneSyncs
<1>4. SceneTypeOK
  BY <1>1, <1>2, <1>3 DEF SceneTypeOK
<1>5. DOMAIN renderers = {} /\ \A k \in Syncs : sync[k].at = "idle" /\ ~ sync[k].sound
  BY <1>1, <1>3
<1>6. \A f \in Floors : registry[f] = 0 /\ hosts[f] = 0
  BY <1>1, <1>2
<1> QED
  BY <1>4, <1>5, <1>6 DEF SceneInv, RegistryInOrder, RenderersAreRegistered, GivenUpAreDestroyed,
     UselessAreWaited, SyncsInOrder, Busy, LatestIsNewest, SoundAreInOrder, FloorsAreRepaired

LEMMA SceneStep == SceneInv /\ [SceneNext]_sceneVars => SceneInv'
<1> SUFFICES ASSUME SceneInv, [SceneNext]_sceneVars PROVE SceneInv'
  OBVIOUS
<1>1. ASSUME NEW k \in Syncs, NEW S \in SUBSET Floors, NEW changed \in SUBSET Floors, NEW anew \in BOOLEAN,
             RendersMap(k, S, changed, anew)
      PROVE  SceneInv'
  BY <1>1, RendersMapKeeps
<1>2. ASSUME NEW changed \in SUBSET Floors, RendersTerminal(changed) PROVE SceneInv'
  BY <1>2, PageKeeps
<1>3. CASE RenderFails \/ Resized
  BY <1>3, PageKeeps
<1>4. ASSUME NEW k \in Syncs,
             \/ FrameComes(k) \/ RendererReady(k) \/ Draws(k) \/ DrawFails(k) \/ SyncEnds(k)
             \/ \E h \in sync[k].todo : SkipsHost(k, h) \/ TakesHost(k, h)
      PROVE  SceneInv'
  BY <1>4, FrameKeeps, ReadyKeeps, DrawKeeps, DrawFailureKeeps, EndKeeps, SkipKeeps, TakeKeeps
<1>5. ASSUME NEW r \in DOMAIN renderers, Starts(r) \/ StartFails(r) PROVE SceneInv'
  BY <1>5, StartsKeeps
<1>6. CASE UNCHANGED sceneVars
  BY <1>6, SceneStays DEF sceneVars
<1> QED
  BY <1>1, <1>2, <1>3, <1>4, <1>5, <1>6 DEF SceneNext

\* Every renderer in use is registered for its floor, and a sync that is alone and
\* undisturbed leaves each floor drawn in its host as it is newest, whatever calls
\* overlapped before (scene-renderer-source.ts, office-scene-lifecycle-source.ts).
THEOREM FloorsAreAlwaysDrawn == SceneSpec => []FloorsAreDrawn
<1>1. SceneInv => FloorsAreDrawn
  BY DEF SceneInv, FloorsAreDrawn
<1> QED
  BY <1>1, SceneStarts, SceneStep, PTL DEF SceneSpec

-----------------------------------------------------------------------------
(* AgentMotion.  A motion is sound by itself: it has a way to where it is  *)
(* going or none, it is live and drawn in full or a ghost, and a trip      *)
(* leads where trips lead.  What relates motions to the scene is lost by a *)
(* redraw that fails and made anew by the next one that does not.          *)

MotionFields ==
  {"room", "at", "route", "target", "slot", "exiting", "alpha", "trip", "home", "item"}
IsMotion(m) == m = [f \in MotionFields |-> m[f]]

\* A motion has a way to its target, or none.
OnItsWay(m) ==
  /\ m.target[2] # "hall"
  /\ m.route = <<>> \/ m.route = Way(m.at, m.target)

\* A live agent is drawn in full; a ghost rests nowhere and fades when it has arrived.
LivesOrFades(m) ==
  /\ m.exiting \in BOOLEAN /\ m.alpha \in 0..MaxAlpha
  /\ ~m.exiting => m.alpha = MaxAlpha
  /\ m.exiting => m.trip = None
  /\ m.alpha = 0 => m.exiting /\ m.route = <<>>

\* Trips lead to the facility and back to a place to rest.
TripLeads(m) ==
  /\ m.trip \in {None, "seated", "out", "back"}
  /\ m.trip # None => m.home[2] = "rest"
  /\ m.trip = "out" => m.target[2] = "facility"
  /\ m.trip = "back" => m.target[2] = "rest"

MotionIsSound(m) ==
  IsMotion(m) /\ m.room \in Rooms /\ OnItsWay(m) /\ LivesOrFades(m) /\ TripLeads(m)

SeatIsSound(s) ==
  /\ s.room \in Rooms
  /\ s.at[2] \in {"rest", "wait", "desk"}
  /\ s.rests <=> s.at[2] = "rest"

SeatsAreSound(seats) ==
  DOMAIN seats \subseteq Walkers /\ \A a \in DOMAIN seats : SeatIsSound(seats[a])

\* Ghosts have keys of their own, by the room they haunt.
KeyIsSound(k) ==
  k \in Walkers \/ (motions[k].exiting /\ \E a \in Walkers : k = <<a, motions[k].room>>)

\* The live motions are of those who were seated in the last redraw.
MotionsAreSound ==
  /\ motions = [k \in DOMAIN motions |-> motions[k]]
  /\ \A k \in DOMAIN motions : KeyIsSound(k) /\ MotionIsSound(motions[k])
  /\ {k \in DOMAIN motions : Live(motions[k])} = DOMAIN scene
  /\ animated \subseteq DOMAIN motions

\* The seats of a model that waits for its assets are of walkers.
PlanIsSound == plan = <<>> \/ (plan = <<plan[1]>> /\ SeatsAreSound(plan[1]))

\* Unless a redraw failed, what has a way to go, or fades, is animated.
WalkersAreAnimated ==
  ~botched =>
  \A k \in DOMAIN motions :
    ~Finished(motions[k]) \/ (motions[k].exiting /\ motions[k].alpha > 0) => k \in animated

\* One who is not astray has arrived where it was going; unless a redraw failed, its
\* home is its seat, and it is going there or sits there if it is not on its way out.
HomesAreSeats ==
  /\ \A a \in DOMAIN scene \ astray :
       Finished(motions[a]) => motions[a].at = motions[a].target
  /\ ~botched => \A a \in DOMAIN scene : motions[a].home = scene[a].at
  /\ ~botched => \A a \in DOMAIN scene \ astray :
       motions[a].trip # "out" => Near(motions[a].target, scene[a].at)

\* As long as nothing has failed, who was drawn and leaves is known to depart.
LeaversAreRemembered ==
  mishaps = 0 => seen \subseteq DOMAIN remembered /\ seen \subseteq memory \union departing

MotionInv ==
  /\ mishaps \in Nat
  /\ MotionsAreSound /\ PlanIsSound /\ SeatsAreSound(scene)
  /\ WalkersAreAnimated /\ HomesAreSeats /\ LeaversAreRemembered

-----------------------------------------------------------------------------

\* A way of two points.
LEMMA TwoPoints ==
  ASSUME NEW p, NEW q
  PROVE  /\ Head(<<p, q>>) = p /\ Tail(<<p, q>>) = <<q>>
         /\ <<p>> \o <<q>> = <<p, q>>
<1> DEFINE S == {p, q}
<1>1. <<p>> \in Seq(S) /\ <<q>> \in Seq(S) /\ <<p, q>> \in Seq(S)
  OBVIOUS
<1>2. Len(<<p>>) = 1 /\ Len(<<q>>) = 1 /\ Len(<<p, q>>) = 2
  OBVIOUS
<1>3. Len(<<p>> \o <<q>>) = 2 /\ <<p>> \o <<q>> \in Seq(S)
  BY <1>1, <1>2, ConcatProperties
<1>4. \A i \in 1..2 : (<<p>> \o <<q>>)[i] = <<p, q>>[i]
  BY <1>1, <1>2, ConcatProperties
<1>5. <<p>> \o <<q>> = <<p, q>>
  BY <1>1, <1>2, <1>3, <1>4, SeqEqual
<1>6. Head(<<p, q>>) = p
  OBVIOUS
<1>7. Tail(<<p, q>>) = <<q>>
  OBVIOUS
<1> QED  BY <1>5, <1>6, <1>7

\* What is left of a way, from its first point, is a way to the same place.
LEMMA WaysLead ==
  ASSUME NEW p, NEW q, q[2] # "hall", Way(p, q) # <<>>
  PROVE  /\ <<Head(Way(p, q))>> \o Tail(Way(p, q)) = Way(p, q)
         /\ \/ Tail(Way(p, q)) = <<>> /\ Head(Way(p, q)) = q
            \/ Tail(Way(p, q)) = Way(Head(Way(p, q)), q) /\ Tail(Way(p, q)) # <<>>
<1>1. CASE p = Hall(q[1])
  <2>1. Way(p, q) = <<q>>
    BY <1>1 DEF Way
  <2> QED  BY <2>1
<1>2. CASE p # Hall(q[1])
  <2>1. Way(p, q) = <<Hall(q[1]), q>>
    BY <1>2 DEF Way
  <2>2. Hall(q[1]) # q
    BY DEF Hall, Spot
  <2>3. Way(Hall(q[1]), q) = <<q>>
    BY <2>2 DEF Way
  <2>4. Head(<<Hall(q[1]), q>>) = Hall(q[1]) /\ Tail(<<Hall(q[1]), q>>) = <<q>>
        /\ <<Hall(q[1])>> \o <<q>> = <<Hall(q[1]), q>>
    BY TwoPoints
  <2> QED  BY <2>1, <2>3, <2>4
<1> QED  BY <1>1, <1>2

\* Only where one is already takes no way.
LEMMA WaysEnd ==
  ASSUME NEW p, NEW q, Way(p, q) = <<>>
  PROVE  p = q
BY DEF Way

\* Where one sits is near.
LEMMA NearIsReflexive ==
  ASSUME NEW p
  PROVE  Near(p, p)
BY DEF Near

\* The fields of what is made of a motion: one that goes on,
LEMMA ReusedFields ==
  ASSUME NEW m, IsMotion(m), NEW s, NEW who, NEW lost
  PROVE  LET r == Reused(who, m, s, lost)
             goes == Nudged(m, s) /\ who \notin lost IN
         /\ IsMotion(r)
         /\ r.room = m.room /\ r.at = m.at /\ r.exiting = m.exiting /\ r.alpha = m.alpha
         /\ r.target = IF goes THEN s.at ELSE m.target
         /\ r.route = IF goes THEN Way(m.at, s.at) ELSE m.route
         /\ r.trip = IF ~s.rests THEN None ELSE IF m.trip = None THEN "seated" ELSE m.trip
         /\ r.home = s.at
BY DEF Reused, IsMotion, MotionFields

\* one that leaves,
LEMMA GhostFields ==
  ASSUME NEW k, NEW m, IsMotion(m), NEW lost
  PROVE  LET r == Ghost(k, m, lost) IN
         /\ IsMotion(r)
         /\ r.room = m.room /\ r.at = m.at /\ r.exiting \in BOOLEAN /\ r.exiting /\ r.alpha = m.alpha
         /\ r.target = Door(m.room) /\ r.home = Door(m.room) /\ r.trip = None
         /\ r.route = IF m.exiting /\ Finished(m) THEN <<>> ELSE Route(k, m.at, Door(m.room), lost)
BY DEF Ghost, IsMotion, MotionFields

\* one whose item is put away,
LEMMA ItemPutAway ==
  ASSUME NEW m, IsMotion(m), NEW i
  PROVE  LET r == [m EXCEPT !.item = i] IN
         /\ IsMotion(r)
         /\ r.room = m.room /\ r.at = m.at /\ r.exiting = m.exiting /\ r.alpha = m.alpha
         /\ r.target = m.target /\ r.home = m.home /\ r.trip = m.trip /\ r.route = m.route
BY DEF IsMotion, MotionFields

-----------------------------------------------------------------------------

\* A way that is found, or not, leads from where one is to the target.
LEMMA RoutesLead ==
  ASSUME NEW k, NEW p, NEW q, NEW lost
  PROVE  Route(k, p, q, lost) = <<>> \/ Route(k, p, q, lost) = Way(p, q)
BY DEF Route

\* A motion that goes on keeps its trip if its agent still rests.
LEMMA ReusedIsSound ==
  ASSUME NEW m, MotionIsSound(m), NEW s, SeatIsSound(s), Reuses(m, s), NEW who, NEW lost
  PROVE  LET r == Reused(who, m, s, lost) IN
         /\ MotionIsSound(r) /\ ~r.exiting
         /\ r.room = m.room /\ r.room = s.room /\ r.at = m.at /\ r.home = s.at
         /\ s.rests /\ m.trip # None => r.trip = m.trip
<1> DEFINE r == Reused(who, m, s, lost)
           goes == Nudged(m, s) /\ who \notin lost
<1> HIDE DEF r, goes
<1>0. IsMotion(m) /\ m.room \in Rooms /\ OnItsWay(m) /\ LivesOrFades(m) /\ TripLeads(m)
  BY DEF MotionIsSound
<1>1. /\ IsMotion(r)
      /\ r.room = m.room /\ r.at = m.at /\ r.exiting = m.exiting /\ r.alpha = m.alpha
      /\ r.target = (IF goes THEN s.at ELSE m.target)
      /\ r.route = (IF goes THEN Way(m.at, s.at) ELSE m.route)
      /\ r.trip = (IF ~s.rests THEN None ELSE IF m.trip = None THEN "seated" ELSE m.trip)
      /\ r.home = s.at
  BY ReusedFields, <1>0 DEF r, goes
<1>2. ~m.exiting /\ m.room = s.room
  BY DEF Reuses
<1>3. s.at[2] \in {"rest", "wait", "desk"} /\ (s.rests <=> s.at[2] = "rest")
  BY DEF SeatIsSound
<1>4. goes => m.target[2] = "desk"
  BY DEF goes, Nudged, Near
<1>5. OnItsWay(r)
  BY <1>0, <1>1, <1>3 DEF OnItsWay
<1>6. LivesOrFades(r)
  BY <1>0, <1>1, <1>2, MotionAssumption DEF LivesOrFades
<1>7. TripLeads(r)
  BY <1>0, <1>1, <1>3, <1>4 DEF TripLeads, None
<1> QED  BY <1>0, <1>1, <1>2, <1>5, <1>6, <1>7 DEF MotionIsSound, r, None

\* A new motion leads to its seat, and has arrived only there if its way was found.
LEMMA NewMotionIsSound ==
  ASSUME NEW before, NEW start, NEW s, SeatIsSound(s), NEW who, NEW lost
  PROVE  LET r == NewMotion(who, before, start, s, lost) IN
         /\ MotionIsSound(r) /\ ~r.exiting
         /\ r.room = s.room /\ r.at = start /\ r.home = s.at /\ r.target = s.at
         /\ r.trip \in {None, "seated"}
         /\ who \notin lost /\ Finished(r) => r.at = s.at
<1> DEFINE r == NewMotion(who, before, start, s, lost)
<1> HIDE DEF r
<1>1. /\ IsMotion(r)
      /\ r.room = s.room /\ r.at = start /\ r.exiting \in BOOLEAN /\ ~r.exiting /\ r.alpha = MaxAlpha
      /\ r.target = s.at /\ r.route = Route(who, start, s.at, lost)
      /\ r.trip = (IF s.rests THEN "seated" ELSE None) /\ r.home = s.at
  BY DEF r, NewMotion, IsMotion, MotionFields
<1>2. s.room \in Rooms /\ s.at[2] \in {"rest", "wait", "desk"} /\ (s.rests <=> s.at[2] = "rest")
  BY DEF SeatIsSound
<1>3. OnItsWay(r)
  BY <1>1, <1>2, RoutesLead DEF OnItsWay
<1>4. LivesOrFades(r)
  BY <1>1, MotionAssumption DEF LivesOrFades
<1>5. TripLeads(r)
  BY <1>1, <1>2 DEF TripLeads, None
<1>6. who \notin lost /\ Finished(r) => r.at = s.at
  BY <1>1, WaysEnd DEF Finished, Route
<1> QED  BY <1>1, <1>2, <1>3, <1>4, <1>5, <1>6 DEF MotionIsSound, r

\* A ghost starts from where its agent was.
LEMMA GhostIsSound ==
  ASSUME NEW k, NEW m, MotionIsSound(m), NEW lost
  PROVE  LET r == Ghost(k, m, lost) IN
         /\ MotionIsSound(r) /\ r.exiting
         /\ r.room = m.room /\ r.at = m.at /\ r.alpha = m.alpha
<1> DEFINE r == Ghost(k, m, lost)
<1> HIDE DEF r
<1>0. IsMotion(m) /\ m.room \in Rooms /\ OnItsWay(m) /\ LivesOrFades(m) /\ TripLeads(m)
  BY DEF MotionIsSound
<1>1. /\ IsMotion(r)
      /\ r.room = m.room /\ r.at = m.at /\ r.exiting \in BOOLEAN /\ r.exiting /\ r.alpha = m.alpha
      /\ r.target = Door(m.room) /\ r.home = Door(m.room) /\ r.trip = None
      /\ r.route = IF m.exiting /\ Finished(m) THEN <<>> ELSE Route(k, m.at, Door(m.room), lost)
  BY GhostFields, <1>0 DEF r
<1>2. Door(m.room)[2] = "door"
  BY DEF Door, Spot
<1>3. OnItsWay(r)
  BY <1>1, <1>2, RoutesLead DEF OnItsWay
<1>4. LivesOrFades(r)
  BY <1>0, <1>1 DEF LivesOrFades, Finished
<1>5. TripLeads(r)
  BY <1>1 DEF TripLeads, None
<1> QED  BY <1>0, <1>1, <1>3, <1>4, <1>5 DEF MotionIsSound, r

\* A redraw that fails turns no one round and calls no one back.
LEMMA TouchedIsSound ==
  ASSUME NEW k, NEW m, MotionIsSound(m), NEW s, SeatIsSound(s)
  PROVE  LET r == Touched(k, m, s) IN
         /\ MotionIsSound(r) /\ r.exiting = m.exiting
         /\ r.room = m.room /\ r.at = m.at /\ r.alpha = m.alpha
         /\ m.trip \in {"out", "back"} => r.trip = m.trip
         /\ (Finished(m) => m.at = m.target) => (Finished(r) => r.at = r.target)
<1>0. IsMotion(m) /\ m.room \in Rooms /\ OnItsWay(m) /\ LivesOrFades(m) /\ TripLeads(m)
  BY DEF MotionIsSound
<1>1. CASE Reuses(m, s)
  <2>0. PICK lost : lost = {}
    OBVIOUS
  <2> DEFINE r == Reused(k, m, s, lost)
             goes == Nudged(m, s) /\ k \notin lost
  <2> HIDE DEF r, goes
  <2>1. Touched(k, m, s) = r
    BY <1>1, <2>0 DEF Touched, r
  <2>2. MotionIsSound(r) /\ ~r.exiting /\ r.room = m.room /\ r.at = m.at
    BY <1>1, ReusedIsSound DEF r
  <2>3. /\ r.alpha = m.alpha
        /\ r.target = (IF goes THEN s.at ELSE m.target)
        /\ r.route = (IF goes THEN Way(m.at, s.at) ELSE m.route)
        /\ r.trip = (IF ~s.rests THEN None ELSE IF m.trip = None THEN "seated" ELSE m.trip)
    BY <1>0, ReusedFields DEF r, goes
  <2>4. ~m.exiting
    BY <1>1 DEF Reuses
  <2>5. m.trip \in {"out", "back"} => s.rests
    BY <1>0, <1>1 DEF Reuses, OnTrip, TripLeads, Near, SeatIsSound, None
  <2>6. goes => Way(m.at, s.at) # <<>>
    BY DEF goes, Nudged
  <2>7. (Finished(m) => m.at = m.target) => (Finished(r) => r.at = r.target)
    BY <2>2, <2>3, <2>6 DEF Finished
  <2>8. r.exiting \in BOOLEAN /\ m.exiting \in BOOLEAN
    BY <1>0, <2>2 DEF MotionIsSound, LivesOrFades
  <2>9. r.exiting = m.exiting
    BY <2>2, <2>4, <2>8
  <2>10. m.trip \in {"out", "back"} => r.trip = m.trip
    BY <2>3, <2>5 DEF None
  <2> QED  BY <2>1, <2>2, <2>3, <2>7, <2>9, <2>10
<1>2. CASE ~Reuses(m, s)
  <2>1. PICK i : Touched(k, m, s) = [m EXCEPT !.item = i]
    BY <1>2 DEF Touched
  <2>2. LET r == Touched(k, m, s) IN
        /\ IsMotion(r)
        /\ r.room = m.room /\ r.at = m.at /\ r.exiting = m.exiting /\ r.alpha = m.alpha
        /\ r.target = m.target /\ r.home = m.home /\ r.trip = m.trip /\ r.route = m.route
    BY <1>0, <2>1, ItemPutAway
  <2> QED
    BY <1>0, <2>2 DEF MotionIsSound, OnItsWay, LivesOrFades, TripLeads, Finished
<1> QED  BY <1>1, <1>2

\* One who is back in a seat that has not moved, or was only nudged, stays.
LEMMA ReusedSits ==
  ASSUME NEW m, MotionIsSound(m), NEW s, SeatIsSound(s), Reuses(m, s), NEW who, NEW lost,
         ~(m.trip = "back" /\ m.target # s.at)
  PROVE  LET r == Reused(who, m, s, lost) IN
         /\ r.trip # "out" => Near(r.target, s.at)
         /\ who \notin lost /\ (Finished(m) => m.at = m.target) => (Finished(r) => r.at = r.target)
<1> DEFINE r == Reused(who, m, s, lost)
           goes == Nudged(m, s) /\ who \notin lost
<1> HIDE DEF r, goes
<1>0. IsMotion(m) /\ m.room \in Rooms /\ OnItsWay(m) /\ LivesOrFades(m) /\ TripLeads(m)
  BY DEF MotionIsSound
<1>1. /\ r.at = m.at
      /\ r.target = (IF goes THEN s.at ELSE m.target)
      /\ r.route = (IF goes THEN Way(m.at, s.at) ELSE m.route)
      /\ r.trip = (IF ~s.rests THEN None ELSE IF m.trip = None THEN "seated" ELSE m.trip)
  BY ReusedFields, <1>0 DEF r, goes
<1>2. goes => Way(m.at, s.at) # <<>>
  BY DEF goes, Nudged
<1>3. ASSUME r.trip # "out" PROVE Near(r.target, s.at)
  <2>1. CASE goes
    BY <1>1, <2>1, NearIsReflexive
  <2>2. CASE ~goes /\ OnTrip(m, s)
    <3>1. m.trip = "back"
      BY <1>1, <1>3, <2>2 DEF OnTrip, None
    <3> QED  BY <1>1, <2>2, <3>1, NearIsReflexive
  <2>3. CASE ~goes /\ ~OnTrip(m, s)
    BY <1>1, <2>3, NearIsReflexive DEF Reuses
  <2> QED  BY <2>1, <2>2, <2>3
<1>4. who \notin lost /\ (Finished(m) => m.at = m.target) => (Finished(r) => r.at = r.target)
  BY <1>1, <1>2 DEF Finished
<1> QED  BY <1>3, <1>4 DEF r

-----------------------------------------------------------------------------

\* One that is sent on a trip, one that is back from it, and one that fades.
LEMMA GoingOutFields ==
  ASSUME NEW m, IsMotion(m), NEW place, NEW trip
  PROVE  LET r == [Sent(m, place) EXCEPT !.trip = trip] IN
         /\ IsMotion(r)
         /\ r.room = m.room /\ r.at = m.at /\ r.exiting = m.exiting /\ r.alpha = m.alpha
         /\ r.target = place /\ r.home = m.home /\ r.trip = trip /\ r.route = Way(m.at, place)
BY DEF Sent, IsMotion, MotionFields

LEMMA SeatedFields ==
  ASSUME NEW m, IsMotion(m), NEW trip
  PROVE  LET r == [m EXCEPT !.trip = trip] IN
         /\ IsMotion(r)
         /\ r.room = m.room /\ r.at = m.at /\ r.exiting = m.exiting /\ r.alpha = m.alpha
         /\ r.target = m.target /\ r.home = m.home /\ r.trip = trip /\ r.route = m.route
BY DEF IsMotion, MotionFields

LEMMA FadedFields ==
  ASSUME NEW m, IsMotion(m), NEW alpha
  PROVE  LET r == [m EXCEPT !.alpha = alpha] IN
         /\ IsMotion(r)
         /\ r.room = m.room /\ r.at = m.at /\ r.exiting = m.exiting /\ r.alpha = alpha
         /\ r.target = m.target /\ r.home = m.home /\ r.trip = m.trip /\ r.route = m.route
BY DEF IsMotion, MotionFields

\* What a frame keeps of a motion, whichever of its parts makes it.
KeepsOn(m, w) ==
  /\ MotionIsSound(w) /\ w.exiting = m.exiting /\ w.room = m.room /\ w.home = m.home
  /\ (Finished(m) => m.at = m.target) => (Finished(w) => w.at = w.target)
  /\ ~Finished(m) => w.trip = m.trip
  /\ w.trip # "out" => (w.target = m.target /\ m.trip # "out") \/ w.target = m.home

\* Putting an item away changes nothing else.
LEMMA HeldIsSound ==
  ASSUME NEW m, MotionIsSound(m), NEW h \in Held(m)
  PROVE  KeepsOn(m, h) /\ h.at = m.at /\ h.alpha = m.alpha /\ h.route = m.route
         /\ h.trip = m.trip /\ h.target = m.target
<1>0. IsMotion(m)
  BY DEF MotionIsSound
<1>1. /\ IsMotion(h)
      /\ h.room = m.room /\ h.at = m.at /\ h.exiting = m.exiting /\ h.alpha = m.alpha
      /\ h.target = m.target /\ h.home = m.home /\ h.trip = m.trip /\ h.route = m.route
  <2>1. CASE h = m
    BY <1>0, <2>1
  <2>2. CASE h # m
    <3>1. PICK i : h = [m EXCEPT !.item = i]
      BY <2>2 DEF Held
    <3> QED  BY <1>0, <3>1 DEF IsMotion, MotionFields
  <2> QED  BY <2>1, <2>2
<1>2. MotionIsSound(h)
  BY <1>1 DEF MotionIsSound, OnItsWay, LivesOrFades, TripLeads
<1>3. m.trip = "out" => h.trip = "out"
  BY <1>1
<1> QED  BY <1>1, <1>2, <1>3 DEF KeepsOn, Finished

\* A trip begins from a seat, turns where it led to, and ends at home.
LEMMA TripsAreSound ==
  ASSUME NEW m, MotionIsSound(m), ~m.exiting, NEW t \in Trips(m)
  PROVE  KeepsOn(m, t) /\ t.at = m.at /\ t.alpha = m.alpha
<1>0. IsMotion(m) /\ m.room \in Rooms /\ OnItsWay(m) /\ LivesOrFades(m) /\ TripLeads(m)
  BY DEF MotionIsSound
<1>1. CASE t = m
  BY <1>1 DEF KeepsOn
<1>2. CASE ~Finished(m) \/ m.trip = None
  <2>1. t = m
    BY <1>2 DEF Trips
  <2> QED  BY <2>1, <1>1
<1>3. CASE Finished(m) /\ m.trip = "out"
  <2>1. PICK i : t = [Sent(m, m.home) EXCEPT !.trip = "back", !.item = i]
    BY <1>3 DEF Trips, None
  <2>2. /\ IsMotion(t)
        /\ t.room = m.room /\ t.at = m.at /\ t.exiting = m.exiting /\ t.alpha = m.alpha
        /\ t.target = m.home /\ t.home = m.home /\ t.trip = "back"
        /\ t.route = Way(m.at, m.home)
    BY <1>0, <2>1 DEF Sent, IsMotion, MotionFields
  <2>3. m.home[2] = "rest"
    BY <1>0, <1>3 DEF TripLeads, None
  <2>4. OnItsWay(t) /\ TripLeads(t) /\ LivesOrFades(t)
    BY <1>0, <2>2, <2>3 DEF OnItsWay, TripLeads, LivesOrFades, None
  <2>5. Finished(t) => t.at = t.target
    BY <2>2, WaysEnd DEF Finished
  <2> QED  BY <1>0, <1>3, <2>2, <2>4, <2>5 DEF MotionIsSound, KeepsOn
<1>4. CASE Finished(m) /\ m.trip = "back"
  <2>1. t = [m EXCEPT !.trip = "seated"]
    BY <1>4 DEF Trips, None
  <2>2. /\ IsMotion(t)
        /\ t.room = m.room /\ t.at = m.at /\ t.exiting = m.exiting /\ t.alpha = m.alpha
        /\ t.target = m.target /\ t.home = m.home /\ t.trip = "seated" /\ t.route = m.route
    BY <1>0, <2>1, SeatedFields
  <2>4. OnItsWay(t) /\ TripLeads(t) /\ LivesOrFades(t)
    BY <1>0, <1>4, <2>2 DEF OnItsWay, TripLeads, LivesOrFades, None
  <2> QED  BY <1>0, <1>4, <2>2, <2>4 DEF MotionIsSound, KeepsOn, Finished
<1>5. CASE Finished(m) /\ m.trip = "seated" /\ t # m
  <2>1. t = [Sent(m, Facility(m.room)) EXCEPT !.trip = "out"]
    BY <1>5 DEF Trips, None
  <2>2. /\ IsMotion(t)
        /\ t.room = m.room /\ t.at = m.at /\ t.exiting = m.exiting /\ t.alpha = m.alpha
        /\ t.target = Facility(m.room) /\ t.home = m.home /\ t.trip = "out"
        /\ t.route = Way(m.at, Facility(m.room))
    BY <1>0, <2>1, GoingOutFields
  <2>3. Facility(m.room)[2] = "facility"
    BY DEF Facility, Spot
  <2>4. OnItsWay(t) /\ TripLeads(t) /\ LivesOrFades(t)
    BY <1>0, <1>5, <2>2, <2>3 DEF OnItsWay, TripLeads, LivesOrFades, None
  <2>5. Finished(t) => t.at = t.target
    BY <2>2, WaysEnd DEF Finished
  <2> QED  BY <1>0, <1>5, <2>2, <2>4, <2>5 DEF MotionIsSound, KeepsOn
<1> QED  BY <1>0, <1>1, <1>2, <1>3, <1>4, <1>5 DEF TripLeads

\* One walks its way a point at a time.
LEMMA WalkedIsSound ==
  ASSUME NEW m, MotionIsSound(m), NEW w \in Walked(m)
  PROVE  /\ MotionIsSound(w) /\ w.exiting = m.exiting /\ w.room = m.room /\ w.home = m.home
         /\ w.target = m.target /\ w.trip = m.trip /\ w.alpha = m.alpha
         /\ (Finished(m) => m.at = m.target) => (Finished(w) => w.at = w.target)
         /\ w.at # m.at => <<w.at>> \o w.route = Way(m.at, w.target)
<1>0. IsMotion(m) /\ m.room \in Rooms /\ OnItsWay(m) /\ LivesOrFades(m) /\ TripLeads(m)
  BY DEF MotionIsSound
<1>1. CASE w = m
  BY <1>1
<1>2. CASE w # m
  <2>1. ~Finished(m) /\ w = [m EXCEPT !.at = Head(m.route), !.route = Tail(m.route)]
    BY <1>2 DEF Walked
  <2>2. /\ IsMotion(w)
        /\ w.room = m.room /\ w.at = Head(m.route) /\ w.exiting = m.exiting
        /\ w.alpha = m.alpha /\ w.target = m.target /\ w.home = m.home
        /\ w.trip = m.trip /\ w.route = Tail(m.route)
    BY <1>0, <2>1 DEF IsMotion, MotionFields
  <2>3. m.route = Way(m.at, m.target) /\ m.route # <<>> /\ m.target[2] # "hall"
    BY <1>0, <2>1 DEF OnItsWay, Finished
  <2>4. /\ <<Head(m.route)>> \o Tail(m.route) = Way(m.at, m.target)
        /\ \/ Tail(m.route) = <<>> /\ Head(m.route) = m.target
           \/ Tail(m.route) = Way(Head(m.route), m.target) /\ Tail(m.route) # <<>>
    BY <2>3, WaysLead
  <2>5. OnItsWay(w)
    BY <2>2, <2>3, <2>4 DEF OnItsWay
  <2>6. LivesOrFades(w) /\ TripLeads(w)
    BY <1>0, <2>2, <2>3 DEF LivesOrFades, TripLeads
  <2>7. Finished(w) => w.at = w.target
    BY <2>2, <2>4 DEF Finished
  <2> QED  BY <1>0, <2>2, <2>4, <2>5, <2>6, <2>7 DEF MotionIsSound
<1> QED  BY <1>1, <1>2

\* Only a ghost that has arrived fades.
LEMMA FadedIsSound ==
  ASSUME NEW m, MotionIsSound(m)
  PROVE  LET f == Faded(m) IN
         /\ MotionIsSound(f) /\ f.exiting = m.exiting /\ f.room = m.room /\ f.home = m.home
         /\ f.target = m.target /\ f.trip = m.trip /\ f.at = m.at /\ f.route = m.route
         /\ f.alpha <= m.alpha
<1> DEFINE f == Faded(m)
<1> HIDE DEF f
<1>0. IsMotion(m) /\ m.room \in Rooms /\ OnItsWay(m) /\ LivesOrFades(m) /\ TripLeads(m)
  BY DEF MotionIsSound
<1>1. m.alpha \in 0..MaxAlpha /\ MaxAlpha \in Nat
  BY <1>0, MotionAssumption DEF LivesOrFades
<1>2. CASE f = m
  BY <1>1, <1>2 DEF f
<1>3. CASE m.exiting /\ Finished(m) /\ m.alpha > 0
  <2>1. f = [m EXCEPT !.alpha = m.alpha - 1]
    BY <1>3 DEF f, Faded
  <2>2. /\ IsMotion(f)
        /\ f.room = m.room /\ f.at = m.at /\ f.exiting = m.exiting /\ f.alpha = m.alpha - 1
        /\ f.target = m.target /\ f.home = m.home /\ f.trip = m.trip /\ f.route = m.route
    BY <1>0, <2>1, FadedFields
  <2>3. OnItsWay(f) /\ TripLeads(f)
    BY <1>0, <2>2 DEF OnItsWay, TripLeads
  <2>4. LivesOrFades(f)
    BY <1>0, <1>1, <1>3, <2>2 DEF LivesOrFades, Finished
  <2> QED  BY <1>0, <1>1, <2>2, <2>3, <2>4 DEF MotionIsSound, f
<1> QED  BY <1>2, <1>3 DEF f, Faded

\* A frame takes a motion at most one point further on its way.
LEMMA FramedIsSound ==
  ASSUME NEW m, MotionIsSound(m), NEW w \in Framed(m)
  PROVE  /\ KeepsOn(m, w) /\ w.alpha <= m.alpha
         /\ w.at # m.at => <<w.at>> \o w.route = Way(m.at, w.target)
<1>1. PICK t, x : /\ KeepsOn(m, t) /\ t.at = m.at /\ t.alpha = m.alpha
                  /\ x \in Walked(t) /\ w = Faded(x)
  <2>1. CASE m.exiting
    <3>1. PICK x : x \in Walked(m) /\ w = Faded(x)
      BY <2>1 DEF Framed
    <3>2. KeepsOn(m, m)
      <4>1. m.trip # "out" => (m.target = m.target /\ m.trip # "out")
        OBVIOUS
      <4> QED  BY <4>1 DEF KeepsOn
    <3> QED  BY <3>1, <3>2
  <2>2. CASE ~m.exiting
    <3>1. PICK h, t, x : h \in Held(m) /\ t \in Trips(h) /\ x \in Walked(t) /\ w = Faded(x)
      BY <2>2 DEF Framed
    <3>2. /\ KeepsOn(m, h) /\ h.at = m.at /\ h.alpha = m.alpha /\ h.route = m.route
          /\ h.trip = m.trip /\ h.target = m.target
      BY <3>1, HeldIsSound
    <3>3. MotionIsSound(h) /\ ~h.exiting
      BY <2>2, <3>2 DEF KeepsOn
    <3>4. KeepsOn(h, t) /\ t.at = h.at /\ t.alpha = h.alpha
      BY <3>1, <3>3, TripsAreSound
    <3>5. KeepsOn(m, t)
      BY <3>2, <3>4 DEF KeepsOn, Finished
    <3> QED  BY <3>1, <3>2, <3>4, <3>5
  <2> QED  BY <2>1, <2>2
<1>2. MotionIsSound(t)
  BY <1>1 DEF KeepsOn
<1>3. /\ MotionIsSound(x) /\ x.exiting = t.exiting /\ x.room = t.room /\ x.home = t.home
      /\ x.target = t.target /\ x.trip = t.trip /\ x.alpha = t.alpha
      /\ (Finished(t) => t.at = t.target) => (Finished(x) => x.at = x.target)
      /\ x.at # t.at => <<x.at>> \o x.route = Way(t.at, x.target)
  BY <1>1, <1>2, WalkedIsSound
<1>4. /\ MotionIsSound(w) /\ w.exiting = x.exiting /\ w.room = x.room /\ w.home = x.home
      /\ w.target = x.target /\ w.trip = x.trip /\ w.at = x.at /\ w.route = x.route
      /\ w.alpha <= x.alpha
  BY <1>1, <1>3, FadedIsSound
<1> QED  BY <1>1, <1>3, <1>4 DEF KeepsOn, Finished

-----------------------------------------------------------------------------

\* Whatever motion an agent had, a redraw leaves it where it was, or at the door of a
\* room that is new to it, and sends it to its seat unless it is on a trip.
LEMMA MotionForIsSound ==
  ASSUME NEW a, NEW s, SeatIsSound(s), NEW entry, NEW lost,
         a \in DOMAIN motions => MotionIsSound(motions[a]),
         NEW r, r = MotionFor(a, s, entry, lost)
  PROVE  /\ MotionIsSound(r) /\ ~r.exiting /\ r.room = s.room /\ r.home = s.at
         /\ a \in DOMAIN motions =>
              /\ motions[a].room = s.room => r.at = motions[a].at
              /\ motions[a].room # s.room => r.at = Door(s.room)
              /\ motions[a].room = s.room /\ s.rests /\ motions[a].trip \in {"out", "back"}
                   => r.trip = motions[a].trip
         /\ /\ a \notin lost
            /\ a \in DOMAIN motions /\ Reuses(motions[a], s) =>
                 /\ ~(motions[a].trip = "back" /\ motions[a].target # s.at)
                 /\ Finished(motions[a]) => motions[a].at = motions[a].target
            => /\ r.trip # "out" => Near(r.target, s.at)
               /\ Finished(r) => r.at = r.target
<1> DEFINE m == motions[a]
<1>1. ASSUME NEW before, NEW start, r = NewMotion(a, before, start, s, lost)
      PROVE  /\ MotionIsSound(r) /\ ~r.exiting /\ r.room = s.room /\ r.home = s.at
             /\ r.at = start
             /\ a \notin lost =>
                  /\ r.trip # "out" => Near(r.target, s.at)
                  /\ Finished(r) => r.at = r.target
  BY <1>1, NewMotionIsSound, NearIsReflexive
<1>2. CASE a \notin DOMAIN motions
  <2>1. r = NewMotion(a, <<>>, entry, s, lost)
    BY <1>2 DEF MotionFor
  <2> QED  BY <1>1, <1>2, <2>1
<1>3. CASE a \in DOMAIN motions /\ m.room # s.room
  <2>1. r = NewMotion(a, <<>>, Door(s.room), s, lost)
    BY <1>3 DEF MotionFor
  <2> QED  BY <1>1, <1>3, <2>1
<1>4. CASE a \in DOMAIN motions /\ m.room = s.room /\ ~Reuses(m, s)
  <2>1. r = NewMotion(a, <<m>>, m.at, s, lost)
    BY <1>4 DEF MotionFor
  <2>2. m.trip \notin {"out", "back"} \/ ~s.rests
    BY <1>4 DEF MotionIsSound, LivesOrFades, Reuses, OnTrip, None
  <2> QED  BY <1>1, <1>4, <2>1, <2>2
<1>5. CASE a \in DOMAIN motions /\ m.room = s.room /\ Reuses(m, s)
  <2>1. r = Reused(a, m, s, lost)
    BY <1>5 DEF MotionFor
  <2>2. /\ MotionIsSound(r) /\ ~r.exiting
        /\ r.room = m.room /\ r.room = s.room /\ r.at = m.at /\ r.home = s.at
        /\ s.rests /\ m.trip # None => r.trip = m.trip
    BY <1>5, <2>1, ReusedIsSound
  <2>3. ~(m.trip = "back" /\ m.target # s.at) =>
         /\ r.trip # "out" => Near(r.target, s.at)
         /\ a \notin lost /\ (Finished(m) => m.at = m.target) => (Finished(r) => r.at = r.target)
    BY <1>5, <2>1, ReusedSits
  <2> QED  BY <1>5, <2>2, <2>3 DEF None
<1> QED  BY <1>2, <1>3, <1>4, <1>5

-----------------------------------------------------------------------------

LEMMA MotionInitInv == MotionInit => MotionInv
<1> SUFFICES ASSUME MotionInit PROVE MotionInv
  OBVIOUS
<1>1. DOMAIN NoMotions = {} /\ NoMotions = [k \in DOMAIN NoMotions |-> NoMotions[k]]
  BY DEF NoMotions
<1>2. MotionsAreSound
  BY <1>1 DEF MotionInit, MotionsAreSound
<1>3. PlanIsSound /\ SeatsAreSound(scene) /\ mishaps \in Nat
  BY <1>1 DEF MotionInit, PlanIsSound, SeatsAreSound
<1>4. WalkersAreAnimated /\ HomesAreSeats /\ LeaversAreRemembered
  BY <1>1 DEF MotionInit, WalkersAreAnimated, HomesAreSeats, LeaversAreRemembered
<1> QED  BY <1>2, <1>3, <1>4 DEF MotionInv

\* A renderer that goes takes all motions with it.
LEMMA RendererGoesInv ==
  ASSUME MotionInv, NEW failed, RendererGoes(failed)
  PROVE  MotionInv'
<1>1. DOMAIN NoMotions = {} /\ NoMotions = [k \in DOMAIN NoMotions |-> NoMotions[k]]
  BY DEF NoMotions
<1>2. MotionsAreSound'
  BY <1>1 DEF RendererGoes, MotionsAreSound
<1>3. PlanIsSound' /\ SeatsAreSound(scene)' /\ mishaps' \in Nat /\ mishaps' # 0
  BY <1>1 DEF RendererGoes, PlanIsSound, SeatsAreSound, MotionInv
<1>4. WalkersAreAnimated' /\ HomesAreSeats' /\ LeaversAreRemembered'
  BY <1>1, <1>3 DEF RendererGoes, WalkersAreAnimated, HomesAreSeats, LeaversAreRemembered
<1> QED  BY <1>2, <1>3, <1>4 DEF MotionInv

\* Who leaves the page is remembered to have been drawn, and departs.
LEMMA RendersInv ==
  ASSUME MotionInv, NEW d, NEW sh, NEW hydrated, NEW expired, Renders(d, sh, hydrated, expired)
  PROVE  MotionInv'
<1>1. UNCHANGED <<recSlots, remembered, plan, scene, motions, animated, astray, seen, botched>>
  BY DEF Renders
<1>2. MotionsAreSound' /\ PlanIsSound' /\ SeatsAreSound(scene)' /\ WalkersAreAnimated'
      /\ HomesAreSeats'
  BY <1>1 DEF MotionInv, MotionsAreSound, KeyIsSound, PlanIsSound, SeatsAreSound,
       WalkersAreAnimated, HomesAreSeats
<1>3. mishaps \in Nat /\ mishaps' = (IF expired = {} THEN mishaps ELSE mishaps + 1)
  BY DEF Renders, MotionInv
<1>4. ASSUME mishaps' = 0
      PROVE  /\ seen' \subseteq DOMAIN remembered'
             /\ seen' \subseteq memory' \union departing'
  <2>1. expired = {} /\ mishaps = 0
    BY <1>3, <1>4
  <2>2. /\ memory' = OnPage(d)
        /\ departing' = (departing \union {a \in memory \ OnPage(d) : a \in DOMAIN remembered})
                          \ OnPage(d)
    BY <2>1 DEF Renders
  <2>3. seen \subseteq DOMAIN remembered /\ seen \subseteq memory \union departing
    BY <2>1 DEF MotionInv, LeaversAreRemembered
  <2> QED  BY <1>1, <2>2, <2>3
<1> QED  BY <1>2, <1>3, <1>4 DEF MotionInv, LeaversAreRemembered

\* Slots are given to those who are there.
LEMMA SlotsAreOfThose ==
  ASSUME NEW before, NEW S, NEW limit, NEW f \in StableSlots(before, S, limit)
  PROVE  DOMAIN f \subseteq S
<1> DEFINE K == {a \in S \cap DOMAIN before : before[a] < limit}
<1>1. PICK N \in SUBSET (S \ K) : f \in Filled(before, K, N, 0..(limit - 1))
  BY Zenon DEF StableSlots
<1>2. K \subseteq S
  OBVIOUS
<1> HIDE DEF K
<1> QED  BY <1>1, <1>2 DEF Filled

\* So are desks.
LEMMA DesksAreOfThose ==
  ASSUME NEW S, NEW f \in DeskSlots(S)
  PROVE  DOMAIN f \subseteq S
<1>1. PICK K, slots : K \subseteq S /\ f \in Filled(remembered, K, S \ K, slots)
  BY DEF DeskSlots
<1> QED  BY <1>1 DEF Filled

\* The seats of a model are places to rest, to wait or to work, in rooms there are.
LEMMA PlansInv ==
  ASSUME MotionInv, NEW rec \in RecSlots, NEW desks \in Desks, Plans(rec, desks)
  PROVE  MotionInv'
<1> DEFINE seats == SeatsOf(rec, desks)
<1>1. DOMAIN rec.rest \subseteq Walkers /\ DOMAIN rec.wait \subseteq Walkers
  <2>1. PICK r \in StableSlots(recSlots.rest, Those("rest"), RestLimit),
             w \in StableSlots(recSlots.wait, Those("wait"), Cardinality(Walkers)) :
          rec = [rest |-> r, wait |-> w]
    BY DEF RecSlots
  <2>2. DOMAIN r \subseteq Those("rest") /\ DOMAIN w \subseteq Those("wait")
    BY SlotsAreOfThose
  <2> QED  BY <2>1, <2>2 DEF Those
<1>2. ASSUME NEW r \in Rooms
      PROVE  DOMAIN desks[r] \subseteq {a \in Walkers : doing[a] = r}
  BY DesksAreOfThose DEF Desks, Those
<1>3. DOMAIN seats = DOMAIN rec.rest \union DOMAIN rec.wait \union UNION {DOMAIN desks[r] : r \in Rooms}
  BY DEF SeatsOf
<1>4. DOMAIN seats \subseteq Walkers
  BY <1>1, <1>2, <1>3
<1>5. ASSUME NEW a \in DOMAIN seats
      PROVE  SeatIsSound(seats[a])
  <2>1. ASSUME NEW room \in Rooms, NEW what \in {"rest", "wait", "desk"}, NEW i, NEW slot
        PROVE  SeatIsSound(Seat(room, what, i, slot, a))
    BY DEF SeatIsSound, Seat, Spot
  <2>2. CASE a \in DOMAIN rec.rest
    <3>1. seats[a] = Seat(Primary, "rest", rec.rest[a], 0, a)
      BY <2>2, <1>3 DEF SeatsOf
    <3> QED  BY <2>1, <3>1, MotionAssumption
  <2>3. CASE a \notin DOMAIN rec.rest /\ a \in DOMAIN rec.wait
    <3>1. seats[a] = Seat(Primary, "wait", rec.wait[a], 0, a)
      BY <2>3, <1>3 DEF SeatsOf
    <3> QED  BY <2>1, <3>1, MotionAssumption
  <2>4. CASE a \notin DOMAIN rec.rest /\ a \notin DOMAIN rec.wait
    <3>1. PICK r \in Rooms : a \in DOMAIN desks[r]
      BY <1>3, <2>4
    <3>2. doing[a] \in Rooms
      BY <1>2, <3>1
    <3>3. seats[a] = Seat(doing[a], "desk", desks[doing[a]][a], desks[doing[a]][a], a)
      BY <2>4, <1>3 DEF SeatsOf
    <3> QED  BY <2>1, <3>2, <3>3
  <2> QED  BY <2>2, <2>3, <2>4
<1>6. SeatsAreSound(seats)
  BY <1>4, <1>5 DEF SeatsAreSound
<1> HIDE DEF seats
<1>7. plan' = <<seats>>
  BY DEF Plans, seats
<1>8. PlanIsSound'
  <2>1. plan'[1] = seats
    BY <1>7
  <2> QED  BY <1>6, <1>7, <2>1 DEF PlanIsSound, SeatsAreSound
<1>9. UNCHANGED <<memory, departing, remembered, scene, motions, animated, astray, seen,
                  botched, mishaps>>
  BY DEF Plans
<1> QED
  BY <1>8, <1>9 DEF MotionInv, MotionsAreSound, KeyIsSound, SeatsAreSound,
       WalkersAreAnimated, HomesAreSeats, LeaversAreRemembered

\* What a redraw draws: the agents of its model, live, and the ghosts of others.
LEMMA RedrawnMotions ==
  ASSUME MotionInv, NEW lost, Redraws(lost)
  PROVE  /\ SeatsAreSound(plan[1])
         /\ \A a \in DOMAIN plan[1] :
              /\ a \in DOMAIN motions'
              /\ \E entry : motions'[a] = MotionFor(a, plan[1][a], entry, lost)
              /\ MotionIsSound(motions'[a]) /\ ~motions'[a].exiting
              /\ motions'[a].room = plan[1][a].room /\ motions'[a].home = plan[1][a].at
         /\ \A k \in DOMAIN motions' \ DOMAIN plan[1] :
              \/ \E a \in Crossing(plan[1]) :
                   k = <<a, motions[a].room>> /\ motions'[k] = Ghost(a, motions[a], lost)
              \/ k \in DOMAIN motions /\ motions'[k] = Ghost(k, motions[k], lost)
         /\ \A a \in Crossing(plan[1]) :
              LET g == <<a, motions[a].room>> IN
              g \in DOMAIN motions' /\ motions'[g] = Ghost(a, motions[a], lost)
         /\ Lingering(plan[1]) \union Departed(plan[1]) \subseteq DOMAIN motions'
         /\ motions' = [k \in DOMAIN motions' |-> motions'[k]]
<1> DEFINE new == plan[1]
<1>1. SeatsAreSound(new) /\ SeatsAreSound(scene) /\ MotionsAreSound
  BY DEF Redraws, MotionInv, PlanIsSound
<1>2. motions' = Moved(new, lost)
  BY DEF Redraws
<1> HIDE DEF new
<1>3. /\ motions' = [k \in DOMAIN motions' |-> motions'[k]]
      /\ DOMAIN motions' = DOMAIN new \union GhostKeys(new) \union Lingering(new) \union Departed(new)
      /\ \A a \in DOMAIN new : \E entry : motions'[a] = MotionFor(a, new[a], entry, lost)
      /\ \A a \in Crossing(new) :
           LET g == <<a, motions[a].room>> IN
           /\ g \in DOMAIN motions' \ DOMAIN new
           /\ motions'[g] = Ghost(a, motions[a], lost)
      /\ \A k \in Lingering(new) \union Departed(new) :
           /\ k \in DOMAIN motions /\ k \notin DOMAIN new
           /\ motions'[k] = Ghost(k, motions[k], lost)
  <2>1. PICK moved : moved = Moved(new, lost)
    OBVIOUS
  <2>2. motions' = moved
    BY <1>2, <2>1
  <2>4. /\ moved = [k \in DOMAIN moved |-> moved[k]]
        /\ DOMAIN moved = DOMAIN new \union GhostKeys(new) \union Lingering(new) \union Departed(new)
    BY <2>1 DEF Moved
  <2>5. ASSUME NEW a \in DOMAIN new
        PROVE  \E entry : moved[a] = MotionFor(a, new[a], entry, lost)
    <3>1. moved[a] = MotionFor(a, new[a], EntryPoints(new)[a], lost)
      BY <2>1, <2>5 DEF Moved
    <3> QED  BY <3>1
  <2>6. ASSUME NEW a \in Crossing(new)
        PROVE  LET g == <<a, motions[a].room>> IN
               /\ g \in DOMAIN moved \ DOMAIN new
               /\ moved[g] = Ghost(a, motions[a], lost)
    <3> DEFINE g == <<a, motions[a].room>>
    <3>1. a \in Walkers /\ motions[a].room \in Rooms
      BY <1>1 DEF Crossing, MotionsAreSound, MotionIsSound, SeatsAreSound
    <3>2. g \notin DOMAIN new
      BY <1>1, <3>1, MotionAssumption DEF SeatsAreSound
    <3>3. g \in GhostKeys(new)
      BY DEF GhostKeys
    <3>4. moved[g] = Ghost(g[1], motions[g[1]], lost)
      BY <2>1, <3>2, <3>3 DEF Moved
    <3>5. g[1] = a
      OBVIOUS
    <3> QED  BY <2>4, <3>2, <3>3, <3>4, <3>5
  <2>7. ASSUME NEW k \in Lingering(new) \union Departed(new)
        PROVE  /\ k \in DOMAIN motions /\ k \notin DOMAIN new
               /\ moved[k] = Ghost(k, motions[k], lost)
    <3>1. k \in DOMAIN motions /\ k \notin DOMAIN new /\ k \notin GhostKeys(new)
      BY DEF Lingering, Departed, Gone
    <3>2. moved[k] = Ghost(k, motions[k], lost)
      BY <2>1, <3>1 DEF Moved
    <3> QED  BY <3>1, <3>2
  <2> QED  BY <2>2, <2>4, <2>5, <2>6, <2>7
<1>4. ASSUME NEW a \in DOMAIN new
      PROVE  /\ MotionIsSound(motions'[a]) /\ ~motions'[a].exiting
             /\ motions'[a].room = new[a].room /\ motions'[a].home = new[a].at
  <2>1. PICK entry : motions'[a] = MotionFor(a, new[a], entry, lost)
    BY <1>3
  <2>2. SeatIsSound(new[a]) /\ (a \in DOMAIN motions => MotionIsSound(motions[a]))
    BY <1>1 DEF SeatsAreSound, MotionsAreSound
  <2> QED  BY <2>1, <2>2, MotionForIsSound
<1>5. ASSUME NEW k \in DOMAIN motions' \ DOMAIN new
      PROVE  \/ \E a \in Crossing(new) :
                  k = <<a, motions[a].room>> /\ motions'[k] = Ghost(a, motions[a], lost)
             \/ k \in DOMAIN motions /\ motions'[k] = Ghost(k, motions[k], lost)
  BY <1>3 DEF GhostKeys
<1> QED  BY <1>1, <1>3, <1>4, <1>5 DEF new

\* After a redraw each agent of the scene has its seat for a home, whatever was before.
LEMMA RedrawsInv ==
  ASSUME MotionInv, NEW lost, Redraws(lost)
  PROVE  MotionInv'
<1>0. /\ MotionsAreSound /\ HomesAreSeats /\ LeaversAreRemembered /\ mishaps \in Nat
      /\ plan' = <<>> /\ scene' = plan[1] /\ botched' = FALSE
      /\ animated' = {k \in DOMAIN motions' : Walks(motions'[k])}
      /\ mishaps' = (IF lost = {} THEN mishaps ELSE mishaps + 1)
  BY DEF Redraws, MotionInv
<1>1. /\ SeatsAreSound(plan[1])
      /\ \A a \in DOMAIN plan[1] :
           /\ a \in DOMAIN motions'
           /\ \E entry : motions'[a] = MotionFor(a, plan[1][a], entry, lost)
           /\ MotionIsSound(motions'[a]) /\ ~motions'[a].exiting
           /\ motions'[a].room = plan[1][a].room /\ motions'[a].home = plan[1][a].at
      /\ \A k \in DOMAIN motions' \ DOMAIN plan[1] :
           \/ \E a \in Crossing(plan[1]) :
                k = <<a, motions[a].room>> /\ motions'[k] = Ghost(a, motions[a], lost)
           \/ k \in DOMAIN motions /\ motions'[k] = Ghost(k, motions[k], lost)
      /\ motions' = [k \in DOMAIN motions' |-> motions'[k]]
  BY RedrawnMotions
<1>2. ASSUME NEW k \in DOMAIN motions' \ DOMAIN plan[1]
      PROVE  /\ MotionIsSound(motions'[k]) /\ motions'[k].exiting
             /\ k \in Walkers \/ \E a \in Walkers : k = <<a, motions'[k].room>>
  <2>1. CASE \E a \in Crossing(plan[1]) :
               k = <<a, motions[a].room>> /\ motions'[k] = Ghost(a, motions[a], lost)
    <3>1. PICK a \in Crossing(plan[1]) :
            k = <<a, motions[a].room>> /\ motions'[k] = Ghost(a, motions[a], lost)
      BY <2>1
    <3>2. MotionIsSound(motions[a]) /\ a \in Walkers
      BY <1>0, <1>1 DEF Crossing, MotionsAreSound, SeatsAreSound
    <3>3. MotionIsSound(motions'[k]) /\ motions'[k].exiting /\ motions'[k].room = motions[a].room
      BY <3>1, <3>2, GhostIsSound
    <3> QED  BY <3>1, <3>2, <3>3
  <2>2. CASE k \in DOMAIN motions /\ motions'[k] = Ghost(k, motions[k], lost)
    <3>1. motions'[k] = Ghost(k, motions[k], lost)
      BY <2>2
    <3>2. MotionIsSound(motions[k])
          /\ (k \in Walkers \/ \E a \in Walkers : k = <<a, motions[k].room>>)
      BY <1>0, <2>2 DEF MotionsAreSound, KeyIsSound
    <3>3. MotionIsSound(motions'[k]) /\ motions'[k].exiting /\ motions'[k].room = motions[k].room
      BY <3>1, <3>2, GhostIsSound
    <3> QED  BY <3>2, <3>3
  <2> QED  BY <1>1, <2>1, <2>2
<1>3. MotionsAreSound'
  <2>1. ASSUME NEW k \in DOMAIN motions'
        PROVE  KeyIsSound(k)' /\ MotionIsSound(motions'[k])
    <3>1. CASE k \in DOMAIN plan[1]
      BY <1>1, <3>1 DEF KeyIsSound, SeatsAreSound
    <3>2. CASE k \notin DOMAIN plan[1]
      BY <1>2, <3>2 DEF KeyIsSound
    <3> QED  BY <3>1, <3>2
  <2>2. {k \in DOMAIN motions' : Live(motions'[k])} = DOMAIN scene'
    BY <1>0, <1>1, <1>2 DEF Live
  <2>3. animated' \subseteq DOMAIN motions'
    BY <1>0
  <2> QED  BY <1>1, <2>1, <2>2, <2>3 DEF MotionsAreSound
<1>4. PlanIsSound' /\ SeatsAreSound(scene)' /\ mishaps' \in Nat
  BY <1>0, <1>1 DEF PlanIsSound, SeatsAreSound
<1>5. WalkersAreAnimated'
  BY <1>0 DEF WalkersAreAnimated, Walks
<1>6. ASSUME NEW a \in DOMAIN scene', a \notin astray'
      PROVE  /\ Finished(motions'[a]) => motions'[a].at = motions'[a].target
             /\ motions'[a].trip # "out" => Near(motions'[a].target, scene'[a].at)
  <2>1. a \in DOMAIN plan[1]
    BY <1>0
  <2>2. PICK entry : motions'[a] = MotionFor(a, plan[1][a], entry, lost)
    BY <1>1, <2>1
  <2>3. SeatIsSound(plan[1][a]) /\ (a \in DOMAIN motions => MotionIsSound(motions[a]))
    BY <1>0, <1>1, <2>1 DEF SeatsAreSound, MotionsAreSound
  <2>4. a \notin lost /\ a \notin StillAstray(plan[1]) /\ a \notin Misled(plan[1])
    BY <1>6, <2>1 DEF Redraws
  <2>5. ASSUME a \in DOMAIN motions, Reuses(motions[a], plan[1][a])
        PROVE  /\ ~(motions[a].trip = "back" /\ motions[a].target # plan[1][a].at)
               /\ Finished(motions[a]) => motions[a].at = motions[a].target
    <3>1. ~(motions[a].trip = "back" /\ motions[a].target # plan[1][a].at)
      BY <2>1, <2>4, <2>5 DEF Misled
    <3>2. a \notin astray
      BY <2>1, <2>4, <2>5 DEF StillAstray
    <3>3. a \in DOMAIN scene
      BY <1>0, <2>5 DEF MotionsAreSound, Live, Reuses
    <3> QED  BY <1>0, <3>1, <3>2, <3>3 DEF HomesAreSeats
  <2>6. /\ a \notin lost
        /\ a \in DOMAIN motions /\ Reuses(motions[a], plan[1][a]) =>
             /\ ~(motions[a].trip = "back" /\ motions[a].target # plan[1][a].at)
             /\ Finished(motions[a]) => motions[a].at = motions[a].target
        => /\ motions'[a].trip # "out" => Near(motions'[a].target, plan[1][a].at)
           /\ Finished(motions'[a]) => motions'[a].at = motions'[a].target
    <3>1. CASE a \notin DOMAIN motions \/ ~Reuses(motions[a], plan[1][a])
      BY <2>2, <2>3, <3>1, MotionForIsSound
    <3>2. CASE a \in DOMAIN motions /\ Reuses(motions[a], plan[1][a])
      BY <2>2, <2>3, <3>2, MotionForIsSound
    <3> QED  BY <3>1, <3>2
  <2> QED  BY <1>0, <2>4, <2>5, <2>6
<1>7. HomesAreSeats'
  BY <1>0, <1>1, <1>6 DEF HomesAreSeats
<1>8. LeaversAreRemembered'
  <2>1. seen' = DOMAIN plan[1] \cap (memory \union seen)
        /\ UNCHANGED <<memory, departing>>
    BY DEF Redraws
  <2>2. DOMAIN remembered' = {k \in DOMAIN motions' : ~motions'[k].exiting}
    BY DEF Redraws
  <2>3. mishaps' = 0 => mishaps = 0
    BY <1>0
  <2> QED  BY <1>0, <1>1, <2>1, <2>2, <2>3 DEF LeaversAreRemembered
<1> QED  BY <1>3, <1>4, <1>5, <1>7, <1>8 DEF MotionInv

\* A redraw that fails leaves what holds of each motion.
LEMMA RedrawFailsInv ==
  ASSUME MotionInv, NEW S, RedrawFails(S)
  PROVE  MotionInv'
<1>0. /\ MotionsAreSound /\ HomesAreSeats /\ mishaps \in Nat
      /\ SeatsAreSound(plan[1]) /\ S \subseteq DOMAIN plan[1]
      /\ plan' = <<>> /\ botched' = TRUE /\ mishaps' = mishaps + 1
      /\ UNCHANGED <<scene, animated, astray>>
      /\ DOMAIN motions' = DOMAIN motions
      /\ motions' = [k \in DOMAIN motions' |-> motions'[k]]
  BY DEF RedrawFails, MotionInv, PlanIsSound
<1>1. ASSUME NEW k \in DOMAIN motions
      PROVE  /\ MotionIsSound(motions'[k]) /\ motions'[k].exiting = motions[k].exiting
             /\ motions'[k].room = motions[k].room
             /\ (Finished(motions[k]) => motions[k].at = motions[k].target)
                  => (Finished(motions'[k]) => motions'[k].at = motions'[k].target)
  <2>0. MotionIsSound(motions[k])
    BY <1>0 DEF MotionsAreSound
  <2>1. CASE k \in S
    <3>1. motions'[k] = Touched(k, motions[k], plan[1][k])
      BY <2>1 DEF RedrawFails
    <3>2. SeatIsSound(plan[1][k])
      BY <1>0, <2>1 DEF SeatsAreSound
    <3> QED  BY <2>0, <3>1, <3>2, TouchedIsSound
  <2>2. CASE k \notin S
    <3>1. motions'[k] = motions[k]
      BY <2>2 DEF RedrawFails
    <3> QED  BY <2>0, <3>1
  <2> QED  BY <2>1, <2>2
<1>2. MotionsAreSound'
  <2>1. ASSUME NEW k \in DOMAIN motions'
        PROVE  KeyIsSound(k)' /\ MotionIsSound(motions'[k])
    BY <1>0, <1>1 DEF KeyIsSound, MotionsAreSound
  <2>2. {k \in DOMAIN motions' : Live(motions'[k])} = DOMAIN scene'
    BY <1>0, <1>1 DEF Live, MotionsAreSound
  <2> QED  BY <1>0, <2>1, <2>2 DEF MotionsAreSound
<1>3. PlanIsSound' /\ SeatsAreSound(scene)' /\ mishaps' \in Nat
  BY <1>0 DEF PlanIsSound, SeatsAreSound, MotionInv
<1>4. WalkersAreAnimated' /\ LeaversAreRemembered'
  BY <1>0 DEF WalkersAreAnimated, LeaversAreRemembered
<1>5. HomesAreSeats'
  <2>1. ASSUME NEW a \in DOMAIN scene', a \notin astray', Finished(motions'[a])
        PROVE  motions'[a].at = motions'[a].target
    BY <1>0, <1>1, <2>1 DEF HomesAreSeats, MotionsAreSound
  <2> QED  BY <1>0, <2>1 DEF HomesAreSeats
<1> QED  BY <1>2, <1>3, <1>4, <1>5 DEF MotionInv

\* A frame leaves homes, and who arrives sits where it was going.
LEMMA FrameInv ==
  ASSUME MotionInv, NEW k \in animated, NEW m \in Framed(motions[k]), Frame(k, m)
  PROVE  MotionInv'
<1>0. /\ MotionsAreSound /\ HomesAreSeats /\ WalkersAreAnimated
      /\ k \in DOMAIN motions /\ MotionIsSound(motions[k])
      /\ motions' = [motions EXCEPT ![k] = m]
      /\ animated' = IF m.exiting /\ m.alpha = 0 THEN animated \ {k} ELSE animated
      /\ UNCHANGED <<doing, shift, memory, entering, departing, recSlots, remembered, plan,
                     scene, astray, seen, botched, renders, mishaps>>
  BY DEF Frame, MotionInv, MotionsAreSound
<1>1. KeepsOn(motions[k], m)
  BY <1>0, FramedIsSound
<1>2. /\ MotionIsSound(m) /\ m.exiting = motions[k].exiting /\ m.room = motions[k].room
      /\ m.home = motions[k].home
  BY <1>1 DEF KeepsOn
<1>3. /\ DOMAIN motions' = DOMAIN motions /\ motions'[k] = m
      /\ motions' = [j \in DOMAIN motions' |-> motions'[j]]
      /\ \A j \in DOMAIN motions : j # k => motions'[j] = motions[j]
  BY <1>0
<1>4. MotionsAreSound'
  <2>1. ASSUME NEW j \in DOMAIN motions'
        PROVE  KeyIsSound(j)' /\ MotionIsSound(motions'[j])
    BY <1>0, <1>2, <1>3 DEF KeyIsSound, MotionsAreSound
  <2>2. {j \in DOMAIN motions' : Live(motions'[j])} = DOMAIN scene'
    BY <1>0, <1>2, <1>3 DEF Live, MotionsAreSound
  <2>3. animated' \subseteq DOMAIN motions'
    BY <1>0, <1>3 DEF MotionsAreSound
  <2> QED  BY <1>3, <2>1, <2>2, <2>3 DEF MotionsAreSound
<1>5. PlanIsSound' /\ SeatsAreSound(scene)' /\ mishaps' \in Nat
      /\ LeaversAreRemembered'
  BY <1>0 DEF PlanIsSound, SeatsAreSound, MotionInv, LeaversAreRemembered
<1>6. WalkersAreAnimated'
  <2>1. m.alpha \in 0..MaxAlpha /\ (m.alpha = 0 => Finished(m))
    BY <1>2 DEF MotionIsSound, LivesOrFades, Finished
  <2>2. ASSUME NEW j \in DOMAIN motions', ~botched',
               ~Finished(motions'[j]) \/ (motions'[j].exiting /\ motions'[j].alpha > 0)
        PROVE  j \in animated'
    <3>1. CASE j = k
      BY <1>0, <1>3, <2>1, <2>2, <3>1
    <3>2. CASE j # k
      BY <1>0, <1>3, <2>2, <3>2 DEF WalkersAreAnimated
    <3> QED  BY <3>1, <3>2
  <2> QED  BY <2>2 DEF WalkersAreAnimated
<1>7. HomesAreSeats'
  <2>0. DOMAIN scene \subseteq DOMAIN motions
    BY <1>0 DEF MotionsAreSound
  <2>1. ASSUME NEW a \in DOMAIN scene \ astray, Finished(motions'[a])
        PROVE  motions'[a].at = motions'[a].target
    BY <1>0, <1>1, <1>3, <2>0, <2>1 DEF HomesAreSeats, KeepsOn
  <2>2. ASSUME ~botched, NEW a \in DOMAIN scene
        PROVE  motions'[a].home = scene[a].at
    BY <1>0, <1>2, <1>3, <2>0, <2>2 DEF HomesAreSeats
  <2>3. ASSUME ~botched, NEW a \in DOMAIN scene \ astray, motions'[a].trip # "out"
        PROVE  Near(motions'[a].target, scene[a].at)
    <3>1. CASE a # k
      BY <1>0, <1>3, <2>0, <2>3, <3>1 DEF HomesAreSeats
    <3>2. CASE a = k
      <4>1. (m.target = motions[k].target /\ motions[k].trip # "out") \/ m.target = motions[k].home
        BY <1>1, <1>3, <2>3, <3>2 DEF KeepsOn
      <4> QED  BY <1>0, <1>3, <2>3, <3>2, <4>1, NearIsReflexive DEF HomesAreSeats
    <3> QED  BY <3>1, <3>2
  <2> QED  BY <1>0, <2>1, <2>2, <2>3 DEF HomesAreSeats
<1> QED  BY <1>4, <1>5, <1>6, <1>7 DEF MotionInv

-----------------------------------------------------------------------------

\* After a redraw that did not fail, who has arrived sits in its seat.
LEMMA SeatsFollow == MotionInv /\ ~botched => SeatsAreTaken
<1> SUFFICES ASSUME MotionInv, ~botched PROVE SeatsAreTaken
  OBVIOUS
<1>1. MotionsAreSound /\ WalkersAreAnimated /\ HomesAreSeats
  BY DEF MotionInv
<1>2. ASSUME NEW a \in DOMAIN scene \ astray,
             Finished(motions[a]), motions[a].trip \notin {"out", "back"}
      PROVE  Near(motions[a].at, scene[a].at)
  <2>1. motions[a].at = motions[a].target
    BY <1>1, <1>2 DEF HomesAreSeats
  <2> QED  BY <1>1, <1>2, <2>1 DEF HomesAreSeats
<1> QED  BY <1>1, <1>2 DEF MotionsAreSound, WalkersAreAnimated, SeatsAreTaken

\* What holds of each step on the motions, but of the seats they lead to.
StepIsSound == NobodyJumps /\ TripsGoOn /\ LeaversWalkOut /\ GhostsFade

\* Where no motion changes nothing is done to any.
LEMMA StandingIsSound ==
  ASSUME MotionInv, UNCHANGED motions
  PROVE  StepIsSound
<1>1. \A k \in DOMAIN motions : motions[k].alpha \in 0..MaxAlpha
  BY DEF MotionInv, MotionsAreSound, MotionIsSound, LivesOrFades
<1>2. NobodyJumps
  BY DEF NobodyJumps, WalksOn
<1>3. TripsGoOn /\ LeaversWalkOut
  BY DEF TripsGoOn, LeaversWalkOut
<1>4. MaxAlpha \in Nat
  BY MotionAssumption
<1>5. GhostsFade
  BY <1>1, <1>4 DEF GhostsFade
<1> QED  BY <1>2, <1>3, <1>5 DEF StepIsSound

\* With the renderer all motions go, which is a mishap.
LEMMA RendererGoesSoundly ==
  ASSUME MotionInv, NEW failed, RendererGoes(failed)
  PROVE  StepIsSound
<1>1. DOMAIN motions' = {} /\ DOMAIN scene' = {}
  BY DEF RendererGoes, NoMotions
<1>2. mishaps' # 0
  BY DEF RendererGoes, MotionInv
<1> QED
  BY <1>1, <1>2 DEF StepIsSound, NobodyJumps, TripsGoOn, LeaversWalkOut, GhostsFade

\* A redraw that fails moves nobody and calls nobody back.
LEMMA RedrawFailsSoundly ==
  ASSUME MotionInv, NEW S, RedrawFails(S)
  PROVE  StepIsSound
<1>0. /\ MotionsAreSound /\ SeatsAreSound(plan[1]) /\ S \subseteq DOMAIN plan[1]
      /\ mishaps' # 0 /\ DOMAIN motions' = DOMAIN motions
  BY DEF RedrawFails, MotionInv, PlanIsSound
<1>1. ASSUME NEW k \in DOMAIN motions
      PROVE  /\ motions'[k].room = motions[k].room /\ motions'[k].at = motions[k].at
             /\ motions'[k].alpha = motions[k].alpha /\ motions[k].alpha \in 0..MaxAlpha
             /\ motions[k].trip \in {"out", "back"} => motions'[k].trip = motions[k].trip
  <2>0. MotionIsSound(motions[k]) /\ motions[k].alpha \in 0..MaxAlpha
    BY <1>0 DEF MotionsAreSound, MotionIsSound, LivesOrFades
  <2>1. CASE k \in S
    <3>1. motions'[k] = Touched(k, motions[k], plan[1][k])
      BY <2>1 DEF RedrawFails
    <3>2. SeatIsSound(plan[1][k])
      BY <1>0, <2>1 DEF SeatsAreSound
    <3> QED  BY <2>0, <3>1, <3>2, TouchedIsSound
  <2>2. CASE k \notin S
    <3>1. motions'[k] = motions[k]
      BY <2>2 DEF RedrawFails
    <3> QED  BY <2>0, <3>1
  <2> QED  BY <2>1, <2>2
<1>2. NobodyJumps
  BY <1>0, <1>1 DEF NobodyJumps, WalksOn
<1>3. TripsGoOn
  BY <1>1 DEF TripsGoOn
<1>4. LeaversWalkOut
  BY <1>0 DEF LeaversWalkOut
<1>5. GhostsFade
  <2>1. MaxAlpha \in Nat
    BY MotionAssumption
  <2> QED  BY <1>1, <2>1 DEF GhostsFade
<1> QED  BY <1>2, <1>3, <1>4, <1>5 DEF StepIsSound

\* A frame moves one motion, along its way.
LEMMA FrameSoundly ==
  ASSUME MotionInv, NEW k \in animated, NEW m \in Framed(motions[k]), Frame(k, m)
  PROVE  StepIsSound
<1>0. /\ MotionsAreSound /\ k \in DOMAIN motions /\ MotionIsSound(motions[k])
      /\ motions' = [motions EXCEPT ![k] = m]
      /\ UNCHANGED <<memory, plan, scene>>
  BY DEF Frame, MotionInv, MotionsAreSound
<1>1. /\ KeepsOn(motions[k], m) /\ m.alpha <= motions[k].alpha
      /\ m.at # motions[k].at => <<m.at>> \o m.route = Way(motions[k].at, m.target)
  BY <1>0, FramedIsSound
<1>2. m.room = motions[k].room /\ (~Finished(motions[k]) => m.trip = motions[k].trip)
  BY <1>1 DEF KeepsOn
<1>3. /\ DOMAIN motions' = DOMAIN motions /\ motions'[k] = m
      /\ \A j \in DOMAIN motions : j # k => motions'[j] = motions[j]
  BY <1>0
<1>4. NobodyJumps
  BY <1>0, <1>1, <1>2, <1>3 DEF NobodyJumps, WalksOn
<1>5. TripsGoOn
  BY <1>0, <1>2, <1>3 DEF TripsGoOn
<1>6. LeaversWalkOut
  BY <1>3 DEF LeaversWalkOut
<1>7. GhostsFade
  <2>1. \A j \in DOMAIN motions : motions[j].alpha \in 0..MaxAlpha
    BY <1>0 DEF MotionsAreSound, MotionIsSound, LivesOrFades
  <2>2. MaxAlpha \in Nat
    BY MotionAssumption
  <2> QED  BY <1>0, <1>1, <1>3, <2>1, <2>2 DEF GhostsFade
<1> QED  BY <1>4, <1>5, <1>6, <1>7 DEF StepIsSound

\* A redraw moves nobody within a room, leaves a ghost of who changes rooms, and keeps
\* who is on a trip and who is departing.
LEMMA RedrawsSoundly ==
  ASSUME MotionInv, NEW lost, Redraws(lost)
  PROVE  StepIsSound
<1>0. /\ MotionsAreSound /\ LeaversAreRemembered /\ mishaps \in Nat
      /\ plan # <<>> /\ plan' = <<>> /\ scene' = plan[1]
      /\ mishaps' = (IF lost = {} THEN mishaps ELSE mishaps + 1)
      /\ UNCHANGED memory
  BY DEF Redraws, MotionInv
<1>1. /\ SeatsAreSound(plan[1])
      /\ \A a \in DOMAIN plan[1] :
           /\ a \in DOMAIN motions'
           /\ \E entry : motions'[a] = MotionFor(a, plan[1][a], entry, lost)
           /\ MotionIsSound(motions'[a]) /\ ~motions'[a].exiting
           /\ motions'[a].room = plan[1][a].room /\ motions'[a].home = plan[1][a].at
      /\ \A k \in DOMAIN motions' \ DOMAIN plan[1] :
           \/ \E a \in Crossing(plan[1]) :
                k = <<a, motions[a].room>> /\ motions'[k] = Ghost(a, motions[a], lost)
           \/ k \in DOMAIN motions /\ motions'[k] = Ghost(k, motions[k], lost)
      /\ \A a \in Crossing(plan[1]) :
           LET g == <<a, motions[a].room>> IN
           g \in DOMAIN motions' /\ motions'[g] = Ghost(a, motions[a], lost)
      /\ Lingering(plan[1]) \union Departed(plan[1]) \subseteq DOMAIN motions'
  BY RedrawnMotions
<1>2. ASSUME NEW a \in DOMAIN plan[1], a \in DOMAIN motions
      PROVE  /\ motions[a].room = motions'[a].room => motions'[a].at = motions[a].at
             /\ motions[a].room # motions'[a].room => motions'[a].at = Door(motions'[a].room)
             /\ motions[a].room = plan[1][a].room /\ plan[1][a].rests
                  /\ motions[a].trip \in {"out", "back"}
                  => motions'[a].trip = motions[a].trip
  <2>1. PICK entry : motions'[a] = MotionFor(a, plan[1][a], entry, lost)
    BY <1>1, <1>2
  <2>2. SeatIsSound(plan[1][a]) /\ (a \in DOMAIN motions => MotionIsSound(motions[a]))
    BY <1>0, <1>1 DEF SeatsAreSound, MotionsAreSound
  <2>3. motions'[a].room = plan[1][a].room
    BY <1>1
  <2> QED  BY <1>2, <2>1, <2>2, <2>3, MotionForIsSound
<1>3. ASSUME NEW k \in DOMAIN motions, k \in DOMAIN motions', k \notin DOMAIN plan[1]
      PROVE  /\ motions'[k].room = motions[k].room
             /\ \/ motions'[k] = Ghost(k, motions[k], lost) /\ motions'[k].at = motions[k].at
                     /\ motions'[k].alpha = motions[k].alpha
                \/ k \notin Walkers /\ motions'[k].alpha = MaxAlpha
  <2>0. MotionIsSound(motions[k]) /\ KeyIsSound(k)
    BY <1>0 DEF MotionsAreSound
  <2>1. CASE motions'[k] = Ghost(k, motions[k], lost)
    BY <2>0, <2>1, GhostIsSound
  <2>2. ASSUME NEW a \in Crossing(plan[1]),
               k = <<a, motions[a].room>>, motions'[k] = Ghost(a, motions[a], lost)
        PROVE  motions'[k].room = motions[k].room /\ k \notin Walkers /\ motions'[k].alpha = MaxAlpha
    <3>1. a \in Walkers /\ MotionIsSound(motions[a]) /\ ~motions[a].exiting
      BY <1>0, <1>1 DEF Crossing, MotionsAreSound, SeatsAreSound
    <3>2. motions[a].room \in Rooms /\ motions[a].alpha = MaxAlpha
      BY <3>1 DEF MotionIsSound, LivesOrFades
    <3>3. k \notin Walkers
      BY <2>2, <3>1, <3>2, MotionAssumption
    <3>4. motions'[k].room = motions[a].room /\ motions'[k].alpha = motions[a].alpha
      BY <2>2, <3>1, GhostIsSound
    <3>5. PICK b \in Walkers : k = <<b, motions[k].room>>
      BY <2>0, <3>3 DEF KeyIsSound
    <3>6. motions[k].room = motions[a].room
      BY <2>2, <3>5
    <3> QED  BY <3>2, <3>3, <3>4, <3>6
  <2> QED  BY <1>1, <1>3, <2>1, <2>2
<1>4. NobodyJumps
  <2> SUFFICES ASSUME NEW k \in DOMAIN motions \cap DOMAIN motions'
               PROVE  IF motions'[k].room # motions[k].room THEN ChangesRooms(k)
                      ELSE WalksOn(k) \/ (k \notin Walkers /\ motions'[k].alpha = MaxAlpha)
    BY DEF NobodyJumps
  <2>1. CASE k \notin DOMAIN plan[1]
    BY <1>3, <2>1 DEF WalksOn
  <2>2. CASE k \in DOMAIN plan[1] /\ motions'[k].room = motions[k].room
    BY <1>2, <2>2 DEF WalksOn
  <2>3. CASE k \in DOMAIN plan[1] /\ motions'[k].room # motions[k].room
    <3>1. motions'[k].at = Door(motions'[k].room)
      BY <1>2, <2>3
    <3>2. ASSUME ~motions[k].exiting
          PROVE  LET g == <<k, motions[k].room>> IN
                 g \in DOMAIN motions' /\ motions'[g].exiting /\ motions'[g].at = motions[k].at
      <4>1. k \in Crossing(plan[1])
        BY <1>1, <2>3, <3>2 DEF Crossing
      <4>2. MotionIsSound(motions[k])
        BY <1>0 DEF MotionsAreSound
      <4> QED  BY <1>1, <4>1, <4>2, GhostIsSound
    <3> QED  BY <2>3, <3>1, <3>2 DEF ChangesRooms
  <2> QED  BY <2>1, <2>2, <2>3
<1>5. TripsGoOn
  BY <1>0, <1>2 DEF TripsGoOn
<1>6. LeaversWalkOut
  <2> SUFFICES ASSUME mishaps' = 0, NEW a \in Walkers \cap DOMAIN motions,
                      a \notin DOMAIN motions', a \notin memory', a \in seen
               PROVE  FALSE
    BY DEF LeaversWalkOut
  <2>1. mishaps = 0
    BY <1>0
  <2>2. a \in departing
    BY <1>0, <2>1 DEF LeaversAreRemembered
  <2>3. a \notin DOMAIN plan[1] /\ a \notin GhostKeys(plan[1])
    BY <1>1 DEF GhostKeys
  <2>4. a \in Gone(plan[1])
    BY <2>3 DEF Gone
  <2> QED  BY <1>1, <2>2, <2>4 DEF Lingering, Departed
<1>7. GhostsFade
  <2>1. \A k \in DOMAIN motions : motions[k].alpha \in 0..MaxAlpha
    BY <1>0 DEF MotionsAreSound, MotionIsSound, LivesOrFades
  <2>2. MaxAlpha \in Nat
    BY MotionAssumption
  <2> QED  BY <1>1, <1>3, <2>1, <2>2 DEF GhostsFade
<1> QED  BY <1>4, <1>5, <1>6, <1>7 DEF StepIsSound

-----------------------------------------------------------------------------

\* Each step keeps the invariant and is sound.
LEMMA MotionStep ==
  ASSUME MotionInv, [MotionNext]_motionVars
  PROVE  MotionInv' /\ StepIsSound
<1>1. CASE UNCHANGED motionVars
  <2>1. MotionInv'
    BY <1>1 DEF motionVars, MotionInv, MotionsAreSound, KeyIsSound, PlanIsSound, SeatsAreSound,
         WalkersAreAnimated, HomesAreSeats, LeaversAreRemembered
  <2> QED  BY <1>1, <2>1, StandingIsSound DEF motionVars
<1>2. ASSUME NEW d, NEW sh, NEW hydrated, NEW expired, Renders(d, sh, hydrated, expired)
      PROVE  MotionInv' /\ StepIsSound
  BY <1>2, RendersInv, StandingIsSound DEF Renders
<1>3. ASSUME NEW failed, RendererGoes(failed)
      PROVE  MotionInv' /\ StepIsSound
  BY <1>3, RendererGoesInv, RendererGoesSoundly
<1>4. ASSUME NEW rec \in RecSlots, NEW desks \in Desks, Plans(rec, desks)
      PROVE  MotionInv' /\ StepIsSound
  BY <1>4, PlansInv, StandingIsSound DEF Plans
<1>5. ASSUME NEW lost, Redraws(lost)
      PROVE  MotionInv' /\ StepIsSound
  BY <1>5, RedrawsInv, RedrawsSoundly
<1>6. ASSUME NEW S, RedrawFails(S)
      PROVE  MotionInv' /\ StepIsSound
  BY <1>6, RedrawFailsInv, RedrawFailsSoundly
<1>7. ASSUME NEW k \in animated, NEW m \in Framed(motions[k]), Frame(k, m)
      PROVE  MotionInv' /\ StepIsSound
  BY <1>7, FrameInv, FrameSoundly
<1> QED  BY <1>1, <1>2, <1>3, <1>4, <1>5, <1>6, <1>7 DEF MotionNext

\* However redraws, frames, failures and departures are interleaved, no agent jumps, no
\* redraw calls one back from its trip, as long as nothing fails who leaves walks out,
\* ghosts only fade, and unless the last redraw failed who has arrived is in its seat
\* (syncOfficeRendererScene(), registerAgentMotion() and the frames of the renderer).
THEOREM AgentsAlwaysMoveSoundly == MotionSpec => AgentsMoveSoundly
<1>1. MotionInit => MotionInv
  BY MotionInitInv
<1>2. MotionInv /\ [MotionNext]_motionVars => MotionInv'
  BY MotionStep
<1>3. MotionInv /\ MotionInv' /\ [MotionNext]_motionVars =>
        [NobodyJumps /\ TripsGoOn /\ LeaversWalkOut /\ GhostsFade
          /\ (~botched' => SeatsAreTaken')]_motionVars
  <2> SUFFICES ASSUME MotionInv, MotionInv', [MotionNext]_motionVars
               PROVE  NobodyJumps /\ TripsGoOn /\ LeaversWalkOut /\ GhostsFade
                        /\ (~botched' => SeatsAreTaken')
    OBVIOUS
  <2>1. StepIsSound
    BY MotionStep
  <2>2. ~botched' => SeatsAreTaken'
    BY SeatsFollow, PTL
  <2> QED  BY <2>1, <2>2 DEF StepIsSound
<1> QED  BY <1>1, <1>2, <1>3, PTL DEF MotionSpec, AgentsMoveSoundly

=============================================================================
