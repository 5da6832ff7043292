--------------------------- MODULE OpenClawGateway ---------------------------
(***************************************************************************)
(* The OpenClaw provider (core/src/openclaw.ts).  Every reader of the      *)
(* gateway's data shares one cached load; a load opens a socket, waits for *)
(* the challenge, connects, and asks for the configuration and for the     *)
(* sessions at once.  Every wait has a timer of its own, and the gateway   *)
(* may close the socket at any time.                                       *)
(*                                                                         *)
(* There is one agent with a session.  agents.list only gives names and is *)
(* answered with the configuration.                                        *)
(***************************************************************************)
EXTENDS Integers, Sequences, FiniteSets

CONSTANTS
  ClawReaders,            \* loads and discoveries that want the data
  Workspaces,             \* the workspaces that are configured
  DataTtl,                    \* OPENCLAW_CACHE_TTL_MS, in ticks
  MaxLoads, MaxClawClock  \* bounds

ASSUME ClawBounds ==
  /\ Workspaces \subseteq {"p", "inside", "q", "elsewhere", "none"}
  /\ {DataTtl, MaxLoads, MaxClawClock} \subseteq Nat

VARIABLES
  gateway,    \* the workspace it has configured for the agent
  loads,      \* [at, started, socket, waits, got]
  clawCache,  \* cachedWorkspaceData and cachedWorkspaceDataAt: [load, at]
  clawReader, \* [load, asked]; load 0: not waiting
  clawClock

clawVars == <<gateway, loads, clawCache, clawReader, clawClock>>

\* Two floors; a workspace may lie inside the first.
ClawFloors == {"p", "q"}
FloorOf == [p |-> {"p"}, inside |-> {"p"}, q |-> {"q"}, elsewhere |-> {},
            none |-> {}]

ClawInit ==
  /\ gateway \in Workspaces
  /\ loads = <<>> /\ clawCache = [load |-> 0, at |-> 0]
  /\ clawReader = [r \in ClawReaders |-> [load |-> 0, asked |-> 0]]
  /\ clawClock = 0

(***************************************************************************)
(* A reader takes the load at hand or begins one                           *)
(* (loadOpenClawWorkspaceData).                                            *)
(***************************************************************************)

Opening == [at |-> "opening", started |-> clawClock, socket |-> TRUE,
            waits |-> {}, got |-> "none"]

MayShare_AnyAge == clawCache.load # 0
MayShare == clawCache.load # 0 /\ clawClock - clawCache.at <= DataTtl

WantsData(r) ==
  LET n == IF MayShare THEN clawCache.load ELSE Len(loads) + 1 IN
  /\ clawReader[r].load = 0
  /\ n <= MaxLoads
  /\ IF MayShare THEN UNCHANGED <<loads, clawCache>>
     ELSE /\ loads' = Append(loads, Opening)
          /\ clawCache' = [load |-> n, at |-> clawClock]
  /\ clawReader' = [clawReader EXCEPT ![r] = [load |-> n, asked |-> clawClock]]
  /\ UNCHANGED <<gateway, clawClock>>

Over(n) == loads[n].at \in {"loaded", "failed"}

GetsData(r) ==
  /\ clawReader[r].load # 0 /\ Over(clawReader[r].load)
  /\ clawReader' = [clawReader EXCEPT ![r].load = 0]
  /\ UNCHANGED <<gateway, loads, clawCache, clawClock>>

(***************************************************************************)
(* A load (OpenClawGatewayClient, loadOpenClawWorkspaceDataUncached).      *)
(***************************************************************************)

Becomes(n, load) ==
  /\ loads' = [loads EXCEPT ![n] = load]
  /\ UNCHANGED <<gateway, clawReader, clawClock>>

\* open, then connect.challenge with a nonce, then the answer to connect.
Advances(n) ==
  /\ loads[n].socket
  /\ \/ loads[n].at = "opening" /\ Becomes(n, [loads[n] EXCEPT !.at = "challenge"])
     \/ loads[n].at = "challenge" /\ Becomes(n, [loads[n] EXCEPT !.at = "connecting"])
     \/ loads[n].at = "connecting"
        /\ Becomes(n, [loads[n] EXCEPT !.at = "asking",
                                       !.waits = {"config", "sessions"}])
  /\ UNCHANGED clawCache

\* Each request is answered by its id; when both are in, the client closes
\* the socket.
Answered(n, request) ==
  LET load == loads[n]
      got == IF request = "config" THEN gateway ELSE load.got
      left == load.waits \ {request} IN
  /\ load.at = "asking" /\ load.socket /\ request \in load.waits
  /\ Becomes(n, [load EXCEPT !.waits = left, !.got = got,
                   !.at = IF left = {} THEN "loaded" ELSE @,
                   !.socket = left # {}])
  /\ UNCHANGED clawCache

\* Whatever load the cache holds by then.
Forgets(n) == clawCache' = [load |-> 0, at |-> 0]

\* A timer fires, the gateway refuses, or it closed the socket while
\* requests waited (failAll).  Once connected, the socket is closed too.
LoadFails(n) ==
  /\ ~Over(n)
  /\ Becomes(n, [loads[n] EXCEPT !.at = "failed", !.waits = {},
                   !.socket = @ /\ loads[n].at # "asking"])
  /\ Forgets(n)

\* The gateway closes the socket: requests fail at once, an opening or a
\* challenge goes on until its timer.
GatewayCloses(n) ==
  /\ loads[n].socket
  /\ IF loads[n].at \in {"connecting", "asking"}
       THEN /\ Becomes(n, [loads[n] EXCEPT !.at = "failed", !.waits = {},
                                           !.socket = FALSE])
            /\ Forgets(n)
       ELSE /\ Becomes(n, [loads[n] EXCEPT !.socket = FALSE])
            /\ UNCHANGED clawCache

GatewayChanges(workspace) ==
  /\ gateway' = workspace
  /\ UNCHANGED <<loads, clawCache, clawReader, clawClock>>

ClawTick ==
  /\ clawClock < MaxClawClock /\ clawClock' = clawClock + 1
  /\ UNCHANGED <<gateway, loads, clawCache, clawReader>>

ClawNext ==
  \/ \E r \in ClawReaders : WantsData(r) \/ GetsData(r)
  \/ \E n \in DOMAIN loads :
       \/ Advances(n) \/ LoadFails(n) \/ GatewayCloses(n)
       \/ \E request \in {"config", "sessions"} : Answered(n, request)
  \/ \E w \in Workspaces : GatewayChanges(w)
  \/ ClawTick

ClawSpec == ClawInit /\ [][ClawNext]_clawVars

(***************************************************************************)
(* What the data shows.                                                    *)
(***************************************************************************)

\* loadOpenClawAgents: the sessions of the agents whose workspace lies in
\* the project.
OnFloor(workspace, floor) == floor \in FloorOf[workspace]

\* loadRoamingOpenClawSnapshotData
RoamsInSky(workspace, known) == FloorOf[workspace] \cap known = {}

(***************************************************************************)
(* Properties.                                                             *)
(***************************************************************************)

\* Nobody waits for, or is given, data whose load began longer than the
\* time to live before it asked; and a load that failed is not kept, nor a
\* load kept under another time than that of its beginning.
DataIsFresh ==
  /\ \A r \in ClawReaders : clawReader[r].load # 0 =>
       loads[clawReader[r].load].started >= clawReader[r].asked - DataTtl
  /\ clawCache.load # 0 => /\ loads[clawCache.load].at # "failed"
                           /\ loads[clawCache.load].started = clawCache.at

\* A load that got as far as asking leaves no socket behind, and one that
\* loaded has an answer to each of its requests.
NoSocketLeft ==
  \A n \in DOMAIN loads :
    /\ loads[n].at = "loaded" => ~loads[n].socket /\ loads[n].waits = {}
    /\ loads[n].waits # {} => loads[n].at = "asking" /\ loads[n].socket

\* Whatever was loaded, a session is on one floor of the fleet or in the sky
\* over it, never in both and never in neither.
SeenOnce ==
  \A n \in DOMAIN loads : loads[n].at = "loaded" =>
    LET floors == {f \in ClawFloors : OnFloor(loads[n].got, f)} IN
    /\ Cardinality(floors) <= 1
    /\ floors = {} <=> RoamsInSky(loads[n].got, ClawFloors)

OpenClawIsTold == DataIsFresh /\ NoSocketLeft /\ SeenOnce
=============================================================================
