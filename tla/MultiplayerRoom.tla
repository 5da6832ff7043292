--------------------------- MODULE MultiplayerRoom ---------------------------
(***************************************************************************)
(* Browsers that share a room (web/src/client/multiplayer-source.ts), and  *)
(* the relay that broadcasts what each sends to all (party/src/server.ts). *)
(* A browser sends its fleet when its socket opens, and, debounced, when   *)
(* the fleet changes or a peer is heard of for the first time.             *)
(*                                                                         *)
(* The first connection waits for the socket library to be imported; once  *)
(* it is, connecting and deciding to connect are one step.  A fleet is     *)
(* what it shares: a value, or NoShare where no project is shared or no    *)
(* agent is active.  The limits on what a payload may hold are not reached.*)
(***************************************************************************)
EXTENDS Integers, Sequences

CONSTANTS
  Browsers,
  MaxChanges, MaxSockets, MaxDrops   \* bounds

ASSUME RoomBounds == {MaxChanges, MaxSockets, MaxDrops} \subseteq Nat

VARIABLES
  page,      \* each browser: [on, imported, attempts, current, timer, peers]
  sockets,   \* [owner, state, inbox, import, drops], in the order they are made
  fleetOf,   \* what each browser has to share
  sameDevice,
  changes

roomVars == <<page, sockets, fleetOf, sameDevice, changes>>

NoFleet == -1   \* not loaded yet: there is no payload
NoShare == 0
NoPeers == [p \in {} |-> NoShare]
Closed == "closed"

RoomInit ==
  /\ page = [b \in Browsers |-> [on |-> FALSE, imported |-> FALSE,
               attempts |-> 0, current |-> 0, timer |-> FALSE,
               peers |-> NoPeers]]
  /\ sockets = <<>> /\ fleetOf = [b \in Browsers |-> NoFleet]
  /\ sameDevice \in BOOLEAN /\ changes = 0

IsOpen(b, all) == page[b].current # 0 /\ all[page[b].current].state = "open"

\* The relay: every open connection gets it, the sender's too.
Relayed(all, from) ==
  IF fleetOf[from] = NoFleet THEN all
  ELSE [s \in DOMAIN all |->
          IF all[s].state # "open" THEN all[s]
          ELSE [all[s] EXCEPT !.inbox = Append(@,
                  [from |-> from, fleet |-> fleetOf[from]])]]

\* scheduleMultiplayerBroadcast: the timer starts again.
Scheduled(b, timer) == IsOpen(b, sockets) \/ timer

Made(owner, import) == [owner |-> owner, state |-> "connecting",
                        inbox |-> <<>>, import |-> import, drops |-> 0]

CloseSocket(all, s) ==
  [all EXCEPT ![s] = [@ EXCEPT !.state = Closed, !.inbox = <<>>]]
WithoutCurrent(b) == IF page[b].current = 0 THEN sockets
                     ELSE CloseSocket(sockets, page[b].current)

(***************************************************************************)
(* A browser.                                                              *)
(***************************************************************************)

\* ingestFleet, setProjectRootsSharedWithRoom
FleetChanges(b, fleet) ==
  /\ changes < MaxChanges /\ changes' = changes + 1
  /\ fleetOf' = [fleetOf EXCEPT ![b] = fleet]
  /\ page' = [page EXCEPT ![b].timer = Scheduled(b, @)]
  /\ UNCHANGED <<sockets, sameDevice>>

\* syncStoredMultiplayerSettings, refreshMultiplayerConnection
SettingsArrive(b, on) ==
  LET left == [page[b] EXCEPT !.on = on, !.timer = FALSE, !.current = 0,
                              !.peers = NoPeers] IN
  /\ on => Len(sockets) < MaxSockets /\ page[b].attempts < 2
  /\ IF on /\ page[b].imported
       THEN /\ sockets' = Append(WithoutCurrent(b), Made(b, FALSE))
            /\ page' = [page EXCEPT ![b] =
                          [left EXCEPT !.current = Len(sockets) + 1]]
       ELSE /\ sockets' = WithoutCurrent(b)
            /\ page' = [page EXCEPT ![b] =
                 [left EXCEPT !.attempts = IF on THEN @ + 1 ELSE @]]
  /\ UNCHANGED <<fleetOf, sameDevice, changes>>

\* The import ends: every attempt that waits for it makes a socket, and
\* nothing asks whether it is still wanted.
ImportEnds(b) ==
  LET n == page[b].attempts IN
  /\ ~page[b].imported /\ n > 0 /\ Len(sockets) + n <= MaxSockets
  /\ sockets' = sockets \o [i \in 1..n |-> Made(b, TRUE)]
  /\ page' = [page EXCEPT ![b] = [@ EXCEPT !.imported = TRUE, !.attempts = 0,
                                           !.current = Len(sockets) + n]]
  /\ UNCHANGED <<fleetOf, sameDevice, changes>>

\* The page is loaded again, in the same tab, with the same peer id.
Reloads(b) ==
  /\ sockets' = [s \in DOMAIN sockets |->
       IF sockets[s].owner # b THEN sockets[s]
       ELSE [sockets[s] EXCEPT !.state = Closed, !.inbox = <<>>]]
  /\ page' = [page EXCEPT ![b] = [on |-> FALSE, imported |-> FALSE,
                attempts |-> 0, current |-> 0, timer |-> FALSE,
                peers |-> NoPeers]]
  /\ fleetOf' = [fleetOf EXCEPT ![b] = NoFleet]
  /\ UNCHANGED <<sameDevice, changes>>

SocketOpens(s) ==
  LET b == sockets[s].owner
      opened == [sockets EXCEPT ![s].state = "open"] IN
  /\ sockets[s].state \in {"connecting", "down"}
  /\ sockets' = IF page[b].current = s THEN Relayed(opened, b) ELSE opened
  /\ UNCHANGED <<page, fleetOf, sameDevice, changes>>

\* The socket library reconnects by itself; what was on its way is lost.
SocketDrops(s) ==
  /\ sockets[s].state = "open" /\ sockets[s].drops < MaxDrops
  /\ sockets' = [sockets EXCEPT ![s] = [@ EXCEPT !.state = "down",
                   !.inbox = <<>>, !.drops = sockets[s].drops + 1]]
  /\ UNCHANGED <<page, fleetOf, sameDevice, changes>>

\* broadcastLocalFleetNow
TimerFires(b) ==
  /\ page[b].timer
  /\ page' = [page EXCEPT ![b].timer = FALSE]
  /\ sockets' = IF IsOpen(b, sockets) THEN Relayed(sockets, b) ELSE sockets
  /\ UNCHANGED <<fleetOf, sameDevice, changes>>

Reply_Never(b, p) == FALSE
\* handleMultiplayerMessage: to a peer that is heard of for the first time.
Reply(b, p) == p \notin DOMAIN page[b].peers

Delivered(s) ==
  LET b == sockets[s].owner
      message == Head(sockets[s].inbox)
      p == message.from
      known == page[b].peers
      told == [q \in DOMAIN known \cup {p} |->
                 IF q = p THEN message.fleet ELSE known[q]]
      timer == page[b].timer IN
  /\ sockets[s].inbox # <<>>
  /\ sockets' = [sockets EXCEPT ![s].inbox = Tail(@)]
  /\ page' = IF page[b].current # s \/ p = b \/ sameDevice THEN page
             ELSE [page EXCEPT ![b] =
               [@ EXCEPT !.peers = told,
                         !.timer = IF Reply(b, p) THEN Scheduled(b, timer)
                                   ELSE timer]]
  /\ UNCHANGED <<fleetOf, sameDevice, changes>>

\* pruneMultiplayerPeers: a peer that is gone was not heard of for a while.
PeerGoesStale(b, p) ==
  /\ p \in DOMAIN page[b].peers /\ ~IsOpen(p, sockets)
  /\ page' = [page EXCEPT ![b].peers =
                [q \in DOMAIN @ \ {p} |-> @[q]]]
  /\ UNCHANGED <<sockets, fleetOf, sameDevice, changes>>

RoomNext ==
  \/ \E b \in Browsers :
       \/ \E fleet \in {NoShare, changes + 1} : FleetChanges(b, fleet)
       \/ \E on \in BOOLEAN : SettingsArrive(b, on)
       \/ ImportEnds(b) \/ Reloads(b) \/ TimerFires(b)
       \/ \E p \in Browsers \ {b} : PeerGoesStale(b, p)
  \/ \E s \in DOMAIN sockets :
       SocketOpens(s) \/ SocketDrops(s) \/ Delivered(s)

RoomSpec == RoomInit /\ [][RoomNext]_roomVars

(***************************************************************************)
(* Properties.                                                             *)
(***************************************************************************)

Settled ==
  /\ \A b \in Browsers : ~page[b].timer /\ page[b].attempts = 0
  /\ \A s \in DOMAIN sockets :
       sockets[s].state \in {"open", Closed} /\ sockets[s].inbox = <<>>
Present == {b \in Browsers : IsOpen(b, sockets) /\ fleetOf[b] # NoFleet}
SocketsOf(b) == {s \in DOMAIN sockets : sockets[s].owner = b}
\* It has joined once and never lost its connection.
Steady == {b \in Present : \A s \in SocketsOf(b) :
             s = page[b].current /\ sockets[s].drops = 0}

\* spec.md:376: whoever joins late is told what was published before, and
\* once nothing is on its way each browser shows what the others share now.
RoomConverges ==
  (Settled /\ ~sameDevice) =>
    \A b, p \in Steady : b # p =>
      p \in DOMAIN page[b].peers /\ page[b].peers[p] = fleetOf[p]

\* A connection that is no longer the browser's is closed, and with sharing
\* off there is none; only attempts that shared the import can leave one.
OnlyTheImportLeaks ==
  \A s \in DOMAIN sockets :
    sockets[s].state # Closed /\ ~sockets[s].import =>
      LET b == sockets[s].owner IN page[b].current = s /\ page[b].on

\* The viewers of one machine never take each other for peers.
OneDeviceIsNoPeer == sameDevice => \A b \in Browsers : page[b].peers = NoPeers

RoomIsShared == RoomConverges /\ OnlyTheImportLeaks /\ OneDeviceIsNoPeer

\* spec.md:376, of a browser that joins again.
LateJoinerIsTold ==
  (Settled /\ ~sameDevice) =>
    \A b, p \in Present : b # p => p \in DOMAIN page[b].peers

\* multiplayer-source.ts:1184: sharing is off.
OffIsOff == \A b \in Browsers :
  page[b].imported /\ ~page[b].on /\ page[b].attempts = 0
  => page[b].current = 0
=============================================================================
