---------------------------- MODULE SharedFloors ----------------------------
(***************************************************************************)
(* What a browser shows of its own fleet and of its peers' together        *)
(* (web/src/client/multiplayer-source.ts, buildSharedFleet and applyFleet) *)
(* every time its server sends a fleet or the room changes.  A floor is a  *)
(* project with the repository address and the root commit it is known by, *)
(* either of them possibly missing, and the agents on it.  A remote floor  *)
(* joins the floor of the same repository, and is a floor of its own where *)
(* there is none.  Only floors with active agents are sent, and peers stop *)
(* being heard after MULTIPLAYER_STALE_MS.                                 *)
(***************************************************************************)
EXTENDS Naturals, Sequences, SequencesExt

CONSTANTS
  Peers,
  LocalFleets,    \* what the server may send: sequences of floors
  RemoteFleets,   \* what a peer may send
  MaxNews         \* bound on the fleets and payloads that arrive


VARIABLES
  localFleet,   \* state.localFleet
  heard,        \* multiplayerPeers, in the order of the map
  shown,        \* state.fleet
  news

sharedVars == <<localFleet, heard, shown, news>>

Unknown == "unknown"
Own == "own"

\* A fleet as its own server sends it.  Of one that is shared, only floors with
\* active agents are sent, and an agent works on one of them.
FloorsOf(owners) ==
  [root : STRING, repo : STRING, commit : STRING,
   agents : Seq([id : STRING, of : owners])]

Ids(floor) == {floor.agents[k].id : k \in DOMAIN floor.agents}

ASSUME SharedBounds == MaxNews \in Nat
ASSUME PeersAreOthers == Own \notin Peers
ASSUME FleetsAreOwn == LocalFleets \cup RemoteFleets \subseteq Seq(FloorsOf({Own}))
ASSUME AgentsAreDistinct ==
  \A floors \in RemoteFleets : \A x, y \in DOMAIN floors :
    /\ floors[x].agents # <<>>
    /\ x # y => Ids(floors[x]) \cap Ids(floors[y]) = {}
    /\ \A j, k \in DOMAIN floors[x].agents :
         floors[x].agents[j].id = floors[x].agents[k].id => j = k

SharedInit ==
  localFleet = <<>> /\ heard = <<>> /\ shown = <<>> /\ news = 0

-----------------------------------------------------------------------------
Known(x, y) == x # Unknown /\ x = y

First(hits) == IF hits = {} THEN 0 ELSE CHOOSE i \in hits : \A j \in hits : i <= j

OfRepository(floors, remote) == {i \in DOMAIN floors : Known(floors[i].repo, remote.repo)}
OfCommit(floors, remote) == {i \in DOMAIN floors : Known(floors[i].commit, remote.commit)}

\* The first floor of a key; a root commit that two repositories have in
\* common names none.
ByRepository(floors, remote) == First(OfRepository(floors, remote))

SameProject(floor, other) == Known(floor.repo, other.repo) \/ floor.root = other.root

ByCommit(floors, remote) ==
  LET first == First(OfCommit(floors, remote))
  IN IF \A i \in OfCommit(floors, remote) : SameProject(floors[i], floors[first])
     THEN first ELSE 0

ByIdentity(floors, remote) ==
  IF ByRepository(floors, remote) # 0 THEN ByRepository(floors, remote)
  ELSE ByCommit(floors, remote)

Anonymous(remote) == remote.repo = Unknown /\ remote.commit = Unknown

ByRoot(floors, remote) == First({i \in DOMAIN floors : floors[i].root = remote.root})

\* mergeSharedAgent, for those the floor does not already have: the name of
\* the peer becomes part of an agent's identity.
Shares(peer, agent) == [id |-> agent.id, of |-> peer]

Joining_All(peer, remote, floor) ==
  [a \in DOMAIN remote.agents |-> Shares(peer, remote.agents[a])]
Joining(peer, remote, floor) ==
  LET Here(agent) == \E k \in DOMAIN floor.agents : floor.agents[k] = Shares(Own, agent)
      joining[n \in 0..Len(remote.agents)] ==
        IF n = 0 THEN <<>>
        ELSE IF Here(remote.agents[n]) THEN joining[n - 1]
        ELSE Append(joining[n - 1], Shares(peer, remote.agents[n]))
  IN joining[Len(remote.agents)]

With(floors, i, peer, remote) ==
  [floors EXCEPT ![i].agents = @ \o Joining(peer, remote, floors[i])]

Emptied(remote) == [remote EXCEPT !.agents = <<>>]

\* A floor of the peer, merged.  A floor without an identity is looked up by
\* its root among the fleet the server sent, not in the copy that is shown.
MergeFloor(both, peer, remote) ==
  LET i == ByIdentity(both.shown, remote)
      j == IF Anonymous(remote) THEN ByRoot(both.local, remote) ELSE 0
  IN IF i # 0 THEN [both EXCEPT !.shown = With(@, i, peer, remote)]
     ELSE IF j # 0 THEN [both EXCEPT !.local = With(@, j, peer, remote)]
     ELSE [both EXCEPT !.shown =
             With(Append(@, Emptied(remote)), Len(@) + 1, peer, remote)]

\* buildSharedFleet: the copy that is shown, and the fleet it was copied
\* from, after each floor of each peer.
MergePeer(both, said) ==
  LET merged[n \in 0..Len(said.floors)] ==
        IF n = 0 THEN both ELSE MergeFloor(merged[n - 1], said.peer, said.floors[n])
  IN merged[Len(said.floors)]

Shared(fleet, peers) ==
  LET merged[n \in 0..Len(peers)] ==
        IF n = 0 THEN [shown |-> fleet, local |-> fleet]
        ELSE MergePeer(merged[n - 1], peers[n])
  IN merged[Len(peers)]

\* applyFleet
Applies(fleet, peers) ==
  /\ shown' = Shared(fleet, peers).shown
  /\ localFleet' = Shared(fleet, peers).local
  /\ heard' = peers

-----------------------------------------------------------------------------
FleetArrives ==
  /\ news < MaxNews /\ news' = news + 1
  /\ \E fleet \in LocalFleets : Applies(fleet, heard)

Place(peer) == First({i \in DOMAIN heard : heard[i].peer = peer})

\* handleMultiplayerMessage: a known peer keeps its place in the map.
PeerSays(peer) ==
  /\ news < MaxNews /\ news' = news + 1
  /\ \E floors \in RemoteFleets :
       LET said == [peer |-> peer, floors |-> floors] IN
       Applies(localFleet,
               IF Place(peer) = 0 THEN Append(heard, said)
               ELSE [heard EXCEPT ![Place(peer)] = said])

\* pruneMultiplayerPeers
PeerGoes(peer) ==
  /\ Place(peer) # 0
  /\ Applies(localFleet, RemoveAt(heard, Place(peer)))
  /\ UNCHANGED news

SharedNext ==
  \/ FleetArrives
  \/ \E p \in Peers : PeerSays(p) \/ PeerGoes(p)

SharedSpec == SharedInit /\ [][SharedNext]_sharedVars

-----------------------------------------------------------------------------
InTheRoom == {heard[i].peer : i \in DOMAIN heard}
Spots(of) == {s \in UNION {{i} \X (DOMAIN shown[i].agents) : i \in DOMAIN shown} :
                shown[s[1]].agents[s[2]].of = of}
At(spot) == shown[spot[1]].agents[spot[2]]

\* Nobody is shown who is not in the room: "A disconnected peer may remain
\* visible only through the normal bounded multiplayer stale-peer window"
\* (docs/spec.md:384), which pruneMultiplayerPeers keeps.
GonePeersAreHidden ==
  \A i \in DOMAIN shown : \A k \in DOMAIN shown[i].agents :
    shown[i].agents[k].of \in InTheRoom \cup {Own}

\* An agent of a peer is shown at one place, and not next to an agent of this
\* browser's own fleet that it is.
ShownOnce ==
  /\ \A p \in InTheRoom : \A s, t \in Spots(p) : At(s) = At(t) => s = t
  /\ \A s \in Spots(Own) : \A p \in InTheRoom : \A t \in Spots(p) :
       s[1] = t[1] => At(s).id # At(t).id

\* Each agent of a peer is shown, or the agent of this browser's fleet that it is.
AllAreShown ==
  \A m \in DOMAIN heard : \A x \in DOMAIN heard[m].floors :
    \A id \in Ids(heard[m].floors[x]) :
      \E s \in Spots(heard[m].peer) \cup Spots(Own) : At(s).id = id

\* A repository all peers know by the same root commit.
OneHistory(repo) ==
  \A m, n \in DOMAIN heard : \A x \in DOMAIN heard[m].floors :
    \A y \in DOMAIN heard[n].floors :
      heard[m].floors[x].repo = repo /\ heard[n].floors[y].repo = repo
        => heard[m].floors[x].commit = heard[n].floors[y].commit

\* Whoever works in the same repository is shown on one floor, whether or not
\* this browser's user has the project.  With two histories that may depend
\* on who came first: one may be known here by its commit, the other not.
SameProjectMeets ==
  \A m, n \in DOMAIN heard : \A x \in DOMAIN heard[m].floors :
    \A y \in DOMAIN heard[n].floors :
      LET one == heard[m].floors[x]
          other == heard[n].floors[y]
          FloorOf(p, f) == {s[1] : s \in {t \in Spots(p) :
                              \E a \in DOMAIN f.agents :
                                At(t).id = f.agents[a].id}}
      IN one.repo # Unknown /\ one.repo = other.repo /\ OneHistory(one.repo)
           => \A i \in FloorOf(heard[m].peer, one) :
                FloorOf(heard[n].peer, other) \subseteq {i}

\* The room shows each of its members at one desk, on the floor of the
\* project, and takes nothing away from the fleet of this browser's server.
FloorsAreShared ==
  /\ GonePeersAreHidden
  /\ ShownOnce
  /\ AllAreShown
  /\ SameProjectMeets
  /\ \A i \in DOMAIN localFleet : \A k \in DOMAIN localFleet[i].agents :
       shown[i].agents[k] = localFleet[i].agents[k]
=============================================================================
