----------------------------- MODULE AgentMotion -----------------------------
(***************************************************************************)
(* How the agents of a floor move (web/src/client/runtime).  A render      *)
(* notes who has come and who is gone (syncLiveAgentState() in ui-source); *)
(* a redraw seats the agents (stableSceneSlotAssignments() in              *)
(* settings-source, assignAgentsToDeskSlots() in layout-source) and gives  *)
(* each a motion, from the one it had (navigation-source); frames move     *)
(* them (scene-renderer-source, navigation-pathing-source).                *)
(*                                                                         *)
(* A place is a room, what is there, a number, and how far the layout, or  *)
(* an open thread panel, has moved it.  A way through a room leads over    *)
(* its floor.  Of a bob and of a sprite that is not animated, only that    *)
(* they do not walk is kept; doors, items in flight and signals are left   *)
(* out.                                                                    *)
(***************************************************************************)
EXTENDS Integers, Sequences, FiniteSets

CONSTANTS
  Walkers,
  Rooms, Primary,      \* where agents rest and wait
  Parents,             \* the parent of a subagent, or its own agent
  RestLimit,           \* 4
  MaxAlpha,            \* the steps of a fade
  MaxRenders, MaxMishaps   \* bounds

None == "none"
NoMotions == [k \in {} |-> None]

ASSUME MotionAssumption ==
  /\ IsFiniteSet(Walkers) /\ IsFiniteSet(Rooms) /\ Primary \in Rooms
  /\ Parents \in [Walkers -> Walkers]
  /\ RestLimit \in Nat /\ MaxAlpha \in Nat \ {0}
  /\ {MaxRenders, MaxMishaps} \subseteq Nat
  /\ {"away", "rest", "wait"} \cap Rooms = {}
  /\ Walkers \cap (Walkers \X Rooms) = {}     \* ghosts have keys of their own

VARIABLES
  doing,        \* "away", "rest", "wait", or the room an agent works in
  shift,        \* how far the seats of agents have moved: 0, or 1, a little, or 2
  memory,       \* liveAgentMemory
  entering,     \* enteringAgentKeys
  departing,    \* departingAgents
  recSlots,     \* recSlotMemory
  remembered,   \* renderedAgentSceneState: the slots of the agents it has
  plan,         \* the seats of a model whose assets are awaited, if any
  scene,        \* as a history, the seats of the last redraw
  motions, animated,
  astray,       \* as a history, agents without a way, or whose seat moved on their way back
  seen,         \* as a history, agents drawn since before they left
  botched,         \* as a history, the last redraw failed
  renders, mishaps

motionVars ==
  <<doing, shift, memory, entering, departing, recSlots, remembered, plan, scene,
    motions, animated, astray, seen, botched, renders, mishaps>>

-----------------------------------------------------------------------------
(* Places *)

Spot(room, what, i, moved) == <<room, what, i, moved>>
Door(room) == Spot(room, "door", 0, 0)
Hall(room) == Spot(room, "hall", 0, 0)
Facility(room) == Spot(room, "facility", 0, 0)

\* Within MAX_SEATED_NAVIGATION_DISTANCE_PX: a desk that was nudged.
Near(p, q) ==
  p = q \/ (p[2] = "desk" /\ <<p[1], p[2], p[3]>> = <<q[1], q[2], q[3]>> /\ {p[4], q[4]} = {0, 1})

\* buildAgentPixelRoute(), from the next point on; none for those who find no way.
Way(p, q) == IF p = q THEN <<>> ELSE IF p = Hall(q[1]) THEN <<q>> ELSE <<Hall(q[1]), q>>
Route(k, p, q, lost) == IF k \in lost THEN <<>> ELSE Way(p, q)

-----------------------------------------------------------------------------
(* Seats *)

\* The slots of those who keep theirs, and the first of the others for the rest.
Firsts(free, n) == {i \in free : Cardinality({j \in free : j < i}) < n}

Filled(before, K, N, slots) ==
  {s \in [K \union N -> slots] :
     /\ \A a \in K : s[a] = before[a]
     /\ {s[a] : a \in N} = Firsts(slots \ {before[a] : a \in K}, Cardinality(N))}

\* stableSceneSlotAssignments(): those who have a slot keep it, while there are as
\* many, and of the others as many as there is room for get one.
StableSlots(before, S, limit) ==
  LET K == {a \in S \cap DOMAIN before : before[a] < limit}
      room == limit - Cardinality(K)
      fits == {N \in SUBSET (S \ K) : N = S \ K \/ Cardinality(N) = room}
  IN UNION {Filled(before, K, N, 0..(limit - 1)) : N \in {M \in fits : Cardinality(M) <= room}}

\* assignGroupedDeskAgents(): one who has worked at a slot gets it again, unless
\* another has.  The desks, and a boss's office, are of one group, a place each.
DeskSlots(S) ==
  LET had == {a \in S \cap DOMAIN remembered : remembered[a] # 0}
      keeps(K) == \A a \in had : Cardinality({b \in K : remembered[b] = remembered[a]}) = 1
  IN UNION {Filled(remembered, K, S \ K, 1..Cardinality(Walkers)) : K \in {L \in SUBSET had : keeps(L)}}

Those(what) == {a \in Walkers : doing[a] = what}

RecSlots ==
  {[rest |-> r, wait |-> w] :
     r \in StableSlots(recSlots.rest, Those("rest"), RestLimit),
     w \in StableSlots(recSlots.wait, Those("wait"), Cardinality(Walkers))}

Desks == {f \in [Rooms -> UNION {DeskSlots(Those(r)) : r \in Rooms}] :
            \A r \in Rooms : f[r] \in DeskSlots(Those(r))}

\* buildOfficeSceneModel(): the agents it has room for, with their seats.
Seat(room, what, i, slot, a) ==
  [room |-> room, at |-> Spot(room, what, i, shift[a]), slot |-> slot,
   rests |-> what = "rest"]

SeatsOf(rec, desks) ==
  [a \in DOMAIN rec.rest \union DOMAIN rec.wait \union UNION {DOMAIN desks[r] : r \in Rooms} |->
     IF a \in DOMAIN rec.rest THEN Seat(Primary, "rest", rec.rest[a], 0, a)
     ELSE IF a \in DOMAIN rec.wait THEN Seat(Primary, "wait", rec.wait[a], 0, a)
     ELSE Seat(doing[a], "desk", desks[doing[a]][a], desks[doing[a]][a], a)]

-----------------------------------------------------------------------------
(* Motions: a slot of 0 is none. *)

Finished(m) == m.route = <<>>

\* shouldReuseMotionTarget()
OnTrip(m, s) == s.rests /\ m.trip \in {"out", "back"}

Reuses_EndsTrips(m, s) ==
  /\ ~m.exiting /\ m.room = s.room
  /\ m.target = s.at \/ (m.slot = s.slot /\ Near(m.target, s.at))
Reuses(m, s) ==
  /\ ~m.exiting /\ m.room = s.room
  /\ OnTrip(m, s) \/ m.target = s.at \/ (m.slot = s.slot /\ Near(m.target, s.at))

SlotOf(s, before) == IF s.slot # 0 THEN s.slot ELSE before

\* A motion that goes on, by a new way if the desk was nudged (startSeatedNavigation()).
Nudged(m, s) ==
  m.slot = s.slot /\ m.target # s.at /\ Near(m.target, s.at) /\ Way(m.at, s.at) # <<>>

Reused(k, m, s, lost) ==
  LET goes == Nudged(m, s) /\ k \notin lost IN
  [m EXCEPT !.target = IF goes THEN s.at ELSE m.target,
            !.route = IF goes THEN Way(m.at, s.at) ELSE m.route,
            !.slot = SlotOf(s, m.slot),
            !.trip = IF ~s.rests THEN None ELSE IF m.trip = None THEN "seated" ELSE m.trip,
            !.home = s.at,
            !.item = m.item /\ s.rests]

\* A new motion, after another of its agent, if any, from where the agent is or enters.
NewMotion(k, before, start, s, lost) ==
  LET slot == IF before = <<>> THEN 0 ELSE before[1].slot
      item == before # <<>> /\ before[1].item IN
  [room |-> s.room, at |-> start, route |-> Route(k, start, s.at, lost), target |-> s.at,
   slot |-> SlotOf(s, slot), exiting |-> FALSE, alpha |-> MaxAlpha,
   trip |-> IF s.rests THEN "seated" ELSE None, home |-> s.at, item |-> item /\ s.rests]

\* Where agents begin that had no motion: those new to the page come from their
\* parent, if it is drawn by then, or through the door; the others are just there.
\* (A parent drawn only by a renderer that has gone is left out.)
EntryPoints(new) ==
  LET Entry[a \in DOMAIN new] ==
        LET p == Parents[a]
            s == new[a]
            follows == p # a /\ s.slot # 0 IN
        IF a \notin entering THEN s.at
        ELSE IF follows /\ p \in DOMAIN motions /\ motions[p].room = s.room
          THEN motions[p].at
        ELSE IF follows /\ p \in DOMAIN new \ DOMAIN motions /\ new[p].room = s.room
                        /\ new[p].slot \in 1..(s.slot - 1)
          THEN Entry[p]
        ELSE Door(s.room)
  IN Entry

\* registerAgentMotion()
MotionFor(a, s, entry, lost) ==
  IF a \notin DOMAIN motions THEN NewMotion(a, <<>>, entry, s, lost)
  ELSE LET m == motions[a] IN
       IF m.room # s.room THEN NewMotion(a, <<>>, Door(s.room), s, lost)
       ELSE IF Reuses(m, s) THEN Reused(a, m, s, lost)
       ELSE NewMotion(a, <<m>>, m.at, s, lost)

\* buildExitGhostMotion(): a ghost walks to the door, and stays there when it has been.
Ghost(k, m, lost) ==
  [m EXCEPT !.exiting = TRUE, !.trip = None, !.item = FALSE, !.slot = 0,
            !.target = Door(m.room), !.home = Door(m.room),
            !.route = IF m.exiting /\ Finished(m) THEN <<>> ELSE Route(k, m.at, Door(m.room), lost)]

\* An agent that changes rooms leaves a ghost in the one it had.
Crossing(new) ==
  {a \in DOMAIN new \cap DOMAIN motions : motions[a].room # new[a].room /\ ~motions[a].exiting}
GhostKeys(new) == {<<a, motions[a].room>> : a \in Crossing(new)}

Gone(new) == DOMAIN motions \ (DOMAIN new \union GhostKeys(new))
Lingering(new) == {k \in Gone(new) : motions[k].exiting}
Departed(new) == {k \in Gone(new) \cap departing : ~motions[k].exiting}

Moved(new, lost) ==
  LET entry == EntryPoints(new) IN
  [k \in DOMAIN new \union GhostKeys(new) \union Lingering(new) \union Departed(new) |->
     IF k \in DOMAIN new THEN MotionFor(k, new[k], entry[k], lost)
     ELSE IF k \in GhostKeys(new) THEN Ghost(k[1], motions[k[1]], lost)
     ELSE Ghost(k, motions[k], lost)]

\* What walks, or may: a seated agent at work bobs, one that waits stands.
Walks(m) == ~Finished(m) \/ m.trip # None \/ m.exiting

-----------------------------------------------------------------------------
(* render() *)

OnPage(d) == {a \in Walkers : d[a] # "away"}

\* syncLiveAgentState(): some agents' updates look older than the page
\* (agentLooksHistoricallyHydrated()), and some who left have expired.  Only leads rest.
Renders(d, sh, hydrated, expired) ==
  LET left == {a \in memory \ OnPage(d) : a \in DOMAIN remembered} IN
  /\ renders < MaxRenders /\ renders' = renders + 1
  /\ \A a \in Walkers : d[a] = "rest" => Parents[a] = a
  /\ expired \subseteq departing /\ expired # {} => mishaps < MaxMishaps
  /\ mishaps' = IF expired = {} THEN mishaps ELSE mishaps + 1
  /\ doing' = d /\ shift' = sh
  /\ entering' = IF memory = {} THEN {} ELSE (OnPage(d) \ memory) \ hydrated
  /\ departing' = ((departing \ expired) \union left) \ OnPage(d)
  /\ memory' = OnPage(d)
  /\ UNCHANGED <<recSlots, remembered, plan, scene, motions, animated, astray, seen, botched>>

\* The shell is drawn anew, or not at all for a while, and with it the renderer; a
\* render that failed also forgets what was drawn.
RendererGoes(failed) ==
  /\ mishaps < MaxMishaps /\ mishaps' = mishaps + 1
  /\ remembered' = IF failed THEN NoMotions ELSE remembered
  /\ plan' = <<>> /\ scene' = NoMotions /\ motions' = NoMotions
  /\ animated' = {} /\ astray' = {} /\ seen' = {} /\ botched' = FALSE
  /\ UNCHANGED <<doing, shift, memory, entering, departing, recSlots, renders>>

-----------------------------------------------------------------------------
(* syncOfficeMapScenes(): a model is built, its assets awaited, and drawn. *)

Plans(rec, desks) ==
  /\ recSlots' = rec /\ plan' = <<SeatsOf(rec, desks)>>
  /\ UNCHANGED <<doing, shift, memory, entering, departing, remembered, scene, motions,
                 animated, astray, seen, botched, renders, mishaps>>

\* The agents whose seats have moved on their way back to them.
Misled(new) ==
  {a \in DOMAIN new \cap DOMAIN motions :
     motions[a].trip = "back" /\ Reuses(motions[a], new[a]) /\ motions[a].target # new[a].at}

StillAstray(new) == {a \in astray \cap DOMAIN new \cap DOMAIN motions : Reuses(motions[a], new[a])}

\* syncOfficeRendererScene().  For some no way is found, or only one of no length.
Redraws(lost) ==
  LET new == plan[1]
      moved == Moved(new, lost)
      live == {k \in DOMAIN moved : ~moved[k].exiting} IN
  /\ plan # <<>>
  /\ lost # {} => mishaps < MaxMishaps
  /\ mishaps' = IF lost = {} THEN mishaps ELSE mishaps + 1
  /\ plan' = <<>> /\ scene' = new /\ motions' = moved
  /\ animated' = {k \in DOMAIN moved : Walks(moved[k])}
  /\ remembered' = [a \in live |-> moved[a].slot]
  /\ astray' = (lost \cap DOMAIN new) \union StillAstray(new) \union Misled(new)
  /\ seen' = DOMAIN new \cap (memory \union seen)
  /\ botched' = FALSE
  /\ UNCHANGED <<doing, shift, memory, entering, departing, recSlots, renders>>

\* Something throws after the agents of S had their turn: what was changed in place
\* of the motions they had is not undone, the rest is.
Touched(k, m, s) ==
  IF Reuses(m, s) THEN Reused(k, m, s, {})
  ELSE [m EXCEPT !.item = m.item /\ (s.rests \/ m.room # s.room)]

RedrawFails(S) ==
  /\ plan # <<>> /\ S \subseteq DOMAIN plan[1]
  /\ mishaps < MaxMishaps /\ mishaps' = mishaps + 1
  /\ plan' = <<>>
  /\ motions' = [k \in DOMAIN motions |->
       IF k \in S THEN Touched(k, motions[k], plan[1][k]) ELSE motions[k]]
  /\ botched' = TRUE
  /\ UNCHANGED <<doing, shift, memory, entering, departing, recSlots, remembered, scene,
                 animated, astray, seen, renders>>

-----------------------------------------------------------------------------
(* A frame, for one of the animated *)

\* updateAutonomousRestingMotion(): an item is put away in time, what has been
\* reached leads on, and one who sits may go.
Sent(m, place) == [m EXCEPT !.route = Way(m.at, place), !.target = place]

Held(m) == {m, [m EXCEPT !.item = FALSE]}

Trips(m) ==
  IF ~Finished(m) \/ m.trip = None THEN {m}
  ELSE CASE m.trip = "out" -> {[Sent(m, m.home) EXCEPT !.trip = "back", !.item = i] : i \in BOOLEAN}
         [] m.trip = "back" -> {[m EXCEPT !.trip = "seated"]}
         [] OTHER -> {m, [Sent(m, Facility(m.room)) EXCEPT !.trip = "out"]}

\* The next point is reached, or not yet; a ghost at the door fades.
Walked(m) ==
  IF Finished(m) THEN {m} ELSE {m, [m EXCEPT !.at = Head(m.route), !.route = Tail(m.route)]}
Faded(m) ==
  IF m.exiting /\ Finished(m) /\ m.alpha > 0 THEN [m EXCEPT !.alpha = m.alpha - 1] ELSE m

Framed(m) ==
  LET rests == UNION {Trips(h) : h \in Held(m)} IN
  {Faded(w) : w \in UNION {Walked(t) : t \in IF m.exiting THEN {m} ELSE rests}}

Frame(k, m) ==
  /\ motions' = [motions EXCEPT ![k] = m]
  /\ animated' = IF m.exiting /\ m.alpha = 0 THEN animated \ {k} ELSE animated
  /\ UNCHANGED <<doing, shift, memory, entering, departing, recSlots, remembered, plan,
                 scene, astray, seen, botched, renders, mishaps>>

-----------------------------------------------------------------------------
MotionInit ==
  /\ doing = [a \in Walkers |-> "away"] /\ shift = [a \in Walkers |-> 0]
  /\ memory = {} /\ entering = {} /\ departing = {}
  /\ recSlots = [rest |-> NoMotions, wait |-> NoMotions]
  /\ remembered = NoMotions /\ plan = <<>> /\ scene = NoMotions
  /\ motions = NoMotions /\ animated = {}
  /\ astray = {} /\ seen = {} /\ botched = FALSE
  /\ renders = 0 /\ mishaps = 0

MotionNext ==
  \/ \E d \in [Walkers -> {"away", "rest", "wait"} \union Rooms], sh \in [Walkers -> 0..2] :
       \E hydrated, expired \in SUBSET Walkers : Renders(d, sh, hydrated, expired)
  \/ \E failed \in BOOLEAN : RendererGoes(failed)
  \/ \E rec \in RecSlots, desks \in Desks : Plans(rec, desks)
  \/ \E lost \in SUBSET (Walkers \union DOMAIN motions) : Redraws(lost)
  \/ \E S \in SUBSET Walkers : RedrawFails(S)
  \/ \E k \in animated : \E m \in Framed(motions[k]) : Frame(k, m)

MotionSpec == MotionInit /\ [][MotionNext]_motionVars

-----------------------------------------------------------------------------
(* What is drawn *)

\* What moves has a way to go, one point at a time, and nothing else moves: a redraw
\* takes no agent from where it is to where it should be.  One that changes rooms
\* leaves a ghost where it was, and comes in by the door.
WalksOn(k) ==
  motions'[k].at # motions[k].at => <<motions'[k].at>> \o motions'[k].route = Way(motions[k].at, motions'[k].target)

ChangesRooms(a) ==
  /\ motions'[a].at = Door(motions'[a].room)
  /\ ~motions[a].exiting =>
       LET g == <<a, motions[a].room>> IN
       g \in DOMAIN motions' /\ motions'[g].exiting /\ motions'[g].at = motions[a].at

NobodyJumps ==
  \A k \in DOMAIN motions \cap DOMAIN motions' :
    IF motions'[k].room # motions[k].room THEN ChangesRooms(k)
    ELSE WalksOn(k) \/ (k \notin Walkers /\ motions'[k].alpha = MaxAlpha)

\* A redraw does not call back one who rests from its trip.
TripsGoOn ==
  \A a \in DOMAIN scene' \cap DOMAIN motions :
    /\ scene'[a].rests /\ scene'[a].room = motions[a].room
    /\ ~Finished(motions[a]) /\ motions[a].trip \in {"out", "back"}
    => motions'[a].trip = motions[a].trip

\* As long as nothing fails, an agent that was drawn and left walks out of the room.
LeaversWalkOut ==
  mishaps' = 0 /\ (DOMAIN motions' # {} \/ plan' = plan) =>
    \A a \in (Walkers \cap DOMAIN motions) \ (DOMAIN motions' \union memory') : a \notin seen

\* A ghost only fades.
GhostsFade ==
  \A k \in Walkers \cap DOMAIN motions \cap DOMAIN motions' :
    motions[k].exiting /\ motions'[k].exiting => motions'[k].alpha <= motions[k].alpha

\* Who has somewhere to go is on the way, and who is not on a trip and not astray
\* sits in its seat, or no further off than a desk was nudged.
Live(m) == ~m.exiting

SeatsAreTaken ==
  /\ {k \in DOMAIN motions : Live(motions[k])} = DOMAIN scene
  /\ \A k \in DOMAIN motions :
       ~Finished(motions[k]) \/ (motions[k].exiting /\ motions[k].alpha > 0) => k \in animated
  /\ \A a \in DOMAIN scene \ astray :
       Finished(motions[a]) /\ motions[a].trip \notin {"out", "back"} =>
         Near(motions[a].at, scene[a].at)

AgentsMoveSoundly ==
  [][NobodyJumps /\ TripsGoOn /\ LeaversWalkOut /\ GhostsFade /\ (~botched' => SeatsAreTaken')]_motionVars
==============================================================================
