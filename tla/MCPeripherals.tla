---------------------------- MODULE MCPeripherals ----------------------------
(***************************************************************************)
(* Components at the edge of the system, which share nothing with each     *)
(* other, in one run: what keeps its state in files (the coordination      *)
(* claims, the server's process, the history) and what the browsers of a  *)
(* room are told and show, and draw.                                       *)
(* The system under check is any one of them, and the others stay as they  *)
(* began.                                                                  *)
(***************************************************************************)
EXTENDS CoordinationClaims, CliLifecycle, HistoryJournal, MultiplayerRoom,
        SharedFloors, Toasts, OfficeScene, AgentMotion

CONSTANTS p1, p2, u1, u2, b1, b2, c1, c2

\* Fleets of this browser's server and of its peers: a project two of them
\* have, one that two know by another name, a fork, a project of one root
\* commit only, and one nobody else has.
Floor(root, repo, commit, ids) ==
  [root |-> root, repo |-> repo, commit |-> commit,
   agents |-> [i \in 1..Len(ids) |-> [id |-> ids[i], of |-> Own]]]

HasRepository == Floor("r1", "repo1", "c1", <<"x">>)
HasFork == Floor("r2", "repo2", "c1", <<>>)
HasCommitOnly == Floor("r3", Unknown, "c1", <<"x">>)

MCLocalFleets ==
  {<<HasRepository>>, <<HasRepository, HasFork>>, <<HasCommitOnly, HasFork>>}
MCRemoteFleets ==
  {<<Floor("r1", "repo1", "c1", <<"y">>), Floor("r4", "repo3", "c3", <<"z">>)>>,
   <<Floor("r2", "repo2", "c1", <<"x", "y">>)>>,
   <<Floor("r3", "repo3", "c1", <<"y">>)>>,
   <<Floor("r3", Unknown, "c1", <<"y">>)>>,
   <<Floor("r5", "repo3", "c3", <<"w">>)>>}

\* A peer's project without a repository, at the root of a local project.
NamelessFleets == {<<Floor("r1", Unknown, Unknown, <<"y">>)>>}

\* What agents do: the same line as a message and as a command, another
\* command, and what a neighbour does.
Does(actor, kind, line) == [actor |-> actor, kind |-> kind, text |-> <<line, "">>]
MCDoings ==
  {Does(c1, "message", "m"), Does(c1, "command", "m"), Does(c1, "command", "n"),
   Does(c2, "message", "m"), Does(c2, "approval", "m")}

\* Three happenings of one agent, or two of two.
FewOfBoth ==
  Cardinality({happened[i].actor : i \in DOMAIN happened}) = 2 => Len(happened) < 3

\* A page's floor gets another host, or none, and things fail; or two floors
\* change and are drawn anew.
Scenes == {"host", "floors"}

GoesOn(k) ==
  \/ RendererReady(k) \/ Draws(k) \/ SyncEnds(k)
  \/ \E h \in sync[k].todo : SkipsHost(k, h) \/ TakesHost(k, h)

HostScene ==
  \/ \E k \in Syncs, anew \in BOOLEAN : RendersMap(k, {c1}, {}, anew)
  \/ RendersTerminal({}) \/ RenderFails
  \/ \E k \in Syncs : GoesOn(k) \/ DrawFails(k)
  \/ \E r \in DOMAIN renderers : Starts(r) \/ StartFails(r)

FloorsScene ==
  \/ \E k \in Syncs, S \in SUBSET Floors, changed \in {{}, {c1}} :
       RendersMap(k, S, changed, FALSE) /\ shells' = 1
  \/ Resized
  \/ frame /\ (\A k \in Syncs : sync[k].at = "idle") /\ RendersTerminal({})
  \/ \E k \in Syncs : GoesOn(k) \/ FrameComes(k)
  \/ \E r \in DOMAIN renderers : Starts(r)

\* One terminal forces nothing.
ForcesFew == ~shell[u2].force

\* Of the browsers that share a device, no socket drops.
DropsFew == sameDevice => \A s \in DOMAIN sockets : sockets[s].drops = 0

\* Two agents and what becomes of them in three renders of which nothing fails, or
\* in two with something that does.  One is the other's child.  While a model's
\* assets are awaited nobody moves: it does not depend on where they are.
OneParent == [a \in Walkers |-> c1]
Moves == {"smooth", "mishap"}

Changes(d, sh) ==
  Cardinality({a \in Walkers : d[a] # doing[a]}) + (IF sh = shift THEN 0 ELSE 1)

RendersFew ==
  \E x \in {"away", "rest", "wait", "east"}, y \in {"away", "wait", "east"}, far \in 0..2, gone \in SUBSET {c1} :
    LET d == [a \in Walkers |-> IF a = c1 THEN x ELSE y]
        sh == [shift EXCEPT ![c1] = far] IN
    /\ IF renders = 0 THEN x \in {"rest", "east"} /\ far = 0 ELSE Changes(d, sh) = 1
    /\ Renders(d, sh, {}, gone)

PlansAnew ==
  /\ plan = <<>>
  /\ \E rec \in RecSlots, desks \in Desks :
       /\ SeatsOf(rec, desks) # scene \/ motions = NoMotions
       /\ Plans(rec, desks)

Moving ==
  /\ plan = <<>>
  /\ \E k \in animated : \E m \in Framed(motions[k]) :
       /\ motions[k].item => (m.item \/ renders = 1)
       /\ Frame(k, m)

SmoothMotion == RendersFew \/ PlansAnew \/ Redraws({}) \/ Moving

MishapMotion ==
  \/ renders < 2 /\ RendersFew
  \/ PlansAnew \/ Moving
  \/ Redraws({})
  \/ renders = 2 /\ (RendererGoes(TRUE) \/ RendererGoes(FALSE))
  \/ renders = 2 /\ \E k \in Walkers \union DOMAIN motions : Redraws({k})
  \/ renders = 2 /\ \E S \in SUBSET {c1} : RedrawFails(S)

-----------------------------------------------------------------------------
VARIABLE which

allVars == <<claimVars, lifecycleVars, historyVars, roomVars, sharedVars,
             toastVars, sceneVars, motionVars, which>>

PeripheralsInit ==
  /\ ClaimInit /\ LifecycleInit /\ HistoryInit
  /\ RoomInit /\ SharedInit /\ ToastsInit /\ SceneInit /\ MotionInit
  /\ which \in {"claims", "lifecycle", "history", "room", "shared", "toasts"} \union Scenes \union Moves
  /\ which # "room" => ~sameDevice
  /\ IF which = "toasts" THEN typed \in {{}, {c1, c2}} ELSE typed = {}

RestOf(part) ==
  /\ which = part
  /\ part # "claims" => UNCHANGED claimVars
  /\ part # "lifecycle" => UNCHANGED lifecycleVars
  /\ part # "history" => UNCHANGED historyVars
  /\ part # "room" => UNCHANGED roomVars
  /\ part # "shared" => UNCHANGED sharedVars
  /\ part # "toasts" => UNCHANGED toastVars
  /\ part \notin Scenes => UNCHANGED sceneVars
  /\ part \notin Moves => UNCHANGED motionVars

PeripheralsNext ==
  /\ UNCHANGED which
  /\ \/ RestOf("claims") /\ ClaimNext
     \/ RestOf("lifecycle") /\ LifecycleNext /\ ForcesFew'
     \/ RestOf("history") /\ HistoryNext
     \/ RestOf("room") /\ RoomNext /\ DropsFew'
     \/ RestOf("shared") /\ SharedNext
     \/ RestOf("toasts") /\ ToastsNext /\ FewOfBoth'
     \/ RestOf("host") /\ HostScene
     \/ RestOf("floors") /\ FloorsScene
     \/ RestOf("smooth") /\ SmoothMotion
     \/ RestOf("mishap") /\ MishapMotion

PeripheralsSpec == PeripheralsInit /\ [][PeripheralsNext]_allVars
==============================================================================
