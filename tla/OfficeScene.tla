----------------------------- MODULE OfficeScene -----------------------------
(***************************************************************************)
(* How the floors of a page's map are drawn (web/src/client/runtime:       *)
(* office-scene-lifecycle-source, scene-renderer-source, the head and tail *)
(* of syncOfficeRendererScene() in navigation-source, and render() in      *)
(* ui-source).  A floor has a host in the document and a renderer, an      *)
(* application with a canvas and a ticker, in the host.  Renders follow    *)
(* each other without waiting for the calls of syncOfficeMapScenes() they  *)
(* make, which await the renderers and the assets of floor after floor.    *)
(*                                                                         *)
(* What a floor shows is the number of its snapshot.  A host is known by   *)
(* its floor and by the shell it came with, the HTML of the whole map.     *)
(***************************************************************************)
EXTENDS Integers, Sequences, FiniteSets

CONSTANTS
  Floors,
  Syncs,          \* the calls of syncOfficeMapScenes() at a time
  MaxSnapshots, MaxShells, MaxFaults   \* bounds

ASSUME SceneBoundsAssumption ==
  /\ IsFiniteSet(Floors) /\ IsFiniteSet(Syncs)
  /\ {MaxSnapshots, MaxShells, MaxFaults} \subseteq Nat

VARIABLES
  view,        \* state.view
  hosts,       \* the shell the host of each floor came with, 0 for none
  shells,      \* how many there were
  newest,        \* the newest snapshot of each floor
  latest,      \* latestOfficeMapProjects
  registry,    \* officeSceneRenderers: the number of a renderer, or 0
  renderers,
  sync,
  frame,       \* officeSceneViewportSyncQueued
  faults

sceneVars ==
  <<view, hosts, shells, newest, latest, registry, renderers, sync, frame, faults>>

-----------------------------------------------------------------------------
\* The projects of a list are those whose snapshot has a number.
NoProjects == [f \in Floors |-> 0]
ProjectsOf(S) == [f \in Floors |-> IF f \in S THEN newest[f] ELSE 0]

NewRenderer(f, shell) ==
  [floor |-> f, host |-> shell, at |-> "starting", destroyed |-> FALSE, shows |-> 0]

\* destroyOfficeRenderer() of those in D
Destroyed(rs, D) ==
  [r \in DOMAIN rs |-> IF r \in D THEN [rs[r] EXCEPT !.destroyed = TRUE] ELSE rs[r]]

\* cleanupOfficeRenderers(): those whose host is not in the document.
Stray(doc) == {f \in Floors : registry[f] # 0 /\ renderers[registry[f]].host # doc[f]}

Cleanup(doc) ==
  /\ renderers' = Destroyed(renderers, {registry[f] : f \in Stray(doc)})
  /\ registry' = [f \in Floors |-> IF f \in Stray(doc) THEN 0 ELSE registry[f]]

NoSync == [at |-> "idle", given |-> NoProjects, todo |-> {}, host |-> <<>>, on |-> 0, sound |-> FALSE]

\* As a history, a call is sound while it is the only one, no host is replaced and
\* nothing fails that it needs.
Disturbed(k) == [sync[k] EXCEPT !.sound = FALSE]
AllDisturbed == [k \in Syncs |-> Disturbed(k)]

\* syncOfficeMapScenes() begins: the hosts are those in the document now.
Begins(k, given, doc) ==
  /\ sync[k].at = "idle"
  /\ Cleanup(doc)
  /\ latest' = given
  /\ sync' = [AllDisturbed EXCEPT ![k] =
       [at |-> "next", given |-> given,
        todo |-> {<<f, doc[f]>> : f \in {g \in Floors : doc[g] # 0}},
        host |-> <<>>, on |-> 0, sound |-> \A j \in Syncs \ {k} : sync[j].at = "idle"]]

-----------------------------------------------------------------------------
(* render() *)

\* The fleet has changed, or what the user looks at: the floors of S are to be
\* shown, in a new shell unless it would be the same as before.
RendersMap(k, S, changed, anew) ==
  /\ S # {} /\ shells < MaxShells
  /\ \A f \in changed : newest[f] < MaxSnapshots
  /\ shells' = IF ~anew /\ view = "map" /\ S = {f \in Floors : hosts[f] # 0}
                 THEN shells ELSE shells + 1
  /\ view' = "map"
  /\ newest' = [f \in Floors |-> IF f \in changed THEN newest[f] + 1 ELSE newest[f]]
  /\ hosts' = IF shells' = shells THEN hosts
                                  ELSE [f \in Floors |-> IF f \in S THEN shells + 1 ELSE 0]
  /\ Begins(k, [f \in Floors |-> IF f \in S THEN newest'[f] ELSE 0], hosts')
  /\ UNCHANGED <<frame, faults>>

\* The terminal view has no hosts; renderers go when the next render finds theirs
\* out of the document.
RendersTerminal(changed) ==
  /\ \A f \in changed : newest[f] < MaxSnapshots
  /\ view' = "terminal"
  /\ newest' = [f \in Floors |-> IF f \in changed THEN newest[f] + 1 ELSE newest[f]]
  /\ hosts' = NoProjects
  /\ Cleanup(hosts)
  /\ sync' = AllDisturbed
  /\ UNCHANGED <<shells, latest, frame, faults>>

\* What render() builds throws, and its message takes the place of the map.
RenderFails ==
  /\ faults < MaxFaults /\ faults' = faults + 1
  /\ hosts' = NoProjects
  /\ sync' = AllDisturbed
  /\ IF view = "map" THEN UNCHANGED <<registry, renderers>> ELSE Cleanup(hosts)
  /\ UNCHANGED <<view, shells, newest, latest, frame>>

\* scheduleOfficeSceneViewportSync(): a resize or a scroll.
Resized ==
  /\ ~frame /\ view = "map" /\ latest # NoProjects
  /\ frame' = TRUE
  /\ UNCHANGED <<view, hosts, shells, newest, latest, registry, renderers, sync, faults>>

FrameComes(k) ==
  /\ frame /\ frame' = FALSE
  /\ IF view = "map" /\ latest # NoProjects
       THEN Begins(k, latest, hosts)
       ELSE UNCHANGED <<latest, registry, renderers, sync>>
  /\ UNCHANGED <<view, hosts, shells, newest, faults>>

-----------------------------------------------------------------------------
(* The calls of syncOfficeMapScenes() *)

SceneUnchanged == UNCHANGED <<view, hosts, shells, newest, latest, frame>>

Goes(k, c) == sync' = [sync EXCEPT ![k] = c]

\* The next host: one whose project is not in the list is passed over.
SkipsHost(k, h) ==
  /\ sync[k].at = "next" /\ h \in sync[k].todo /\ sync[k].given[h[1]] = 0
  /\ Goes(k, [sync[k] EXCEPT !.todo = @ \ {h}])
  /\ SceneUnchanged /\ UNCHANGED <<registry, renderers, faults>>

\* ensureOfficeRenderer(): the renderer that is registered for the floor, if it is
\* of this host, or a new one in its place.  (A host has its canvas, and PIXI, once
\* loaded, does not go.)
HasRenderer(h) == registry[h[1]] # 0 /\ renderers[registry[h[1]]].host = h[2]

TakesHost(k, h) ==
  LET f == h[1] IN
  /\ sync[k].at = "next" /\ h \in sync[k].todo /\ sync[k].given[f] # 0
  /\ IF ~HasRenderer(h)
       THEN /\ renderers' = Append(Destroyed(renderers, {registry[f]}), NewRenderer(f, h[2]))
            /\ registry' = [registry EXCEPT ![f] = Len(renderers) + 1]
       ELSE UNCHANGED <<renderers, registry>>
  /\ Goes(k, [sync[k] EXCEPT !.at = "ensuring", !.todo = @ \ {h}, !.host = h, !.on = registry'[f]])
  /\ SceneUnchanged /\ UNCHANGED faults

\* renderer.ready: one that was destroyed meanwhile never gets a root and a ticker.
Starts(r) ==
  /\ renderers[r].at = "starting"
  /\ renderers' = [renderers EXCEPT ![r].at = IF renderers[r].destroyed THEN "given up"
                                                                           ELSE "ready"]
  /\ SceneUnchanged /\ UNCHANGED <<registry, sync, faults>>

StartFails(r) ==
  /\ faults < MaxFaults /\ faults' = faults + 1
  /\ renderers[r].at = "starting"
  /\ renderers' = [renderers EXCEPT ![r].at = "failed", ![r].destroyed = TRUE]
  /\ sync' = [k \in Syncs |-> IF sync[k].at # "idle" /\ sync[k].on = r THEN Disturbed(k) ELSE sync[k]]
  /\ SceneUnchanged /\ UNCHANGED registry

Usable(r) == renderers[r].at = "ready" /\ ~renderers[r].destroyed

\* A renderer that is of no use is taken out of the register, unless another is
\* there.
GivenUp_WhoeverIsThere(f, r) ==
  IF ~Usable(r) THEN [registry EXCEPT ![f] = 0] ELSE registry
GivenUp(f, r) ==
  IF ~Usable(r) /\ registry[f] = r THEN [registry EXCEPT ![f] = 0] ELSE registry

\* A renderer that shows what it should show already is left as it is.
RendererReady(k) ==
  LET r == sync[k].on
      f == sync[k].host[1] IN
  /\ sync[k].at = "ensuring" /\ renderers[r].at # "starting"
  /\ registry' = GivenUp(f, r)
  /\ Goes(k, [sync[k] EXCEPT !.at = IF Usable(r) /\ renderers[r].shows # sync[k].given[f]
                                      THEN "loading" ELSE "next"])
  /\ SceneUnchanged /\ UNCHANGED <<renderers, faults>>

\* ensureOfficeSceneAssets() comes to an end: an asset that cannot be had, or not in
\* time, is done without.
AssetsAreThere(k) == sync[k].at = "loading"

\* The floor is drawn anew: if that throws, the root and all else stay what they were.
Draws(k) ==
  /\ AssetsAreThere(k)
  /\ renderers' = [renderers EXCEPT ![sync[k].on].shows = sync[k].given[sync[k].host[1]]]
  /\ Goes(k, [sync[k] EXCEPT !.at = "next"])
  /\ SceneUnchanged /\ UNCHANGED <<registry, faults>>

DrawFails(k) ==
  /\ faults < MaxFaults /\ faults' = faults + 1
  /\ AssetsAreThere(k)
  /\ Goes(k, [Disturbed(k) EXCEPT !.at = "next"])
  /\ SceneUnchanged /\ UNCHANGED <<registry, renderers>>

SyncEnds(k) ==
  /\ sync[k].at = "next" /\ sync[k].todo = {}
  /\ Goes(k, [sync[k] EXCEPT !.at = "idle"])
  /\ SceneUnchanged /\ UNCHANGED <<registry, renderers, faults>>

-----------------------------------------------------------------------------
SceneInit ==
  /\ view = "map" /\ hosts = NoProjects /\ shells = 0
  /\ newest = [f \in Floors |-> 1] /\ latest = NoProjects
  /\ registry = [f \in Floors |-> 0] /\ renderers = <<>>
  /\ sync = [k \in Syncs |-> NoSync]
  /\ frame = FALSE /\ faults = 0

SceneNext ==
  \/ \E k \in Syncs, S, changed \in SUBSET Floors, anew \in BOOLEAN : RendersMap(k, S, changed, anew)
  \/ \E changed \in SUBSET Floors : RendersTerminal(changed)
  \/ RenderFails \/ Resized
  \/ \E k \in Syncs :
       \/ FrameComes(k) \/ RendererReady(k) \/ Draws(k) \/ DrawFails(k) \/ SyncEnds(k)
       \/ \E h \in sync[k].todo : SkipsHost(k, h) \/ TakesHost(k, h)
  \/ \E r \in DOMAIN renderers : Starts(r) \/ StartFails(r)

SceneSpec == SceneInit /\ [][SceneNext]_sceneVars

-----------------------------------------------------------------------------
\* Every renderer that has not been destroyed, whichever calls started it and
\* whatever became of its host since, is the one registered for its floor, where
\* the next cleanup finds it: no canvas and no ticker is left that nobody stops,
\* and no floor has two.
RenderersAreRegistered ==
  \A r \in DOMAIN renderers : ~renderers[r].destroyed => registry[renderers[r].floor] = r

\* Calls that overlap may draw a floor older than it was, or destroy the renderer
\* it has, with that of a host that is no longer in the document.  The next call
\* that is alone repairs all of it: when it has been through a floor, the renderer
\* that is registered draws in the present host what is newest.
DrawnNew(f, n) ==
  LET r == registry[f] IN
  r # 0 /\ Usable(r) /\ renderers[r].host = hosts[f] /\ renderers[r].shows = n

FloorsAreRepaired ==
  \A k \in Syncs : sync[k].sound =>
    \A f \in Floors :
      \/ hosts[f] = 0 \/ <<f, hosts[f]>> \in sync[k].todo
      \/ sync[k].at \in {"ensuring", "loading"} /\ sync[k].host = <<f, hosts[f]>>
      \/ DrawnNew(f, newest[f])

FloorsAreDrawn == RenderersAreRegistered /\ FloorsAreRepaired
==============================================================================
