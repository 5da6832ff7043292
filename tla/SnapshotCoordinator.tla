------------------------- MODULE SnapshotCoordinator -------------------------
(***************************************************************************)
(* ProjectSnapshotCoordinator                                              *)
(* (core/src/services/project-snapshot-coordinator.ts): the refresh pump   *)
(* over the secondary sources, the serialized snapshot assemblies, and     *)
(* dispose().                                                              *)
(*                                                                         *)
(* A step is one promise job.  Jobs of different promises interleave in    *)
(* any order; in particular the pump is cleared by a job of its own (the   *)
(* finally of refresh()) after the loop has found nothing left to do.      *)
(*                                                                         *)
(* A source is a StaticProjectSource reduced to what the coordinator can   *)
(* see: loaders in flight, the version of the outside world its cache      *)
(* holds, whether it was disposed.  Every source.refresh() resolves (a     *)
(* failed load becomes health), so neither the warm-up nor the pump        *)
(* rejects.                                                                *)
(***************************************************************************)
EXTENDS Integers, Sequences, FiniteSets

CONSTANTS
  Callers,        \* concurrent calls of refresh() and refreshIfStale()
  Sources,        \* the secondary sources
  Reasons,        \* the AdapterRefreshReasons the callers use
  MaxRequests,    \* bound: refresh requests
  MaxBuilds,      \* bound: calls of buildSnapshot()
  MaxWorld,       \* bound: changes seen by the sources
  MaxLocal        \* bound: changes of the monitor's own state

ASSUME BoundsAssumption ==
  /\ MaxRequests \in Nat /\ MaxBuilds \in Nat
  /\ MaxWorld \in Nat /\ MaxLocal \in Nat

AllReasons == {"warm", "startup", "interval", "event", "manual"}

ASSUME ReasonsAssumption == Reasons \subseteq AllReasons

RefreshPriority ==
  [r \in AllReasons |-> CASE r = "manual"   -> 4
                          [] r = "event"    -> 3
                          [] r = "interval" -> 2
                          [] r = "startup"  -> 1
                          [] r = "warm"     -> 0]

StrongerReason_Latest(left, right) == right

StrongerReason(left, right) ==
  IF RefreshPriority[right] > RefreshPriority[left] THEN right ELSE left

VARIABLES
  warm,              \* warmPromise: "none", "loading", "done"
  pump,              \* refreshPump: "none", "loading" (a round is awaited),
                     \* "drained" (the loop ended, the finally has not run)
  refreshRequested, refreshCompleted, targetGeneration,
  pendingReason,
  stale,             \* now() - lastSecondaryRefreshAt >= minimumAgeMs
  caller,            \* [at, reason] of each call
  tail,              \* assemblies not settled, oldest first: [gen, local]
  stage,             \* of the oldest assembly
  view,              \* source versions the oldest assembly has captured
  requestedAssembly, \* requestedAssemblyGeneration
  dispose,           \* "none", "pump", "tail", "done": what dispose() awaits
  disposeWaits,      \* dispose() found a pump to await
  loads,             \* loaders in flight of each source: [gen, from]
  sourceGen, cached, sourcesDisposed,
  world, local,
  published,         \* history: [gen, local, view] of the last result
  failed,            \* history: assemblies that threw
  due                \* history: what became of each caller's request

refreshVars == <<warm, pump, refreshRequested, refreshCompleted,
                 targetGeneration, pendingReason, stale>>
assemblyVars == <<tail, stage, view, requestedAssembly, published, failed>>
disposeVars == <<dispose, disposeWaits, sourcesDisposed>>
sourceVars == <<loads, sourceGen, cached>>
vars == <<refreshVars, caller, assemblyVars, disposeVars, sourceVars, world,
          local, due>>

disposed == dispose # "none"

Returned == {"idle", "done", "skipped", "threw"}
Places == Returned \cup {"warming", "staleWarming", "waiting"}

\* A request is "queued" until a round at least as strong as its reason
\* starts, "loading" during that round, "served" when the round is over;
\* "late" when it joined a pump whose loop had already ended.
Dues == {"none", "queued", "loading", "served", "late"}

Init ==
  /\ warm = "none" /\ pump = "none"
  /\ refreshRequested = 0 /\ refreshCompleted = 0 /\ targetGeneration = 0
  /\ pendingReason = "interval"
  /\ stale = TRUE
  /\ caller = [c \in Callers |-> [at |-> "idle", reason |-> "interval"]]
  /\ tail = <<>> /\ stage = "queued" /\ view = [s \in Sources |-> 0]
  /\ requestedAssembly = 0
  /\ dispose = "none" /\ disposeWaits = FALSE /\ sourcesDisposed = FALSE
  /\ loads = [s \in Sources |-> {}]
  /\ sourceGen = [s \in Sources |-> 0]
  /\ cached = [s \in Sources |-> 0]
  /\ world = 0 /\ local = 0
  /\ published = [gen |-> 0, local |-> 0, view |-> [s \in Sources |-> 0]]
  /\ failed = {}
  /\ due = [c \in Callers |-> "none"]

-----------------------------------------------------------------------------
(* The environment: providers change, the monitor's threads change, time   *)
(* passes.                                                                 *)

WorldChanges ==
  /\ world < MaxWorld
  /\ world' = world + 1
  /\ UNCHANGED <<refreshVars, caller, assemblyVars, disposeVars, sourceVars,
                 local, due>>

LocalChanges ==
  /\ local < MaxLocal
  /\ local' = local + 1
  /\ UNCHANGED <<refreshVars, caller, assemblyVars, disposeVars, sourceVars,
                 world, due>>

TimePasses ==
  /\ ~stale
  /\ stale' = TRUE
  /\ UNCHANGED <<warm, pump, refreshRequested, refreshCompleted,
                 targetGeneration, pendingReason, caller, assemblyVars,
                 disposeVars, sourceVars, world, local, due>>

-----------------------------------------------------------------------------
(* The sources.                                                            *)

\* source.refresh() of every source at once; a disposed source does nothing.
RefreshSources ==
  IF sourcesDisposed
  THEN UNCHANGED sourceVars
  ELSE /\ sourceGen' = [s \in Sources |-> sourceGen[s] + 1]
       /\ loads' = [s \in Sources |->
                      loads[s] \cup {[gen |-> sourceGen[s] + 1,
                                      from |-> world]}]
       /\ UNCHANGED cached

SourcesIdle == \A s \in Sources : loads[s] = {}

(***************************************************************************)
(* Here and below, X_... is X with one plausible mistake: a run that uses  *)
(* it in place of X shows which property would notice.                     *)
(***************************************************************************)
LoadSettles_FailureEmpties(s, l) ==
  /\ l \in loads[s]
  /\ loads' = [loads EXCEPT ![s] = @ \ {l}]
  /\ IF ~sourcesDisposed /\ l.gen = sourceGen[s]
     THEN \E v \in {0} \cup (l.from..world) : cached' = [cached EXCEPT ![s] = v]
     ELSE UNCHANGED cached
  /\ UNCHANGED <<refreshVars, caller, assemblyVars, disposeVars, sourceGen,
                 world, local, due>>

\* A loader settles with what it read since its call, or fails and leaves
\* the cached data; a superseded or disposed one is dropped.
LoadSettles(s, l) ==
  /\ l \in loads[s]
  /\ loads' = [loads EXCEPT ![s] = @ \ {l}]
  /\ \/ /\ ~sourcesDisposed
        /\ l.gen = sourceGen[s]
        /\ \E v \in l.from..world : cached' = [cached EXCEPT ![s] = v]
     \/ UNCHANGED cached
  /\ UNCHANGED <<refreshVars, caller, assemblyVars, disposeVars, sourceGen,
                 world, local, due>>

-----------------------------------------------------------------------------
(* warm(), refresh(), refreshIfStale().                                    *)

\* The first caller of warm() starts it; the others share the promise.
Warm ==
  IF warm = "none"
  THEN warm' = "loading" /\ RefreshSources
  ELSE UNCHANGED <<warm, sourceVars>>

WarmEnds_UnlessDisposed ==
  /\ warm = "loading" /\ SourcesIdle /\ ~disposed
  /\ warm' = "done" /\ stale' = FALSE
  /\ UNCHANGED <<pump, refreshRequested, refreshCompleted, targetGeneration,
                 pendingReason, caller, assemblyVars, disposeVars, sourceVars,
                 world, local, due>>

WarmEnds ==
  /\ warm = "loading"
  /\ SourcesIdle
  /\ warm' = "done"
  /\ stale' = FALSE
  /\ UNCHANGED <<pump, refreshRequested, refreshCompleted, targetGeneration,
                 pendingReason, caller, assemblyVars, disposeVars, sourceVars,
                 world, local, due>>

Calling == {c \in Callers : caller[c].at \in {"warming", "staleWarming"}}

Call(c, place, r) ==
  /\ caller[c].at \in Returned
  /\ refreshRequested + Cardinality(Calling) < MaxRequests
  /\ IF disposed
     THEN /\ caller' = [caller EXCEPT ![c] = [at |-> "threw", reason |-> r]]
          /\ UNCHANGED <<warm, sourceVars>>
     ELSE /\ caller' = [caller EXCEPT ![c] = [at |-> place, reason |-> r]]
          /\ Warm
  /\ due' = [due EXCEPT ![c] = "none"]
  /\ UNCHANGED <<pump, refreshRequested, refreshCompleted, targetGeneration,
                 pendingReason, stale, assemblyVars, disposeVars, world, local>>

CallRefresh(c, r) == Call(c, "warming", r)
CallRefreshIfStale(c, r) == Call(c, "staleWarming", r)

\* refreshIfStale() after its await: skip, or call refresh(), which throws if
\* the coordinator was disposed meanwhile and awaits the warm-up once more.
ResumeIfStale(c) ==
  /\ caller[c].at = "staleWarming"
  /\ warm = "done"
  /\ caller' = [caller EXCEPT ![c].at =
                  IF ~stale THEN "skipped"
                  ELSE IF disposed THEN "threw" ELSE "warming"]
  /\ UNCHANGED <<refreshVars, assemblyVars, disposeVars, sourceVars, world,
                 local, due>>

\* One round of runRefreshPump() up to its await, for the request counter
\* and the reason it finds; dues is what it means for the callers.
StartRound(requested, reason, dues) ==
  /\ pump' = "loading"
  /\ targetGeneration' = requested
  /\ pendingReason' = "interval"
  /\ due' = [c \in Callers |->
               IF /\ dues[c] = "queued"
                  /\ RefreshPriority[reason] >= RefreshPriority[caller[c].reason]
               THEN "loading" ELSE dues[c]]
  /\ RefreshSources

StartsPump == pump = "none"

\* refresh() after its await of the warm-up: there is no second check that
\* the coordinator is still active.
ResumeRefresh(c) ==
  /\ caller[c].at = "warming"
  /\ warm = "done"
  /\ refreshRequested' = refreshRequested + 1
  /\ caller' = [caller EXCEPT ![c].at = "waiting"]
  /\ LET reason == StrongerReason(pendingReason, caller[c].reason) IN
       IF StartsPump
       THEN StartRound(refreshRequested', reason, [due EXCEPT ![c] = "queued"])
       ELSE /\ pendingReason' = reason
            /\ due' = [due EXCEPT ![c] = IF pump = "drained" THEN "late"
                                         ELSE "queued"]
            /\ UNCHANGED <<pump, targetGeneration, sourceVars>>
  /\ UNCHANGED <<warm, refreshCompleted, stale, assemblyVars, disposeVars,
                 world, local>>

Served(dues) ==
  [c \in Callers |-> IF dues[c] = "loading" THEN "served" ELSE dues[c]]

\* A round's loads have settled: the loop goes round again or ends.
RoundEnds ==
  /\ pump = "loading"
  /\ SourcesIdle
  /\ refreshCompleted' = targetGeneration
  /\ stale' = FALSE
  /\ UNCHANGED <<warm, refreshRequested, caller, assemblyVars, disposeVars,
                 world, local>>
  /\ IF targetGeneration < refreshRequested
     THEN StartRound(refreshRequested, pendingReason, Served(due))
     ELSE /\ pump' = "drained"
          /\ due' = Served(due)
          /\ UNCHANGED <<targetGeneration, pendingReason, sourceVars>>

\* The finally of refresh(): everyone who awaited this pump resumes.
PumpCleared ==
  /\ pump = "drained"
  /\ pump' = "none"
  /\ disposeWaits' = FALSE
  /\ caller' = [c \in Callers |->
                  IF caller[c].at = "waiting"
                  THEN [caller[c] EXCEPT !.at = "done"] ELSE caller[c]]
  /\ UNCHANGED <<warm, refreshRequested, refreshCompleted, targetGeneration,
                 pendingReason, stale, assemblyVars, dispose, sourcesDisposed,
                 sourceVars, world, local, due>>

-----------------------------------------------------------------------------
(* buildSnapshot(): each assembly is chained on the one before it.         *)

\* The call: the generation is taken and the monitor's state is copied.
BuildSnapshot ==
  /\ ~disposed
  /\ requestedAssembly < MaxBuilds
  /\ requestedAssembly' = requestedAssembly + 1
  /\ tail' = Append(tail, [gen |-> requestedAssembly + 1, local |-> local])
  /\ UNCHANGED <<refreshVars, caller, stage, view, published, failed,
                 disposeVars, sourceVars, world, local, due>>

MayStart(assembly) == ~disposed /\ assembly.gen = requestedAssembly

MayPublish(assembly) == ~disposed /\ assembly.gen = requestedAssembly

\* The oldest assembly leaves the chain; the next one starts afresh.
Settle == tail' = Tail(tail) /\ stage' = "queued"

AssemblyStarts ==
  /\ tail # <<>> /\ stage = "queued"
  /\ IF MayStart(Head(tail))
     THEN stage' = "warming" /\ Warm /\ UNCHANGED tail
     ELSE Settle /\ UNCHANGED <<warm, sourceVars>>
  /\ UNCHANGED <<pump, refreshRequested, refreshCompleted, targetGeneration,
                 pendingReason, stale, caller, view, requestedAssembly,
                 published, failed, disposeVars, world, local, due>>

BuildLocal ==
  /\ tail # <<>> /\ stage = "warming" /\ warm = "done"
  /\ stage' = "local"
  /\ UNCHANGED <<refreshVars, caller, tail, view, requestedAssembly, published,
                 failed, disposeVars, sourceVars, world, local, due>>

\* The local (and cloud) parts are there: the sources' caches are read and
\* assemble() is called.
Assemble ==
  /\ tail # <<>> /\ stage = "local"
  /\ stage' = "assembling"
  /\ view' = cached
  /\ UNCHANGED <<refreshVars, caller, tail, requestedAssembly, published,
                 failed, disposeVars, sourceVars, world, local, due>>

AssemblyEnds ==
  /\ tail # <<>> /\ stage = "assembling"
  /\ Settle
  /\ published' = IF MayPublish(Head(tail))
                  THEN [gen |-> Head(tail).gen, local |-> Head(tail).local,
                        view |-> view]
                  ELSE published
  /\ UNCHANGED <<refreshVars, caller, view, requestedAssembly, failed,
                 disposeVars, sourceVars, world, local, due>>

\* buildLocalSnapshot(), cloudTasksToAgents() or assemble() rejects: the
\* caller sees the error, the chain goes on.
AssemblyThrows ==
  /\ tail # <<>> /\ stage \in {"local", "assembling"}
  /\ Settle
  /\ failed' = failed \cup {Head(tail).gen}
  /\ UNCHANGED <<refreshVars, caller, view, requestedAssembly, published,
                 disposeVars, sourceVars, world, local, due>>

-----------------------------------------------------------------------------
(* dispose(): marks the coordinator, then awaits the pump it found, then   *)
(* the assemblies, then disposes of the sources.                           *)

Dispose ==
  /\ dispose = "none"
  /\ dispose' = "pump"
  /\ disposeWaits' = (pump # "none")
  /\ UNCHANGED <<refreshVars, caller, assemblyVars, sourcesDisposed,
                 sourceVars, world, local, due>>

DisposeAwaitsTail ==
  /\ dispose = "pump"
  /\ ~disposeWaits
  /\ dispose' = "tail"
  /\ UNCHANGED <<refreshVars, caller, assemblyVars, disposeWaits,
                 sourcesDisposed, sourceVars, world, local, due>>

DisposeSources ==
  /\ dispose = "tail"
  /\ tail = <<>>
  /\ dispose' = "done"
  /\ sourcesDisposed' = TRUE
  /\ sourceGen' = [s \in Sources |-> sourceGen[s] + 1]
  /\ UNCHANGED <<refreshVars, caller, assemblyVars, disposeWaits, loads, cached,
                 world, local, due>>

-----------------------------------------------------------------------------

Environment ==
  \/ WorldChanges \/ LocalChanges \/ TimePasses
  \/ BuildSnapshot \/ Dispose
  \/ \E c \in Callers, r \in Reasons : CallRefresh(c, r) \/ CallRefreshIfStale(c, r)

Resume(c) == ResumeIfStale(c) \/ ResumeRefresh(c)

Load(s) == \E l \in loads[s] : LoadSettles(s, l)

Pump == RoundEnds \/ PumpCleared

Assembly ==
  AssemblyStarts \/ BuildLocal \/ Assemble \/ AssemblyEnds \/ AssemblyThrows

Disposal == DisposeAwaitsTail \/ DisposeSources

Next ==
  \/ Environment
  \/ WarmEnds
  \/ \E c \in Callers : Resume(c)
  \/ \E s \in Sources : Load(s)
  \/ Pump
  \/ Assembly
  \/ Disposal

\* Queued jobs run and provider loads settle; nobody has to call anything.
Fairness ==
  /\ WF_vars(WarmEnds)
  /\ \A c \in Callers : WF_vars(Resume(c))
  /\ \A s \in Sources : WF_vars(Load(s))
  /\ WF_vars(Pump)
  /\ WF_vars(Assembly)
  /\ WF_vars(Disposal)

Spec == Init /\ [][Next]_vars /\ Fairness

-----------------------------------------------------------------------------
(* Properties.                                                             *)

Assemblies == [gen : 1..requestedAssembly, local : 0..local]

TypeOK ==
  /\ warm \in {"none", "loading", "done"}
  /\ pump \in {"none", "loading", "drained"}
  /\ refreshRequested \in Nat /\ refreshCompleted \in Nat
  /\ targetGeneration \in Nat
  /\ pendingReason \in AllReasons
  /\ stale \in BOOLEAN
  /\ caller \in [Callers -> [at : Places, reason : AllReasons]]
  /\ tail \in Seq(Assemblies)
  /\ stage \in {"queued", "warming", "local", "assembling"}
  /\ view \in [Sources -> Nat] /\ cached \in [Sources -> Nat]
  /\ requestedAssembly \in Nat
  /\ dispose \in {"none", "pump", "tail", "done"}
  /\ disposeWaits \in BOOLEAN /\ sourcesDisposed \in BOOLEAN
  /\ sourceGen \in [Sources -> Nat]
  /\ loads \in [Sources -> SUBSET [gen : Nat, from : Nat]]
  /\ world \in Nat /\ local \in Nat
  /\ published \in [gen : Nat, local : Nat, view : [Sources -> Nat]]
  /\ failed \subseteq Nat
  /\ due \in [Callers -> Dues]

\* architecture.md:229 "pumps serialize overlapping work": a source never has
\* two loads in flight, however refreshes, the warm-up, assemblies and
\* dispose() interleave.
LoadsNeverOverlap ==
  \A s \in Sources : \A k, l \in loads[s] : k = l

\* A refresh() that returned was answered by a whole round of loads started
\* after it was requested, for a reason at least as strong as its own; the
\* exception is a request that joined the pump between the end of its loop
\* and its finally, which returns without any load.
RefreshAnswered ==
  \A c \in Callers : caller[c].at = "done" => due[c] \in {"served", "late"}

\* Both: rounds of loads follow each other, and answer who asked for them.
RoundsAnswer == LoadsNeverOverlap /\ RefreshAnswered

\* The same as RefreshAnswered without the exception.
EveryRefreshAnswered ==
  \A c \in Callers : caller[c].at = "done" => due[c] = "served"

\* project-snapshot-coordinator.ts:131: results come out in the order of the
\* calls and never after dispose(); stated as LatestWins.
Result == INSTANCE LatestWins WITH
  Values <- [gen : Nat, local : Nat, view : [Sources -> Nat]],
  Initial <- [gen |-> 0, local |-> 0, view |-> [s \in Sources |-> 0]],
  value <- published, stamp <- published.gen, closed <- disposed

ImplementsLatestWins == Result!Spec

\* The consumer of two successive snapshots never sees a thread state or a
\* provider's data go back in time.
SnapshotsNeverGoBack ==
  [][/\ published'.local >= published.local
     /\ \A s \in Sources : published'.view[s] >= published.view[s]]_vars

\* With no assembly left the result of the newest call is there, unless that
\* call failed or the coordinator was disposed.
NewestBuildPublished ==
  tail = <<>> /\ ~disposed
    => published.gen = requestedAssembly \/ requestedAssembly \in failed

\* Once dispose() is over the caches stand still, also when a refresh that was
\* awaiting the warm-up goes on to start a pump.
QuietAfterDispose == [][sourcesDisposed => UNCHANGED cached]_vars

\* Every refresh call returns, and dispose() ends.
CallsReturn ==
  \A c \in Callers : caller[c].at \notin Returned ~> caller[c].at \in Returned
DisposeEnds == disposed ~> dispose = "done"

\* Callers and disposal, at whatever moment they meet, end, and leave nothing
\* behind that goes on.
CallsEnd == CallsReturn /\ DisposeEnds /\ QuietAfterDispose

\* What comes out of overlapping assemblies comes in the order of the calls, is the
\* newest, and is never older than what came before.
SnapshotsAreCurrent ==
  ImplementsLatestWins /\ SnapshotsNeverGoBack /\ []NewestBuildPublished
=============================================================================
