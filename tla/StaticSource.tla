---------------------------- MODULE StaticSource ----------------------------
(***************************************************************************)
(* StaticProjectSource (core/src/adapters/static-source.ts): the cached    *)
(* snapshot of one provider.  Refreshes may overlap and their loaders may  *)
(* settle in any order; the newest requested refresh alone publishes.      *)
(*                                                                         *)
(* A loader reads the outside world at some instant between its call and   *)
(* its settlement.  The world is a counter of versions; a snapshot is the  *)
(* version it holds, 0 standing for "no agents, events or tasks".          *)
(***************************************************************************)
EXTENDS Integers, FiniteSets

CONSTANTS
  Listeners,      \* subscribers of the source
  MaxRefreshes,   \* bound: calls of refresh() and warm()
  MaxWorld,       \* bound: changes of the outside world
  EmptyVersions,  \* versions in which the provider has nothing to show
  Catches,        \* TRUE: the adapter's loader catches its own errors
  InitialStatus   \* health of the initial snapshot the adapter passes

ASSUME BoundsAssumption == MaxRefreshes \in Nat /\ MaxWorld \in Nat
ASSUME CatchesAssumption == Catches \in BOOLEAN
ASSUME EmptyAssumption == EmptyVersions \subseteq Nat /\ 0 \in EmptyVersions

Statuses == {"ready", "unconfigured", "degraded", "error"}

ASSUME InitialAssumption == InitialStatus \in Statuses

VARIABLES
  cachedSnapshot,     \* [data, generatedAt, status]; generatedAt is the
                      \* refresh whose successful read produced the data
  refreshGeneration,
  disposed,
  listeners,
  loads,              \* loaders in flight: [gen, from]
  toNotify,           \* listeners the running notification loop has left
  world,
  published,          \* history: the refresh that published last
  failing,            \* history: that refresh's read of the provider failed
  told                \* history: the publication each listener heard of last

cacheVars == <<cachedSnapshot, published, failing>>
vars == <<cachedSnapshot, refreshGeneration, disposed, listeners, loads,
          toNotify, world, published, failing, told>>

Snapshots == [data : 0..MaxWorld, generatedAt : Int, status : Statuses]

Init ==
  /\ cachedSnapshot = [data |-> 0, generatedAt |-> 0, status |-> InitialStatus]
  /\ refreshGeneration = 0
  /\ disposed = FALSE
  /\ listeners = {}
  /\ loads = {}
  /\ toNotify = {}
  /\ world = 0
  /\ published = 0
  /\ failing = FALSE
  /\ told = [l \in Listeners |-> 0]

\* The notification loop is synchronous: nothing else runs until it ends.
Idle == toNotify = {}

WorldChanges ==
  /\ Idle
  /\ world < MaxWorld
  /\ world' = world + 1
  /\ UNCHANGED <<cachedSnapshot, refreshGeneration, disposed, listeners,
                 loads, toNotify, published, failing, told>>

(***************************************************************************)
(* refresh() and warm().  A disposed source returns at once.               *)
(***************************************************************************)
StartLoad ==
  /\ ~disposed
  /\ refreshGeneration < MaxRefreshes
  /\ refreshGeneration' = refreshGeneration + 1
  /\ loads' = loads \cup {[gen |-> refreshGeneration + 1, from |-> world]}

Refresh ==
  /\ Idle
  /\ StartLoad
  /\ UNCHANGED <<cachedSnapshot, disposed, listeners, toNotify, world,
                 published, failing, told>>

(***************************************************************************)
(* Each definition named X_... is X with one plausible mistake; a run that *)
(* uses it in place of X shows which property would notice.                *)
(***************************************************************************)
\* What a settled load makes of the cache.
Loaded(l, v, status) ==
  [data |-> v, generatedAt |-> l.gen, status |-> status]

HasCachedData ==
  \/ cachedSnapshot.status \in {"ready", "degraded"}
  \/ cachedSnapshot.data \notin EmptyVersions

AfterRejection_Empties ==
  [data |-> 0, generatedAt |-> refreshGeneration, status |-> "degraded"]

AfterRejection ==
  [cachedSnapshot EXCEPT
     !.status = IF HasCachedData THEN "degraded" ELSE "error"]

\* The snapshot a built-in adapter returns from its own catch clause.
CaughtSnapshot(l) == Loaded(l, 0, "degraded")

MayPublish_AnyRefresh(l) == ~disposed
MayPublish_Superseded(l) == ~disposed /\ l.gen < refreshGeneration

MayPublish(l) == ~disposed /\ l.gen = refreshGeneration

Publish(l, snapshot, failed) ==
  /\ loads' = loads \ {l}
  /\ IF MayPublish(l)
     THEN /\ cachedSnapshot' = snapshot
          /\ published' = l.gen
          /\ failing' = failed
          /\ toNotify' = listeners
     ELSE UNCHANGED <<cachedSnapshot, published, failing, toNotify>>
  /\ UNCHANGED <<refreshGeneration, disposed, listeners, world, told>>

LoadSucceeds(l) ==
  /\ Idle
  /\ \E v \in l.from..world : Publish(l, Loaded(l, v, "ready"), FALSE)

\* An adapter whose integration is absent returns an empty snapshot.
LoadUnconfigured(l) ==
  /\ Idle
  /\ Publish(l, Loaded(l, 0, "unconfigured"), FALSE)

LoadFails(l) ==
  /\ Idle
  /\ Publish(l, IF Catches THEN CaughtSnapshot(l) ELSE AfterRejection, TRUE)

(***************************************************************************)
(* One listener call of the loop in refresh().  The listener may return or *)
(* throw, leave, dispose the source, or ask for another refresh; the Set   *)
(* iterator of the loop also visits a listener subscribed meanwhile.       *)
(***************************************************************************)
AfterListener(l) == toNotify \ {l}

AfterThrow_EndsLoop(l) == {}

AfterThrow(l) == AfterListener(l)

Called(l) ==
  /\ l \in toNotify
  /\ told' = [told EXCEPT ![l] = published]
  /\ UNCHANGED <<cachedSnapshot, world, published, failing>>

ListenerReturns(l) ==
  /\ Called(l)
  /\ toNotify' = AfterListener(l)
  /\ UNCHANGED <<refreshGeneration, disposed, listeners, loads>>

ListenerThrows(l) ==
  /\ Called(l)
  /\ toNotify' = AfterThrow(l)
  /\ UNCHANGED <<refreshGeneration, disposed, listeners, loads>>

ListenerUnsubscribes(l) ==
  /\ Called(l)
  /\ \E m \in listeners :
       /\ listeners' = listeners \ {m}
       /\ toNotify' = AfterListener(l) \ {m}
  /\ UNCHANGED <<refreshGeneration, disposed, loads>>

ListenerSubscribes(l) ==
  /\ Called(l)
  /\ \E m \in Listeners \ listeners :
       /\ listeners' = listeners \cup {m}
       /\ toNotify' = AfterListener(l) \cup {m}
  /\ UNCHANGED <<refreshGeneration, disposed, loads>>

ListenerRefreshes(l) ==
  /\ Called(l)
  /\ StartLoad
  /\ toNotify' = AfterListener(l)
  /\ UNCHANGED <<disposed, listeners>>

ListenerDisposes(l) ==
  /\ Called(l)
  /\ disposed' = TRUE
  /\ refreshGeneration' = refreshGeneration + 1
  /\ listeners' = {}
  /\ toNotify' = {}
  /\ UNCHANGED loads

Subscribe(l) ==
  /\ Idle
  /\ ~disposed
  /\ listeners' = listeners \cup {l}
  /\ told' = [told EXCEPT ![l] = published]
  /\ UNCHANGED <<cachedSnapshot, refreshGeneration, disposed, loads,
                 toNotify, world, published, failing>>

Unsubscribe(l) ==
  /\ Idle
  /\ l \in listeners
  /\ listeners' = listeners \ {l}
  /\ UNCHANGED <<cachedSnapshot, refreshGeneration, disposed, loads,
                 toNotify, world, published, failing, told>>

Dispose ==
  /\ Idle
  /\ ~disposed
  /\ disposed' = TRUE
  /\ refreshGeneration' = refreshGeneration + 1
  /\ listeners' = {}
  /\ UNCHANGED <<cachedSnapshot, loads, toNotify, world, published, failing,
                 told>>

LoadSettles == \E l \in loads :
  LoadSucceeds(l) \/ LoadUnconfigured(l) \/ LoadFails(l)

Notify == \E l \in Listeners :
  \/ ListenerReturns(l)
  \/ ListenerThrows(l)
  \/ ListenerUnsubscribes(l)
  \/ ListenerSubscribes(l)
  \/ ListenerRefreshes(l)
  \/ ListenerDisposes(l)

Next ==
  \/ WorldChanges
  \/ Refresh
  \/ LoadSettles
  \/ Notify
  \/ \E l \in Listeners : Subscribe(l) \/ Unsubscribe(l)
  \/ Dispose

\* Started promises settle and a started loop runs on; no caller has to act.
Fairness == WF_vars(LoadSettles) /\ WF_vars(Notify)

Spec == Init /\ [][Next]_vars /\ Fairness

(***************************************************************************)
(* Properties.                                                             *)
(***************************************************************************)

\* Types, and what ties the counters together: a load in flight has a
\* generation of its own that has not published; only subscribed listeners
\* are waiting to be called.
TypeOK ==
  /\ cachedSnapshot \in Snapshots
  /\ refreshGeneration \in Nat
  /\ disposed \in BOOLEAN
  /\ listeners \subseteq Listeners
  /\ toNotify \subseteq listeners
  /\ world \in 0..MaxWorld
  /\ loads \subseteq [gen : 1..refreshGeneration, from : 0..world]
  /\ published \in 0..refreshGeneration
  /\ failing \in BOOLEAN
  /\ told \in [Listeners -> Nat]

\* static-source.ts:41: overlapping refreshes publish in the order they were
\* requested, whatever order their loaders settle in, and none publishes
\* after dispose(); stated as the implementation of LatestWins.
Cell == INSTANCE LatestWins WITH
  Values <- Snapshots,
  Initial <- [data |-> 0, generatedAt |-> 0, status |-> InitialStatus],
  value <- cachedSnapshot, stamp <- published, closed <- disposed

ImplementsLatestWins == Cell!Spec

\* A slow loader that read the world early cannot bring back a state of the
\* provider older than the one the cache has already shown.
CacheNeverGoesBack ==
  [][cachedSnapshot'.data # 0
       => cachedSnapshot'.data >= cachedSnapshot.data]_vars

\* The catch around each listener call (static-source.ts:47): one throwing
\* observer cannot keep the others from hearing of a publication, whatever
\* the listeners do to the source while they are being called.
EveryListenerTold ==
  Idle => \A l \in listeners : told[l] = published

\* A listener that disposes of the source ends the loop it is called from
\* (static-source.ts:44): nobody is called after dispose().
DisposedIsSilent == [][disposed => told' = told]_vars

\* provider-sdk.md:39, spec.md:560: a refresh whose provider could not be
\* read keeps the data and its timestamp, and the health shows the failure.
FailureKeepsData ==
  [][published' # published /\ failing'
       => /\ cachedSnapshot'.data = cachedSnapshot.data
          /\ cachedSnapshot'.generatedAt = cachedSnapshot.generatedAt
          /\ cachedSnapshot'.status \in {"degraded", "error"}]_vars

\* Neither a failure nor a disposal takes anything from who has the data.
CacheIsKept == DisposedIsSilent /\ FailureKeepsData

\* After any finite burst of refreshes the newest one ends up in the cache.
Converges == <>[](disposed \/ published = refreshGeneration)
=============================================================================
