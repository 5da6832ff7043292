---------------------------- MODULE SourceProofs ----------------------------
(***************************************************************************)
(* Proofs about how data is held between its source and its reader:        *)
(* StaticSource, for any set of listeners and any bounds;                  *)
(* DiscoverySourceCache, for any number of readers, scans and versions of  *)
(* the disk; and OfficePage, for any threads, requests and bounds.         *)
(***************************************************************************)
EXTENDS StaticSource, DiscoverySourceCache, OfficePage, TLAPS

-----------------------------------------------------------------------------
(* The inductive invariant.                                                *)

\* Every load in flight belongs to a refresh of its own.
OneLoadPerRefresh == \A k, l \in loads : k.gen = l.gen => k = l

\* A load that may still publish is newer than the last publication, and it
\* was called after the cached data was read.
LoadsAreFresh ==
  \A l \in loads :
    /\ l.gen # published
    /\ l.gen > published => l.from >= cachedSnapshot.data

\* A listener the loop has already passed has heard of the last publication.
PassedListenersTold ==
  \A l \in listeners \ toNotify : told[l] = published

DisposedHasNoListeners == disposed => listeners = {}

IInv ==
  /\ TypeOK
  /\ cachedSnapshot.data <= world
  /\ OneLoadPerRefresh
  /\ LoadsAreFresh
  /\ PassedListenersTold
  /\ DisposedHasNoListeners

-----------------------------------------------------------------------------

\* The initial state satisfies the invariant.
LEMMA InitIInv == Init => IInv
<1> SUFFICES ASSUME Init PROVE IInv
  OBVIOUS
<1>1. cachedSnapshot \in Snapshots
  BY BoundsAssumption, InitialAssumption DEF Init, Snapshots
<1>2. told \in [Listeners -> Nat]
  BY DEF Init
<1>3. loads = {} /\ listeners = {} /\ toNotify = {} /\ disposed = FALSE
  BY DEF Init
<1>4. /\ world = 0 /\ refreshGeneration = 0 /\ published = 0
      /\ failing = FALSE /\ cachedSnapshot.data = 0
  BY DEF Init
<1>5. TypeOK
  <2>1. /\ loads \subseteq [gen : 1..refreshGeneration, from : 0..world]
        /\ listeners \subseteq Listeners /\ toNotify \subseteq listeners
        /\ disposed \in BOOLEAN /\ failing \in BOOLEAN
    BY <1>3, <1>4
  <2>2. /\ refreshGeneration \in Nat /\ world \in 0..MaxWorld
        /\ published \in 0..refreshGeneration
    BY <1>4, BoundsAssumption
  <2> QED BY <1>1, <1>2, <2>1, <2>2 DEF TypeOK
<1> QED BY <1>3, <1>4, <1>5
        DEF IInv, OneLoadPerRefresh, LoadsAreFresh, PassedListenersTold,
            DisposedHasNoListeners

\* A settled load: the cases of Publish, for any snapshot whose data was read
\* since the load's call or is the cached data, or is nothing.
LEMMA PublishIInv ==
  ASSUME IInv, Idle, NEW l \in loads, NEW snapshot \in Snapshots,
         NEW missed \in BOOLEAN, Publish(l, snapshot, missed),
         snapshot.data <= world
  PROVE  IInv'
<1>1. TypeOK'
  BY DEF IInv, TypeOK, Publish, MayPublish, Idle
<1>2. (cachedSnapshot.data <= world)'
  BY DEF IInv, Publish
<1>3. OneLoadPerRefresh'
  BY DEF IInv, OneLoadPerRefresh, Publish
<1>4. LoadsAreFresh'
  <2> SUFFICES ASSUME NEW k \in loads'
               PROVE  /\ k.gen # published'
                      /\ k.gen > published' => k.from >= cachedSnapshot'.data
    BY DEF LoadsAreFresh
  <2>1. k \in loads /\ k # l
    BY DEF Publish
  <2>2. k.gen # l.gen
    BY <2>1 DEF IInv, OneLoadPerRefresh
  <2>3. CASE MayPublish(l)
    <3>1. published' = refreshGeneration /\ k.gen <= refreshGeneration
      BY <2>1, <2>3 DEF Publish, MayPublish, IInv, TypeOK
    <3>2. k.gen \in Int /\ refreshGeneration \in Int
      BY <2>1 DEF IInv, TypeOK
    <3> QED BY <2>2, <2>3, <3>1, <3>2 DEF MayPublish
  <2>4. CASE ~MayPublish(l)
    BY <2>1, <2>4 DEF Publish, IInv, LoadsAreFresh
  <2> QED BY <2>3, <2>4
<1>5. PassedListenersTold'
  BY DEF IInv, PassedListenersTold, Publish, Idle
<1>6. DisposedHasNoListeners'
  BY DEF IInv, DisposedHasNoListeners, Publish
<1> QED BY <1>1, <1>2, <1>3, <1>4, <1>5, <1>6 DEF IInv

\* refresh(), alone or called by a listener: the new load is newer than every
\* publication and starts in the present world.
LEMMA StartLoadFresh ==
  ASSUME IInv, StartLoad, UNCHANGED cacheVars, UNCHANGED world
  PROVE  /\ refreshGeneration' \in Nat
         /\ loads' \subseteq [gen : 1..refreshGeneration', from : 0..world']
         /\ OneLoadPerRefresh'
         /\ LoadsAreFresh'
         /\ published' \in 0..refreshGeneration'
<1> DEFINE new == [gen |-> refreshGeneration + 1, from |-> world]
<1>1. /\ refreshGeneration \in Nat /\ world \in Nat /\ published \in 0..refreshGeneration
      /\ loads \subseteq [gen : 1..refreshGeneration, from : 0..world]
      /\ refreshGeneration' = refreshGeneration + 1
      /\ loads' = loads \cup {new}
      /\ world' = world /\ published' = published /\ cachedSnapshot' = cachedSnapshot
  BY DEF IInv, TypeOK, StartLoad, cacheVars
<1>2. \A k \in loads : k.gen # new.gen
  BY <1>1
<1>3. OneLoadPerRefresh'
  BY <1>1, <1>2 DEF IInv, OneLoadPerRefresh
<1>4. LoadsAreFresh'
  BY <1>1 DEF IInv, LoadsAreFresh
<1> QED BY <1>1, <1>3, <1>4

\* Every step preserves the invariant.
LEMMA NextIInv == IInv /\ [Next]_vars => IInv'
<1> SUFFICES ASSUME IInv, [Next]_vars PROVE IInv'
  OBVIOUS
<1> USE BoundsAssumption
<1>1. CASE WorldChanges
  BY <1>1 DEF IInv, TypeOK, OneLoadPerRefresh, LoadsAreFresh, WorldChanges,
              PassedListenersTold, DisposedHasNoListeners, Snapshots
<1>2. CASE Refresh
  <2>1. StartLoad /\ UNCHANGED cacheVars /\ UNCHANGED world
    BY <1>2 DEF Refresh, cacheVars
  <2> QED BY <1>2, <2>1, StartLoadFresh
          DEF IInv, TypeOK, Refresh, PassedListenersTold, DisposedHasNoListeners
<1>3. CASE LoadSettles
  <2>0. PICK l \in loads : LoadSucceeds(l) \/ LoadUnconfigured(l) \/ LoadFails(l)
    BY <1>3 DEF LoadSettles
  <2>a. /\ l.gen \in Nat /\ l.from \in Nat /\ world \in 0..MaxWorld /\ 0 <= world
        /\ cachedSnapshot \in Snapshots /\ cachedSnapshot.data <= world
    BY DEF IInv, TypeOK
  <2>1. CASE LoadSucceeds(l)
    <3>1. PICK v \in l.from..world : Publish(l, Loaded(l, v, "ready"), FALSE)
      BY <2>1 DEF LoadSucceeds
    <3>2. Loaded(l, v, "ready") \in Snapshots /\ Loaded(l, v, "ready").data <= world
      BY <2>a DEF Loaded, Snapshots, Statuses
    <3> QED BY <2>1, <3>1, <3>2, PublishIInv DEF LoadSucceeds
  <2>2. CASE LoadUnconfigured(l)
    <3>1. /\ Loaded(l, 0, "unconfigured") \in Snapshots
          /\ Loaded(l, 0, "unconfigured").data <= world
      BY <2>a DEF Loaded, Snapshots, Statuses
    <3> QED BY <2>2, <3>1, PublishIInv DEF LoadUnconfigured
  <2>3. CASE LoadFails(l)
    <3> DEFINE s == IF Catches THEN CaughtSnapshot(l) ELSE AfterRejection
    <3>1. s \in Snapshots /\ s.data <= world
      BY <2>a DEF CaughtSnapshot, AfterRejection, Loaded, Snapshots, Statuses
    <3>2. Idle /\ Publish(l, s, TRUE)
      BY <2>3 DEF LoadFails
    <3> QED BY <3>1, <3>2, PublishIInv
  <2> QED BY <2>0, <2>1, <2>2, <2>3
<1>4. CASE Notify
  <2>0. PICK l \in Listeners :
          \/ ListenerReturns(l) \/ ListenerThrows(l) \/ ListenerUnsubscribes(l)
          \/ ListenerSubscribes(l) \/ ListenerRefreshes(l) \/ ListenerDisposes(l)
    BY <1>4 DEF Notify
  <2>1. CASE ListenerReturns(l) \/ ListenerThrows(l)
    BY <2>1 DEF IInv, TypeOK, OneLoadPerRefresh, LoadsAreFresh, ListenerReturns,
                ListenerThrows, Called, AfterListener, AfterThrow,
                PassedListenersTold, DisposedHasNoListeners
  <2>2. CASE ListenerUnsubscribes(l)
    BY <2>2 DEF IInv, TypeOK, OneLoadPerRefresh, LoadsAreFresh, Called,
                ListenerUnsubscribes, AfterListener, PassedListenersTold,
                DisposedHasNoListeners
  <2>3. CASE ListenerSubscribes(l)
    BY <2>3 DEF IInv, TypeOK, OneLoadPerRefresh, LoadsAreFresh, Called,
                ListenerSubscribes, AfterListener, PassedListenersTold,
                DisposedHasNoListeners
  <2>4. CASE ListenerRefreshes(l)
    <3>1. StartLoad /\ UNCHANGED cacheVars /\ UNCHANGED world
      BY <2>4 DEF ListenerRefreshes, Called, cacheVars
    <3> QED BY <2>4, <3>1, StartLoadFresh
            DEF IInv, TypeOK, ListenerRefreshes, Called, AfterListener,
                PassedListenersTold, DisposedHasNoListeners
  <2>5. CASE ListenerDisposes(l)
    BY <2>5 DEF IInv, TypeOK, OneLoadPerRefresh, LoadsAreFresh, Called,
                ListenerDisposes, PassedListenersTold, DisposedHasNoListeners
  <2> QED BY <2>0, <2>1, <2>2, <2>3, <2>4, <2>5
<1>5. CASE \E l \in Listeners : Subscribe(l) \/ Unsubscribe(l)
  BY <1>5 DEF IInv, TypeOK, OneLoadPerRefresh, LoadsAreFresh, Subscribe,
              Unsubscribe, Idle, PassedListenersTold, DisposedHasNoListeners
<1>6. CASE Dispose
  BY <1>6 DEF IInv, TypeOK, OneLoadPerRefresh, LoadsAreFresh, Dispose, Idle,
              PassedListenersTold, DisposedHasNoListeners
<1>7. CASE UNCHANGED vars
  BY <1>7 DEF IInv, TypeOK, OneLoadPerRefresh, LoadsAreFresh, vars,
              PassedListenersTold, DisposedHasNoListeners
<1> QED BY <1>1, <1>2, <1>3, <1>4, <1>5, <1>6, <1>7 DEF Next

\* The invariant, and with it TypeOK, holds in every reachable state.
THEOREM Invariant == Spec => []IInv
<1> QED BY InitIInv, NextIInv, PTL DEF Spec

\* The counters, loads and listeners stay tied together as TypeOK says.
THEOREM TypeCorrect == Spec => []TypeOK
<1>1. IInv => TypeOK
  BY DEF IInv
<1> QED BY <1>1, Invariant, PTL

-----------------------------------------------------------------------------

\* No listener that throws, leaves, subscribes others, refreshes or disposes
\* from inside the notification loop keeps another one from being told.
THEOREM ListenersTold == Spec => []EveryListenerTold
<1>1. IInv => EveryListenerTold
  BY DEF IInv, PassedListenersTold, EveryListenerTold, Idle
<1> QED BY <1>1, Invariant, PTL

\* Nobody is called after dispose().
THEOREM SilentAfterDispose == Spec => DisposedIsSilent
<1>1. IInv /\ [Next]_vars => [disposed => told' = told]_vars
  <2> SUFFICES ASSUME IInv, Next, disposed PROVE told' = told
    BY DEF vars
  <2>1. toNotify = {}
    BY DEF IInv, TypeOK, DisposedHasNoListeners
  <2>2. ~Notify
    BY <2>1 DEF Notify, ListenerReturns, ListenerThrows, ListenerUnsubscribes,
                ListenerSubscribes, ListenerRefreshes, ListenerDisposes, Called
  <2>3. CASE LoadSettles
    BY <2>3 DEF LoadSettles, LoadSucceeds, LoadUnconfigured, LoadFails, Publish
  <2>4. CASE \E l \in Listeners : Subscribe(l) \/ Unsubscribe(l)
    BY <2>4 DEF Subscribe, Unsubscribe
  <2>5. CASE WorldChanges \/ Refresh \/ Dispose
    BY <2>5 DEF WorldChanges, Refresh, Dispose
  <2> QED BY <2>2, <2>3, <2>4, <2>5 DEF Next
<1> QED BY <1>1, Invariant, PTL DEF Spec, DisposedIsSilent

\* What a publication does to the cell, whichever way the load settled.
LEMMA PublishIsNewer ==
  ASSUME IInv, NEW l \in loads, NEW snapshot \in Snapshots, NEW missed,
         Publish(l, snapshot, missed)
  PROVE  \/ Cell!Publish
         \/ UNCHANGED Cell!cellVars
<1>1. CASE MayPublish(l)
  <2>1. /\ published' = l.gen /\ cachedSnapshot' = snapshot
        /\ ~disposed /\ disposed' = disposed
    BY <1>1 DEF Publish, MayPublish
  <2>2. l.gen = refreshGeneration /\ l.gen # published
    BY <1>1 DEF MayPublish, IInv, LoadsAreFresh
  <2>3. l.gen \in Nat /\ published \in 0..refreshGeneration
    BY DEF IInv, TypeOK
  <2> QED BY <2>1, <2>2, <2>3 DEF Cell!Publish
<1>2. CASE ~MayPublish(l)
  BY <1>2 DEF Publish, Cell!cellVars
<1> QED BY <1>1, <1>2

\* Newest wins, and nothing is published after disposal: every step of the
\* source is a step of LatestWins or leaves it alone.
THEOREM Refinement == Spec => ImplementsLatestWins
<1>1. Init => Cell!Init
  BY DEF Init, Cell!Init
<1>2. IInv /\ [Next]_vars => [Cell!Next]_(Cell!cellVars)
  <2> SUFFICES ASSUME IInv, [Next]_vars
               PROVE  Cell!Publish \/ Cell!Close \/ UNCHANGED Cell!cellVars
    BY DEF Cell!Next
  <2>1. CASE LoadSettles
    <3>1. PICK l \in loads : LoadSucceeds(l) \/ LoadUnconfigured(l) \/ LoadFails(l)
      BY <2>1 DEF LoadSettles
    <3>2. /\ l.gen \in Nat /\ l.from \in Nat /\ world \in 0..MaxWorld
          /\ MaxWorld \in Nat /\ cachedSnapshot \in Snapshots
      BY BoundsAssumption DEF IInv, TypeOK
    <3>3. PICK snapshot \in Snapshots, missed \in BOOLEAN :
            Publish(l, snapshot, missed)
      <4>1. CASE LoadSucceeds(l)
        <5>1. PICK v \in l.from..world : Publish(l, Loaded(l, v, "ready"), FALSE)
          BY <4>1 DEF LoadSucceeds
        <5>2. Loaded(l, v, "ready") \in Snapshots
          BY <3>2 DEF Loaded, Snapshots, Statuses
        <5> QED BY <5>1, <5>2
      <4>2. CASE LoadUnconfigured(l)
        <5>1. Loaded(l, 0, "unconfigured") \in Snapshots
          BY <3>2 DEF Loaded, Snapshots, Statuses
        <5> QED BY <4>2, <5>1 DEF LoadUnconfigured
      <4>3. CASE LoadFails(l)
        <5>1. CaughtSnapshot(l) \in Snapshots /\ AfterRejection \in Snapshots
          BY <3>2 DEF CaughtSnapshot, AfterRejection, Loaded, Snapshots, Statuses
        <5> QED BY <4>3, <5>1 DEF LoadFails
      <4> QED BY <3>1, <4>1, <4>2, <4>3
    <3> QED BY <3>3, PublishIsNewer
  <2>2. CASE Notify
    <3>1. PICK l \in Listeners :
            \/ ListenerReturns(l) \/ ListenerThrows(l) \/ ListenerUnsubscribes(l)
            \/ ListenerSubscribes(l) \/ ListenerRefreshes(l) \/ ListenerDisposes(l)
      BY <2>2 DEF Notify
    <3>2. l \in toNotify /\ UNCHANGED <<cachedSnapshot, published>>
      BY <3>1 DEF ListenerReturns, ListenerThrows, ListenerUnsubscribes,
                  ListenerSubscribes, ListenerRefreshes, ListenerDisposes, Called
    <3>3. disposed = FALSE
      BY <3>2 DEF IInv, TypeOK, DisposedHasNoListeners
    <3>4. disposed' = disposed \/ disposed' = TRUE
      BY <3>1 DEF ListenerReturns, ListenerThrows, ListenerUnsubscribes,
                  ListenerSubscribes, ListenerRefreshes, ListenerDisposes
    <3> QED BY <3>2, <3>3, <3>4 DEF Cell!Close, Cell!cellVars
  <2>3. CASE \E l \in Listeners : Subscribe(l) \/ Unsubscribe(l)
    BY <2>3 DEF Subscribe, Unsubscribe, Cell!cellVars
  <2>4. CASE Dispose
    BY <2>4 DEF Dispose, Cell!Close
  <2>5. CASE WorldChanges \/ Refresh \/ UNCHANGED vars
    BY <2>5 DEF WorldChanges, Refresh, vars, Cell!cellVars
  <2> QED BY <2>1, <2>2, <2>3, <2>4, <2>5 DEF Next
<1> QED BY <1>1, <1>2, Invariant, PTL DEF Spec, ImplementsLatestWins, Cell!Spec

-----------------------------------------------------------------------------

\* Only a settled load changes the cached snapshot.
LEMMA OnlyLoadsWrite ==
  ASSUME [Next]_vars, ~LoadSettles
  PROVE  UNCHANGED cacheVars
BY DEF Next, WorldChanges, Refresh, Notify, Subscribe, Unsubscribe, Dispose,
       ListenerReturns, ListenerThrows, ListenerUnsubscribes,
       ListenerSubscribes, ListenerRefreshes, ListenerDisposes, Called, vars,
       cacheVars

\* The cached data never goes back to an older version of the provider.
THEOREM NeverGoesBack == Spec => CacheNeverGoesBack
<1> DEFINE A == cachedSnapshot'.data # 0
                  => cachedSnapshot'.data >= cachedSnapshot.data
<1>1. IInv /\ [Next]_vars => [A]_vars
  <2> SUFFICES ASSUME IInv, [Next]_vars PROVE A
    OBVIOUS
  <2>1. cachedSnapshot.data \in Int /\ cachedSnapshot.data <= cachedSnapshot.data
    BY BoundsAssumption DEF IInv, TypeOK, Snapshots
  <2>2. CASE LoadSettles
    <3>1. PICK l \in loads : LoadSucceeds(l) \/ LoadUnconfigured(l) \/ LoadFails(l)
      BY <2>2 DEF LoadSettles
    <3>2. CASE LoadSucceeds(l)
      <4>1. PICK v \in l.from..world : Publish(l, Loaded(l, v, "ready"), FALSE)
        BY <3>2 DEF LoadSucceeds
      <4>2. CASE MayPublish(l)
        <5>1. l.gen > published
          BY <4>2 DEF MayPublish, IInv, TypeOK, LoadsAreFresh
        <5>2. v >= l.from /\ l.from >= cachedSnapshot.data /\ l.from \in Int
          BY <5>1 DEF IInv, TypeOK, LoadsAreFresh
        <5>3. cachedSnapshot'.data = v
          BY <4>1, <4>2 DEF Publish, Loaded
        <5> QED BY <2>1, <5>2, <5>3
      <4>3. CASE ~MayPublish(l)
        BY <2>1, <4>1, <4>3 DEF Publish
      <4> QED BY <4>2, <4>3
    <3>3. CASE LoadUnconfigured(l)
      BY <2>1, <3>3 DEF LoadUnconfigured, Publish, Loaded
    <3>4. CASE LoadFails(l)
      <4>1. \/ cachedSnapshot' \in {cachedSnapshot, CaughtSnapshot(l)}
            \/ cachedSnapshot' = AfterRejection
        BY <3>4 DEF LoadFails, Publish
      <4>2. CaughtSnapshot(l).data = 0
        BY DEF CaughtSnapshot, Loaded
      <4>3. AfterRejection.data = cachedSnapshot.data
        BY DEF AfterRejection, IInv, TypeOK, Snapshots
      <4> QED BY <2>1, <4>1, <4>2, <4>3
    <3> QED BY <3>1, <3>2, <3>3, <3>4
  <2>3. CASE ~LoadSettles
    BY <2>1, <2>3, OnlyLoadsWrite DEF cacheVars
  <2> QED BY <2>2, <2>3
<1> QED BY <1>1, Invariant, PTL DEF Spec, CacheNeverGoesBack

\* With a loader that lets its errors out, a failed read keeps the data and
\* its timestamp and marks the health.
THEOREM FailuresKeepData == ~Catches => (Spec => FailureKeepsData)
<1> SUFFICES ASSUME ~Catches PROVE Spec => FailureKeepsData
  OBVIOUS
<1> DEFINE A == published' # published /\ failing'
                  => /\ cachedSnapshot'.data = cachedSnapshot.data
                     /\ cachedSnapshot'.generatedAt = cachedSnapshot.generatedAt
                     /\ cachedSnapshot'.status \in {"degraded", "error"}
<1>1. IInv /\ [Next]_vars => [A]_vars
  <2> SUFFICES ASSUME IInv, [Next]_vars, published' # published, failing'
               PROVE  A
    OBVIOUS
  <2>1. LoadSettles
    BY OnlyLoadsWrite DEF cacheVars
  <2>2. PICK l \in loads : LoadSucceeds(l) \/ LoadUnconfigured(l) \/ LoadFails(l)
    BY <2>1 DEF LoadSettles
  <2>3. LoadFails(l)
    BY <2>2 DEF LoadSucceeds, LoadUnconfigured, Publish
  <2>4. cachedSnapshot' = AfterRejection
    BY <2>3 DEF LoadFails, Publish
  <2>5. /\ AfterRejection.data = cachedSnapshot.data
        /\ AfterRejection.generatedAt = cachedSnapshot.generatedAt
        /\ AfterRejection.status \in {"degraded", "error"}
    BY DEF AfterRejection, IInv, TypeOK, Snapshots
  <2> QED BY <2>4, <2>5
<1> QED BY <1>1, Invariant, PTL DEF Spec, FailureKeepsData

\* Neither a failure nor a disposal takes anything from who has the data.
THEOREM NothingIsTaken == ~Catches => (Spec => CacheIsKept)
BY SilentAfterDispose, FailuresKeepData DEF CacheIsKept

-----------------------------------------------------------------------------
(***************************************************************************)
(* The cache of a DiscoverySourceCache holds the newest scan that has      *)
(* completed, however scans hang, fail, are given up and complete late.    *)
(*                                                                         *)
(* The argument: only the scan of the present generation publishes, it has *)
(* not published yet while it runs, and it has looked at the disk after    *)
(* the scan before it has published (ScansInOrder).  The place it holds is *)
(* released by its own end alone (PlaceIsHeld).                            *)
(***************************************************************************)

Entries ==
  [value : Nat, completedAt : Nat, pending : Nat, startedAt : Nat,
   generation : Nat, published : Nat]

ScanRecords ==
  [stage : {"none", "running", "found", "settled", "ended"}, found : Nat]

DiscoveryTyped ==
  /\ entry \in Entries /\ entry.generation \in 0..MaxScans
  /\ scan \in [Scans -> ScanRecords]
  /\ reader \in [Readers -> 0..MaxScans]
  /\ disk \in 1..MaxDisk /\ ticks \in 0..MaxTicks

\* What was started, what may still publish, and what it has seen.
ScansInOrder ==
  /\ entry.published <= entry.generation
  /\ entry.value <= disk
  /\ \A s \in Scans :
       /\ s > entry.generation => scan[s].stage = "none"
       /\ scan[s].stage = "found" => scan[s].found \in 1..disk
       /\ s = entry.generation =>
            /\ scan[s].stage \in {"running", "found"} => entry.published < s
            /\ scan[s].stage = "found" => entry.value <= scan[s].found

\* The scan of the present generation holds the place until it has ended.
PlaceIsHeld ==
  /\ entry.pending \in {0, entry.generation}
  /\ entry.pending = 0 /\ entry.generation # 0 => scan[entry.generation].stage = "ended"

\* A reader waits for a scan that was started.
ReadersAwaitScans == \A r \in Readers : reader[r] <= entry.generation

DiscoveryInv == DiscoveryTyped /\ ScansInOrder /\ PlaceIsHeld /\ ReadersAwaitScans


-----------------------------------------------------------------------------
LEMMA DiscoveryBounds ==
  /\ MaxScan \in Nat /\ Retention \in Nat /\ MaxScans \in Nat /\ MaxTicks \in Nat
  /\ MaxDisk \in Nat \ {0}
BY DiscoveryBoundsAssumption

LEMMA DiscoveryStart == DiscoveryInit => DiscoveryInv
BY DiscoveryBounds DEF DiscoveryInit, DiscoveryInv, DiscoveryTyped, Entries, ScanRecords, NoScan,
   ScansInOrder, PlaceIsHeld, ReadersAwaitScans, Scans

\* A read() that starts a scan starts the next one, in a free place or in that
\* of a scan that has taken too long.
StartsScan(n) ==
  /\ n = entry.generation + 1 /\ n \in Scans /\ NeedsScan(entry)
  /\ entry' \in Entries /\ entry'.generation = n /\ entry'.pending = n
  /\ entry'.value = entry.value /\ entry'.published = entry.published
  /\ scan' \in [Scans -> ScanRecords] /\ scan'[n] = ScanAt("running", 0)
  /\ \A s \in Scans : s # n => scan'[s] = scan[s]

LEMMA ReadOpens ==
  ASSUME DiscoveryInv, NEW r \in Readers, Read(r)
  PROVE  \/ entry' = entry /\ scan' = scan
         \/ StartsScan(entry.generation + 1)
<1> DEFINE next == entry.generation + 1
           opened == [entry EXCEPT !.generation = next, !.startedAt = ticks,
                                   !.pending = next]
<1>1. /\ entry \in Entries /\ entry.generation \in 0..MaxScans /\ ticks \in 0..MaxTicks
      /\ entry' = Opened(entry) /\ Opened(entry).generation \in 0..MaxScans
      /\ scan' = [s \in Scans |-> IF s = Opened(entry).generation /\ s # entry.generation
                                  THEN ScanAt("running", 0) ELSE scan[s]]
      /\ scan \in [Scans -> ScanRecords]
  BY DEF Read, DiscoveryInv, DiscoveryTyped
<1>2. CASE ~NeedsScan(entry)
  <2>1. Opened(entry) = entry
    BY <1>2 DEF Opened
  <2>2. scan' = scan
    BY <1>1, <2>1
  <2> QED BY <1>1, <2>1, <2>2
<1>3. CASE NeedsScan(entry)
  <2>1. Opened(entry) = opened
    BY <1>1, <1>3 DEF Opened
  <2>2. next \in Nat /\ ticks \in Nat
    BY <1>1, DiscoveryBounds
  <2>3. /\ opened \in Entries /\ opened.generation = next /\ opened.pending = next
        /\ opened.value = entry.value /\ opened.published = entry.published
    BY <1>1, <2>2 DEF Entries
  <2> HIDE DEF opened
  <2>4. next \in Scans /\ next # entry.generation
    BY <1>1, <2>1, <2>3, DiscoveryBounds DEF Scans
  <2>5. scan' \in [Scans -> ScanRecords]
    BY <1>1 DEF ScanAt, ScanRecords
  <2>6. scan'[next] = ScanAt("running", 0) /\ \A s \in Scans : s # next => scan'[s] = scan[s]
    BY <1>1, <2>1, <2>3, <2>4
  <2> QED BY <1>1, <1>3, <2>1, <2>3, <2>4, <2>5, <2>6 DEF StartsScan
<1> QED BY <1>2, <1>3

LEMMA ReadKeeps ==
  ASSUME DiscoveryInv, NEW r \in Readers, Read(r)
  PROVE  DiscoveryInv'
<1> DEFINE next == entry.generation + 1
<1>1. /\ entry \in Entries /\ entry.generation \in 0..MaxScans
      /\ reader \in [Readers -> 0..MaxScans] /\ disk \in 1..MaxDisk /\ ticks \in 0..MaxTicks
      /\ disk' = disk /\ ticks' = ticks
  BY DEF Read, DiscoveryInv, DiscoveryTyped
<1>2. /\ reader' = [reader EXCEPT ![r] = reader'[r]]
      /\ reader'[r] = 0 \/ reader'[r] = entry'.pending
  BY <1>1 DEF Read
<1>3. CASE entry' = entry /\ scan' = scan
  <2>1. entry'.pending \in 0..MaxScans /\ entry'.pending <= entry.generation
    <3>1. entry'.pending = 0 \/ entry'.pending = entry.generation
      BY <1>3 DEF DiscoveryInv, PlaceIsHeld
    <3> QED BY <1>1, <3>1, DiscoveryBounds
  <2>2. reader'[r] \in 0..MaxScans /\ reader'[r] <= entry.generation
    BY <1>1, <1>2, <2>1, DiscoveryBounds
  <2>3. reader' \in [Readers -> 0..MaxScans] /\ ReadersAwaitScans'
    BY <1>1, <1>2, <1>3, <2>2 DEF DiscoveryInv, ReadersAwaitScans
  <2> QED BY <1>1, <1>3, <2>3
       DEF DiscoveryInv, DiscoveryTyped, ScansInOrder, PlaceIsHeld
<1>4. CASE StartsScan(next)
  <2>1. next \in 1..MaxScans
    BY <1>4 DEF StartsScan, Scans
  <2>2. reader' \in [Readers -> 0..MaxScans] /\ ReadersAwaitScans'
    <3>1. \A q \in Readers : reader[q] <= entry.generation /\ reader[q] \in 0..MaxScans
      BY <1>1 DEF DiscoveryInv, ReadersAwaitScans
    <3>2. entry'.pending = next
      BY <1>4 DEF StartsScan
    <3>3. reader'[r] \in 0..MaxScans /\ reader'[r] <= next
      BY <1>2, <2>1, <3>2, DiscoveryBounds
    <3>4. \A q \in Readers : q # r => reader'[q] = reader[q]
      BY <1>1, <1>2
    <3>5. reader' \in [Readers -> 0..MaxScans]
      BY <1>1, <1>2, <3>3
    <3>6. entry'.generation = next
      BY <1>4 DEF StartsScan
    <3> QED BY <1>1, <3>1, <3>3, <3>4, <3>5, <3>6 DEF ReadersAwaitScans
  <2>3. DiscoveryTyped'
    BY <1>1, <1>4, <2>1, <2>2 DEF DiscoveryTyped, StartsScan
  <2>4. ScansInOrder'
    <3>1. entry'.published <= next /\ entry'.published < next /\ entry'.value <= disk'
      BY <1>1, <1>4 DEF StartsScan, DiscoveryInv, ScansInOrder, Entries
    <3>2. ASSUME NEW s \in Scans
          PROVE  /\ s > next => scan'[s].stage = "none"
                 /\ scan'[s].stage = "found" => scan'[s].found \in 1..disk'
                 /\ s = next =>
                      /\ scan'[s].stage \in {"running", "found"} => entry'.published < s
                      /\ scan'[s].stage = "found" => entry'.value <= scan'[s].found
      <4>1. CASE s = next
        <5>1. scan'[s].stage = "running"
          BY <1>4, <4>1 DEF StartsScan, ScanAt
        <5> QED BY <1>1, <3>1, <4>1, <5>1
      <4>2. CASE s # next
        BY <1>1, <1>4, <4>2 DEF StartsScan, DiscoveryInv, ScansInOrder, Scans
      <4> QED BY <4>1, <4>2
    <3> QED BY <1>4, <3>1, <3>2 DEF ScansInOrder, StartsScan
  <2>5. PlaceIsHeld'
    BY <1>4, <2>1 DEF PlaceIsHeld, StartsScan
  <2> QED BY <2>2, <2>3, <2>4, <2>5 DEF DiscoveryInv
<1> QED BY <1>3, <1>4, ReadOpens

\* A step of a scan that leaves the cached value alone.
LEMMA ScanKeeps ==
  ASSUME DiscoveryInv, NEW s \in Scans, ScanLooks(s) \/ ScanFails(s)
  PROVE  DiscoveryInv'
<1>1. /\ entry' = entry /\ reader' = reader /\ disk' = disk /\ ticks' = ticks
      /\ scan[s].stage \in {"running", "found"}
      /\ scan' \in [Scans -> ScanRecords]
      /\ scan'[s] \in {ScanAt("found", disk), ScanAt("settled", 0)}
      /\ \A r \in Scans : r # s => scan'[r] = scan[r]
  BY DiscoveryBounds DEF ScanLooks, ScanFails, ScanAt, ScanRecords, DiscoveryInv, DiscoveryTyped
<1>2. DiscoveryTyped' /\ ReadersAwaitScans'
  BY <1>1 DEF DiscoveryInv, DiscoveryTyped, ReadersAwaitScans
<1>3. ScansInOrder'
  <2>1. /\ scan'[s].stage \in {"found", "settled"}
        /\ scan'[s].stage = "found" => scan'[s].found = disk
    BY <1>1 DEF ScanAt
  <2>2. s <= entry.generation /\ disk \in 1..disk
    BY <1>1 DEF DiscoveryInv, DiscoveryTyped, ScansInOrder, Scans
  <2>3. entry.value <= disk
    BY DEF DiscoveryInv, ScansInOrder
  <2> QED BY <1>1, <2>1, <2>2, <2>3 DEF DiscoveryInv, ScansInOrder
<1>4. PlaceIsHeld'
  BY <1>1 DEF DiscoveryInv, DiscoveryTyped, PlaceIsHeld, Scans
<1> QED BY <1>2, <1>3, <1>4 DEF DiscoveryInv

\* A scan that has been given up publishes nothing; the present one publishes
\* once, and what it has seen is not older than what the cache holds.
PublishesScan(s) ==
  /\ s = entry.generation /\ entry.published < s
  /\ entry' \in Entries /\ entry'.value = scan[s].found /\ entry'.published = s
  /\ entry'.generation = entry.generation /\ entry'.pending = entry.pending
  /\ scan[s].found \in 1..disk /\ entry.value <= scan[s].found

LEMMA ScanPublishes ==
  ASSUME DiscoveryInv, NEW s \in Scans, ScanSucceeds(s)
  PROVE  entry' = entry \/ PublishesScan(s)
<1>1. /\ scan[s].stage = "found" /\ entry' = ScanCompleted(entry, s)
      /\ entry \in Entries /\ disk \in 1..MaxDisk /\ ticks \in 0..MaxTicks /\ s \in Nat
  BY DEF ScanSucceeds, DiscoveryInv, DiscoveryTyped, Scans
<1>2. CASE s # entry.generation
  BY <1>1, <1>2 DEF ScanCompleted
<1>3. CASE s = entry.generation
  <2>1. /\ scan[s].found \in 1..disk /\ entry.published < s /\ entry.value <= scan[s].found
    BY <1>1, <1>3 DEF DiscoveryInv, ScansInOrder
  <2>2. entry' = [entry EXCEPT !.value = scan[s].found, !.completedAt = ticks, !.published = s]
    BY <1>1, <1>3 DEF ScanCompleted
  <2>3. scan[s].found \in Nat /\ ticks \in Nat
    BY <1>1, <2>1, DiscoveryBounds
  <2> QED BY <1>1, <1>3, <2>1, <2>2, <2>3 DEF Entries, PublishesScan
<1> QED BY <1>2, <1>3

LEMMA ScanSucceedsKeeps ==
  ASSUME DiscoveryInv, NEW s \in Scans, ScanSucceeds(s)
  PROVE  DiscoveryInv'
<1>1. /\ reader' = reader /\ disk' = disk /\ ticks' = ticks /\ scan[s].stage = "found"
      /\ scan' \in [Scans -> ScanRecords]
      /\ scan'[s].stage = "settled"
      /\ \A r \in Scans : r # s => scan'[r] = scan[r]
      /\ disk \in 1..MaxDisk
  BY DEF ScanSucceeds, ScanAt, ScanRecords, DiscoveryInv, DiscoveryTyped
<1>2. /\ entry' \in Entries /\ entry'.generation = entry.generation
      /\ entry'.pending = entry.pending /\ entry'.value <= disk
      /\ entry'.published \in {entry.published, entry.generation}
      /\ entry' # entry => s = entry.generation
  <2>1. entry \in Entries /\ entry.value <= disk
    BY DEF DiscoveryInv, DiscoveryTyped, ScansInOrder
  <2>2. CASE PublishesScan(s)
    BY <1>1, <2>1, <2>2, DiscoveryBounds DEF PublishesScan
  <2>3. CASE entry' = entry
    BY <2>1, <2>3
  <2> QED BY <2>2, <2>3, ScanPublishes
<1>3. DiscoveryTyped' /\ ReadersAwaitScans'
  BY <1>1, <1>2 DEF DiscoveryInv, DiscoveryTyped, ReadersAwaitScans
<1>4. ScansInOrder'
  <2>1. entry'.published <= entry.generation
    BY <1>2 DEF DiscoveryInv, ScansInOrder, DiscoveryTyped
  <2>2. ASSUME NEW r \in Scans, r # s
        PROVE  /\ r > entry.generation => scan[r].stage = "none"
               /\ scan[r].stage = "found" => scan[r].found \in 1..disk
               /\ r = entry.generation => entry' = entry
               /\ r = entry.generation =>
                    /\ scan[r].stage \in {"running", "found"} => entry.published < r
                    /\ scan[r].stage = "found" => entry.value <= scan[r].found
    BY <1>2, <2>2 DEF DiscoveryInv, ScansInOrder
  <2>3. s <= entry.generation
    BY <1>1 DEF DiscoveryInv, DiscoveryTyped, ScansInOrder, Scans
  <2>4. ASSUME NEW r \in Scans
        PROVE  /\ r > entry.generation => scan'[r].stage = "none"
               /\ scan'[r].stage = "found" => scan'[r].found \in 1..disk
               /\ r = entry.generation =>
                    /\ scan'[r].stage \in {"running", "found"} => entry'.published < r
                    /\ scan'[r].stage = "found" => entry'.value <= scan'[r].found
    <3>1. CASE r = s
      BY <1>1, <2>3, <3>1 DEF DiscoveryInv, DiscoveryTyped, Scans
    <3>2. CASE r # s
      BY <1>1, <2>2, <3>2
    <3> QED BY <3>1, <3>2
  <2> QED BY <1>1, <1>2, <2>1, <2>4 DEF ScansInOrder
<1>5. PlaceIsHeld'
  <2>1. entry.pending = 0 /\ entry.generation # 0 => s # entry.generation
    BY <1>1 DEF DiscoveryInv, PlaceIsHeld
  <2> QED BY <1>1, <1>2, <2>1 DEF DiscoveryInv, DiscoveryTyped, PlaceIsHeld, Scans
<1> QED BY <1>3, <1>4, <1>5 DEF DiscoveryInv

\* The end of a scan releases its own place.
LEMMA ScanEndsKeeps ==
  ASSUME DiscoveryInv, NEW s \in Scans, ScanEnds(s)
  PROVE  DiscoveryInv'
<1>1. /\ reader' = reader /\ disk' = disk /\ ticks' = ticks /\ scan[s].stage = "settled"
      /\ scan' \in [Scans -> ScanRecords]
      /\ scan'[s].stage = "ended"
      /\ \A r \in Scans : r # s => scan'[r] = scan[r]
  BY DEF ScanEnds, ScanAt, ScanRecords, DiscoveryInv, DiscoveryTyped
<1>2. /\ entry' \in Entries /\ entry'.generation = entry.generation
      /\ entry'.value = entry.value /\ entry'.published = entry.published
      /\ entry'.pending = (IF s = entry.generation THEN 0 ELSE entry.pending)
  BY DEF ScanEnds, PendingCleared, DiscoveryInv, DiscoveryTyped, Entries
<1>3. DiscoveryTyped' /\ ReadersAwaitScans'
  BY <1>1, <1>2 DEF DiscoveryInv, DiscoveryTyped, ReadersAwaitScans
<1>4. ScansInOrder'
  <2>1. s <= entry.generation
    BY <1>1 DEF DiscoveryInv, DiscoveryTyped, ScansInOrder, Scans
  <2> QED BY <1>1, <1>2, <2>1 DEF DiscoveryInv, ScansInOrder
<1>5. PlaceIsHeld'
  BY <1>1, <1>2 DEF DiscoveryInv, DiscoveryTyped, PlaceIsHeld, Scans
<1> QED BY <1>3, <1>4, <1>5 DEF DiscoveryInv

LEMMA DiscoveryStep == DiscoveryInv /\ [DiscoveryNext]_discoveryVars => DiscoveryInv'
<1> SUFFICES ASSUME DiscoveryInv, [DiscoveryNext]_discoveryVars PROVE DiscoveryInv'
  OBVIOUS
<1>1. ASSUME NEW r \in Readers, ScanWakesReader(r) \/ ReaderTimesOut(r)
      PROVE  DiscoveryInv'
  <2>1. /\ UNCHANGED <<entry, scan, disk, ticks>>
        /\ reader' = [reader EXCEPT ![r] = 0]
    BY <1>1 DEF ScanWakesReader, ReaderTimesOut
  <2> QED BY <2>1, DiscoveryBounds DEF DiscoveryInv, DiscoveryTyped, ScansInOrder, PlaceIsHeld,
          ReadersAwaitScans
<1>2. CASE DiskChanges
  <2>1. UNCHANGED <<entry, scan, reader, ticks>> /\ disk' \in 1..MaxDisk /\ disk <= disk'
    BY <1>2, DiscoveryBounds DEF DiskChanges, DiscoveryInv, DiscoveryTyped
  <2>2. 1..disk \subseteq 1..disk' /\ entry.value <= disk'
    BY <2>1 DEF DiscoveryInv, DiscoveryTyped, ScansInOrder, Entries
  <2> QED BY <2>1, <2>2 DEF DiscoveryInv, DiscoveryTyped, ScansInOrder, PlaceIsHeld,
          ReadersAwaitScans
<1>3. CASE DiscoveryTick
  <2>1. UNCHANGED <<entry, scan, reader, disk>> /\ ticks' \in 0..MaxTicks
    BY <1>3, DiscoveryBounds DEF DiscoveryTick, DiscoveryInv, DiscoveryTyped
  <2> QED BY <2>1 DEF DiscoveryInv, DiscoveryTyped, ScansInOrder, PlaceIsHeld,
          ReadersAwaitScans
<1>4. CASE UNCHANGED discoveryVars
  BY <1>4 DEF discoveryVars, DiscoveryInv, DiscoveryTyped, ScansInOrder, PlaceIsHeld,
     ReadersAwaitScans
<1> QED BY <1>1, <1>2, <1>3, <1>4, ReadKeeps, ScanKeeps, ScanSucceedsKeeps, ScanEndsKeeps
        DEF DiscoveryNext

THEOREM DiscoveryInvariant == DiscoverySpec => []DiscoveryInv
BY DiscoveryStart, DiscoveryStep, PTL DEF DiscoverySpec

-----------------------------------------------------------------------------
\* Every step writes the cached value by the scan of the present generation,
\* and starts a scan in a place that is free or held too long.
LEMMA StepSupersedesNothing ==
  ASSUME DiscoveryInv, [DiscoveryNext]_discoveryVars
  PROVE  /\ [Latest!Next]_(Latest!cellVars)
         /\ entry'.value >= entry.value
         /\ entry'.generation # entry.generation /\ entry.generation # 0
              => \/ scan[entry.generation].stage = "ended"
                 \/ ticks - entry.startedAt >= MaxScan
<1>1. entry \in Entries /\ disk \in 1..MaxDisk
  BY DEF DiscoveryInv, DiscoveryTyped
<1>2. CASE \E r \in Readers : Read(r)
  <2>1. \/ entry' = entry
        \/ /\ NeedsScan(entry) /\ entry'.value = entry.value
           /\ entry'.published = entry.published
    BY <1>2, ReadOpens DEF StartsScan
  <2>2. NeedsScan(entry) /\ entry.generation # 0 =>
          \/ scan[entry.generation].stage = "ended"
          \/ ticks - entry.startedAt >= MaxScan
    BY DEF NeedsScan, DiscoveryInv, PlaceIsHeld
  <2> QED BY <1>1, <2>1, <2>2 DEF Latest!cellVars, Entries
<1>3. CASE \E s \in Scans : ScanSucceeds(s)
  <2>1. \/ entry' = entry
        \/ /\ entry'.published \in Nat /\ entry'.published > entry.published
           /\ entry'.value \in 1..MaxDisk /\ entry'.value >= entry.value
           /\ entry'.generation = entry.generation
    <3>1. PICK s \in Scans : ScanSucceeds(s)
      BY <1>3
    <3>2. CASE PublishesScan(s)
      BY <1>1, <3>2, DiscoveryBounds DEF Entries, PublishesScan, Scans
    <3> QED BY <3>1, <3>2, ScanPublishes
  <2> QED BY <1>1, <2>1 DEF Latest!Next, Latest!Publish, Latest!cellVars, Entries
<1>4. CASE \E s \in Scans : ScanEnds(s)
  <2>1. /\ entry'.value = entry.value /\ entry'.published = entry.published
        /\ entry'.generation = entry.generation
    BY <1>1, <1>4 DEF ScanEnds, PendingCleared, Entries
  <2> QED BY <1>1, <2>1 DEF Latest!cellVars, Entries
<1>5. CASE UNCHANGED entry
  BY <1>1, <1>5 DEF Latest!cellVars, Entries
<1> QED BY <1>2, <1>3, <1>4, <1>5
        DEF DiscoveryNext, ScanLooks, ScanFails, ScanWakesReader, ReaderTimesOut,
            DiskChanges, DiscoveryTick, discoveryVars

\* discovery-source-cache.ts: however many scans are given up and complete late,
\* the cache is a LatestWins cell, what it holds is never older than before, and
\* no scan is started next to one that has not taken too long.
THEOREM NothingIsSuperseded == DiscoverySpec => NothingSuperseded
<1>1. DiscoveryInit => Latest!Init
  BY DEF DiscoveryInit, Latest!Init
<1> QED BY <1>1, StepSupersedesNothing, DiscoveryInvariant, PTL
        DEF DiscoverySpec, NothingSuperseded, Latest!Spec

-----------------------------------------------------------------------------
(* OfficePage: the inductive invariant.                                    *)

Fleets ==
  [v : Nat, threads : SUBSET Threads, need : Requests \union {NoRequest}]
Composers ==
  [thread : Threads \union {None}, draft : Nat, pending : BOOLEAN,
   error : BOOLEAN, again : BOOLEAN]
Inputs == {None, "option", "text"}
Decisions == {"accept", "acceptForSession", "decline", "cancel"}
PageCalls ==
  [kind : {"open", "reply", "need"}, about : Threads \union Requests \union {None},
   what : Nat \union Inputs \union Decisions,
   deed : {"due", "done", "botched", "refused"},
   phase : {"posted", "refreshing", "over"}, since : Nat, body : Fleets]

PageTypeOK ==
  /\ served \in Fleets /\ served.v # 0
  /\ asking \in Seq(Requests) /\ asked \in SUBSET Requests
  /\ stream \in {"none", "connecting", "open", "broken"}
  /\ wire \in Seq(Fleets)
  /\ shown \in Fleets /\ newest \in Nat
  /\ openThread \in Threads \union {None}
  /\ composer \in Composers
  /\ entered \in [Requests -> Inputs]
  /\ busy \in SUBSET Requests /\ failed \in SUBSET Requests
  /\ calls \in Seq(PageCalls)
  /\ texts \in Nat

\* What a call is about, and what it may hold at each stage, n texts typed.
CallInOrder(c, n) ==
  /\ c.kind = "open" => c.phase # "posted"
  /\ c.kind = "reply" =>
       c.about \in Threads /\ c.what \in 1..n
  /\ c.kind = "need" =>
       /\ c.about \in Requests
       /\ Taken(c.about, c.what) \/ c.about.options = "empty"
  /\ c.body # NoFleet => c.phase # "posted"
CallsInOrder ==
  /\ \A i \in DOMAIN calls : CallInOrder(calls[i], texts)
  /\ composer.draft <= texts
  /\ \A r \in Requests : entered[r] \in Enterable(r) \union {None}

\* Nothing is shown before the first call has ended, and there is no other.
FirstCallFirst ==
  /\ \A i \in DOMAIN calls : calls[i].kind = "open" <=> i = 1
  /\ stream = "none" => /\ wire = <<>> /\ shown = NoFleet /\ newest = 0
                        /\ Len(calls) <= 1
  /\ Len(calls) = 0 => stream = "none"
  /\ \A i \in DOMAIN calls :
       calls[i].kind = "open" /\ calls[i].phase # "over" => stream = "none"

\* An answer on its way keeps its request busy, and is the only one.
BusyInOrder ==
  /\ \A i \in DOMAIN calls :
       calls[i].kind = "need" /\ calls[i].phase # "over" => calls[i].about \in busy
  /\ \A i, j \in DOMAIN calls :
       /\ i # j
       /\ calls[i].kind = "need" /\ calls[i].phase # "over"
       /\ calls[j].kind = "need" /\ calls[j].phase # "over"
       => calls[i].about # calls[j].about

IsSent(c) ==
  /\ c.kind = "reply" /\ c.phase = "posted"
  /\ c.about = composer.thread /\ c.what = composer.draft

\* What is being sent is on its way; and what is on its way can be sent again
\* only after an error, or from a composer that was opened again.
SendingInOrder ==
  /\ composer.pending => \E i \in DOMAIN calls : IsSent(calls[i])
  /\ \A i \in DOMAIN calls :
       IsSent(calls[i]) => composer.pending \/ composer.error \/ composer.again

\* A refresh that may overtake the stream and is allowed fleet w.
Allowed(cs, w) ==
  \E j \in DOMAIN cs :
    cs[j].kind # "open" /\ cs[j].body # NoFleet /\ cs[j].since <= w

\* The stream brings fleets in their order, and none older than what is shown or
\* was when a refresh began, unless such a refresh has overtaken it.
StreamInOrder ==
  /\ shown.v <= served.v
  /\ \A k \in DOMAIN wire :
       /\ wire[k].v <= served.v
       /\ \A l \in DOMAIN wire : k <= l => wire[k].v <= wire[l].v
       /\ shown.v <= wire[k].v \/ Allowed(calls, wire[k].v)
  /\ \A i \in DOMAIN calls :
       calls[i].phase = "refreshing" =>
         /\ calls[i].since <= served.v
         /\ \A k \in DOMAIN wire : calls[i].since <= wire[k].v \/ Allowed(calls, wire[k].v)
  /\ \A i \in DOMAIN calls :
       calls[i].body # NoFleet =>
         calls[i].since <= calls[i].body.v /\ calls[i].body.v <= served.v

PageInv ==
  /\ PageTypeOK /\ CallsInOrder /\ FirstCallFirst
  /\ BusyInOrder /\ SendingInOrder /\ StreamInOrder

-----------------------------------------------------------------------------
(* How calls change.                                                       *)

\* A new call.
LEMMA CallIsMade ==
  ASSUME PageTypeOK, NEW kind \in {"open", "reply", "need"},
         NEW about \in Threads \union Requests \union {None},
         NEW what \in Nat \union Inputs \union Decisions,
         NEW phase \in {"posted", "refreshing"},
         calls' = Append(calls, Call(kind, about, what, phase))
  PROVE  LET n == Len(calls)
             c == calls'[n + 1] IN
         /\ n \in Nat /\ DOMAIN calls = 1..n
         /\ calls' \in Seq(PageCalls) /\ DOMAIN calls' = 1..(n + 1)
         /\ Len(calls') = n + 1
         /\ c.kind = kind /\ c.about = about /\ c.what = what /\ c.phase = phase
         /\ c.deed = (IF phase = "posted" THEN "due" ELSE "done")
         /\ c.body = NoFleet /\ c.since = newest
         /\ \A i \in 1..n : calls'[i] = calls[i]
<1> DEFINE m == Call(kind, about, what, phase)
           n == Len(calls)
<1>1. NoFleet \in Fleets
  BY DEF NoFleet, Fleets
<1>2. /\ m \in PageCalls
      /\ m.kind = kind /\ m.about = about /\ m.what = what /\ m.phase = phase
      /\ m.deed = (IF phase = "posted" THEN "due" ELSE "done")
      /\ m.body = NoFleet /\ m.since = newest
  BY <1>1 DEF Call, PageCalls, PageTypeOK
<1> HIDE DEF m
<1>3. calls \in Seq(PageCalls) /\ n \in Nat /\ DOMAIN calls = 1..n
  BY DEF PageTypeOK
<1>4. calls' = Append(calls, m)
  BY DEF m
<1>5. /\ calls' \in Seq(PageCalls) /\ DOMAIN calls' = 1..(n + 1) /\ Len(calls') = n + 1
      /\ calls'[n + 1] = m /\ \A i \in 1..n : calls'[i] = calls[i]
  BY <1>2, <1>3, <1>4
<1> QED
  BY <1>2, <1>3, <1>5

OtherCalls(i) ==
  DOMAIN calls' = DOMAIN calls /\ Len(calls') = Len(calls)
  /\ \A j \in DOMAIN calls \ {i} : calls'[j] = calls[j]

\* A call goes on to phase p.
LEMMA PhaseEffect ==
  ASSUME PageTypeOK, NEW i \in DOMAIN calls, NEW p \in {"refreshing", "over"},
         Phase(i, p)
  PROVE  /\ calls' \in Seq(PageCalls) /\ OtherCalls(i)
         /\ calls'[i].kind = calls[i].kind /\ calls'[i].about = calls[i].about
         /\ calls'[i].what = calls[i].what /\ calls'[i].deed = calls[i].deed
         /\ calls'[i].body = calls[i].body /\ calls'[i].phase = p
         /\ calls'[i].since = IF p = "refreshing" THEN shown.v ELSE calls[i].since
<1> DEFINE since == IF p = "refreshing" THEN shown.v ELSE calls[i].since
           c == [calls[i] EXCEPT !.phase = p, !.since = since]
<1>1. calls \in Seq(PageCalls) /\ calls[i] \in PageCalls /\ shown \in Fleets
  BY DEF PageTypeOK
<1>2. since \in Nat
  BY <1>1 DEF PageCalls, Fleets
<1>3. calls' = [calls EXCEPT ![i] = c]
  BY DEF Phase
<1> HIDE DEF since
<1>4. /\ c \in PageCalls /\ c.kind = calls[i].kind /\ c.about = calls[i].about
      /\ c.what = calls[i].what /\ c.deed = calls[i].deed
      /\ c.body = calls[i].body /\ c.phase = p /\ c.since = since
  BY <1>1, <1>2 DEF PageCalls
<1> HIDE DEF c
<1> QED
  BY <1>1, <1>3, <1>4 DEF OtherCalls, since

\* The server's part in a call, which has no effect on the page by itself.
LEMMA DeedEffect ==
  ASSUME PageTypeOK, NEW i \in DOMAIN calls, NEW d \in {"done", "botched", "refused"},
         Deed(i, d)
  PROVE  /\ calls' \in Seq(PageCalls) /\ OtherCalls(i)
         /\ calls'[i].kind = calls[i].kind /\ calls'[i].about = calls[i].about
         /\ calls'[i].what = calls[i].what /\ calls'[i].deed = d
         /\ calls'[i].body = calls[i].body /\ calls'[i].phase = calls[i].phase
         /\ calls'[i].since = calls[i].since
<1> DEFINE c == [calls[i] EXCEPT !.deed = d]
<1>1. calls \in Seq(PageCalls) /\ calls[i] \in PageCalls
  BY DEF PageTypeOK
<1>3. calls' = [calls EXCEPT ![i] = c]
  BY DEF Deed
<1>4. /\ c \in PageCalls /\ c.kind = calls[i].kind /\ c.about = calls[i].about
      /\ c.what = calls[i].what /\ c.deed = d
      /\ c.body = calls[i].body /\ c.phase = calls[i].phase
      /\ c.since = calls[i].since
  BY <1>1 DEF PageCalls
<1> HIDE DEF c
<1> QED
  BY <1>1, <1>3, <1>4 DEF OtherCalls

LEMMA AnsweredEffect ==
  ASSUME PageTypeOK, NEW i \in DOMAIN calls, FleetAnswered(i)
  PROVE  /\ calls' \in Seq(PageCalls) /\ OtherCalls(i)
         /\ calls[i].phase = "refreshing" /\ calls[i].body = NoFleet
         /\ calls'[i].kind = calls[i].kind /\ calls'[i].about = calls[i].about
         /\ calls'[i].what = calls[i].what /\ calls'[i].deed = calls[i].deed
         /\ calls'[i].body = served /\ calls'[i].phase = calls[i].phase
         /\ calls'[i].since = calls[i].since
<1> DEFINE c == [calls[i] EXCEPT !.body = served]
<1>1. calls \in Seq(PageCalls) /\ calls[i] \in PageCalls /\ served \in Fleets
  BY DEF PageTypeOK
<1>3. calls' = [calls EXCEPT ![i] = c] /\ calls[i].phase = "refreshing"
      /\ calls[i].body = NoFleet
  BY DEF FleetAnswered
<1>4. /\ c \in PageCalls /\ c.kind = calls[i].kind /\ c.about = calls[i].about
      /\ c.what = calls[i].what /\ c.deed = calls[i].deed
      /\ c.body = served /\ c.phase = calls[i].phase
      /\ c.since = calls[i].since
  BY <1>1 DEF PageCalls
<1> HIDE DEF c
<1> QED
  BY <1>1, <1>3, <1>4 DEF OtherCalls

-----------------------------------------------------------------------------
(* How fleets change.                                                      *)

LEMMA WithoutIsAsking ==
  ASSUME NEW q \in Seq(Requests), NEW k \in DOMAIN q
  PROVE  Without(q, k) \in Seq(Requests)
<1>1. Len(q) \in Nat /\ k \in 1..Len(q) /\ \A j \in 1..Len(q) : q[j] \in Requests
  OBVIOUS
<1> DEFINE n == Len(q) - 1
<1>2. n \in Nat
  BY <1>1
<1>3. \A j \in 1..n : (IF j < k THEN q[j] ELSE q[j + 1]) \in Requests
  <2>1. TAKE j \in 1..n
  <2>2. j \in 1..Len(q) /\ j + 1 \in 1..Len(q)
    BY <1>1
  <2> QED
    BY <1>1, <2>2
<1> HIDE DEF n
<1>4. [j \in 1..n |-> IF j < k THEN q[j] ELSE q[j + 1]] \in Seq(Requests)
  BY <1>2, <1>3
<1> QED
  BY <1>4 DEF Without, n

LEMMA NeedIsShown ==
  ASSUME NEW q \in Seq(Requests)
  PROVE  NeedOf(q) \in Requests \union {NoRequest}
BY DEF NeedOf

\* The server publishes a fleet that is not older.
ServerGoesOn ==
  /\ served' \in Fleets /\ served.v <= served'.v
  /\ asking' \in Seq(Requests) /\ asked' \in SUBSET Requests
  /\ wire' = IF stream = "open" THEN Append(wire, served') ELSE wire

LEMMA PublishEffect ==
  ASSUME NEW f \in Fleets, served.v <= f.v, Publishes(f),
         asking' \in Seq(Requests), asked' \in SUBSET Requests
  PROVE  ServerGoesOn
BY DEF Publishes, ServerGoesOn

LEMMA ChangesEffect ==
  ASSUME PageTypeOK, OfficeChanges
  PROVE  ServerGoesOn
<1>1. /\ served \in Fleets /\ served.v \in Nat /\ asking \in Seq(Requests)
      /\ served.threads \in SUBSET Threads /\ served.need \in Requests \union {NoRequest}
      /\ asked \in SUBSET Requests
  BY DEF PageTypeOK, Fleets
<1>2. ASSUME NEW T \in SUBSET Threads,
             Publishes([served EXCEPT !.v = @ + 1, !.threads = T]),
             UNCHANGED <<asking, asked>>
      PROVE  ServerGoesOn
  <2> DEFINE v == served.v + 1
             f == [served EXCEPT !.v = v, !.threads = T]
  <2>1. v \in Nat /\ served.v <= v
    BY <1>1
  <2>2. Publishes(f)
    BY <1>2
  <2> HIDE DEF v
  <2>3. f \in Fleets /\ f.v = v
    BY <1>1, <2>1 DEF Fleets
  <2> HIDE DEF f
  <2> QED
    BY <1>1, <1>2, <2>1, <2>2, <2>3, PublishEffect
<1>3. ASSUME NEW r \in Requests \ asked,
             asking' = Append(asking, r), asked' = asked \union {r},
             Publishes([served EXCEPT !.v = @ + 1, !.need = r])
      PROVE  ServerGoesOn
  <2> DEFINE v == served.v + 1
             f == [served EXCEPT !.v = v, !.need = r]
  <2>1. v \in Nat /\ served.v <= v
    BY <1>1
  <2>2. Publishes(f)
    BY <1>3
  <2> HIDE DEF v
  <2>3. f \in Fleets /\ f.v = v
    BY <1>1, <2>1 DEF Fleets
  <2> HIDE DEF f
  <2> QED
    BY <1>1, <1>3, <2>1, <2>2, <2>3, PublishEffect
<1>4. ASSUME NEW i \in DOMAIN asking, asking' = Without(asking, i),
             Publishes([served EXCEPT !.v = @ + 1, !.need = NeedOf(asking')]),
             UNCHANGED asked
      PROVE  ServerGoesOn
  <2> DEFINE need == NeedOf(asking')
             v == served.v + 1
             f == [served EXCEPT !.v = v, !.need = need]
  <2>1. asking' \in Seq(Requests)
    BY <1>1, <1>4, WithoutIsAsking
  <2>2. need \in Requests \union {NoRequest}
    BY <2>1, NeedIsShown
  <2>3. Publishes(f) /\ v \in Nat /\ served.v <= v
    BY <1>1, <1>4
  <2> HIDE DEF need, v
  <2>4. f \in Fleets /\ f.v = v
    BY <1>1, <2>2, <2>3 DEF Fleets
  <2> HIDE DEF f
  <2> QED
    BY <1>1, <1>4, <2>1, <2>3, <2>4, PublishEffect
<1> QED
  BY <1>2, <1>3, <1>4 DEF OfficeChanges

LEMMA CarriesEffect ==
  ASSUME PageTypeOK, NEW i \in DOMAIN calls, Carries(i)
  PROVE  ServerGoesOn
<1>1. /\ served \in Fleets /\ served.v \in Nat /\ asking \in Seq(Requests)
      /\ served.threads \in SUBSET Threads /\ served.need \in Requests \union {NoRequest}
      /\ asked \in SUBSET Requests
  BY DEF PageTypeOK, Fleets
<1>2. CASE SendsReply(i)
  <2> DEFINE f == [served EXCEPT !.v = @ + 1]
  <2>1. f \in Fleets /\ served.v <= f.v
    BY <1>1 DEF Fleets
  <2> HIDE DEF f
  <2>2. Publishes(f) /\ asking' = asking /\ asked' = asked
    BY <1>2 DEF f, SendsReply
  <2> QED
    BY <1>1, <2>1, <2>2, PublishEffect
<1>3. CASE SendsAnswer(i)
  <2>1. PICK k \in DOMAIN asking :
          /\ asking' = Without(asking, k)
          /\ Publishes([served EXCEPT !.need = NeedOf(asking'),
                                      !.v = IF asking' = <<>> THEN @ + 1 ELSE @])
          /\ UNCHANGED asked
    BY <1>3 DEF SendsAnswer
  <2> DEFINE need == NeedOf(asking')
             v == IF asking' = <<>> THEN served.v + 1 ELSE served.v
             f == [served EXCEPT !.need = need, !.v = v]
  <2>2. asking' \in Seq(Requests)
    BY <1>1, <2>1, WithoutIsAsking
  <2>3. need \in Requests \union {NoRequest}
    BY <2>2, NeedIsShown
  <2>4. v \in Nat /\ served.v <= v
    BY <1>1
  <2>5. Publishes(f)
    BY <2>1
  <2> HIDE DEF need, v
  <2>6. f \in Fleets /\ served.v <= f.v
    BY <1>1, <2>3, <2>4 DEF Fleets
  <2> HIDE DEF f
  <2> QED
    BY <1>1, <2>1, <2>2, <2>5, <2>6, PublishEffect
<1> QED
  BY <1>2, <1>3 DEF Carries

LEMMA IngestEffect ==
  ASSUME PageTypeOK, NEW f \in Fleets, Ingest(f, composer)
  PROVE  /\ shown' \in Fleets /\ newest' \in Nat
         /\ openThread' \in Threads \union {None} /\ composer' \in Composers
         /\ shown' = f \/ (shown' = shown /\ f.v = shown.v)
         /\ \/ composer' = composer
            \/ /\ composer' = NoComposer
               /\ composer.thread = openThread /\ composer.thread \notin shown'.threads
<1>1. /\ shown \in Fleets /\ newest \in Nat /\ f.v \in Nat /\ composer \in Composers
      /\ openThread \in Threads \union {None}
      /\ NoComposer \in Composers
  BY DEF PageTypeOK, Fleets, NoComposer, Composers
<1>2. CASE SameToken(f, shown)
  BY <1>1, <1>2 DEF Ingest, SameToken
<1>3. CASE ~SameToken(f, shown)
  BY <1>1, <1>3 DEF Ingest, Drops
<1> QED
  BY <1>2, <1>3

-----------------------------------------------------------------------------
(* Types are kept.                                                         *)

LEMMA PageInit == OfficeInit => PageInv
<1> SUFFICES ASSUME OfficeInit PROVE PageInv
  OBVIOUS
<1> USE DEF OfficeInit
<1>1. <<>> \in Seq(Fleets) /\ <<>> \in Seq(Requests) /\ <<>> \in Seq(PageCalls)
  OBVIOUS
<1>2. served \in Fleets /\ served.v = 1 /\ shown \in Fleets /\ shown.v = 0
  BY DEF Fleets, NoFleet
<1>3. composer \in Composers /\ composer.draft = 0 /\ composer.pending = FALSE
  BY DEF Composers, NoComposer
<1>4. entered \in [Requests -> Inputs]
  BY DEF Inputs
<1>5. DOMAIN calls = {} /\ DOMAIN wire = {} /\ Len(calls) = 0
  OBVIOUS
<1>6. /\ wire \in Seq(Fleets) /\ asking \in Seq(Requests) /\ calls \in Seq(PageCalls)
      /\ openThread \in Threads \union {None}
  BY <1>1
<1>7. PageTypeOK
  BY <1>2, <1>3, <1>4, <1>6 DEF PageTypeOK
<1>8. CallsInOrder
  BY <1>3, <1>5 DEF CallsInOrder, Enterable
<1>9. FirstCallFirst
  BY <1>5 DEF FirstCallFirst
<1>10. BusyInOrder
  BY <1>5 DEF BusyInOrder
<1>11. SendingInOrder
  BY <1>3, <1>5 DEF SendingInOrder
<1>12. StreamInOrder
  BY <1>2, <1>5 DEF StreamInOrder
<1> QED
  BY <1>7, <1>8, <1>9, <1>10, <1>11, <1>12 DEF PageInv

\* A composer that is opened, edited, sent or blamed remains one.
LEMMA ComposersChange ==
  ASSUME PageTypeOK
  PROVE  /\ NoComposer \in Composers
         /\ \A t \in Threads : Reopened(t) \in Composers
         /\ \A n \in Nat : [composer EXCEPT !.draft = n, !.error = FALSE,
                                            !.again = FALSE] \in Composers
         /\ [composer EXCEPT !.error = TRUE] \in Composers
         /\ [composer EXCEPT !.pending = TRUE, !.error = FALSE] \in Composers
         /\ Blamed(composer) \in Composers
<1>1. composer \in Composers /\ composer.again \in BOOLEAN
      /\ composer.pending \in BOOLEAN /\ composer.error \in BOOLEAN
  BY DEF PageTypeOK, Composers
<1>2. NoComposer \in Composers
  BY DEF NoComposer, Composers
<1>3. ASSUME NEW t \in Threads PROVE Reopened(t) \in Composers
  <2> DEFINE again == composer.again \/ composer.pending \/ composer.error
  <2>1. again \in BOOLEAN
    OBVIOUS
  <2>2. Reopened(t) = IF composer.thread = t
                      THEN [composer EXCEPT !.pending = FALSE, !.error = FALSE,
                                            !.again = again]
                      ELSE [NoComposer EXCEPT !.thread = t]
    BY DEF Reopened
  <2> HIDE DEF again
  <2>3. [composer EXCEPT !.pending = FALSE, !.error = FALSE, !.again = again] \in Composers
    BY <1>1, <2>1 DEF Composers
  <2>4. [NoComposer EXCEPT !.thread = t] \in Composers
    BY <1>2 DEF Composers
  <2> QED
    BY <2>2, <2>3, <2>4
<1>4. ASSUME NEW n \in Nat
      PROVE  [composer EXCEPT !.draft = n, !.error = FALSE, !.again = FALSE] \in Composers
  BY <1>1 DEF Composers
<1>5. /\ [composer EXCEPT !.error = TRUE] \in Composers
      /\ [composer EXCEPT !.pending = TRUE, !.error = FALSE] \in Composers
  BY <1>1 DEF Composers
<1>6. Blamed(composer) \in Composers
  BY <1>1 DEF Composers, Blamed
<1> QED
  BY <1>2, <1>3, <1>4, <1>5, <1>6

\* Nothing but the page itself and its calls change.
LEMMA ServerSteps ==
  ASSUME PageTypeOK, ServerGoesOn, stream' \in {"none", "connecting", "open", "broken"}
  PROVE  /\ served' \in Fleets /\ served'.v # 0
         /\ asking' \in Seq(Requests) /\ asked' \in SUBSET Requests
         /\ wire' \in Seq(Fleets)
<1>1. wire' \in Seq(Fleets)
  BY DEF PageTypeOK, ServerGoesOn
<1>2. served.v \in Nat /\ served'.v \in Nat /\ served.v # 0
  BY DEF PageTypeOK, ServerGoesOn, Fleets
<1> QED
  BY <1>1, <1>2 DEF PageTypeOK, ServerGoesOn

\* How a call goes on.
GoesOn(c, d) ==
  /\ d.kind = c.kind /\ d.about = c.about /\ d.what = c.what
  /\ d.phase = c.phase \/ (c.phase # "over" /\ d.phase # "posted")
  /\ d.since = IF d.phase = "refreshing" /\ c.phase # "refreshing"
               THEN shown.v ELSE c.since
  /\ d.body = c.body \/ (/\ c.body = NoFleet /\ d.body = served
                         /\ c.phase = "refreshing" /\ d.since = c.since)
  /\ c.body # NoFleet => d.body = c.body /\ d.since = c.since
  /\ d.deed = c.deed \/ d.deed # "refused" \/ (c.deed = "due" /\ c.kind = "need" =>
                           \/ ~Taken(c.about, c.what)
                           \/ \A k \in DOMAIN asking : asking[k] # c.about)
CallsGoOn ==
  /\ calls' \in Seq(PageCalls)
  /\ DOMAIN calls \subseteq DOMAIN calls'
  /\ \A i \in DOMAIN calls : GoesOn(calls[i], calls'[i])

\* What a new call is: the first one, a reply or an answer.
IsFirst(c) == OpensPage /\ c.kind = "open" /\ c.phase = "refreshing"
IsReply(c) ==
  /\ Submits /\ composer.draft # 0 /\ composer'.pending
  /\ c.kind = "reply" /\ c.phase = "posted"
  /\ c.about = composer.thread /\ c.what = composer.draft
IsAnswer(c) ==
  /\ Answers /\ c.kind = "need" /\ c.phase = "posted" /\ c.about = shown.need
  /\ c.about \in Requests
  /\ Taken(c.about, c.what) \/ c.about.options = "empty"
IsNew(c) ==
  /\ c.body = NoFleet /\ c.since = newest
  /\ IsFirst(c) \/ IsReply(c) \/ IsAnswer(c)
NewCalls ==
  \A i \in DOMAIN calls' \ DOMAIN calls : i = Len(calls) + 1 /\ IsNew(calls'[i])

LEMMA SameCallsGoOn ==
  ASSUME PageTypeOK, calls' = calls
  PROVE  CallsGoOn /\ NewCalls
BY DEF PageTypeOK, CallsGoOn, GoesOn, NewCalls

LEMMA NewCallGoesOn ==
  ASSUME PageTypeOK, NEW kind \in {"open", "reply", "need"},
         NEW about \in Threads \union Requests \union {None},
         NEW what \in Nat \union Inputs \union Decisions,
         NEW phase \in {"posted", "refreshing"},
         calls' = Append(calls, Call(kind, about, what, phase))
  PROVE  LET c == calls'[Len(calls) + 1] IN
         /\ CallsGoOn
         /\ \A i \in DOMAIN calls' \ DOMAIN calls : i = Len(calls) + 1
         /\ c.kind = kind /\ c.about = about /\ c.what = what /\ c.phase = phase
         /\ c.body = NoFleet /\ c.since = newest
<1> DEFINE c == calls'[Len(calls) + 1]
<1>0. /\ c.kind = kind /\ c.about = about /\ c.what = what /\ c.phase = phase
      /\ c.body = NoFleet /\ c.since = newest
  BY CallIsMade
<1>1. /\ calls' \in Seq(PageCalls) /\ DOMAIN calls = 1..Len(calls)
      /\ DOMAIN calls' = 1..(Len(calls) + 1) /\ Len(calls) \in Nat
      /\ \A i \in 1..Len(calls) : calls'[i] = calls[i]
  BY CallIsMade
<1>2. DOMAIN calls \subseteq DOMAIN calls'
      /\ \A i \in DOMAIN calls' \ DOMAIN calls : i = Len(calls) + 1
  BY <1>1
<1>3. CallsGoOn
  BY <1>1, <1>2 DEF CallsGoOn, GoesOn
<1> HIDE DEF c
<1> QED
  BY <1>0, <1>2, <1>3 DEF c

LEMMA OneCallGoesOn ==
  ASSUME PageTypeOK, NEW i \in DOMAIN calls, OtherCalls(i),
         calls' \in Seq(PageCalls), GoesOn(calls[i], calls'[i])
  PROVE  CallsGoOn /\ NewCalls
<1>1. \A j \in DOMAIN calls : GoesOn(calls[j], calls'[j])
  <2>1. SUFFICES ASSUME NEW j \in DOMAIN calls, j # i
                 PROVE  GoesOn(calls[j], calls'[j])
    OBVIOUS
  <2>2. calls'[j] = calls[j]
    BY <2>1 DEF OtherCalls
  <2> QED
    BY <2>2 DEF GoesOn
<1> QED
  BY <1>1 DEF CallsGoOn, OtherCalls, NewCalls

LEMMA PhaseGoesOn ==
  ASSUME PageTypeOK, NEW i \in DOMAIN calls, NEW p \in {"refreshing", "over"},
         Phase(i, p), calls[i].phase = "posted" \/ p = "over",
         calls[i].phase # "over", calls[i].body # NoFleet => calls[i].phase # "posted"
  PROVE  CallsGoOn /\ NewCalls
<1>1. /\ calls' \in Seq(PageCalls) /\ OtherCalls(i)
      /\ calls'[i].kind = calls[i].kind /\ calls'[i].about = calls[i].about
      /\ calls'[i].what = calls[i].what /\ calls'[i].deed = calls[i].deed
      /\ calls'[i].body = calls[i].body /\ calls'[i].phase = p
      /\ calls'[i].since = IF p = "refreshing" THEN shown.v ELSE calls[i].since
  BY PhaseEffect
<1>2. GoesOn(calls[i], calls'[i])
  BY <1>1 DEF GoesOn
<1> QED
  BY <1>1, <1>2, OneCallGoesOn

\* The answer that the user may send is one that the request takes, but for a
\* request that lists no options and asks for a text.
LEMMA SendableIsTaken ==
  ASSUME NEW r \in Requests, NEW answer \in Sendable(r),
         entered[r] \in Enterable(r) \union {None}
  PROVE  /\ answer \in Inputs \union Decisions
         /\ Taken(r, answer) \/ r.options = "empty"
<1>1. r.kind \in {"approval", "input"} /\ r.options \in {None, "some", "empty"}
  BY OfficeShape
<1>2. CASE r.kind = "approval"
  <2>1. answer \in DecisionsOffered(r)
    BY <1>2 DEF Sendable
  <2>2. CASE r.from = "claude"
    BY <1>2, <2>1, <2>2 DEF DecisionsOffered, DecisionsTaken, Taken, Decisions
  <2>3. CASE r.from = "permissions"
    BY <1>2, <2>1, <2>3 DEF DecisionsOffered, DecisionsTaken, Taken, Decisions
  <2>4. CASE r.from # "claude" /\ r.from # "permissions"
    BY <1>2, <2>1, <2>4 DEF DecisionsOffered, DecisionsTaken, Taken, Decisions
  <2> QED
    BY <2>2, <2>3, <2>4
<1>3. CASE r.kind = "input"
  <2>1. answer = entered[r] /\ Complete(r)
    BY <1>3 DEF Sendable
  <2>2. answer \in {None, "option", "text"}
    BY <2>1 DEF Enterable
  <2>3. CASE answer = None
    BY <1>3, <2>1, <2>3 DEF Complete, Taken, None, Inputs
  <2>4. CASE answer = "option"
    BY <1>3, <2>4 DEF Taken, None, Inputs
  <2>5. CASE answer = "text"
    <3>1. r.options = "some" => r.other
      BY <2>1, <2>5 DEF Enterable, None
    <3>2. Taken(r, answer) <=> (r.from = "claude" \/ r.options = None \/ r.other)
      BY <1>3, <2>5 DEF Taken, None
    <3> QED
      BY <1>1, <2>5, <3>1, <3>2 DEF Inputs
  <2> QED
    BY <2>2, <2>3, <2>4, <2>5
<1> QED
  BY <1>1, <1>2, <1>3

LEMMA NeedIsRequest ==
  ASSUME PageTypeOK, shown.need # NoRequest
  PROVE  shown.need \in Requests
BY DEF PageTypeOK, Fleets

\* Types and the order of calls, for each thing the user does.
TypesAndCalls == PageTypeOK' /\ CallsGoOn /\ NewCalls

LEMMA UserTypes ==
  ASSUME PageTypeOK, CallsInOrder, UserActs
  PROVE  TypesAndCalls
<1> USE DEF PageTypeOK, serverVars, streamVars
<1>1. ASSUME NEW t \in Threads, OpensComposer(t) PROVE TypesAndCalls
  <2>1. composer' \in Composers
    BY <1>1, ComposersChange DEF OpensComposer
  <2> QED
    BY <1>1, <2>1, SameCallsGoOn DEF OpensComposer, TypesAndCalls
<1>2. ASSUME NEW t \in Threads, OpensThread(t) PROVE TypesAndCalls
  BY <1>2, SameCallsGoOn DEF OpensThread, TypesAndCalls
<1>3. CASE Types
  <2>1. texts + 1 \in Nat
    OBVIOUS
  <2>2. composer' \in Composers
    BY <1>3, <2>1, ComposersChange DEF Types
  <2> QED
    BY <1>3, <2>1, <2>2, SameCallsGoOn DEF Types, TypesAndCalls
<1>4. CASE Cancels
  <2>1. composer' \in Composers
    BY <1>4, ComposersChange DEF Cancels
  <2> QED
    BY <1>4, <2>1, SameCallsGoOn DEF Cancels, TypesAndCalls
<1>5. CASE ClosesThread
  <2>1. composer' \in Composers
    BY <1>5, ComposersChange DEF ClosesThread
  <2> QED
    BY <1>5, <2>1, SameCallsGoOn DEF ClosesThread, TypesAndCalls
<1>6. CASE Submits
  <2>1. composer' \in Composers
    BY <1>6, ComposersChange DEF Submits
  <2>2. CASE composer.draft = 0
    BY <1>6, <2>1, <2>2, SameCallsGoOn DEF Submits, TypesAndCalls
  <2>3. CASE composer.draft # 0
    <3>1. composer.thread \in Threads \union Requests \union {None}
          /\ composer.draft \in Nat \union Inputs \union Decisions
      BY DEF Composers
    <3>2. calls' = Append(calls, Call("reply", composer.thread, composer.draft, "posted"))
      BY <1>6, <2>3 DEF Submits
    <3> DEFINE c == calls'[Len(calls) + 1]
    <3>3. /\ CallsGoOn
          /\ \A i \in DOMAIN calls' \ DOMAIN calls : i = Len(calls) + 1
          /\ c.kind = "reply" /\ c.about = composer.thread /\ c.what = composer.draft
          /\ c.phase = "posted" /\ c.body = NoFleet /\ c.since = newest
      BY <3>1, <3>2, NewCallGoesOn
    <3>4. composer'.pending
      BY <1>6, <2>3 DEF Submits, Composers
    <3> HIDE DEF c
    <3>5. IsNew(c)
      BY <1>6, <2>3, <3>3, <3>4 DEF IsNew, IsReply
    <3>6. NewCalls
      BY <3>3, <3>5 DEF NewCalls, c
    <3> QED
      BY <1>6, <2>1, <3>3, <3>6 DEF Submits, TypesAndCalls, CallsGoOn
  <2> QED
    BY <2>2, <2>3
<1>7. CASE Enters
  <2>1. PICK e \in Enterable(shown.need) : entered' = [entered EXCEPT ![shown.need] = e]
    BY <1>7 DEF Enters
  <2>2. e \in Inputs
    BY <2>1 DEF Enterable, Inputs
  <2>3. entered' \in [Requests -> Inputs]
    BY <2>1, <2>2
  <2> QED
    BY <1>7, <2>3, SameCallsGoOn DEF Enters, TypesAndCalls
<1>8. CASE Answers
  <2>1. shown.need \in Requests
    BY <1>8, NeedIsRequest DEF Answers
  <2>2. PICK answer \in Sendable(shown.need) :
          calls' = Append(calls, Call("need", shown.need, answer, "posted"))
    BY <1>8 DEF Answers
  <2>3. entered[shown.need] \in Enterable(shown.need) \union {None}
    BY <2>1 DEF CallsInOrder
  <2>4. /\ answer \in Inputs \union Decisions
        /\ Taken(shown.need, answer) \/ shown.need.options = "empty"
    BY <2>1, <2>2, <2>3, SendableIsTaken
  <2>5. shown.need \in Threads \union Requests \union {None}
        /\ answer \in Nat \union Inputs \union Decisions
    BY <2>1, <2>4
  <2> DEFINE c == calls'[Len(calls) + 1]
  <2>6. /\ CallsGoOn
        /\ \A i \in DOMAIN calls' \ DOMAIN calls : i = Len(calls) + 1
        /\ c.kind = "need" /\ c.about = shown.need /\ c.what = answer
        /\ c.phase = "posted" /\ c.body = NoFleet /\ c.since = newest
    BY <2>2, <2>5, NewCallGoesOn
  <2> HIDE DEF c
  <2>7. IsNew(c)
    BY <1>8, <2>1, <2>4, <2>6 DEF IsNew, IsAnswer
  <2>8. NewCalls
    BY <2>6, <2>7 DEF NewCalls, c
  <2> QED
    BY <1>8, <2>1, <2>6, <2>8 DEF Answers, TypesAndCalls, CallsGoOn
<1> QED
  BY <1>1, <1>2, <1>3, <1>4, <1>5, <1>6, <1>7, <1>8 DEF UserActs

LEMMA StreamTypes ==
  ASSUME PageTypeOK, StreamOpens \/ StreamBreaks \/ StreamDelivers
  PROVE  TypesAndCalls
<1> USE DEF PageTypeOK, serverVars, pageVars
<1>1. CASE StreamOpens
  <2>1. wire' \in Seq(Fleets)
    BY <1>1 DEF StreamOpens
  <2> QED
    BY <1>1, <2>1, SameCallsGoOn DEF StreamOpens, TypesAndCalls
<1>2. CASE StreamBreaks
  <2>1. <<>> \in Seq(Fleets)
    OBVIOUS
  <2> QED
    BY <1>2, <2>1, SameCallsGoOn DEF StreamBreaks, TypesAndCalls
<1>3. CASE StreamDelivers
  <2>1. Head(wire) \in Fleets /\ Tail(wire) \in Seq(Fleets)
    BY <1>3 DEF StreamDelivers
  <2>2. Ingest(Head(wire), composer)
    BY <1>3 DEF StreamDelivers
  <2>3. shown' \in Fleets /\ newest' \in Nat
        /\ openThread' \in Threads \union {None} /\ composer' \in Composers
    <3> DEFINE f == Head(wire)
    <3>1. f \in Fleets /\ Ingest(f, composer)
      BY <2>1, <2>2
    <3> HIDE DEF f
    <3> QED
      BY <3>1, IngestEffect
  <2> QED
    BY <1>3, <2>1, <2>3, SameCallsGoOn DEF StreamDelivers, TypesAndCalls
<1> QED
  BY <1>1, <1>2, <1>3

LEMMA ServerTypes ==
  ASSUME PageTypeOK, CallsInOrder, NEW i \in DOMAIN calls,
         Carries(i) \/ Refuses(i) \/ FleetAnswered(i)
  PROVE  TypesAndCalls
<1> USE DEF pageVars, serverVars, streamVars
<1>1. CASE Carries(i)
  <2>1. PICK d \in {"done", "botched"} : Deed(i, d)
    BY <1>1 DEF Carries
  <2>2. /\ calls' \in Seq(PageCalls) /\ OtherCalls(i)
        /\ calls'[i].kind = calls[i].kind /\ calls'[i].about = calls[i].about
        /\ calls'[i].what = calls[i].what /\ calls'[i].deed = d
        /\ calls'[i].body = calls[i].body /\ calls'[i].phase = calls[i].phase
        /\ calls'[i].since = calls[i].since
    BY <2>1, DeedEffect
  <2>3. GoesOn(calls[i], calls'[i])
    BY <2>2 DEF GoesOn
  <2>4. CallsGoOn /\ NewCalls
    BY <2>2, <2>3, OneCallGoesOn
  <2>5. ServerGoesOn /\ stream' = stream
    BY <1>1, CarriesEffect DEF Carries
  <2>6. /\ served' \in Fleets /\ served'.v # 0
        /\ asking' \in Seq(Requests) /\ asked' \in SUBSET Requests
        /\ wire' \in Seq(Fleets)
    BY <2>5, ServerSteps DEF PageTypeOK
  <2> QED
    BY <1>1, <2>2, <2>4, <2>6 DEF Carries, TypesAndCalls, PageTypeOK
<1>2. CASE Refuses(i)
  <2>1. Deed(i, "refused") /\ calls[i].deed = "due"
    BY <1>2 DEF Refuses
  <2>2. /\ calls' \in Seq(PageCalls) /\ OtherCalls(i)
        /\ calls'[i].kind = calls[i].kind /\ calls'[i].about = calls[i].about
        /\ calls'[i].what = calls[i].what /\ calls'[i].deed = "refused"
        /\ calls'[i].body = calls[i].body /\ calls'[i].phase = calls[i].phase
        /\ calls'[i].since = calls[i].since
    BY <2>1, DeedEffect
  <2>3. calls[i].kind = "need" =>
          \/ ~Taken(calls[i].about, calls[i].what)
          \/ \A k \in DOMAIN asking : asking[k] # calls[i].about
    BY <1>2 DEF Refuses
  <2>4. GoesOn(calls[i], calls'[i])
    BY <2>1, <2>2, <2>3 DEF GoesOn
  <2>5. CallsGoOn /\ NewCalls
    BY <2>2, <2>4, OneCallGoesOn
  <2> QED
    BY <1>2, <2>2, <2>5 DEF Refuses, TypesAndCalls, PageTypeOK
<1>3. CASE FleetAnswered(i)
  <2>1. /\ calls' \in Seq(PageCalls) /\ OtherCalls(i)
        /\ calls[i].body = NoFleet /\ calls[i].phase = "refreshing"
        /\ calls'[i].body = served /\ calls'[i].since = calls[i].since
        /\ calls'[i].kind = calls[i].kind /\ calls'[i].about = calls[i].about
        /\ calls'[i].what = calls[i].what /\ calls'[i].deed = calls[i].deed
        /\ calls'[i].phase = calls[i].phase
    BY <1>3, AnsweredEffect
  <2>2. GoesOn(calls[i], calls'[i])
    BY <2>1 DEF GoesOn
  <2>3. CallsGoOn /\ NewCalls
    BY <2>1, <2>2, OneCallGoesOn
  <2> QED
    BY <1>3, <2>1, <2>3 DEF FleetAnswered, TypesAndCalls, PageTypeOK
<1> QED
  BY <1>1, <1>2, <1>3

\* What the failure of a call changes.
LEMMA FailsEffect ==
  ASSUME PageTypeOK, CallsInOrder, NEW i \in DOMAIN calls, Fails(i)
  PROVE  /\ composer' = composer \/ (calls[i].kind = "reply" /\ composer' = Blamed(composer))
         /\ calls[i].kind = "reply" => composer' = Blamed(composer)
         /\ busy' = (IF calls[i].kind = "need" THEN busy \ {calls[i].about} ELSE busy)
         /\ failed' \in SUBSET Requests
<1>0. calls[i] \in PageCalls
  BY DEF PageTypeOK
<1>1. calls[i].kind \in {"open", "reply", "need"} /\ failed \in SUBSET Requests
  BY <1>0 DEF PageTypeOK, PageCalls
<1>2. calls[i].kind = "need" => calls[i].about \in Requests
  BY DEF CallsInOrder, CallInOrder
<1>3. CASE calls[i].kind = "reply"
  BY <1>1, <1>3 DEF Fails
<1>4. CASE calls[i].kind = "need"
  BY <1>1, <1>2, <1>4 DEF Fails
<1>5. CASE calls[i].kind = "open"
  BY <1>1, <1>5 DEF Fails
<1> QED
  BY <1>1, <1>3, <1>4, <1>5

LEMMA PageTypes ==
  ASSUME PageTypeOK, CallsInOrder, NEW i \in DOMAIN calls, PageGoesOn(i)
  PROVE  TypesAndCalls
<1> USE DEF pageVars, serverVars, streamVars
<1>0. calls[i].body # NoFleet => calls[i].phase # "posted"
  BY DEF CallsInOrder, CallInOrder
<1>a. ASSUME NEW p \in {"refreshing", "over"}, Phase(i, p),
             calls[i].phase = "posted" \/ (calls[i].phase = "refreshing" /\ p = "over")
      PROVE  calls' \in Seq(PageCalls) /\ CallsGoOn /\ NewCalls
  <2>1. CallsGoOn /\ NewCalls
    BY <1>0, <1>a, PhaseGoesOn
  <2> QED
    BY <2>1 DEF CallsGoOn
<1>1. CASE PostSucceeds(i)
  <2>1. calls[i].phase = "posted" /\ Phase(i, "refreshing")
    BY <1>1 DEF PostSucceeds
  <2>2. calls' \in Seq(PageCalls) /\ CallsGoOn /\ NewCalls
    BY <1>a, <2>1
  <2>3. composer' \in Composers /\ openThread' \in Threads \union {None}
    BY <1>1, ComposersChange DEF PostSucceeds, PageTypeOK
  <2>4. failed' \in SUBSET Requests
    BY <1>1 DEF PostSucceeds, PageTypeOK
  <2>5. entered' \in [Requests -> Inputs]
    <3>1. None \in Inputs /\ entered \in [Requests -> Inputs]
      BY DEF Inputs, PageTypeOK
    <3> QED
      BY <1>1, <3>1 DEF PostSucceeds
  <2> QED
    BY <1>1, <2>2, <2>3, <2>4, <2>5 DEF PostSucceeds, TypesAndCalls, PageTypeOK
<1>2. CASE PostFails(i) \/ RefreshFails(i)
  <2>1. Fails(i) /\ calls[i].phase \in {"posted", "refreshing"} /\ Phase(i, "over")
    BY <1>2 DEF PostFails, RefreshFails, Fails
  <2>2. calls' \in Seq(PageCalls) /\ CallsGoOn /\ NewCalls
    BY <1>a, <2>1
  <2>3. /\ composer' = composer \/ (calls[i].kind = "reply" /\ composer' = Blamed(composer))
        /\ busy' = (IF calls[i].kind = "need" THEN busy \ {calls[i].about} ELSE busy)
        /\ failed' \in SUBSET Requests
    BY <2>1, FailsEffect
  <2>4. composer' \in Composers
    BY <2>3, ComposersChange DEF PageTypeOK
  <2> QED
    BY <2>1, <2>2, <2>3, <2>4 DEF Fails, TypesAndCalls, PageTypeOK
<1>3. CASE RefreshArrives(i)
  <2>1. calls[i].phase = "refreshing" /\ Phase(i, "over")
    BY <1>3 DEF RefreshArrives
  <2>2. calls' \in Seq(PageCalls) /\ CallsGoOn /\ NewCalls
    BY <1>a, <2>1
  <2>3. /\ shown' \in Fleets /\ newest' \in Nat
        /\ openThread' \in Threads \union {None} /\ composer' \in Composers
    <3> DEFINE f == calls[i].body
    <3>0. calls[i] \in PageCalls
      BY DEF PageTypeOK
    <3>1. f \in Fleets
      BY <3>0 DEF PageCalls
    <3>2. Ingest(f, composer)
      BY <1>3 DEF RefreshArrives
    <3> HIDE DEF f
    <3> QED
      BY <3>1, <3>2, IngestEffect
  <2> QED
    BY <1>3, <2>2, <2>3 DEF RefreshArrives, TypesAndCalls, PageTypeOK
<1> QED
  BY <1>1, <1>2, <1>3 DEF PageGoesOn

\* Every step keeps the types, and lets every call go on.
LEMMA PageTypeStep ==
  ASSUME PageTypeOK, CallsInOrder, [OfficeNext]_officeVars
  PROVE  TypesAndCalls
<1>1. CASE OpensPage
  <2>1. DOMAIN calls = {} /\ calls' = Append(calls, Call("open", None, None, "refreshing"))
    BY <1>1 DEF OpensPage
  <2>2. None \in Threads \union Requests \union {None}
        /\ None \in Nat \union Inputs \union Decisions
    BY DEF Inputs
  <2> DEFINE c == calls'[Len(calls) + 1]
  <2>3. /\ CallsGoOn
        /\ \A i \in DOMAIN calls' \ DOMAIN calls : i = Len(calls) + 1
        /\ c.kind = "open" /\ c.phase = "refreshing"
        /\ c.body = NoFleet /\ c.since = newest
    BY <2>1, <2>2, NewCallGoesOn
  <2> HIDE DEF c
  <2>4. IsNew(c)
    BY <1>1, <2>3 DEF IsNew, IsFirst
  <2>5. NewCalls
    BY <2>3, <2>4 DEF NewCalls, c
  <2> QED
    BY <1>1, <2>3, <2>5 DEF OpensPage, TypesAndCalls, CallsGoOn, PageTypeOK, pageVars,
                      serverVars, streamVars
<1>2. CASE OfficeChanges
  <2>1. ServerGoesOn /\ stream' = stream
    BY <1>2, ChangesEffect DEF OfficeChanges
  <2>2. /\ served' \in Fleets /\ served'.v # 0
        /\ asking' \in Seq(Requests) /\ asked' \in SUBSET Requests
        /\ wire' \in Seq(Fleets)
    BY <2>1, ServerSteps DEF PageTypeOK
  <2> QED
    BY <1>2, <2>2, SameCallsGoOn DEF OfficeChanges, TypesAndCalls, PageTypeOK, pageVars
<1>3. CASE UNCHANGED officeVars
  <2>1. /\ served' = served /\ asking' = asking /\ asked' = asked /\ stream' = stream
        /\ wire' = wire /\ shown' = shown /\ newest' = newest /\ openThread' = openThread
        /\ composer' = composer /\ entered' = entered /\ busy' = busy
        /\ failed' = failed /\ calls' = calls /\ texts' = texts
    BY <1>3 DEF officeVars, serverVars, streamVars, pageVars
  <2> QED
    BY <2>1, SameCallsGoOn DEF TypesAndCalls, PageTypeOK
<1> QED
  BY <1>1, <1>2, <1>3, UserTypes, StreamTypes, ServerTypes, PageTypes DEF OfficeNext

-----------------------------------------------------------------------------
(* Calls remain what they are.                                             *)

\* Texts are only added, and a draft is among them.
LEMMA TextsGrow ==
  ASSUME PageTypeOK, CallsInOrder, [OfficeNext]_officeVars
  PROVE  /\ texts \in Nat /\ texts' \in Nat /\ texts <= texts'
         /\ composer'.draft <= texts'
<1> USE DEF pageVars, serverVars, streamVars, officeVars
<1>0. composer \in Composers /\ composer.draft \in Nat /\ texts \in Nat
      /\ composer.draft <= texts
  BY DEF PageTypeOK, CallsInOrder, Composers
<1>1. NoComposer.draft = 0 /\ Blamed(composer).draft = composer.draft
  BY <1>0 DEF NoComposer, Blamed, Composers
<1>2. ASSUME texts' = texts,
             composer' = composer \/ composer' = NoComposer \/ composer' = Blamed(composer)
      PROVE  /\ texts' \in Nat /\ texts <= texts' /\ composer'.draft <= texts'
  BY <1>0, <1>1, <1>2
<1>3. ASSUME NEW t \in Threads, OpensComposer(t)
      PROVE  texts' = texts /\ composer'.draft \in {0, composer.draft}
  <2>1. texts' = texts /\ composer' = Reopened(t)
    BY <1>3 DEF OpensComposer
  <2>2. Reopened(t).draft \in {0, composer.draft}
    BY <1>0 DEF Reopened, NoComposer, Composers
  <2> QED
    BY <2>1, <2>2
<1>4. CASE Types
  <2>1. texts' = texts + 1 /\ composer' = [composer EXCEPT !.draft = texts + 1,
                                             !.error = FALSE, !.again = FALSE]
    BY <1>4 DEF Types
  <2>2. composer'.draft = texts + 1
    BY <1>0, <2>1 DEF Composers
  <2> QED
    BY <1>0, <2>1, <2>2
<1>5. CASE Submits
  <2>1. texts' = texts /\ composer'.draft = composer.draft
    BY <1>0, <1>5 DEF Submits, Composers
  <2> QED
    BY <1>0, <2>1
<1>6. CASE UserActs
  <2>1. CASE \E t \in Threads : OpensComposer(t)
    BY <1>0, <1>3, <2>1
  <2>2. CASE \/ \E t \in Threads : OpensThread(t)
             \/ Cancels \/ ClosesThread \/ Enters \/ Answers
    BY <1>2, <2>2 DEF OpensThread, Cancels, ClosesThread, Enters, Answers
  <2> QED
    BY <1>4, <1>5, <1>6, <2>1, <2>2 DEF UserActs
<1>7. ASSUME NEW i \in DOMAIN calls, PageGoesOn(i)
      PROVE  /\ texts' = texts
             /\ composer' = composer \/ composer' = NoComposer \/ composer' = Blamed(composer)
  <2>1. CASE PostSucceeds(i)
    BY <2>1 DEF PostSucceeds
  <2>2. CASE PostFails(i) \/ RefreshFails(i)
    <3>1. Fails(i)
      BY <2>2 DEF PostFails, RefreshFails
    <3> QED
      BY <3>1, FailsEffect DEF Fails
  <2>3. CASE RefreshArrives(i)
    BY <2>3 DEF RefreshArrives, Ingest
  <2> QED
    BY <1>7, <2>1, <2>2, <2>3 DEF PageGoesOn
<1>8. ASSUME NEW i \in DOMAIN calls, Carries(i) \/ Refuses(i) \/ FleetAnswered(i)
      PROVE  texts' = texts /\ composer' = composer
  BY <1>8 DEF Carries, Refuses, FleetAnswered
<1>9. CASE OpensPage \/ OfficeChanges \/ StreamOpens \/ StreamBreaks \/ UNCHANGED officeVars
  BY <1>2, <1>9 DEF OpensPage, OfficeChanges, StreamOpens, StreamBreaks
<1>10. CASE StreamDelivers
  BY <1>2, <1>10 DEF StreamDelivers, Ingest
<1> QED
  BY <1>0, <1>2, <1>6, <1>7, <1>8, <1>9, <1>10 DEF OfficeNext

LEMMA EnteredIsEnterable ==
  ASSUME PageTypeOK, CallsInOrder, [OfficeNext]_officeVars
  PROVE  \A r \in Requests : entered'[r] \in Enterable(r) \union {None}
<1> USE DEF pageVars, serverVars, streamVars, officeVars
<1>0. /\ entered \in [Requests -> Inputs]
      /\ \A r \in Requests : entered[r] \in Enterable(r) \union {None}
  BY DEF PageTypeOK, CallsInOrder
<1>1. CASE entered' = entered
  BY <1>0, <1>1
<1>2. CASE Enters
  <2>1. shown.need \in Requests
    BY <1>2, NeedIsRequest DEF Enters
  <2>2. PICK e \in Enterable(shown.need) : entered' = [entered EXCEPT ![shown.need] = e]
    BY <1>2 DEF Enters
  <2> QED
    BY <1>0, <2>1, <2>2
<1>3. ASSUME NEW i \in DOMAIN calls, PostSucceeds(i)
      PROVE  \A r \in Requests : entered'[r] \in Enterable(r) \union {None}
  BY <1>0, <1>3 DEF PostSucceeds
<1>4. ASSUME NEW i \in DOMAIN calls, PageGoesOn(i), ~PostSucceeds(i)
      PROVE  entered' = entered
  BY <1>4 DEF PageGoesOn, PostFails, RefreshFails, RefreshArrives, Fails
<1>5. ASSUME NEW i \in DOMAIN calls, Carries(i) \/ Refuses(i) \/ FleetAnswered(i)
      PROVE  entered' = entered
  BY <1>5 DEF Carries, Refuses, FleetAnswered
<1>6. CASE \/ OpensPage \/ OfficeChanges \/ StreamOpens \/ StreamBreaks
           \/ StreamDelivers \/ UNCHANGED officeVars
  BY <1>1, <1>6 DEF OpensPage, OfficeChanges, StreamOpens, StreamBreaks, StreamDelivers
<1>7. CASE UserActs /\ ~Enters
  BY <1>1, <1>7 DEF UserActs, OpensComposer, OpensThread, Types, Cancels, ClosesThread,
                    Submits, Answers
<1> QED
  BY <1>1, <1>2, <1>3, <1>4, <1>5, <1>6, <1>7 DEF OfficeNext

LEMMA CallsStep ==
  ASSUME PageTypeOK, CallsInOrder, [OfficeNext]_officeVars
  PROVE  CallsInOrder'
<1>1. PageTypeOK' /\ CallsGoOn /\ NewCalls
  BY PageTypeStep DEF TypesAndCalls
<1>2. /\ texts \in Nat /\ texts' \in Nat /\ texts <= texts' /\ composer'.draft <= texts'
  BY TextsGrow
<1>3. ASSUME NEW i \in DOMAIN calls PROVE CallInOrder(calls'[i], texts')
  <2> DEFINE c == calls[i]
             d == calls'[i]
  <2>1. CallInOrder(c, texts) /\ GoesOn(c, d)
    BY <1>1 DEF CallsInOrder, CallsGoOn
  <2> HIDE DEF c, d
  <2>2. d.kind = "reply" => d.about \in Threads /\ d.what \in 1..texts'
    <3>1. d.kind = "reply" => d.about \in Threads /\ d.what \in 1..texts
      BY <2>1 DEF CallInOrder, GoesOn
    <3> QED
      BY <1>2, <3>1
  <2>3. /\ d.kind = "open" => d.phase # "posted"
        /\ d.kind = "need" => /\ d.about \in Requests
                              /\ Taken(d.about, d.what) \/ d.about.options = "empty"
        /\ d.body # NoFleet => d.phase # "posted"
    BY <2>1 DEF CallInOrder, GoesOn
  <2>4. CallInOrder(d, texts')
    BY <2>2, <2>3 DEF CallInOrder
  <2> QED
    BY <2>4 DEF d
<1>4. ASSUME NEW i \in DOMAIN calls' \ DOMAIN calls PROVE CallInOrder(calls'[i], texts')
  <2> DEFINE d == calls'[i]
  <2>1. IsNew(d)
    BY <1>1 DEF NewCalls
  <2> HIDE DEF d
  <2> SUFFICES CallInOrder(d, texts')
    BY DEF d
  <2>2. ASSUME IsReply(d) PROVE d.about \in Threads /\ d.what \in 1..texts'
    <3>1. d.about = composer.thread /\ d.what = composer.draft
          /\ composer.draft # 0 /\ composer.thread # None
      BY <2>2 DEF IsReply, Submits, Usable
    <3>2. composer.thread \in Threads \union {None} /\ composer.draft \in Nat
          /\ composer.draft <= texts
      BY DEF PageTypeOK, Composers, CallsInOrder
    <3> QED
      BY <1>2, <3>1, <3>2
  <2>3. d.body = NoFleet /\ (IsFirst(d) \/ IsReply(d) \/ IsAnswer(d))
    BY <2>1 DEF IsNew
  <2>4. CASE IsFirst(d)
    <3>1. d.kind = "open" /\ d.phase = "refreshing"
      BY <2>4 DEF IsFirst
    <3> QED
      BY <2>3, <3>1 DEF CallInOrder
  <2>5. CASE IsReply(d)
    <3>1. d.kind = "reply" /\ d.phase = "posted"
      BY <2>5 DEF IsReply
    <3> QED
      BY <2>2, <2>3, <2>5, <3>1 DEF CallInOrder
  <2>6. CASE IsAnswer(d)
    <3>1. /\ d.kind = "need" /\ d.phase = "posted" /\ d.about \in Requests
          /\ Taken(d.about, d.what) \/ d.about.options = "empty"
      BY <2>6 DEF IsAnswer
    <3> QED
      BY <2>3, <3>1 DEF CallInOrder
  <2> QED
    BY <2>3, <2>4, <2>5, <2>6
<1>5. \A r \in Requests : entered'[r] \in Enterable(r) \union {None}
  BY EnteredIsEnterable
<1> QED
  BY <1>2, <1>3, <1>4, <1>5 DEF CallsInOrder, Enterable

-----------------------------------------------------------------------------
(* The first call comes first.                                             *)

\* The page has not moved: neither what it shows nor the stream.
PageStays == shown' = shown /\ newest' = newest /\ stream' = stream

LEMMA StreamCases ==
  ASSUME PageTypeOK, CallsInOrder, [OfficeNext]_officeVars
  PROVE  \/ PageStays /\ ServerGoesOn
         \/ PageStays /\ served' = served /\ wire' = wire
         \/ StreamOpens \/ StreamBreaks \/ StreamDelivers
         \/ \E i \in DOMAIN calls : RefreshArrives(i)
<1> USE DEF PageStays, serverVars, streamVars
<1>1. CASE OfficeChanges
  BY <1>1, ChangesEffect DEF OfficeChanges
<1>2. ASSUME NEW i \in DOMAIN calls, Carries(i)
      PROVE  PageStays /\ ServerGoesOn
  BY <1>2, CarriesEffect DEF Carries
<1>3. ASSUME NEW i \in DOMAIN calls,
             Refuses(i) \/ FleetAnswered(i) \/ PostSucceeds(i) \/ PostFails(i)
             \/ RefreshFails(i)
      PROVE  PageStays /\ served' = served /\ wire' = wire
  BY <1>3 DEF Refuses, FleetAnswered, PostSucceeds, PostFails, RefreshFails, Fails
<1>4. CASE OpensPage \/ UNCHANGED officeVars
  BY <1>4 DEF OpensPage, officeVars
<1>5. CASE UserActs
  BY <1>5 DEF UserActs, OpensComposer, OpensThread, Types, Cancels, ClosesThread,
              Submits, Enters, Answers
<1> QED
  BY <1>1, <1>2, <1>3, <1>4, <1>5 DEF OfficeNext, PageGoesOn

\* Before the first fleet has come nothing is shown, and nothing can be sent.
LEMMA NothingToSend ==
  ASSUME PageTypeOK, FirstCallFirst, NewCalls, stream = "none",
         NEW i \in DOMAIN calls' \ DOMAIN calls
  PROVE  Len(calls) = 0 /\ i = 1 /\ IsFirst(calls'[i]) /\ IsNew(calls'[i])
<1>1. shown.threads = {} /\ shown.need = NoRequest
  BY DEF FirstCallFirst, NoFleet
<1> DEFINE c == calls'[i]
<1>2. i = Len(calls) + 1 /\ IsNew(c)
  BY DEF NewCalls
<1> HIDE DEF c
<1>3. ~IsReply(c)
  BY <1>1 DEF IsReply, Submits, Usable, Shown
<1>4. ~IsAnswer(c)
  BY <1>1 DEF IsAnswer, Answers
<1>5. IsFirst(c)
  BY <1>2, <1>3, <1>4 DEF IsNew
<1>6. calls = <<>>
  BY <1>5 DEF IsFirst, OpensPage
<1> QED
  BY <1>2, <1>5, <1>6 DEF c

LEMMA FirstStep ==
  ASSUME PageTypeOK, CallsInOrder, FirstCallFirst, [OfficeNext]_officeVars
  PROVE  FirstCallFirst'
<1>1. PageTypeOK' /\ CallsGoOn /\ NewCalls
  BY PageTypeStep DEF TypesAndCalls
<1>2. /\ calls \in Seq(PageCalls) /\ calls' \in Seq(PageCalls)
      /\ Len(calls) \in Nat /\ Len(calls') \in Nat
      /\ DOMAIN calls = 1..Len(calls) /\ DOMAIN calls' = 1..Len(calls')
      /\ DOMAIN calls \subseteq DOMAIN calls'
  BY <1>1 DEF PageTypeOK, CallsGoOn
<1>3. Len(calls) <= Len(calls')
  BY <1>2
\* The stream starts with the end of the first call.
<1>4. ASSUME stream = "none"
      PROVE  \/ PageStays /\ wire' = wire
             \/ /\ RefreshArrives(1) /\ 1 \in DOMAIN calls /\ stream' = "connecting"
                /\ \A i \in DOMAIN calls : i = 1
  <2>1. CASE PageStays /\ ServerGoesOn
    BY <1>4, <2>1 DEF ServerGoesOn
  <2>2. CASE StreamOpens \/ StreamBreaks \/ StreamDelivers
    BY <1>4, <2>2 DEF StreamOpens, StreamBreaks, StreamDelivers
  <2>3. ASSUME NEW i \in DOMAIN calls, RefreshArrives(i)
        PROVE  /\ RefreshArrives(1) /\ 1 \in DOMAIN calls /\ stream' = "connecting"
               /\ \A j \in DOMAIN calls : j = 1
    <3>1. Len(calls) <= 1
      BY <1>4 DEF FirstCallFirst
    <3>2. i = 1 /\ \A j \in DOMAIN calls : j = 1
      BY <1>2, <3>1
    <3>3. calls[1].kind = "open"
      BY <3>2 DEF FirstCallFirst
    <3> QED
      BY <2>3, <3>2, <3>3 DEF RefreshArrives
  <2> QED
    BY <2>1, <2>2, <2>3, StreamCases
<1>5. stream # "none" => stream' # "none"
  <2>1. CASE PageStays
    BY <2>1 DEF PageStays
  <2>2. CASE StreamOpens \/ StreamBreaks \/ StreamDelivers
    BY <2>2 DEF StreamOpens, StreamBreaks, StreamDelivers
  <2>3. CASE \E i \in DOMAIN calls : RefreshArrives(i)
    BY <2>3 DEF RefreshArrives
  <2> QED
    BY <2>1, <2>2, <2>3, StreamCases
<1>6. ASSUME stream' = "none"
      PROVE  /\ wire' = <<>> /\ shown' = NoFleet /\ newest' = 0 /\ Len(calls') <= 1
  <2>1. stream = "none"
    BY <1>5, <1>6
  <2>2. PageStays /\ wire' = wire
    BY <1>4, <1>6, <2>1
  <2>3. wire = <<>> /\ shown = NoFleet /\ newest = 0 /\ Len(calls) <= 1
    BY <2>1 DEF FirstCallFirst
  <2>4. Len(calls') <= 1
    <3>1. CASE Len(calls') <= Len(calls)
      BY <1>2, <2>3, <3>1
    <3>2. CASE Len(calls') > Len(calls)
      <4>1. Len(calls') \in DOMAIN calls' \ DOMAIN calls
        BY <1>2, <3>2
      <4>2. Len(calls') = 1
        BY <1>1, <2>1, <4>1, NothingToSend
      <4> QED
        BY <4>2
    <3> QED
      BY <1>2, <3>1, <3>2
  <2> QED
    BY <2>2, <2>3, <2>4 DEF PageStays
<1>7. ASSUME Len(calls') = 0 PROVE stream' = "none"
  <2>1. Len(calls) = 0 /\ DOMAIN calls = {}
    BY <1>2, <1>3, <1>7
  <2>2. stream = "none"
    BY <2>1 DEF FirstCallFirst
  <2> QED
    BY <1>4, <2>1, <2>2 DEF PageStays
<1>8. ASSUME NEW i \in DOMAIN calls'
      PROVE  /\ calls'[i].kind = "open" <=> i = 1
             /\ calls'[i].kind = "open" /\ calls'[i].phase # "over" => stream' = "none"
  <2>1. CASE i \in DOMAIN calls
    <3>1. GoesOn(calls[i], calls'[i])
      BY <1>1, <2>1 DEF CallsGoOn
    <3>2. /\ calls'[i].kind = calls[i].kind
          /\ calls'[i].phase # "over" => calls[i].phase # "over"
      BY <3>1 DEF GoesOn
    <3>3. calls'[i].kind = "open" <=> i = 1
      BY <2>1, <3>2 DEF FirstCallFirst
    <3>4. ASSUME calls'[i].kind = "open", calls'[i].phase # "over"
          PROVE  stream' = "none"
      <4>1. stream = "none" /\ i = 1
        BY <2>1, <3>2, <3>3, <3>4 DEF FirstCallFirst
      <4>2. ~RefreshArrives(1)
        <5>1. SUFFICES ASSUME RefreshArrives(1) PROVE FALSE
          OBVIOUS
        <5>2. Phase(1, "over")
          BY <5>1 DEF RefreshArrives
        <5>3. calls'[1].phase = "over"
          BY <2>1, <4>1, <5>2, PhaseEffect
        <5> QED
          BY <3>4, <4>1, <5>3
      <4> QED
        BY <1>4, <4>1, <4>2 DEF PageStays
    <3> QED
      BY <3>3, <3>4
  <2>2. CASE i \notin DOMAIN calls
    <3>1. i = Len(calls) + 1 /\ IsNew(calls'[i])
      BY <1>1, <2>2 DEF NewCalls
    <3>2. CASE stream = "none"
      <4>1. Len(calls) = 0 /\ i = 1 /\ IsFirst(calls'[i])
        BY <1>1, <2>2, <3>2, NothingToSend
      <4>2. calls'[i].kind = "open" /\ stream' = stream
        BY <4>1 DEF IsFirst, OpensPage, streamVars
      <4> QED
        BY <3>2, <4>1, <4>2
    <3>3. CASE stream # "none"
      <4>1. Len(calls) # 0
        BY <3>3 DEF FirstCallFirst
      <4>2. i # 1
        BY <1>2, <3>1, <4>1
      <4> DEFINE c == calls'[i]
      <4>3. IsNew(c)
        BY <3>1
      <4> HIDE DEF c
      <4>4. ~IsFirst(c)
        <5>1. calls # <<>>
          BY <4>1
        <5> QED
          BY <5>1 DEF IsFirst, OpensPage
      <4>5. c.kind # "open"
        BY <4>3, <4>4 DEF IsNew, IsReply, IsAnswer
      <4> QED
        BY <4>2, <4>5 DEF c
    <3> QED
      BY <3>2, <3>3
  <2> QED
    BY <2>1, <2>2
<1> QED
  BY <1>6, <1>7, <1>8 DEF FirstCallFirst

-----------------------------------------------------------------------------
(* An answer on its way keeps its request busy.                            *)

LEMMA BusyCases ==
  ASSUME PageTypeOK, CallsInOrder, [OfficeNext]_officeVars
  PROVE  \/ busy' = busy
         \/ Answers /\ busy' = busy \union {shown.need}
         \/ \E i \in DOMAIN calls :
              /\ calls[i].kind = "need" /\ calls[i].phase # "over" /\ Phase(i, "over")
              /\ busy' = busy \ {calls[i].about}
<1>1. CASE UserActs
  BY <1>1 DEF UserActs, OpensComposer, OpensThread, Types, Cancels, ClosesThread,
              Submits, Enters, Answers
<1>2. ASSUME NEW i \in DOMAIN calls, PageGoesOn(i)
      PROVE  \/ busy' = busy
             \/ /\ calls[i].kind = "need" /\ calls[i].phase # "over" /\ Phase(i, "over")
                /\ busy' = busy \ {calls[i].about}
  <2>1. CASE PostSucceeds(i)
    BY <2>1 DEF PostSucceeds
  <2>2. CASE PostFails(i) \/ RefreshFails(i)
    <3>1. Fails(i) /\ calls[i].phase # "over" /\ Phase(i, "over")
      BY <2>2 DEF PostFails, RefreshFails, Fails
    <3> QED
      BY <3>1, FailsEffect
  <2>3. CASE RefreshArrives(i)
    BY <2>3 DEF RefreshArrives
  <2> QED
    BY <1>2, <2>1, <2>2, <2>3 DEF PageGoesOn
<1>3. CASE \/ OpensPage \/ OfficeChanges \/ StreamOpens \/ StreamBreaks
           \/ StreamDelivers \/ UNCHANGED officeVars
  BY <1>3 DEF OpensPage, OfficeChanges, StreamOpens, StreamBreaks, StreamDelivers,
              officeVars, pageVars
<1>4. ASSUME NEW i \in DOMAIN calls, Carries(i) \/ Refuses(i) \/ FleetAnswered(i)
      PROVE  busy' = busy
  BY <1>4 DEF Carries, Refuses, FleetAnswered, pageVars
<1> QED
  BY <1>1, <1>2, <1>3, <1>4 DEF OfficeNext

LEMMA BusyStep ==
  ASSUME PageTypeOK, CallsInOrder, BusyInOrder, [OfficeNext]_officeVars
  PROVE  BusyInOrder'
<1> DEFINE Flies(c) == c.kind = "need" /\ c.phase # "over"
<1>1. PageTypeOK' /\ CallsGoOn /\ NewCalls
  BY PageTypeStep DEF TypesAndCalls
<1>2. ASSUME NEW i \in DOMAIN calls, Flies(calls'[i])
      PROVE  /\ Flies(calls[i]) /\ calls'[i].about = calls[i].about
             /\ calls[i].about \in busy
  <2>1. GoesOn(calls[i], calls'[i])
    BY <1>1 DEF CallsGoOn
  <2>2. Flies(calls[i]) /\ calls'[i].about = calls[i].about
    BY <1>2, <2>1 DEF GoesOn
  <2> QED
    BY <2>2 DEF BusyInOrder
<1>3. ASSUME NEW i \in DOMAIN calls' \ DOMAIN calls, Flies(calls'[i])
      PROVE  /\ i = Len(calls) + 1 /\ Answers
             /\ calls'[i].about = shown.need /\ shown.need \notin busy
  <2> DEFINE c == calls'[i]
  <2>1. i = Len(calls) + 1 /\ IsNew(c) /\ c.kind = "need"
    BY <1>1, <1>3 DEF NewCalls
  <2> HIDE DEF c
  <2>2. Answers /\ c.about = shown.need
    BY <2>1 DEF IsNew, IsFirst, IsReply, IsAnswer
  <2> QED
    BY <2>1, <2>2 DEF Answers, Busy, c
<1>4. ASSUME NEW i \in DOMAIN calls', Flies(calls'[i])
      PROVE  calls'[i].about \in busy'
  <2>1. CASE i \in DOMAIN calls
    <3>1. /\ Flies(calls[i]) /\ calls'[i].about = calls[i].about
          /\ calls[i].about \in busy
      BY <1>2, <1>4, <2>1
    <3>2. ASSUME NEW j \in DOMAIN calls, calls[j].kind = "need",
                 calls[j].phase # "over", Phase(j, "over"),
                 busy' = busy \ {calls[j].about}
          PROVE  calls'[i].about \in busy'
      <4>1. calls'[j].phase = "over"
        BY <3>2, PhaseEffect
      <4>2. j # i
        BY <1>4, <4>1
      <4>3. calls[i].kind = "need" /\ calls[i].phase # "over"
        BY <3>1
      <4>4. calls[j].about # calls[i].about
        BY <2>1, <3>2, <4>2, <4>3 DEF BusyInOrder
      <4> QED
        BY <3>1, <3>2, <4>4
    <3> HIDE DEF Flies
    <3> QED
      BY <3>1, <3>2, BusyCases
  <2>2. CASE i \notin DOMAIN calls
    <3>1. Answers /\ calls'[i].about = shown.need
      BY <1>3, <1>4, <2>2
    <3> QED
      BY <3>1 DEF Answers
  <2> QED
    BY <2>1, <2>2
<1>5. ASSUME NEW i \in DOMAIN calls', NEW j \in DOMAIN calls', i # j,
             Flies(calls'[i]), Flies(calls'[j])
      PROVE  calls'[i].about # calls'[j].about
  <2> HIDE DEF Flies
  <2>1. CASE i \in DOMAIN calls /\ j \in DOMAIN calls
    <3>1. Flies(calls[i]) /\ Flies(calls[j]) /\ calls'[i].about = calls[i].about
          /\ calls'[j].about = calls[j].about
      BY <1>2, <1>5, <2>1
    <3> QED
      BY <1>5, <2>1, <3>1 DEF BusyInOrder, Flies
  <2>2. CASE i \in DOMAIN calls /\ j \notin DOMAIN calls
    BY <1>2, <1>3, <1>5, <2>2
  <2>3. CASE i \notin DOMAIN calls /\ j \in DOMAIN calls
    BY <1>2, <1>3, <1>5, <2>3
  <2>4. CASE i \notin DOMAIN calls /\ j \notin DOMAIN calls
    BY <1>3, <1>5, <2>4
  <2> QED
    BY <2>1, <2>2, <2>3, <2>4
<1> QED
  BY <1>4, <1>5 DEF BusyInOrder

-----------------------------------------------------------------------------
(* What is being sent is on its way.                                       *)

RepliesStay ==
  \A j \in DOMAIN calls :
    calls[j].kind = "reply" /\ calls[j].phase = "posted" => calls'[j].phase = "posted"

LEMMA ComposerCases ==
  ASSUME PageTypeOK, CallsInOrder, [OfficeNext]_officeVars
  PROVE  \/ composer' = composer /\ RepliesStay
         \/ composer' = NoComposer
         \/ \E t \in Threads : composer' = Reopened(t)
         \/ composer' = Blamed(composer)
         \/ Types \/ Submits
<1>1. ASSUME calls' = calls PROVE RepliesStay
  BY <1>1 DEF RepliesStay
<1>2. ASSUME NEW i \in DOMAIN calls, OtherCalls(i),
             calls'[i].phase = calls[i].phase \/ calls[i].kind # "reply"
             \/ calls[i].phase # "posted"
      PROVE  RepliesStay
  BY <1>2 DEF RepliesStay, OtherCalls
<1>3. CASE UserActs /\ ~Answers
  BY <1>1, <1>3 DEF UserActs, OpensComposer, OpensThread, Types, Cancels, ClosesThread,
                    Submits, Enters
<1>4. CASE Answers
  <2>1. CallsGoOn /\ composer' = composer
    BY <1>4, UserTypes DEF UserActs, TypesAndCalls, Answers
  <2>2. PICK c : calls' = Append(calls, c)
    BY <1>4 DEF Answers
  <2>3. \A j \in DOMAIN calls : calls'[j] = calls[j]
    BY <2>2 DEF PageTypeOK
  <2> QED
    BY <2>1, <2>3 DEF RepliesStay
<1>5. ASSUME NEW i \in DOMAIN calls, PageGoesOn(i)
      PROVE  \/ composer' = composer /\ RepliesStay
             \/ composer' = NoComposer
             \/ composer' = Blamed(composer)
  <2>1. CASE PostSucceeds(i)
    <3>1. CASE calls[i].kind = "reply"
      BY <2>1, <3>1 DEF PostSucceeds
    <3>2. CASE calls[i].kind # "reply"
      <4>1. composer' = composer /\ Phase(i, "refreshing")
        BY <2>1, <3>2 DEF PostSucceeds
      <4>2. OtherCalls(i)
        BY <4>1, PhaseEffect
      <4> QED
        BY <1>2, <3>2, <4>1, <4>2
    <3> QED
      BY <3>1, <3>2
  <2>2. CASE PostFails(i) \/ RefreshFails(i)
    <3>1. Fails(i) /\ Phase(i, "over")
      BY <2>2 DEF PostFails, RefreshFails, Fails
    <3>2. OtherCalls(i)
      BY <3>1, PhaseEffect
    <3>3. /\ composer' = composer \/ composer' = Blamed(composer)
          /\ calls[i].kind = "reply" => composer' = Blamed(composer)
      BY <3>1, FailsEffect
    <3> QED
      BY <1>2, <3>2, <3>3
  <2>3. CASE RefreshArrives(i)
    <3>1. /\ calls[i].phase = "refreshing" /\ Phase(i, "over")
          /\ composer' = composer \/ composer' = NoComposer
      BY <2>3 DEF RefreshArrives, Ingest
    <3>2. OtherCalls(i)
      BY <3>1, PhaseEffect
    <3> QED
      BY <1>2, <3>1, <3>2
  <2> QED
    BY <1>5, <2>1, <2>2, <2>3 DEF PageGoesOn
<1>6. ASSUME NEW i \in DOMAIN calls, Carries(i) \/ Refuses(i) \/ FleetAnswered(i)
      PROVE  composer' = composer /\ RepliesStay
  <2>1. composer' = composer
    BY <1>6 DEF Carries, Refuses, FleetAnswered, pageVars
  <2>2. OtherCalls(i) /\ calls'[i].phase = calls[i].phase
    <3>1. CASE FleetAnswered(i)
      BY <3>1, AnsweredEffect
    <3>2. CASE \E d \in {"done", "botched", "refused"} : Deed(i, d)
      BY <3>2, DeedEffect
    <3> QED
      BY <1>6, <3>1, <3>2 DEF Carries, Refuses
  <2> QED
    BY <1>2, <2>1, <2>2
<1>7. CASE OpensPage
  <2>1. composer' = composer /\ DOMAIN calls = {}
    BY <1>7 DEF OpensPage, pageVars
  <2> QED
    BY <2>1 DEF RepliesStay
<1>8. CASE OfficeChanges \/ StreamOpens \/ StreamBreaks \/ UNCHANGED officeVars
  BY <1>1, <1>8 DEF OfficeChanges, StreamOpens, StreamBreaks, officeVars, pageVars
<1>9. CASE StreamDelivers
  BY <1>1, <1>9 DEF StreamDelivers, Ingest
<1> QED
  BY <1>3, <1>4, <1>5, <1>6, <1>7, <1>8, <1>9 DEF OfficeNext

\* What is sent and is of the composer, before and after a step that keeps both.
LEMMA SendingStep ==
  ASSUME PageTypeOK, CallsInOrder, SendingInOrder, [OfficeNext]_officeVars
  PROVE  SendingInOrder'
<1>1. PageTypeOK' /\ CallsGoOn /\ NewCalls /\ CallsInOrder'
  BY PageTypeStep, CallsStep DEF TypesAndCalls
<1>2. /\ composer \in Composers /\ composer.thread \in Threads \union {None}
      /\ composer.draft \in Nat /\ composer.draft <= texts /\ texts \in Nat
      /\ composer.pending \in BOOLEAN /\ composer.error \in BOOLEAN
      /\ composer.again \in BOOLEAN
  BY DEF PageTypeOK, CallsInOrder, Composers
<1>3. ASSUME NEW i \in DOMAIN calls',
             calls'[i].kind = "reply", calls'[i].phase = "posted"
      PROVE  /\ calls'[i].about \in Threads /\ calls'[i].what \in 1..texts'
             /\ i \in DOMAIN calls =>
                  /\ calls[i].kind = "reply" /\ calls[i].phase = "posted"
                  /\ calls[i].about = calls'[i].about /\ calls[i].what = calls'[i].what
             /\ i \notin DOMAIN calls => Submits /\ composer'.pending
  <2>1. CallInOrder(calls'[i], texts')
    BY <1>1 DEF CallsInOrder
  <2>2. ASSUME i \in DOMAIN calls
        PROVE  /\ calls[i].kind = "reply" /\ calls[i].phase = "posted"
               /\ calls[i].about = calls'[i].about /\ calls[i].what = calls'[i].what
    <3>1. GoesOn(calls[i], calls'[i])
      BY <1>1, <2>2 DEF CallsGoOn
    <3> QED
      BY <1>3, <3>1 DEF GoesOn
  <2>3. ASSUME i \notin DOMAIN calls PROVE Submits /\ composer'.pending
    <3> DEFINE c == calls'[i]
    <3>1. IsNew(c) /\ c.kind = "reply"
      BY <1>1, <1>3, <2>3 DEF NewCalls
    <3> HIDE DEF c
    <3> QED
      BY <3>1 DEF IsNew, IsFirst, IsReply, IsAnswer
  <2> QED
    BY <1>3, <2>1, <2>2, <2>3 DEF CallInOrder
<1>4. CASE composer' = composer /\ RepliesStay
  <2>1. ASSUME composer'.pending PROVE \E i \in DOMAIN calls' : IsSent(calls[i])'
    <3>1. PICK i \in DOMAIN calls : IsSent(calls[i])
      BY <1>4, <2>1 DEF SendingInOrder
    <3>2. GoesOn(calls[i], calls'[i]) /\ i \in DOMAIN calls'
      BY <1>1 DEF CallsGoOn
    <3>3. calls'[i].phase = "posted"
      BY <1>4, <3>1 DEF RepliesStay, IsSent
    <3>4. IsSent(calls[i])'
      BY <1>4, <3>1, <3>2, <3>3 DEF IsSent, GoesOn
    <3> QED
      BY <3>2, <3>4
  <2>2. ASSUME NEW i \in DOMAIN calls', IsSent(calls[i])'
        PROVE  composer'.pending \/ composer'.error \/ composer'.again
    <3>1. CASE i \in DOMAIN calls
      <4>1. IsSent(calls[i])
        BY <1>3, <1>4, <2>2, <3>1 DEF IsSent
      <4> QED
        BY <1>4, <3>1, <4>1 DEF SendingInOrder
    <3>2. CASE i \notin DOMAIN calls
      BY <1>3, <2>2, <3>2 DEF IsSent
    <3> QED
      BY <3>1, <3>2
  <2> QED
    BY <2>1, <2>2 DEF SendingInOrder
\* Nothing on its way is of a composer that is closed, or has a new draft.
<1>5. ASSUME composer'.pending = FALSE,
             \/ composer'.thread = None
             \/ composer'.draft \notin 1..texts
             \/ composer'.error = TRUE
             \/ /\ composer'.thread = composer.thread /\ composer'.draft = composer.draft
                /\ composer.pending \/ composer.error \/ composer.again
                     => composer'.again = TRUE
      PROVE  SendingInOrder'
  <2>1. ASSUME NEW i \in DOMAIN calls', IsSent(calls[i])', ~composer'.error
        PROVE  composer'.again
    <3>1. /\ calls'[i].kind = "reply" /\ calls'[i].phase = "posted"
          /\ calls'[i].about = composer'.thread /\ calls'[i].what = composer'.draft
      BY <2>1 DEF IsSent
    <3>2. /\ i \in DOMAIN calls /\ calls[i].kind = "reply" /\ calls[i].phase = "posted"
          /\ calls[i].about = composer'.thread /\ calls[i].what = composer'.draft
      BY <1>3, <1>5, <3>1
    <3>3. composer'.thread \in Threads /\ composer'.draft \in 1..texts
      BY <3>2 DEF CallsInOrder, CallInOrder
    <3>4. composer'.thread # None
      BY <3>3, OfficeShape
    <3>5. /\ composer'.thread = composer.thread /\ composer'.draft = composer.draft
          /\ composer.pending \/ composer.error \/ composer.again
               => composer'.again = TRUE
      BY <1>5, <2>1, <3>3, <3>4
    <3>6. IsSent(calls[i])
      BY <3>2, <3>5 DEF IsSent
    <3> QED
      BY <3>2, <3>5, <3>6 DEF SendingInOrder
  <2> QED
    BY <1>5, <2>1 DEF SendingInOrder
<1>6. CASE composer' = NoComposer
  <2>1. composer'.pending = FALSE /\ composer'.thread = None
    BY <1>6 DEF NoComposer
  <2> QED
    BY <1>5, <2>1
<1>7. ASSUME NEW t \in Threads, composer' = Reopened(t)
      PROVE  SendingInOrder'
  <2>1. CASE composer.thread = t
    <3> DEFINE again == composer.again \/ composer.pending \/ composer.error
    <3>1. again \in BOOLEAN
      OBVIOUS
    <3>2. composer' = [composer EXCEPT !.pending = FALSE, !.error = FALSE,
                                       !.again = again]
      BY <1>7, <2>1 DEF Reopened
    <3> HIDE DEF again
    <3>3. /\ composer'.pending = FALSE /\ composer'.thread = composer.thread
          /\ composer'.draft = composer.draft /\ composer'.again = again
      BY <1>2, <3>1, <3>2 DEF Composers
    <3>4. composer.pending \/ composer.error \/ composer.again => again
      BY DEF again
    <3> QED
      BY <1>5, <3>1, <3>3, <3>4
  <2>2. CASE composer.thread # t
    <3>1. composer' = [NoComposer EXCEPT !.thread = t]
      BY <1>7, <2>2 DEF Reopened
    <3>2. composer'.pending = FALSE /\ composer'.draft = 0
      BY <3>1 DEF NoComposer
    <3>3. composer'.draft \notin 1..texts
      BY <1>2, <3>2
    <3> QED
      BY <1>5, <3>2, <3>3
  <2> QED
    BY <2>1, <2>2
<1>8. CASE composer' = Blamed(composer)
  <2>1. composer'.pending = FALSE /\ composer'.error = TRUE
    BY <1>2, <1>8 DEF Blamed, Composers
  <2> QED
    BY <1>5, <2>1
<1>9. CASE Types
  <2>1. composer' = [composer EXCEPT !.draft = texts + 1, !.error = FALSE, !.again = FALSE]
        /\ ~composer.pending
    BY <1>9 DEF Types, Usable
  <2>2. composer'.pending = FALSE /\ composer'.draft = texts + 1
    BY <1>2, <2>1 DEF Composers
  <2>3. composer'.draft \notin 1..texts
    BY <1>2, <2>2
  <2> QED
    BY <1>5, <2>2, <2>3
<1>10. CASE Submits
  <2>1. CASE composer.draft = 0
    <3>1. composer' = [composer EXCEPT !.error = TRUE] /\ ~composer.pending
      BY <1>10, <2>1 DEF Submits, Usable
    <3>2. composer'.pending = FALSE /\ composer'.error = TRUE
      BY <1>2, <3>1 DEF Composers
    <3> QED
      BY <1>5, <3>2
  <2>2. CASE composer.draft # 0
    <3>1. /\ composer' = [composer EXCEPT !.pending = TRUE, !.error = FALSE]
          /\ calls' = Append(calls, Call("reply", composer.thread,
                                         composer.draft, "posted"))
      BY <1>10, <2>2 DEF Submits
    <3>2. /\ composer'.pending /\ composer'.thread = composer.thread
          /\ composer'.draft = composer.draft
      BY <1>2, <3>1 DEF Composers
    <3> DEFINE c == calls'[Len(calls) + 1]
    <3>3. /\ Len(calls) + 1 \in DOMAIN calls' /\ c.kind = "reply" /\ c.phase = "posted"
          /\ c.about = composer.thread /\ c.what = composer.draft
      <4>1. composer.thread \in Threads \union Requests \union {None}
            /\ composer.draft \in Nat \union Inputs \union Decisions
        BY <1>2
      <4>2. /\ c.kind = "reply" /\ c.phase = "posted"
            /\ c.about = composer.thread /\ c.what = composer.draft
        BY <3>1, <4>1, NewCallGoesOn
      <4>3. Len(calls) \in Nat /\ DOMAIN calls' = 1..(Len(calls) + 1)
        BY <3>1, <4>1, CallIsMade
      <4> HIDE DEF c
      <4> QED
        BY <4>2, <4>3
    <3> DEFINE n == Len(calls) + 1
    <3>4. /\ n \in DOMAIN calls' /\ calls'[n].kind = "reply" /\ calls'[n].phase = "posted"
          /\ calls'[n].about = composer'.thread /\ calls'[n].what = composer'.draft
      BY <3>2, <3>3
    <3> HIDE DEF n, c
    <3>5. \E i \in DOMAIN calls' : IsSent(calls[i])'
      BY <3>4 DEF IsSent
    <3> QED
      BY <3>2, <3>5 DEF SendingInOrder
  <2> QED
    BY <2>1, <2>2
<1> QED
  BY <1>4, <1>6, <1>7, <1>8, <1>9, <1>10, ComposerCases

-----------------------------------------------------------------------------
(* The stream brings what it may.                                          *)

LEMMA AllowedStays ==
  ASSUME CallsGoOn
  PROVE  \A w : Allowed(calls, w) => Allowed(calls', w)
<1> SUFFICES ASSUME NEW w, Allowed(calls, w) PROVE Allowed(calls', w)
  OBVIOUS
<1>1. PICK j \in DOMAIN calls :
        calls[j].kind # "open" /\ calls[j].body # NoFleet /\ calls[j].since <= w
  BY DEF Allowed
<1>2. GoesOn(calls[j], calls'[j]) /\ j \in DOMAIN calls'
  BY DEF CallsGoOn
<1>3. calls'[j].kind # "open" /\ calls'[j].body # NoFleet /\ calls'[j].since <= w
  BY <1>1, <1>2 DEF GoesOn
<1> QED
  BY <1>2, <1>3 DEF Allowed

\* What is on its way is what was, or what the server has published now.
WireGoesOn ==
  /\ served' \in Fleets /\ served.v <= served'.v
  /\ \A k \in DOMAIN wire' :
       wire'[k] = served' \/ \E l \in DOMAIN wire : wire'[k] = wire[l]
  /\ \A k, m \in DOMAIN wire' : k <= m => wire'[k].v <= wire'[m].v

LEMMA WireStep ==
  ASSUME PageTypeOK, CallsInOrder, StreamInOrder, [OfficeNext]_officeVars
  PROVE  WireGoesOn
<1>0. /\ served \in Fleets /\ wire \in Seq(Fleets)
      /\ Len(wire) \in Nat /\ DOMAIN wire = 1..Len(wire)
      /\ \A k \in DOMAIN wire : wire[k] \in Fleets
  BY DEF PageTypeOK
<1>1. /\ served \in Fleets /\ served.v \in Nat /\ wire \in Seq(Fleets)
      /\ Len(wire) \in Nat /\ DOMAIN wire = 1..Len(wire)
      /\ \A k \in DOMAIN wire : wire[k] \in Fleets
  BY <1>0 DEF Fleets
<1>2. /\ \A k \in DOMAIN wire : wire[k].v \in Nat /\ wire[k].v <= served.v
      /\ \A k, m \in DOMAIN wire : k <= m => wire[k].v <= wire[m].v
  BY <1>1 DEF Fleets, StreamInOrder
<1>3. CASE served' = served /\ wire' = wire
  BY <1>1, <1>2, <1>3 DEF WireGoesOn
<1>4. CASE ServerGoesOn
  <2>1. served' \in Fleets /\ served'.v \in Nat /\ served.v <= served'.v
    BY <1>4 DEF ServerGoesOn, Fleets
  <2>2. CASE wire' = wire
    BY <1>2, <2>1, <2>2 DEF WireGoesOn
  <2>3. CASE wire' = Append(wire, served')
    <3>1. /\ DOMAIN wire' = 1..(Len(wire) + 1) /\ wire'[Len(wire) + 1] = served'
          /\ \A k \in DOMAIN wire : wire'[k] = wire[k]
      BY <1>1, <2>1, <2>3
    <3>2. \A k \in DOMAIN wire' : k \in DOMAIN wire \/ k = Len(wire) + 1
      BY <1>1, <3>1
    <3>3. \A k \in DOMAIN wire' : wire'[k].v \in Nat /\ wire'[k].v <= served'.v
      BY <1>1, <1>2, <2>1, <3>1, <3>2
    <3>4. ASSUME NEW k \in DOMAIN wire', NEW m \in DOMAIN wire', k <= m
          PROVE  wire'[k].v <= wire'[m].v
      <4>1. CASE m = Len(wire) + 1
        BY <3>1, <3>3, <4>1
      <4>2. CASE m \in DOMAIN wire
        <5>1. k \in DOMAIN wire
          BY <1>1, <3>1, <3>4, <4>2
        <5> QED
          BY <1>2, <3>1, <3>4, <4>2, <5>1
      <4> QED
        BY <3>2, <4>1, <4>2
    <3> QED
      BY <2>1, <3>1, <3>2, <3>4 DEF WireGoesOn
  <2> QED
    BY <1>4, <2>2, <2>3 DEF ServerGoesOn
<1>5. CASE StreamOpens
  <2>1. served' = served /\ wire' = <<served'>>
    BY <1>5 DEF StreamOpens, serverVars
  <2>2. \A k \in DOMAIN wire' : wire'[k] = served'
    BY <2>1
  <2> QED
    BY <1>1, <2>1, <2>2 DEF WireGoesOn
<1>6. CASE StreamBreaks
  <2>1. served' = served /\ DOMAIN wire' = {}
    BY <1>6 DEF StreamBreaks, serverVars
  <2> QED
    BY <1>1, <2>1 DEF WireGoesOn
<1>7. CASE StreamDelivers
  <2>1. served' = served /\ wire' = Tail(wire) /\ wire # <<>>
    BY <1>7 DEF StreamDelivers, serverVars
  <2>2. \A k \in DOMAIN wire' : k + 1 \in DOMAIN wire /\ wire'[k] = wire[k + 1] /\ k \in Nat
    BY <1>1, <2>1
  <2>3. \A k, m \in DOMAIN wire' : k <= m => wire'[k].v <= wire'[m].v
    BY <1>2, <2>2
  <2> QED
    BY <1>1, <2>1, <2>2, <2>3 DEF WireGoesOn
<1>8. CASE \E i \in DOMAIN calls : RefreshArrives(i)
  BY <1>3, <1>8 DEF RefreshArrives, serverVars
<1> QED
  BY <1>3, <1>4, <1>5, <1>6, <1>7, <1>8, StreamCases

\* How what is shown changes.
LEMMA ShownStep ==
  ASSUME PageTypeOK, CallsInOrder, [OfficeNext]_officeVars
  PROVE  \/ shown'.v = shown.v
         \/ /\ wire # <<>> /\ wire' = Tail(wire) /\ shown'.v = wire[1].v
         \/ /\ wire' = wire
            /\ \E i \in DOMAIN calls : /\ calls[i].phase = "refreshing"
                                       /\ calls[i].body # NoFleet
                                       /\ shown'.v = calls[i].body.v
<1>1. CASE StreamDelivers
  <2> DEFINE f == Head(wire)
  <2>1. wire # <<>> /\ wire' = Tail(wire) /\ f \in Fleets /\ f = wire[1] /\ Ingest(f, composer)
    BY <1>1 DEF StreamDelivers, PageTypeOK
  <2> HIDE DEF f
  <2>2. shown' = f \/ (shown' = shown /\ f.v = shown.v)
    BY <2>1, IngestEffect
  <2> QED
    BY <2>1, <2>2
<1>2. ASSUME NEW i \in DOMAIN calls, RefreshArrives(i)
      PROVE  /\ wire' = wire /\ calls[i].phase = "refreshing"
             /\ calls[i].body # NoFleet /\ shown'.v = calls[i].body.v
  <2> DEFINE f == calls[i].body
  <2>1. calls[i] \in PageCalls
    BY DEF PageTypeOK
  <2>2. f \in Fleets /\ Ingest(f, composer)
    BY <1>2, <2>1 DEF RefreshArrives, PageCalls
  <2> HIDE DEF f
  <2>3. shown' = f \/ (shown' = shown /\ f.v = shown.v)
    BY <2>2, IngestEffect
  <2>4. shown'.v = f.v
    BY <2>3
  <2> QED
    BY <1>2, <2>4 DEF RefreshArrives, f
<1>3. CASE PageStays \/ StreamOpens \/ StreamBreaks
  BY <1>3 DEF PageStays, StreamOpens, StreamBreaks
<1> QED
  BY <1>1, <1>2, <1>3, StreamCases

LEMMA StreamStep ==
  ASSUME PageTypeOK, CallsInOrder, FirstCallFirst, StreamInOrder,
         [OfficeNext]_officeVars
  PROVE  StreamInOrder'
<1>1. PageTypeOK' /\ CallsGoOn /\ NewCalls /\ WireGoesOn
  BY PageTypeStep, WireStep DEF TypesAndCalls
<1>2. \A w : Allowed(calls, w) => Allowed(calls', w)
  BY <1>1, AllowedStays
\* The numbers that are compared.
<1>a. /\ shown \in Fleets /\ served \in Fleets /\ shown' \in Fleets /\ served' \in Fleets
      /\ \A k \in DOMAIN wire : wire[k] \in Fleets
      /\ \A k \in DOMAIN wire' : wire'[k] \in Fleets
      /\ \A i \in DOMAIN calls : calls[i] \in PageCalls
      /\ \A i \in DOMAIN calls' : calls'[i] \in PageCalls
  BY <1>1 DEF PageTypeOK
<1>3. /\ shown.v \in Nat /\ served.v \in Nat /\ shown'.v \in Nat /\ served'.v \in Nat
      /\ \A k \in DOMAIN wire : wire[k].v \in Nat
      /\ \A k \in DOMAIN wire' : wire'[k].v \in Nat
  BY <1>a DEF Fleets
<1>b. /\ \A i \in DOMAIN calls : calls[i].body \in Fleets /\ calls[i].since \in Nat
      /\ \A i \in DOMAIN calls' : calls'[i].body \in Fleets /\ calls'[i].since \in Nat
  BY <1>a DEF PageCalls
<1>4. /\ \A i \in DOMAIN calls : calls[i].body.v \in Nat /\ calls[i].since \in Nat
      /\ \A i \in DOMAIN calls' : calls'[i].body.v \in Nat /\ calls'[i].since \in Nat
  BY <1>b DEF Fleets
<1>5. /\ served.v <= served'.v /\ shown.v <= served.v
      /\ \A k \in DOMAIN wire : /\ wire[k].v <= served.v
                                /\ shown.v <= wire[k].v \/ Allowed(calls, wire[k].v)
  BY <1>1 DEF WireGoesOn, StreamInOrder
\* What was no older than n before, or allowed, is so still.
<1>6. ASSUME NEW n \in Nat, n <= served.v,
             \A k \in DOMAIN wire : n <= wire[k].v \/ Allowed(calls, wire[k].v),
             NEW k \in DOMAIN wire'
      PROVE  n <= wire'[k].v \/ Allowed(calls', wire'[k].v)
  <2>1. CASE wire'[k] = served'
    <3>1. n <= served'.v
      BY <1>3, <1>5, <1>6
    <3> QED
      BY <2>1, <3>1
  <2>2. ASSUME NEW l \in DOMAIN wire, wire'[k] = wire[l]
        PROVE  n <= wire'[k].v \/ Allowed(calls', wire'[k].v)
    BY <1>2, <1>6, <2>2
  <2> QED
    BY <1>1, <2>1, <2>2 DEF WireGoesOn
<1>7. ASSUME NEW k \in DOMAIN wire'
      PROVE  wire'[k].v <= served'.v
  <2>1. CASE wire'[k] = served'
    BY <1>3, <2>1
  <2>2. ASSUME NEW l \in DOMAIN wire, wire'[k] = wire[l]
        PROVE  wire'[k].v <= served'.v
    <3>1. wire[l].v <= served'.v
      BY <1>3, <1>5
    <3> QED
      BY <2>2, <3>1
  <2> QED
    BY <1>1, <2>1, <2>2 DEF WireGoesOn
<1>8. /\ shown'.v <= served'.v
      /\ \A k \in DOMAIN wire' : shown'.v <= wire'[k].v \/ Allowed(calls', wire'[k].v)
  <2>1. CASE shown'.v = shown.v
    <3>1. shown'.v <= served'.v
      BY <1>3, <1>5, <2>1
    <3>2. \A k \in DOMAIN wire' : shown.v <= wire'[k].v \/ Allowed(calls', wire'[k].v)
      BY <1>3, <1>5, <1>6
    <3> QED
      BY <2>1, <3>1, <3>2
  <2>2. CASE wire # <<>> /\ wire' = Tail(wire) /\ shown'.v = wire[1].v
    <3>1. wire \in Seq(Fleets) /\ 1 \in DOMAIN wire
      BY <2>2 DEF PageTypeOK
    <3>2. shown'.v <= served'.v
      BY <1>3, <1>5, <2>2, <3>1
    <3>3. ASSUME NEW k \in DOMAIN wire' PROVE shown'.v <= wire'[k].v
      <4>1. k \in Nat /\ k + 1 \in DOMAIN wire /\ wire'[k] = wire[k + 1] /\ 1 <= k + 1
        BY <2>2, <3>1
      <4>2. wire[1].v <= wire[k + 1].v
        BY <3>1, <4>1 DEF StreamInOrder
      <4> QED
        BY <2>2, <4>1, <4>2
    <3> QED
      BY <3>2, <3>3
  <2>3. ASSUME wire' = wire,
               NEW i \in DOMAIN calls, calls[i].phase = "refreshing",
               calls[i].body # NoFleet, shown'.v = calls[i].body.v
        PROVE  /\ shown'.v <= served'.v
               /\ \A k \in DOMAIN wire' :
                    shown'.v <= wire'[k].v \/ Allowed(calls', wire'[k].v)
    <3>1. calls[i].body.v <= served.v
      BY <2>3 DEF StreamInOrder
    <3>2. shown'.v <= served'.v
      BY <1>3, <1>4, <1>5, <2>3, <3>1
    <3>3. ASSUME NEW k \in DOMAIN wire PROVE Allowed(calls, wire[k].v)
      <4>1. calls[i].kind # "open"
        <5>1. SUFFICES ASSUME calls[i].kind = "open" PROVE FALSE
          OBVIOUS
        <5>2. stream = "none"
          BY <2>3, <5>1 DEF FirstCallFirst
        <5>3. wire = <<>>
          BY <5>2 DEF FirstCallFirst
        <5> QED
          BY <3>3, <5>3
      <4>2. calls[i].since <= wire[k].v \/ Allowed(calls, wire[k].v)
        BY <2>3, <3>3 DEF StreamInOrder
      <4> QED
        BY <2>3, <4>1, <4>2 DEF Allowed
    <3>4. ASSUME NEW k \in DOMAIN wire' PROVE Allowed(calls', wire'[k].v)
      BY <1>2, <2>3, <3>3, <3>4
    <3> QED
      BY <3>2, <3>4
  <2> QED
    BY <2>1, <2>2, <2>3, ShownStep
<1>9. ASSUME NEW i \in DOMAIN calls', calls'[i].phase = "refreshing"
      PROVE  /\ calls'[i].since <= served'.v
             /\ \A k \in DOMAIN wire' :
                  calls'[i].since <= wire'[k].v \/ Allowed(calls', wire'[k].v)
  <2>1. CASE i \in DOMAIN calls
    <3>1. calls'[i].since = IF calls[i].phase # "refreshing" THEN shown.v ELSE calls[i].since
      <4>1. GoesOn(calls[i], calls'[i])
        BY <1>1, <2>1 DEF CallsGoOn
      <4> QED
        BY <1>9, <4>1 DEF GoesOn
    <3>2. CASE calls[i].phase # "refreshing"
      <4>1. calls'[i].since = shown.v /\ shown.v <= served'.v
        BY <1>3, <1>5, <3>1, <3>2
      <4>2. \A k \in DOMAIN wire' : shown.v <= wire'[k].v \/ Allowed(calls', wire'[k].v)
        BY <1>3, <1>5, <1>6
      <4> QED
        BY <4>1, <4>2
    <3>3. CASE calls[i].phase = "refreshing"
      <4> DEFINE n == calls[i].since
      <4>1. /\ n \in Nat /\ n <= served.v
            /\ \A k \in DOMAIN wire : n <= wire[k].v \/ Allowed(calls, wire[k].v)
        BY <1>4, <2>1, <3>3 DEF StreamInOrder
      <4>2. calls'[i].since = n
        BY <3>1, <3>3
      <4> HIDE DEF n
      <4>3. n <= served'.v
        BY <1>3, <1>5, <4>1
      <4>4. \A k \in DOMAIN wire' : n <= wire'[k].v \/ Allowed(calls', wire'[k].v)
        BY <1>6, <4>1
      <4> QED
        BY <4>2, <4>3, <4>4
    <3> QED
      BY <3>2, <3>3
  <2>2. CASE i \notin DOMAIN calls
    <3> DEFINE c == calls'[i]
    <3>1. IsNew(c) /\ c.phase = "refreshing"
      BY <1>1, <1>9, <2>2 DEF NewCalls
    <3> HIDE DEF c
    <3>2. c.since = newest /\ OpensPage
      BY <3>1 DEF IsNew, IsFirst, IsReply, IsAnswer
    <3>3. calls = <<>>
      BY <3>2 DEF OpensPage
    <3>4. Len(calls) = 0
      BY <3>3
    <3>5. newest = 0
      BY <3>4 DEF FirstCallFirst
    <3>6. calls'[i].since = 0
      BY <3>2, <3>5 DEF c
    <3> QED
      BY <1>3, <3>6
  <2> QED
    BY <2>1, <2>2
<1>10. ASSUME NEW i \in DOMAIN calls', calls'[i].body # NoFleet
       PROVE  calls'[i].since <= calls'[i].body.v /\ calls'[i].body.v <= served'.v
  <2>1. i \in DOMAIN calls
    <3>1. SUFFICES ASSUME i \notin DOMAIN calls PROVE FALSE
      OBVIOUS
    <3> DEFINE c == calls'[i]
    <3>2. IsNew(c)
      BY <1>1, <3>1 DEF NewCalls
    <3> HIDE DEF c
    <3>3. c.body = NoFleet
      BY <3>2 DEF IsNew
    <3> QED
      BY <1>10, <3>3 DEF c
  <2>2. GoesOn(calls[i], calls'[i])
    BY <1>1, <2>1 DEF CallsGoOn
  <2>3. CASE calls[i].body # NoFleet
    <3>1. calls'[i].body = calls[i].body /\ calls'[i].since = calls[i].since
      BY <2>2, <2>3 DEF GoesOn
    <3>2. calls[i].since <= calls[i].body.v /\ calls[i].body.v <= served.v
      BY <2>1, <2>3 DEF StreamInOrder
    <3>3. calls[i].body.v <= served'.v
      BY <1>3, <1>4, <1>5, <2>1, <3>2
    <3> QED
      BY <3>1, <3>2, <3>3
  <2>4. CASE calls[i].body = NoFleet
    <3>1. calls'[i].body = served /\ calls'[i].since = calls[i].since
          /\ calls[i].phase = "refreshing"
      BY <1>10, <2>2, <2>4 DEF GoesOn
    <3>2. calls[i].since <= served.v
      BY <2>1, <3>1 DEF StreamInOrder
    <3> QED
      BY <1>5, <3>1, <3>2
  <2> QED
    BY <2>3, <2>4
<1>11. \A k, l \in DOMAIN wire' : k <= l => wire'[k].v <= wire'[l].v
  BY <1>1 DEF WireGoesOn
<1> QED
  BY <1>7, <1>8, <1>9, <1>10, <1>11 DEF StreamInOrder

-----------------------------------------------------------------------------
(* What each step keeps to.                                                *)

LEMMA PageStep ==
  ASSUME PageInv, [OfficeNext]_officeVars
  PROVE  PageInv'
<1>1. PageTypeOK'
  BY PageTypeStep DEF PageInv, TypesAndCalls
<1> QED
  BY <1>1, CallsStep, FirstStep, BusyStep, SendingStep, StreamStep DEF PageInv

LEMMA SendingFromInv == PageInv => SendingIsTrue
<1> SUFFICES ASSUME PageInv, composer.pending
             PROVE  \E i \in DOMAIN calls : /\ calls[i].phase = "posted"
                                            /\ calls[i].about = composer.thread
                                            /\ calls[i].what = composer.draft
  BY DEF SendingIsTrue
<1>1. PICK i \in DOMAIN calls : IsSent(calls[i])
  BY DEF PageInv, SendingInOrder
<1> QED
  BY <1>1 DEF IsSent

LEMMA NotTwiceStep ==
  ASSUME PageInv, [OfficeNext]_officeVars
  PROVE  NotSentTwice
<1>1. PageTypeOK' /\ CallsGoOn /\ NewCalls
  BY PageTypeStep DEF PageInv, TypesAndCalls
<1> SUFFICES ASSUME Len(calls') > Len(calls), NEW i \in DOMAIN calls,
                    calls[i].phase = "posted",
                    calls[i].about = calls'[Len(calls')].about
             PROVE  /\ calls'[Len(calls')].kind = "reply"
                    /\ calls[i].what = calls'[Len(calls')].what
                         => composer.error \/ composer.again
  BY DEF NotSentTwice
<1>2. calls \in Seq(PageCalls) /\ calls' \in Seq(PageCalls)
  BY <1>1 DEF PageInv, PageTypeOK
<1>3. Len(calls') \in DOMAIN calls' \ DOMAIN calls
  BY <1>2
<1> DEFINE c == calls'[Len(calls')]
<1>4. IsNew(c) /\ calls[i].about = c.about
  BY <1>1, <1>3 DEF NewCalls
<1> HIDE DEF c
<1> SUFFICES /\ c.kind = "reply"
             /\ calls[i].what = c.what => composer.error \/ composer.again
  BY DEF c
<1>5. CallInOrder(calls[i], texts) /\ calls[i] \in PageCalls
  BY <1>2 DEF PageInv, CallsInOrder
<1>6. \/ calls[i].kind = "reply" /\ calls[i].about \in Threads
      \/ calls[i].kind = "need" /\ calls[i].about \in Requests
  <2>1. calls[i].kind \in {"open", "reply", "need"}
    BY <1>5 DEF PageCalls
  <2> QED
    BY <1>5, <2>1 DEF CallInOrder
<1>7. ~IsFirst(c)
  <2>1. calls # <<>>
    BY <1>2
  <2> QED
    BY <2>1 DEF IsFirst, OpensPage
<1>8. CASE IsReply(c)
  <2>1. /\ c.kind = "reply" /\ c.about = composer.thread /\ c.what = composer.draft
        /\ composer.thread # None /\ ~composer.pending
    BY <1>8 DEF IsReply, Submits, Usable
  <2>2. composer.thread \in Threads
    BY <2>1 DEF PageInv, PageTypeOK, Composers
  <2>3. calls[i].kind = "reply"
    BY <1>4, <1>6, <2>1, <2>2, OfficeShape
  <2>4. calls[i].what = c.what => IsSent(calls[i])
    BY <1>4, <2>1, <2>3 DEF IsSent
  <2> QED
    BY <2>1, <2>4 DEF PageInv, SendingInOrder
<1>9. CASE IsAnswer(c)
  <2>1. c.about \in Requests /\ c.about = shown.need /\ shown.need \notin busy
    BY <1>9 DEF IsAnswer, Answers, Busy
  <2>2. calls[i].kind = "need"
    BY <1>4, <1>6, <2>1, OfficeShape
  <2>3. calls[i].about \in busy
    BY <2>2 DEF PageInv, BusyInOrder
  <2> QED
    BY <1>4, <2>1, <2>3
<1> QED
  BY <1>4, <1>7, <1>8, <1>9 DEF IsNew

LEMMA BackStep ==
  ASSUME PageInv, [OfficeNext]_officeVars
  PROVE  BackNoFurther
<1> SUFFICES ASSUME shown'.v < shown.v
             PROVE  \E i \in DOMAIN calls :
                      /\ calls[i].kind # "open" /\ calls[i].body # NoFleet
                      /\ shown'.v >= calls[i].since
  BY DEF BackNoFurther
<1> USE DEF PageInv
<1>1. PageTypeOK'
  BY PageTypeStep DEF TypesAndCalls
<1>a. /\ shown \in Fleets /\ shown' \in Fleets /\ wire \in Seq(Fleets)
      /\ \A i \in DOMAIN calls : calls[i] \in PageCalls
  BY <1>1 DEF PageTypeOK
<1>2. shown.v \in Nat /\ shown'.v \in Nat
  BY <1>a DEF Fleets
<1>3. shown'.v # shown.v
  BY <1>2
<1>4. CASE wire # <<>> /\ wire' = Tail(wire) /\ shown'.v = wire[1].v
  <2>1. 1 \in DOMAIN wire
    BY <1>a, <1>4
  <2>2. shown.v <= wire[1].v \/ Allowed(calls, wire[1].v)
    BY <2>1 DEF StreamInOrder
  <2>3. Allowed(calls, shown'.v)
    BY <1>2, <1>4, <2>2
  <2>4. PICK i \in DOMAIN calls : /\ calls[i].kind # "open" /\ calls[i].body # NoFleet
                                  /\ calls[i].since <= shown'.v
    BY <2>3 DEF Allowed
  <2>5. calls[i].since \in Nat
    BY <1>a DEF PageCalls
  <2>6. shown'.v >= calls[i].since
    BY <1>2, <2>4, <2>5
  <2> QED
    BY <2>4, <2>6
<1>5. ASSUME NEW i \in DOMAIN calls, calls[i].phase = "refreshing",
             calls[i].body # NoFleet, shown'.v = calls[i].body.v
      PROVE  calls[i].kind # "open" /\ shown'.v >= calls[i].since
  <2>1. calls[i].since <= shown'.v
    BY <1>5 DEF StreamInOrder
  <2>2. calls[i].since \in Nat
    BY <1>a DEF PageCalls
  <2>3. calls[i].kind # "open"
    <3>1. SUFFICES ASSUME calls[i].kind = "open" PROVE FALSE
      OBVIOUS
    <3>2. stream = "none"
      BY <1>5, <3>1 DEF FirstCallFirst
    <3>3. shown.v = 0
      BY <3>2 DEF FirstCallFirst, NoFleet
    <3> QED
      BY <1>2, <3>3
  <2> QED
    BY <1>2, <2>1, <2>2, <2>3
<1> QED
  BY <1>3, <1>4, <1>5, ShownStep

LEMMA DraftStep ==
  ASSUME PageInv, [OfficeNext]_officeVars
  PROVE  DraftsAreKept
<1> SUFFICES ASSUME composer'.draft # composer.draft, ~UserActs
             PROVE  \/ \E i \in DOMAIN calls : calls[i].kind = "reply" /\ PostSucceeds(i)
                    \/ composer.thread = openThread /\ composer.thread \notin shown'.threads
  BY DEF DraftsAreKept
<1> USE DEF PageInv
<1>1. composer' # composer
  OBVIOUS
<1>2. ASSUME NEW f \in Fleets, Ingest(f, composer)
      PROVE  composer.thread = openThread /\ composer.thread \notin shown'.threads
  BY <1>1, <1>2, IngestEffect
<1>3. CASE StreamDelivers
  <2> DEFINE f == Head(wire)
  <2>1. f \in Fleets /\ Ingest(f, composer)
    BY <1>3 DEF StreamDelivers, PageTypeOK
  <2> HIDE DEF f
  <2> QED
    BY <1>2, <2>1
<1>4. ASSUME NEW i \in DOMAIN calls, PageGoesOn(i)
      PROVE  \/ calls[i].kind = "reply" /\ PostSucceeds(i)
             \/ composer.thread = openThread /\ composer.thread \notin shown'.threads
  <2>1. CASE PostSucceeds(i)
    BY <1>1, <2>1 DEF PostSucceeds
  <2>2. CASE PostFails(i) \/ RefreshFails(i)
    <3>1. Fails(i)
      BY <2>2 DEF PostFails, RefreshFails
    <3>2. composer' = composer \/ composer' = Blamed(composer)
      BY <3>1, FailsEffect
    <3>3. Blamed(composer).draft = composer.draft
      BY DEF Blamed, PageTypeOK, Composers
    <3> QED
      BY <3>2, <3>3
  <2>3. CASE RefreshArrives(i)
    <3> DEFINE f == calls[i].body
    <3>1. calls[i] \in PageCalls
      BY DEF PageTypeOK
    <3>2. f \in Fleets /\ Ingest(f, composer)
      BY <2>3, <3>1 DEF RefreshArrives, PageCalls
    <3> HIDE DEF f
    <3> QED
      BY <1>2, <3>2
  <2> QED
    BY <1>4, <2>1, <2>2, <2>3 DEF PageGoesOn
<1>5. ASSUME NEW i \in DOMAIN calls, Carries(i) \/ Refuses(i) \/ FleetAnswered(i)
      PROVE  FALSE
  BY <1>1, <1>5 DEF Carries, Refuses, FleetAnswered, pageVars
<1>6. CASE OpensPage \/ OfficeChanges \/ StreamOpens \/ StreamBreaks \/ UNCHANGED officeVars
  BY <1>1, <1>6 DEF OpensPage, OfficeChanges, StreamOpens, StreamBreaks, officeVars, pageVars
<1> QED
  BY <1>3, <1>4, <1>5, <1>6 DEF OfficeNext

LEMMA FitStep ==
  ASSUME PageInv, [OfficeNext]_officeVars
  PROVE  AnswersFit
<1>1. CallsGoOn
  BY PageTypeStep DEF PageInv, TypesAndCalls
<1> SUFFICES ASSUME NEW i \in DOMAIN calls, calls[i].kind = "need",
                    calls[i].deed = "due", calls'[i].deed = "refused"
             PROVE  \/ \A k \in DOMAIN asking : asking[k] # calls[i].about
                    \/ calls[i].about.options = "empty"
  BY DEF AnswersFit
<1>2. GoesOn(calls[i], calls'[i])
  BY <1>1 DEF CallsGoOn
<1>3. \/ ~Taken(calls[i].about, calls[i].what)
      \/ \A k \in DOMAIN asking : asking[k] # calls[i].about
  BY <1>2 DEF GoesOn
<1>4. CallInOrder(calls[i], texts)
  BY DEF PageInv, CallsInOrder
<1> QED
  BY <1>3, <1>4 DEF CallInOrder

-----------------------------------------------------------------------------
\* A reply that the page says is on its way is, whatever was opened, closed,
\* blamed or delivered meanwhile.
THEOREM RepliesSaidAreSent == OfficeSpec => []SendingIsTrue
<1>1. OfficeSpec => []PageInv
  BY PageInit, PageStep, PTL DEF OfficeSpec
<1> QED
  BY <1>1, SendingFromInv, PTL

\* Nothing on its way is sent again behind the user's back, the page goes back
\* only where a refresh and the stream have crossed, drafts are kept, and no
\* answer that the page offers is refused for what it says.
THEOREM PageActsAsTold ==
  OfficeSpec => [][NotSentTwice /\ BackNoFurther /\ DraftsAreKept /\ AnswersFit]_officeVars
<1>1. OfficeSpec => []PageInv
  BY PageInit, PageStep, PTL DEF OfficeSpec
<1>2. PageInv /\ [OfficeNext]_officeVars =>
        [NotSentTwice /\ BackNoFurther /\ DraftsAreKept /\ AnswersFit]_officeVars
  BY NotTwiceStep, BackStep, DraftStep, FitStep
<1> QED
  BY <1>1, <1>2, PTL DEF OfficeSpec
=============================================================================
