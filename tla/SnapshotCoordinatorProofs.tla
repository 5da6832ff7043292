---------------------- MODULE SnapshotCoordinatorProofs ----------------------
(***************************************************************************)
(* Proofs about what the server keeps: SnapshotCoordinator, for any        *)
(* callers, sources, reasons and bounds; and IntegrationSettings, for any  *)
(* number of requests, texts, restarts and device ids.                     *)
(***************************************************************************)
EXTENDS SnapshotCoordinator, IntegrationSettings, SequenceTheorems,
        FiniteSetTheorems, TLAPS

-----------------------------------------------------------------------------
(* SnapshotCoordinator: the inductive invariant.                           *)

\* A load runs only in the warm-up or in a round, and no round starts before
\* the warm-up is over; what a load will read is not older than the cache.
RoundsInOrder ==
  /\ warm = "none" => \A c \in Callers : caller[c].at \in Returned
  /\ pump # "none" => warm = "done"
  /\ warm # "loading" /\ pump # "loading" => SourcesIdle
  /\ LoadsNeverOverlap
  /\ \A s \in Sources : \A l \in loads[s] : cached[s] <= l.from /\ l.from <= world
  /\ \A s \in Sources : cached[s] <= world

\* A request that waits for a round is known to the pump, at its strength.
RequestsInOrder ==
  /\ targetGeneration <= refreshRequested
  /\ \A c \in Callers :
       /\ caller[c].at \in {"warming", "staleWarming"} => due[c] = "none"
       /\ caller[c].at = "waiting" => due[c] # "none"
       /\ due[c] = "loading" => caller[c].at = "waiting" /\ pump = "loading"
       /\ due[c] = "queued" =>
            /\ caller[c].at = "waiting" /\ pump = "loading"
            /\ targetGeneration < refreshRequested
            /\ RefreshPriority[pendingReason] >= RefreshPriority[caller[c].reason]
  /\ RefreshAnswered

\* The assemblies in t are the newest of those requested, in the order of the
\* calls, and none copied a state older than `from'.
Chain(t, requested, from) ==
  /\ Len(t) <= requested
  /\ \A i \in 1..Len(t) : t[i].gen = (requested - Len(t)) + i /\ from <= t[i].local
  /\ \A i, j \in 1..Len(t) : i <= j => t[i].local <= t[j].local

AssembliesInOrder ==
  /\ Chain(tail, requestedAssembly, published.local)
  /\ published.gen <= requestedAssembly - Len(tail)
  /\ published.local <= local
  /\ \A s \in Sources : published.view[s] <= cached[s]
  /\ stage = "assembling" =>
       \A s \in Sources : published.view[s] <= view[s] /\ view[s] <= cached[s]
  /\ NewestBuildPublished

IInv == TypeOK /\ RoundsInOrder /\ RequestsInOrder /\ AssembliesInOrder

\* What each part of the invariant speaks of.
roundVars == <<warm, pump, caller, loads, cached, world>>
requestVars == <<pump, refreshRequested, targetGeneration, pendingReason,
                 caller, due>>
chainVars == <<tail, stage, view, requestedAssembly, published, failed, local,
               cached, dispose>>

-----------------------------------------------------------------------------
(* The operators.                                                          *)

\* The stronger of two reasons is as strong as either.
LEMMA StrongerReasonIsStronger ==
  ASSUME NEW left \in AllReasons, NEW right \in AllReasons
  PROVE  /\ StrongerReason(left, right) \in {left, right}
         /\ RefreshPriority[StrongerReason(left, right)] >= RefreshPriority[left]
         /\ RefreshPriority[StrongerReason(left, right)] >= RefreshPriority[right]
         /\ RefreshPriority \in [AllReasons -> Nat]
BY DEF StrongerReason, RefreshPriority, AllReasons

\* Without its oldest assembly a chain is a chain, whose assemblies copied no
\* state older than the one that left it.
LEMMA TailOfChain ==
  ASSUME NEW S, NEW t \in Seq(S), t # <<>>,
         NEW requested \in Nat, NEW from \in Nat, Chain(t, requested, from)
  PROVE  /\ Head(t) \in S /\ Tail(t) \in Seq(S)
         /\ Len(t) \in Nat /\ Len(Tail(t)) = Len(t) - 1
         /\ Tail(t) = <<>> => Len(t) = 1
         /\ Head(t).gen = (requested - Len(t)) + 1
         /\ from <= Head(t).local
         /\ Chain(Tail(t), requested, from)
         /\ Chain(Tail(t), requested, Head(t).local)
<1>1. Len(t) \in Nat /\ Len(t) >= 1 /\ Head(t) = t[1]
  BY EmptySeq, LenProperties
<1>2. /\ Head(t) \in S /\ Tail(t) \in Seq(S) /\ Len(Tail(t)) = Len(t) - 1
      /\ \A i \in 1..Len(Tail(t)) : Tail(t)[i] = t[i + 1]
  BY HeadTailProperties
<1>3. \A i \in 1..Len(Tail(t)) : i + 1 \in 1..Len(t) /\ 1 <= i + 1
  BY <1>1, <1>2
<1>4. Head(t).gen = (requested - Len(t)) + 1 /\ from <= Head(t).local
  BY <1>1 DEF Chain
<1>5. \A i \in 1..Len(Tail(t)) :
        /\ Tail(t)[i].gen = (requested - Len(Tail(t))) + i
        /\ from <= Tail(t)[i].local
        /\ Head(t).local <= Tail(t)[i].local
  BY <1>1, <1>2, <1>3 DEF Chain
<1>6. \A i, j \in 1..Len(Tail(t)) : i <= j => Tail(t)[i].local <= Tail(t)[j].local
  <2> SUFFICES ASSUME NEW i \in 1..Len(Tail(t)), NEW j \in 1..Len(Tail(t)), i <= j
               PROVE  Tail(t)[i].local <= Tail(t)[j].local
    OBVIOUS
  <2>1. i + 1 \in 1..Len(t) /\ j + 1 \in 1..Len(t) /\ i + 1 <= j + 1
    BY <1>1, <1>2, <1>3
  <2>2. t[i + 1].local <= t[j + 1].local
    BY <2>1 DEF Chain
  <2> QED BY <1>2, <2>2
<1>7. Len(Tail(t)) <= requested
  BY <1>1, <1>2 DEF Chain
<1>8. Tail(t) = <<>> => Len(t) = 1
  <2>1. Tail(t) = <<>> => Len(Tail(t)) = 0
    BY EmptySeq
  <2>2. /\ Len(t) \in Nat /\ Len(Tail(t)) \in Nat
        /\ Len(t) = Len(Tail(t)) + 1
    BY <1>1, <1>2
  <2> QED BY <2>1, <2>2
<1>9. Chain(Tail(t), requested, from)
  BY <1>5, <1>6, <1>7 DEF Chain
<1>10. Chain(Tail(t), requested, Head(t).local)
  BY <1>5, <1>6, <1>7 DEF Chain
<1> QED BY <1>1, <1>2, <1>4, <1>8, <1>9, <1>10

\* A chain with the assembly that is asked for now is a chain.
LEMMA ChainGrows ==
  ASSUME NEW S, NEW t \in Seq(S), NEW e \in S,
         NEW requested \in Nat, NEW from \in Nat, NEW now \in Nat, from <= now,
         \A i \in 1..Len(t) : t[i].local \in Nat /\ t[i].local <= now,
         e.gen = requested + 1, e.local = now,
         Chain(t, requested, from)
  PROVE  /\ Append(t, e) \in Seq(S) /\ Append(t, e) # <<>>
         /\ Len(t) \in Nat /\ Len(Append(t, e)) = Len(t) + 1
         /\ Chain(Append(t, e), requested + 1, from)
<1> DEFINE u == Append(t, e)
<1>1. /\ u \in Seq(S) /\ u # <<>> /\ Len(u) = Len(t) + 1
      /\ \A i \in 1..Len(t) : u[i] = t[i]
      /\ u[Len(t) + 1] = e
      /\ Len(t) \in Nat
  BY AppendProperties, LenProperties
<1> HIDE DEF u
<1>2. Len(u) <= requested + 1
  BY <1>1 DEF Chain
<1>3. \A i \in 1..Len(u) :
        u[i].gen = ((requested + 1) - Len(u)) + i /\ from <= u[i].local
  <2> SUFFICES ASSUME NEW i \in 1..Len(u)
               PROVE  u[i].gen = ((requested + 1) - Len(u)) + i /\ from <= u[i].local
    OBVIOUS
  <2>1. CASE i \in 1..Len(t)
    <3>1. t[i].gen = (requested - Len(t)) + i /\ from <= t[i].local
      BY <2>1 DEF Chain
    <3> QED BY <1>1, <2>1, <3>1
  <2>2. CASE i = Len(t) + 1
    BY <1>1, <2>2
  <2> QED BY <1>1, <2>1, <2>2
<1>4. \A i, j \in 1..Len(u) : i <= j => u[i].local <= u[j].local
  <2> SUFFICES ASSUME NEW i \in 1..Len(u), NEW j \in 1..Len(u), i <= j
               PROVE  u[i].local <= u[j].local
    OBVIOUS
  <2>1. CASE j \in 1..Len(t)
    <3>1. i \in 1..Len(t)
      BY <1>1, <2>1
    <3>2. t[i].local <= t[j].local
      BY <2>1, <3>1 DEF Chain
    <3> QED BY <1>1, <2>1, <3>1, <3>2
  <2>2. CASE j = Len(t) + 1
    <3>1. u[j].local = now
      BY <1>1, <2>2
    <3>2. CASE i \in 1..Len(t)
      BY <1>1, <3>1, <3>2
    <3>3. CASE i = j
      BY <3>1, <3>3
    <3> QED BY <1>1, <2>2, <3>2, <3>3
  <2> QED BY <1>1, <2>1, <2>2
<1> QED BY <1>1, <1>2, <1>3, <1>4 DEF Chain, u

-----------------------------------------------------------------------------
(* The invariant holds at the start, and each part while what it speaks of *)
(* does not change.                                                        *)

\* The coordinator begins with nothing requested, loading or published.
LEMMA InitIInv == Init => IInv
<1> SUFFICES ASSUME Init PROVE IInv
  OBVIOUS
<1>1. TypeOK
  <2>1. tail \in Seq(Assemblies)
    BY EmptySeq DEF Init
  <2> QED BY <2>1 DEF Init, TypeOK, AllReasons, Places, Returned, Dues
<1>2. RoundsInOrder
  BY DEF Init, RoundsInOrder, SourcesIdle, LoadsNeverOverlap, Returned
<1>3. RequestsInOrder
  BY DEF Init, RequestsInOrder, RefreshAnswered
<1>4. AssembliesInOrder
  BY DEF Init, AssembliesInOrder, Chain, NewestBuildPublished, disposed
<1> QED BY <1>1, <1>2, <1>3, <1>4 DEF IInv

LEMMA RoundsStutter ==
  ASSUME RoundsInOrder, UNCHANGED roundVars
  PROVE  RoundsInOrder'
BY DEF RoundsInOrder, roundVars, SourcesIdle, LoadsNeverOverlap

LEMMA RequestsStutter ==
  ASSUME RequestsInOrder, UNCHANGED requestVars
  PROVE  RequestsInOrder'
BY DEF RequestsInOrder, requestVars, RefreshAnswered

LEMMA AssembliesStutter ==
  ASSUME AssembliesInOrder, UNCHANGED chainVars
  PROVE  AssembliesInOrder'
BY DEF AssembliesInOrder, chainVars, Chain, NewestBuildPublished, disposed

\* A step that leaves every variable alone.
LEMMA Stutter ==
  ASSUME IInv, UNCHANGED vars
  PROVE  IInv'
<1>1. TypeOK'
  BY DEF IInv, TypeOK, vars, refreshVars, assemblyVars, disposeVars, sourceVars, Assemblies
<1>2. UNCHANGED roundVars /\ UNCHANGED requestVars /\ UNCHANGED chainVars
  BY DEF vars, refreshVars, assemblyVars, disposeVars, sourceVars, roundVars,
         requestVars, chainVars
<1> QED BY <1>1, <1>2, RoundsStutter, RequestsStutter, AssembliesStutter DEF IInv

-----------------------------------------------------------------------------
(* The environment and the sources.                                        *)

LEMMA WorldChangesIInv ==
  ASSUME IInv, WorldChanges
  PROVE  IInv'
<1>1. TypeOK'
  BY DEF IInv, TypeOK, WorldChanges, refreshVars, assemblyVars, disposeVars,
         sourceVars, Assemblies
<1>2. RoundsInOrder'
  BY DEF IInv, TypeOK, RoundsInOrder, WorldChanges, refreshVars, sourceVars,
         SourcesIdle, LoadsNeverOverlap
<1>3. UNCHANGED requestVars /\ UNCHANGED chainVars
  BY DEF WorldChanges, refreshVars, assemblyVars, disposeVars, sourceVars,
         requestVars, chainVars
<1> QED BY <1>1, <1>2, <1>3, RequestsStutter, AssembliesStutter DEF IInv

LEMMA LocalChangesIInv ==
  ASSUME IInv, LocalChanges
  PROVE  IInv'
<1>1. TypeOK'
  <2>1. tail' \in Seq(Assemblies')
    <3>1. Assemblies \subseteq Assemblies'
      BY DEF IInv, TypeOK, LocalChanges, assemblyVars, Assemblies
    <3> QED BY <3>1, SeqMonotonic DEF IInv, TypeOK, LocalChanges, assemblyVars
  <2> QED BY <2>1 DEF IInv, TypeOK, LocalChanges, refreshVars, assemblyVars,
                      disposeVars, sourceVars
<1>2. UNCHANGED roundVars /\ UNCHANGED requestVars
  BY DEF LocalChanges, refreshVars, sourceVars, roundVars, requestVars
<1>3. AssembliesInOrder'
  <2>1. AssembliesInOrder /\ TypeOK
    BY DEF IInv
  <2> QED
    BY <2>1 DEF TypeOK, AssembliesInOrder, LocalChanges, assemblyVars,
       disposeVars, sourceVars, Chain, NewestBuildPublished, disposed
<1> QED BY <1>1, <1>2, <1>3, RoundsStutter, RequestsStutter DEF IInv

LEMMA TimePassesIInv ==
  ASSUME IInv, TimePasses
  PROVE  IInv'
<1>1. TypeOK'
  BY DEF IInv, TypeOK, TimePasses, assemblyVars, disposeVars, sourceVars, Assemblies
<1>2. UNCHANGED roundVars /\ UNCHANGED requestVars /\ UNCHANGED chainVars
  BY DEF TimePasses, assemblyVars, disposeVars, sourceVars, roundVars,
         requestVars, chainVars
<1> QED BY <1>1, <1>2, RoundsStutter, RequestsStutter, AssembliesStutter DEF IInv

\* When no load is running, refreshing the sources starts one of each, which
\* will read nothing older than what is cached.
LEMMA SourcesRefreshed ==
  ASSUME TypeOK, RoundsInOrder, SourcesIdle, RefreshSources, world' = world
  PROVE  /\ cached' = cached
         /\ sourceGen' \in [Sources -> Nat]
         /\ loads' \in [Sources -> SUBSET [gen : Nat, from : Nat]]
         /\ LoadsNeverOverlap'
         /\ \A s \in Sources : \A l \in loads'[s] :
              cached[s] <= l.from /\ l.from <= world
<1>1. CASE sourcesDisposed
  BY <1>1 DEF RefreshSources, sourceVars, TypeOK, RoundsInOrder, LoadsNeverOverlap
<1>2. CASE ~sourcesDisposed
  <2>1. /\ sourceGen' = [s \in Sources |-> sourceGen[s] + 1]
        /\ loads' = [s \in Sources |-> {[gen |-> sourceGen[s] + 1, from |-> world]}]
        /\ cached' = cached
    BY <1>2 DEF RefreshSources, SourcesIdle
  <2> QED BY <2>1 DEF TypeOK, RoundsInOrder, LoadsNeverOverlap
<1> QED BY <1>1, <1>2

\* A load that settles only ever brings the cache forward.
LEMMA LoadSettlesCache ==
  ASSUME IInv, NEW s \in Sources, NEW l \in loads[s], LoadSettles(s, l)
  PROVE  /\ cached' \in [Sources -> Nat]
         /\ \A t \in Sources : cached[t] <= cached'[t] /\ cached'[t] <= world
         /\ loads'[s] = {}
         /\ \A t \in Sources : t # s => loads'[t] = loads[t] /\ cached'[t] = cached[t]
<1>1. /\ cached \in [Sources -> Nat] /\ world \in Nat /\ l.from \in Nat
      /\ cached[s] <= l.from /\ l.from <= world
      /\ \A t \in Sources : cached[t] <= world
  BY DEF IInv, TypeOK, RoundsInOrder
<1>2. loads'[s] = {} /\ \A t \in Sources : t # s => loads'[t] = loads[t]
  BY DEF IInv, TypeOK, RoundsInOrder, LoadsNeverOverlap, LoadSettles
<1>3. CASE UNCHANGED cached
  BY <1>1, <1>2, <1>3
<1>4. CASE ~UNCHANGED cached
  <2>1. PICK v \in l.from..world : cached' = [cached EXCEPT ![s] = v]
    BY <1>4 DEF LoadSettles
  <2> QED BY <1>1, <1>2, <2>1
<1> QED BY <1>3, <1>4

LEMMA LoadSettlesIInv ==
  ASSUME IInv, NEW s \in Sources, NEW l \in loads[s], LoadSettles(s, l)
  PROVE  IInv'
<1>1. UNCHANGED <<refreshVars, caller, assemblyVars, disposeVars, sourceGen,
                  world, local, due>>
  BY DEF LoadSettles
<1>2. loads' \in [Sources -> SUBSET [gen : Nat, from : Nat]]
  BY DEF IInv, TypeOK, LoadSettles
<1>3. TypeOK'
  <2>1. cached' \in [Sources -> Nat]
    BY LoadSettlesCache
  <2> QED BY <1>1, <1>2, <2>1 DEF IInv, TypeOK, refreshVars, assemblyVars,
             disposeVars, Assemblies
<1>4. RoundsInOrder'
  <2>1. /\ \A t \in Sources : loads'[t] = {} \/ (t # s /\ loads'[t] = loads[t])
        /\ \A t \in Sources : cached'[t] <= world
        /\ \A t \in Sources : t # s => cached'[t] = cached[t]
    BY LoadSettlesCache
  <2>2. UNCHANGED <<warm, pump, caller, world>>
    BY <1>1 DEF refreshVars
  <2>3. (warm # "loading" /\ pump # "loading" => SourcesIdle)'
    BY <2>2 DEF IInv, RoundsInOrder, SourcesIdle
  <2> QED BY <2>1, <2>2, <2>3 DEF IInv, RoundsInOrder, LoadsNeverOverlap
<1>5. UNCHANGED requestVars
  BY <1>1 DEF refreshVars, requestVars
<1>6. AssembliesInOrder'
  <2>1. \A t \in Sources : /\ published.view[t] \in Nat /\ view[t] \in Nat
                           /\ cached[t] \in Nat /\ cached'[t] \in Nat
    BY LoadSettlesCache DEF IInv, TypeOK
  <2> QED BY <1>1, <2>1, LoadSettlesCache DEF IInv, AssembliesInOrder,
             assemblyVars, disposeVars, Chain, NewestBuildPublished, disposed
<1> QED BY <1>3, <1>4, <1>5, <1>6, RequestsStutter DEF IInv

-----------------------------------------------------------------------------
(* warm(), refresh(), refreshIfStale() and the pump.                       *)

\* What warm() does to the loads, whoever calls it.
LEMMA Warmed ==
  ASSUME TypeOK, RoundsInOrder, Warm, world' = world
  PROVE  /\ warm' \in {"loading", "done"} /\ (warm # "none" => warm' = warm)
         /\ warm = "none" => warm' = "loading" /\ pump = "none"
         /\ cached' = cached
         /\ sourceGen' \in [Sources -> Nat]
         /\ loads' \in [Sources -> SUBSET [gen : Nat, from : Nat]]
         /\ LoadsNeverOverlap'
         /\ \A s \in Sources : \A l \in loads'[s] :
              cached[s] <= l.from /\ l.from <= world
         /\ warm' # "loading" => loads' = loads
<1>1. CASE warm = "none"
  <2>1. SourcesIdle /\ RefreshSources /\ warm' = "loading" /\ pump = "none"
    BY <1>1 DEF Warm, TypeOK, RoundsInOrder
  <2> QED BY <1>1, <2>1, SourcesRefreshed
<1>2. CASE warm # "none"
  BY <1>2 DEF Warm, TypeOK, RoundsInOrder, LoadsNeverOverlap, sourceVars
<1> QED BY <1>1, <1>2

LEMMA WarmEndsIInv ==
  ASSUME IInv, WarmEnds
  PROVE  IInv'
<1>1. TypeOK'
  BY DEF IInv, TypeOK, WarmEnds, assemblyVars, disposeVars, sourceVars, Assemblies
<1>2. RoundsInOrder'
  BY DEF IInv, TypeOK, RoundsInOrder, WarmEnds, sourceVars, SourcesIdle,
         LoadsNeverOverlap
<1>3. UNCHANGED requestVars /\ UNCHANGED chainVars
  BY DEF WarmEnds, assemblyVars, disposeVars, sourceVars, requestVars, chainVars
<1> QED BY <1>1, <1>2, <1>3, RequestsStutter, AssembliesStutter DEF IInv

LEMMA CallIInv ==
  ASSUME IInv, NEW c \in Callers, NEW r \in Reasons,
         NEW place \in {"warming", "staleWarming"}, Call(c, place, r)
  PROVE  IInv'
<1>1. /\ caller[c].at \in Returned
      /\ UNCHANGED <<pump, refreshRequested, refreshCompleted, targetGeneration,
                     pendingReason, stale, assemblyVars, disposeVars, world, local>>
      /\ due' = [due EXCEPT ![c] = "none"]
  BY DEF Call
<1>2. PICK at \in {"threw", place} :
        caller' = [caller EXCEPT ![c] = [at |-> at, reason |-> r]]
  BY DEF Call
<1>3. /\ warm' \in {"none", "loading", "done"}
      /\ warm = "none" /\ warm' # "none" => warm' = "loading" /\ pump = "none"
      /\ warm # "none" => warm' = warm
      /\ cached' = cached
      /\ sourceGen' \in [Sources -> Nat]
      /\ loads' \in [Sources -> SUBSET [gen : Nat, from : Nat]]
      /\ LoadsNeverOverlap'
      /\ \A s \in Sources : \A l \in loads'[s] :
           cached[s] <= l.from /\ l.from <= world
      /\ warm' # "loading" => loads' = loads
      /\ warm' = "none" => at = "threw"
  <2>1. CASE disposed
    BY <1>2, <2>1 DEF Call, sourceVars, IInv, TypeOK, RoundsInOrder, LoadsNeverOverlap
  <2>2. CASE ~disposed
    BY <1>1, <2>2, Warmed DEF Call, IInv, TypeOK
  <2> QED BY <2>1, <2>2
<1>4. r \in AllReasons /\ at \in Places
  BY ReasonsAssumption DEF Places, Returned
<1>5. TypeOK'
  BY <1>1, <1>2, <1>3, <1>4 DEF IInv, TypeOK, assemblyVars, disposeVars,
     Assemblies, Dues
<1>6. RoundsInOrder'
  <2>1. (warm = "none" => \A d \in Callers : caller[d].at \in Returned)'
    BY <1>2, <1>3 DEF IInv, TypeOK, RoundsInOrder, Returned
  <2>2. (warm # "loading" /\ pump # "loading" => SourcesIdle)'
    BY <1>1, <1>3 DEF IInv, RoundsInOrder, SourcesIdle
  <2> QED BY <1>1, <1>3, <2>1, <2>2 DEF IInv, RoundsInOrder
<1>7. RequestsInOrder'
  BY <1>1, <1>2 DEF IInv, TypeOK, RequestsInOrder, RefreshAnswered, Returned
<1>8. UNCHANGED chainVars
  BY <1>1, <1>3 DEF assemblyVars, disposeVars, chainVars
<1> QED BY <1>5, <1>6, <1>7, <1>8, AssembliesStutter DEF IInv

LEMMA ResumeIfStaleIInv ==
  ASSUME IInv, NEW c \in Callers, ResumeIfStale(c)
  PROVE  IInv'
<1>1. PICK at \in {"skipped", "threw", "warming"} :
        caller' = [caller EXCEPT ![c].at = at]
  BY DEF ResumeIfStale
<1>2. /\ caller[c].at = "staleWarming" /\ warm = "done"
      /\ UNCHANGED <<refreshVars, assemblyVars, disposeVars, sourceVars, world,
                     local, due>>
  BY DEF ResumeIfStale
<1>3. TypeOK'
  BY <1>1, <1>2 DEF IInv, TypeOK, refreshVars, assemblyVars, disposeVars,
     sourceVars, Assemblies, Places, Returned
<1>4. RoundsInOrder'
  BY <1>1, <1>2 DEF IInv, RoundsInOrder, refreshVars, sourceVars, SourcesIdle,
     LoadsNeverOverlap
<1>5. RequestsInOrder'
  BY <1>1, <1>2 DEF IInv, TypeOK, RequestsInOrder, RefreshAnswered, refreshVars
<1>6. UNCHANGED chainVars
  BY <1>2 DEF assemblyVars, disposeVars, sourceVars, chainVars
<1> QED BY <1>3, <1>4, <1>5, <1>6, AssembliesStutter DEF IInv

\* A round begins when no load runs: nothing waits any more that the round is
\* strong enough for.
LEMMA RoundStarts ==
  ASSUME TypeOK, RoundsInOrder, SourcesIdle, world' = world,
         NEW requested \in Nat, NEW reason \in AllReasons,
         NEW dues \in [Callers -> Dues], StartRound(requested, reason, dues)
  PROVE  /\ pump' = "loading" /\ targetGeneration' = requested
         /\ pendingReason' = "interval"
         /\ due' \in [Callers -> Dues]
         /\ \A d \in Callers :
              due'[d] = IF /\ dues[d] = "queued"
                           /\ RefreshPriority[reason] >= RefreshPriority[caller[d].reason]
                        THEN "loading" ELSE dues[d]
         /\ cached' = cached
         /\ sourceGen' \in [Sources -> Nat]
         /\ loads' \in [Sources -> SUBSET [gen : Nat, from : Nat]]
         /\ LoadsNeverOverlap'
         /\ \A s \in Sources : \A l \in loads'[s] :
              cached[s] <= l.from /\ l.from <= world
<1>1. RefreshSources
  BY DEF StartRound
<1> QED BY <1>1, SourcesRefreshed DEF StartRound, Dues, AllReasons

\* The reasons that callers and the pump remember, and how strong they are.
LEMMA ReasonsHavePriority ==
  ASSUME TypeOK
  PROVE  /\ pendingReason \in AllReasons
         /\ \A d \in Callers : /\ caller[d].reason \in AllReasons
                               /\ RefreshPriority[caller[d].reason] \in Nat
         /\ \A r \in AllReasons : RefreshPriority[r] \in Nat
BY StrongerReasonIsStronger DEF TypeOK

LEMMA ResumeRefreshIInv ==
  ASSUME IInv, NEW c \in Callers, ResumeRefresh(c)
  PROVE  IInv'
<1> DEFINE reason == StrongerReason(pendingReason, caller[c].reason)
<1>1. /\ caller[c].at = "warming" /\ warm = "done" /\ due[c] = "none"
      /\ refreshRequested \in Nat /\ refreshRequested' = refreshRequested + 1
      /\ targetGeneration \in Nat /\ targetGeneration <= refreshRequested
      /\ caller' = [caller EXCEPT ![c].at = "waiting"]
      /\ UNCHANGED <<warm, refreshCompleted, stale, assemblyVars, disposeVars,
                     world, local>>
  BY DEF ResumeRefresh, IInv, TypeOK, RequestsInOrder
<1>2. /\ reason \in AllReasons
      /\ RefreshPriority[reason] \in Nat
      /\ RefreshPriority[reason] >= RefreshPriority[pendingReason]
      /\ RefreshPriority[reason] >= RefreshPriority[caller[c].reason]
  BY StrongerReasonIsStronger, ReasonsHavePriority DEF IInv
<1>3. /\ caller' \in [Callers -> [at : Places, reason : AllReasons]]
      /\ \A d \in Callers : caller'[d].reason = caller[d].reason
      /\ \A d \in Callers : d # c => caller'[d].at = caller[d].at
      /\ caller'[c].at = "waiting"
  BY <1>1 DEF IInv, TypeOK, Places
<1>4. CASE StartsPump
  <2> DEFINE dues == [due EXCEPT ![c] = "queued"]
  <2>1. /\ pump = "none" /\ SourcesIdle
        /\ dues \in [Callers -> Dues]
        /\ StartRound(refreshRequested', reason, dues)
    BY <1>1, <1>4 DEF ResumeRefresh, StartsPump, IInv, TypeOK, RoundsInOrder, Dues
  <2> HIDE DEF reason
  <2>2. /\ pump' = "loading" /\ targetGeneration' = refreshRequested'
        /\ pendingReason' = "interval"
        /\ due' \in [Callers -> Dues]
        /\ \A d \in Callers :
             due'[d] = IF /\ dues[d] = "queued"
                          /\ RefreshPriority[reason] >= RefreshPriority[caller[d].reason]
                       THEN "loading" ELSE dues[d]
        /\ cached' = cached
        /\ sourceGen' \in [Sources -> Nat]
        /\ loads' \in [Sources -> SUBSET [gen : Nat, from : Nat]]
        /\ LoadsNeverOverlap'
        /\ \A s \in Sources : \A l \in loads'[s] :
             cached[s] <= l.from /\ l.from <= world
    <3>1. refreshRequested' \in Nat
      BY <1>1
    <3> HIDE DEF dues
    <3> QED BY <1>1, <1>2, <2>1, <3>1, RoundStarts DEF IInv
  <2>3. due'[c] = "loading" /\ \A d \in Callers : d # c => due'[d] = due[d]
    BY <1>2, <2>1, <2>2 DEF IInv, TypeOK, RequestsInOrder
  <2>4. TypeOK'
    BY <1>1, <1>3, <2>2 DEF IInv, TypeOK, assemblyVars, disposeVars, Assemblies,
       AllReasons
  <2>5. RoundsInOrder'
    BY <1>1, <2>2 DEF IInv, RoundsInOrder
  <2>6. RequestsInOrder'
    <3>1. \A d \in Callers : due[d] # "queued"
      BY <2>1 DEF IInv, RequestsInOrder
    <3> QED BY <1>1, <1>3, <2>1, <2>2, <2>3, <3>1 DEF IInv, RequestsInOrder,
               RefreshAnswered
  <2>7. UNCHANGED chainVars
    BY <1>1, <2>2 DEF assemblyVars, disposeVars, chainVars
  <2> QED BY <2>4, <2>5, <2>6, <2>7, AssembliesStutter DEF IInv
<1>5. CASE ~StartsPump
  <2> HIDE DEF reason
  <2>1. /\ pump \in {"loading", "drained"}
        /\ pendingReason' = reason
        /\ due' = [due EXCEPT ![c] = IF pump = "drained" THEN "late" ELSE "queued"]
        /\ UNCHANGED <<pump, targetGeneration, sourceVars>>
    BY <1>5 DEF ResumeRefresh, StartsPump, IInv, TypeOK, reason
  <2>2. TypeOK'
    <3>1. due' \in [Callers -> Dues]
      BY <2>1 DEF IInv, TypeOK, Dues
    <3>2. pump' \in {"none", "loading", "drained"} /\ pendingReason' \in AllReasons
      BY <1>2, <2>1
    <3>3. refreshRequested' \in Nat
      BY <1>1
    <3> QED BY <1>1, <1>3, <2>1, <3>1, <3>2, <3>3 DEF IInv, TypeOK,
               assemblyVars, disposeVars, sourceVars, Assemblies
  <2>3. RoundsInOrder'
    BY <1>1, <2>1 DEF IInv, RoundsInOrder, sourceVars, SourcesIdle, LoadsNeverOverlap
  <2>4. RequestsInOrder'
    <3>1. \A d \in Callers : due[d] = "queued" =>
            RefreshPriority[reason] >= RefreshPriority[caller[d].reason]
      BY <1>2, ReasonsHavePriority DEF IInv, RequestsInOrder
    <3>2. /\ due \in [Callers -> Dues]
          /\ \A d \in Callers : d # c => due'[d] = due[d]
          /\ due'[c] = IF pump = "drained" THEN "late" ELSE "queued"
      BY <2>1 DEF IInv, TypeOK
    <3> QED BY <1>1, <1>2, <1>3, <2>1, <3>1, <3>2 DEF IInv, RequestsInOrder,
               RefreshAnswered
  <2>5. UNCHANGED chainVars
    BY <1>1, <2>1 DEF assemblyVars, disposeVars, sourceVars, chainVars
  <2> QED BY <2>2, <2>3, <2>4, <2>5, AssembliesStutter DEF IInv
<1> QED BY <1>4, <1>5

LEMMA RoundEndsIInv ==
  ASSUME IInv, RoundEnds
  PROVE  IInv'
<1>1. /\ pump = "loading" /\ SourcesIdle /\ warm = "done"
      /\ refreshCompleted' = targetGeneration /\ stale' = FALSE
      /\ UNCHANGED <<warm, refreshRequested, caller, assemblyVars, disposeVars,
                     world, local>>
      /\ refreshRequested \in Nat /\ targetGeneration \in Nat
      /\ targetGeneration <= refreshRequested
  BY DEF RoundEnds, IInv, TypeOK, RoundsInOrder, RequestsInOrder
<1>2. /\ Served(due) \in [Callers -> Dues]
      /\ \A d \in Callers :
           Served(due)[d] = IF due[d] = "loading" THEN "served" ELSE due[d]
  BY DEF IInv, TypeOK, Served, Dues
<1>3. CASE targetGeneration < refreshRequested
  <2>1. StartRound(refreshRequested, pendingReason, Served(due))
    BY <1>3 DEF RoundEnds
  <2>2. /\ pump' = "loading" /\ targetGeneration' = refreshRequested
        /\ pendingReason' = "interval"
        /\ due' \in [Callers -> Dues]
        /\ \A d \in Callers :
             due'[d] = IF /\ Served(due)[d] = "queued"
                          /\ RefreshPriority[pendingReason]
                               >= RefreshPriority[caller[d].reason]
                       THEN "loading" ELSE Served(due)[d]
        /\ cached' = cached
        /\ sourceGen' \in [Sources -> Nat]
        /\ loads' \in [Sources -> SUBSET [gen : Nat, from : Nat]]
        /\ LoadsNeverOverlap'
        /\ \A s \in Sources : \A l \in loads'[s] :
             cached[s] <= l.from /\ l.from <= world
    BY <1>1, <1>2, <2>1, RoundStarts DEF IInv, TypeOK
  <2>3. \A d \in Callers :
          due'[d] = IF due[d] = "loading" THEN "served"
                    ELSE IF due[d] = "queued" THEN "loading" ELSE due[d]
    BY <1>2, <2>2 DEF IInv, RequestsInOrder
  <2>4. TypeOK'
    BY <1>1, <2>2 DEF IInv, TypeOK, assemblyVars, disposeVars, Assemblies, AllReasons
  <2>5. RoundsInOrder'
    BY <1>1, <2>2 DEF IInv, RoundsInOrder
  <2>6. RequestsInOrder'
    BY <1>1, <2>2, <2>3 DEF IInv, RequestsInOrder, RefreshAnswered
  <2>7. UNCHANGED chainVars
    BY <1>1, <2>2 DEF assemblyVars, disposeVars, chainVars
  <2> QED BY <2>4, <2>5, <2>6, <2>7, AssembliesStutter DEF IInv
<1>4. CASE ~(targetGeneration < refreshRequested)
  <2>1. /\ pump' = "drained" /\ due' = Served(due)
        /\ UNCHANGED <<targetGeneration, pendingReason, sourceVars>>
    BY <1>4 DEF RoundEnds
  <2>2. TypeOK'
    BY <1>1, <1>2, <2>1 DEF IInv, TypeOK, assemblyVars, disposeVars, sourceVars,
       Assemblies
  <2>3. RoundsInOrder'
    BY <1>1, <2>1 DEF IInv, RoundsInOrder, sourceVars, SourcesIdle, LoadsNeverOverlap
  <2>4. RequestsInOrder'
    BY <1>1, <1>2, <1>4, <2>1 DEF IInv, RequestsInOrder, RefreshAnswered
  <2>5. UNCHANGED chainVars
    BY <1>1, <2>1 DEF assemblyVars, disposeVars, sourceVars, chainVars
  <2> QED BY <2>2, <2>3, <2>4, <2>5, AssembliesStutter DEF IInv
<1> QED BY <1>3, <1>4

\* Whoever still awaits the pump when it is cleared was answered, or came after
\* its loop had ended.
LEMMA PumpClearedIInv ==
  ASSUME IInv, PumpCleared
  PROVE  IInv'
<1>1. /\ pump = "drained" /\ pump' = "none" /\ disposeWaits' = FALSE
      /\ UNCHANGED <<warm, refreshRequested, refreshCompleted, targetGeneration,
                     pendingReason, stale, assemblyVars, dispose,
                     sourcesDisposed, sourceVars, world, local, due>>
  BY DEF PumpCleared
<1>2. /\ caller' \in [Callers -> [at : Places, reason : AllReasons]]
      /\ \A d \in Callers :
           /\ caller'[d].reason = caller[d].reason
           /\ caller'[d].at = IF caller[d].at = "waiting" THEN "done"
                              ELSE caller[d].at
  BY DEF PumpCleared, IInv, TypeOK, Places, Returned
<1>3. TypeOK'
  BY <1>1, <1>2 DEF IInv, TypeOK, assemblyVars, sourceVars, Assemblies
<1>4. RoundsInOrder'
  BY <1>1, <1>2 DEF IInv, RoundsInOrder, sourceVars, SourcesIdle,
     LoadsNeverOverlap, Returned
<1>5. RequestsInOrder'
  <2>1. \A d \in Callers : due[d] \in Dues
    BY DEF IInv, TypeOK
  <2> QED BY <1>1, <1>2, <2>1 DEF IInv, RequestsInOrder, RefreshAnswered, Dues
<1>6. UNCHANGED chainVars
  BY <1>1 DEF assemblyVars, sourceVars, chainVars
<1> QED BY <1>3, <1>4, <1>5, <1>6, AssembliesStutter DEF IInv

-----------------------------------------------------------------------------
(* buildSnapshot() and dispose().                                          *)

LEMMA BuildSnapshotIInv ==
  ASSUME IInv, BuildSnapshot
  PROVE  IInv'
<1> DEFINE e == [gen |-> requestedAssembly + 1, local |-> local]
<1>1. /\ requestedAssembly' = requestedAssembly + 1
      /\ tail' = Append(tail, e)
      /\ UNCHANGED <<refreshVars, caller, stage, view, published, failed,
                     disposeVars, sourceVars, world, local, due>>
  BY DEF BuildSnapshot
<1>2. /\ requestedAssembly \in Nat /\ local \in Nat /\ published.local \in Nat
      /\ published.gen \in Nat /\ tail \in Seq(Assemblies)
  BY DEF IInv, TypeOK
<1>3. /\ tail' \in Seq(Assemblies') /\ tail' # <<>>
      /\ Len(tail) \in Nat /\ Len(tail') = Len(tail) + 1
      /\ Chain(tail', requestedAssembly', published.local)
  <2>1. Assemblies \subseteq Assemblies' /\ e \in Assemblies'
    BY <1>1, <1>2 DEF Assemblies
  <2>2. tail \in Seq(Assemblies')
    BY <1>2, <2>1, SeqMonotonic
  <2>3. \A i \in 1..Len(tail) : tail[i].local \in Nat /\ tail[i].local <= local
    <3>1. \A i \in 1..Len(tail) : tail[i] \in Assemblies
      BY <1>2, ElementOfSeq
    <3> QED BY <1>2, <3>1 DEF Assemblies
  <2>4. e.gen = requestedAssembly + 1 /\ e.local = local
    OBVIOUS
  <2>5. /\ Chain(tail, requestedAssembly, published.local)
        /\ published.local <= local
    BY DEF IInv, AssembliesInOrder
  <2> HIDE DEF e
  <2> QED BY <1>1, <1>2, <2>1, <2>2, <2>3, <2>4, <2>5, ChainGrows
<1> HIDE DEF e
<1>4. TypeOK'
  BY <1>1, <1>2, <1>3 DEF IInv, TypeOK, refreshVars, disposeVars, sourceVars
<1>5. UNCHANGED roundVars /\ UNCHANGED requestVars
  BY <1>1 DEF refreshVars, sourceVars, roundVars, requestVars
<1>6. AssembliesInOrder'
  <2>1. /\ published' = published /\ local' = local /\ view' = view
        /\ cached' = cached /\ stage' = stage
    BY <1>1 DEF sourceVars
  <2> QED BY <1>1, <1>2, <1>3, <2>1 DEF IInv, AssembliesInOrder, NewestBuildPublished
<1> QED BY <1>4, <1>5, <1>6, RoundsStutter, RequestsStutter DEF IInv

\* What the oldest assembly leaves behind when it settles.
LEMMA OldestSettles ==
  ASSUME IInv, tail # <<>>, Settle, UNCHANGED <<requestedAssembly, local>>
  PROVE  /\ tail' \in Seq(Assemblies') /\ Len(tail) \in Nat
         /\ Len(tail') = Len(tail) - 1 /\ stage' = "queued"
         /\ Head(tail) \in [gen : Nat, local : Nat] /\ Head(tail).local <= local
         /\ Head(tail).gen = (requestedAssembly - Len(tail)) + 1
         /\ published.local <= Head(tail).local
         /\ Chain(tail', requestedAssembly, published.local)
         /\ Chain(tail', requestedAssembly, Head(tail).local)
         /\ tail' = <<>> => Len(tail) = 1
<1>1. /\ requestedAssembly \in Nat /\ local \in Nat /\ published.local \in Nat
      /\ tail \in Seq(Assemblies)
      /\ Chain(tail, requestedAssembly, published.local)
  BY DEF IInv, TypeOK, AssembliesInOrder
<1>2. /\ Head(tail) \in Assemblies /\ Tail(tail) \in Seq(Assemblies)
      /\ Len(tail) \in Nat /\ Len(Tail(tail)) = Len(tail) - 1
      /\ Tail(tail) = <<>> => Len(tail) = 1
      /\ Head(tail).gen = (requestedAssembly - Len(tail)) + 1
      /\ published.local <= Head(tail).local
      /\ Chain(Tail(tail), requestedAssembly, published.local)
      /\ Chain(Tail(tail), requestedAssembly, Head(tail).local)
  BY <1>1, TailOfChain
<1>3. Head(tail) \in [gen : Nat, local : Nat] /\ Head(tail).local <= local
  BY <1>1, <1>2 DEF Assemblies
<1>4. Assemblies' = Assemblies
  BY DEF Assemblies
<1> QED BY <1>2, <1>3, <1>4 DEF Settle

LEMMA AssemblyStartsIInv ==
  ASSUME IInv, AssemblyStarts
  PROVE  IInv'
<1>1. /\ tail # <<>> /\ stage = "queued"
      /\ UNCHANGED <<pump, refreshRequested, refreshCompleted, targetGeneration,
                     pendingReason, stale, caller, view, requestedAssembly,
                     published, failed, disposeVars, world, local, due>>
  BY DEF AssemblyStarts
<1>2. UNCHANGED requestVars
  BY <1>1 DEF requestVars
<1>3. CASE MayStart(Head(tail))
  <2>1. stage' = "warming" /\ tail' = tail /\ Warm
    BY <1>3 DEF AssemblyStarts
  <2>2. /\ warm' \in {"loading", "done"} /\ (warm # "none" => warm' = warm)
        /\ warm = "none" => warm' = "loading" /\ pump = "none"
        /\ cached' = cached
        /\ sourceGen' \in [Sources -> Nat]
        /\ loads' \in [Sources -> SUBSET [gen : Nat, from : Nat]]
        /\ LoadsNeverOverlap'
        /\ \A s \in Sources : \A l \in loads'[s] :
             cached[s] <= l.from /\ l.from <= world
        /\ warm' # "loading" => loads' = loads
    BY <1>1, <2>1, Warmed DEF IInv
  <2>3. TypeOK'
    BY <1>1, <2>1, <2>2 DEF IInv, TypeOK, disposeVars, Assemblies
  <2>4. RoundsInOrder'
    <3>1. (warm # "loading" /\ pump # "loading" => SourcesIdle)'
      BY <1>1, <2>2 DEF IInv, RoundsInOrder, SourcesIdle
    <3> QED BY <1>1, <2>2, <3>1 DEF IInv, RoundsInOrder
  <2>5. AssembliesInOrder'
    BY <1>1, <2>1, <2>2 DEF IInv, AssembliesInOrder, disposeVars, Chain,
       NewestBuildPublished, disposed
  <2> QED BY <1>2, <2>3, <2>4, <2>5, RequestsStutter DEF IInv
<1>4. CASE ~MayStart(Head(tail))
  <2>1. Settle /\ UNCHANGED <<warm, sourceVars>>
    BY <1>4 DEF AssemblyStarts
  <2>2. TypeOK'
    BY <1>1, <2>1, OldestSettles DEF IInv, TypeOK, disposeVars, sourceVars
  <2>3. UNCHANGED roundVars
    BY <1>1, <2>1 DEF sourceVars, roundVars
  <2>4. NewestBuildPublished'
    <3>1. disposed \/ Head(tail).gen # requestedAssembly
      BY <1>4 DEF MayStart
    <3>2. Head(tail).gen = (requestedAssembly - Len(tail)) + 1
          /\ requestedAssembly \in Nat /\ (tail' = <<>> => Len(tail) = 1)
      BY <1>1, <2>1, OldestSettles DEF IInv, TypeOK
    <3>3. Len(tail) = 1 => disposed
      <4>1. Len(tail) = 1 => Head(tail).gen = requestedAssembly
        BY <3>2
      <4> QED BY <3>1, <4>1
    <3> QED BY <1>1, <3>2, <3>3 DEF NewestBuildPublished, disposed, disposeVars
  <2>5. AssembliesInOrder'
    BY <1>1, <2>1, <2>4, OldestSettles DEF IInv, TypeOK, AssembliesInOrder,
       sourceVars
  <2> QED BY <1>2, <2>2, <2>3, <2>5, RoundsStutter, RequestsStutter DEF IInv
<1> QED BY <1>3, <1>4

LEMMA BuildLocalIInv ==
  ASSUME IInv, BuildLocal
  PROVE  IInv'
<1>1. TypeOK'
  BY DEF IInv, TypeOK, BuildLocal, refreshVars, disposeVars, sourceVars, Assemblies
<1>2. UNCHANGED roundVars /\ UNCHANGED requestVars
  BY DEF BuildLocal, refreshVars, sourceVars, roundVars, requestVars
<1>3. AssembliesInOrder'
  BY DEF IInv, AssembliesInOrder, BuildLocal, disposeVars, sourceVars, Chain,
         NewestBuildPublished, disposed
<1> QED BY <1>1, <1>2, <1>3, RoundsStutter, RequestsStutter DEF IInv

LEMMA AssembleIInv ==
  ASSUME IInv, Assemble
  PROVE  IInv'
<1>1. TypeOK'
  BY DEF IInv, TypeOK, Assemble, refreshVars, disposeVars, sourceVars, Assemblies
<1>2. UNCHANGED roundVars /\ UNCHANGED requestVars
  BY DEF Assemble, refreshVars, sourceVars, roundVars, requestVars
<1>3. AssembliesInOrder'
  <2>1. /\ view' = cached /\ cached' = cached
        /\ \A s \in Sources : cached[s] <= cached[s]
    BY DEF Assemble, sourceVars, IInv, TypeOK
  <2> QED BY <2>1 DEF IInv, AssembliesInOrder, Assemble, disposeVars, Chain,
             NewestBuildPublished, disposed
<1> QED BY <1>1, <1>2, <1>3, RoundsStutter, RequestsStutter DEF IInv

LEMMA AssemblyEndsIInv ==
  ASSUME IInv, AssemblyEnds
  PROVE  IInv'
<1>1. /\ tail # <<>> /\ stage = "assembling" /\ Settle
      /\ UNCHANGED <<refreshVars, caller, view, requestedAssembly, failed,
                     disposeVars, sourceVars, world, local, due>>
  BY DEF AssemblyEnds
<1>2. /\ tail' \in Seq(Assemblies') /\ Len(tail) \in Nat
      /\ Len(tail') = Len(tail) - 1 /\ stage' = "queued"
      /\ Head(tail) \in [gen : Nat, local : Nat] /\ Head(tail).local <= local
      /\ Head(tail).gen = (requestedAssembly - Len(tail)) + 1
      /\ published.local <= Head(tail).local
      /\ Chain(tail', requestedAssembly, published.local)
      /\ Chain(tail', requestedAssembly, Head(tail).local)
      /\ tail' = <<>> => Len(tail) = 1
  BY <1>1, OldestSettles
<1>3. UNCHANGED roundVars /\ UNCHANGED requestVars
  BY <1>1 DEF refreshVars, sourceVars, roundVars, requestVars
<1>4. CASE MayPublish(Head(tail))
  <2>1. /\ published' = [gen |-> Head(tail).gen, local |-> Head(tail).local,
                         view |-> view]
        /\ Head(tail).gen = requestedAssembly
    BY <1>4 DEF AssemblyEnds, MayPublish
  <2>2. TypeOK'
    BY <1>1, <1>2, <2>1 DEF IInv, TypeOK, refreshVars, disposeVars, sourceVars
  <2>3. AssembliesInOrder'
    BY <1>1, <1>2, <2>1 DEF IInv, TypeOK, AssembliesInOrder, sourceVars,
       NewestBuildPublished
  <2> QED BY <1>3, <2>2, <2>3, RoundsStutter, RequestsStutter DEF IInv
<1>5. CASE ~MayPublish(Head(tail))
  <2>1. published' = published
    BY <1>5 DEF AssemblyEnds
  <2>2. TypeOK'
    BY <1>1, <1>2, <2>1 DEF IInv, TypeOK, refreshVars, disposeVars, sourceVars
  <2>3. NewestBuildPublished'
    <3>1. disposed \/ Head(tail).gen # requestedAssembly
      BY <1>5 DEF MayPublish
    <3>2. Len(tail) = 1 => disposed
      <4>1. Len(tail) = 1 => Head(tail).gen = requestedAssembly
        BY <1>2 DEF IInv, TypeOK
      <4> QED BY <3>1, <4>1
    <3> QED BY <1>1, <1>2, <3>2 DEF NewestBuildPublished, disposed, disposeVars
  <2>4. AssembliesInOrder'
    BY <1>1, <1>2, <2>1, <2>3 DEF IInv, TypeOK, AssembliesInOrder, sourceVars
  <2> QED BY <1>3, <2>2, <2>4, RoundsStutter, RequestsStutter DEF IInv
<1> QED BY <1>4, <1>5

LEMMA AssemblyThrowsIInv ==
  ASSUME IInv, AssemblyThrows
  PROVE  IInv'
<1>1. /\ tail # <<>> /\ Settle /\ failed' = failed \cup {Head(tail).gen}
      /\ UNCHANGED <<refreshVars, caller, view, requestedAssembly, published,
                     disposeVars, sourceVars, world, local, due>>
  BY DEF AssemblyThrows
<1>2. /\ tail' \in Seq(Assemblies') /\ Len(tail) \in Nat
      /\ Len(tail') = Len(tail) - 1 /\ stage' = "queued"
      /\ Head(tail) \in [gen : Nat, local : Nat]
      /\ Head(tail).gen = (requestedAssembly - Len(tail)) + 1
      /\ Chain(tail', requestedAssembly, published.local)
      /\ tail' = <<>> => Len(tail) = 1
  BY <1>1, OldestSettles
<1>3. UNCHANGED roundVars /\ UNCHANGED requestVars
  BY <1>1 DEF refreshVars, sourceVars, roundVars, requestVars
<1>4. TypeOK'
  BY <1>1, <1>2 DEF IInv, TypeOK, refreshVars, disposeVars, sourceVars
<1>5. NewestBuildPublished'
  <2>1. Len(tail) = 1 => requestedAssembly \in failed'
    BY <1>1, <1>2 DEF IInv, TypeOK
  <2> QED BY <1>1, <1>2, <2>1 DEF NewestBuildPublished
<1>6. AssembliesInOrder'
  BY <1>1, <1>2, <1>5 DEF IInv, TypeOK, AssembliesInOrder, sourceVars
<1> QED BY <1>3, <1>4, <1>6, RoundsStutter, RequestsStutter DEF IInv

\* dispose() marks the coordinator, awaits what runs, and closes the sources.
LEMMA DisposalIInv ==
  ASSUME IInv, Dispose \/ Disposal
  PROVE  IInv'
<1>1. /\ UNCHANGED <<refreshVars, caller, assemblyVars, loads, cached, world,
                     local, due>>
      /\ dispose' \in {"pump", "tail", "done"}
      /\ disposeWaits' \in BOOLEAN /\ sourcesDisposed' \in BOOLEAN
      /\ sourceGen' \in [Sources -> Nat]
  <2>1. CASE Dispose \/ DisposeAwaitsTail
    BY <2>1 DEF Dispose, DisposeAwaitsTail, sourceVars, IInv, TypeOK
  <2>2. CASE DisposeSources
    BY <2>2 DEF DisposeSources, IInv, TypeOK
  <2> QED BY <2>1, <2>2 DEF Disposal
<1>2. TypeOK'
  BY <1>1 DEF IInv, TypeOK, refreshVars, assemblyVars, Assemblies
<1>3. UNCHANGED roundVars /\ UNCHANGED requestVars
  BY <1>1 DEF refreshVars, roundVars, requestVars
<1>4. AssembliesInOrder'
  BY <1>1 DEF IInv, AssembliesInOrder, assemblyVars, Chain, NewestBuildPublished,
     disposed
<1> QED BY <1>2, <1>3, <1>4, RoundsStutter, RequestsStutter DEF IInv

-----------------------------------------------------------------------------
(* Every step keeps the invariant.                                         *)

LEMMA NextIInv == IInv /\ [Next]_vars => IInv'
<1> SUFFICES ASSUME IInv, [Next]_vars PROVE IInv'
  OBVIOUS
<1>1. CASE WorldChanges \/ LocalChanges \/ TimePasses
  BY <1>1, WorldChangesIInv, LocalChangesIInv, TimePassesIInv
<1>2. CASE BuildSnapshot
  BY <1>2, BuildSnapshotIInv
<1>3. CASE \E c \in Callers, r \in Reasons : CallRefresh(c, r) \/ CallRefreshIfStale(c, r)
  BY <1>3, CallIInv DEF CallRefresh, CallRefreshIfStale
<1>4. CASE WarmEnds
  BY <1>4, WarmEndsIInv
<1>5. CASE \E c \in Callers : Resume(c)
  BY <1>5, ResumeIfStaleIInv, ResumeRefreshIInv DEF Resume
<1>6. CASE \E s \in Sources : Load(s)
  BY <1>6, LoadSettlesIInv DEF Load
<1>7. CASE Pump
  BY <1>7, RoundEndsIInv, PumpClearedIInv DEF Pump
<1>8. CASE Assembly
  BY <1>8, AssemblyStartsIInv, BuildLocalIInv, AssembleIInv, AssemblyEndsIInv,
     AssemblyThrowsIInv DEF Assembly
<1>9. CASE Dispose \/ Disposal
  BY <1>9, DisposalIInv
<1>10. CASE UNCHANGED vars
  BY <1>10, Stutter
<1> QED BY <1>1, <1>2, <1>3, <1>4, <1>5, <1>6, <1>7, <1>8, <1>9, <1>10
           DEF Next, Environment

\* The invariant always holds.
THEOREM Invariant == Spec => []IInv
BY InitIInv, NextIInv, PTL DEF Spec

\* The variables keep their types.
THEOREM TypeCorrect == Spec => []TypeOK
BY Invariant, PTL DEF IInv

\* However refreshes, the warm-up, assemblies and dispose() interleave, no
\* source has two loads in flight, and a refresh() that returned was answered
\* by a round that began after it and is as strong as it asked for, unless it
\* joined a pump whose loop had ended.
THEOREM RoundsAnswerAlways == Spec => []RoundsAnswer
<1>1. IInv => RoundsAnswer
  BY DEF IInv, RoundsInOrder, RequestsInOrder, RoundsAnswer
<1> QED BY <1>1, Invariant, PTL

-----------------------------------------------------------------------------
(* What comes out.                                                         *)

\* Only the end of an assembly that may be published changes the last result,
\* and it brings a newer one, of a state and of caches that are not older.
LEMMA OnlyNewerComesOut ==
  ASSUME IInv, [Next]_vars
  PROVE  \/ UNCHANGED published
         \/ /\ ~disposed /\ dispose' = dispose
            /\ published' \in [gen : Nat, local : Nat, view : [Sources -> Nat]]
            /\ published'.gen > published.gen
            /\ published'.local >= published.local
            /\ \A s \in Sources : published'.view[s] >= published.view[s]
<1>1. CASE AssemblyEnds /\ MayPublish(Head(tail))
  <2>1. /\ tail # <<>> /\ Settle /\ stage = "assembling"
        /\ UNCHANGED <<requestedAssembly, local, dispose>>
        /\ ~disposed
        /\ Head(tail).gen = requestedAssembly
        /\ published' = [gen |-> Head(tail).gen, local |-> Head(tail).local,
                         view |-> view]
    BY <1>1 DEF AssemblyEnds, MayPublish, disposeVars
  <2>2. /\ Len(tail) \in Nat /\ Len(tail') = Len(tail) - 1
        /\ Head(tail) \in [gen : Nat, local : Nat]
        /\ Head(tail).gen = (requestedAssembly - Len(tail)) + 1
        /\ published.local <= Head(tail).local
    BY <2>1, OldestSettles
  <2>3. /\ published.gen \in Nat /\ requestedAssembly \in Nat
        /\ published.local \in Nat /\ view \in [Sources -> Nat]
        /\ published.view \in [Sources -> Nat]
        /\ published.gen <= requestedAssembly - Len(tail)
        /\ \A s \in Sources : published.view[s] <= view[s]
    BY <2>1 DEF IInv, TypeOK, AssembliesInOrder
  <2>4. published'.gen = requestedAssembly /\ published'.gen > published.gen
    BY <2>1, <2>2, <2>3
  <2> QED BY <2>1, <2>2, <2>3, <2>4
<1>2. CASE ~(AssemblyEnds /\ MayPublish(Head(tail)))
  <2>1. UNCHANGED published
    BY <1>2 DEF Next, Environment, WorldChanges, LocalChanges, TimePasses,
       BuildSnapshot, Dispose, CallRefresh, CallRefreshIfStale, Call, WarmEnds,
       Resume, ResumeIfStale, ResumeRefresh, Load, LoadSettles, Pump, RoundEnds,
       PumpCleared, Assembly, AssemblyStarts, BuildLocal, Assemble,
       AssemblyEnds, AssemblyThrows, Disposal, DisposeAwaitsTail,
       DisposeSources, vars, assemblyVars
  <2> QED BY <2>1
<1> QED BY <1>1, <1>2

\* A coordinator that was disposed stays so.
LEMMA DisposedForGood ==
  ASSUME IInv, [Next]_vars, disposed
  PROVE  disposed'
<1>1. dispose' = dispose \/ Dispose \/ Disposal
  BY DEF Next, Environment, WorldChanges, LocalChanges, TimePasses, BuildSnapshot,
     CallRefresh, CallRefreshIfStale, Call, WarmEnds, Resume, ResumeIfStale,
     ResumeRefresh, Load, LoadSettles, Pump, RoundEnds, PumpCleared, Assembly,
     AssemblyStarts, BuildLocal, Assemble, AssemblyEnds, AssemblyThrows, vars,
     disposeVars
<1> QED BY <1>1 DEF Dispose, Disposal, DisposeAwaitsTail, DisposeSources, disposed

\* Results come out in the order of the calls and none after dispose(): every
\* step of the coordinator is a step of LatestWins or leaves it alone.
THEOREM Refinement == Spec => ImplementsLatestWins
<1>1. Init => Result!Init
  BY DEF Init, Result!Init, disposed
<1>2. IInv /\ [Next]_vars => [Result!Next]_(Result!cellVars)
  <2> SUFFICES ASSUME IInv, [Next]_vars
               PROVE  Result!Publish \/ Result!Close \/ UNCHANGED Result!cellVars
    BY DEF Result!Next
  <2>1. CASE ~UNCHANGED published
    BY <2>1, OnlyNewerComesOut DEF Result!Publish, disposed
  <2>2. CASE UNCHANGED published
    <3>1. CASE disposed' = disposed
      BY <2>2, <3>1 DEF Result!cellVars
    <3>2. CASE disposed' # disposed
      <4>1. ~disposed /\ disposed'
        BY <3>2, DisposedForGood DEF disposed
      <4> QED BY <2>2, <4>1 DEF Result!Close, disposed
    <3> QED BY <3>1, <3>2
  <2> QED BY <2>1, <2>2
<1> QED BY <1>1, <1>2, Invariant, PTL DEF Spec, ImplementsLatestWins, Result!Spec

\* The coordinator implements LatestWins; of two successive snapshots the later
\* never shows an older state of a thread or older data of a provider, and with no
\* assembly left the newest call's result is there.
THEOREM NewestComesOut == Spec => SnapshotsAreCurrent
<1> DEFINE A == /\ published'.local >= published.local
                /\ \A s \in Sources : published'.view[s] >= published.view[s]
<1>1. IInv /\ [Next]_vars => [A]_vars
  <2> SUFFICES ASSUME IInv, [Next]_vars PROVE A
    OBVIOUS
  <2>1. /\ published.local >= published.local
        /\ \A s \in Sources : published.view[s] >= published.view[s]
    BY DEF IInv, TypeOK
  <2> QED BY <2>1, OnlyNewerComesOut
<1>2. IInv => NewestBuildPublished
  BY DEF IInv, AssembliesInOrder
<1>3. Spec => SnapshotsNeverGoBack
  BY <1>1, Invariant, PTL DEF Spec, SnapshotsNeverGoBack
<1>4. Spec => []NewestBuildPublished
  BY <1>2, Invariant, PTL
<1> QED BY <1>3, <1>4, Refinement DEF SnapshotsAreCurrent

\* A pump that starts after disposal, for a caller that was awaiting the
\* warm-up, changes no cache.
THEOREM QuietOnceDisposed == Spec => QuietAfterDispose
<1> DEFINE A == sourcesDisposed => UNCHANGED cached
<1>1. IInv /\ [Next]_vars => [A]_vars
  <2> SUFFICES ASSUME IInv, [Next]_vars, sourcesDisposed PROVE UNCHANGED cached
    OBVIOUS
  <2>1. CASE \E s \in Sources : Load(s)
    BY <2>1 DEF Load, LoadSettles
  <2>2. CASE ~\E s \in Sources : Load(s)
    BY <2>2 DEF Next, Environment, WorldChanges, LocalChanges, TimePasses,
       BuildSnapshot, Dispose, CallRefresh, CallRefreshIfStale, Call, WarmEnds,
       Resume, ResumeIfStale, ResumeRefresh, StartRound, Pump, RoundEnds,
       PumpCleared, Assembly, AssemblyStarts, Warm, RefreshSources, BuildLocal,
       Assemble, AssemblyEnds, AssemblyThrows, Disposal, DisposeAwaitsTail,
       DisposeSources, vars, sourceVars
  <2> QED BY <2>1, <2>2
<1> QED BY <1>1, Invariant, PTL DEF Spec, QuietAfterDispose

-----------------------------------------------------------------------------
(* IntegrationSettings: the inductive invariant.                           *)

Settings == [key : Nat, hat : Nat, room : Nat, device : Nat]
Fields == {"key", "hat", "room"}
PostRecords ==
  [field : Fields \union {"none"}, value : Nat,
   server : {"sent", "making", "opened", "written", "saved", "answered", "failed"},
   page : {"waiting", "done", "failed"},
   next : Settings, body : Settings, before : Nat, turn : Nat]

SettingsTypeOK ==
  /\ file \in Settings /\ cache \in Settings /\ devices \in Nat /\ starts \in Nat
  /\ posts \in Seq(PostRecords)
  /\ shown \in Settings /\ draft \in Nat /\ dirty \in BOOLEAN /\ keyText \in Nat
  /\ pending \in BOOLEAN
  /\ texts \in Nat /\ roomText \in Nat /\ damaged \in BOOLEAN
  /\ told \in Nat /\ latest \in Nat

\* Settings that are not one of the states a file may be in otherwise.
Proper(s) == s.key <= MaxTyped

\* What is held is proper, and no room is there before one was typed, as n.
Plain(s, n) == Proper(s) /\ (n = 0 => s.room = 0)
PlainPost(p, n) ==
  /\ Plain(p.next, n)
  /\ p.body = NotRead \/ Plain(p.body, n)
  /\ p.field = "key" => p.value <= MaxTyped
  /\ p.field = "room" /\ n = 0 => p.value = 0
ValuesInOrder ==
  /\ file \in {Missing, Empty, Torn} \/ Plain(file, roomText)
  /\ cache = NotRead \/ Plain(cache, roomText)
  /\ shown.room # 0 => roomText # 0
  /\ draft # 0 => roomText # 0
  /\ keyText <= texts /\ texts <= MaxTyped
  /\ \A i \in DOMAIN posts : PlainPost(posts[i], roomText)

\* The file f holds what the server works with, c.
Stored(f, c) ==
  \/ c = NotRead /\ f \notin {Empty, Torn}
  \/ f = c /\ c # NotRead
  \/ f = Missing /\ c = Defaults

\* A save writes what it has made of what the server works with.
SaveFits(p, f, c) ==
  /\ c # NotRead /\ p.field \in Fields /\ p.next = With(c, p.field, p.value)
  /\ p.server = "making" => Stored(f, c)
  /\ p.server = "opened" => f = Empty
  /\ p.server = "written" => f = p.next

\* Until saves overlap or the server dies saving, one save runs at a time, and
\* the file goes with it.
SavesInOrder ==
  ~damaged =>
    /\ \A i, j \in DOMAIN posts : Saving(posts[i]) /\ Saving(posts[j]) => i = j
    /\ ~SomeSaves => Stored(file, cache)
    /\ \A i \in DOMAIN posts : Saving(posts[i]) => SaveFits(posts[i], file, cache)

\* Until then the server has one device id, and the page is told no other.
OneDevice ==
  ~damaged =>
    /\ told # 0 => Loaded.device = told
    /\ \A i \in DOMAIN posts :
         posts[i].body # NotRead =>
           posts[i].body.device = Loaded.device /\ Loaded.device # 0

\* Answers are numbered as they are given.
Answered == {i \in DOMAIN posts : posts[i].turn > 0}
Numbered(p, n) ==
  /\ p.turn <= n
  /\ p.server = "answered" <=> p.turn > 0
  /\ p.body # NotRead => p.server = "answered"
  /\ p.server = "answered" /\ p.page = "waiting" => p.body # NotRead
  /\ p.page = "done" => p.server = "answered"
TurnsInOrder ==
  /\ latest <= Cardinality(Answered)
  /\ \A i \in DOMAIN posts : Numbered(posts[i], Cardinality(Answered))

\* When all is answered, the last answer is what the server works with.
AllAnswered == \A i \in DOMAIN posts : posts[i].server = "answered"
LastAnswerHolds ==
  AllAnswered /\ cache # NotRead /\ posts # <<>> =>
    /\ \A i \in DOMAIN posts :
         /\ posts[i].page = "waiting"
         /\ \A j \in DOMAIN posts : posts[j].turn <= posts[i].turn
         => posts[i].body = cache
    /\ (\A i \in DOMAIN posts : posts[i].page # "failed" /\ posts[i].turn <= latest)
         => shown = cache

\* What the room's fields hold is the user's, or was sent and is stored.
RoomSent(ps, v) == \E i \in DOMAIN ps : ps[i].field = "room" /\ ps[i].value = v
RoomWaits == \E i \in DOMAIN posts : posts[i].field = "room" /\ posts[i].page = "waiting"
FieldsInOrder ==
  /\ draft = roomText \/ RoomSent(posts, roomText) \/ RoomSent(posts, 0)
  /\ ~dirty => roomText = 0 \/ RoomSent(posts, roomText) \/ RoomSent(posts, 0)
  /\ ~dirty /\ ~RoomWaits => draft = shown.room

\* A key on its way is in its field, unless another request was there.
TwoOthers == \E i, j \in DOMAIN posts :
               i # j /\ posts[i].field # "hat" /\ posts[j].field # "hat"
KeyInOrder ==
  TwoOthers \/ \A i \in DOMAIN posts :
                 posts[i].field = "key" /\ posts[i].page = "waiting" =>
                   pending /\ keyText = posts[i].value

SettingsInv ==
  /\ SettingsTypeOK /\ ValuesInOrder /\ SavesInOrder /\ OneDevice
  /\ TurnsInOrder /\ LastAnswerHolds /\ FieldsInOrder /\ KeyInOrder

-----------------------------------------------------------------------------
(* What is held, and how posts change.                                     *)

\* The states of a file that are not settings are none of the proper ones.
LEMMA Sentinels ==
  /\ Defaults \in Settings /\ Missing \in Settings /\ Empty \in Settings
  /\ Torn \in Settings /\ NotRead \in Settings
  /\ \A n : Plain(Defaults, n)
  /\ Defaults.hat = 0 /\ Defaults.room = 0 /\ Defaults.device = 0 /\ Defaults.key = 0
  /\ Empty # Missing /\ Torn # Missing /\ Empty # Torn
  /\ \A s \in Settings : Proper(s) => s \notin {Missing, Empty, Torn, NotRead}
<1> DEFINE m == MaxPosts + MaxTyped + 1
<1>1. m \in Nat /\ ~(m <= MaxTyped) /\ 0 <= MaxTyped
  BY SettingsBounds
<1>a. Defaults = [key |-> 0, hat |-> 0, room |-> 0, device |-> 0]
  BY DEF Defaults
<1>b. Missing = [Defaults EXCEPT !.key = m]
  BY DEF Missing
<1> HIDE DEF m
<1>c. Missing = [key |-> m, hat |-> 0, room |-> 0, device |-> 0]
  BY <1>a, <1>b
<1>d. Empty = [key |-> m, hat |-> 1, room |-> 0, device |-> 0]
  BY <1>c DEF Empty
<1>e. Torn = [key |-> m, hat |-> 2, room |-> 0, device |-> 0]
  BY <1>c DEF Torn
<1>f. NotRead = [key |-> m, hat |-> 3, room |-> 0, device |-> 0]
  BY <1>c DEF NotRead
<1>2. /\ Defaults = [key |-> 0, hat |-> 0, room |-> 0, device |-> 0]
      /\ Missing = [key |-> m, hat |-> 0, room |-> 0, device |-> 0]
      /\ Empty = [key |-> m, hat |-> 1, room |-> 0, device |-> 0]
      /\ Torn = [key |-> m, hat |-> 2, room |-> 0, device |-> 0]
      /\ NotRead = [key |-> m, hat |-> 3, room |-> 0, device |-> 0]
  BY <1>a, <1>c, <1>d, <1>e, <1>f
<1>3. /\ Defaults \in Settings /\ Missing \in Settings /\ Empty \in Settings
      /\ Torn \in Settings /\ NotRead \in Settings
  BY <1>1, <1>2 DEF Settings
<1>4. /\ Missing.key = m /\ Empty.key = m /\ Torn.key = m /\ NotRead.key = m
      /\ Missing.hat = 0 /\ Empty.hat = 1 /\ Torn.hat = 2
      /\ Defaults.hat = 0 /\ Defaults.room = 0 /\ Defaults.device = 0 /\ Defaults.key = 0
  BY <1>2
<1>5. \A s \in Settings : Proper(s) => s \notin {Missing, Empty, Torn, NotRead}
  BY <1>1, <1>4 DEF Proper
<1>6. \A n : Plain(Defaults, n)
  BY <1>1, <1>4 DEF Plain, Proper
<1> QED
  BY <1>3, <1>4, <1>5, <1>6

\* A save changes one field and keeps the others.
LEMMA WithIsSettings ==
  ASSUME NEW s \in Settings, NEW field \in Fields, NEW value \in Nat
  PROVE  /\ With(s, field, value) \in Settings
         /\ With(s, field, value).device = s.device
         /\ With(s, field, value).key = IF field = "key" THEN value ELSE s.key
         /\ With(s, field, value).room = IF field = "room" THEN value ELSE s.room
<1>1. CASE field = "key"
  BY <1>1 DEF With, Settings
<1>2. CASE field = "hat"
  BY <1>2 DEF With, Settings
<1>3. CASE field = "room"
  BY <1>3 DEF With, Settings
<1> QED
  BY <1>1, <1>2, <1>3 DEF Fields

LEMMA LoadedIsPlain ==
  ASSUME SettingsTypeOK, ValuesInOrder
  PROVE  /\ Loaded \in Settings /\ Plain(Loaded, roomText)
         /\ Loaded # NotRead
         /\ cache # NotRead => Loaded = cache
<1>1. /\ file \in Settings /\ cache \in Settings
      /\ file \in {Missing, Empty, Torn} \/ Plain(file, roomText)
      /\ cache = NotRead \/ Plain(cache, roomText)
  BY DEF SettingsTypeOK, ValuesInOrder
<1>2. Loaded \in Settings /\ Plain(Loaded, roomText) /\ (cache # NotRead => Loaded = cache)
  BY <1>1, Sentinels DEF Loaded
<1> QED
  BY <1>2, Sentinels DEF Plain

LEMMA NewPost ==
  ASSUME SettingsTypeOK, NEW field \in Fields \union {"none"}, NEW value \in Nat,
         Posted(field, value)
  PROVE  LET n == Len(posts)
             p == posts'[n + 1] IN
         /\ n \in Nat /\ DOMAIN posts = 1..n
         /\ posts' \in Seq(PostRecords) /\ DOMAIN posts' = 1..(n + 1)
         /\ p.field = field /\ p.value = value /\ p.server = "sent"
         /\ p.page = "waiting" /\ p.next = Defaults /\ p.body = NotRead /\ p.turn = 0
         /\ \A i \in 1..n : posts'[i] = posts[i]
<1> DEFINE n == Len(posts)
           m == [field |-> field, value |-> value, server |-> "sent",
                 page |-> "waiting", next |-> Defaults, body |-> NotRead,
                 before |-> shown.hat, turn |-> 0]
<1>1. shown.hat \in Nat
  BY DEF SettingsTypeOK, Settings
<1>2. /\ m \in PostRecords /\ m.field = field /\ m.value = value /\ m.server = "sent"
      /\ m.page = "waiting" /\ m.next = Defaults /\ m.body = NotRead /\ m.turn = 0
  BY <1>1, Sentinels DEF PostRecords
<1>3. posts \in Seq(PostRecords) /\ n \in Nat /\ DOMAIN posts = 1..n
  BY DEF SettingsTypeOK
<1>4. posts' = Append(posts, m)
  BY DEF Posted
<1> HIDE DEF m
<1>5. /\ posts' \in Seq(PostRecords) /\ DOMAIN posts' = 1..(n + 1)
      /\ posts'[n + 1] = m /\ \A i \in 1..n : posts'[i] = posts[i]
  BY <1>2, <1>3, <1>4
<1> QED
  BY <1>2, <1>3, <1>5

OtherPosts(i) ==
  DOMAIN posts' = DOMAIN posts /\ \A j \in DOMAIN posts \ {i} : posts'[j] = posts[j]

\* The server goes on with a post.
LEMMA SaysEffect ==
  ASSUME SettingsTypeOK, NEW i \in DOMAIN posts,
         NEW s \in {"opened", "written", "failed"}, ServerSays(i, s)
  PROVE  LET p == posts[i]
             q == posts'[i] IN
         /\ posts' \in Seq(PostRecords) /\ OtherPosts(i)
         /\ q.field = p.field /\ q.value = p.value /\ q.page = p.page
         /\ q.server = s /\ q.next = p.next /\ q.body = p.body /\ q.turn = p.turn
<1> DEFINE c == [posts[i] EXCEPT !.server = s]
<1>1. posts \in Seq(PostRecords) /\ posts[i] \in PostRecords
  BY DEF SettingsTypeOK
<1>2. posts' = [posts EXCEPT ![i] = c]
  BY DEF ServerSays
<1>3. /\ c \in PostRecords /\ c.field = posts[i].field /\ c.value = posts[i].value
      /\ c.page = posts[i].page /\ c.server = s /\ c.next = posts[i].next
      /\ c.body = posts[i].body /\ c.turn = posts[i].turn
  BY <1>1 DEF PostRecords
<1> HIDE DEF c
<1> QED
  BY <1>1, <1>2, <1>3 DEF OtherPosts

LEMMA HandlesEffect ==
  ASSUME SettingsTypeOK, ValuesInOrder, NEW i \in DOMAIN posts, Handles(i)
  PROVE  LET p == posts[i]
             q == posts'[i] IN
         /\ posts' \in Seq(PostRecords) /\ OtherPosts(i)
         /\ p.field \in Fields /\ p.server = "sent"
         /\ q.field = p.field /\ q.value = p.value /\ q.page = p.page
         /\ q.server = "making" /\ q.next = With(Loaded, p.field, p.value)
         /\ q.body = p.body /\ q.turn = p.turn
<1> DEFINE next == With(Loaded, posts[i].field, posts[i].value)
           c == [posts[i] EXCEPT !.server = "making", !.next = next]
<1>1. posts \in Seq(PostRecords) /\ posts[i] \in PostRecords
      /\ posts[i].field # "none" /\ posts[i].server = "sent"
  BY DEF SettingsTypeOK, Handles
<1>2. posts[i].field \in Fields /\ posts[i].value \in Nat
  BY <1>1 DEF PostRecords
<1>3. next \in Settings
  <2>1. Loaded \in Settings
    BY LoadedIsPlain
  <2> QED
    BY <1>2, <2>1, WithIsSettings
<1>4. posts' = [posts EXCEPT ![i] = c]
  BY DEF Handles
<1> HIDE DEF next
<1>5. /\ c \in PostRecords /\ c.field = posts[i].field /\ c.value = posts[i].value
      /\ c.page = posts[i].page /\ c.server = "making" /\ c.next = next
      /\ c.body = posts[i].body /\ c.turn = posts[i].turn
  BY <1>1, <1>3 DEF PostRecords
<1> HIDE DEF c
<1>6. /\ posts' \in Seq(PostRecords) /\ OtherPosts(i) /\ posts'[i] = c
  BY <1>1, <1>4, <1>5 DEF OtherPosts
<1> QED
  BY <1>1, <1>2, <1>5, <1>6 DEF next

LEMMA RemembersEffect ==
  ASSUME SettingsTypeOK, NEW i \in DOMAIN posts, Remembers(i)
  PROVE  LET p == posts[i]
             q == posts'[i] IN
         /\ posts' \in Seq(PostRecords) /\ OtherPosts(i) /\ p.server = "written"
         /\ q.field = p.field /\ q.value = p.value /\ q.page = p.page
         /\ q.server = "saved" /\ q.next = Defaults /\ q.body = p.body /\ q.turn = p.turn
         /\ cache' = p.next /\ p.next \in Settings
<1> DEFINE c == [posts[i] EXCEPT !.server = "saved", !.next = Defaults]
<1>1. posts \in Seq(PostRecords) /\ posts[i] \in PostRecords
  BY DEF SettingsTypeOK
<1>2. posts' = [posts EXCEPT ![i] = c]
  BY DEF Remembers
<1>3. /\ c \in PostRecords /\ c.field = posts[i].field /\ c.value = posts[i].value
      /\ c.page = posts[i].page /\ c.server = "saved" /\ c.next = Defaults
      /\ c.body = posts[i].body /\ c.turn = posts[i].turn
  BY <1>1, Sentinels DEF PostRecords
<1> HIDE DEF c
<1>4. posts' \in Seq(PostRecords) /\ OtherPosts(i) /\ posts'[i] = c
  BY <1>1, <1>2, <1>3 DEF OtherPosts
<1>5. posts[i].next \in Settings
  BY <1>1 DEF PostRecords
<1> QED
  BY <1>3, <1>4, <1>5 DEF Remembers

LEMMA AnsweredIsFinite ==
  ASSUME SettingsTypeOK
  PROVE  IsFiniteSet(Answered) /\ Cardinality(Answered) \in Nat
<1>1. IsFiniteSet(DOMAIN posts)
  <2>1. DOMAIN posts = 1..Len(posts) /\ Len(posts) \in Nat
    BY DEF SettingsTypeOK
  <2> QED
    BY <2>1, FS_Interval
<1>2. Answered \subseteq DOMAIN posts
  BY DEF Answered
<1>3. IsFiniteSet(Answered)
  BY <1>1, <1>2, FS_Subset
<1> QED
  BY <1>3, FS_CardinalityType

LEMMA RespondsEffect ==
  ASSUME SettingsTypeOK, ValuesInOrder, NEW i \in DOMAIN posts, Responds(i)
  PROVE  LET p == posts[i]
             q == posts'[i] IN
         /\ posts' \in Seq(PostRecords) /\ OtherPosts(i)
         /\ p.server \in {"saved", "sent"}
         /\ q.field = p.field /\ q.value = p.value /\ q.page = p.page
         /\ q.server = "answered" /\ q.next = p.next /\ q.body = cache'
         /\ q.turn = 1 + Cardinality(Answered)
         /\ cache' \in Settings /\ Plain(cache', roomText) /\ cache'.device # 0
         /\ cache'.device = Loaded.device \/ Loaded.device = 0
         /\ \/ cache' = Loaded /\ file' = file /\ devices' = devices /\ damaged' = damaged
            \/ /\ Loaded.device = 0 /\ file' = cache' /\ devices' = devices + 1
               /\ cache' = [Loaded EXCEPT !.device = devices + 1]
               /\ damaged' = (damaged \/ SomeSaves)
<1> DEFINE turn == 1 + Cardinality({j \in DOMAIN posts : posts[j].turn > 0})
           body == cache'
           c == [posts[i] EXCEPT !.server = "answered", !.body = body, !.turn = turn]
<1>1. posts \in Seq(PostRecords) /\ posts[i] \in PostRecords
      /\ posts[i].server \in {"saved", "sent"}
  BY DEF SettingsTypeOK, Responds
<1>2. Loaded \in Settings /\ Plain(Loaded, roomText) /\ devices \in Nat
  BY LoadedIsPlain DEF SettingsTypeOK
<1>3. /\ cache' \in Settings /\ Plain(cache', roomText) /\ cache'.device # 0
      /\ cache'.device = Loaded.device \/ Loaded.device = 0
      /\ \/ cache' = Loaded /\ file' = file /\ devices' = devices /\ damaged' = damaged
         \/ /\ Loaded.device = 0 /\ file' = cache' /\ devices' = devices + 1
            /\ cache' = [Loaded EXCEPT !.device = devices + 1]
            /\ damaged' = (damaged \/ SomeSaves)
  <2>1. CASE Loaded.device # 0
    BY <1>2, <2>1 DEF Responds
  <2>2. CASE Loaded.device = 0
    <3> DEFINE L == Loaded
               d == devices + 1
    <3>1. /\ cache' = [L EXCEPT !.device = d] /\ file' = cache' /\ devices' = d
          /\ damaged' = (damaged \/ SomeSaves)
      BY <2>2 DEF Responds
    <3>2. L \in Settings /\ Plain(L, roomText) /\ d \in Nat /\ d # 0
      BY <1>2
    <3> HIDE DEF L, d
    <3>3. /\ cache' \in Settings /\ cache'.device = d /\ cache'.key = L.key
          /\ cache'.room = L.room
      BY <3>1, <3>2 DEF Settings
    <3>4. Plain(cache', roomText)
      BY <3>2, <3>3 DEF Plain, Proper
    <3> QED
      BY <2>2, <3>1, <3>2, <3>3, <3>4 DEF L, d
  <2> QED
    BY <2>1, <2>2
<1>4. posts' = [posts EXCEPT ![i] = c]
  BY DEF Responds
<1>5. turn \in Nat /\ turn = 1 + Cardinality(Answered)
  BY AnsweredIsFinite DEF Answered
<1>6. body \in Settings
  BY <1>3
<1> HIDE DEF turn, body
<1>7. /\ c \in PostRecords /\ c.field = posts[i].field /\ c.value = posts[i].value
      /\ c.page = posts[i].page /\ c.server = "answered" /\ c.next = posts[i].next
      /\ c.body = body /\ c.turn = turn
  BY <1>1, <1>5, <1>6 DEF PostRecords
<1> HIDE DEF c
<1>8. posts' \in Seq(PostRecords) /\ OtherPosts(i) /\ posts'[i] = c
  BY <1>1, <1>4, <1>7 DEF OtherPosts
<1> QED
  BY <1>1, <1>3, <1>5, <1>7, <1>8 DEF body

LEMMA DoneEffect ==
  ASSUME SettingsTypeOK, NEW i \in DOMAIN posts, NEW end \in {"done", "failed"},
         PageDone(i, end)
  PROVE  LET p == posts[i]
             q == posts'[i] IN
         /\ posts' \in Seq(PostRecords) /\ OtherPosts(i)
         /\ q.field = p.field /\ q.value = p.value /\ q.page = end
         /\ q.server = p.server /\ q.next = p.next /\ q.body = NotRead /\ q.turn = p.turn
<1> DEFINE c == [posts[i] EXCEPT !.page = end, !.body = NotRead, !.before = 0]
<1>1. posts \in Seq(PostRecords) /\ posts[i] \in PostRecords
  BY DEF SettingsTypeOK
<1>2. posts' = [posts EXCEPT ![i] = c]
  BY DEF PageDone
<1>3. /\ c \in PostRecords /\ c.field = posts[i].field /\ c.value = posts[i].value
      /\ c.page = end /\ c.server = posts[i].server /\ c.next = posts[i].next
      /\ c.body = NotRead /\ c.turn = posts[i].turn
  BY <1>1, Sentinels DEF PostRecords
<1> HIDE DEF c
<1>4. posts' \in Seq(PostRecords) /\ OtherPosts(i) /\ posts'[i] = c
  BY <1>1, <1>2, <1>3 DEF OtherPosts
<1> QED
  BY <1>3, <1>4

LEMMA RestartsEffect ==
  ASSUME SettingsTypeOK, Restarts
  PROVE  /\ posts' \in Seq(PostRecords) /\ DOMAIN posts' = DOMAIN posts
         /\ \A i \in DOMAIN posts :
              LET p == posts[i]
                  q == posts'[i] IN
              /\ q.field = p.field /\ q.value = p.value /\ q.page = p.page
              /\ q.server = (IF p.server = "answered" THEN "answered" ELSE "failed")
              /\ q.next = p.next /\ q.body = p.body /\ q.turn = p.turn
<1>1. posts \in Seq(PostRecords) /\ Len(posts) \in Nat /\ DOMAIN posts = 1..Len(posts)
  BY DEF SettingsTypeOK
<1>2. ASSUME NEW i \in DOMAIN posts
      PROVE  LET p == posts[i]
                 q == posts'[i] IN
             /\ q \in PostRecords
             /\ q.field = p.field /\ q.value = p.value /\ q.page = p.page
             /\ q.server = (IF p.server = "answered" THEN "answered" ELSE "failed")
             /\ q.next = p.next /\ q.body = p.body /\ q.turn = p.turn
  <2>1. posts[i] \in PostRecords
    BY <1>1
  <2>2. posts'[i] = IF posts[i].server = "answered" THEN posts[i]
                    ELSE [posts[i] EXCEPT !.server = "failed"]
    BY DEF Restarts
  <2> QED
    BY <2>1, <2>2 DEF PostRecords
<1>3. DOMAIN posts' = DOMAIN posts
  BY DEF Restarts
<1>4. posts' = [i \in 1..Len(posts) |-> posts'[i]]
  BY <1>1 DEF Restarts
<1>5. \A i \in 1..Len(posts) : posts'[i] \in PostRecords
  BY <1>1, <1>2
<1>6. [i \in 1..Len(posts) |-> posts'[i]] \in Seq(PostRecords)
  BY <1>1, <1>5
<1> QED
  BY <1>2, <1>3, <1>4, <1>6

-----------------------------------------------------------------------------
(* Types are kept.                                                         *)

LEMMA SettingsStart == SettingsInit => SettingsInv
<1> SUFFICES ASSUME SettingsInit PROVE SettingsInv
  OBVIOUS
<1> USE DEF SettingsInit
<1>1. /\ <<>> \in Seq(PostRecords) /\ DOMAIN posts = {} /\ posts = <<>>
  OBVIOUS
<1>2. SettingsTypeOK
  BY <1>1, Sentinels DEF SettingsTypeOK
<1>3. ValuesInOrder
  BY <1>1, Sentinels, SettingsBounds DEF ValuesInOrder, PlainPost
<1>4. SavesInOrder
  BY <1>1, Sentinels DEF SavesInOrder, Stored
<1>5. OneDevice
  BY <1>1 DEF OneDevice
<1>6. Answered = {}
  BY <1>1 DEF Answered
<1>7. TurnsInOrder
  BY <1>1, <1>6, FS_EmptySet DEF TurnsInOrder
<1>8. LastAnswerHolds
  BY <1>1 DEF LastAnswerHolds
<1>9. FieldsInOrder
  BY Sentinels DEF FieldsInOrder
<1>10. KeyInOrder
  BY <1>1 DEF KeyInOrder
<1> QED
  BY <1>2, <1>3, <1>4, <1>5, <1>7, <1>8, <1>9, <1>10 DEF SettingsInv

\* Posts remain, and what they ask for.
PostsKept ==
  /\ posts' \in Seq(PostRecords)
  /\ DOMAIN posts \subseteq DOMAIN posts'
  /\ \A i \in DOMAIN posts :
       posts'[i].field = posts[i].field /\ posts'[i].value = posts[i].value

\* A request of the popup.
Asks(field, value) ==
  /\ field \in Fields \union {"none"} /\ value \in Nat /\ Posted(field, value)
  /\ storeVars' = storeVars /\ historyVars' = historyVars
  /\ keyText' = keyText /\ draft' = draft /\ shown' \in Settings
  /\ shown'.room = shown.room
  /\ \/ Loads /\ posts = <<>> /\ field = "none"
        /\ dirty' = dirty /\ pending' = pending
     \/ PicksHat /\ field = "hat" /\ dirty' = dirty /\ pending' = pending
     \/ SavesKey /\ field = "key" /\ value = keyText
        /\ dirty' = dirty /\ pending' = TRUE
     \/ SavesRoom /\ field = "room" /\ value \in {draft, 0}
        /\ dirty' = FALSE /\ pending' = TRUE

LEMMA RequestsEffect ==
  ASSUME SettingsTypeOK, Loads \/ PicksHat \/ SavesKey \/ SavesRoom
  PROVE  \E field, value : Asks(field, value)
<1> USE DEF storeVars, popupVars, historyVars, Fields
<1>1. /\ shown \in Settings /\ keyText \in Nat /\ draft \in Nat /\ Len(posts) \in Nat
  BY DEF SettingsTypeOK
<1>2. CASE Loads
  <2>1. Asks("none", 0)
    BY <1>1, <1>2 DEF Loads, Asks
  <2> QED
    BY <2>1
<1>3. CASE PicksHat
  <2> DEFINE n == Len(posts)
  <2>1. /\ Posted("hat", n) /\ shown' = [shown EXCEPT !.hat = n]
        /\ UNCHANGED <<storeVars, draft, dirty, keyText, pending, historyVars>>
    BY <1>3 DEF PicksHat
  <2>2. n \in Nat
    BY <1>1
  <2> HIDE DEF n
  <2>3. shown' \in Settings /\ shown'.room = shown.room
    BY <1>1, <2>1, <2>2 DEF Settings
  <2>4. Asks("hat", n)
    BY <1>3, <2>1, <2>2, <2>3 DEF Asks
  <2> QED
    BY <2>4
<1>4. CASE SavesKey
  <2>1. Asks("key", keyText)
    BY <1>1, <1>4 DEF SavesKey, Asks
  <2> QED
    BY <2>1
<1>5. CASE SavesRoom
  <2>1. PICK v \in {draft, 0} : Posted("room", v)
    BY <1>5 DEF SavesRoom
  <2>2. Asks("room", v)
    BY <1>1, <1>5, <2>1 DEF SavesRoom, Asks
  <2> QED
    BY <2>2
<1> QED
  BY <1>2, <1>3, <1>4, <1>5

LEMMA AsksEffect ==
  ASSUME SettingsTypeOK, NEW field, NEW value, Asks(field, value)
  PROVE  LET n == Len(posts)
             p == posts'[n + 1] IN
         /\ n \in Nat /\ DOMAIN posts = 1..n
         /\ posts' \in Seq(PostRecords) /\ DOMAIN posts' = 1..(n + 1)
         /\ p.field = field /\ p.value = value /\ p.server = "sent"
         /\ p.page = "waiting" /\ p.next = Defaults /\ p.body = NotRead /\ p.turn = 0
         /\ \A i \in DOMAIN posts : posts'[i] = posts[i]
         /\ PostsKept
         /\ \A i \in DOMAIN posts' : i \in DOMAIN posts \/ i = n + 1
<1>1. LET n == Len(posts)
          p == posts'[n + 1] IN
      /\ n \in Nat /\ DOMAIN posts = 1..n
      /\ posts' \in Seq(PostRecords) /\ DOMAIN posts' = 1..(n + 1)
      /\ p.field = field /\ p.value = value /\ p.server = "sent"
      /\ p.page = "waiting" /\ p.next = Defaults /\ p.body = NotRead /\ p.turn = 0
      /\ \A i \in 1..n : posts'[i] = posts[i]
  BY NewPost DEF Asks
<1>2. DOMAIN posts \subseteq DOMAIN posts'
      /\ \A i \in DOMAIN posts' : i \in DOMAIN posts \/ i = Len(posts) + 1
  BY <1>1
<1> QED
  BY <1>1, <1>2 DEF PostsKept

\* What the page makes of an answer, or of its absence.
LEMMA ArrivesEffect ==
  ASSUME SettingsTypeOK, NEW i \in DOMAIN posts, Arrives(i)
  PROVE  /\ shown' \in Settings /\ draft' \in Nat /\ told' \in Nat /\ latest' \in Nat
         /\ pending' \in BOOLEAN /\ keyText' \in Nat
         /\ posts[i].body \in Settings /\ PageDone(i, "done")
<1>1. posts[i] \in PostRecords /\ shown \in Settings /\ draft \in Nat /\ told \in Nat
      /\ latest \in Nat /\ pending \in BOOLEAN /\ keyText \in Nat
  BY DEF SettingsTypeOK
<1>2. posts[i].body \in Settings /\ posts[i].turn \in Nat
  BY <1>1 DEF PostRecords
<1>3. posts[i].body.room \in Nat /\ posts[i].body.device \in Nat
  BY <1>2 DEF Settings
<1> QED
  BY <1>1, <1>2, <1>3 DEF Arrives, Apply, Drafted

LEMMA GivesUpEffect ==
  ASSUME SettingsTypeOK, NEW i \in DOMAIN posts, GivesUp(i)
  PROVE  /\ PageDone(i, "failed") /\ shown' \in Settings /\ draft' \in Nat
         /\ dirty' \in BOOLEAN /\ pending' \in BOOLEAN
         /\ posts[i].field = "none" =>
              shown' = Defaults /\ draft' = Drafted(Defaults) /\ dirty' = dirty
         /\ posts[i].field # "none" => draft' = draft /\ shown'.room = shown.room
         /\ dirty' = IF posts[i].field = "room" THEN TRUE ELSE dirty
         /\ pending' = IF posts[i].field = "hat" THEN pending ELSE FALSE
<1>1. posts[i] \in PostRecords /\ shown \in Settings /\ draft \in Nat
      /\ pending \in BOOLEAN /\ dirty \in BOOLEAN
  BY DEF SettingsTypeOK
<1>2. posts[i].field \in {"none", "key", "hat", "room"} /\ posts[i].before \in Nat
  BY <1>1 DEF PostRecords, Fields
<1> USE DEF GivesUp
<1>3. CASE posts[i].field = "none"
  BY <1>1, <1>3, Sentinels DEF Apply, Drafted
<1>4. CASE posts[i].field = "hat"
  <2> DEFINE b == posts[i].before
  <2>1. shown' = (IF Superseded(i) THEN shown ELSE [shown EXCEPT !.hat = b])
        /\ draft' = draft /\ dirty' = dirty
    BY <1>4
  <2>2. b \in Nat
    BY <1>2
  <2> HIDE DEF b
  <2>3. shown' \in Settings /\ shown'.room = shown.room
    BY <1>1, <2>1, <2>2 DEF Settings
  <2> QED
    BY <1>1, <1>4, <2>1, <2>3
<1>5. CASE posts[i].field = "key"
  BY <1>1, <1>5
<1>6. CASE posts[i].field = "room"
  BY <1>1, <1>6
<1> QED
  BY <1>2, <1>3, <1>4, <1>5, <1>6


LEMMA OnePostKept ==
  ASSUME SettingsTypeOK, NEW i \in DOMAIN posts, posts' \in Seq(PostRecords),
         OtherPosts(i), posts'[i].field = posts[i].field, posts'[i].value = posts[i].value
  PROVE  PostsKept
BY DEF PostsKept, OtherPosts

\* The types are kept, and so are the posts.
LEMMA SettingsTypeStep ==
  ASSUME SettingsTypeOK, ValuesInOrder, [SettingsNext]_settingsVars
  PROVE  SettingsTypeOK' /\ PostsKept
<1> USE DEF storeVars, popupVars, historyVars, settingsVars
<1>0. /\ file \in Settings /\ cache \in Settings /\ devices \in Nat /\ starts \in Nat
      /\ posts \in Seq(PostRecords)
      /\ shown \in Settings /\ draft \in Nat /\ dirty \in BOOLEAN /\ keyText \in Nat
      /\ pending \in BOOLEAN
      /\ texts \in Nat /\ roomText \in Nat /\ damaged \in BOOLEAN
      /\ told \in Nat /\ latest \in Nat
      /\ Loaded \in Settings /\ SomeSaves \in BOOLEAN
  BY LoadedIsPlain DEF SettingsTypeOK, SomeSaves
<1>1. CASE UNCHANGED settingsVars
  <2>1. /\ file' = file /\ cache' = cache /\ devices' = devices /\ starts' = starts
        /\ posts' = posts /\ shown' = shown /\ draft' = draft /\ dirty' = dirty
        /\ keyText' = keyText /\ pending' = pending /\ texts' = texts
        /\ roomText' = roomText /\ damaged' = damaged /\ told' = told /\ latest' = latest
    BY <1>1
  <2> QED
    BY <1>0, <2>1 DEF SettingsTypeOK, PostsKept
<1>2. ASSUME NEW field, NEW value, Asks(field, value)
      PROVE  SettingsTypeOK' /\ PostsKept
  <2>1. posts' \in Seq(PostRecords) /\ PostsKept
    BY <1>2, AsksEffect
  <2>2. /\ file' = file /\ cache' = cache /\ devices' = devices /\ starts' = starts
        /\ draft' = draft /\ keyText' = keyText /\ texts' = texts
        /\ roomText' = roomText /\ damaged' = damaged /\ told' = told /\ latest' = latest
        /\ shown' \in Settings
    BY <1>2 DEF Asks
  <2>3. dirty' \in BOOLEAN /\ pending' \in BOOLEAN
    BY <1>0, <1>2 DEF Asks
  <2> QED
    BY <1>0, <2>1, <2>2, <2>3 DEF SettingsTypeOK
<1>3. CASE TypesKey
  BY <1>0, <1>3 DEF TypesKey, SettingsTypeOK, PostsKept
<1>4. CASE TypesRoom
  BY <1>0, <1>4 DEF TypesRoom, SettingsTypeOK, PostsKept
<1>5. CASE Restarts
  <2>1. posts' \in Seq(PostRecords) /\ PostsKept
    BY <1>5, RestartsEffect DEF PostsKept
  <2>2. /\ starts' \in Nat /\ cache' \in Settings /\ damaged' \in BOOLEAN
        /\ UNCHANGED <<file, devices, popupVars, texts, roomText, told, latest>>
    BY <1>0, <1>5, Sentinels DEF Restarts
  <2> QED
    BY <1>0, <2>1, <2>2 DEF SettingsTypeOK
<1>6. ASSUME NEW i \in DOMAIN posts, Handles(i)
      PROVE  SettingsTypeOK' /\ PostsKept
  <2>1. posts' \in Seq(PostRecords) /\ PostsKept
    BY <1>6, HandlesEffect, OnePostKept
  <2>2. /\ cache' \in Settings /\ damaged' \in BOOLEAN
        /\ UNCHANGED <<file, devices, starts, popupVars, texts, roomText, told, latest>>
    BY <1>0, <1>6 DEF Handles
  <2> QED
    BY <1>0, <2>1, <2>2 DEF SettingsTypeOK
<1>7. ASSUME NEW i \in DOMAIN posts, OpensFile(i)
      PROVE  SettingsTypeOK' /\ PostsKept
  <2>1. posts' \in Seq(PostRecords) /\ PostsKept
    BY <1>7, SaysEffect, OnePostKept DEF OpensFile
  <2>2. /\ file' \in Settings
        /\ UNCHANGED <<cache, devices, starts, popupVars, historyVars>>
    BY <1>0, <1>7, Sentinels DEF OpensFile
  <2> QED
    BY <1>0, <2>1, <2>2 DEF SettingsTypeOK
<1>8. ASSUME NEW i \in DOMAIN posts, WritesFile(i)
      PROVE  SettingsTypeOK' /\ PostsKept
  <2>1. posts' \in Seq(PostRecords) /\ PostsKept
    BY <1>8, SaysEffect, OnePostKept DEF WritesFile
  <2>2. posts[i] \in PostRecords
    BY <1>0
  <2>3. posts[i].next \in Settings
    BY <2>2 DEF PostRecords
  <2>4. /\ file' \in Settings
        /\ UNCHANGED <<cache, devices, starts, popupVars, historyVars>>
    BY <1>0, <1>8, <2>3, Sentinels DEF WritesFile, Written
  <2> QED
    BY <1>0, <2>1, <2>4 DEF SettingsTypeOK
<1>9. ASSUME NEW i \in DOMAIN posts, Remembers(i)
      PROVE  SettingsTypeOK' /\ PostsKept
  <2>1. posts' \in Seq(PostRecords) /\ PostsKept /\ cache' \in Settings
    BY <1>9, RemembersEffect, OnePostKept
  <2>2. UNCHANGED <<file, devices, starts, popupVars, historyVars>>
    BY <1>9 DEF Remembers
  <2> QED
    BY <1>0, <2>1, <2>2 DEF SettingsTypeOK
<1>10. ASSUME NEW i \in DOMAIN posts, Responds(i)
       PROVE  SettingsTypeOK' /\ PostsKept
  <2>1. posts' \in Seq(PostRecords) /\ PostsKept
    BY <1>10, RespondsEffect, OnePostKept
  <2>2. cache' \in Settings /\ file' \in Settings /\ devices' \in Nat
        /\ damaged' \in BOOLEAN
    BY <1>0, <1>10, RespondsEffect
  <2>3. UNCHANGED <<starts, popupVars, texts, roomText, told, latest>>
    BY <1>10 DEF Responds
  <2> QED
    BY <1>0, <2>1, <2>2, <2>3 DEF SettingsTypeOK
<1>11. ASSUME NEW i \in DOMAIN posts, Botches(i)
       PROVE  SettingsTypeOK' /\ PostsKept
  <2>1. posts' \in Seq(PostRecords) /\ PostsKept
    BY <1>11, SaysEffect, OnePostKept DEF Botches
  <2>2. UNCHANGED <<storeVars, popupVars, historyVars>>
    BY <1>11 DEF Botches
  <2> QED
    BY <1>0, <2>1, <2>2 DEF SettingsTypeOK
<1>12. ASSUME NEW i \in DOMAIN posts, Arrives(i)
       PROVE  SettingsTypeOK' /\ PostsKept
  <2>1. posts' \in Seq(PostRecords) /\ PostsKept
    BY <1>12, ArrivesEffect, DoneEffect, OnePostKept
  <2>2. /\ shown' \in Settings /\ draft' \in Nat /\ told' \in Nat /\ latest' \in Nat
        /\ pending' \in BOOLEAN /\ keyText' \in Nat
    BY <1>12, ArrivesEffect
  <2>3. UNCHANGED <<storeVars, dirty, texts, roomText, damaged>>
    BY <1>12 DEF Arrives
  <2> QED
    BY <1>0, <2>1, <2>2, <2>3 DEF SettingsTypeOK
<1>13. ASSUME NEW i \in DOMAIN posts, GivesUp(i)
       PROVE  SettingsTypeOK' /\ PostsKept
  <2>1. posts' \in Seq(PostRecords) /\ PostsKept
    BY <1>13, GivesUpEffect, DoneEffect, OnePostKept
  <2>2. /\ shown' \in Settings /\ draft' \in Nat /\ dirty' \in BOOLEAN
        /\ pending' \in BOOLEAN
    BY <1>13, GivesUpEffect
  <2>3. UNCHANGED <<storeVars, keyText, historyVars>>
    BY <1>13 DEF GivesUp
  <2> QED
    BY <1>0, <2>1, <2>2, <2>3 DEF SettingsTypeOK
<1> QED
  BY <1>1, <1>2, <1>3, <1>4, <1>5, <1>6, <1>7, <1>8, <1>9, <1>10, <1>11, <1>12, <1>13,
     RequestsEffect DEF SettingsNext, PageEnds

\* What is held stays plain.
LEMMA ValuesStep ==
  ASSUME SettingsTypeOK, ValuesInOrder, TurnsInOrder, [SettingsNext]_settingsVars
  PROVE  ValuesInOrder'
<1> USE DEF storeVars, popupVars, historyVars, settingsVars
<1> DEFINE n == roomText
<1>0. /\ file \in {Missing, Empty, Torn} \/ Plain(file, n)
      /\ cache = NotRead \/ Plain(cache, n)
      /\ shown.room # 0 => n # 0
      /\ draft # 0 => n # 0
      /\ keyText <= texts /\ texts <= MaxTyped
      /\ \A j \in DOMAIN posts : PlainPost(posts[j], n)
      /\ Plain(Loaded, n) /\ Loaded \in Settings
      /\ keyText \in Nat /\ texts \in Nat /\ n \in Nat
  BY LoadedIsPlain DEF SettingsTypeOK, ValuesInOrder
<1>1. CASE UNCHANGED settingsVars
  <2>1. /\ file' = file /\ cache' = cache /\ posts' = posts /\ shown' = shown
        /\ draft' = draft /\ keyText' = keyText /\ texts' = texts /\ roomText' = n
    BY <1>1
  <2> QED
    BY <1>0, <2>1 DEF ValuesInOrder
<1>2. ASSUME NEW field, NEW value, Asks(field, value)
      PROVE  ValuesInOrder'
  <2>1. /\ file' = file /\ cache' = cache /\ draft' = draft /\ keyText' = keyText
        /\ texts' = texts /\ roomText' = n /\ shown'.room = shown.room
    BY <1>2 DEF Asks
  <2>2. /\ field = "key" => value <= MaxTyped
        /\ field = "room" /\ n = 0 => value = 0
    <3>1. /\ field = "key" => value = keyText
          /\ field = "room" => value \in {draft, 0}
      BY <1>2 DEF Asks
    <3> QED
      BY <1>0, <3>1, SettingsBounds
  <2>3. ASSUME NEW j \in DOMAIN posts' PROVE PlainPost(posts'[j], n)
    <3>1. CASE j \in DOMAIN posts
      BY <1>0, <1>2, <3>1, AsksEffect
    <3>2. CASE j = Len(posts) + 1
      <4>1. /\ posts'[j].field = field /\ posts'[j].value = value
            /\ posts'[j].next = Defaults /\ posts'[j].body = NotRead
        BY <1>2, <3>2, AsksEffect
      <4> QED
        BY <2>2, <4>1, Sentinels DEF PlainPost
    <3> QED
      BY <1>2, <3>1, <3>2, AsksEffect
  <2> QED
    BY <1>0, <2>1, <2>3 DEF ValuesInOrder
<1>3. CASE TypesKey
  <2>1. /\ file' = file /\ cache' = cache /\ posts' = posts /\ shown' = shown
        /\ draft' = draft /\ keyText' = texts + 1 /\ texts' = texts + 1 /\ roomText' = n
        /\ texts < MaxTyped
    BY <1>3 DEF TypesKey
  <2> QED
    BY <1>0, <2>1, SettingsBounds DEF ValuesInOrder
<1>4. CASE TypesRoom
  <2>1. /\ file' = file /\ cache' = cache /\ posts' = posts /\ shown' = shown
        /\ draft' = texts + 1 /\ keyText' = keyText /\ texts' = texts + 1
        /\ roomText' = texts + 1 /\ texts < MaxTyped
    BY <1>4 DEF TypesRoom
  <2>2. roomText' # 0 /\ keyText <= texts + 1 /\ texts + 1 <= MaxTyped
    BY <1>0, <2>1, SettingsBounds
  <2>3. \A j \in DOMAIN posts : PlainPost(posts[j], roomText')
    BY <1>0, <2>2 DEF PlainPost, Plain
  <2> QED
    BY <1>0, <2>1, <2>2, <2>3 DEF ValuesInOrder, Plain
<1>5. CASE Restarts
  <2>1. /\ file' = file /\ cache' = NotRead /\ shown' = shown
        /\ draft' = draft /\ keyText' = keyText /\ texts' = texts /\ roomText' = n
    BY <1>5 DEF Restarts
  <2>2. \A j \in DOMAIN posts' : PlainPost(posts'[j], n)
    BY <1>0, <1>5, RestartsEffect DEF PlainPost
  <2> QED
    BY <1>0, <2>1, <2>2 DEF ValuesInOrder
<1>6. ASSUME NEW i \in DOMAIN posts, OtherPosts(i), PlainPost(posts'[i], n)
      PROVE  \A j \in DOMAIN posts' : PlainPost(posts'[j], n)
  BY <1>0, <1>6 DEF OtherPosts
<1>7. ASSUME NEW i \in DOMAIN posts, Handles(i)
      PROVE  ValuesInOrder'
  <2>1. /\ file' = file /\ cache' = Loaded /\ shown' = shown
        /\ draft' = draft /\ keyText' = keyText /\ texts' = texts /\ roomText' = n
    BY <1>7 DEF Handles
  <2> DEFINE p == posts[i]
             q == posts'[i]
  <2>2. /\ OtherPosts(i) /\ p.field \in Fields
        /\ q.field = p.field /\ q.value = p.value
        /\ q.next = With(Loaded, p.field, p.value) /\ q.body = p.body
    BY <1>7, HandlesEffect
  <2>3. PlainPost(p, n) /\ p.value \in Nat
    <3>1. p \in PostRecords
      BY DEF SettingsTypeOK
    <3> QED
      BY <1>0, <3>1 DEF PostRecords
  <2>4. Plain(With(Loaded, p.field, p.value), n)
    BY <1>0, <2>2, <2>3, WithIsSettings DEF PlainPost, Plain, Proper
  <2>5. PlainPost(q, n)
    BY <2>2, <2>3, <2>4 DEF PlainPost
  <2> QED
    BY <1>0, <1>6, <2>1, <2>2, <2>5 DEF ValuesInOrder
<1>8. ASSUME NEW i \in DOMAIN posts, NEW s \in {"opened", "written", "failed"},
             ServerSays(i, s)
      PROVE  \A j \in DOMAIN posts' : PlainPost(posts'[j], n)
  <2>1. OtherPosts(i) /\ PlainPost(posts'[i], n)
    BY <1>0, <1>8, SaysEffect DEF PlainPost
  <2> QED
    BY <1>6, <2>1
<1>9. ASSUME NEW i \in DOMAIN posts, OpensFile(i)
      PROVE  ValuesInOrder'
  <2>1. /\ file' = Empty /\ cache' = cache /\ shown' = shown
        /\ draft' = draft /\ keyText' = keyText /\ texts' = texts /\ roomText' = n
        /\ ServerSays(i, "opened")
    BY <1>9 DEF OpensFile
  <2> QED
    BY <1>0, <1>8, <2>1 DEF ValuesInOrder
<1>10. ASSUME NEW i \in DOMAIN posts, WritesFile(i)
       PROVE  ValuesInOrder'
  <2>1. /\ file' \in {posts[i].next, Torn} /\ cache' = cache /\ shown' = shown
        /\ draft' = draft /\ keyText' = keyText /\ texts' = texts /\ roomText' = n
        /\ ServerSays(i, "written")
    BY <1>10 DEF WritesFile, Written
  <2>2. Plain(posts[i].next, n)
    BY <1>0 DEF PlainPost
  <2> QED
    BY <1>0, <1>8, <2>1, <2>2 DEF ValuesInOrder
<1>11. ASSUME NEW i \in DOMAIN posts, Remembers(i)
       PROVE  ValuesInOrder'
  <2>1. /\ file' = file /\ cache' = posts[i].next /\ shown' = shown
        /\ draft' = draft /\ keyText' = keyText /\ texts' = texts /\ roomText' = n
    BY <1>11 DEF Remembers
  <2>2. OtherPosts(i) /\ PlainPost(posts'[i], n) /\ Plain(posts[i].next, n)
    BY <1>0, <1>11, RemembersEffect, Sentinels DEF PlainPost
  <2> QED
    BY <1>0, <1>6, <2>1, <2>2 DEF ValuesInOrder
<1>12. ASSUME NEW i \in DOMAIN posts, Responds(i)
       PROVE  ValuesInOrder'
  <2>1. /\ shown' = shown
        /\ draft' = draft /\ keyText' = keyText /\ texts' = texts /\ roomText' = n
    BY <1>12 DEF Responds
  <2>2. /\ Plain(cache', n) /\ file' \in {file, cache'}
        /\ OtherPosts(i) /\ PlainPost(posts'[i], n)
    BY <1>0, <1>12, RespondsEffect DEF PlainPost
  <2> QED
    BY <1>0, <1>6, <2>1, <2>2 DEF ValuesInOrder
<1>13. ASSUME NEW i \in DOMAIN posts, Botches(i)
       PROVE  ValuesInOrder'
  <2>1. /\ file' = file /\ cache' = cache /\ shown' = shown
        /\ draft' = draft /\ keyText' = keyText /\ texts' = texts /\ roomText' = n
        /\ ServerSays(i, "failed")
    BY <1>13 DEF Botches
  <2> QED
    BY <1>0, <1>8, <2>1 DEF ValuesInOrder
<1>14. ASSUME NEW i \in DOMAIN posts, NEW end \in {"done", "failed"}, PageDone(i, end)
       PROVE  \A j \in DOMAIN posts' : PlainPost(posts'[j], n)
  <2>1. OtherPosts(i) /\ PlainPost(posts'[i], n)
    BY <1>0, <1>14, DoneEffect DEF PlainPost
  <2> QED
    BY <1>6, <2>1
<1>15. ASSUME NEW i \in DOMAIN posts, Arrives(i)
       PROVE  ValuesInOrder'
  <2>1. /\ file' = file /\ cache' = cache /\ texts' = texts /\ roomText' = n
        /\ keyText' \in {0, keyText} /\ PageDone(i, "done")
        /\ posts[i].server = "answered" /\ posts[i].page = "waiting"
    BY <1>15 DEF Arrives
  <2>2. posts[i].body # NotRead
    BY <2>1 DEF TurnsInOrder, Numbered
  <2>3. Plain(posts[i].body, n)
    BY <1>0, <2>2 DEF PlainPost
  <2>4. /\ shown' = shown \/ shown' = posts[i].body
        /\ draft' = draft \/ draft' = posts[i].body.room
    BY <1>15 DEF Arrives, Apply, Drafted
  <2>5. /\ shown'.room # 0 => n # 0
        /\ draft' # 0 => n # 0
        /\ keyText' <= texts
    BY <1>0, <2>1, <2>3, <2>4 DEF Plain
  <2> QED
    BY <1>0, <1>14, <2>1, <2>5 DEF ValuesInOrder
<1>16. ASSUME NEW i \in DOMAIN posts, GivesUp(i)
       PROVE  ValuesInOrder'
  <2>1. /\ file' = file /\ cache' = cache /\ texts' = texts /\ roomText' = n
        /\ keyText' = keyText /\ PageDone(i, "failed")
    BY <1>16 DEF GivesUp
  <2>2. \/ shown' = Defaults /\ draft' = Drafted(Defaults)
        \/ shown'.room = shown.room /\ draft' = draft
    BY <1>16, GivesUpEffect
  <2>3. /\ shown'.room # 0 => n # 0
        /\ draft' # 0 => n # 0
    BY <1>0, <2>2, Sentinels DEF Drafted
  <2> QED
    BY <1>0, <1>14, <2>1, <2>3 DEF ValuesInOrder
<1> QED
  BY <1>1, <1>2, <1>3, <1>4, <1>5, <1>7, <1>9, <1>10, <1>11, <1>12, <1>13, <1>15, <1>16,
     RequestsEffect DEF SettingsNext, PageEnds

\* A step that lets the saves, the file and the cache alone.
LEMMA SavesAlone ==
  ASSUME SavesInOrder, file' = file, cache' = cache, damaged' = damaged,
         \A j \in DOMAIN posts' : Saving(posts'[j]) =>
           /\ j \in DOMAIN posts /\ posts'[j].server = posts[j].server
           /\ posts'[j].field = posts[j].field /\ posts'[j].value = posts[j].value
           /\ posts'[j].next = posts[j].next,
         \A j \in DOMAIN posts : Saving(posts[j]) =>
           j \in DOMAIN posts' /\ Saving(posts'[j])
  PROVE  SavesInOrder'
BY DEF SavesInOrder, SomeSaves, Saving, SaveFits

\* What is loaded from a file in order is stored.
LEMMA LoadedIsStored ==
  ASSUME SettingsTypeOK, ValuesInOrder, Stored(file, cache)
  PROVE  Stored(file, Loaded)
<1>1. Loaded # NotRead /\ (cache # NotRead => Loaded = cache)
  BY LoadedIsPlain
<1>2. CASE cache = NotRead
  <2>1. file \notin {Empty, Torn}
    BY <1>2, Sentinels DEF Stored
  <2>2. Loaded = IF file = Missing THEN Defaults ELSE file
    BY <1>2, <2>1 DEF Loaded
  <2> QED
    BY <1>1, <2>2 DEF Stored
<1> QED
  BY <1>1, <1>2

\* Saves stay in order.
LEMMA SavesStep ==
  ASSUME SettingsTypeOK, ValuesInOrder, SavesInOrder, [SettingsNext]_settingsVars
  PROVE  SavesInOrder'
<1> USE DEF storeVars, popupVars, historyVars, settingsVars
<1>1. CASE UNCHANGED settingsVars
  <2>1. file' = file /\ cache' = cache /\ posts' = posts /\ damaged' = damaged
    BY <1>1
  <2> QED
    BY <2>1, SavesAlone
<1>2. ASSUME NEW field, NEW value, Asks(field, value)
      PROVE  SavesInOrder'
  <2>1. file' = file /\ cache' = cache /\ damaged' = damaged
    BY <1>2 DEF Asks
  <2>2. /\ \A j \in DOMAIN posts : posts'[j] = posts[j] /\ j \in DOMAIN posts'
        /\ \A j \in DOMAIN posts' : j \in DOMAIN posts \/ posts'[j].server = "sent"
    BY <1>2, AsksEffect
  <2>3. \A j \in DOMAIN posts' : Saving(posts'[j]) => j \in DOMAIN posts
    BY <2>2 DEF Saving
  <2> QED
    BY <2>1, <2>2, <2>3, SavesAlone
<1>3. CASE TypesKey \/ TypesRoom
  <2>1. file' = file /\ cache' = cache /\ posts' = posts /\ damaged' = damaged
    BY <1>3 DEF TypesKey, TypesRoom
  <2> QED
    BY <2>1, SavesAlone
<1>4. CASE Restarts
  <2>1. file' = file /\ cache' = NotRead /\ damaged' = (damaged \/ SomeSaves)
    BY <1>4 DEF Restarts
  <2>2. \A j \in DOMAIN posts' : ~Saving(posts'[j])
    BY <1>4, RestartsEffect DEF Saving
  <2>3. ASSUME ~damaged' PROVE Stored(file, NotRead)
    <3>1. Stored(file, cache)
      BY <2>1, <2>3 DEF SavesInOrder
    <3>2. cache = NotRead \/ cache \notin {Empty, Torn}
      BY Sentinels DEF SettingsTypeOK, ValuesInOrder, Plain
    <3> QED
      BY <3>1, <3>2, Sentinels DEF Stored
  <2> QED
    BY <2>1, <2>2, <2>3 DEF SavesInOrder
\* The save of i goes on, and there is no other.
<1>5. ASSUME NEW i \in DOMAIN posts, OtherPosts(i),
             ~damaged' => \A j \in DOMAIN posts \ {i} : ~Saving(posts[j]),
             ~damaged' => IF Saving(posts'[i]) THEN SaveFits(posts'[i], file', cache')
                          ELSE Stored(file', cache')
      PROVE  SavesInOrder'
  <2>1. \A j \in DOMAIN posts' : j \in DOMAIN posts
    BY <1>5 DEF OtherPosts
  <2>2. ASSUME ~damaged', NEW j \in DOMAIN posts', j # i PROVE ~Saving(posts'[j])
    BY <1>5, <2>1, <2>2 DEF OtherPosts, Saving
  <2>3. i \in DOMAIN posts'
    BY <1>5 DEF OtherPosts
  <2> QED
    BY <1>5, <2>2, <2>3 DEF SavesInOrder, SomeSaves
<1>6. ASSUME NEW i \in DOMAIN posts, Handles(i)
      PROVE  SavesInOrder'
  <2>1. file' = file /\ cache' = Loaded /\ damaged' = (damaged \/ SomeSaves)
    BY <1>6 DEF Handles
  <2>2. /\ OtherPosts(i) /\ posts[i].field \in Fields
        /\ posts'[i].field = posts[i].field /\ posts'[i].value = posts[i].value
        /\ posts'[i].server = "making"
        /\ posts'[i].next = With(Loaded, posts[i].field, posts[i].value)
    BY <1>6, HandlesEffect
  <2>3. ASSUME ~damaged'
        PROVE  /\ \A j \in DOMAIN posts \ {i} : ~Saving(posts[j])
               /\ SaveFits(posts'[i], file', cache')
    <3>1. ~SomeSaves /\ ~damaged
      BY <2>1, <2>3
    <3>2. Stored(file, Loaded) /\ Loaded # NotRead
      BY <3>1, LoadedIsStored, LoadedIsPlain DEF SavesInOrder
    <3> QED
      BY <2>1, <2>2, <3>1, <3>2 DEF SaveFits, SomeSaves
  <2>4. Saving(posts'[i])
    BY <2>2 DEF Saving
  <2> QED
    BY <1>5, <2>2, <2>3, <2>4
<1>7. ASSUME NEW i \in DOMAIN posts, Saving(posts[i]), ~damaged
      PROVE  /\ \A j \in DOMAIN posts \ {i} : ~Saving(posts[j])
             /\ SaveFits(posts[i], file, cache)
  BY <1>7 DEF SavesInOrder
<1>8. ASSUME NEW i \in DOMAIN posts, OpensFile(i)
      PROVE  SavesInOrder'
  <2>1. /\ file' = Empty /\ cache' = cache /\ damaged' = damaged
        /\ posts[i].server = "making" /\ ServerSays(i, "opened")
    BY <1>8 DEF OpensFile
  <2>2. /\ OtherPosts(i) /\ posts'[i].server = "opened"
        /\ posts'[i].field = posts[i].field /\ posts'[i].value = posts[i].value
        /\ posts'[i].next = posts[i].next
    BY <2>1, SaysEffect
  <2>3. Saving(posts[i]) /\ Saving(posts'[i])
    BY <2>1, <2>2 DEF Saving
  <2>4. ASSUME ~damaged' PROVE SaveFits(posts'[i], file', cache')
    BY <1>7, <2>1, <2>2, <2>3, <2>4 DEF SaveFits
  <2> QED
    BY <1>5, <1>7, <2>1, <2>2, <2>3, <2>4
<1>9. ASSUME NEW i \in DOMAIN posts, WritesFile(i)
      PROVE  SavesInOrder'
  <2>1. /\ file' \in Written(posts[i].next) /\ cache' = cache /\ damaged' = damaged
        /\ posts[i].server = "opened" /\ ServerSays(i, "written")
    BY <1>9 DEF WritesFile
  <2>2. /\ OtherPosts(i) /\ posts'[i].server = "written"
        /\ posts'[i].field = posts[i].field /\ posts'[i].value = posts[i].value
        /\ posts'[i].next = posts[i].next
    BY <2>1, SaysEffect
  <2>3. Saving(posts[i]) /\ Saving(posts'[i])
    BY <2>1, <2>2 DEF Saving
  <2>4. ASSUME ~damaged' PROVE SaveFits(posts'[i], file', cache')
    <3>1. SaveFits(posts[i], file, cache)
      BY <1>7, <2>1, <2>3, <2>4
    <3>2. file' = posts[i].next
      BY <2>1, <3>1 DEF Written, SaveFits
    <3> QED
      BY <2>1, <2>2, <3>1, <3>2 DEF SaveFits
  <2> QED
    BY <1>5, <1>7, <2>1, <2>2, <2>3, <2>4
<1>10. ASSUME NEW i \in DOMAIN posts, Remembers(i)
       PROVE  SavesInOrder'
  <2>1. file' = file /\ damaged' = damaged
    BY <1>10 DEF Remembers
  <2>2. /\ OtherPosts(i) /\ posts[i].server = "written" /\ posts'[i].server = "saved"
        /\ cache' = posts[i].next /\ posts[i].next \in Settings
    BY <1>10, RemembersEffect
  <2>3. Saving(posts[i]) /\ ~Saving(posts'[i])
    BY <2>2 DEF Saving
  <2>4. cache' # NotRead
    BY <2>2, Sentinels DEF ValuesInOrder, PlainPost, Plain
  <2>5. ASSUME ~damaged' PROVE Stored(file', cache')
    <3>1. SaveFits(posts[i], file, cache)
      BY <1>7, <2>1, <2>3, <2>5
    <3> QED
      BY <2>1, <2>2, <2>4, <3>1 DEF SaveFits, Stored
  <2> QED
    BY <1>5, <1>7, <2>1, <2>2, <2>3, <2>5
<1>11. ASSUME NEW i \in DOMAIN posts, Responds(i)
       PROVE  SavesInOrder'
  <2>1. /\ OtherPosts(i) /\ posts[i].server \in {"saved", "sent"}
        /\ posts'[i].server = "answered"
        /\ cache' \in Settings /\ Plain(cache', roomText)
    BY <1>11, RespondsEffect
  <2>0. \/ cache' = Loaded /\ file' = file /\ damaged' = damaged
        \/ file' = cache' /\ damaged' = (damaged \/ SomeSaves)
    BY <1>11, RespondsEffect
  <2>6. /\ ~damaged' => ~damaged
        /\ ~damaged' /\ SomeSaves =>
             cache' = Loaded /\ file' = file /\ damaged' = damaged
    <3>1. CASE cache' = Loaded /\ file' = file /\ damaged' = damaged
      BY <3>1
    <3>2. CASE file' = cache' /\ damaged' = (damaged \/ SomeSaves)
      BY <3>2
    <3> QED
      BY <2>0, <3>1, <3>2
  <2>2. ~Saving(posts[i]) /\ ~Saving(posts'[i])
    BY <2>1 DEF Saving
  <2>3. cache' # NotRead
    BY <2>1, Sentinels DEF Plain
  <2>4. CASE SomeSaves /\ ~damaged'
    <3>1. ~damaged /\ file' = file /\ damaged' = damaged /\ cache' = Loaded
      BY <2>4, <2>6
    <3>2. cache # NotRead
      BY <2>4, <3>1 DEF SavesInOrder, SomeSaves, SaveFits
    <3>3. cache' = cache
      BY <3>1, <3>2, LoadedIsPlain
    <3> QED
      BY <2>1, <2>2, <3>1, <3>3, SavesAlone DEF OtherPosts
  <2>5. CASE ~SomeSaves /\ ~damaged'
    <3>1. ~damaged /\ \A j \in DOMAIN posts : ~Saving(posts[j])
      BY <2>5, <2>6 DEF SomeSaves
    <3>2. Stored(file, Loaded)
      BY <2>5, <3>1, LoadedIsStored DEF SavesInOrder
    <3>3. Stored(file', cache')
      BY <2>0, <2>3, <3>2 DEF Stored
    <3> QED
      BY <1>5, <2>1, <2>2, <3>1, <3>3
  <2> QED
    BY <2>4, <2>5 DEF SavesInOrder
<1>12. ASSUME NEW i \in DOMAIN posts, Botches(i)
       PROVE  SavesInOrder'
  <2>1. /\ file' = file /\ cache' = cache /\ damaged' = damaged
        /\ posts[i].server = "saved" /\ ServerSays(i, "failed")
    BY <1>12 DEF Botches
  <2>2. OtherPosts(i) /\ ~Saving(posts[i]) /\ ~Saving(posts'[i])
    BY <2>1, SaysEffect DEF Saving
  <2> QED
    BY <2>1, <2>2, SavesAlone DEF OtherPosts
<1>13. ASSUME NEW i \in DOMAIN posts, PageEnds(i)
       PROVE  SavesInOrder'
  <2>1. file' = file /\ cache' = cache /\ damaged' = damaged
    BY <1>13 DEF PageEnds, Arrives, GivesUp
  <2>2. PICK end \in {"done", "failed"} : PageDone(i, end)
    BY <1>13 DEF PageEnds, Arrives, GivesUp
  <2>3. /\ OtherPosts(i) /\ posts'[i].server = posts[i].server
        /\ posts'[i].field = posts[i].field /\ posts'[i].value = posts[i].value
        /\ posts'[i].next = posts[i].next
    BY <2>2, DoneEffect
  <2> QED
    BY <2>1, <2>3, SavesAlone DEF OtherPosts, Saving
<1> QED
  BY <1>1, <1>2, <1>3, <1>4, <1>6, <1>8, <1>9, <1>10, <1>11, <1>12, <1>13,
     RequestsEffect DEF SettingsNext

\* The device of what the server works with stays, once it has one.
LEMMA DeviceStays ==
  ASSUME SettingsTypeOK, ValuesInOrder, SavesInOrder, [SettingsNext]_settingsVars,
         ~damaged'
  PROVE  /\ ~damaged
         /\ Loaded'.device = Loaded.device \/ Loaded.device = 0
<1> USE DEF storeVars, popupVars, historyVars, settingsVars
<1>0. /\ Loaded # NotRead /\ (cache # NotRead => Loaded = cache)
      /\ Loaded \in Settings
  BY LoadedIsPlain
<1>1. ASSUME file' = file, cache' = cache, damaged' = damaged
      PROVE  ~damaged /\ Loaded' = Loaded
  BY <1>1 DEF Loaded
<1>2. CASE UNCHANGED settingsVars
  BY <1>1, <1>2
<1>3. ASSUME NEW field, NEW value, Asks(field, value)
      PROVE  ~damaged /\ Loaded' = Loaded
  BY <1>1, <1>3 DEF Asks
<1>4. CASE TypesKey \/ TypesRoom
  BY <1>1, <1>4 DEF TypesKey, TypesRoom
<1>5. CASE Restarts
  <2>1. file' = file /\ cache' = NotRead /\ damaged' = (damaged \/ SomeSaves)
    BY <1>5 DEF Restarts
  <2>2. ~damaged /\ ~SomeSaves
    BY <2>1
  <2>3. Stored(file, cache)
    BY <2>2 DEF SavesInOrder
  <2>4. Loaded' = IF file \in {Missing, Empty, Torn} THEN Defaults ELSE file
    BY <2>1 DEF Loaded
  <2>5. CASE cache = NotRead
    BY <2>2, <2>4, <2>5 DEF Loaded
  <2>6. CASE cache # NotRead
    <3>1. cache \notin {Missing, Empty, Torn}
      BY <2>6, Sentinels DEF SettingsTypeOK, ValuesInOrder, Plain
    <3> QED
      BY <1>0, <2>2, <2>3, <2>4, <2>6, <3>1 DEF Stored
  <2> QED
    BY <2>5, <2>6
<1>6. ASSUME NEW i \in DOMAIN posts, Handles(i)
      PROVE  ~damaged /\ Loaded' = Loaded
  <2>1. file' = file /\ cache' = Loaded /\ damaged' = (damaged \/ SomeSaves)
    BY <1>6 DEF Handles
  <2>2. ~damaged
    BY <2>1
  <2> QED
    BY <1>0, <2>1, <2>2 DEF Loaded
<1>7. ASSUME NEW i \in DOMAIN posts, Saving(posts[i]), cache' = cache, damaged' = damaged
      PROVE  ~damaged /\ Loaded' = Loaded
  <2>1. cache # NotRead
    BY <1>7 DEF SavesInOrder, SaveFits
  <2> QED
    BY <1>7, <2>1 DEF Loaded
<1>8. ASSUME NEW i \in DOMAIN posts, OpensFile(i) \/ WritesFile(i)
      PROVE  ~damaged /\ Loaded' = Loaded
  <2>1. cache' = cache /\ damaged' = damaged /\ posts[i].server \in {"making", "opened"}
    BY <1>8 DEF OpensFile, WritesFile
  <2> QED
    BY <1>7, <2>1 DEF Saving
<1>9. ASSUME NEW i \in DOMAIN posts, Remembers(i)
      PROVE  ~damaged /\ Loaded'.device = Loaded.device
  <2>1. damaged' = damaged
    BY <1>9 DEF Remembers
  <2>2. /\ posts[i].server = "written" /\ cache' = posts[i].next
        /\ posts[i].next \in Settings
    BY <1>9, RemembersEffect
  <2>3. cache' # NotRead
    BY <2>2, Sentinels DEF ValuesInOrder, PlainPost, Plain
  <2>4. SaveFits(posts[i], file, cache)
    BY <2>1, <2>2 DEF SavesInOrder, Saving
  <2>5. /\ cache # NotRead /\ posts[i].field \in Fields
        /\ posts[i].next = With(cache, posts[i].field, posts[i].value)
    BY <2>4 DEF SaveFits
  <2>6. posts[i] \in PostRecords
    BY DEF SettingsTypeOK
  <2>7. posts[i].value \in Nat /\ cache \in Settings
    BY <2>6 DEF PostRecords, SettingsTypeOK
  <2>8. cache'.device = cache.device
    BY <2>2, <2>5, <2>7, WithIsSettings
  <2>9. Loaded' = cache'
    BY <2>3 DEF Loaded
  <2> QED
    BY <1>0, <2>1, <2>5, <2>8, <2>9
<1>10. ASSUME NEW i \in DOMAIN posts, Responds(i)
       PROVE  ~damaged /\ (Loaded'.device = Loaded.device \/ Loaded.device = 0)
  <2>1. /\ cache' \in Settings /\ Plain(cache', roomText)
        /\ cache'.device = Loaded.device \/ Loaded.device = 0
    BY <1>10, RespondsEffect
  <2>2. damaged' = damaged \/ damaged' = (damaged \/ SomeSaves)
    BY <1>10, RespondsEffect
  <2>3. ~damaged
    <3>1. CASE damaged' = damaged
      BY <3>1
    <3>2. CASE damaged' = (damaged \/ SomeSaves)
      BY <3>2
    <3> QED
      BY <2>2, <3>1, <3>2
  <2>4. Loaded' = cache'
    BY <2>1, Sentinels DEF Plain, Loaded
  <2> QED
    BY <2>1, <2>3, <2>4
<1>11. ASSUME NEW i \in DOMAIN posts, Botches(i) \/ PageEnds(i)
       PROVE  ~damaged /\ Loaded' = Loaded
  <2>1. file' = file /\ cache' = cache /\ damaged' = damaged
    BY <1>11 DEF Botches, PageEnds, Arrives, GivesUp
  <2> QED
    BY <1>1, <2>1
<1> QED
  BY <1>2, <1>3, <1>4, <1>5, <1>6, <1>8, <1>9, <1>10, <1>11,
     RequestsEffect DEF SettingsNext

\* Whatever changes an answer that was not read puts nothing there, but for the
\* answer just given.
LEMMA BodiesStay ==
  ASSUME SettingsTypeOK, ValuesInOrder, [SettingsNext]_settingsVars
  PROVE  \A i \in DOMAIN posts' :
           \/ posts'[i].body = NotRead
           \/ i \in DOMAIN posts /\ posts'[i].body = posts[i].body
           \/ /\ posts'[i].body = cache' /\ cache' # NotRead /\ cache'.device # 0
              /\ i \in DOMAIN posts /\ Responds(i)
<1> USE DEF storeVars, popupVars, historyVars, settingsVars
<1> DEFINE Fits(i) == \/ posts'[i].body = NotRead
                      \/ i \in DOMAIN posts /\ posts'[i].body = posts[i].body
                      \/ /\ posts'[i].body = cache' /\ cache' # NotRead
                         /\ cache'.device # 0 /\ i \in DOMAIN posts /\ Responds(i)
<1>1. CASE UNCHANGED settingsVars \/ TypesKey \/ TypesRoom
  <2>1. posts' = posts
    BY <1>1 DEF TypesKey, TypesRoom
  <2> QED
    BY <2>1
<1>2. ASSUME NEW field, NEW value, Asks(field, value)
      PROVE  \A j \in DOMAIN posts' : Fits(j)
  BY <1>2, AsksEffect
<1>3. CASE Restarts
  BY <1>3, RestartsEffect
<1>4. ASSUME NEW i \in DOMAIN posts, OtherPosts(i), Fits(i)
      PROVE  \A j \in DOMAIN posts' : Fits(j)
  BY <1>4 DEF OtherPosts
<1>5. ASSUME NEW i \in DOMAIN posts, Handles(i)
      PROVE  \A j \in DOMAIN posts' : Fits(j)
  BY <1>4, <1>5, HandlesEffect
<1>6. ASSUME NEW i \in DOMAIN posts, NEW s \in {"opened", "written", "failed"},
             ServerSays(i, s)
      PROVE  \A j \in DOMAIN posts' : Fits(j)
  BY <1>4, <1>6, SaysEffect
<1>7. ASSUME NEW i \in DOMAIN posts, OpensFile(i) \/ WritesFile(i) \/ Botches(i)
      PROVE  \A j \in DOMAIN posts' : Fits(j)
  BY <1>6, <1>7 DEF OpensFile, WritesFile, Botches
<1>8. ASSUME NEW i \in DOMAIN posts, Remembers(i)
      PROVE  \A j \in DOMAIN posts' : Fits(j)
  BY <1>4, <1>8, RemembersEffect
<1>9. ASSUME NEW i \in DOMAIN posts, Responds(i)
      PROVE  \A j \in DOMAIN posts' : Fits(j)
  <2>1. /\ OtherPosts(i) /\ posts'[i].body = cache' /\ cache'.device # 0
        /\ cache' \in Settings /\ Plain(cache', roomText)
    BY <1>9, RespondsEffect
  <2>2. cache' # NotRead
    BY <2>1, Sentinels DEF Plain
  <2> QED
    BY <1>4, <1>9, <2>1, <2>2
<1>10. ASSUME NEW i \in DOMAIN posts, PageEnds(i)
       PROVE  \A j \in DOMAIN posts' : Fits(j)
  <2>1. PICK end \in {"done", "failed"} : PageDone(i, end)
    BY <1>10 DEF PageEnds, Arrives, GivesUp
  <2> QED
    BY <1>4, <2>1, DoneEffect
<1> QED
  BY <1>1, <1>2, <1>3, <1>5, <1>7, <1>8, <1>9, <1>10, RequestsEffect DEF SettingsNext

\* Only an answer tells the page of a device.
LEMMA ToldStays ==
  ASSUME SettingsTypeOK, TurnsInOrder, [SettingsNext]_settingsVars
  PROVE  \/ told' = told
         \/ \E i \in DOMAIN posts :
              posts[i].body # NotRead /\ told' = posts[i].body.device
<1> USE DEF storeVars, popupVars, historyVars, settingsVars
<1>1. ASSUME NEW i \in DOMAIN posts, Arrives(i), told' # told
      PROVE  \E j \in DOMAIN posts :
               posts[j].body # NotRead /\ told' = posts[j].body.device
  <2>1. posts[i].body # NotRead
    BY <1>1 DEF Arrives, TurnsInOrder, Numbered
  <2> QED
    BY <1>1, <2>1 DEF Arrives
<1>2. ASSUME NEW field, NEW value, Asks(field, value)
      PROVE  told' = told
  BY <1>2 DEF Asks
<1> QED
  BY <1>1, <1>2, RequestsEffect
     DEF SettingsNext, PageEnds, TypesKey, TypesRoom, Restarts, Handles, OpensFile,
         WritesFile, Remembers, Responds, Botches, GivesUp

\* There is one device.
LEMMA DeviceStep ==
  ASSUME SettingsTypeOK, ValuesInOrder, SavesInOrder, OneDevice, TurnsInOrder,
         [SettingsNext]_settingsVars
  PROVE  OneDevice'
<1> SUFFICES ASSUME ~damaged'
    PROVE /\ told' # 0 => Loaded'.device = told'
          /\ \A i \in DOMAIN posts' :
               posts'[i].body # NotRead =>
                 posts'[i].body.device = Loaded'.device /\ Loaded'.device # 0
  BY DEF OneDevice
<1>1. ~damaged /\ (Loaded'.device = Loaded.device \/ Loaded.device = 0)
  BY DeviceStays
<1>2. /\ told # 0 => Loaded.device = told
      /\ \A i \in DOMAIN posts :
           posts[i].body # NotRead =>
             posts[i].body.device = Loaded.device /\ Loaded.device # 0
  BY <1>1 DEF OneDevice
<1>3. told' # 0 => Loaded'.device = told'
  BY <1>1, <1>2, ToldStays
<1>4. ASSUME NEW i \in DOMAIN posts', posts'[i].body # NotRead
      PROVE  posts'[i].body.device = Loaded'.device /\ Loaded'.device # 0
  <2>1. \/ i \in DOMAIN posts /\ posts'[i].body = posts[i].body
        \/ posts'[i].body = cache' /\ cache' # NotRead /\ cache'.device # 0
    BY <1>4, BodiesStay
  <2>2. CASE i \in DOMAIN posts /\ posts'[i].body = posts[i].body
    BY <1>1, <1>2, <1>4, <2>2
  <2>3. CASE posts'[i].body = cache' /\ cache' # NotRead /\ cache'.device # 0
    <3>1. Loaded' = cache'
      BY <2>3 DEF Loaded
    <3> QED
      BY <2>3, <3>1
  <2> QED
    BY <2>1, <2>2, <2>3
<1> QED
  BY <1>3, <1>4

\* Answers stay numbered.
LEMMA TurnsStep ==
  ASSUME SettingsTypeOK, ValuesInOrder, TurnsInOrder, [SettingsNext]_settingsVars
  PROVE  TurnsInOrder'
<1> USE DEF storeVars, popupVars, historyVars, settingsVars
<1> DEFINE k == Cardinality(Answered)
<1>0. /\ k \in Nat /\ IsFiniteSet(Answered) /\ latest \in Nat /\ latest <= k
      /\ \A j \in DOMAIN posts : Numbered(posts[j], k) /\ posts[j].turn \in Nat
  <2>1. \A j \in DOMAIN posts : posts[j] \in PostRecords
    BY DEF SettingsTypeOK
  <2>2. \A j \in DOMAIN posts : posts[j].turn \in Nat
    BY <2>1 DEF PostRecords
  <2> QED
    BY <2>2, AnsweredIsFinite DEF TurnsInOrder, SettingsTypeOK
<1>1. ASSUME DOMAIN posts \subseteq DOMAIN posts',
             \A j \in DOMAIN posts : posts'[j].turn = posts[j].turn,
             \A j \in DOMAIN posts' \ DOMAIN posts : posts'[j].turn = 0,
             \A j \in DOMAIN posts' : Numbered(posts'[j], k), latest' <= k
      PROVE  TurnsInOrder'
  <2>1. Answered' = Answered
    BY <1>1 DEF Answered
  <2> QED
    BY <1>1, <2>1 DEF TurnsInOrder
<1>2. ASSUME NEW i \in DOMAIN posts, OtherPosts(i), Numbered(posts'[i], k),
             posts'[i].turn = posts[i].turn, latest' <= k
      PROVE  TurnsInOrder'
  <2>1. DOMAIN posts' = DOMAIN posts /\ \A j \in DOMAIN posts \ {i} : posts'[j] = posts[j]
    BY <1>2 DEF OtherPosts
  <2>2. \A j \in DOMAIN posts : Numbered(posts'[j], k) /\ posts'[j].turn = posts[j].turn
    BY <1>0, <1>2, <2>1
  <2> QED
    BY <1>1, <1>2, <2>1, <2>2
<1>3. CASE UNCHANGED settingsVars \/ TypesKey \/ TypesRoom
  <2>1. posts' = posts /\ latest' = latest
    BY <1>3 DEF TypesKey, TypesRoom
  <2> QED
    BY <1>0, <1>1, <2>1
<1>4. ASSUME NEW field, NEW value, Asks(field, value)
      PROVE  TurnsInOrder'
  <2>1. latest' = latest
    BY <1>4 DEF Asks
  <2>2. /\ DOMAIN posts \subseteq DOMAIN posts'
        /\ \A j \in DOMAIN posts : posts'[j] = posts[j]
        /\ \A j \in DOMAIN posts' \ DOMAIN posts :
             /\ posts'[j].turn = 0 /\ posts'[j].server = "sent"
             /\ posts'[j].body = NotRead /\ posts'[j].page = "waiting"
    BY <1>4, AsksEffect DEF PostsKept
  <2>3. \A j \in DOMAIN posts' \ DOMAIN posts : Numbered(posts'[j], k)
    BY <1>0, <2>2 DEF Numbered
  <2> QED
    BY <1>0, <1>1, <2>1, <2>2, <2>3
<1>5. CASE Restarts
  <2>1. latest' = latest
    BY <1>5 DEF Restarts
  <2>2. DOMAIN posts' = DOMAIN posts
    BY <1>5, RestartsEffect
  <2>3. \A j \in DOMAIN posts :
          Numbered(posts'[j], k) /\ posts'[j].turn = posts[j].turn
    BY <1>0, <1>5, RestartsEffect DEF Numbered
  <2> QED
    BY <1>0, <1>1, <2>1, <2>2, <2>3
<1>6. ASSUME NEW i \in DOMAIN posts, Handles(i)
      PROVE  TurnsInOrder'
  <2>1. latest' = latest
    BY <1>6 DEF Handles
  <2>2. /\ OtherPosts(i) /\ posts[i].server = "sent" /\ posts'[i].server = "making"
        /\ posts'[i].turn = posts[i].turn /\ posts'[i].body = posts[i].body
        /\ posts'[i].page = posts[i].page
    BY <1>6, HandlesEffect
  <2>3. Numbered(posts'[i], k)
    BY <1>0, <2>2 DEF Numbered
  <2> QED
    BY <1>0, <1>2, <2>1, <2>2, <2>3
<1>7. ASSUME NEW i \in DOMAIN posts, OpensFile(i) \/ WritesFile(i) \/ Botches(i)
      PROVE  TurnsInOrder'
  <2>1. latest' = latest /\ posts[i].server # "answered"
    BY <1>7 DEF OpensFile, WritesFile, Botches
  <2>2. PICK s \in {"opened", "written", "failed"} : ServerSays(i, s)
    BY <1>7 DEF OpensFile, WritesFile, Botches
  <2>3. /\ OtherPosts(i) /\ posts'[i].server = s
        /\ posts'[i].turn = posts[i].turn /\ posts'[i].body = posts[i].body
        /\ posts'[i].page = posts[i].page
    BY <2>2, SaysEffect
  <2>4. Numbered(posts'[i], k)
    BY <1>0, <2>1, <2>3 DEF Numbered
  <2> QED
    BY <1>0, <1>2, <2>1, <2>3, <2>4
<1>8. ASSUME NEW i \in DOMAIN posts, Remembers(i)
      PROVE  TurnsInOrder'
  <2>1. latest' = latest
    BY <1>8 DEF Remembers
  <2>2. /\ OtherPosts(i) /\ posts[i].server = "written" /\ posts'[i].server = "saved"
        /\ posts'[i].turn = posts[i].turn /\ posts'[i].body = posts[i].body
        /\ posts'[i].page = posts[i].page
    BY <1>8, RemembersEffect
  <2>3. Numbered(posts'[i], k)
    BY <1>0, <2>2 DEF Numbered
  <2> QED
    BY <1>0, <1>2, <2>1, <2>2, <2>3
<1>9. ASSUME NEW i \in DOMAIN posts, Responds(i)
      PROVE  TurnsInOrder'
  <2>1. latest' = latest
    BY <1>9 DEF Responds
  <2>2. /\ OtherPosts(i) /\ posts[i].server # "answered"
        /\ posts'[i].server = "answered" /\ posts'[i].turn = 1 + k
        /\ posts'[i].body # NotRead
    <3>1. /\ OtherPosts(i) /\ posts[i].server \in {"saved", "sent"}
          /\ posts'[i].server = "answered" /\ posts'[i].turn = 1 + k
          /\ posts'[i].body = cache' /\ cache' \in Settings /\ Plain(cache', roomText)
      BY <1>9, RespondsEffect
    <3> QED
      BY <3>1, Sentinels DEF Plain
  <2>3. /\ DOMAIN posts' = DOMAIN posts
        /\ \A j \in DOMAIN posts \ {i} : posts'[j] = posts[j]
    BY <2>2 DEF OtherPosts
  <2>4. i \notin Answered /\ Answered' = Answered \union {i}
    <3>1. ~(posts[i].turn > 0) /\ posts'[i].turn > 0
      BY <1>0, <2>2 DEF Numbered
    <3> QED
      BY <2>3, <3>1 DEF Answered
  <2>5. Cardinality(Answered') = k + 1
    BY <1>0, <2>4, FS_AddElement
  <2>6. Numbered(posts'[i], k + 1)
    BY <1>0, <2>2 DEF Numbered
  <2>7. \A j \in DOMAIN posts \ {i} : Numbered(posts'[j], k + 1)
    BY <1>0, <2>3 DEF Numbered
  <2>8. latest' <= k + 1
    BY <1>0, <2>1
  <2> QED
    BY <2>3, <2>5, <2>6, <2>7, <2>8 DEF TurnsInOrder
<1>10. ASSUME NEW i \in DOMAIN posts, PageEnds(i)
       PROVE  TurnsInOrder'
  <2>1. latest' \in {latest, posts[i].turn}
    BY <1>10 DEF PageEnds, Arrives, GivesUp
  <2>2. latest' <= k
    BY <1>0, <2>1 DEF Numbered
  <2>3. \E end \in {"done", "failed"} :
           PageDone(i, end) /\ (end = "done" => posts[i].server = "answered")
    BY <1>10 DEF PageEnds, Arrives, GivesUp
  <2>4. PICK end \in {"done", "failed"} :
           PageDone(i, end) /\ (end = "done" => posts[i].server = "answered")
    BY <2>3
  <2>5. /\ OtherPosts(i) /\ posts'[i].page = end /\ posts'[i].server = posts[i].server
        /\ posts'[i].body = NotRead /\ posts'[i].turn = posts[i].turn
    BY <2>4, DoneEffect
  <2>6. Numbered(posts'[i], k)
    BY <1>0, <2>4, <2>5 DEF Numbered
  <2> QED
    BY <1>2, <2>2, <2>5, <2>6
<1> QED
  BY <1>3, <1>4, <1>5, <1>6, <1>7, <1>8, <1>9, <1>10, RequestsEffect DEF SettingsNext

\* The last answer holds until the next is given.
LEMMA LastAnswerStep ==
  ASSUME SettingsTypeOK, ValuesInOrder, TurnsInOrder, LastAnswerHolds,
         [SettingsNext]_settingsVars
  PROVE  LastAnswerHolds'
<1> USE DEF storeVars, popupVars, historyVars, settingsVars
<1> DEFINE k == Cardinality(Answered)
<1>0. /\ k \in Nat /\ latest \in Nat /\ latest <= k
      /\ \A j \in DOMAIN posts : posts[j].turn \in Nat /\ posts[j].turn <= k
  <2>1. \A j \in DOMAIN posts : posts[j] \in PostRecords
    BY DEF SettingsTypeOK
  <2>2. \A j \in DOMAIN posts : posts[j].turn \in Nat
    BY <2>1 DEF PostRecords
  <2> QED
    BY <2>2, AnsweredIsFinite DEF TurnsInOrder, Numbered, SettingsTypeOK
<1>1. ASSUME NEW i \in DOMAIN posts', posts'[i].server # "answered"
      PROVE  LastAnswerHolds'
  BY <1>1 DEF LastAnswerHolds, AllAnswered
<1>2. CASE UNCHANGED settingsVars \/ TypesKey \/ TypesRoom
  <2>1. posts' = posts /\ cache' = cache /\ shown' = shown /\ latest' = latest
    BY <1>2 DEF TypesKey, TypesRoom
  <2> QED
    BY <2>1 DEF LastAnswerHolds, AllAnswered
<1>3. ASSUME NEW field, NEW value, Asks(field, value)
      PROVE  LastAnswerHolds'
  <2> DEFINE n == Len(posts) + 1
  <2>1. n \in DOMAIN posts' /\ posts'[n].server = "sent"
    BY <1>3, AsksEffect
  <2> QED
    BY <1>1, <2>1
<1>4. CASE Restarts
  BY <1>4 DEF Restarts, LastAnswerHolds
<1>5. ASSUME NEW i \in DOMAIN posts, Handles(i)
      PROVE  LastAnswerHolds'
  BY <1>1, <1>5, HandlesEffect DEF OtherPosts
<1>6. ASSUME NEW i \in DOMAIN posts, OpensFile(i) \/ WritesFile(i) \/ Botches(i)
      PROVE  LastAnswerHolds'
  <2>1. PICK s \in {"opened", "written", "failed"} : ServerSays(i, s)
    BY <1>6 DEF OpensFile, WritesFile, Botches
  <2>2. OtherPosts(i) /\ posts'[i].server = s
    BY <2>1, SaysEffect
  <2> QED
    BY <1>1, <2>2 DEF OtherPosts
<1>7. ASSUME NEW i \in DOMAIN posts, Remembers(i)
      PROVE  LastAnswerHolds'
  BY <1>1, <1>7, RemembersEffect DEF OtherPosts
<1>8. ASSUME NEW i \in DOMAIN posts, Responds(i)
      PROVE  LastAnswerHolds'
  <2>1. latest' = latest
    BY <1>8 DEF Responds
  <2>2. /\ DOMAIN posts' = DOMAIN posts
        /\ \A j \in DOMAIN posts \ {i} : posts'[j] = posts[j]
        /\ posts'[i].turn = 1 + k /\ posts'[i].body = cache'
    BY <1>8, RespondsEffect DEF OtherPosts
  <2>3. ~(posts'[i].turn <= latest')
    BY <1>0, <2>1, <2>2
  <2>4. ASSUME NEW j \in DOMAIN posts', posts'[i].turn <= posts'[j].turn
        PROVE  posts'[j].body = cache'
    <3>1. j = i
      BY <1>0, <2>2, <2>4
    <3> QED
      BY <2>2, <3>1
  <2> QED
    BY <2>2, <2>3, <2>4 DEF LastAnswerHolds
<1>9. ASSUME NEW i \in DOMAIN posts, NEW end \in {"done", "failed"}, PageDone(i, end),
             cache' = cache
      PROVE  /\ AllAnswered' => AllAnswered
             /\ DOMAIN posts' = DOMAIN posts /\ posts'[i].page = end
             /\ \A j \in DOMAIN posts : posts'[j].turn = posts[j].turn
             /\ AllAnswered' /\ cache # NotRead =>
                  \A j \in DOMAIN posts' :
                    /\ posts'[j].page = "waiting"
                    /\ \A m \in DOMAIN posts' : posts'[m].turn <= posts'[j].turn
                    => posts'[j].body = cache'
             /\ \A j \in DOMAIN posts \ {i} : posts'[j] = posts[j]
  <2>1. /\ DOMAIN posts' = DOMAIN posts
        /\ \A j \in DOMAIN posts \ {i} : posts'[j] = posts[j]
        /\ posts'[i].page = end /\ posts'[i].server = posts[i].server
        /\ posts'[i].turn = posts[i].turn
    BY <1>9, DoneEffect DEF OtherPosts
  <2>2. /\ \A j \in DOMAIN posts : posts'[j].turn = posts[j].turn
        /\ \A j \in DOMAIN posts : posts'[j].server = posts[j].server
    BY <2>1
  <2>3. AllAnswered' => AllAnswered
    BY <2>1, <2>2 DEF AllAnswered
  <2>4. ASSUME AllAnswered', cache # NotRead, NEW j \in DOMAIN posts',
               posts'[j].page = "waiting",
               \A m \in DOMAIN posts' : posts'[m].turn <= posts'[j].turn
        PROVE  posts'[j].body = cache'
    <3>1. j \in DOMAIN posts /\ j # i /\ posts'[j] = posts[j] /\ posts # <<>>
      BY <2>1, <2>4
    <3>2. \A m \in DOMAIN posts : posts[m].turn <= posts[j].turn
      BY <2>1, <2>2, <2>4, <3>1
    <3> QED
      BY <1>9, <2>3, <2>4, <3>1, <3>2 DEF LastAnswerHolds
  <2> QED
    BY <2>1, <2>2, <2>3, <2>4
<1>10. ASSUME NEW i \in DOMAIN posts, Arrives(i)
       PROVE  LastAnswerHolds'
  <2>1. /\ PageDone(i, "done") /\ cache' = cache /\ posts[i].page = "waiting"
        /\ IF Superseded(i) THEN shown' = shown /\ latest' = latest
           ELSE shown' = posts[i].body /\ latest' = posts[i].turn
    BY <1>10 DEF Arrives, Apply
  <2>2. ASSUME AllAnswered', cache # NotRead,
               \A j \in DOMAIN posts' :
                 posts'[j].page # "failed" /\ posts'[j].turn <= latest'
        PROVE  shown' = cache
    <3>1. AllAnswered /\ posts # <<>>
      BY <1>9, <2>1, <2>2
    <3>2. \A j \in DOMAIN posts : posts[j].page # "failed" /\ posts[j].turn <= latest'
      BY <1>9, <2>1, <2>2
    <3>3. CASE Superseded(i)
      BY <2>1, <2>2, <3>1, <3>2, <3>3 DEF LastAnswerHolds
    <3>4. CASE ~Superseded(i)
      <4>1. posts[i].body = cache
        BY <2>1, <2>2, <3>1, <3>2, <3>4 DEF LastAnswerHolds
      <4> QED
        BY <2>1, <3>4, <4>1
    <3> QED
      BY <3>3, <3>4
  <2> QED
    BY <1>9, <2>1, <2>2 DEF LastAnswerHolds
<1>11. ASSUME NEW i \in DOMAIN posts, GivesUp(i)
       PROVE  LastAnswerHolds'
  <2>1. PageDone(i, "failed") /\ cache' = cache
    BY <1>11 DEF GivesUp
  <2> QED
    BY <1>9, <2>1 DEF LastAnswerHolds
<1> QED
  BY <1>2, <1>3, <1>4, <1>5, <1>6, <1>7, <1>8, <1>10, <1>11, RequestsEffect
     DEF SettingsNext, PageEnds

\* The room's fields stay in order.
LEMMA FieldsStep ==
  ASSUME SettingsTypeOK, ValuesInOrder, TurnsInOrder, FieldsInOrder,
         [SettingsNext]_settingsVars
  PROVE  FieldsInOrder'
<1> USE DEF storeVars, popupVars, historyVars, settingsVars
<1>0. PostsKept
  BY SettingsTypeStep
<1>1. ASSUME NEW v, RoomSent(posts, v) PROVE RoomSent(posts', v)
  BY <1>0, <1>1 DEF PostsKept, RoomSent
\* Sent is what makes the first two of what is claimed hold.
<1> DEFINE Sent == RoomSent(posts, roomText) \/ RoomSent(posts, 0)
           SentNow == RoomSent(posts', roomText) \/ RoomSent(posts', 0)
<1>2. /\ draft = roomText \/ Sent
      /\ ~dirty => roomText = 0 \/ Sent
      /\ ~dirty /\ ~RoomWaits => draft = shown.room
      /\ Sent => SentNow
  BY <1>1 DEF FieldsInOrder
<1>3. ASSUME roomText' = roomText,
             draft' = roomText \/ SentNow,
             ~dirty' => roomText = 0 \/ SentNow,
             ~dirty' /\ ~RoomWaits' => draft' = shown'.room
      PROVE  FieldsInOrder'
  BY <1>3 DEF FieldsInOrder
<1> HIDE DEF Sent, SentNow
<1>4. ASSUME DOMAIN posts' = DOMAIN posts, RoomWaits,
             \A j \in DOMAIN posts :
               posts'[j].page = posts[j].page \/ posts[j].field # "room"
      PROVE  RoomWaits'
  BY <1>0, <1>4 DEF RoomWaits, PostsKept
\* The server goes on: nothing of this changes.
<1>5. ASSUME UNCHANGED <<shown, draft, dirty, roomText>>, DOMAIN posts' = DOMAIN posts,
             \A j \in DOMAIN posts : posts'[j].page = posts[j].page
      PROVE  FieldsInOrder'
  BY <1>2, <1>3, <1>4, <1>5
<1>6. CASE UNCHANGED settingsVars \/ TypesKey
  BY <1>5, <1>6 DEF TypesKey
<1>7. CASE TypesRoom
  BY <1>7 DEF TypesRoom, FieldsInOrder
<1>8. ASSUME NEW field, NEW value, Asks(field, value)
      PROVE  FieldsInOrder'
  <2> DEFINE n == Len(posts) + 1
  <2>1. /\ roomText' = roomText /\ draft' = draft /\ shown'.room = shown.room
        /\ dirty' = dirty \/ (dirty' = FALSE /\ field = "room" /\ value \in {draft, 0})
    BY <1>8 DEF Asks
  <2>2. /\ n \in DOMAIN posts' /\ posts'[n].field = field /\ posts'[n].value = value
        /\ posts'[n].page = "waiting"
        /\ \A j \in DOMAIN posts : posts'[j] = posts[j] /\ j \in DOMAIN posts'
    BY <1>8, AsksEffect DEF PostsKept
  <2>3. RoomWaits => RoomWaits'
    BY <2>2 DEF RoomWaits
  <2>4. CASE dirty' = dirty
    BY <1>2, <1>3, <2>1, <2>3, <2>4
  <2>5. CASE dirty' = FALSE /\ field = "room" /\ value \in {draft, 0}
    <3>1. RoomSent(posts', value) /\ RoomWaits'
      BY <2>2, <2>5 DEF RoomSent, RoomWaits
    <3>2. SentNow
      <4>1. CASE value = 0
        BY <3>1, <4>1 DEF SentNow
      <4>2. CASE value = draft
        BY <1>2, <3>1, <4>2 DEF SentNow
      <4> QED
        BY <2>5, <4>1, <4>2
    <3> QED
      BY <1>2, <1>3, <2>1, <3>1, <3>2
  <2> QED
    BY <2>1, <2>4, <2>5
<1>9. CASE Restarts
  <2>1. UNCHANGED <<shown, draft, dirty, roomText>>
    BY <1>9 DEF Restarts
  <2>2. DOMAIN posts' = DOMAIN posts /\ \A j \in DOMAIN posts : posts'[j].page = posts[j].page
    BY <1>9, RestartsEffect
  <2> QED
    BY <1>5, <2>1, <2>2
<1>10. ASSUME NEW i \in DOMAIN posts,
              \/ Handles(i) \/ OpensFile(i) \/ WritesFile(i) \/ Remembers(i)
              \/ Responds(i) \/ Botches(i)
       PROVE  FieldsInOrder'
  <2>1. UNCHANGED <<shown, draft, dirty, roomText>>
    BY <1>10 DEF Handles, OpensFile, WritesFile, Remembers, Responds, Botches
  <2>2. OtherPosts(i) /\ posts'[i].page = posts[i].page
    <3>1. CASE Handles(i)
      BY <3>1, HandlesEffect
    <3>2. CASE Remembers(i)
      BY <3>2, RemembersEffect
    <3>3. CASE Responds(i)
      BY <3>3, RespondsEffect
    <3>4. CASE OpensFile(i) \/ WritesFile(i) \/ Botches(i)
      <4>1. PICK s \in {"opened", "written", "failed"} : ServerSays(i, s)
        BY <3>4 DEF OpensFile, WritesFile, Botches
      <4> QED
        BY <4>1, SaysEffect
    <3> QED
      BY <1>10, <3>1, <3>2, <3>3, <3>4
  <2> QED
    BY <1>5, <2>1, <2>2 DEF OtherPosts
<1>11. ASSUME NEW i \in DOMAIN posts, NEW end \in {"done", "failed"}, PageDone(i, end),
              posts[i].field # "room", RoomWaits
       PROVE  RoomWaits'
  BY <1>4, <1>11, DoneEffect DEF OtherPosts
<1>12. ASSUME NEW i \in DOMAIN posts, Arrives(i)
       PROVE  FieldsInOrder'
  <2>1. /\ roomText' = roomText /\ dirty' = dirty /\ PageDone(i, "done")
        /\ posts[i].server = "answered" /\ posts[i].page = "waiting"
    BY <1>12 DEF Arrives
  <2>2. CASE Superseded(i)
    <3>1. posts[i].field = "hat" /\ shown' = shown /\ draft' = draft
      BY <1>12, <2>2 DEF Superseded, Arrives
    <3> QED
      BY <1>2, <1>3, <1>11, <2>1, <3>1
  <2>3. CASE ~Superseded(i)
    <3>1. shown' = posts[i].body
          /\ draft' = IF dirty THEN draft ELSE posts[i].body.room
      BY <1>12, <2>3 DEF Arrives, Apply, Drafted
    <3>2. roomText = 0 => posts[i].body.room = 0
      <4>1. posts[i].body # NotRead
        BY <2>1 DEF TurnsInOrder, Numbered
      <4> QED
        BY <4>1 DEF ValuesInOrder, PlainPost, Plain
    <3> QED
      BY <1>2, <1>3, <2>1, <3>1, <3>2
  <2> QED
    BY <2>2, <2>3
<1>13. ASSUME NEW i \in DOMAIN posts, GivesUp(i)
       PROVE  FieldsInOrder'
  <2>1. /\ roomText' = roomText /\ PageDone(i, "failed")
    BY <1>13 DEF GivesUp
  <2>2. /\ posts[i].field = "none" =>
             shown' = Defaults /\ draft' = Drafted(Defaults) /\ dirty' = dirty
        /\ posts[i].field # "none" => draft' = draft /\ shown'.room = shown.room
        /\ dirty' = IF posts[i].field = "room" THEN TRUE ELSE dirty
    BY <1>13, GivesUpEffect
  <2>3. CASE posts[i].field = "none"
    <3>1. shown'.room = 0 /\ draft' = IF dirty THEN draft ELSE 0
      BY <2>2, <2>3, Sentinels DEF Drafted
    <3> QED
      BY <1>2, <1>3, <2>1, <2>2, <2>3, <3>1
  <2>4. CASE posts[i].field = "room"
    BY <1>2, <1>3, <2>1, <2>2, <2>4
  <2>5. CASE posts[i].field \notin {"none", "room"}
    BY <1>2, <1>3, <1>11, <2>1, <2>2, <2>5
  <2> QED
    BY <2>3, <2>4, <2>5
<1> QED
  BY <1>6, <1>7, <1>8, <1>9, <1>10, <1>12, <1>13, RequestsEffect
     DEF SettingsNext, PageEnds

\* A key on its way stays in its field.
LEMMA KeyStep ==
  ASSUME SettingsTypeOK, ValuesInOrder, KeyInOrder, [SettingsNext]_settingsVars
  PROVE  KeyInOrder'
<1> USE DEF storeVars, popupVars, historyVars, settingsVars
<1>0. PostsKept
  BY SettingsTypeStep
<1>1. TwoOthers => TwoOthers'
  BY <1>0 DEF PostsKept, TwoOthers
<1> SUFFICES ASSUME ~TwoOthers PROVE KeyInOrder'
  BY <1>1 DEF KeyInOrder
<1>2. \A j \in DOMAIN posts : posts[j].field = "key" /\ posts[j].page = "waiting" =>
                                pending /\ keyText = posts[j].value
  BY DEF KeyInOrder
<1>3. ASSUME pending' = pending, keyText' = keyText, DOMAIN posts' = DOMAIN posts,
             \A j \in DOMAIN posts : posts'[j].page \in {posts[j].page, "done", "failed"}
      PROVE  KeyInOrder'
  BY <1>0, <1>2, <1>3 DEF PostsKept, KeyInOrder
<1>4. CASE UNCHANGED settingsVars \/ TypesRoom
  BY <1>3, <1>4 DEF TypesRoom
<1>5. CASE TypesKey
  BY <1>2, <1>5 DEF TypesKey, KeyInOrder
<1>6. ASSUME NEW field, NEW value, Asks(field, value)
      PROVE  KeyInOrder'
  <2> DEFINE n == Len(posts) + 1
  <2>1. /\ keyText' = keyText
        /\ pending' = pending \/ pending' = TRUE
        /\ field = "key" => value = keyText /\ pending' = TRUE
    BY <1>6 DEF Asks
  <2>2. /\ posts'[n].field = field /\ posts'[n].value = value
        /\ \A j \in DOMAIN posts : posts'[j] = posts[j]
        /\ \A j \in DOMAIN posts' : j \in DOMAIN posts \/ j = n
    BY <1>6, AsksEffect
  <2>3. ASSUME NEW j \in DOMAIN posts', posts'[j].field = "key",
               posts'[j].page = "waiting"
        PROVE  pending' /\ keyText' = posts'[j].value
    <3>1. CASE j \in DOMAIN posts
      <4>1. pending /\ keyText = posts[j].value
        BY <1>2, <2>2, <2>3, <3>1
      <4>2. pending'
        BY <2>1, <4>1
      <4> QED
        BY <2>1, <2>2, <3>1, <4>1, <4>2
    <3>2. CASE j = n
      BY <2>1, <2>2, <2>3, <3>2
    <3> QED
      BY <2>2, <3>1, <3>2
  <2> QED
    BY <2>3 DEF KeyInOrder
<1>7. CASE Restarts
  <2>1. pending' = pending /\ keyText' = keyText
    BY <1>7 DEF Restarts
  <2>2. DOMAIN posts' = DOMAIN posts /\ \A j \in DOMAIN posts : posts'[j].page = posts[j].page
    BY <1>7, RestartsEffect
  <2> QED
    BY <1>3, <2>1, <2>2
<1>8. ASSUME NEW i \in DOMAIN posts,
             \/ Handles(i) \/ OpensFile(i) \/ WritesFile(i) \/ Remembers(i)
             \/ Responds(i) \/ Botches(i)
      PROVE  KeyInOrder'
  <2>1. pending' = pending /\ keyText' = keyText
    BY <1>8 DEF Handles, OpensFile, WritesFile, Remembers, Responds, Botches
  <2>2. OtherPosts(i) /\ posts'[i].page = posts[i].page
    <3>1. CASE Handles(i)
      BY <3>1, HandlesEffect
    <3>2. CASE Remembers(i)
      BY <3>2, RemembersEffect
    <3>3. CASE Responds(i)
      BY <3>3, RespondsEffect
    <3>4. CASE OpensFile(i) \/ WritesFile(i) \/ Botches(i)
      <4>1. PICK s \in {"opened", "written", "failed"} : ServerSays(i, s)
        BY <3>4 DEF OpensFile, WritesFile, Botches
      <4> QED
        BY <4>1, SaysEffect
    <3> QED
      BY <1>8, <3>1, <3>2, <3>3, <3>4
  <2>3. DOMAIN posts' = DOMAIN posts /\ \A j \in DOMAIN posts : posts'[j].page = posts[j].page
    BY <2>2 DEF OtherPosts
  <2> QED
    BY <1>3, <2>1, <2>3
<1>9. ASSUME NEW i \in DOMAIN posts, PageEnds(i)
      PROVE  KeyInOrder'
  <2>1. PICK end \in {"done", "failed"} : PageDone(i, end)
    BY <1>9 DEF PageEnds, Arrives, GivesUp
  <2>2. OtherPosts(i) /\ posts'[i].page = end /\ posts'[i].field = posts[i].field
    BY <2>1, DoneEffect
  <2>3. CASE posts[i].field = "hat"
    <3>1. pending' = pending /\ keyText' = keyText
      BY <1>9, <2>3 DEF PageEnds, Arrives, GivesUp
    <3>2. DOMAIN posts' = DOMAIN posts
          /\ \A j \in DOMAIN posts : posts'[j].page \in {posts[j].page, "done", "failed"}
      BY <2>2 DEF OtherPosts
    <3> QED
      BY <1>3, <3>1, <3>2
  <2>4. CASE posts[i].field # "hat"
    <3>1. ASSUME NEW j \in DOMAIN posts', posts'[j].field = "key",
                 posts'[j].page = "waiting"
          PROVE  FALSE
      <4>1. j # i /\ j \in DOMAIN posts /\ posts[j].field = "key"
        BY <2>2, <3>1 DEF OtherPosts
      <4> QED
        BY <2>4, <4>1 DEF TwoOthers
    <3> QED
      BY <3>1 DEF KeyInOrder
  <2> QED
    BY <2>3, <2>4
<1> QED
  BY <1>4, <1>5, <1>6, <1>7, <1>8, <1>9, RequestsEffect DEF SettingsNext

-----------------------------------------------------------------------------
(* What this says of the settings.                                         *)

LEMMA SettingsStep ==
  SettingsInv /\ [SettingsNext]_settingsVars => SettingsInv'
BY SettingsTypeStep, ValuesStep, SavesStep, DeviceStep, TurnsStep, LastAnswerStep,
   FieldsStep, KeyStep DEF SettingsInv

\* The invariant says what the page and the file are held to.
LEMMA SettingsInvSays ==
  SettingsInv => FileIsTrue /\ ShowsWhatIsStored /\ FieldsAreKept
<1> SUFFICES ASSUME SettingsInv PROVE FileIsTrue /\ ShowsWhatIsStored /\ FieldsAreKept
  OBVIOUS
<1> USE DEF SettingsInv
<1>1. FileIsTrue
  BY DEF FileIsTrue, SavesInOrder, Stored, OneDevice
<1>2. ShowsWhatIsStored
  <2> SUFFICES ASSUME posts # <<>>, cache # NotRead,
                      \A i \in DOMAIN posts : posts[i].page = "done" /\ posts[i].turn <= latest
      PROVE shown = cache
    BY DEF ShowsWhatIsStored
  <2>1. AllAnswered /\ \A i \in DOMAIN posts : posts[i].page # "failed"
    BY DEF AllAnswered, TurnsInOrder, Numbered
  <2> QED
    BY <2>1 DEF LastAnswerHolds
<1>3. FieldsAreKept
  BY DEF FieldsAreKept, FieldsInOrder, RoomSent, RoomWaits
<1> QED
  BY <1>1, <1>2, <1>3

\* Two of the posts that lock the popup are more than one.
LEMMA TwoAreMore ==
  ASSUME SettingsTypeOK, TwoOthers
  PROVE  Cardinality({i \in DOMAIN posts : posts[i].field # "hat"}) > 1
<1> DEFINE S == {i \in DOMAIN posts : posts[i].field # "hat"}
<1>1. PICK i \in DOMAIN posts : \E j \in DOMAIN posts :
        i # j /\ posts[i].field # "hat" /\ posts[j].field # "hat"
  BY DEF TwoOthers
<1>2. PICK j \in DOMAIN posts : i # j /\ posts[i].field # "hat" /\ posts[j].field # "hat"
  BY <1>1
<1>3. IsFiniteSet(S)
  <2>1. DOMAIN posts = 1..Len(posts) /\ Len(posts) \in Nat
    BY DEF SettingsTypeOK
  <2>2. IsFiniteSet(DOMAIN posts)
    BY <2>1, FS_Interval
  <2> QED
    BY <2>2, FS_Subset
<1>4. IsFiniteSet({i}) /\ Cardinality({i}) = 1
  BY FS_Singleton
<1>5. Cardinality({i} \union {j}) = 2
  <2>1. j \notin {i}
    BY <1>2
  <2>2. Cardinality({i} \union {j}) = Cardinality({i}) + 1
    BY <1>4, <2>1, FS_AddElement, Zenon
  <2> QED
    BY <1>4, <2>2
<1>6. {i} \union {j} \subseteq S
  BY <1>2
<1>7. Cardinality({i} \union {j}) <= Cardinality(S) /\ Cardinality(S) \in Nat
  BY <1>3, <1>6, FS_Subset, FS_CardinalityType
<1> QED
  BY <1>5, <1>7

\* Only the answer to a key empties its field.
LEMMA KeyKeptStep ==
  SettingsInv /\ [SettingsNext]_settingsVars => KeyIsKept \/ UNCHANGED settingsVars
<1> USE DEF storeVars, popupVars, historyVars, settingsVars
<1> SUFFICES ASSUME SettingsInv, [SettingsNext]_settingsVars, keyText # 0, keyText' = 0
    PROVE \/ \E i \in DOMAIN posts : posts[i].field = "key" /\ posts[i].value = keyText
          \/ Cardinality({i \in DOMAIN posts : posts[i].field # "hat"}) > 1
  BY DEF KeyIsKept
<1>1. texts \in Nat /\ SettingsTypeOK /\ KeyInOrder
  BY DEF SettingsInv, SettingsTypeOK
<1>2. ASSUME NEW field, NEW value, Asks(field, value)
      PROVE  FALSE
  BY <1>2 DEF Asks
<1>8. ASSUME NEW i \in DOMAIN posts, PageEnds(i)
      PROVE  Arrives(i) /\ posts[i].field = "key"
  BY <1>8 DEF PageEnds, Arrives, GivesUp
<1>9. ~UNCHANGED settingsVars /\ ~TypesKey /\ ~TypesRoom /\ ~Restarts
  BY <1>1 DEF TypesKey, TypesRoom, Restarts
<1>10. ASSUME NEW i \in DOMAIN posts,
              \/ Handles(i) \/ OpensFile(i) \/ WritesFile(i) \/ Remembers(i)
              \/ Responds(i) \/ Botches(i)
       PROVE  FALSE
  BY <1>10 DEF Handles, OpensFile, WritesFile, Remembers, Responds, Botches
<1>3. \E i \in DOMAIN posts : Arrives(i) /\ posts[i].field = "key"
  BY <1>1, <1>2, <1>8, <1>9, <1>10, RequestsEffect DEF SettingsNext
<1>4. PICK i \in DOMAIN posts : Arrives(i) /\ posts[i].field = "key"
  BY <1>3
<1>5. posts[i].page = "waiting"
  BY <1>4 DEF Arrives
<1>6. CASE TwoOthers
  BY <1>1, <1>6, TwoAreMore
<1>7. CASE ~TwoOthers
  BY <1>1, <1>4, <1>5, <1>7 DEF KeyInOrder
<1> QED
  BY <1>6, <1>7

\* Settings that differ from others in one field differ in one field.
LEMMA OneFieldDiffers ==
  ASSUME NEW s \in Settings, NEW f \in {"key", "hat", "room", "device"}, NEW v,
         NEW t, t = [s EXCEPT ![f] = v], t # s
  PROVE  Cardinality({g \in DOMAIN s : t[g] # s[g]}) = 1
<1>1. DOMAIN s = {"key", "hat", "room", "device"}
  BY DEF Settings
<1>2. \A g \in DOMAIN s \ {f} : t[g] = s[g]
  BY <1>1
<1>3. f \in DOMAIN s /\ t[f] = v
  BY <1>1
<1>4. t[f] # s[f]
  <2> SUFFICES ASSUME s[f] = v PROVE FALSE
    BY <1>3
  <2>1. s = [g \in DOMAIN s |-> s[g]]
    BY DEF Settings
  <2>2. t = [g \in DOMAIN s |-> IF g = f THEN v ELSE s[g]]
    BY <2>1
  <2> QED
    BY <2>1, <2>2
<1>5. {g \in DOMAIN s : t[g] # s[g]} = {f}
  BY <1>2, <1>3, <1>4
<1> QED
  BY <1>5, FS_Singleton

\* A save that is remembered changes one setting, and so does the device.
LEMMA OneThingStep ==
  SettingsInv /\ [SettingsNext]_settingsVars => SavesOneThing \/ UNCHANGED settingsVars
<1> USE DEF storeVars, popupVars, historyVars, settingsVars
<1> SUFFICES ASSUME SettingsInv, [SettingsNext]_settingsVars,
                    cache' # cache, cache # NotRead, cache' # NotRead, ~damaged'
    PROVE Cardinality({f \in DOMAIN cache : cache'[f] # cache[f]}) = 1
  BY DEF SavesOneThing
<1>1. /\ SettingsTypeOK /\ ValuesInOrder /\ SavesInOrder /\ ~damaged
      /\ cache \in Settings /\ Loaded = cache
  BY DeviceStays, LoadedIsPlain DEF SettingsInv, SettingsTypeOK
<1>2. ASSUME NEW i \in DOMAIN posts, Remembers(i)
      PROVE  Cardinality({f \in DOMAIN cache : cache'[f] # cache[f]}) = 1
  <2>1. posts[i].server = "written" /\ cache' = posts[i].next
    BY <1>1, <1>2, RemembersEffect
  <2>2. SaveFits(posts[i], file, cache)
    BY <1>1, <2>1 DEF SavesInOrder, Saving
  <2>3. posts[i].field \in Fields
        /\ cache' = [cache EXCEPT ![posts[i].field] = posts[i].value]
    BY <2>1, <2>2 DEF SaveFits, With
  <2> QED
    BY <1>1, <2>3, OneFieldDiffers DEF Fields
<1>3. ASSUME NEW i \in DOMAIN posts, Responds(i)
      PROVE  Cardinality({f \in DOMAIN cache : cache'[f] # cache[f]}) = 1
  <2>1. cache' = cache \/ cache' = [cache EXCEPT !.device = devices + 1]
    BY <1>1, <1>3, RespondsEffect
  <2>2. cache' = [cache EXCEPT !["device"] = devices + 1]
    BY <2>1
  <2> QED
    BY <1>1, <2>2, OneFieldDiffers
<1>4. ASSUME NEW i \in DOMAIN posts,
             Handles(i) \/ OpensFile(i) \/ WritesFile(i) \/ Botches(i) \/ PageEnds(i)
      PROVE  FALSE
  BY <1>1, <1>4 DEF Handles, OpensFile, WritesFile, Botches, PageEnds, Arrives, GivesUp
<1>5. ASSUME NEW field, NEW value, Asks(field, value)
      PROVE  FALSE
  BY <1>5 DEF Asks
<1>6. ~UNCHANGED settingsVars /\ ~TypesKey /\ ~TypesRoom /\ ~Restarts
  BY DEF TypesKey, TypesRoom, Restarts
<1> QED
  BY <1>1, <1>2, <1>3, <1>4, <1>5, <1>6, RequestsEffect DEF SettingsNext

\* Until saves overlap or the server dies saving, the file holds what the server
\* works with and one device id; the popup shows what is stored when it has shown
\* the last answer; and the room's fields lose nothing typed that was not sent
\* (app-settings.ts 107-283, ui-source.ts 1439-1552).
THEOREM SettingsSurvive ==
  SettingsSpec => [](FileIsTrue /\ ShowsWhatIsStored /\ FieldsAreKept)
<1>1. SettingsInit => SettingsInv
  BY SettingsStart
<1>2. SettingsInv /\ [SettingsNext]_settingsVars => SettingsInv'
  BY SettingsStep
<1>3. SettingsInv => FileIsTrue /\ ShowsWhatIsStored /\ FieldsAreKept
  BY SettingsInvSays
<1> QED
  BY <1>1, <1>2, <1>3, PTL DEF SettingsSpec

\* A save changes what it was asked to change and nothing else, and a key typed
\* leaves its field only after it was sent, unless the end of another request had
\* unlocked the field (app-settings.ts 107-283, ui-source.ts 1439-1552).
THEOREM SavesKeepTheRest ==
  SettingsSpec => [][SavesOneThing /\ KeyIsKept]_settingsVars
<1>1. SettingsInit => SettingsInv
  BY SettingsStart
<1>2. SettingsInv /\ [SettingsNext]_settingsVars => SettingsInv'
  BY SettingsStep
<1>3. SettingsInv /\ [SettingsNext]_settingsVars => [SavesOneThing /\ KeyIsKept]_settingsVars
  BY OneThingStep, KeyKeptStep
<1> QED
  BY <1>1, <1>2, <1>3, PTL DEF SettingsSpec
===============================================================================
