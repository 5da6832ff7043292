----------------------- MODULE MonitorConnectionProofs -----------------------
(***************************************************************************)
(* Proofs about MonitorConnection, for any calls, request ids, threads and *)
(* bounds: one connection, whoever creates, closes or loses it, and no     *)
(* request answered twice.  And about WorkspaceActivity, for any workers,  *)
(* tree of files, windows and limits: the activity a snapshot lists is     *)
(* what the agents did.                                                    *)
(***************************************************************************)
EXTENDS MonitorConnection, WorkspaceActivity, FunctionTheorems,
        FiniteSetTheorems, WellFoundedInduction, TLAPS

-----------------------------------------------------------------------------
(* The inductive invariant.                                                *)

\* A task that is creating a client creates one of its own, a process no
\* other task and not the monitor holds; the monitor's client was opened and
\* not closed.
CreationsInOrder ==
  /\ \A k \in Tasks : at[k] = "creating" <=> making[k] # 0
  /\ \A k \in Tasks : making[k] # 0 => proc[making[k]] = "initializing"
  /\ \A k, l \in Tasks : making[k] # 0 /\ making[k] = making[l] => k = l
  /\ client # 0 => proc[client] \in {"open", "exited"}

\* The processes that have used an id.
Askers(r) == {c \in Clients : r \in asked[c]}

\* A pending request and the answers written for its id are no more than the
\* times the id was used.
AnswersAreOwed ==
  \A r \in Requests :
    sent[r] + (IF pending[r] # 0 THEN 1 ELSE 0) <= Cardinality(Askers(r))

IInv == TypeOK /\ CreationsInOrder /\ AnswersAreOwed /\ OneConnection

-----------------------------------------------------------------------------
(* The operators.                                                          *)

\* A set of processes that is not empty has a first one: the intervals 1..c
\* of its members are finite, so one of them includes no other.
LEMMA FirstProcess ==
  ASSUME NEW S \in SUBSET Clients, S # {}
  PROVE  \E c \in S : \A d \in S : c <= d
<1> DEFINE Upto == {1..c : c \in S}
<1>0. MaxClients \in Nat /\ S \subseteq Nat /\ \A c \in S : c >= 1
  BY BoundsAssumption DEF Clients
<1>1. Upto \subseteq FiniteSubsetsOf(Nat)
  <2> SUFFICES ASSUME NEW c \in S PROVE 1..c \in SUBSET Nat /\ IsFiniteSet(1..c)
    BY DEF FiniteSubsetsOf
  <2> QED BY <1>0, FS_Interval
<1>2. Upto # {}
  OBVIOUS
<1> HIDE DEF Upto
<1>3. PICK m \in Upto : \A u \in Upto : ~ (<<u, m>> \in StrictSubsetOrdering(Nat))
  BY <1>1, <1>2, FS_StrictSubsetOrderingWellFounded, WFMin
<1>4. PICK c \in S : m = 1..c
  BY DEF Upto
<1>5. ASSUME NEW d \in S, ~ (c <= d) PROVE FALSE
  <2>1. 1..d \in Upto
    BY DEF Upto
  <2>2. 1..d \subseteq 1..c /\ c \in 1..c /\ c \notin 1..d
    BY <1>0, <1>5
  <2>3. 1..d \in SUBSET Nat /\ 1..c \in SUBSET Nat
    BY <1>0
  <2>4. <<1..d, 1..c>> \in StrictSubsetOrdering(Nat)
    BY <2>2, <2>3 DEF StrictSubsetOrdering
  <2> QED BY <1>3, <1>4, <2>1, <2>4
<1> QED BY <1>5

\* The next process to be spawned has not been.
LEMMA NewbornIsUnborn ==
  ASSUME Unborn # {}
  PROVE  Newborn \in Clients /\ proc[Newborn] = "none" /\ Newborn # 0
<1>1. Unborn \in SUBSET Clients
  BY DEF Unborn
<1>2. \E c \in Unborn : \A d \in Unborn : c <= d
  BY <1>1, FirstProcess
<1>3. Newborn \in Unborn
  BY <1>2 DEF Newborn
<1>4. 0 \notin Clients
  BY BoundsAssumption DEF Clients
<1> QED BY <1>3, <1>4 DEF Unborn

\* What ensureClient() up to its await keeps true.
LEMMA EnsureClientKeeps ==
  ASSUME TypeOK, CreationsInOrder, NoStrayProcess,
         NEW k \in Tasks, NEW places \in [Tasks -> Places],
         \A l \in Tasks : places[l] = "creating" <=> at[l] = "creating",
         at[k] # "creating",
         EnsureClient(k, places),
         UNCHANGED <<client, replaced, late>>
  PROVE  /\ at' \in [Tasks -> Places]
         /\ proc' \in [Clients -> {"none", "initializing", "open", "killed", "exited"}]
         /\ making' \in [Tasks -> Clients \cup {0}]
         /\ CreationsInOrder' /\ NoStrayProcess'
<1>1. CASE stop # "no" \/ client # 0
  <2>1. at' = [places EXCEPT ![k] = "connected"] /\ UNCHANGED <<proc, making>>
    BY <1>1 DEF EnsureClient
  <2>2. at' \in [Tasks -> Places]
    BY <2>1 DEF Places
  <2>3. \A l \in Tasks : at'[l] = "creating" <=> at[l] = "creating"
    BY <2>1
  <2> QED BY <2>1, <2>2, <2>3 DEF CreationsInOrder, NoStrayProcess, TypeOK
<1>2. CASE ~ (stop # "no" \/ client # 0)
  <2>1. /\ at' = [places EXCEPT ![k] = "creating"]
        /\ making' = [making EXCEPT ![k] = Newborn]
        /\ proc' = [proc EXCEPT ![Newborn] = "initializing"]
        /\ Newborn \in Clients /\ proc[Newborn] = "none" /\ Newborn # 0
        /\ client = 0 /\ client' = 0
    BY <1>2, NewbornIsUnborn DEF EnsureClient
  <2>2. /\ at' \in [Tasks -> Places]
        /\ proc' \in [Clients -> {"none", "initializing", "open", "killed", "exited"}]
        /\ making' \in [Tasks -> Clients \cup {0}]
    BY <2>1 DEF TypeOK, Places
  <2>3. \A l \in Tasks : making[l] # Newborn
    BY <2>1 DEF CreationsInOrder
  <2>4. CreationsInOrder'
    <3>1. \A l \in Tasks : at'[l] = "creating" <=> making'[l] # 0
      BY <2>1 DEF CreationsInOrder, TypeOK
    <3>2. \A l \in Tasks : making'[l] # 0 => proc'[making'[l]] = "initializing"
      BY <2>1, <2>3 DEF CreationsInOrder, TypeOK
    <3>3. \A l, j \in Tasks : making'[l] # 0 /\ making'[l] = making'[j] => l = j
      BY <2>1, <2>3 DEF CreationsInOrder, TypeOK
    <3> QED BY <3>1, <3>2, <3>3, <2>1 DEF CreationsInOrder
  <2>5. NoStrayProcess'
    <3> SUFFICES ASSUME NEW c \in Clients, proc'[c] \in {"initializing", "open"}
                 PROVE  \/ c = client'
                        \/ \E l \in Tasks : making'[l] = c
                        \/ c \in replaced' \cup late'
      BY DEF NoStrayProcess
    <3>1. CASE c = Newborn
      BY <3>1, <2>1 DEF TypeOK
    <3>2. CASE c # Newborn
      <4>1. proc[c] \in {"initializing", "open"}
        BY <3>2, <2>1 DEF TypeOK
      <4>2. CASE \E l \in Tasks : making[l] = c
        <5>1. PICK l \in Tasks : making[l] = c
          BY <4>2
        <5>2. making[k] = 0
          BY DEF CreationsInOrder
        <5>3. l # k
          BY <5>1, <5>2, BoundsAssumption DEF Clients
        <5> QED BY <5>1, <5>3, <2>1 DEF TypeOK
      <4> QED BY <4>1, <4>2, <2>1 DEF NoStrayProcess
    <3> QED BY <3>1, <3>2
  <2> QED BY <2>2, <2>4, <2>5
<1> QED BY <1>1, <1>2


\* Where the tasks are in `places' is possible, and the same of them create.
Settled(places) ==
  /\ places \in [Tasks -> Places]
  /\ \A l \in Tasks : places[l] = "creating" <=> at[l] = "creating"

\* A task that creates nothing may move anywhere but to a creation.
LEMMA MoveIsSettled ==
  ASSUME TypeOK, NEW k \in Tasks, at[k] # "creating",
         NEW p \in Places, p # "creating"
  PROVE  Settled([at EXCEPT ![k] = p])
BY DEF TypeOK, Settled

LEMMA StayingIsSettled == TypeOK => Settled(at)
BY DEF TypeOK, Settled

\* What a step keeps true that only moves tasks.
LEMMA MovesKeep ==
  ASSUME TypeOK, CreationsInOrder, NoStrayProcess, Settled(at'),
         UNCHANGED <<client, proc, making, replaced, late>>
  PROVE  /\ at' \in [Tasks -> Places]
         /\ proc' \in [Clients -> {"none", "initializing", "open", "killed", "exited"}]
         /\ making' \in [Tasks -> Clients \cup {0}]
         /\ CreationsInOrder' /\ NoStrayProcess'
BY DEF TypeOK, CreationsInOrder, NoStrayProcess, Settled

\* What closing the monitor's client keeps true.
LEMMA CloseKeeps ==
  ASSUME TypeOK, CreationsInOrder, NoStrayProcess, Settled(at'),
         proc' = Closed(client), client' = 0,
         UNCHANGED <<making, replaced, late>>
  PROVE  /\ at' \in [Tasks -> Places]
         /\ proc' \in [Clients -> {"none", "initializing", "open", "killed", "exited"}]
         /\ making' \in [Tasks -> Clients \cup {0}]
         /\ CreationsInOrder' /\ NoStrayProcess'
<1>1. at' \in [Tasks -> Places] /\ making' \in [Tasks -> Clients \cup {0}]
  BY DEF TypeOK, Settled
<1>2. proc' \in [Clients -> {"none", "initializing", "open", "killed", "exited"}]
  BY DEF TypeOK, Closed
<1>3. \A k \in Tasks : making[k] # 0 => making[k] # client
  BY DEF CreationsInOrder
<1>4. CreationsInOrder'
  <2>1. \A k \in Tasks : making'[k] # 0 => proc'[making'[k]] = "initializing"
    BY <1>3 DEF CreationsInOrder, Closed, TypeOK
  <2> QED BY <2>1 DEF CreationsInOrder, Settled
<1>5. NoStrayProcess'
  BY DEF NoStrayProcess, Closed, TypeOK
<1> QED BY <1>1, <1>2, <1>4, <1>5

\* What the end of a round keeps true, given that the pump was in one.
LEMMA RoundEndIsSettled ==
  ASSUME TypeOK, RoundEnds, at["pump"] # "creating"
  PROVE  Settled(at') /\ behind' \in BOOLEAN
<1>1. behind' \in BOOLEAN
  BY DEF TypeOK, RoundEnds
<1>2. "pump" \in Tasks
  BY DEF Tasks
<1>3. \E p \in {"again", "drained"} : at' = [at EXCEPT !["pump"] = p]
  BY DEF RoundEnds
<1>4. \A p \in {"again", "drained"} : p \in Places /\ p # "creating"
  BY DEF Places
<1> QED BY <1>1, <1>2, <1>3, <1>4, MoveIsSettled

\* What a round that begins keeps true, and a call of discoverThreads().
LEMMA RoundKeeps ==
  ASSUME TypeOK, CreationsInOrder, NoStrayProcess,
         NEW places, Settled(places), at["pump"] # "creating", Round(places),
         UNCHANGED <<client, replaced, late>>
  PROVE  /\ at' \in [Tasks -> Places]
         /\ proc' \in [Clients -> {"none", "initializing", "open", "killed", "exited"}]
         /\ making' \in [Tasks -> Clients \cup {0}]
         /\ CreationsInOrder' /\ NoStrayProcess' /\ behind' \in BOOLEAN
<1>1. "pump" \in Tasks /\ "drained" \in Places
  BY DEF Tasks, Places
<1>2. behind' \in BOOLEAN
  BY DEF Round
<1>3. CASE stop # "no"
  <2>1. at' = [places EXCEPT !["pump"] = "drained"] /\ UNCHANGED <<proc, making>>
    BY <1>3 DEF Round
  <2>2. Settled(at')
    BY <1>1, <2>1 DEF Settled
  <2> QED BY <1>2, <2>1, <2>2, MovesKeep
<1>4. CASE stop = "no"
  <2>1. EnsureClient("pump", places)
    BY <1>4 DEF Round
  <2> QED BY <1>1, <1>2, <2>1, EnsureClientKeeps DEF Settled
<1> QED BY <1>3, <1>4 DEF Round

LEMMA DiscoverKeeps ==
  ASSUME TypeOK, CreationsInOrder, NoStrayProcess,
         NEW places, Settled(places), Discover(places),
         UNCHANGED <<client, replaced, late>>
  PROVE  /\ at' \in [Tasks -> Places]
         /\ proc' \in [Clients -> {"none", "initializing", "open", "killed", "exited"}]
         /\ making' \in [Tasks -> Clients \cup {0}]
         /\ CreationsInOrder' /\ NoStrayProcess' /\ behind' \in BOOLEAN
<1>1. CASE stop = "no" /\ at["pump"] = "idle"
  BY <1>1, RoundKeeps DEF Discover
<1>2. CASE ~ (stop = "no" /\ at["pump"] = "idle")
  <2>1. /\ at' = places /\ behind' = (behind \/ stop = "no")
        /\ UNCHANGED <<proc, making>>
    BY <1>2 DEF Discover
  <2>2. behind' \in BOOLEAN
    BY <2>1 DEF TypeOK
  <2> QED BY <2>1, <2>2, MovesKeep
<1> QED BY <1>1, <1>2


-----------------------------------------------------------------------------
(* Every step keeps the creations in order and leaves no process behind.   *)

ConnectionTyped ==
  /\ client \in Clients \cup {0} /\ attached \in Clients \cup {0}
  /\ proc \in [Clients -> {"none", "initializing", "open", "killed", "exited"}]
  /\ listening \subseteq Clients
  /\ replaced \subseteq Clients /\ late \subseteq Clients
  /\ at \in [Tasks -> Places] /\ making \in [Tasks -> Clients \cup {0}]

LEMMA CreateSucceedsKeeps ==
  ASSUME TypeOK, CreationsInOrder, NoStrayProcess, NEW k \in Tasks, CreateSucceeds(k)
  PROVE  ConnectionTyped' /\ CreationsInOrder' /\ NoStrayProcess'
<1>1. /\ making[k] \in Clients /\ making[k] # 0
      /\ proc[making[k]] = "initializing" /\ making[k] # client
      /\ 0 \notin Clients /\ "connected" \in Places
  BY BoundsAssumption DEF CreateSucceeds, TypeOK, CreationsInOrder, Clients, Places
<1>2. /\ at' = [at EXCEPT ![k] = "connected"]
      /\ making' = [making EXCEPT ![k] = 0]
      /\ proc' = [proc EXCEPT ![making[k]] = "open"]
      /\ client' = making[k] /\ attached' = making[k]
      /\ listening' = (listening \ {attached}) \cup {making[k]}
      /\ replaced' = replaced \cup ({client} \ {0})
      /\ late' \in {late, late \cup {making[k]}}
  BY DEF CreateSucceeds
<1>3. ConnectionTyped'
  <2>1. client' \in Clients /\ attached' \in Clients /\ listening' \subseteq Clients
        /\ replaced' \subseteq Clients /\ late' \subseteq Clients
    BY <1>1, <1>2 DEF TypeOK
  <2>2. /\ proc' \in [Clients -> {"none", "initializing", "open", "killed", "exited"}]
        /\ at' \in [Tasks -> Places] /\ making' \in [Tasks -> Clients \cup {0}]
    BY <1>1, <1>2 DEF TypeOK
  <2> QED BY <2>1, <2>2 DEF ConnectionTyped
<1>4. \A l \in Tasks : l # k => making'[l] = making[l] /\ at'[l] = at[l] /\ making[l] # making[k]
  BY <1>1, <1>2 DEF TypeOK, CreationsInOrder
<1>5. CreationsInOrder'
  <2>1. at'[k] = "connected" /\ making'[k] = 0 /\ proc'[client'] = "open"
    BY <1>1, <1>2 DEF TypeOK
  <2>2. \A l \in Tasks : at'[l] = "creating" <=> making'[l] # 0
    BY <1>4, <2>1 DEF CreationsInOrder
  <2>3. \A l \in Tasks : making'[l] # 0 => proc'[making'[l]] = "initializing"
    BY <1>2, <1>4, <2>1 DEF CreationsInOrder, TypeOK
  <2>4. \A l, j \in Tasks : making'[l] # 0 /\ making'[l] = making'[j] => l = j
    BY <1>4, <2>1 DEF CreationsInOrder
  <2> QED BY <2>1, <2>2, <2>3, <2>4 DEF CreationsInOrder
<1>6. NoStrayProcess'
  <2> SUFFICES ASSUME NEW c \in Clients, proc'[c] \in {"initializing", "open"},
                      c # making[k]
               PROVE  (\E l \in Tasks : making'[l] = c) \/ c \in replaced' \cup late'
    BY <1>2 DEF NoStrayProcess
  <2>1. proc[c] \in {"initializing", "open"}
    BY <1>2 DEF TypeOK
  <2>2. CASE c = client
    BY <2>2, <1>1, <1>2
  <2>3. CASE \E l \in Tasks : making[l] = c
    BY <2>3, <1>4
  <2>4. CASE c \in replaced \cup late
    BY <2>4, <1>2
  <2> QED BY <2>1, <2>2, <2>3, <2>4 DEF NoStrayProcess
<1> QED BY <1>3, <1>5, <1>6

LEMMA CreateFailsKeeps ==
  ASSUME TypeOK, CreationsInOrder, NoStrayProcess, NEW k \in Tasks, CreateFails(k)
  PROVE  ConnectionTyped' /\ CreationsInOrder' /\ NoStrayProcess'
<1>1. /\ making[k] \in Clients /\ making[k] # 0
      /\ proc[making[k]] = "initializing" /\ making[k] # client
      /\ "connected" \in Places
  BY BoundsAssumption DEF CreateFails, TypeOK, CreationsInOrder, Clients, Places
<1>2. /\ at' = [at EXCEPT ![k] = "connected"]
      /\ making' = [making EXCEPT ![k] = 0]
      /\ proc' = [proc EXCEPT ![making[k]] = "killed"]
      /\ UNCHANGED <<client, attached, listening, replaced, late>>
  BY DEF CreateFails
<1>3. ConnectionTyped'
  BY <1>1, <1>2 DEF TypeOK, ConnectionTyped
<1>4. \A l \in Tasks : l # k => making'[l] = making[l] /\ at'[l] = at[l] /\ making[l] # making[k]
  BY <1>1, <1>2 DEF TypeOK, CreationsInOrder
<1>5. CreationsInOrder'
  <2>1. at'[k] = "connected" /\ making'[k] = 0
    BY <1>1, <1>2 DEF TypeOK
  <2>2. \A l \in Tasks : at'[l] = "creating" <=> making'[l] # 0
    BY <1>4, <2>1 DEF CreationsInOrder
  <2>3. \A l \in Tasks : making'[l] # 0 => proc'[making'[l]] = "initializing"
    BY <1>2, <1>4, <2>1 DEF CreationsInOrder, TypeOK
  <2>4. \A l, j \in Tasks : making'[l] # 0 /\ making'[l] = making'[j] => l = j
    BY <1>4, <2>1 DEF CreationsInOrder
  <2>5. client' # 0 => proc'[client'] \in {"open", "exited"}
    BY <1>1, <1>2 DEF CreationsInOrder, TypeOK
  <2> QED BY <2>2, <2>3, <2>4, <2>5 DEF CreationsInOrder
<1>6. NoStrayProcess'
  <2> SUFFICES ASSUME NEW c \in Clients, proc'[c] \in {"initializing", "open"}
               PROVE  \/ c = client
                      \/ \E l \in Tasks : making'[l] = c
                      \/ c \in replaced \cup late
    BY <1>2 DEF NoStrayProcess
  <2>1. c # making[k] /\ proc[c] \in {"initializing", "open"}
    BY <1>1, <1>2 DEF TypeOK
  <2>2. CASE \E l \in Tasks : making[l] = c
    BY <2>1, <2>2, <1>4
  <2> QED BY <2>1, <2>2 DEF NoStrayProcess
<1> QED BY <1>3, <1>5, <1>6

LEMMA ProcessExitsKeeps ==
  ASSUME TypeOK, CreationsInOrder, NoStrayProcess, NEW c \in Clients, ProcessExits(c)
  PROVE  ConnectionTyped' /\ CreationsInOrder' /\ NoStrayProcess'
<1>1. /\ proc[c] = "open" /\ proc' = [proc EXCEPT ![c] = "exited"]
      /\ UNCHANGED <<client, attached, listening, making, replaced, late, at>>
  BY DEF ProcessExits
<1>2. ConnectionTyped'
  BY <1>1 DEF TypeOK, ConnectionTyped
<1>3. \A k \in Tasks : making[k] # c
  BY <1>1, BoundsAssumption DEF CreationsInOrder, Clients
<1>4. CreationsInOrder'
  BY <1>1, <1>3 DEF CreationsInOrder, TypeOK
<1>5. NoStrayProcess'
  BY <1>1 DEF NoStrayProcess, TypeOK
<1> QED BY <1>2, <1>4, <1>5

\* The rest of the steps: none changes whom the monitor hears, but the end
\* of the connection in stop().
LEMMA ConnectionStep ==
  ASSUME TypeOK, CreationsInOrder, NoStrayProcess, [Next]_vars
  PROVE  ConnectionTyped' /\ CreationsInOrder' /\ NoStrayProcess'
<1> DEFINE Rest == UNCHANGED <<attached, listening, replaced, late>>
           Alike == UNCHANGED <<client, proc, making>>
<1>1. "pump" \in Tasks /\ "start" \in Tasks /\ Answers \subseteq Tasks
  BY DEF Tasks
<1>2. \A p \in {"idle", "connected", "again", "listing", "loaded", "rereading",
                "drained", "discovering", "ready", "done"} :
         p \in Places /\ p # "creating"
  BY DEF Places
<1> DEFINE Kept ==
      /\ at' \in [Tasks -> Places]
      /\ proc' \in [Clients -> {"none", "initializing", "open", "killed", "exited"}]
      /\ making' \in [Tasks -> Clients \cup {0}]
      /\ CreationsInOrder' /\ NoStrayProcess'
      /\ client' \in {client, 0}
<1>3. CASE \E k \in Tasks : CreateSucceeds(k)
  BY <1>3, CreateSucceedsKeeps
<1>4. CASE \E k \in Tasks : CreateFails(k)
  BY <1>4, CreateFailsKeeps
<1>5. CASE \E c \in Clients : ProcessExits(c)
  BY <1>5, ProcessExitsKeeps
<1>6. ASSUME Rest, Kept PROVE ConnectionTyped' /\ CreationsInOrder' /\ NoStrayProcess'
  BY <1>6 DEF TypeOK, ConnectionTyped
<1>7. ASSUME Rest, Alike, Settled(at')
      PROVE  ConnectionTyped' /\ CreationsInOrder' /\ NoStrayProcess'
  <2>1. Kept
    BY <1>7, MovesKeep
  <2> QED BY <1>6, <1>7, <2>1
<1>8. ASSUME Rest, Alike, at' = at
      PROVE  ConnectionTyped' /\ CreationsInOrder' /\ NoStrayProcess'
  BY <1>7, <1>8, StayingIsSettled
<1>9. ASSUME Rest, proc' = Closed(client), client' = 0, UNCHANGED making, Settled(at')
      PROVE  ConnectionTyped' /\ CreationsInOrder' /\ NoStrayProcess'
  <2>1. Kept
    BY <1>9, CloseKeeps
  <2> QED BY <1>6, <1>9, <2>1
<1>10. ASSUME NEW k \in Tasks, NEW p \in Places, p # "creating", at[k] # "creating"
       PROVE  Settled([at EXCEPT ![k] = p])
  BY <1>10, MoveIsSettled
<1> HIDE DEF Kept
<1>11. CASE PumpAgain
  <2>1. /\ at["pump"] # "creating" /\ Round(at) /\ Rest /\ client' = client
    BY <1>11 DEF PumpAgain
  <2>2. Kept
    BY <2>1, RoundKeeps, StayingIsSettled DEF Kept
  <2> QED BY <1>6, <2>1, <2>2
<1>12. CASE PumpConnected
  <2>1. /\ at["pump"] # "creating" /\ Rest /\ Alike
        /\ RoundEnds \/ at' = [at EXCEPT !["pump"] = "listing"]
    BY <1>12 DEF PumpConnected, clientVars
  <2>2. Settled(at')
    BY <2>1, <1>1, <1>2, <1>10, RoundEndIsSettled
  <2> QED BY <1>7, <2>1, <2>2
<1>13. CASE DiscoveryFails
  <2>1. /\ at["pump"] # "creating" /\ RoundEnds /\ Rest /\ making' = making
        /\ Alike \/ (proc' = Closed(client) /\ client' = 0)
    BY <1>13 DEF DiscoveryFails, Reset
  <2>2. Settled(at')
    BY <2>1, RoundEndIsSettled
  <2> QED BY <1>7, <1>9, <2>1, <2>2
<1>14. CASE ThreadsListed
  <2>1. /\ at["pump"] # "creating" /\ Rest /\ Alike
        /\ RoundEnds \/ at' = [at EXCEPT !["pump"] = "loaded"]
    BY <1>14 DEF ThreadsListed, clientVars
  <2>2. Settled(at')
    BY <2>1, <1>1, <1>2, <1>10, RoundEndIsSettled
  <2> QED BY <1>7, <2>1, <2>2
<1>15. CASE RereadsStart
  <2>1. /\ at["pump"] # "creating" /\ Rest /\ Alike
        /\ at' = [at EXCEPT !["pump"] = "rereading"]
    BY <1>15 DEF RereadsStart, clientVars
  <2> QED BY <1>1, <1>2, <1>7, <1>10, <2>1
<1>16. CASE RereadsSettled
  <2>1. at["pump"] # "creating" /\ Rest /\ Alike /\ RoundEnds
    BY <1>16 DEF RereadsSettled, clientVars
  <2> QED BY <1>7, <2>1, RoundEndIsSettled
<1>17. CASE PumpCleared
  <2>1. /\ at["pump"] # "creating" /\ Rest /\ Alike
        /\ at' = [at EXCEPT !["pump"] = "idle"]
    BY <1>17 DEF PumpCleared, clientVars
  <2> QED BY <1>1, <1>2, <1>7, <1>10, <2>1
<1>18. CASE RereadTimesOut
  <2>1. /\ Rest /\ making' = making /\ at' = at
        /\ proc' = Closed(client) /\ client' = 0
    BY <1>18 DEF RereadTimesOut, Reset
  <2> QED BY <1>9, <2>1, StayingIsSettled
<1>19. CASE StartReread \/ RereadEnds \/ Subscriptions \/ StopEnds
            \/ (\E c \in Clients, r \in Requests : Ask(c, r)) \/ UNCHANGED vars
  <2>1. Rest /\ Alike /\ at' = at
    BY <1>19 DEF StartReread, RereadEnds, Subscriptions, SyncListed, SyncEnds, ThreadJoins,
       ThreadRefused, SyncCleared, StopEnds, Ask, clientVars, vars
  <2> QED BY <1>8, <2>1
<1>20. ASSUME NEW a \in Answers, CallAnswer(a)
       PROVE  ConnectionTyped' /\ CreationsInOrder' /\ NoStrayProcess'
  <2>1. at[a] # "creating" /\ EnsureClient(a, at) /\ Rest /\ client' = client
    BY <1>20 DEF CallAnswer
  <2>2. Kept
    BY <2>1, <1>1, EnsureClientKeeps DEF Kept, TypeOK
  <2> QED BY <1>6, <2>1, <2>2
<1>21. ASSUME NEW a \in Answers, AnswerResumes(a)
       PROVE  ConnectionTyped' /\ CreationsInOrder' /\ NoStrayProcess'
  <2>1. at[a] # "creating" /\ Rest /\ Alike /\ at' = [at EXCEPT ![a] = "done"]
    BY <1>21 DEF AnswerResumes, clientVars
  <2> QED BY <1>1, <1>2, <1>7, <1>10, <2>1
<1>22. CASE CallStart
  <2>1. at["start"] # "creating" /\ EnsureClient("start", at) /\ Rest /\ client' = client
    BY <1>22 DEF CallStart
  <2>2. Kept
    BY <2>1, <1>1, EnsureClientKeeps DEF Kept, TypeOK
  <2> QED BY <1>6, <2>1, <2>2
<1>23. CASE StartDiscovers
  <2>1. /\ at["start"] # "creating" /\ Discover([at EXCEPT !["start"] = "discovering"])
        /\ Rest /\ client' = client
    BY <1>23 DEF StartDiscovers
  <2>2. Settled([at EXCEPT !["start"] = "discovering"])
    BY <2>1, <1>1, <1>2, <1>10
  <2>3. Kept
    BY <2>1, <2>2, DiscoverKeeps DEF Kept
  <2> QED BY <1>6, <2>1, <2>3
<1>24. CASE StartEnds
  <2>1. /\ at["start"] # "creating" /\ Rest /\ Alike
        /\ at' = [at EXCEPT !["start"] = "ready"]
    BY <1>24 DEF StartEnds, clientVars
  <2> QED BY <1>1, <1>2, <1>7, <1>10, <2>1
<1>25. CASE Tick
  <2>1. Discover(at) /\ Rest /\ client' = client
    BY <1>25 DEF Tick
  <2>2. Kept
    BY <2>1, StayingIsSettled, DiscoverKeeps DEF Kept
  <2> QED BY <1>6, <2>1, <2>2
<1>26. CASE StopBegins
  <2>1. /\ making' = making /\ at' = at /\ proc' = Closed(client) /\ client' = 0
        /\ UNCHANGED <<replaced, late>>
        /\ listening' \subseteq listening /\ attached' = 0
    BY <1>26 DEF StopBegins
  <2>2. Kept
    BY <2>1, CloseKeeps, StayingIsSettled DEF Kept
  <2>3. ConnectionTyped'
    BY <2>1, <2>2 DEF Kept, ConnectionTyped, TypeOK
  <2> QED BY <2>2, <2>3 DEF Kept
<1> QED
  BY <1>3, <1>4, <1>5, <1>11, <1>12, <1>13, <1>14, <1>15, <1>16, <1>17, <1>18, <1>19,
     <1>20, <1>21, <1>22, <1>23, <1>24, <1>25, <1>26
     DEF Next, Creations, Pump, Reads, Calls, Life, Codex


-----------------------------------------------------------------------------
(* The rest of the type invariant.                                         *)

JobsTyped ==
  behind \in BOOLEAN /\ reads \in BOOLEAN /\ timers \in BOOLEAN
  /\ stop \in {"no", "stopping", "stopped"}

RequestsTyped ==
  /\ asked \in [Clients -> SUBSET Requests]
  /\ pending \in [Requests -> Clients \cup {0}]
  /\ wants \in [Answers -> Requests] /\ sent \in [Requests -> Nat]

SubscriptionsTyped ==
  /\ sync.at \in {"none", "listing", "resuming", "drained"}
  /\ sync.on \in Clients \cup {0} /\ sync.todo \subseteq Threads
  /\ syncQueued \in BOOLEAN /\ syncs \in 0..MaxSyncs
  /\ subscribed \subseteq Threads /\ joined \in [Clients -> SUBSET Threads]
  /\ muddled \in BOOLEAN

LEMMA JobsStep ==
  ASSUME TypeOK, CreationsInOrder, NoStrayProcess, [Next]_vars
  PROVE  JobsTyped'
<1>1. stop' \in {"no", "stopping", "stopped"} /\ timers' \in BOOLEAN
  BY DEF TypeOK, Next, Creations, Pump, Reads, Subscriptions, Calls, Life, Codex,
     CreateSucceeds, CreateFails, ProcessExits, PumpAgain, PumpConnected, DiscoveryFails,
     ThreadsListed, RereadsStart, RereadsSettled, PumpCleared, StartReread, RereadEnds,
     RereadTimesOut, SyncListed, ThreadJoins, ThreadRefused, SyncEnds, SyncCleared, Ask,
     CallAnswer, AnswerResumes, CallStart, StartDiscovers, StartEnds, Tick, StopBegins,
     StopEnds, vars
<1>2. reads' \in BOOLEAN
  <2>1. \/ reads' = reads \/ reads' = TRUE \/ reads' = FALSE
        \/ reads' = (reads \/ client # 0)
    BY DEF Next, Creations, Pump, Reads, Subscriptions, Calls, Life, Codex,
       CreateSucceeds, CreateFails, ProcessExits, PumpAgain, PumpConnected, DiscoveryFails,
       ThreadsListed, RereadsStart, RereadsSettled, PumpCleared, StartReread, RereadEnds,
       RereadTimesOut, SyncListed, ThreadJoins, ThreadRefused, SyncEnds, SyncCleared, Ask,
       CallAnswer, AnswerResumes, CallStart, StartDiscovers, StartEnds, Tick, StopBegins,
       StopEnds, vars
  <2> QED BY <2>1 DEF TypeOK
<1>3. behind' \in BOOLEAN
  <2>1. \/ behind' = behind \/ behind' = FALSE
        \/ behind' = (behind \/ stop = "no") \/ behind' = (behind /\ stop = "no")
    BY DEF Next, Creations, Pump, Reads, Subscriptions, Calls, Life, Codex,
       CreateSucceeds, CreateFails, ProcessExits, PumpAgain, PumpConnected, DiscoveryFails,
       ThreadsListed, RereadsStart, RereadsSettled, PumpCleared, StartReread, RereadEnds,
       RereadTimesOut, SyncListed, ThreadJoins, ThreadRefused, SyncEnds, SyncCleared, Ask,
       CallAnswer, AnswerResumes, CallStart, StartDiscovers, StartEnds, Tick, StopBegins,
       StopEnds, vars, Round, Discover, RoundEnds
  <2> QED BY <2>1 DEF TypeOK
<1> QED BY <1>1, <1>2, <1>3 DEF JobsTyped

\* Only a process that asks and a call that answers change the requests.
LEMMA RequestsChange ==
  ASSUME [Next]_vars
  PROVE  \/ \E c \in Clients, r \in Requests : Ask(c, r)
         \/ \E a \in Answers : AnswerResumes(a)
         \/ UNCHANGED requestVars
BY DEF Next, Creations, Pump, Reads, Subscriptions, Calls, Life, Codex,
   CreateSucceeds, CreateFails, ProcessExits, PumpAgain, PumpConnected, DiscoveryFails,
   ThreadsListed, RereadsStart, RereadsSettled, PumpCleared, StartReread, RereadEnds,
   RereadTimesOut, SyncListed, ThreadJoins, ThreadRefused, SyncEnds, SyncCleared,
   CallAnswer, CallStart, StartDiscovers, StartEnds, Tick, StopBegins,
   StopEnds, vars

LEMMA ClientsAreFinite ==
  /\ 0 \notin Clients /\ IsFiniteSet(Clients)
  /\ \A S \in SUBSET Clients : IsFiniteSet(S) /\ Cardinality(S) \in Nat
<1>1. IsFiniteSet(Clients) /\ 0 \notin Clients
  BY BoundsAssumption, FS_Interval DEF Clients
<1> QED BY <1>1, FS_Subset, FS_CardinalityType

\* Every use of an id is answered at most once.
LEMMA RequestsStep ==
  ASSUME TypeOK, AnswersAreOwed, [Next]_vars
  PROVE  RequestsTyped' /\ AnswersAreOwed'
<1>1. ASSUME NEW c \in Clients, NEW r \in Requests, Ask(c, r)
      PROVE  RequestsTyped' /\ AnswersAreOwed'
  <2>1. /\ r \notin asked[c] /\ asked' = [asked EXCEPT ![c] = @ \cup {r}]
        /\ pending' = [pending EXCEPT ![r] = c] /\ UNCHANGED <<wants, sent>>
    BY <1>1 DEF Ask
  <2>2. RequestsTyped'
    BY <2>1 DEF TypeOK, RequestsTyped
  <2>3. Askers(r)' = Askers(r) \cup {c} /\ c \notin Askers(r)
    BY <2>1 DEF TypeOK, Askers
  <2>4. Cardinality(Askers(r)') = Cardinality(Askers(r)) + 1
    BY <2>3, FS_AddElement, ClientsAreFinite DEF Askers
  <2>5. \A q \in Requests \ {r} : Askers(q)' = Askers(q) /\ pending'[q] = pending[q]
    BY <2>1 DEF TypeOK, Askers
  <2>6. Cardinality(Askers(r)) \in Nat /\ sent[r] \in Nat /\ sent' = sent
    BY <2>1, ClientsAreFinite DEF TypeOK, Askers
  <2>7. sent'[r] + (IF pending'[r] # 0 THEN 1 ELSE 0) <= Cardinality(Askers(r)')
    <3>1. sent[r] <= Cardinality(Askers(r))
      BY <2>6 DEF AnswersAreOwed
    <3> QED BY <3>1, <2>4, <2>6
  <2>8. \A q \in Requests \ {r} :
          sent'[q] + (IF pending'[q] # 0 THEN 1 ELSE 0) <= Cardinality(Askers(q)')
    BY <2>5, <2>6 DEF AnswersAreOwed
  <2>9. AnswersAreOwed'
    BY <2>7, <2>8 DEF AnswersAreOwed
  <2> QED BY <2>2, <2>9
<1>2. ASSUME NEW a \in Answers, AnswerResumes(a)
      PROVE  RequestsTyped' /\ AnswersAreOwed'
  <2> DEFINE r == wants[a]
  <2>1. r \in Requests /\ UNCHANGED <<asked, wants>> /\ \A q : Askers(q)' = Askers(q)
    BY <1>2 DEF TypeOK, AnswerResumes, Askers
  <2>2. CASE UNCHANGED <<sent, pending>>
    BY <2>1, <2>2 DEF TypeOK, RequestsTyped, AnswersAreOwed
  <2>3. CASE pending[r] # 0 /\ sent' = [sent EXCEPT ![r] = @ + 1]
                            /\ pending' = [pending EXCEPT ![r] = 0]
    <3>1. RequestsTyped'
      BY <2>1, <2>3 DEF TypeOK, RequestsTyped
    <3>2. sent'[r] = sent[r] + 1 /\ pending'[r] = 0 /\ sent[r] \in Nat
      BY <2>1, <2>3 DEF TypeOK
    <3>3. sent[r] + 1 <= Cardinality(Askers(r))
      BY <2>1, <2>3 DEF AnswersAreOwed
    <3>4. \A q \in Requests : q # r => sent'[q] = sent[q] /\ pending'[q] = pending[q]
      BY <2>3 DEF TypeOK
    <3>5. AnswersAreOwed'
      <4> SUFFICES ASSUME NEW q \in Requests
                   PROVE  sent'[q] + (IF pending'[q] # 0 THEN 1 ELSE 0)
                            <= Cardinality(Askers(q)')
        BY DEF AnswersAreOwed
      <4>1. CASE q = r
        BY <4>1, <3>2, <3>3, <2>1
      <4>2. CASE q # r
        BY <4>2, <3>4, <2>1 DEF AnswersAreOwed
      <4> QED BY <4>1, <4>2
    <3> QED BY <3>1, <3>5
  <2> QED BY <1>2, <2>2, <2>3 DEF AnswerResumes, Found
<1>3. CASE UNCHANGED requestVars
  BY <1>3 DEF TypeOK, RequestsTyped, AnswersAreOwed, Askers, requestVars
<1> QED BY <1>1, <1>2, <1>3, RequestsChange

-----------------------------------------------------------------------------
(* Whom the monitor hears, and what it has subscribed.                     *)

LEMMA HearingStep ==
  ASSUME TypeOK, OneConnectionHeard, [Next]_vars
  PROVE  OneConnectionHeard'
<1>1. ASSUME NEW k \in Tasks, CreateSucceeds(k) PROVE OneConnectionHeard'
  BY <1>1 DEF CreateSucceeds, OneConnectionHeard
<1>2. CASE StopBegins
  BY <1>2 DEF StopBegins, OneConnectionHeard
<1>3. CASE StopEnds
  BY <1>3 DEF StopEnds, OneConnectionHeard, clientVars
<1>4. CASE UNCHANGED <<attached, listening, late, stop>>
  BY <1>4 DEF OneConnectionHeard
<1>5. \/ \E k \in Tasks : CreateSucceeds(k)
      \/ StopBegins \/ StopEnds \/ UNCHANGED <<attached, listening, late, stop>>
  BY DEF Next, Creations, Pump, Reads, Subscriptions, Calls, Life, Codex, CreateFails,
     ProcessExits, PumpAgain, PumpConnected, DiscoveryFails, ThreadsListed, RereadsStart,
     RereadsSettled, PumpCleared, StartReread, RereadEnds, RereadTimesOut, SyncListed,
     ThreadJoins, ThreadRefused, SyncEnds, SyncCleared, Ask, CallAnswer, AnswerResumes,
     CallStart, StartDiscovers, StartEnds, Tick, vars, clientVars
<1> QED BY <1>1, <1>2, <1>3, <1>4, <1>5

\* The steps that change what is subscribed, or on which connection.
LEMMA SubscriptionsChange ==
  ASSUME [Next]_vars
  PROVE  \/ \E k \in Tasks : CreateSucceeds(k)
         \/ DiscoveryFails \/ RereadTimesOut \/ StopBegins \/ StopEnds
         \/ \E t \in Threads : ThreadJoins(t)
         \/ \E T \in SUBSET Threads : SyncEnds(T)
         \/ UNCHANGED <<client, subscribed, joined, muddled, stop>>
BY DEF Next, Creations, Pump, Reads, Subscriptions, Calls, Life, Codex, CreateFails,
   ProcessExits, PumpAgain, PumpConnected, ThreadsListed, RereadsStart, RereadsSettled,
   PumpCleared, StartReread, RereadEnds, SyncListed, ThreadRefused, SyncCleared, Ask,
   CallAnswer, AnswerResumes, CallStart, StartDiscovers, StartEnds, Tick, vars,
   clientVars, syncVars

\* An empty record, and a connection that a subscription outlived, excuse all.
LEMMA LiveOrExcused ==
  ASSUME subscribed' = {} \/ muddled' = TRUE \/ stop' # "no"
  PROVE  SubscriptionsAreLive'
BY DEF SubscriptionsAreLive

LEMMA SubscriptionsStep ==
  ASSUME TypeOK, SubscriptionsAreLive, [Next]_vars
  PROVE  SubscriptionsAreLive'
<1>1. ASSUME NEW k \in Tasks, CreateSucceeds(k) PROVE SubscriptionsAreLive'
  <2>1. subscribed' = subscribed /\ muddled' = (muddled \/ subscribed # {})
    BY <1>1 DEF CreateSucceeds
  <2> QED BY <2>1, LiveOrExcused
<1>2. CASE DiscoveryFails
  BY <1>2, LiveOrExcused DEF DiscoveryFails, Reset
<1>3. CASE RereadTimesOut \/ StopBegins \/ StopEnds
  BY <1>3, LiveOrExcused DEF RereadTimesOut, Reset, StopBegins, StopEnds
<1>4. ASSUME NEW t \in Threads, ThreadJoins(t) PROVE SubscriptionsAreLive'
  <2>1. /\ client' = client /\ stop' = stop /\ sync.on \in Clients /\ sync.on # 0
        /\ subscribed' = subscribed \cup {t}
        /\ joined' = [joined EXCEPT ![sync.on] = @ \cup {t}]
        /\ muddled' = (muddled \/ sync.on # client)
    BY <1>4 DEF ThreadJoins, clientVars, TypeOK
  <2>2. CASE sync.on # client
    BY <2>1, <2>2, LiveOrExcused
  <2>3. CASE sync.on = client
    <3>1. \A u \in Threads : u \in joined[client] \/ u = t => u \in joined'[client]
      BY <2>1, <2>3 DEF TypeOK
    <3> QED BY <2>1, <2>3, <3>1 DEF SubscriptionsAreLive, TypeOK
  <2> QED BY <2>2, <2>3
<1>5. ASSUME NEW T \in SUBSET Threads, SyncEnds(T) PROVE SubscriptionsAreLive'
  <2>1. /\ client' = client /\ stop' = stop /\ muddled' = muddled
        /\ subscribed' = subscribed \ T
        /\ joined' = IF client = 0 THEN joined
                     ELSE [joined EXCEPT ![client] = @ \ T]
    BY <1>5 DEF SyncEnds, clientVars
  <2> QED BY <2>1 DEF SubscriptionsAreLive, TypeOK
<1>6. CASE UNCHANGED <<client, subscribed, joined, muddled, stop>>
  BY <1>6 DEF SubscriptionsAreLive
<1> QED BY <1>1, <1>2, <1>3, <1>4, <1>5, <1>6, SubscriptionsChange

LEMMA SyncStarts ==
  ASSUME TypeOK, StartSync
  PROVE  /\ sync'.at \in {"listing", "drained"}
         /\ sync'.on = 0 /\ sync'.todo = {} /\ syncs' \in 0..MaxSyncs
<1>1. \/ sync' = [NoSync EXCEPT !.at = "drained"]
      \/ sync' = [NoSync EXCEPT !.at = "listing"]
  BY DEF StartSync
<1>2. \A s \in {"listing", "drained"} :
        [NoSync EXCEPT !.at = s] = [at |-> s, on |-> 0, todo |-> {}]
  BY DEF NoSync
<1>3. syncs' \in 0..MaxSyncs
  BY BoundsAssumption DEF StartSync, TypeOK
<1> QED BY <1>1, <1>2, <1>3

LEMMA SubscriptionsTypedStep ==
  ASSUME TypeOK, [Next]_vars
  PROVE  SubscriptionsTyped'
<1>1. ASSUME NEW T \in SUBSET Threads, SyncListed(T) PROVE SubscriptionsTyped'
  BY <1>1 DEF SyncListed, TypeOK, SubscriptionsTyped
<1>2. ASSUME NEW T \in SUBSET Threads, SyncEnds(T) PROVE SubscriptionsTyped'
  BY <1>2 DEF SyncEnds, NoSync, TypeOK, SubscriptionsTyped
<1>3. ASSUME NEW t \in Threads, ThreadJoins(t) PROVE SubscriptionsTyped'
  <2>1. muddled' \in BOOLEAN
    BY <1>3 DEF ThreadJoins, TypeOK
  <2>2. sync' = [sync EXCEPT !.todo = @ \ {t}] /\ UNCHANGED <<syncQueued, syncs>>
    BY <1>3 DEF ThreadJoins
  <2>3. subscribed' \subseteq Threads /\ joined' \in [Clients -> SUBSET Threads]
    BY <1>3 DEF ThreadJoins, TypeOK
  <2>4. /\ sync'.at \in {"none", "listing", "resuming", "drained"}
        /\ sync'.on \in Clients \cup {0} /\ sync'.todo \subseteq Threads
    BY <1>3, <2>2 DEF ThreadJoins, TypeOK
  <2> QED BY <2>1, <2>2, <2>3, <2>4 DEF TypeOK, SubscriptionsTyped
<1>4. ASSUME NEW t \in Threads, ThreadRefused(t) PROVE SubscriptionsTyped'
  BY <1>4 DEF ThreadRefused, TypeOK, SubscriptionsTyped
<1>5. CASE SyncCleared
  <2>1. /\ sync'.at \in {"none", "listing", "drained"}
        /\ sync'.on = 0 /\ sync'.todo = {} /\ syncs' \in 0..MaxSyncs
    <3>1. CASE StartSync
      BY <3>1, SyncStarts
    <3>2. CASE sync' = NoSync /\ syncs' = syncs
      BY <3>2 DEF NoSync, TypeOK
    <3> QED BY <1>5, <3>1, <3>2 DEF SyncCleared
  <2>2. syncQueued' = FALSE /\ UNCHANGED <<subscribed, joined, muddled>>
    BY <1>5 DEF SyncCleared
  <2> QED BY <2>1, <2>2 DEF TypeOK, SubscriptionsTyped
<1>6. CASE RereadsSettled
  <2>1. /\ sync'.at \in {"none", "listing", "resuming", "drained"}
        /\ sync'.on \in Clients \cup {0} /\ sync'.todo \subseteq Threads
        /\ syncs' \in 0..MaxSyncs
    <3>1. CASE StartSync
      BY <3>1, SyncStarts
    <3>2. CASE UNCHANGED <<sync, syncs>>
      BY <3>2 DEF TypeOK
    <3> QED BY <1>6, <3>1, <3>2 DEF RereadsSettled, ScheduleSync
  <2>2. syncQueued' \in {TRUE, syncQueued} /\ UNCHANGED <<subscribed, joined, muddled>>
    BY <1>6 DEF RereadsSettled, ScheduleSync
  <2>3. syncQueued' \in BOOLEAN
    BY <2>2 DEF TypeOK
  <2> QED BY <2>1, <2>2, <2>3 DEF TypeOK, SubscriptionsTyped
<1>7. CASE DiscoveryFails \/ RereadTimesOut \/ StopEnds
  BY <1>7 DEF DiscoveryFails, RereadTimesOut, Reset, StopEnds, TypeOK, SubscriptionsTyped
<1>8. ASSUME NEW k \in Tasks, CreateSucceeds(k) PROVE SubscriptionsTyped'
  <2>1. muddled' \in BOOLEAN
    BY <1>8 DEF CreateSucceeds, TypeOK
  <2> QED BY <1>8, <2>1 DEF CreateSucceeds, TypeOK, SubscriptionsTyped
<1>9. CASE UNCHANGED syncVars
  BY <1>9 DEF syncVars, TypeOK, SubscriptionsTyped
<1>10. \/ \E T \in SUBSET Threads : SyncListed(T) \/ SyncEnds(T)
       \/ \E t \in Threads : ThreadJoins(t) \/ ThreadRefused(t)
       \/ SyncCleared \/ RereadsSettled \/ DiscoveryFails \/ RereadTimesOut \/ StopEnds
       \/ \E k \in Tasks : CreateSucceeds(k)
       \/ UNCHANGED syncVars
  BY DEF Next, Creations, Pump, Reads, Subscriptions, Calls, Life, Codex, CreateFails,
     ProcessExits, PumpAgain, PumpConnected, ThreadsListed, RereadsStart,
     PumpCleared, StartReread, RereadEnds, Ask, CallAnswer, AnswerResumes,
     CallStart, StartDiscovers, StartEnds, Tick, StopBegins, vars
<1> QED BY <1>1, <1>2, <1>3, <1>4, <1>5, <1>6, <1>7, <1>8, <1>9, <1>10

-----------------------------------------------------------------------------
(* The theorems.                                                           *)

LEMMA Start == Init => IInv
<1> SUFFICES ASSUME Init PROVE IInv
  OBVIOUS
<1>1. \A k \in Tasks : at[k] \in {"idle", "done"}
  BY DEF Init
<1>2. TypeOK
  <2>1. at \in [Tasks -> Places]
    BY DEF Init, Places
  <2>2. JobsTyped /\ RequestsTyped
    BY DEF Init, JobsTyped, RequestsTyped
  <2>3. SubscriptionsTyped
    BY BoundsAssumption DEF Init, SubscriptionsTyped, NoSync
  <2>4. ConnectionTyped
    BY <2>1 DEF Init, ConnectionTyped
  <2> QED BY <2>2, <2>3, <2>4
    DEF TypeOK, JobsTyped, RequestsTyped, SubscriptionsTyped, ConnectionTyped
<1>3. CreationsInOrder
  BY <1>1 DEF Init, CreationsInOrder
<1>4. OneConnection
  BY DEF Init, OneConnection, NoStrayProcess, OneConnectionHeard, SubscriptionsAreLive
<1>5. AnswersAreOwed
  <2>1. \A r \in Requests : Cardinality(Askers(r)) \in Nat
    BY ClientsAreFinite DEF Askers
  <2> QED BY <2>1 DEF Init, AnswersAreOwed
<1> QED BY <1>2, <1>3, <1>4, <1>5 DEF IInv

LEMMA Step == IInv /\ [Next]_vars => IInv'
<1> SUFFICES ASSUME IInv, [Next]_vars PROVE IInv'
  OBVIOUS
<1>1. TypeOK /\ CreationsInOrder /\ AnswersAreOwed
      /\ NoStrayProcess /\ OneConnectionHeard /\ SubscriptionsAreLive
  BY DEF IInv, OneConnection
<1>2. ConnectionTyped' /\ CreationsInOrder' /\ NoStrayProcess'
  BY <1>1, ConnectionStep
<1>3. RequestsTyped' /\ AnswersAreOwed'
  BY <1>1, RequestsStep
<1>4. JobsTyped' /\ SubscriptionsTyped'
  BY <1>1, JobsStep, SubscriptionsTypedStep
<1>5. OneConnectionHeard' /\ SubscriptionsAreLive'
  BY <1>1, HearingStep, SubscriptionsStep
<1>6. TypeOK'
  BY <1>2, <1>3, <1>4
     DEF TypeOK, JobsTyped, RequestsTyped, SubscriptionsTyped, ConnectionTyped
<1> QED BY <1>2, <1>3, <1>5, <1>6 DEF IInv, OneConnection

THEOREM Invariant == Spec => []IInv
BY Start, Step, PTL DEF Spec

\* Every variable of the connection keeps its shape.
THEOREM TypeCorrect == Spec => []TypeOK
<1>1. IInv => TypeOK
  BY DEF IInv
<1> QED BY <1>1, Invariant, PTL

\* ensureClient(), resetAppServerConnection() and performStop(): no process is
\* left behind but by the two races, one connection is heard, and a recorded
\* subscription is one the connection streams.
THEOREM OneConnectionAlways == Spec => []OneConnection
<1>1. IInv => OneConnection
  BY DEF IInv
<1> QED BY <1>1, Invariant, PTL

\* respondToApprovalRequest() and respondToInputRequest(): a request is not
\* answered twice, however many calls wait for a connection to answer it on.
THEOREM NeverAnsweredTwice == Spec => []AnsweredOnce
<1>1. IInv => AnsweredOnce
  <2> SUFFICES ASSUME IInv, NEW r \in Requests
               PROVE  sent[r] <= Cardinality({c \in Clients : r \in asked[c]})
    BY DEF AnsweredOnce
  <2>1. sent[r] \in Nat /\ Cardinality(Askers(r)) \in Nat
    BY ClientsAreFinite DEF IInv, TypeOK, Askers
  <2>2. sent[r] + (IF pending[r] # 0 THEN 1 ELSE 0) <= Cardinality(Askers(r))
    BY DEF IInv, AnswersAreOwed
  <2> QED BY <2>1, <2>2 DEF Askers
<1> QED BY <1>1, Invariant, PTL

\* The two together: calls that wait for a connection, answers and time-outs that
\* cross its end, and stop() leave one connection, and one answer to each request.
THEOREM ConnectionAlwaysKept == Spec => []ConnectionIsKept
<1>1. OneConnection /\ AnsweredOnce => ConnectionIsKept
  BY DEF ConnectionIsKept
<1> QED BY <1>1, OneConnectionAlways, NeverAnsweredTwice, PTL

-----------------------------------------------------------------------------
(* The activity of a project: numbers.                                     *)

\* A set of numbers that is not empty has a least one: the intervals 0..n are
\* finite, so one of them includes no other.
LEMMA LeastNumber ==
  ASSUME NEW S \in SUBSET Nat, S # {}
  PROVE  \E c \in S : \A d \in S : c <= d
<1> DEFINE Upto == {0..c : c \in S}
<1>1. Upto \subseteq FiniteSubsetsOf(Nat)
  <2> SUFFICES ASSUME NEW c \in S PROVE 0..c \in SUBSET Nat /\ IsFiniteSet(0..c)
    BY DEF FiniteSubsetsOf
  <2> QED
    BY FS_Interval
<1>2. Upto # {}
  OBVIOUS
<1> HIDE DEF Upto
<1>3. PICK m \in Upto : \A u \in Upto : ~ (<<u, m>> \in StrictSubsetOrdering(Nat))
  BY <1>1, <1>2, FS_StrictSubsetOrderingWellFounded, WFMin
<1>4. PICK c \in S : m = 0..c
  BY DEF Upto
<1>5. ASSUME NEW d \in S, ~ (c <= d) PROVE FALSE
  <2>1. 0..d \in Upto
    BY DEF Upto
  <2>2. 0..d \subseteq 0..c /\ c \in 0..c /\ c \notin 0..d
    BY <1>5
  <2>3. 0..d \in SUBSET Nat /\ 0..c \in SUBSET Nat
    OBVIOUS
  <2>4. <<0..d, 0..c>> \in StrictSubsetOrdering(Nat)
    BY <2>2, <2>3 DEF StrictSubsetOrdering
  <2> QED
    BY <1>3, <1>4, <2>1, <2>4
<1> QED
  BY <1>5

\* Of numbers that stay below a bound there is also a greatest.
LEMMA GreatestNumber ==
  ASSUME NEW S \in SUBSET Nat, S # {}, NEW bound \in Nat,
         \A c \in S : c <= bound
  PROVE  \E c \in S : \A d \in S : d <= c
<1> DEFINE Rest == {bound - c : c \in S}
<1>1. Rest \in SUBSET Nat /\ Rest # {}
  <2>1. \A c \in S : bound - c \in Nat
    OBVIOUS
  <2> QED
    BY <2>1
<1>2. PICK least \in Rest : \A r \in Rest : least <= r
  BY <1>1, LeastNumber
<1>3. PICK c \in S : least = bound - c
  OBVIOUS
<1>4. ASSUME NEW d \in S PROVE d <= c
  <2>1. bound - c <= bound - d
    BY <1>2, <1>3
  <2> QED
    BY <2>1
<1> QED
  BY <1>4


\* The greatest and the least of two.
LEMMA OfTwo ==
  ASSUME NEW a \in Int, NEW b \in Int
  PROVE  /\ Max({a, b}) = IF a <= b THEN b ELSE a
         /\ Min({a, b}) = IF a <= b THEN a ELSE b
<1>1. Max({a, b}) = IF a <= b THEN b ELSE a
  <2> DEFINE Greatest(x) == x \in {a, b} /\ \A y \in {a, b} : x >= y
  <2>1. \E x : Greatest(x)
    <3>1. CASE a <= b
      <4>1. Greatest(b)
        BY <3>1
      <4> QED
        BY <4>1
    <3>2. CASE ~ (a <= b)
      <4>1. Greatest(a)
        BY <3>2
      <4> QED
        BY <4>1
    <3> QED
      BY <3>1, <3>2
  <2>2. Greatest(CHOOSE x : Greatest(x))
    <3> HIDE DEF Greatest
    <3> QED
      BY <2>1
  <2>3. Max({a, b}) = CHOOSE x : Greatest(x)
    BY DEF Max
  <2> QED
    BY <2>2, <2>3
<1>2. Min({a, b}) = IF a <= b THEN a ELSE b
  <2> DEFINE Least(x) == x \in {a, b} /\ \A y \in {a, b} : x <= y
  <2>1. \E x : Least(x)
    <3>1. CASE a <= b
      <4>1. Least(a)
        BY <3>1
      <4> QED
        BY <4>1
    <3>2. CASE ~ (a <= b)
      <4>1. Least(b)
        BY <3>2
      <4> QED
        BY <4>1
    <3> QED
      BY <3>1, <3>2
  <2>2. Least(CHOOSE x : Least(x))
    <3> HIDE DEF Least
    <3> QED
      BY <2>1
  <2>3. Min({a, b}) = CHOOSE x : Least(x)
    BY DEF Min
  <2> QED
    BY <2>2, <2>3
<1> QED
  BY <1>1, <1>2

-----------------------------------------------------------------------------
(* The activity of a project: the events of its feed.                      *)

Phases == {"started", "updated", "completed", "failed"}
Statuses == {"none", "running", "ended", "gone"}

Path == [file : DOMAIN Tree, absolute : BOOLEAN]

CommandEvents ==
  [id : {"command"} \X Commands \X Phases, kind : {"command"}, by : Workers, at : Nat,
   path : {Nowhere}, action : {"none"}, phase : Phases]
FileEvents ==
  [id : {"file"} \X (Workers \X Path \X Nat) \X Phases, kind : {"fileChange"},
   by : Workers, at : Nat, path : Path, action : {"edited", "created"}, phase : Phases]
Events == CommandEvents \union FileEvents

ActivityTypes ==
  /\ day \in Nat
  /\ feed \in Seq(Events)
  /\ doing \in [Workers -> [at : Nat, path : Path \union {Nowhere},
                            action : {"none", "edited", "created"}, busy : BOOLEAN]]
  /\ commands \in [Commands -> [status : Statuses, by : Workers \union {"none"},
                                since : Nat, news : Nat]]
  /\ changed \subseteq DOMAIN Tree

\* What an event says is so: of a command, whose it is, that it began, and
\* that it ended only when it did; of a file, who changed it.
EventIsSound(e, cs, ts, d) ==
  /\ e.at <= d /\ e.phase = e.id[3]
  /\ e.kind = "command" =>
       LET c == cs[e.id[2]] IN
       /\ c.status # "none" /\ e.by = c.by /\ c.since <= e.at /\ e.at <= c.news
       /\ e.phase = "started" => e.at = c.since
       /\ c.status # "ended" => e.phase \notin EndPhases
  /\ e.kind = "fileChange" => <<e.by, e.path.file, e.at>> \in ts

FeedIsSound(f, cs, ts, d) == \A i \in DOMAIN f : EventIsSound(f[i], cs, ts, d)

IdsAreUnique(f) == \A i, j \in DOMAIN f : f[i].id = f[j].id => i = j

\* What is heard of a command stands before its last news only with them.
NewsStandFirst(f, cs) ==
  \A i \in DOMAIN f : f[i].kind = "command" =>
    \E j \in 1..i :
      /\ f[j].kind = "command" /\ f[j].id[2] = f[i].id[2]
      /\ f[j].at = cs[f[i].id[2]].news
      /\ cs[f[i].id[2]].status = "ended" => f[j].phase \in EndPhases

CommandIsSound(c, d) ==
  c.since <= c.news /\ c.news <= d /\ (c.status # "none" => c.by \in Workers)

WorkIsSound(w, a, ts, d) ==
  /\ a.at <= d
  /\ a.path # Nowhere => \E t \in ts : t[1] = w /\ t[2] = a.path.file

ActivityInv ==
  /\ ActivityTypes
  /\ FeedIsSound(feed, commands, touched, day)
  /\ IdsAreUnique(feed)
  /\ NewsStandFirst(feed, commands)
  /\ \A c \in Commands : CommandIsSound(commands[c], day)
  /\ \A w \in Workers : WorkIsSound(w, doing[w], touched, day)

\* An event comes first, in the place of the one that has its id.
LEMMA PushEffect ==
  ASSUME feed \in Seq(Events), IdsAreUnique(feed), NEW e \in Events, Push(e)
  PROVE  /\ feed' \in Seq(Events) /\ Len(feed') >= 1 /\ feed'[1] = e
         /\ \E old \in 1..Len(feed) + 1 :
              /\ old \in DOMAIN feed => feed[old].id = e.id
              /\ \A i \in DOMAIN feed : i # old => feed[i].id # e.id
              /\ \A i \in DOMAIN feed' : i # 1 =>
                   LET from == IF i <= old THEN i - 1 ELSE i
                   IN from \in DOMAIN feed /\ from # old /\ feed'[i] = feed[from]
<1> DEFINE twice == {i \in DOMAIN feed : feed[i].id = e.id}
           old == IF twice = {} THEN Len(feed) + 1 ELSE CHOOSE i \in twice : TRUE
           longer == Max({old, Len(feed)})
           size == Min({MaxFeed, longer})
<1>1. Len(feed) \in Nat /\ DOMAIN feed = 1..Len(feed)
  OBVIOUS
<1>2. old \in 1..Len(feed) + 1 /\ (old \in DOMAIN feed => old \in twice)
  <2>1. CASE twice = {}
    BY <1>1, <2>1
  <2>2. CASE twice # {}
    <3>1. old \in twice
      BY <2>2
    <3> QED
      BY <1>1, <3>1
  <2> QED
    BY <2>1, <2>2
<1>3. \A i \in DOMAIN feed : i # old => feed[i].id # e.id
  <2> SUFFICES ASSUME NEW i \in DOMAIN feed, feed[i].id = e.id PROVE i = old
    OBVIOUS
  <2>1. i \in twice /\ old \in twice
    OBVIOUS
  <2>2. old \in DOMAIN feed /\ feed[old].id = feed[i].id
    BY <2>1
  <2> QED
    BY <2>2 DEF IdsAreUnique
<1>4. feed' = [i \in 1..size |-> IF i = 1 THEN e ELSE IF i <= old THEN feed[i - 1] ELSE feed[i]]
  BY DEF Push
<1> HIDE DEF twice, old
<1>5. longer = IF old <= Len(feed) THEN Len(feed) ELSE old
  BY <1>1, <1>2, OfTwo
<1> HIDE DEF longer
<1>6. size = IF MaxFeed <= longer THEN MaxFeed ELSE longer
  <2>1. MaxFeed \in Int /\ longer \in Int
    BY <1>1, <1>2, <1>5, ActivityLimits
  <2> QED
    BY <2>1, OfTwo
<1>7. size \in Nat /\ size >= 1 /\ size <= Len(feed) + 1 /\ (size = Len(feed) + 1 => old = size)
  BY <1>1, <1>2, <1>5, <1>6, ActivityLimits
<1> HIDE DEF size
<1>8. \A i \in 1..size : i # 1 =>
        LET from == IF i <= old THEN i - 1 ELSE i
        IN from \in DOMAIN feed /\ from # old /\ feed'[i] = feed[from]
  BY <1>1, <1>2, <1>4, <1>7
<1>9. \A i \in 1..size : feed'[i] \in Events
  <2> SUFFICES ASSUME NEW i \in 1..size PROVE feed'[i] \in Events
    OBVIOUS
  <2>1. CASE i = 1
    BY <1>4, <1>7, <2>1
  <2>2. CASE i # 1
    BY <1>8, <2>2
  <2> QED
    BY <2>1, <2>2
<1>10. DOMAIN feed' = 1..size /\ feed' \in [1..size -> Events]
  BY <1>4, <1>9
<1>11. feed' \in Seq(Events) /\ Len(feed') = size
  <2>1. feed' \in UNION {[1..n -> Events] : n \in Nat}
    BY <1>7, <1>10
  <2>2. feed' \in Seq(Events)
    <3> HIDE DEF Events
    <3> QED
      BY <2>1
  <2> QED
    BY <1>7, <1>10, <2>2
<1>12. old \in DOMAIN feed => feed[old].id = e.id
  BY <1>2 DEF twice
<1>13. feed'[1] = e
  BY <1>4, <1>7
<1> HIDE DEF Events
<1> QED
  BY <1>2, <1>3, <1>7, <1>8, <1>10, <1>11, <1>12, <1>13

LEMMA EventsByKind ==
  ASSUME NEW e \in Events
  PROVE  /\ e.kind = "command" => e \in CommandEvents
         /\ e.kind = "fileChange" => e \in FileEvents
         /\ e \in CommandEvents => e.kind = "command" /\ e.id[1] = "command" /\ e.id[2] \in Commands
         /\ e \in FileEvents => e.kind = "fileChange" /\ e.id[1] = "file"
BY DEF Events, CommandEvents, FileEvents

\* The feed stays sound when its events do and the one that comes is.
LEMMA PushKeepsSound ==
  ASSUME feed \in Seq(Events), IdsAreUnique(feed), NEW e \in Events, Push(e),
         NEW cs, NEW ts, NEW d, EventIsSound(e, cs, ts, d),
         \A i \in DOMAIN feed : feed[i].id # e.id => EventIsSound(feed[i], cs, ts, d)
  PROVE  FeedIsSound(feed', cs, ts, d) /\ IdsAreUnique(feed')
<1>1. /\ feed' \in Seq(Events) /\ Len(feed') >= 1 /\ feed'[1] = e
      /\ \E old \in 1..Len(feed) + 1 :
           /\ old \in DOMAIN feed => feed[old].id = e.id
           /\ \A i \in DOMAIN feed : i # old => feed[i].id # e.id
           /\ \A i \in DOMAIN feed' : i # 1 =>
                LET from == IF i <= old THEN i - 1 ELSE i
                IN from \in DOMAIN feed /\ from # old /\ feed'[i] = feed[from]
  BY PushEffect
<1>2. PICK old \in 1..Len(feed) + 1 :
           /\ old \in DOMAIN feed => feed[old].id = e.id
           /\ \A i \in DOMAIN feed : i # old => feed[i].id # e.id
           /\ \A i \in DOMAIN feed' : i # 1 =>
                LET from == IF i <= old THEN i - 1 ELSE i
                IN from \in DOMAIN feed /\ from # old /\ feed'[i] = feed[from]
  BY <1>1
<1> DEFINE From(i) == IF i <= old THEN i - 1 ELSE i
<1>3. \A i \in DOMAIN feed' : i # 1 =>
        /\ From(i) \in DOMAIN feed /\ feed'[i] = feed[From(i)] /\ feed[From(i)].id # e.id
  BY <1>2
<1>4. \A i, j \in DOMAIN feed' : i # 1 /\ j # 1 /\ From(i) = From(j) => i = j
  <2>1. \A i \in DOMAIN feed' : i \in Int
    BY <1>1
  <2>2. old \in Int
    OBVIOUS
  <2>3. \A i \in DOMAIN feed' : i # 1 => From(i) # old
    BY <1>2
  <2> QED
    BY <2>1, <2>2, <2>3
<1> HIDE DEF From
<1>5. ASSUME NEW i \in DOMAIN feed' PROVE EventIsSound(feed'[i], cs, ts, d)
  <2>1. CASE i = 1
    BY <1>1, <2>1
  <2>2. CASE i # 1
    BY <1>3, <2>2
  <2> QED
    BY <2>1, <2>2
<1>6. ASSUME NEW i \in DOMAIN feed', NEW j \in DOMAIN feed', feed'[i].id = feed'[j].id
      PROVE  i = j
  <2>1. CASE i = 1 \/ j = 1
    BY <1>1, <1>3, <1>6, <2>1
  <2>2. CASE i # 1 /\ j # 1
    <3>1. feed[From(i)].id = feed[From(j)].id
      BY <1>3, <1>6, <2>2
    <3>2. From(i) = From(j)
      BY <1>3, <2>2, <3>1 DEF IdsAreUnique
    <3> QED
      BY <1>4, <2>2, <3>2
  <2> QED
    BY <2>1, <2>2
<1> QED
  BY <1>5, <1>6 DEF FeedIsSound, IdsAreUnique

\* Its news still stand first when those that come are the last of theirs.
LEMMA PushKeepsNews ==
  ASSUME feed \in Seq(Events), IdsAreUnique(feed), NEW e \in Events, Push(e),
         NewsStandFirst(feed, commands), NEW cs,
         e.kind = "command" =>
           /\ e.at = cs[e.id[2]].news
           /\ cs[e.id[2]].status = "ended" => e.phase \in EndPhases,
         \A c \in Commands :
           \/ e.kind = "command" /\ e.id[2] = c
           \/ /\ cs[c].news = commands[c].news
              /\ cs[c].status = "ended" => commands[c].status = "ended"
  PROVE  NewsStandFirst(feed', cs)
<1>1. /\ feed' \in Seq(Events) /\ Len(feed') >= 1 /\ feed'[1] = e
      /\ \E old \in 1..Len(feed) + 1 :
           /\ old \in DOMAIN feed => feed[old].id = e.id
           /\ \A i \in DOMAIN feed : i # old => feed[i].id # e.id
           /\ \A i \in DOMAIN feed' : i # 1 =>
                LET from == IF i <= old THEN i - 1 ELSE i
                IN from \in DOMAIN feed /\ from # old /\ feed'[i] = feed[from]
  BY PushEffect
<1>2. PICK old \in 1..Len(feed) + 1 :
           /\ old \in DOMAIN feed => feed[old].id = e.id
           /\ \A i \in DOMAIN feed : i # old => feed[i].id # e.id
           /\ \A i \in DOMAIN feed' : i # 1 =>
                LET from == IF i <= old THEN i - 1 ELSE i
                IN from \in DOMAIN feed /\ from # old /\ feed'[i] = feed[from]
  BY <1>1
<1>3. SUFFICES ASSUME NEW i \in DOMAIN feed', feed'[i].kind = "command"
      PROVE  \E j \in 1..i :
               /\ feed'[j].kind = "command" /\ feed'[j].id[2] = feed'[i].id[2]
               /\ feed'[j].at = cs[feed'[i].id[2]].news
               /\ cs[feed'[i].id[2]].status = "ended" => feed'[j].phase \in EndPhases
  BY DEF NewsStandFirst
<1>4. i \in Nat /\ i >= 1 /\ 1 \in 1..i /\ i <= Len(feed')
  BY <1>1
<1>5. feed'[i] \in Events
  BY <1>1
<1> DEFINE c == feed'[i].id[2]
<1>6. c \in Commands
  BY <1>3, <1>5, EventsByKind
<1>7. CASE e.kind = "command" /\ e.id[2] = c
  BY <1>1, <1>4, <1>7
<1>8. CASE ~ (e.kind = "command" /\ e.id[2] = c)
  <2>1. i # 1
    BY <1>1, <1>3, <1>8
  <2> DEFINE from == IF i <= old THEN i - 1 ELSE i
  <2>2. from \in DOMAIN feed /\ from # old /\ feed'[i] = feed[from]
    BY <1>2, <2>1
  <2>3. from \in Nat /\ from <= i /\ (i <= old => from < old)
    BY <1>4, <2>1
  <2>4. PICK j \in 1..from :
          /\ feed[j].kind = "command" /\ feed[j].id[2] = c
          /\ feed[j].at = commands[c].news
          /\ commands[c].status = "ended" => feed[j].phase \in EndPhases
    BY <1>3, <2>2 DEF NewsStandFirst
  <2>5. j \in DOMAIN feed /\ feed[j] \in Events
    BY <2>2, <2>3
  <2>6. j # old
    <3>1. feed[j].id # e.id
      BY <1>8, <2>4, <2>5, EventsByKind DEF Events
    <3> QED
      BY <1>2, <2>5, <3>1
  <2> DEFINE to == IF j < old THEN j + 1 ELSE j
  <2>7. to \in 1..i /\ to # 1 /\ (IF to <= old THEN to - 1 ELSE to) = j
    BY <1>4, <2>1, <2>2, <2>3, <2>6
  <2>8. to \in DOMAIN feed'
    BY <1>1, <1>4, <2>7
  <2>9. feed'[to] = feed[j]
    BY <1>2, <2>7, <2>8
  <2>10. cs[c].news = commands[c].news /\ (cs[c].status = "ended" => commands[c].status = "ended")
    BY <1>6, <1>8
  <2> QED
    BY <2>4, <2>7, <2>9, <2>10
<1> QED
  BY <1>7, <1>8

LEMMA ActivityStarts == ActivityInit => ActivityInv
<1> SUFFICES ASSUME ActivityInit PROVE ActivityInv
  OBVIOUS
<1>1. /\ day = 1 /\ feed = <<>> /\ changed = {}
      /\ doing = [w \in Workers |-> [at |-> 0, path |-> Nowhere, action |-> "none", busy |-> FALSE]]
      /\ commands = [c \in Commands |-> [status |-> "none", by |-> "none", since |-> 0, news |-> 0]]
  BY DEF ActivityInit
<1>2. feed \in Seq(Events) /\ DOMAIN feed = {}
  BY <1>1
<1>3. ActivityTypes
  <2>1. doing \in [Workers -> [at : Nat, path : Path \union {Nowhere},
                               action : {"none", "edited", "created"}, busy : BOOLEAN]]
    BY <1>1
  <2>2. commands \in [Commands -> [status : Statuses, by : Workers \union {"none"},
                                   since : Nat, news : Nat]]
    BY <1>1 DEF Statuses
  <2> QED
    BY <1>1, <1>2, <2>1, <2>2 DEF ActivityTypes
<1>4. FeedIsSound(feed, commands, touched, day) /\ IdsAreUnique(feed) /\ NewsStandFirst(feed, commands)
  BY <1>2 DEF FeedIsSound, IdsAreUnique, NewsStandFirst
<1>5. \A c \in Commands : CommandIsSound(commands[c], day)
  BY <1>1 DEF CommandIsSound
<1>6. \A w \in Workers : WorkIsSound(w, doing[w], touched, day)
  BY <1>1 DEF WorkIsSound
<1> QED
  BY <1>3, <1>4, <1>5, <1>6 DEF ActivityInv

LEMMA EditsKeep ==
  ASSUME ActivityInv, NEW p \in Patches, NEW f \in DOMAIN Tree, Edits(p, f)
  PROVE  ActivityInv'
<1> DEFINE path == [file |-> f, absolute |-> p.absolute]
           e == [id |-> <<"file", <<p.by, path, day>>, p.phase>>, kind |-> "fileChange",
                 by |-> p.by, at |-> day, path |-> path, action |-> p.action, phase |-> p.phase]
<1>1. p \in AnyPatch
  BY PatchesAssumption
<1>2. p.by \in Workers /\ p.absolute \in BOOLEAN /\ p.told \in BOOLEAN
      /\ p.action \in {"edited", "created"} /\ p.phase \in Phases
  <2>1. p.phase \in {"started", "completed"}
    BY <1>1 DEF AnyPatch
  <2> QED
    BY <1>1, <2>1 DEF AnyPatch, Phases
<1>3. /\ doing' = [doing EXCEPT ![p.by] =
           [at |-> day, path |-> path, action |-> p.action, busy |-> TRUE]]
      /\ touched' = touched \union {<<p.by, f, day>>}
      /\ changed' = changed \union {f}
      /\ day' = day /\ commands' = commands
      /\ IF p.told THEN Push(e) ELSE feed' = feed
  BY DEF Edits
<1>4. ActivityTypes
  BY DEF ActivityInv
<1>5. path \in Path /\ day \in Nat
  BY <1>2, <1>4 DEF Path, ActivityTypes
<1>6. e \in FileEvents /\ e \in Events
  BY <1>2, <1>5 DEF FileEvents, Events
<1>7. e.kind = "fileChange" /\ e.by = p.by /\ e.at = day /\ e.path.file = f
      /\ e.phase = p.phase /\ e.id[3] = p.phase
  OBVIOUS
<1> HIDE DEF e
<1>8. EventIsSound(e, commands, touched', day)
  BY <1>3, <1>5, <1>7 DEF EventIsSound
<1>9. \A i \in DOMAIN feed : EventIsSound(feed[i], commands, touched', day)
  BY <1>3 DEF ActivityInv, FeedIsSound, EventIsSound
<1>10. /\ feed' \in Seq(Events) /\ FeedIsSound(feed', commands, touched', day)
       /\ IdsAreUnique(feed') /\ NewsStandFirst(feed', commands)
  <2>1. feed \in Seq(Events) /\ IdsAreUnique(feed) /\ NewsStandFirst(feed, commands)
    BY <1>4 DEF ActivityInv, ActivityTypes
  <2>2. CASE p.told
    <3>1. Push(e)
      BY <1>3, <2>2
    <3>2. feed' \in Seq(Events)
      BY <1>6, <2>1, <3>1, PushEffect
    <3>3. FeedIsSound(feed', commands, touched', day) /\ IdsAreUnique(feed')
      BY <1>6, <1>8, <1>9, <2>1, <3>1, PushKeepsSound
    <3>4. NewsStandFirst(feed', commands)
      BY <1>6, <1>7, <2>1, <3>1, PushKeepsNews
    <3> QED
      BY <3>2, <3>3, <3>4
  <2>3. CASE ~p.told
    BY <1>3, <1>9, <2>1, <2>3 DEF FeedIsSound
  <2> QED
    BY <1>2, <2>2, <2>3
<1>11. ActivityTypes'
  BY <1>2, <1>3, <1>4, <1>5, <1>10 DEF ActivityTypes
<1>12. \A w \in Workers : WorkIsSound(w, doing'[w], touched', day)
  <2> SUFFICES ASSUME NEW w \in Workers PROVE WorkIsSound(w, doing'[w], touched', day)
    OBVIOUS
  <2>1. CASE w = p.by
    <3>1. doing'[w].at = day /\ doing'[w].path = path
      BY <1>3, <1>4, <2>1 DEF ActivityTypes
    <3>2. <<w, f, day>> \in touched' /\ path.file = f
      BY <1>3, <2>1
    <3> QED
      BY <1>5, <3>1, <3>2 DEF WorkIsSound
  <2>2. CASE w # p.by
    <3>1. doing'[w] = doing[w]
      BY <1>3, <1>4, <2>2 DEF ActivityTypes
    <3> QED
      BY <1>3, <3>1 DEF ActivityInv, WorkIsSound
  <2> QED
    BY <2>1, <2>2
<1> QED
  BY <1>3, <1>10, <1>11, <1>12 DEF ActivityInv

\* A command is told of in one event for each of its phases.
LEMMA CommandEventIsTyped ==
  ASSUME ActivityTypes, NEW c \in Commands, NEW w \in Workers, NEW phase \in Phases
  PROVE  /\ CommandEvent(c, w, phase) \in Events
         /\ CommandEvent(c, w, phase).kind = "command"
         /\ CommandEvent(c, w, phase).id[2] = c /\ CommandEvent(c, w, phase).id[3] = phase
         /\ CommandEvent(c, w, phase).by = w /\ CommandEvent(c, w, phase).at = day
         /\ CommandEvent(c, w, phase).phase = phase
<1>1. CommandEvent(c, w, phase) \in CommandEvents
  BY DEF CommandEvent, CommandEvents, ActivityTypes
<1> QED
  BY <1>1 DEF CommandEvent, Events

LEMMA StartsKeep ==
  ASSUME ActivityInv, NEW c \in Commands, NEW w \in Workers, Starts(c, w)
  PROVE  ActivityInv'
<1> DEFINE e == CommandEvent(c, w, "started")
<1>1. /\ commands[c].status = "none"
      /\ commands' = [commands EXCEPT ![c] =
           [status |-> "running", by |-> w, since |-> day, news |-> day]]
      /\ doing' = [doing EXCEPT ![w].at = day, ![w].busy = TRUE]
      /\ Push(e) /\ day' = day /\ changed' = changed /\ touched' = touched
  BY DEF Starts
<1>2. ActivityTypes
  BY DEF ActivityInv
<1>3. /\ e \in Events /\ e.kind = "command" /\ e.id[2] = c /\ e.id[3] = "started"
      /\ e.by = w /\ e.at = day /\ e.phase = "started"
  BY <1>2, CommandEventIsTyped DEF Phases
<1> HIDE DEF e
<1>4. commands'[c] = [status |-> "running", by |-> w, since |-> day, news |-> day]
      /\ day \in Nat
  BY <1>1, <1>2 DEF ActivityTypes
<1>5. \A d \in Commands : d # c => commands'[d] = commands[d]
  BY <1>1, <1>2 DEF ActivityTypes
<1>6. EventIsSound(e, commands', touched, day)
  BY <1>3, <1>4 DEF EventIsSound, EndPhases
<1>7. \A i \in DOMAIN feed : EventIsSound(feed[i], commands', touched, day)
  <2> SUFFICES ASSUME NEW i \in DOMAIN feed
               PROVE  EventIsSound(feed[i], commands', touched, day)
    OBVIOUS
  <2>1. EventIsSound(feed[i], commands, touched, day) /\ feed[i] \in Events
    BY <1>2 DEF ActivityInv, FeedIsSound, ActivityTypes
  <2>2. feed[i].kind = "command" => feed[i].id[2] \in Commands /\ feed[i].id[2] # c
    BY <1>1, <2>1, EventsByKind DEF EventIsSound
  <2> QED
    BY <1>5, <2>1, <2>2 DEF EventIsSound
<1>8. /\ feed' \in Seq(Events) /\ FeedIsSound(feed', commands', touched, day)
      /\ IdsAreUnique(feed') /\ NewsStandFirst(feed', commands')
  <2>1. feed \in Seq(Events) /\ IdsAreUnique(feed) /\ NewsStandFirst(feed, commands)
    BY <1>2 DEF ActivityInv, ActivityTypes
  <2>2. Push(e) /\ e \in Events
    BY <1>1, <1>3
  <2>3. feed' \in Seq(Events)
    BY <2>1, <2>2, PushEffect
  <2>4. FeedIsSound(feed', commands', touched, day) /\ IdsAreUnique(feed')
    BY <1>6, <1>7, <2>1, <2>2, PushKeepsSound
  <2>5. e.kind = "command" /\ e.id[2] = c /\ e.at = commands'[c].news
        /\ commands'[c].status # "ended"
    BY <1>3, <1>4
  <2>6. NewsStandFirst(feed', commands')
    BY <1>5, <2>1, <2>2, <2>5, PushKeepsNews
  <2> QED
    BY <2>3, <2>4, <2>6
<1>9. ActivityTypes'
  <2>1. commands' \in [Commands -> [status : Statuses, by : Workers \union {"none"},
                                    since : Nat, news : Nat]]
    BY <1>1, <1>2, <1>4 DEF ActivityTypes, Statuses
  <2>2. doing' \in [Workers -> [at : Nat, path : Path \union {Nowhere},
                                action : {"none", "edited", "created"}, busy : BOOLEAN]]
    <3>1. doing' = [doing EXCEPT ![w] = [[doing[w] EXCEPT !.at = day] EXCEPT !.busy = TRUE]]
      BY <1>1, <1>2 DEF ActivityTypes
    <3>2. doing[w] \in [at : Nat, path : Path \union {Nowhere},
                        action : {"none", "edited", "created"}, busy : BOOLEAN]
      BY <1>2 DEF ActivityTypes
    <3>3. [[doing[w] EXCEPT !.at = day] EXCEPT !.busy = TRUE]
            \in [at : Nat, path : Path \union {Nowhere},
                 action : {"none", "edited", "created"}, busy : BOOLEAN]
      BY <1>4, <3>2
    <3> QED
      BY <1>2, <3>1, <3>3 DEF ActivityTypes
  <2> QED
    BY <1>1, <1>2, <1>8, <2>1, <2>2 DEF ActivityTypes
<1>10. \A d \in Commands : CommandIsSound(commands'[d], day)
  BY <1>4, <1>5 DEF ActivityInv, CommandIsSound
<1>11. \A v \in Workers : WorkIsSound(v, doing'[v], touched, day)
  <2>1. \A v \in Workers : doing'[v].path = doing[v].path
                           /\ (doing'[v].at = doing[v].at \/ doing'[v].at = day)
    BY <1>1, <1>2 DEF ActivityTypes
  <2> QED
    BY <1>4, <2>1 DEF ActivityInv, WorkIsSound
<1> QED
  BY <1>1, <1>8, <1>9, <1>10, <1>11 DEF ActivityInv

LEMMA TellsKeep ==
  ASSUME ActivityInv, NEW c \in Commands, NEW phase \in {"updated", "completed", "failed"},
         Tells(c, phase)
  PROVE  ActivityInv'
<1> DEFINE w == commands[c].by
           e == CommandEvent(c, w, phase)
           ending == IF phase = "updated" THEN "running" ELSE "ended"
<1>1. /\ commands[c].status = "running"
      /\ commands' = [commands EXCEPT ![c].news = day,
                                      ![c].status = IF phase = "updated" THEN @ ELSE "ended"]
      /\ doing' = [doing EXCEPT ![w].at = day]
      /\ Push(e) /\ day' = day /\ changed' = changed /\ touched' = touched
  BY DEF Tells
<1>2. ActivityTypes /\ CommandIsSound(commands[c], day)
  BY DEF ActivityInv
<1>3. w \in Workers /\ phase \in Phases /\ day \in Nat
  BY <1>1, <1>2 DEF CommandIsSound, Phases, ActivityTypes
<1>4. /\ e \in Events /\ e.kind = "command" /\ e.id[2] = c /\ e.id[3] = phase
      /\ e.by = w /\ e.at = day /\ e.phase = phase
  BY <1>2, <1>3, CommandEventIsTyped
<1> HIDE DEF e
<1>5. /\ commands'[c].status = ending /\ commands'[c].by = w
      /\ commands'[c].since = commands[c].since /\ commands'[c].news = day
      /\ commands'[c] \in [status : Statuses, by : Workers \union {"none"}, since : Nat, news : Nat]
  <2> DEFINE told == [commands[c] EXCEPT !.news = day]
  <2>1. commands[c] \in [status : Statuses, by : Workers \union {"none"}, since : Nat, news : Nat]
    BY <1>2 DEF ActivityTypes
  <2>2. /\ told \in [status : Statuses, by : Workers \union {"none"}, since : Nat, news : Nat]
        /\ told.status = "running" /\ told.by = w
        /\ told.since = commands[c].since /\ told.news = day
    BY <1>1, <1>3, <2>1
  <2>3. commands'[c] = [told EXCEPT !.status = ending]
    BY <1>1, <1>2 DEF ActivityTypes
  <2> HIDE DEF told
  <2> QED
    BY <2>2, <2>3 DEF Statuses
<1>6. \A d \in Commands : d # c => commands'[d] = commands[d]
  BY <1>1, <1>2 DEF ActivityTypes
<1>7. commands[c].since <= commands[c].news /\ commands[c].news <= day
      /\ commands[c].since \in Nat /\ commands[c].news \in Nat
  BY <1>2 DEF CommandIsSound, ActivityTypes
<1>8. EventIsSound(e, commands', touched, day)
  BY <1>3, <1>4, <1>5, <1>7 DEF EventIsSound, EndPhases
<1>9. \A i \in DOMAIN feed : EventIsSound(feed[i], commands', touched, day)
  <2> SUFFICES ASSUME NEW i \in DOMAIN feed
               PROVE  EventIsSound(feed[i], commands', touched, day)
    OBVIOUS
  <2>1. EventIsSound(feed[i], commands, touched, day) /\ feed[i] \in Events
    BY <1>2 DEF ActivityInv, FeedIsSound, ActivityTypes
  <2>2. feed[i].kind = "command" => feed[i].id[2] \in Commands
    BY <2>1, EventsByKind
  <2>3. CASE feed[i].kind = "command" /\ feed[i].id[2] = c
    BY <1>1, <1>5, <2>1, <2>3 DEF EventIsSound
  <2>4. CASE ~ (feed[i].kind = "command" /\ feed[i].id[2] = c)
    BY <1>6, <2>1, <2>2, <2>4 DEF EventIsSound
  <2> QED
    BY <2>3, <2>4
<1>10. /\ feed' \in Seq(Events) /\ FeedIsSound(feed', commands', touched, day)
       /\ IdsAreUnique(feed') /\ NewsStandFirst(feed', commands')
  <2>1. feed \in Seq(Events) /\ IdsAreUnique(feed) /\ NewsStandFirst(feed, commands)
    BY <1>2 DEF ActivityInv, ActivityTypes
  <2>2. Push(e) /\ e \in Events
    BY <1>1, <1>4
  <2>3. feed' \in Seq(Events)
    BY <2>1, <2>2, PushEffect
  <2>4. FeedIsSound(feed', commands', touched, day) /\ IdsAreUnique(feed')
    BY <1>8, <1>9, <2>1, <2>2, PushKeepsSound
  <2>5. e.kind = "command" /\ e.id[2] = c /\ e.at = commands'[c].news
        /\ (commands'[c].status = "ended" => e.phase \in EndPhases)
    BY <1>4, <1>5 DEF EndPhases
  <2>6. NewsStandFirst(feed', commands')
    BY <1>6, <2>1, <2>2, <2>5, PushKeepsNews
  <2> QED
    BY <2>3, <2>4, <2>6
<1>11. ActivityTypes'
  <2>1. commands' \in [Commands -> [status : Statuses, by : Workers \union {"none"},
                                    since : Nat, news : Nat]]
    <3>1. DOMAIN commands' = Commands /\ commands' = [d \in Commands |-> commands'[d]]
      BY <1>1, <1>2 DEF ActivityTypes
    <3>2. \A d \in Commands :
            commands'[d] \in [status : Statuses, by : Workers \union {"none"}, since : Nat, news : Nat]
      BY <1>2, <1>5, <1>6 DEF ActivityTypes
    <3> QED
      BY <3>1, <3>2
  <2>2. doing' \in [Workers -> [at : Nat, path : Path \union {Nowhere},
                                action : {"none", "edited", "created"}, busy : BOOLEAN]]
    BY <1>1, <1>2, <1>3 DEF ActivityTypes
  <2> QED
    BY <1>1, <1>2, <1>10, <2>1, <2>2 DEF ActivityTypes
<1>12. \A d \in Commands : CommandIsSound(commands'[d], day)
  <2> SUFFICES ASSUME NEW d \in Commands PROVE CommandIsSound(commands'[d], day)
    OBVIOUS
  <2>1. CASE d = c
    BY <1>3, <1>5, <1>7, <2>1 DEF CommandIsSound
  <2>2. CASE d # c
    BY <1>6, <2>2 DEF ActivityInv
  <2> QED
    BY <2>1, <2>2
<1>13. \A v \in Workers : WorkIsSound(v, doing'[v], touched, day)
  <2>1. \A v \in Workers : doing'[v].path = doing[v].path
                           /\ (doing'[v].at = doing[v].at \/ doing'[v].at = day)
    BY <1>1, <1>2 DEF ActivityTypes
  <2> QED
    BY <1>3, <2>1 DEF ActivityInv, WorkIsSound
<1> QED
  BY <1>1, <1>10, <1>11, <1>12, <1>13 DEF ActivityInv

LEMMA TurnEndsKeep ==
  ASSUME ActivityInv, NEW w \in Workers, TurnEnds(w)
  PROVE  ActivityInv'
<1> DEFINE gone(c) == commands[c].by = w /\ commands[c].status = "running"
<1>1. /\ doing' = [doing EXCEPT ![w] = [@ EXCEPT !.busy = FALSE, !.at = day]]
      /\ commands' = [c \in Commands |->
           IF gone(c) THEN [commands[c] EXCEPT !.status = "gone"] ELSE commands[c]]
      /\ day' = day /\ feed' = feed /\ changed' = changed /\ touched' = touched
  BY DEF TurnEnds
<1>2. ActivityTypes
  BY DEF ActivityInv
<1>3. \A c \in Commands :
        /\ commands'[c] \in [status : Statuses, by : Workers \union {"none"}, since : Nat, news : Nat]
        /\ commands'[c].by = commands[c].by /\ commands'[c].since = commands[c].since
        /\ commands'[c].news = commands[c].news
        /\ commands'[c].status = IF gone(c) THEN "gone" ELSE commands[c].status
  <2> SUFFICES ASSUME NEW c \in Commands
               PROVE  /\ commands'[c] \in [status : Statuses, by : Workers \union {"none"},
                                           since : Nat, news : Nat]
                      /\ commands'[c].by = commands[c].by /\ commands'[c].since = commands[c].since
                      /\ commands'[c].news = commands[c].news
                      /\ commands'[c].status = IF gone(c) THEN "gone" ELSE commands[c].status
    OBVIOUS
  <2>1. commands[c] \in [status : Statuses, by : Workers \union {"none"}, since : Nat, news : Nat]
    BY <1>2 DEF ActivityTypes
  <2>2. commands'[c] = IF gone(c) THEN [commands[c] EXCEPT !.status = "gone"] ELSE commands[c]
    BY <1>1
  <2> QED
    BY <2>1, <2>2 DEF Statuses
<1>4. \A c \in Commands :
        /\ commands'[c].status = "ended" <=> commands[c].status = "ended"
        /\ commands[c].status # "none" <=> commands'[c].status # "none"
  BY <1>3
<1>5. /\ day \in Nat /\ \A v \in Workers : doing'[v].path = doing[v].path
                           /\ (doing'[v].at = doing[v].at \/ doing'[v].at = day)
      /\ doing' \in [Workers -> [at : Nat, path : Path \union {Nowhere},
                                 action : {"none", "edited", "created"}, busy : BOOLEAN]]
  <2> DEFINE quiet == [doing[w] EXCEPT !.busy = FALSE]
  <2>1. doing[w] \in [at : Nat, path : Path \union {Nowhere},
                      action : {"none", "edited", "created"}, busy : BOOLEAN]
    BY <1>2 DEF ActivityTypes
  <2>2. quiet \in [at : Nat, path : Path \union {Nowhere},
                   action : {"none", "edited", "created"}, busy : BOOLEAN]
        /\ quiet.path = doing[w].path
    BY <2>1
  <2>3. doing' = [doing EXCEPT ![w] = [quiet EXCEPT !.at = day]]
    BY <1>1, <1>2 DEF ActivityTypes
  <2> HIDE DEF quiet
  <2> QED
    BY <1>2, <2>2, <2>3 DEF ActivityTypes
<1>6. ActivityTypes'
  <2>1. commands' \in [Commands -> [status : Statuses, by : Workers \union {"none"},
                                    since : Nat, news : Nat]]
    BY <1>1, <1>3
  <2> QED
    BY <1>1, <1>2, <1>5, <2>1 DEF ActivityTypes
<1>7. \A i \in DOMAIN feed : feed[i] \in Events
                             /\ (feed[i].kind = "command" => feed[i].id[2] \in Commands)
  BY <1>2, EventsByKind DEF ActivityTypes
<1>8. FeedIsSound(feed, commands', touched, day)
  <2> SUFFICES ASSUME NEW i \in DOMAIN feed
               PROVE  EventIsSound(feed[i], commands', touched, day)
    BY DEF FeedIsSound
  <2>1. EventIsSound(feed[i], commands, touched, day)
    BY DEF ActivityInv, FeedIsSound
  <2> QED
    BY <1>3, <1>4, <1>7, <2>1 DEF EventIsSound
<1>9. NewsStandFirst(feed, commands')
  <2> SUFFICES ASSUME NEW i \in DOMAIN feed, feed[i].kind = "command"
               PROVE  \E j \in 1..i :
                        /\ feed[j].kind = "command" /\ feed[j].id[2] = feed[i].id[2]
                        /\ feed[j].at = commands'[feed[i].id[2]].news
                        /\ commands'[feed[i].id[2]].status = "ended" => feed[j].phase \in EndPhases
    BY DEF NewsStandFirst
  <2>1. feed[i].id[2] \in Commands
    BY <1>7
  <2> QED
    BY <1>3, <1>4, <2>1 DEF ActivityInv, NewsStandFirst
<1>10. \A c \in Commands : CommandIsSound(commands'[c], day)
  BY <1>3, <1>4 DEF ActivityInv, CommandIsSound
<1>11. \A v \in Workers : WorkIsSound(v, doing'[v], touched, day)
  BY <1>5 DEF ActivityInv, WorkIsSound
<1> QED
  BY <1>1, <1>6, <1>8, <1>9, <1>10, <1>11 DEF ActivityInv

LEMMA DayKeeps ==
  ASSUME ActivityInv, DayPasses
  PROVE  ActivityInv'
<1>1. /\ day' = day + 1 /\ feed' = feed /\ doing' = doing /\ commands' = commands
      /\ changed' = changed /\ touched' = touched
  BY DEF DayPasses
<1>2. ActivityTypes /\ ActivityTypes'
  BY <1>1 DEF ActivityInv, ActivityTypes
<1>3. FeedIsSound(feed, commands, touched, day + 1)
  <2>1. \A i \in DOMAIN feed : feed[i].at \in Nat
    <3>1. \A i \in DOMAIN feed : feed[i] \in Events
      BY <1>2 DEF ActivityTypes
    <3> QED
      BY <3>1 DEF Events, CommandEvents, FileEvents
  <2>2. day \in Nat
    BY <1>2 DEF ActivityTypes
  <2> QED
    BY <2>1, <2>2 DEF ActivityInv, FeedIsSound, EventIsSound
<1>4. \A c \in Commands : CommandIsSound(commands[c], day + 1)
  <2>1. day \in Nat /\ \A c \in Commands : commands[c].news \in Nat
    BY <1>2 DEF ActivityTypes
  <2> QED
    BY <2>1 DEF ActivityInv, CommandIsSound
<1>5. \A w \in Workers : WorkIsSound(w, doing[w], touched, day + 1)
  <2>1. day \in Nat /\ \A w \in Workers : doing[w].at \in Nat
    BY <1>2 DEF ActivityTypes
  <2> QED
    BY <2>1 DEF ActivityInv, WorkIsSound
<1> QED
  BY <1>1, <1>2, <1>3, <1>4, <1>5 DEF ActivityInv

LEMMA CommitsKeep ==
  ASSUME ActivityInv, UNCHANGED <<day, feed, doing, commands, touched>>, changed' \subseteq changed
  PROVE  ActivityInv'
<1>1. day' = day /\ feed' = feed /\ doing' = doing /\ commands' = commands /\ touched' = touched
  OBVIOUS
<1>2. ActivityTypes'
  BY <1>1 DEF ActivityInv, ActivityTypes
<1> QED
  BY <1>1, <1>2 DEF ActivityInv

\* The feed, the commands and the agents of a project always agree.
LEMMA ActivityAlwaysSound == ActivitySpec => []ActivityInv
<1>1. ASSUME ActivityInv, [ActivityNext]_activityVars PROVE ActivityInv'
  <2>1. CASE UNCHANGED activityVars
    BY <1>1, <2>1, CommitsKeep DEF activityVars
  <2>2. CASE SomeoneWorks
    <3>1. CASE \E p \in Patches, f \in DOMAIN Tree : Edits(p, f)
      BY <1>1, <3>1, EditsKeep
    <3>2. CASE \E c \in Commands, w \in Workers : Starts(c, w)
      BY <1>1, <3>2, StartsKeep
    <3>3. CASE \E c \in Commands, phase \in {"updated", "completed", "failed"} : Tells(c, phase)
      BY <1>1, <3>3, TellsKeep
    <3>4. CASE \E w \in Workers : TurnEnds(w)
      BY <1>1, <3>4, TurnEndsKeep
    <3> QED
      BY <2>2, <3>1, <3>2, <3>3, <3>4 DEF SomeoneWorks
  <2>3. CASE \E f \in DOMAIN Tree : Commits(f)
    <3>1. UNCHANGED <<day, feed, doing, commands, touched>> /\ changed' \subseteq changed
      BY <2>3 DEF Commits
    <3> QED
      BY <1>1, <3>1, CommitsKeep
  <2>4. CASE DayPasses
    BY <1>1, <2>4, DayKeeps
  <2> QED
    BY <1>1, <2>1, <2>2, <2>3, <2>4 DEF ActivityNext
<1> QED
  BY ActivityStarts, <1>1, PTL DEF ActivitySpec

\* The greatest and the least of numbers that are not past a bound.
LEMMA MaxIsGreatest ==
  ASSUME NEW S \in SUBSET Nat, S # {}, NEW bound \in Nat, \A x \in S : x <= bound
  PROVE  Max(S) \in S /\ \A x \in S : x <= Max(S)
<1> DEFINE Greatest(x) == x \in S /\ \A y \in S : x >= y
<1>1. \E x : Greatest(x)
  BY GreatestNumber
<1>2. Greatest(CHOOSE x : Greatest(x))
  <2> HIDE DEF Greatest
  <2> QED
    BY <1>1
<1>3. Max(S) = CHOOSE x : Greatest(x)
  BY DEF Max
<1> QED
  BY <1>2, <1>3

LEMMA MinIsLeast ==
  ASSUME NEW S \in SUBSET Nat, S # {}
  PROVE  Min(S) \in S /\ \A x \in S : Min(S) <= x
<1> DEFINE Least(x) == x \in S /\ \A y \in S : x <= y
<1>1. \E x : Least(x)
  BY LeastNumber
<1>2. Least(CHOOSE x : Least(x))
  <2> HIDE DEF Least
  <2> QED
    BY <1>1
<1>3. Min(S) = CHOOSE x : Least(x)
  BY DEF Min
<1> QED
  BY <1>2, <1>3

\* The events of a command, of those of the feed.
LEMMA EventsOfCommand ==
  ASSUME ActivityInv, NEW c \in Commands, NEW es \in SUBSET ToSet(feed)
  PROVE  /\ \A e \in Of(c, es) :
              /\ e \in Events /\ e \in es /\ e.at \in Nat
              /\ e.by = commands[c].by /\ commands[c].status # "none"
              /\ commands[c].since <= e.at /\ e.at <= commands[c].news
              /\ e.phase = "started" => e.at = commands[c].since
              /\ commands[c].status # "ended" => e.phase \notin EndPhases
         /\ Times(Of(c, es)) \in SUBSET Nat
         /\ Of(c, es) # {} => Times(Of(c, es)) # {}
         /\ \A t \in Times(Of(c, es)) : commands[c].since <= t /\ t <= commands[c].news
<1>1. ASSUME NEW e \in Of(c, es)
      PROVE  /\ e \in Events /\ e \in es /\ e.at \in Nat
             /\ e.by = commands[c].by /\ commands[c].status # "none"
             /\ commands[c].since <= e.at /\ e.at <= commands[c].news
             /\ e.phase = "started" => e.at = commands[c].since
             /\ commands[c].status # "ended" => e.phase \notin EndPhases
  <2>1. e \in es /\ e.kind = "command" /\ e.id[2] = c
    BY DEF Of
  <2>2. PICK i \in DOMAIN feed : e = feed[i]
    BY <2>1 DEF ToSet
  <2>3. EventIsSound(e, commands, touched, day) /\ e \in Events
    BY <2>2 DEF ActivityInv, FeedIsSound, ActivityTypes
  <2>4. e.at \in Nat
    BY <2>3 DEF Events, CommandEvents, FileEvents
  <2> QED
    BY <2>1, <2>3, <2>4 DEF EventIsSound
<1>2. \A t \in Times(Of(c, es)) : \E e \in Of(c, es) : t = e.at
  BY DEF Times
<1>3. Of(c, es) # {} => Times(Of(c, es)) # {}
  BY DEF Times
<1> QED
  BY <1>1, <1>2, <1>3

\* The last that is known of a command is in the feed when anything is.
LEMMA NewsAreThere ==
  ASSUME ActivityInv, NEW c \in Commands, Of(c, ToSet(feed)) # {}
  PROVE  \E e \in Of(c, ToSet(feed)) :
           /\ e.at = commands[c].news
           /\ commands[c].status = "ended" => e.phase \in EndPhases
<1>1. PICK e \in Of(c, ToSet(feed)) : TRUE
  OBVIOUS
<1>2. e \in ToSet(feed) /\ e.kind = "command" /\ e.id[2] = c
  BY DEF Of
<1>3. PICK i \in DOMAIN feed : e = feed[i]
  BY <1>2 DEF ToSet
<1>4. PICK j \in 1..i : /\ feed[j].kind = "command" /\ feed[j].id[2] = c
                        /\ feed[j].at = commands[c].news
                        /\ commands[c].status = "ended" => feed[j].phase \in EndPhases
  BY <1>2, <1>3 DEF ActivityInv, NewsStandFirst
<1>5. j \in DOMAIN feed
  BY <1>3 DEF ActivityInv, ActivityTypes
<1>6. feed[j] \in Of(c, ToSet(feed))
  BY <1>4, <1>5 DEF Of, ToSet
<1> QED
  BY <1>4, <1>6

\* Of a command in the feed, the latest news are the latest of its events.
LEMMA LatestNews ==
  ASSUME ActivityInv, NEW c \in Commands, Of(c, ToSet(feed)) # {}
  PROVE  /\ Max(Times(Of(c, ToSet(feed)))) = commands[c].news
         /\ Min(Times(Of(c, ToSet(feed)))) >= commands[c].since
<1> DEFINE times == Times(Of(c, ToSet(feed)))
<1>1. times \in SUBSET Nat /\ times # {}
      /\ \A t \in times : commands[c].since <= t /\ t <= commands[c].news
  BY EventsOfCommand
<1>2. commands[c].news \in times
  BY NewsAreThere DEF Times
<1> HIDE DEF times
<1>4. Min(times) \in times
  BY <1>1, MinIsLeast
<1>5. commands[c].since \in Int /\ commands[c].news \in Nat
  BY DEF ActivityInv, ActivityTypes
<1>6. Max(times) \in times /\ \A t \in times : t <= Max(times)
  BY <1>1, <1>2, <1>5, MaxIsGreatest
<1>7. Max(times) = commands[c].news
  <2>1. Max(times) \in Nat
    BY <1>1, <1>6
  <2>2. Max(times) <= commands[c].news
    BY <1>1, <1>6
  <2>3. commands[c].news <= Max(times)
    BY <1>2, <1>6
  <2> QED
    BY <1>5, <2>1, <2>2, <2>3
<1>8. Min(times) >= commands[c].since
  BY <1>1, <1>4, <1>5
<1> QED
  BY <1>7, <1>8 DEF times

\* What an agent's summary takes to run has not ended, and is its own.
LEMMA AgentCommandsAreTrue ==
  ASSUME ActivityInv, NEW w \in Workers, NEW s \in AgentCommand(w)
  PROVE  /\ s.id \in Commands /\ commands[s.id].status # "ended" /\ commands[s.id].by = w
         /\ Of(s.id, RecentOf(w)) # {}
         /\ s.since = LET es == Of(s.id, RecentOf(w))
                          first == {e \in es : e.phase = "started"}
                      IN Min(Times(IF first # {} THEN first ELSE es))
<1>1. PICK c \in Commands :
        /\ Of(c, RecentOf(w)) # {} /\ ~Ended(Of(c, RecentOf(w)))
        /\ s.id = c
        /\ s.since = LET es == Of(c, RecentOf(w))
                         first == {e \in es : e.phase = "started"}
                     IN Min(Times(IF first # {} THEN first ELSE es))
  <2>1. s \in AgentCommands(w)
    BY DEF AgentCommand
  <2> DEFINE Began(es) == LET first == {e \in es : e.phase = "started"}
                         IN Min(Times(IF first # {} THEN first ELSE es))
  <2>2. PICK c \in Commands :
          /\ Of(c, RecentOf(w)) # {} /\ ~Ended(Of(c, RecentOf(w)))
          /\ s = [id |-> c, since |-> Began(Of(c, RecentOf(w))),
                  news |-> Max(Times(Of(c, RecentOf(w))))]
    BY <2>1, Zenon DEF AgentCommands
  <2> HIDE DEF Began
  <2>3. s.id = c /\ s.since = Began(Of(c, RecentOf(w)))
    BY <2>2
  <2> QED
    BY <2>2, <2>3 DEF Began
<1>2. RecentOf(w) \in SUBSET ToSet(feed)
  BY DEF RecentOf
<1>3. PICK e \in Of(c, RecentOf(w)) : TRUE
  BY <1>1
<1>4. e.by = w /\ e.by = commands[c].by /\ day - e.at <= Recent /\ e.at \in Nat
      /\ e.at <= commands[c].news /\ e \in Of(c, ToSet(feed))
  BY <1>2, <1>3, EventsOfCommand DEF RecentOf, Of
<1>5. commands[c].status # "ended"
  <2> SUFFICES ASSUME commands[c].status = "ended" PROVE FALSE
    OBVIOUS
  <2>1. PICK n \in Of(c, ToSet(feed)) : n.at = commands[c].news /\ n.phase \in EndPhases
    BY <1>4, NewsAreThere
  <2>2. n.by = w /\ n \in ToSet(feed)
    BY <1>4, EventsOfCommand
  <2>3. day \in Nat /\ n.at \in Nat /\ Recent \in Nat
    BY EventsOfCommand, ActivityWindows DEF ActivityInv, ActivityTypes
  <2>4. n \in RecentOf(w)
    BY <1>4, <2>1, <2>2, <2>3 DEF RecentOf
  <2>5. n \in Of(c, RecentOf(w))
    BY <2>4 DEF Of
  <2> QED
    BY <1>1, <2>1, <2>5 DEF Ended
<1> QED
  BY <1>1, <1>4, <1>5

LEMMA CommandsTold == ActivityInv => CommandsAreTrue
<1> SUFFICES ASSUME ActivityInv PROVE CommandsAreTrue
  OBVIOUS
<1>1. ASSUME NEW r \in RunningCommands
      PROVE  commands[r.id].status # "ended" /\ r.by = commands[r.id].by
             /\ r.since >= commands[r.id].since
  <2>1. PICK c \in Commands :
          /\ Of(c, ToSet(feed)) # {} /\ ~Ended(Of(c, ToSet(feed)))
          /\ r.id = c /\ r.by = (CHOOSE e \in Of(c, ToSet(feed)) : TRUE).by
          /\ r.since = Min(Times(Of(c, ToSet(feed))))
    BY DEF RunningCommands
  <2>2. commands[c].status # "ended"
    BY <2>1, NewsAreThere DEF Ended
  <2>3. r.by = commands[c].by
    <3>1. (CHOOSE e \in Of(c, ToSet(feed)) : TRUE) \in Of(c, ToSet(feed))
      BY <2>1
    <3> QED
      BY <2>1, <3>1, EventsOfCommand
  <2>4. r.since >= commands[c].since
    BY <2>1, LatestNews
  <2> QED
    BY <2>1, <2>2, <2>3, <2>4
<1>2. ASSUME NEW c \in Commands, commands[c].status = "running",
             day - commands[c].news <= RunWindow, Of(c, ToSet(feed)) # {}
      PROVE  \E r \in RunningCommands : r.id = c /\ r.news = commands[c].news
  <2>1. ~Ended(Of(c, ToSet(feed)))
    BY <1>2, EventsOfCommand DEF Ended
  <2>2. Max(Times(Of(c, ToSet(feed)))) = commands[c].news
    BY <1>2, LatestNews
  <2> DEFINE r == [id |-> c, by |-> (CHOOSE e \in Of(c, ToSet(feed)) : TRUE).by,
                   since |-> Min(Times(Of(c, ToSet(feed)))), news |-> Max(Times(Of(c, ToSet(feed))))]
  <2>3. r \in RunningCommands
    BY <1>2, <2>1, <2>2 DEF RunningCommands
  <2>4. r.id = c /\ r.news = commands[c].news
    BY <2>2
  <2> QED
    BY <2>3, <2>4
<1>3. ASSUME NEW w \in Workers, NEW s \in AgentCommand(w)
      PROVE  commands[s.id].status # "ended" /\ commands[s.id].by = w
  BY AgentCommandsAreTrue
<1> QED
  BY <1>1, <1>2, <1>3 DEF CommandsAreTrue

LEMMA LongOnesTold == ActivityInv => LongOnesAreTold
<1> SUFFICES ASSUME ActivityInv, NEW w \in Workers, NEW s \in AgentCommand(w),
                    day - commands[s.id].since \in Long..Recent,
                    NEW b \in ToSet(feed), b.id = <<"command", s.id, "started">>
             PROVE  s \in LongCommands(w)
  BY DEF LongOnesAreTold
<1> DEFINE c == s.id
           es == Of(c, RecentOf(w))
           first == {e \in es : e.phase = "started"}
<1>1. /\ c \in Commands /\ commands[c].by = w
      /\ s.since = Min(Times(IF first # {} THEN first ELSE es))
  BY AgentCommandsAreTrue
<1>2. b \in Events /\ EventIsSound(b, commands, touched, day)
  <2>1. PICK i \in DOMAIN feed : b = feed[i]
    BY DEF ToSet
  <2> QED
    BY <2>1 DEF ActivityInv, FeedIsSound, ActivityTypes
<1>3. b.kind = "command" /\ b.id[2] = c /\ b.phase = "started"
  BY <1>2, EventsByKind DEF EventIsSound, Events
<1>4. b.at = commands[c].since /\ b.by = w /\ day - b.at <= Recent
  BY <1>1, <1>2, <1>3 DEF EventIsSound
<1>5. b \in first
  BY <1>3, <1>4 DEF RecentOf, Of
<1>6. Times(first) = {commands[c].since}
  <2>1. RecentOf(w) \in SUBSET ToSet(feed)
    BY DEF RecentOf
  <2>2. \A e \in first : e.at = commands[c].since
    BY <1>1, <2>1, EventsOfCommand
  <2> HIDE DEF first
  <2> QED
    BY <1>5, <2>2 DEF Times
<1>7. commands[c].since \in Nat
  BY <1>1 DEF ActivityInv, ActivityTypes
<1>8. s.since = commands[c].since
  <2>1. Times(first) \in SUBSET Nat /\ Times(first) # {}
    BY <1>6, <1>7
  <2>2. Min(Times(first)) \in Times(first)
    BY <2>1, MinIsLeast
  <2> QED
    BY <1>1, <1>5, <1>6, <2>2
<1>9. day - s.since >= Long
  BY <1>8
<1> QED
  BY <1>9 DEF LongCommands

-----------------------------------------------------------------------------
(* The activity of a project: its hot changes.                             *)

IsChange(e) ==
  /\ e.kind = "fileChange" /\ e.by \in Workers /\ e.path \in Path
  /\ e.at \in Nat /\ e.at <= day
  /\ \E t \in touched : t[1] = e.by /\ t[2] = e.path.file

\* The values of a function on a finite set are finitely many.
LEMMA FiniteValues ==
  ASSUME NEW f, IsFiniteSet(DOMAIN f), f = [x \in DOMAIN f |-> f[x]]
  PROVE  IsFiniteSet({f[x] : x \in DOMAIN f})
<1> DEFINE T == {f[x] : x \in DOMAIN f}
<1>1. f \in [DOMAIN f -> T]
  BY Zenon
<1>2. f \in Surjection(DOMAIN f, T)
  BY <1>1 DEF Surjection
<1> HIDE DEF T
<1>3. IsFiniteSet(T)
  BY <1>2, FS_Surjection
<1> QED
  BY <1>3 DEF T

\* The changes are finitely many, and made by who they say.
LEMMA ChangesAreSound ==
  ASSUME ActivityInv
  PROVE  IsFiniteSet(Changes) /\ \A e \in Changes : IsChange(e) /\ day - e.at <= HotWindow
<1>1. IsFiniteSet(ToSet(feed))
  <2>1. DOMAIN feed = 1..Len(feed) /\ Len(feed) \in Nat /\ feed = [i \in DOMAIN feed |-> feed[i]]
    BY DEF ActivityInv, ActivityTypes
  <2>2. IsFiniteSet(DOMAIN feed)
    BY <2>1, FS_Interval
  <2>3. IsFiniteSet({feed[i] : i \in DOMAIN feed})
    BY <2>1, <2>2, FiniteValues
  <2> QED
    BY <2>3 DEF ToSet
<1> DEFINE Latest(w) ==
             [id |-> <<"latest", w, "updated">>, kind |-> "fileChange", by |-> w, at |-> doing[w].at,
              path |-> doing[w].path, action |-> doing[w].action, phase |-> "updated"]
           all == [w \in Workers |-> Latest(w)]
<1>2. \A e \in Supplements : \E w \in Workers : e = Latest(w) /\ doing[w].path # Nowhere
  BY DEF Supplements
<1>3. IsFiniteSet(Supplements)
  <2>1. DOMAIN all = Workers /\ all = [w \in DOMAIN all |-> all[w]]
    OBVIOUS
  <2>2. IsFiniteSet({all[w] : w \in DOMAIN all})
    <3> HIDE DEF all
    <3> QED
      BY <2>1, WorkersAssumption, FiniteValues
  <2>3. Supplements \subseteq {all[w] : w \in DOMAIN all}
    <3>1. \A w \in Workers : all[w] = Latest(w)
      OBVIOUS
    <3> HIDE DEF all, Latest
    <3> QED
      BY <1>2, <2>1, <3>1
  <2> HIDE DEF all
  <2> QED
    BY <2>2, <2>3, FS_Subset
<1>4. IsFiniteSet(Changes)
  <2>1. IsFiniteSet(ToSet(feed) \union Supplements)
    BY <1>1, <1>3, FS_Union
  <2>2. Changes \subseteq ToSet(feed) \union Supplements
    BY DEF Changes
  <2> QED
    BY <2>1, <2>2, FS_Subset
<1>5. ASSUME NEW e \in Changes PROVE IsChange(e) /\ day - e.at <= HotWindow
  <2>1. e.kind = "fileChange" /\ day - e.at <= HotWindow
    BY DEF Changes
  <2>2. CASE e \in ToSet(feed)
    <3>1. PICK i \in DOMAIN feed : e = feed[i]
      BY <2>2 DEF ToSet
    <3>2. EventIsSound(e, commands, touched, day) /\ e \in Events
      BY <3>1 DEF ActivityInv, FeedIsSound, ActivityTypes
    <3>3. e \in FileEvents
      BY <2>1, <3>2, EventsByKind
    <3>4. e.by \in Workers /\ e.path \in Path /\ e.at \in Nat
      BY <3>3 DEF FileEvents
    <3>5. e.at <= day /\ <<e.by, e.path.file, e.at>> \in touched
      BY <2>1, <3>2 DEF EventIsSound
    <3>6. \E t \in touched : t[1] = e.by /\ t[2] = e.path.file
      BY <3>5
    <3> QED
      BY <2>1, <3>4, <3>5, <3>6 DEF IsChange
  <2>3. CASE e \in Supplements
    <3>1. PICK w \in Workers : e = Latest(w) /\ doing[w].path # Nowhere
      BY <1>2, <2>3
    <3>2. e.by = w /\ e.at = doing[w].at /\ e.path = doing[w].path
      BY <3>1
    <3>3. doing[w].path \in Path /\ doing[w].at \in Nat
      BY <3>1 DEF ActivityInv, ActivityTypes
    <3>4. doing[w].at <= day /\ \E t \in touched : t[1] = w /\ t[2] = doing[w].path.file
      BY <3>1 DEF ActivityInv, WorkIsSound
    <3> HIDE DEF Latest
    <3> QED
      BY <2>1, <3>2, <3>3, <3>4 DEF IsChange
  <2> QED
    BY <2>2, <2>3 DEF Changes
<1> QED
  BY <1>4, <1>5

\* Changes weigh something.
LEMMA WeightsAreNatural ==
  ASSUME NEW es, IsFiniteSet(es)
  PROVE  Weights(es) \in Nat /\ (es # {} => Weights(es) >= 3)
<1> DEFINE Weighing(k) == {e \in es : Weight(e) = k}
<1>1. \A k : IsFiniteSet(Weighing(k)) /\ Cardinality(Weighing(k)) \in Nat
             /\ (Weighing(k) # {} => Cardinality(Weighing(k)) >= 1)
  <2> SUFFICES ASSUME NEW k
               PROVE  IsFiniteSet(Weighing(k)) /\ Cardinality(Weighing(k)) \in Nat
                      /\ (Weighing(k) # {} => Cardinality(Weighing(k)) >= 1)
    OBVIOUS
  <2>1. IsFiniteSet(Weighing(k))
    BY FS_Subset
  <2>2. Cardinality(Weighing(k)) \in Nat
    BY <2>1, FS_CardinalityType
  <2>3. Weighing(k) # {} => Cardinality(Weighing(k)) # 0
    BY <2>1, FS_EmptySet
  <2> QED
    BY <2>1, <2>2, <2>3
<1>2. \A e \in es : Weight(e) \in {3, 4, 6, 7}
  BY DEF Weight
<1>3. es # {} => Weighing(3) # {} \/ Weighing(4) # {} \/ Weighing(6) # {} \/ Weighing(7) # {}
  BY <1>2
<1>4. Weights(es) = 7 * Cardinality(Weighing(7)) + 6 * Cardinality(Weighing(6))
                    + 4 * Cardinality(Weighing(4)) + 3 * Cardinality(Weighing(3))
  BY DEF Weights
<1> HIDE DEF Weighing
<1> QED
  BY <1>1, <1>3, <1>4

IsStep(step, V) == step \in [Nat \X V -> V]
IsSolvable(V, base, step, m) ==
  \E f \in [0..m -> V] : f[0] = base /\ \A n \in 1..m : f[n] = step[<<n, f[n - 1]>>]

\* A recursion over the numbers up to m has a solution: were there a least m
\* without one, the solution for one less would extend to it.
LEMMA RecursionSolved ==
  ASSUME NEW V, NEW base \in V, NEW step, IsStep(step, V), NEW m \in Nat
  PROVE  IsSolvable(V, base, step, m)
<1>0. step \in [Nat \X V -> V]
  BY DEF IsStep
<1> DEFINE Solves(f, k) == /\ f \in [0..k -> V] /\ f[0] = base
                           /\ \A n \in 1..k : f[n] = step[<<n, f[n - 1]>>]
           Without == {k \in Nat : ~ \E f : Solves(f, k)}
<1>1. SUFFICES ASSUME Without # {} PROVE FALSE
  <2>1. \E f : Solves(f, m)
    BY <1>1
  <2> QED
    BY <2>1 DEF IsSolvable
<1>2. PICK k \in Without : \A d \in Without : k <= d
  <2>1. Without \in SUBSET Nat
    OBVIOUS
  <2> HIDE DEF Without
  <2> QED
    BY <1>1, <2>1, LeastNumber
<1>3. k \in Nat /\ ~ \E f : Solves(f, k)
  OBVIOUS
<1>4. CASE k = 0
  <2>1. Solves([n \in 0..0 |-> base], 0)
    OBVIOUS
  <2> QED
    BY <1>3, <1>4, <2>1
<1>5. CASE k # 0
  <2>1. k - 1 \in Nat /\ ~ (k <= k - 1)
    BY <1>3, <1>5
  <2>2. k - 1 \notin Without
    <3> HIDE DEF Without
    <3> QED
      BY <1>2, <2>1
  <2>3. PICK f : Solves(f, k - 1)
    <3> HIDE DEF Solves
    <3> QED
      BY <2>1, <2>2
  <2> DEFINE g == [n \in 0..k |-> IF n = k THEN step[<<k, f[k - 1]>>] ELSE f[n]]
  <2>4. f[k - 1] \in V /\ step[<<k, f[k - 1]>>] \in V
    BY <1>0, <1>3, <2>1, <2>3
  <2>5. \A n \in 0..k : n # k => n \in 0 .. k - 1
    BY <1>3
  <2>6. g \in [0..k -> V]
    BY <2>3, <2>4, <2>5
  <2>7. g[0] = base
    BY <1>3, <1>5, <2>3
  <2>8. \A n \in 1..k : g[n] = step[<<n, g[n - 1]>>]
    <3> SUFFICES ASSUME NEW n \in 1..k PROVE g[n] = step[<<n, g[n - 1]>>]
      OBVIOUS
    <3>1. n - 1 \in 0..k /\ n - 1 # k /\ n \in 0..k
      BY <1>3
    <3>2. g[n - 1] = f[n - 1]
      BY <3>1
    <3>3. g[n] = IF n = k THEN step[<<k, f[k - 1]>>] ELSE f[n]
      BY <3>1
    <3>4. n # k => f[n] = step[<<n, f[n - 1]>>]
      BY <1>3, <2>3
    <3> HIDE DEF g
    <3> QED
      BY <3>2, <3>3, <3>4
  <2> HIDE DEF g
  <2>9. Solves(g, k)
    BY <2>6, <2>7, <2>8
  <2> QED
    BY <1>3, <2>9
<1> QED
  BY <1>4, <1>5

\* The changes of one file are hot at first.
LEMMA HeatIsNatural ==
  ASSUME NEW es, IsFiniteSet(es)
  PROVE  Heat(es) \in Nat /\ ((\E e \in es : day - e.at = 0) => Heat(es) >= 300)
<1> DEFINE Aged(age) == 100 * Weights({e \in es : day - e.at = age})
           Older(n, heat) == IF (HotWindow - n + 1) % HalfLife = 0 THEN heat \div 2 ELSE heat
           step == [x \in Nat \X Nat |-> Aged(HotWindow - x[1]) + Older(x[1], x[2])]
           Is(h) == h = [n \in 0..HotWindow |->
                           IF n = 0 THEN Aged(HotWindow)
                           ELSE Aged(HotWindow - n) + Older(n, h[n - 1])]
<1>1. \A age : Aged(age) \in Nat
               /\ ({e \in es : day - e.at = age} # {} => Aged(age) >= 300)
  <2> SUFFICES ASSUME NEW age
               PROVE  Aged(age) \in Nat /\ ({e \in es : day - e.at = age} # {} => Aged(age) >= 300)
    OBVIOUS
  <2>1. IsFiniteSet({e \in es : day - e.at = age})
    BY FS_Subset
  <2>2. /\ Weights({e \in es : day - e.at = age}) \in Nat
        /\ {e \in es : day - e.at = age} # {} => Weights({e \in es : day - e.at = age}) >= 3
    BY <2>1, WeightsAreNatural
  <2> QED
    BY <2>2
<1>2. \A n, heat \in Nat : Older(n, heat) \in Nat
  OBVIOUS
<1>3. HotWindow \in Nat
  BY ActivityWindows
<1> HIDE DEF Aged
<1>4. step \in [Nat \X Nat -> Nat]
  <2>1. \A n, heat \in Nat : Aged(HotWindow - n) + Older(n, heat) \in Nat
    BY <1>1, <1>2
  <2> QED
    BY <2>1
<1>5. PICK f \in [0..HotWindow -> Nat] :
        f[0] = Aged(HotWindow) /\ \A n \in 1..HotWindow : f[n] = step[<<n, f[n - 1]>>]
  <2>1. Aged(HotWindow) \in Nat
    BY <1>1
  <2>2. IsStep(step, Nat)
    BY <1>4 DEF IsStep
  <2> HIDE DEF step
  <2>3. IsSolvable(Nat, Aged(HotWindow), step, HotWindow)
    BY <1>3, <2>1, <2>2, RecursionSolved
  <2> QED
    BY <2>3 DEF IsSolvable
<1>6. Heat(es) = (CHOOSE h : Is(h))[HotWindow]
  BY DEF Heat, Aged
<1> HIDE DEF Older
<1>7. \A n \in 1..HotWindow : f[n] = Aged(HotWindow - n) + Older(n, f[n - 1])
  <2>1. \A n, heat \in Nat : step[<<n, heat>>] = Aged(HotWindow - n) + Older(n, heat)
    OBVIOUS
  <2>2. \A n \in 1..HotWindow : n \in Nat /\ f[n - 1] \in Nat
    BY <1>3, <1>5
  <2> HIDE DEF step
  <2> QED
    BY <1>5, <2>1, <2>2
<1>8. Is(f)
  BY <1>5, <1>7
<1>9. PICK h : h = (CHOOSE g : Is(g))
  OBVIOUS
<1>10. Is(h)
  <2> HIDE DEF Is
  <2> QED
    BY <1>8, <1>9
<1>11. /\ h[0] = Aged(HotWindow)
       /\ \A n \in 1..HotWindow : h[n] = Aged(HotWindow - n) + Older(n, h[n - 1])
  BY <1>3, <1>10
<1>12. \A n \in 0..HotWindow : h[n] = f[n]
  <2> DEFINE Off == {n \in 0..HotWindow : h[n] # f[n]}
  <2>1. SUFFICES ASSUME Off # {} PROVE FALSE
    OBVIOUS
  <2>2. PICK n \in Off : \A d \in Off : n <= d
    <3>1. Off \in SUBSET Nat
      BY <1>3
    <3> HIDE DEF Off
    <3> QED
      BY <2>1, <3>1, LeastNumber
  <2>3. n # 0 /\ n \in 1..HotWindow
    BY <1>3, <1>5, <1>11
  <2>4. n - 1 \in 0..HotWindow /\ ~ (n <= n - 1)
    BY <1>3, <2>3
  <2>5. h[n - 1] = f[n - 1]
    BY <2>2, <2>4
  <2> QED
    BY <1>7, <1>11, <2>3, <2>5
<1>13. Heat(es) = f[HotWindow]
  BY <1>3, <1>6, <1>9, <1>12
<1>4a. f[HotWindow] >= Aged(0)
  <2>1. CASE HotWindow = 0
    BY <1>1, <1>5, <2>1
  <2>2. CASE HotWindow # 0
    <3>1. HotWindow \in 1..HotWindow /\ HotWindow - 1 \in 0..HotWindow /\ HotWindow - HotWindow = 0
      BY <1>3, <2>2
    <3>2. f[HotWindow] = Aged(0) + Older(HotWindow, f[HotWindow - 1])
      BY <1>7, <3>1
    <3>3. Older(HotWindow, f[HotWindow - 1]) \in Nat
      BY <1>2, <1>3, <1>5, <3>1
    <3> QED
      BY <1>1, <3>2, <3>3
  <2> QED
    BY <2>1, <2>2
<1>15. f[HotWindow] \in Nat
  BY <1>3, <1>5
<1>16. ASSUME NEW e \in es, day - e.at = 0 PROVE Heat(es) >= 300
  <2>1. Aged(0) >= 300 /\ Aged(0) \in Nat
    BY <1>1, <1>16
  <2> QED
    BY <1>13, <1>4a, <1>15, <2>1
<1> QED
  BY <1>13, <1>15, <1>16

\* What is hot at 300 with something for each change more is not below 120.
LEMMA ScaledHeat ==
  ASSUME NEW heat \in Nat, NEW more \in Nat
  PROVE  /\ (heat * (100 + more)) \div 100 \in Nat
         /\ heat >= 300 => (heat * (100 + more)) \div 100 >= 120
<1>1. heat * (100 + more) = 100 * heat + heat * more
  OBVIOUS
<1>2. heat * more \in Nat
  OBVIOUS
<1>3. heat * (100 + more) \in Nat /\ heat * (100 + more) >= 100 * heat
  BY <1>1, <1>2
<1> DEFINE scaled == heat * (100 + more)
<1>4. scaled \in Nat /\ (heat >= 300 => scaled >= 30000)
  BY <1>3
<1> HIDE DEF scaled
<1>5. scaled \div 100 \in Nat /\ (scaled >= 30000 => scaled \div 100 >= 120)
  BY <1>4
<1> QED
  BY <1>4, <1>5 DEF scaled

\* The scores of the paths that were changed, and the times of their changes.
LEMMA ScoresAreNatural ==
  ASSUME ActivityInv, NEW p \in {e.path : e \in Changes}
  PROVE  /\ p \in Path /\ Score(Changes, p) \in Nat /\ LatestChange(Changes, p) \in Nat
         /\ (\E e \in Changes : e.path = p /\ day - e.at = 0) => Score(Changes, p) >= 120
<1> DEFINE es == ChangesOf(Changes, p)
           n == Cardinality(es)
           more == Min({80, 12 * (n - 1)})
<1>1. es \subseteq Changes /\ es # {} /\ \A e \in es : IsChange(e) /\ e.path = p
  BY ChangesAreSound DEF ChangesOf
<1>2. p \in Path
  BY <1>1 DEF IsChange
<1>3. IsFiniteSet(es)
  BY <1>1, ChangesAreSound, FS_Subset
<1>4. n \in Nat /\ n >= 1
  <2>1. n \in Nat /\ n # 0
    BY <1>1, <1>3, FS_CardinalityType, FS_EmptySet
  <2> QED
    BY <2>1
<1> HIDE DEF n
<1>5. more \in Nat
  <2> DEFINE again == 12 * (n - 1)
  <2>1. again \in Nat
    BY <1>4
  <2> HIDE DEF again
  <2>2. Min({80, again}) \in Nat
    BY <2>1, OfTwo
  <2> QED
    BY <2>2 DEF again
<1>6. Score(Changes, p) = (Heat(es) * (100 + more)) \div 100
  BY DEF Score, n
<1> HIDE DEF more
<1>7. Heat(es) \in Nat /\ ((\E e \in es : day - e.at = 0) => Heat(es) >= 300)
  BY <1>3, HeatIsNatural
<1>8. Score(Changes, p) \in Nat /\ (Heat(es) >= 300 => Score(Changes, p) >= 120)
  BY <1>5, <1>6, <1>7, ScaledHeat
<1>9. ASSUME NEW e \in Changes, e.path = p, day - e.at = 0 PROVE Score(Changes, p) >= 120
  <2>1. e \in es
    BY <1>9 DEF ChangesOf
  <2> QED
    BY <1>7, <1>8, <1>9, <2>1
<1>10. LatestChange(Changes, p) \in Nat
  <2> DEFINE times == {e.at : e \in es}
  <2>1. times \in SUBSET Nat /\ times # {} /\ \A t \in times : t <= day
    BY <1>1 DEF IsChange
  <2>2. day \in Nat
    BY DEF ActivityInv, ActivityTypes
  <2>3. LatestChange(Changes, p) = Max(times)
    BY DEF LatestChange
  <2> HIDE DEF times
  <2>4. Max(times) \in times
    BY <2>1, <2>2, MaxIsGreatest
  <2> QED
    BY <2>1, <2>3, <2>4
<1> QED
  BY <1>2, <1>8, <1>9, <1>10

\* The hot paths are in a strict order.
LEMMA HotterIsAnOrder ==
  ASSUME ActivityInv
  PROVE  /\ \A p \in HotPaths(Changes) : ~ Hotter(Changes, p, p)
         /\ \A p, q, r \in HotPaths(Changes) :
              Hotter(Changes, p, q) /\ Hotter(Changes, q, r) => Hotter(Changes, p, r)
         /\ \A p, q \in HotPaths(Changes) :
              p = q \/ Hotter(Changes, p, q) \/ Hotter(Changes, q, p)
<1> DEFINE hot == HotPaths(Changes)
           score(p) == Score(Changes, p) \div 10
           latest(p) == LatestChange(Changes, p)
           spelled(p, q) == (p.absolute /\ ~q.absolute) \/ (p.absolute = q.absolute /\ p.file < q.file)
<1>1. \A p \in hot : /\ score(p) \in Nat /\ latest(p) \in Nat
                     /\ p.file \in Nat /\ p.absolute \in BOOLEAN
                     /\ p = [file |-> p.file, absolute |-> p.absolute]
  <2> SUFFICES ASSUME NEW p \in hot
               PROVE  /\ score(p) \in Nat /\ latest(p) \in Nat
                      /\ p.file \in Nat /\ p.absolute \in BOOLEAN
                      /\ p = [file |-> p.file, absolute |-> p.absolute]
    OBVIOUS
  <2>1. p \in Path /\ Score(Changes, p) \in Nat /\ latest(p) \in Nat
    BY ScoresAreNatural DEF HotPaths
  <2>2. score(p) \in Nat
    BY <2>1
  <2>3. p.file \in Nat /\ p.absolute \in BOOLEAN /\ p = [file |-> p.file, absolute |-> p.absolute]
    <3>1. DOMAIN Tree \subseteq Nat
      BY TreeAssumption
    <3> QED
      BY <2>1, <3>1 DEF Path
  <2> QED
    BY <2>1, <2>2, <2>3
<1>2. \A p, q : Hotter(Changes, p, q) <=>
        \/ score(p) > score(q)
        \/ score(p) = score(q) /\ latest(p) > latest(q)
        \/ score(p) = score(q) /\ latest(p) = latest(q) /\ spelled(p, q)
  BY Zenon DEF Hotter
<1>3. \A p \in hot : ~ spelled(p, p)
  BY <1>1
<1>4. \A p, q, r \in hot : spelled(p, q) /\ spelled(q, r) => spelled(p, r)
  BY <1>1
<1>5. \A p, q \in hot : p = q \/ spelled(p, q) \/ spelled(q, p)
  <2> SUFFICES ASSUME NEW p \in hot, NEW q \in hot, ~ spelled(p, q), ~ spelled(q, p) PROVE p = q
    OBVIOUS
  <2>1. p.absolute = q.absolute /\ p.file = q.file
    BY <1>1
  <2> QED
    BY <1>1, <2>1
<1> HIDE DEF score, latest, spelled, hot
<1>6. \A p \in hot : ~ Hotter(Changes, p, p)
  BY <1>1, <1>2, <1>3
<1>7. \A p, q, r \in hot : Hotter(Changes, p, q) /\ Hotter(Changes, q, r) => Hotter(Changes, p, r)
  BY <1>1, <1>2, <1>4
<1>8. \A p, q \in hot : p = q \/ Hotter(Changes, p, q) \/ Hotter(Changes, q, p)
  BY <1>1, <1>2, <1>5
<1> QED
  BY <1>6, <1>7, <1>8 DEF hot

LEMMA PathsAreFinite == IsFiniteSet(Path)
<1> DEFINE m == Len(Tree)
           f == [p \in Path |-> IF p.absolute THEN m + p.file ELSE p.file]
<1>1. m \in Nat /\ DOMAIN Tree = 1..m
  BY TreeAssumption
<1>2. \A p \in Path : p.file \in 1..m /\ p.absolute \in BOOLEAN
                      /\ p = [file |-> p.file, absolute |-> p.absolute]
  BY <1>1 DEF Path
<1>3. f \in [Path -> 1..(m + m)]
  BY <1>1, <1>2
<1>4. \A p, q \in Path : f[p] = f[q] => p = q
  <2> SUFFICES ASSUME NEW p \in Path, NEW q \in Path, f[p] = f[q] PROVE p = q
    OBVIOUS
  <2>1. p.file = q.file /\ p.absolute = q.absolute
    BY <1>1, <1>2
  <2> QED
    BY <1>2, <2>1
<1> HIDE DEF f
<1>5. f \in Injection(Path, 1..(m + m))
  BY <1>3, <1>4 DEF Injection, IsInjective
<1>6. IsFiniteSet(1..(m + m))
  BY <1>1, FS_Interval
<1> QED
  BY <1>5, <1>6, FS_Injection

\* The hot paths are ranked, each once.
LEMMA RankedAreTheHot ==
  ASSUME ActivityInv
  PROVE  /\ HotPaths(Changes) \subseteq Path /\ Len(Ranked(Changes)) \in Nat
         /\ DOMAIN Ranked(Changes) = 1..Len(Ranked(Changes))
         /\ \A i \in DOMAIN Ranked(Changes) : Ranked(Changes)[i] \in HotPaths(Changes)
         /\ \A p \in HotPaths(Changes) : \E i \in DOMAIN Ranked(Changes) : Ranked(Changes)[i] = p
<1> DEFINE hot == HotPaths(Changes)
           n == Cardinality(hot)
           hotter(p) == {q \in hot : Hotter(Changes, q, p)}
           rank(p) == Cardinality(hotter(p))
<1>1. /\ \A p \in hot : ~ Hotter(Changes, p, p)
      /\ \A p, q, r \in hot : Hotter(Changes, p, q) /\ Hotter(Changes, q, r) => Hotter(Changes, p, r)
      /\ \A p, q \in hot : p = q \/ Hotter(Changes, p, q) \/ Hotter(Changes, q, p)
  BY HotterIsAnOrder
<1>2. hot \subseteq Path
  BY ScoresAreNatural DEF HotPaths
<1>3. Ranked(Changes) = [i \in 1..n |-> CHOOSE p \in hot : rank(p) = i - 1]
  BY DEF Ranked
<1> HIDE DEF hot
<1>4. IsFiniteSet(hot) /\ n \in Nat
  BY <1>2, PathsAreFinite, FS_Subset, FS_CardinalityType
<1>4a. ASSUME NEW p \in hot PROVE IsFiniteSet(hotter(p))
  BY <1>4, FS_Subset
<1>5. \A p \in hot : rank(p) \in Nat
  <2> SUFFICES ASSUME NEW p \in hot PROVE rank(p) \in Nat
    OBVIOUS
  <2>1. IsFiniteSet(hotter(p))
    BY <1>4a
  <2> HIDE DEF hotter
  <2> QED
    BY <2>1, FS_CardinalityType
<1>6. \A p \in hot : rank(p) + 1 \in 1..n
  <2> SUFFICES ASSUME NEW p \in hot PROVE rank(p) + 1 \in 1..n
    OBVIOUS
  <2>1. hotter(p) \subseteq hot \ {p}
    BY <1>1
  <2>2. IsFiniteSet(hot \ {p}) /\ Cardinality(hot \ {p}) = n - 1
    BY <1>4, FS_RemoveElement
  <2>3. rank(p) <= n - 1
    <3> HIDE DEF hotter
    <3> QED
      BY <2>1, <2>2, FS_Subset
  <2> HIDE DEF rank, n
  <2> QED
    BY <1>4, <1>5, <2>3
<1>7. \A p, q \in hot : Hotter(Changes, p, q) => rank(p) < rank(q)
  <2> SUFFICES ASSUME NEW p \in hot, NEW q \in hot, Hotter(Changes, p, q)
               PROVE  rank(p) < rank(q)
    OBVIOUS
  <2>1. hotter(p) \union {p} \subseteq hotter(q) /\ p \notin hotter(p)
    BY <1>1
  <2>2. Cardinality(hotter(p) \union {p}) = rank(p) + 1
    <3> HIDE DEF hotter
    <3> QED
      BY <1>4a, <2>1, FS_AddElement
  <2>3. Cardinality(hotter(p) \union {p}) <= rank(q)
    <3> HIDE DEF hotter
    <3> QED
      BY <1>4a, <2>1, FS_Subset
  <2> HIDE DEF rank
  <2> QED
    BY <1>5, <2>2, <2>3
<1>8. \A p, q \in hot : rank(p) = rank(q) => p = q
  <2> HIDE DEF rank
  <2> QED
    BY <1>1, <1>5, <1>7
<1> DEFINE place == [p \in hot |-> rank(p) + 1]
<1> HIDE DEF rank, n
<1>9. place \in [hot -> 1..n] /\ \A p, q \in hot : place[p] = place[q] => p = q
  BY <1>5, <1>6, <1>8
<1>10. \A i \in 1..n : \E p \in hot : place[p] = i
  <2> HIDE DEF place
  <2>1. place \in Injection(hot, 1..n)
    BY <1>9 DEF Injection, IsInjective
  <2>2. IsFiniteSet(1..n) /\ Cardinality(1..n) = n
    BY <1>4, FS_Interval
  <2>3. place \in Surjection(hot, 1..n)
    BY <2>1, <2>2, FS_Injection DEF n
  <2> QED
    BY <2>3 DEF Surjection
<1>11. \A i \in 1..n : Ranked(Changes)[i] \in hot /\ rank(Ranked(Changes)[i]) = i - 1
  <2> SUFFICES ASSUME NEW i \in 1..n
               PROVE  Ranked(Changes)[i] \in hot /\ rank(Ranked(Changes)[i]) = i - 1
    OBVIOUS
  <2>1. PICK p \in hot : place[p] = i
    BY <1>10
  <2>2. rank(p) = i - 1
    BY <1>5, <2>1
  <2>3. \E q \in hot : rank(q) = i - 1
    BY <2>2
  <2>4. Ranked(Changes)[i] = CHOOSE q \in hot : rank(q) = i - 1
    BY <1>3
  <2> QED
    BY <2>3, <2>4
<1>12. Len(Ranked(Changes)) = n /\ DOMAIN Ranked(Changes) = 1..n
  BY <1>3, <1>4
<1>13. ASSUME NEW p \in hot PROVE \E i \in 1..n : Ranked(Changes)[i] = p
  <2>1. rank(p) + 1 \in 1..n /\ rank(p) \in Nat
    BY <1>5, <1>6
  <2>2. Ranked(Changes)[rank(p) + 1] \in hot /\ rank(Ranked(Changes)[rank(p) + 1]) = rank(p)
    BY <1>11, <2>1
  <2> QED
    BY <1>8, <2>1, <2>2
<1> QED
  BY <1>2, <1>4, <1>11, <1>12, <1>13 DEF hot

Row == [path : Path, typed : BOOLEAN, agents : SUBSET Workers]

\* What is offered to the board: what is hot, and then git's files.
LEMMA OffersAreSound ==
  ASSUME ActivityInv
  PROVE  /\ Len(Offers(Changes)) \in Nat /\ DOMAIN Offers(Changes) = 1..Len(Offers(Changes))
         /\ \A k \in DOMAIN Offers(Changes) :
              /\ Offers(Changes)[k].path \in Path
              /\ RowFor(Changes, Offers(Changes)[k]) \in Row
              /\ Offers(Changes)[k].pass # "hot" =>
                   /\ ~ Offers(Changes)[k].path.absolute
                   /\ \A j \in k..Len(Offers(Changes)) : Offers(Changes)[j].pass # "hot"
         /\ \A p \in HotPaths(Changes) : \E k \in DOMAIN Offers(Changes) :
              Offers(Changes)[k].path = p /\ Offers(Changes)[k].pass = "hot"
<1> DEFINE offers == Offers(Changes)
           ranked == Ranked(Changes)
           n == Len(ranked)
           m == Len(Tree)
<1>1. offers = [i \in 1..(n + m + m) |->
        IF i <= n THEN [path |-> ranked[i], pass |-> "hot"]
        ELSE IF i <= n + m THEN [path |-> InProject(i - n), pass |-> "first"]
        ELSE [path |-> InProject(i - n - m), pass |-> "rest"]]
  BY DEF Offers
<1>2. /\ n \in Nat /\ DOMAIN ranked = 1..n /\ \A i \in 1..n : ranked[i] \in Path
      /\ \A p \in HotPaths(Changes) : \E i \in 1..n : ranked[i] = p
  BY RankedAreTheHot
<1>3. m \in Nat /\ DOMAIN Tree = 1..m
  BY TreeAssumption
<1>4. \A i \in DOMAIN Tree : InProject(i) \in Path /\ ~ InProject(i).absolute
  BY DEF InProject, Path
<1> HIDE DEF offers, ranked, n, m
<1>5. DOMAIN offers = 1..(n + m + m) /\ Len(offers) = n + m + m
  BY <1>1, <1>2, <1>3
<1>6. \A k \in 1..n : offers[k].path = ranked[k] /\ offers[k].pass = "hot"
  BY <1>1, <1>2, <1>3
<1>7. \A k \in 1..(n + m + m) : ~ (k <= n) =>
        /\ offers[k].path \in Path /\ ~ offers[k].path.absolute /\ offers[k].pass # "hot"
  <2> SUFFICES ASSUME NEW k \in 1..(n + m + m), ~ (k <= n)
               PROVE  /\ offers[k].path \in Path /\ ~ offers[k].path.absolute
                      /\ offers[k].pass # "hot"
    OBVIOUS
  <2>1. CASE k <= n + m
    <3>1. k - n \in DOMAIN Tree
      BY <1>2, <1>3, <2>1
    <3>2. offers[k] = [path |-> InProject(k - n), pass |-> "first"]
      BY <1>1, <2>1
    <3> QED
      BY <1>4, <3>1, <3>2
  <2>2. CASE ~ (k <= n + m)
    <3>1. k - n - m \in DOMAIN Tree
      BY <1>2, <1>3, <2>2
    <3>2. offers[k] = [path |-> InProject(k - n - m), pass |-> "rest"]
      BY <1>1, <2>2
    <3> QED
      BY <1>4, <3>1, <3>2
  <2> QED
    BY <2>1, <2>2
<1>8. \A k \in 1..(n + m + m) :
        offers[k].path \in Path /\ (offers[k].pass # "hot" => ~ (k <= n) /\ ~ offers[k].path.absolute)
  BY <1>2, <1>3, <1>6, <1>7
<1>9. \A k \in 1..(n + m + m) : offers[k].pass # "hot" =>
        \A j \in k..(n + m + m) : offers[j].pass # "hot"
  BY <1>2, <1>3, <1>7, <1>8
<1>10. ASSUME NEW k \in DOMAIN offers PROVE RowFor(Changes, offers[k]) \in Row
  <2>1. \A e \in Changes : e.by \in Workers
    BY ChangesAreSound DEF IsChange
  <2>2. {e.by : e \in ChangesOf(Changes, offers[k].path)} \subseteq Workers
    BY <2>1 DEF ChangesOf
  <2>3. offers[k].path \in Path
    BY <1>5, <1>8
  <2> QED
    BY <2>2, <2>3 DEF RowFor, Row
<1>11. ASSUME NEW p \in HotPaths(Changes)
       PROVE  \E k \in DOMAIN offers : offers[k].path = p /\ offers[k].pass = "hot"
  <2>1. PICK i \in 1..n : ranked[i] = p
    BY <1>2
  <2>2. i \in DOMAIN offers
    BY <1>2, <1>3, <1>5
  <2> QED
    BY <1>6, <2>1, <2>2
<1> QED
  BY <1>2, <1>3, <1>5, <1>8, <1>9, <1>10, <1>11 DEF offers

\* The board is built of the offers, one after the other.
LEMMA BoardIsBuilt ==
  ASSUME ActivityInv
  PROVE  \E f \in [0..Len(Offers(Changes)) -> Seq(Row)] :
           /\ f[0] = <<>> /\ f[Len(Offers(Changes))] = HotChanges(Changes)
           /\ \A k \in 1..Len(Offers(Changes)) :
                f[k] = IF Takes(f[k - 1], Offers(Changes)[k])
                       THEN Append(f[k - 1], RowFor(Changes, Offers(Changes)[k])) ELSE f[k - 1]
<1> DEFINE offers == Offers(Changes)
           m == Len(offers)
           V == Seq(Row)
           With(rows, k) == IF Takes(rows, offers[k])
                            THEN Append(rows, RowFor(Changes, offers[k])) ELSE rows
           step == [x \in Nat \X V |-> IF x[1] \in 1..m THEN With(x[2], x[1]) ELSE x[2]]
           Is(h) == h = [n \in 0..m |-> IF n = 0 THEN <<>> ELSE With(h[n - 1], n)]
<1>1. m \in Nat /\ \A k \in 1..m : RowFor(Changes, offers[k]) \in Row
  BY OffersAreSound
<1>2. HotChanges(Changes) = (CHOOSE h : Is(h))[m]
  BY DEF HotChanges
<1> HIDE DEF m, offers
<1>3. <<>> \in V
  OBVIOUS
<1>4. \A rows \in V : \A k \in 1..m : With(rows, k) \in V
  BY <1>1
<1> HIDE DEF With, V
<1>5. step \in [Nat \X V -> V]
  BY <1>4
<1>6. PICK f \in [0..m -> V] : f[0] = <<>> /\ \A n \in 1..m : f[n] = step[<<n, f[n - 1]>>]
  <2>1. IsStep(step, V)
    BY <1>5 DEF IsStep
  <2> HIDE DEF step
  <2>2. IsSolvable(V, <<>>, step, m)
    BY <1>1, <1>3, <2>1, RecursionSolved
  <2> QED
    BY <2>2 DEF IsSolvable
<1>7. \A n \in 1..m : f[n] = With(f[n - 1], n)
  <2>1. \A n \in 1..m : \A rows \in V : step[<<n, rows>>] = With(rows, n)
    BY <1>1
  <2>2. \A n \in 1..m : f[n - 1] \in V
    BY <1>1, <1>6
  <2> HIDE DEF step
  <2> QED
    BY <1>6, <2>1, <2>2
<1>8. Is(f)
  BY <1>6, <1>7
<1>9. PICK h : h = (CHOOSE g : Is(g))
  OBVIOUS
<1>10. Is(h)
  <2> HIDE DEF Is
  <2> QED
    BY <1>8, <1>9
<1>11. h[0] = <<>> /\ \A n \in 1..m : h[n] = With(h[n - 1], n)
  BY <1>1, <1>10
<1>12. \A n \in 0..m : h[n] = f[n]
  <2> DEFINE Off == {n \in 0..m : h[n] # f[n]}
  <2>1. SUFFICES ASSUME Off # {} PROVE FALSE
    OBVIOUS
  <2>2. PICK n \in Off : \A d \in Off : n <= d
    <3>1. Off \in SUBSET Nat
      BY <1>1
    <3> HIDE DEF Off
    <3> QED
      BY <2>1, <3>1, LeastNumber
  <2>3. n # 0 /\ n \in 1..m
    BY <1>1, <1>6, <1>11
  <2>4. n - 1 \in 0..m /\ ~ (n <= n - 1)
    BY <1>1, <2>3
  <2>5. h[n - 1] = f[n - 1]
    BY <2>2, <2>4
  <2> QED
    BY <1>7, <1>11, <2>3, <2>5
<1>13. HotChanges(Changes) = f[m]
  BY <1>1, <1>2, <1>9, <1>12
<1> QED
  BY <1>6, <1>7, <1>13 DEF With, V, m, offers

\* A path of the project ends as it does.
LEMMA SpelledMatches ==
  ASSUME NEW p \in Path, NEW q \in Path, ~ q.absolute, SameFile(p, q)
  PROVE  Matches(p, q)
<1>1. p.file = q.file /\ p.absolute \in BOOLEAN /\ q.absolute \in BOOLEAN
      /\ p = [file |-> p.file, absolute |-> p.absolute]
      /\ q = [file |-> q.file, absolute |-> q.absolute] /\ p.file \in DOMAIN Tree
  BY DEF SameFile, Path
<1>2. CASE ~ p.absolute
  BY <1>1, <1>2 DEF Matches
<1>3. CASE p.absolute
  <2> DEFINE s == Tree[p.file].path
  <2>1. s \in Seq(STRING)
    <3> DEFINE File == [path : Seq(STRING), family : STRING]
    <3>1. Tree \in Seq(File)
      BY TreeAssumption
    <3> HIDE DEF File
    <3>2. Tree[p.file] \in File
      BY <1>1, <3>1
    <3> QED
      BY <3>2 DEF File
  <2> HIDE DEF s
  <2>2. IsSuffix(s, s)
    <3>1. IsPrefix(Reverse(s), Reverse(s))
      <4>1. Reverse(s) = [i \in 1..Len(s) |-> s[(Len(s) - i) + 1]]
        BY DEF Reverse
      <4>2. Len(Reverse(s)) = Len(s) /\ Len(s) \in Nat
        BY <2>1, <4>1
      <4> QED
        BY <4>2 DEF IsPrefix
    <3> QED
      BY <3>1 DEF IsSuffix
  <2> QED
    BY <1>1, <1>3, <2>2 DEF Matches, EndsIn, s
<1> QED
  BY <1>1, <1>2, <1>3

\* What does not fit on a board fits no better on a longer one.
LEMMA BoardsFill ==
  ASSUME NEW rows \in Seq(Row), NEW r \in Row, NEW p \in Path, Fits(Append(rows, r), p)
  PROVE  Fits(rows, p)
<1> DEFINE longer == Append(rows, r)
           Kin(rs) == {i \in DOMAIN rs : Tree[rs[i].path.file].family = Tree[p.file].family}
<1>1. /\ longer \in Seq(Row) /\ Len(longer) = Len(rows) + 1 /\ Len(rows) \in Nat
      /\ DOMAIN rows = 1..Len(rows) /\ DOMAIN longer = 1..(Len(rows) + 1)
      /\ \A i \in DOMAIN rows : longer[i] = rows[i]
  BY DEF Row
<1>2. \A rs \in Seq(Row) : IsFiniteSet(Kin(rs)) /\ OfFamily(rs, p) = Cardinality(Kin(rs))
                           /\ OfFamily(rs, p) \in Nat
  <2> SUFFICES ASSUME NEW rs \in Seq(Row)
               PROVE  IsFiniteSet(Kin(rs)) /\ OfFamily(rs, p) = Cardinality(Kin(rs))
                      /\ OfFamily(rs, p) \in Nat
    OBVIOUS
  <2>1. DOMAIN rs = 1..Len(rs) /\ Len(rs) \in Nat
    OBVIOUS
  <2>2. IsFiniteSet(Kin(rs))
    <3>1. IsFiniteSet(DOMAIN rs) /\ Kin(rs) \subseteq DOMAIN rs
      BY <2>1, FS_Interval
    <3> HIDE DEF Kin
    <3> QED
      BY <3>1, FS_Subset
  <2>3. OfFamily(rs, p) = Cardinality(Kin(rs))
    BY DEF OfFamily
  <2> HIDE DEF Kin
  <2> QED
    BY <2>2, <2>3, FS_CardinalityType
<1> HIDE DEF longer
<1>3. Kin(rows) \subseteq Kin(longer)
  BY <1>1
<1> HIDE DEF Kin
<1>4. OfFamily(rows, p) <= OfFamily(longer, p)
  <2>1. IsFiniteSet(Kin(longer)) /\ Kin(rows) \in SUBSET Kin(longer)
    BY <1>1, <1>2, <1>3
  <2>2. Cardinality(Kin(rows)) <= Cardinality(Kin(longer))
    BY <2>1, FS_Subset
  <2> QED
    BY <1>1, <1>2, <2>2
<1>5. Len(longer) < MaxHot /\ OfFamily(longer, p) < MaxPerFamily
  BY DEF Fits, longer
<1>6. OfFamily(rows, p) \in Nat /\ OfFamily(longer, p) \in Nat /\ MaxHot \in Nat /\ MaxPerFamily \in Nat
  BY <1>1, <1>2, ActivityLimits
<1> QED
  BY <1>1, <1>4, <1>5, <1>6 DEF Fits

\* After k offers: whose rows there are, that only hot ones are of one file,
\* and that what was hot has its row when it would fit still.
BoardIsSound(rows, k) ==
  /\ \A i \in DOMAIN rows : \E j \in 1..k : rows[i] = RowFor(Changes, Offers(Changes)[j])
  /\ \A i, j \in DOMAIN rows :
       i # j /\ SameFile(rows[i].path, rows[j].path) => rows[i].typed /\ rows[j].typed
  /\ \A j \in 1..k : Offers(Changes)[j].pass = "hot" =>
       \/ \E i \in DOMAIN rows : rows[i] = RowFor(Changes, Offers(Changes)[j])
       \/ ~ Fits(rows, Offers(Changes)[j].path)

LEMMA BoardStaysSound ==
  ASSUME ActivityInv, NEW k \in 1..Len(Offers(Changes)), NEW rows \in Seq(Row),
         BoardIsSound(rows, k - 1), NEW longer,
         longer = IF Takes(rows, Offers(Changes)[k])
                  THEN Append(rows, RowFor(Changes, Offers(Changes)[k])) ELSE rows
  PROVE  BoardIsSound(longer, k)
<1> DEFINE offers == Offers(Changes)
           r == RowFor(Changes, offers[k])
<1>1. /\ Len(offers) \in Nat
      /\ \A j \in 1..Len(offers) :
           /\ offers[j].path \in Path /\ RowFor(Changes, offers[j]) \in Row
           /\ offers[j].pass # "hot" =>
                /\ ~ offers[j].path.absolute
                /\ \A i \in j..Len(offers) : offers[i].pass # "hot"
  BY OffersAreSound
<1>2. /\ \A i \in DOMAIN rows : \E j \in 1..(k - 1) : rows[i] = RowFor(Changes, offers[j])
      /\ \A i, j \in DOMAIN rows :
           i # j /\ SameFile(rows[i].path, rows[j].path) => rows[i].typed /\ rows[j].typed
      /\ \A j \in 1..(k - 1) : offers[j].pass = "hot" =>
           \/ \E i \in DOMAIN rows : rows[i] = RowFor(Changes, offers[j])
           \/ ~ Fits(rows, offers[j].path)
  BY DEF BoardIsSound
<1>3. longer = IF Takes(rows, offers[k]) THEN Append(rows, r) ELSE rows
  OBVIOUS
<1>4. \A j : /\ RowFor(Changes, offers[j]).path = offers[j].path
             /\ RowFor(Changes, offers[j]).typed = (offers[j].pass = "hot")
  BY DEF RowFor
<1>5. BoardIsSound(longer, k) <=>
        /\ \A i \in DOMAIN longer : \E j \in 1..k : longer[i] = RowFor(Changes, offers[j])
        /\ \A i, j \in DOMAIN longer :
             i # j /\ SameFile(longer[i].path, longer[j].path) => longer[i].typed /\ longer[j].typed
        /\ \A j \in 1..k : offers[j].pass = "hot" =>
             \/ \E i \in DOMAIN longer : longer[i] = RowFor(Changes, offers[j])
             \/ ~ Fits(longer, offers[j].path)
  BY DEF BoardIsSound
<1> HIDE DEF offers
<1>6. k \in 1..Len(offers) /\ k \in Nat /\ \A j \in 1..k : j # k => j \in 1..(k - 1)
  BY <1>1 DEF offers
<1>7. CASE Takes(rows, offers[k])
  <2>1. longer = Append(rows, r) /\ r \in Row
    BY <1>1, <1>3, <1>6, <1>7
  <2>2. /\ Len(rows) \in Nat /\ DOMAIN rows = 1..Len(rows)
        /\ DOMAIN longer = 1..(Len(rows) + 1) /\ longer[Len(rows) + 1] = r
        /\ \A i \in DOMAIN rows : i \in DOMAIN longer /\ longer[i] = rows[i]
        /\ \A i \in DOMAIN longer : i \in DOMAIN rows \/ i = Len(rows) + 1
    BY <2>1
  <2>3. \A i \in DOMAIN longer : \E j \in 1..k : longer[i] = RowFor(Changes, offers[j])
    <3> SUFFICES ASSUME NEW i \in DOMAIN longer
                 PROVE  \E j \in 1..k : longer[i] = RowFor(Changes, offers[j])
      OBVIOUS
    <3>1. CASE i \in DOMAIN rows
      <4>1. PICK j \in 1..(k - 1) : rows[i] = RowFor(Changes, offers[j])
        BY <1>2, <3>1
      <4> QED
        BY <1>6, <2>2, <3>1, <4>1
    <3>2. CASE i = Len(rows) + 1
      BY <1>6, <2>2, <3>2
    <3> QED
      BY <2>2, <3>1, <3>2
  <2>4. ASSUME NEW i \in DOMAIN rows, SameFile(rows[i].path, r.path)
        PROVE  rows[i].typed /\ r.typed
    <3>1. PICK j \in 1..(k - 1) : rows[i] = RowFor(Changes, offers[j])
      BY <1>2
    <3>2. j \in 1..Len(offers) /\ k \in j..Len(offers)
      BY <1>1, <1>6
    <3>3. rows[i].path = offers[j].path /\ r.path = offers[k].path
      BY <1>4, <3>1
    <3>4. offers[k].pass = "hot"
      <4> SUFFICES ASSUME offers[k].pass # "hot" PROVE FALSE
        OBVIOUS
      <4>1. ~ Listed(rows, offers[k].path)
        BY <1>7 DEF Takes
      <4>2. ~ offers[k].path.absolute /\ offers[k].path \in Path /\ offers[j].path \in Path
        BY <1>1, <1>6, <3>2
      <4>3. Matches(rows[i].path, offers[k].path)
        BY <2>4, <3>3, <4>2, SpelledMatches
      <4> QED
        BY <4>1, <4>3 DEF Listed
    <3>5. offers[j].pass = "hot"
      BY <1>1, <3>2, <3>4
    <3> QED
      BY <1>4, <3>1, <3>4, <3>5
  <2>5. \A i, j \in DOMAIN longer :
          i # j /\ SameFile(longer[i].path, longer[j].path) => longer[i].typed /\ longer[j].typed
    <3> SUFFICES ASSUME NEW i \in DOMAIN longer, NEW j \in DOMAIN longer, i # j,
                        SameFile(longer[i].path, longer[j].path)
                 PROVE  longer[i].typed /\ longer[j].typed
      OBVIOUS
    <3>1. CASE i \in DOMAIN rows /\ j \in DOMAIN rows
      BY <1>2, <2>2, <3>1
    <3>2. CASE i \in DOMAIN rows /\ j = Len(rows) + 1
      BY <2>2, <2>4, <3>2
    <3>3. CASE j \in DOMAIN rows /\ i = Len(rows) + 1
      <4>1. SameFile(rows[j].path, r.path)
        BY <2>2, <3>3 DEF SameFile
      <4> QED
        BY <2>2, <2>4, <3>3, <4>1
    <3> QED
      BY <2>2, <3>1, <3>2, <3>3
  <2>6. \A j \in 1..k : offers[j].pass = "hot" =>
          \/ \E i \in DOMAIN longer : longer[i] = RowFor(Changes, offers[j])
          \/ ~ Fits(longer, offers[j].path)
    <3> SUFFICES ASSUME NEW j \in 1..k, offers[j].pass = "hot"
                 PROVE  \/ \E i \in DOMAIN longer : longer[i] = RowFor(Changes, offers[j])
                        \/ ~ Fits(longer, offers[j].path)
      OBVIOUS
    <3>1. CASE j = k
      BY <2>2, <3>1
    <3>2. CASE j # k
      <4>1. j \in 1..(k - 1) /\ offers[j].path \in Path
        BY <1>1, <1>6, <3>2
      <4>2. Fits(longer, offers[j].path) => Fits(rows, offers[j].path)
        BY <2>1, <4>1, BoardsFill
      <4> QED
        BY <1>2, <2>2, <4>1, <4>2
    <3> QED
      BY <3>1, <3>2
  <2> QED
    BY <1>5, <2>3, <2>5, <2>6
<1>8. CASE ~ Takes(rows, offers[k])
  <2>1. longer = rows
    BY <1>3, <1>8
  <2>2. \A i \in DOMAIN rows : \E j \in 1..k : rows[i] = RowFor(Changes, offers[j])
    <3>1. \A j \in 1..(k - 1) : j \in 1..k
      BY <1>6
    <3> QED
      BY <1>2, <3>1
  <2>3. offers[k].pass = "hot" => ~ Fits(rows, offers[k].path)
    BY <1>8 DEF Takes
  <2>4. \A j \in 1..k : offers[j].pass = "hot" =>
          \/ \E i \in DOMAIN rows : rows[i] = RowFor(Changes, offers[j])
          \/ ~ Fits(rows, offers[j].path)
    BY <1>2, <1>6, <2>3
  <2> QED
    BY <1>2, <1>5, <2>1, <2>2, <2>4
<1> QED
  BY <1>7, <1>8

LEMMA BoardIsAlwaysSound ==
  ASSUME ActivityInv
  PROVE  HotChanges(Changes) \in Seq(Row) /\ BoardIsSound(HotChanges(Changes), Len(Offers(Changes)))
<1> DEFINE offers == Offers(Changes)
           m == Len(offers)
<1>1. m \in Nat
  BY OffersAreSound
<1>2. PICK f \in [0..m -> Seq(Row)] :
        /\ f[0] = <<>> /\ f[m] = HotChanges(Changes)
        /\ \A k \in 1..m : f[k] = IF Takes(f[k - 1], offers[k])
                                  THEN Append(f[k - 1], RowFor(Changes, offers[k])) ELSE f[k - 1]
  BY BoardIsBuilt
<1> DEFINE Unsound == {k \in 0..m : ~ BoardIsSound(f[k], k)}
<1>3. ASSUME Unsound # {} PROVE FALSE
  <2>1. PICK k \in Unsound : \A d \in Unsound : k <= d
    <3>1. Unsound \in SUBSET Nat
      BY <1>1
    <3> HIDE DEF Unsound
    <3> QED
      BY <1>3, <3>1, LeastNumber
  <2>2. k \in 0..m /\ ~ BoardIsSound(f[k], k)
    OBVIOUS
  <2>3. CASE k = 0
    <3>1. f[0] = <<>> /\ DOMAIN f[0] = {} /\ 1..0 = {}
      BY <1>2
    <3>2. BoardIsSound(f[0], 0)
      BY <3>1 DEF BoardIsSound
    <3> QED
      BY <2>2, <2>3, <3>2
  <2>4. CASE k # 0
    <3>1. k \in 1..m /\ k - 1 \in 0..m /\ ~ (k <= k - 1)
      BY <1>1, <2>2, <2>4
    <3>2. BoardIsSound(f[k - 1], k - 1)
      BY <2>1, <3>1
    <3>3. f[k - 1] \in Seq(Row)
      BY <1>2, <3>1
    <3>4. f[k] = IF Takes(f[k - 1], offers[k])
                 THEN Append(f[k - 1], RowFor(Changes, offers[k])) ELSE f[k - 1]
      BY <1>2, <3>1
    <3>5. BoardIsSound(f[k], k)
      BY <3>1, <3>2, <3>3, <3>4, BoardStaysSound
    <3> QED
      BY <2>2, <3>5
  <2> QED
    BY <2>3, <2>4
<1>4. m \in 0..m /\ f[m] \in Seq(Row)
  BY <1>1, <1>2
<1> QED
  BY <1>2, <1>3, <1>4

\* A change of this very moment is on the board, unless it is full.
LEMMA FreshChangesAreHot ==
  ASSUME ActivityInv, NEW w \in Workers, doing[w].at = day, doing[w].path # Nowhere
  PROVE  \E e \in Changes : /\ e.by = w /\ SameFile(e.path, doing[w].path)
                            /\ e.path \in HotPaths(Changes)
<1> DEFINE Known(e) == /\ e.kind = "fileChange" /\ e.by = w
                       /\ SameFile(e.path, doing[w].path) /\ day - e.at = 0
<1>1. day \in Nat /\ HotWindow \in Nat
  BY ActivityWindows DEF ActivityInv, ActivityTypes
<1>2. \E e \in ToSet(feed) \union Supplements : Known(e)
  <2>1. CASE \A e \in ToSet(feed) :
               e.kind = "fileChange" /\ e.by = w /\ SameFile(e.path, doing[w].path)
                 => e.at < doing[w].at
    <3> DEFINE l == [id |-> <<"latest", w, "updated">>, kind |-> "fileChange", by |-> w,
                     at |-> doing[w].at, path |-> doing[w].path, action |-> doing[w].action,
                     phase |-> "updated"]
    <3>1. l \in Supplements
      BY <2>1 DEF Supplements
    <3>2. l.kind = "fileChange" /\ l.by = w /\ l.path = doing[w].path /\ l.at = day
      OBVIOUS
    <3> HIDE DEF l
    <3>3. Known(l)
      BY <1>1, <3>2 DEF SameFile
    <3> QED
      BY <3>1, <3>3
  <2>2. CASE ~ \A e \in ToSet(feed) :
               e.kind = "fileChange" /\ e.by = w /\ SameFile(e.path, doing[w].path)
                 => e.at < doing[w].at
    <3>1. PICK e \in ToSet(feed) : /\ e.kind = "fileChange" /\ e.by = w
                                   /\ SameFile(e.path, doing[w].path) /\ ~ (e.at < doing[w].at)
      BY <2>2
    <3>2. PICK i \in DOMAIN feed : e = feed[i]
      BY DEF ToSet
    <3>3. EventIsSound(e, commands, touched, day) /\ e \in Events
      BY <3>2 DEF ActivityInv, FeedIsSound, ActivityTypes
    <3>4. e.at \in Nat
      BY <3>3 DEF Events, CommandEvents, FileEvents
    <3>5. e.at <= day
      BY <3>3 DEF EventIsSound
    <3>6. doing[w].at = day /\ day - e.at = 0
      BY <1>1, <3>1, <3>4, <3>5
    <3>7. Known(e)
      BY <3>1, <3>6
    <3> QED
      BY <3>7
  <2> QED
    BY <2>1, <2>2
<1>3. PICK e \in ToSet(feed) \union Supplements : Known(e)
  BY <1>2
<1>4. e \in Changes
  BY <1>1, <1>3 DEF Changes
<1>5. e.path \in {d.path : d \in Changes}
  BY <1>4
<1>6. Score(Changes, e.path) >= 120
  BY <1>3, <1>4, <1>5, ScoresAreNatural
<1>7. e.path \in HotPaths(Changes)
  BY <1>5, <1>6 DEF HotPaths
<1> QED
  BY <1>3, <1>4, <1>7

LEMMA ChangesTold == ActivityInv => ChangesAreTrue
<1> SUFFICES ASSUME ActivityInv PROVE ChangesAreTrue
  OBVIOUS
<1> DEFINE offers == Offers(Changes)
           m == Len(offers)
           rows == HotChanges(Changes)
<1>1. rows \in Seq(Row) /\ BoardIsSound(rows, m)
  BY BoardIsAlwaysSound
<1>2. /\ m \in Nat
      /\ \A j \in 1..m : offers[j].path \in Path
      /\ \A p \in HotPaths(Changes) : \E j \in 1..m : offers[j].path = p /\ offers[j].pass = "hot"
  BY OffersAreSound
<1>3. ASSUME NEW i \in DOMAIN rows, NEW w \in rows[i].agents
      PROVE  \E t \in touched : t[1] = w /\ t[2] = rows[i].path.file
  <2>1. PICK j \in 1..m : rows[i] = RowFor(Changes, offers[j])
    BY <1>1 DEF BoardIsSound
  <2>2. rows[i].path = offers[j].path
        /\ rows[i].agents \subseteq {e.by : e \in ChangesOf(Changes, offers[j].path)}
    BY <2>1 DEF RowFor
  <2>3. PICK e \in ChangesOf(Changes, offers[j].path) : w = e.by
    BY <2>2
  <2>4. e \in Changes /\ e.path = offers[j].path
    BY DEF ChangesOf
  <2>5. \E t \in touched : t[1] = e.by /\ t[2] = e.path.file
    BY <2>4, ChangesAreSound DEF IsChange
  <2> QED
    BY <2>2, <2>3, <2>4, <2>5
<1>4. \A i, j \in DOMAIN rows :
        i # j /\ SameFile(rows[i].path, rows[j].path) => rows[i].typed /\ rows[j].typed
  BY <1>1 DEF BoardIsSound
<1>5. ASSUME NEW w \in Workers, doing[w].at = day, doing[w].path # Nowhere
      PROVE  ~ Fits(rows, doing[w].path) \/ \E i \in DOMAIN rows : w \in rows[i].agents
  <2>1. PICK e \in Changes : /\ e.by = w /\ SameFile(e.path, doing[w].path)
                             /\ e.path \in HotPaths(Changes)
    BY <1>5, FreshChangesAreHot
  <2>2. PICK j \in 1..m : offers[j].path = e.path /\ offers[j].pass = "hot"
    BY <1>2, <2>1
  <2>3. CASE \E i \in DOMAIN rows : rows[i] = RowFor(Changes, offers[j])
    <3>1. PICK i \in DOMAIN rows : rows[i] = RowFor(Changes, offers[j])
      BY <2>3
    <3>2. e \in ChangesOf(Changes, offers[j].path)
      BY <2>1, <2>2 DEF ChangesOf
    <3>3. w \in rows[i].agents
      BY <2>1, <2>2, <3>1, <3>2 DEF RowFor
    <3> QED
      BY <3>3
  <2>4. CASE ~ Fits(rows, offers[j].path)
    <3>1. OfFamily(rows, offers[j].path) = OfFamily(rows, doing[w].path)
      BY <2>1, <2>2 DEF OfFamily, SameFile
    <3> QED
      BY <2>4, <3>1 DEF Fits
  <2> QED
    BY <1>1, <2>2, <2>3, <2>4 DEF BoardIsSound
<1> HIDE DEF rows
<1> QED
  BY <1>3, <1>4, <1>5 DEF ChangesAreTrue, rows

\* The activity a snapshot shows of a project is what happened in it, for any
\* tree of files, agents, commands, patches, windows and limits: a command
\* that ended is not said to run and one that runs is not lost, the hot
\* changes name who made them, and none is passed over while there is room.
THEOREM ActivityIsAlwaysTrue == ActivitySpec => []ActivityIsTrue
<1>1. ActivityInv => ActivityIsTrue
  BY CommandsTold, LongOnesTold, ChangesTold DEF ActivityIsTrue
<1> QED
  BY ActivityAlwaysSound, <1>1, PTL

==============================================================================
