-------------------------- MODULE MonitorConnection --------------------------
(***************************************************************************)
(* The Codex connection of a ProjectLiveMonitor (core/src/live-monitor.ts) *)
(* and the app-server clients it makes (core/src/app-server.ts): the calls *)
(* that create a client when there is none, the discovery pump, rereads  *)
(* that time out and reset the connection, thread subscriptions, answers   *)
(* to the requests Codex makes of the user, start() and stop().            *)
(*                                                                         *)
(* A step is one job: what a function does between two awaits.  A client   *)
(* is numbered in the order its process was spawned; 0 is "no client".     *)
(***************************************************************************)
EXTENDS Integers, FiniteSets

CONSTANTS
  Answers,         \* calls of respondToApprovalRequest / respondToInputRequest
  Requests,        \* ids of server requests; each process numbers its own
  Threads,         \* threads a subscription is wanted for
  MaxClients,      \* bound: app-server processes
  MaxSyncs         \* bound: subscription synchronisations

ASSUME BoundsAssumption ==
  MaxClients \in Nat /\ MaxSyncs \in Nat

Clients == 1..MaxClients
Tasks == {"start", "pump"} \cup Answers   \* whoever may await ensureClient()

VARIABLES
  client,      \* this.client
  proc,        \* the process of each client
  attached,    \* client the two unsubscribe functions belong to
  listening,   \* clients whose messages reach the monitor
  at,          \* where each task is
  making,      \* the client a task is creating
  behind,      \* discoveryRequested is ahead of what the pump is at
  reads,       \* a thread or goal is being read, on this client or another
  timers,      \* the interval timers of start() are installed
  stop,        \* "no", "stopping", "stopped"
  asked,       \* history: requests each process has made of the user
  pending,     \* pendingUserRequests: client whose request an id stands for
  wants,       \* the request an answering call is for
  sent,        \* history: answers written for each id
  sync,        \* subscription sync: where, client it resumed on, what is left
  syncQueued, syncs,
  subscribed,  \* subscribedThreadIds
  joined,      \* threads each process streams to us
  replaced, late, \* history: clients superseded by a racing creation, or
                  \* created after stop() had closed the connection
  muddled      \* history: a subscription was recorded, or outlived, the
               \* connection it was made on

clientVars == <<client, proc, attached, listening, making, replaced, late>>
requestVars == <<asked, pending, wants, sent>>
syncVars == <<sync, syncQueued, syncs, subscribed, joined, muddled>>
vars == <<clientVars, at, behind, reads, timers, stop, requestVars,
          syncVars>>

NoSync == [at |-> "none", on |-> 0, todo |-> {}]

Init ==
  /\ client = 0 /\ attached = 0 /\ listening = {}
  /\ proc = [c \in Clients |-> "none"]
  /\ \E quiet \in SUBSET Answers :  \* who never answers
       at = [k \in Tasks |-> IF k \in quiet THEN "done" ELSE "idle"]
  /\ making = [k \in Tasks |-> 0]
  /\ behind = FALSE
  /\ reads = FALSE /\ timers = FALSE /\ stop = "no"
  /\ asked = [c \in Clients |-> {}]
  /\ pending = [r \in Requests |-> 0]
  /\ wants \in [Answers -> Requests]
  /\ sent = [r \in Requests |-> 0]
  /\ sync = NoSync /\ syncQueued = FALSE /\ syncs \in 0..MaxSyncs
  /\ subscribed = {} /\ joined = [c \in Clients |-> {}]
  /\ replaced = {} /\ late = {} /\ muddled = FALSE

-----------------------------------------------------------------------------
(* ensureClient() and CodexAppServerClient.create().                       *)

Unborn == {c \in Clients : proc[c] = "none"}
Newborn == CHOOSE c \in Unborn : \A d \in Unborn : c <= d

\* The part of ensureClient() before its await, for task k; places is at
\* with whatever else the step does to it.  A call that needs no client
\* resumes in a later job all the same.
EnsureClient(k, places) ==
  IF stop # "no" \/ client # 0
  THEN /\ at' = [places EXCEPT ![k] = "connected"]
       /\ UNCHANGED <<proc, making>>
  ELSE /\ Unborn # {}
       /\ at' = [places EXCEPT ![k] = "creating"]
       /\ making' = [making EXCEPT ![k] = Newborn]
       /\ proc' = [proc EXCEPT ![Newborn] = "initializing"]

\* The new client becomes the monitor's whatever has happened since the call.
CreateSucceeds(k) ==
  /\ at[k] = "creating"
  /\ at' = [at EXCEPT ![k] = "connected"]
  /\ making' = [making EXCEPT ![k] = 0]
  /\ proc' = [proc EXCEPT ![making[k]] = "open"]
  /\ client' = making[k]
  /\ attached' = making[k]
  /\ listening' = (listening \ {attached}) \cup {making[k]}
  /\ replaced' = replaced \cup ({client} \ {0})
  /\ late' = IF stop = "no" THEN late ELSE late \cup {making[k]}
  /\ muddled' = (muddled \/ subscribed # {})
  /\ UNCHANGED <<behind, reads, timers, stop, requestVars, sync,
                 syncQueued, syncs, subscribed, joined>>

\* No command could be spawned, or initialize failed or timed out, and the
\* half-made client was closed: a note is all that remains.
CreateFails(k) ==
  /\ at[k] = "creating"
  /\ at' = [at EXCEPT ![k] = "connected"]
  /\ making' = [making EXCEPT ![k] = 0]
  /\ proc' = [proc EXCEPT ![making[k]] = "killed"]
  /\ UNCHANGED <<client, attached, listening, replaced, late, behind,
                 reads, timers, stop, requestVars, syncVars>>

\* close() sends SIGTERM; the messages already in the pipe are still read.
Closed(c) == [d \in Clients |-> IF d = c THEN "killed" ELSE proc[d]]

\* The reset of recoverTimedOutAppServerClient() and of a failed discovery:
\* it closes whichever client is current.
Reset_KeepsSubscriptions ==
  /\ proc' = Closed(client)
  /\ client' = 0
  /\ UNCHANGED <<subscribed, muddled>>

Reset ==
  /\ proc' = Closed(client)
  /\ client' = 0
  /\ subscribed' = {}
  /\ UNCHANGED muddled

\* The process ends by itself.
ProcessExits(c) ==
  /\ proc[c] = "open"
  /\ proc' = [proc EXCEPT ![c] = "exited"]
  /\ UNCHANGED <<client, attached, listening, making, replaced, late, at,
                 behind, reads, timers, stop, requestVars, syncVars>>

-----------------------------------------------------------------------------
(* discoverThreads() and its pump.                                         *)

\* The loop of runDiscoveryPump(), when it finds itself behind: what it does
\* from here answers every call up to now.
Round(places) ==
  /\ behind' = FALSE
  /\ IF stop # "no"
     THEN /\ at' = [places EXCEPT !["pump"] = "drained"]
          /\ UNCHANGED <<proc, making>>
     ELSE EnsureClient("pump", places)

\* A call of discoverThreads(): it starts the pump, or joins the one there.
Discover(places) ==
  IF stop = "no" /\ at["pump"] = "idle"
  THEN Round(places)
  ELSE /\ at' = places
       /\ behind' = (behind \/ stop = "no")
       /\ UNCHANGED <<proc, making>>

\* A round is over: another, or the loop ends and the finally is queued.
RoundEnds ==
  /\ behind' = (behind /\ stop = "no")
  /\ at' = [at EXCEPT !["pump"] = IF behind' THEN "again" ELSE "drained"]

PumpAgain ==
  /\ at["pump"] = "again"
  /\ Round(at)
  /\ UNCHANGED <<client, attached, listening, replaced, late, reads,
                 timers, stop, requestVars, syncVars>>

PumpConnected ==
  /\ at["pump"] = "connected"
  /\ IF client = 0
     THEN RoundEnds
     ELSE /\ at' = [at EXCEPT !["pump"] = "listing"]
          /\ UNCHANGED behind
  /\ UNCHANGED <<clientVars, reads, timers, stop,
                 requestVars, syncVars>>

DiscoveryFails_OnlyIfAnswered ==
  /\ at["pump"] \in {"listing", "loaded"}
  /\ client # 0
  /\ RoundEnds
  /\ IF stop # "no" THEN UNCHANGED <<proc, client, subscribed, muddled>> ELSE Reset
  /\ UNCHANGED <<attached, listening, making, replaced, late, reads, timers, stop, requestVars, sync, syncQueued,
                 syncs, joined>>

\* A list request failed or timed out.
DiscoveryFails ==
  /\ at["pump"] \in {"listing", "loaded"}
  /\ RoundEnds
  /\ IF stop # "no" THEN UNCHANGED <<proc, client, subscribed, muddled>> ELSE Reset
  /\ UNCHANGED <<attached, listening, making, replaced, late, reads, timers, stop, requestVars, sync, syncQueued,
                 syncs, joined>>

\* thread/list answered: thread/loaded/list goes to the client there is now.
ThreadsListed ==
  /\ at["pump"] = "listing"
  /\ stop # "no" \/ client # 0
  /\ IF stop # "no"
     THEN RoundEnds
     ELSE /\ at' = [at EXCEPT !["pump"] = "loaded"]
          /\ UNCHANGED behind
  /\ UNCHANGED <<clientVars, reads, timers, stop,
                 requestVars, syncVars>>

\* thread/loaded/list answered: threads and goals are reread, and when they
\* have all settled the subscriptions are brought up to date.
RereadsStart ==
  /\ at["pump"] = "loaded"
  /\ at' = [at EXCEPT !["pump"] = "rereading"]
  /\ reads' = (reads \/ client # 0)
  /\ UNCHANGED <<clientVars, behind, timers, stop,
                 requestVars, syncVars>>

\* syncThreadSubscriptions() up to its first await.
StartSync ==
  /\ syncs < MaxSyncs
  /\ syncs' = syncs + 1
  /\ sync' = IF client = 0 THEN [NoSync EXCEPT !.at = "drained"]
             ELSE [NoSync EXCEPT !.at = "listing"]

ScheduleSync ==
  IF stop # "no" \/ syncs = MaxSyncs
  THEN UNCHANGED <<sync, syncQueued, syncs>>
  ELSE IF sync.at # "none"
  THEN syncQueued' = TRUE /\ UNCHANGED <<sync, syncs>>
  ELSE StartSync /\ UNCHANGED syncQueued

RereadsSettled ==
  /\ at["pump"] = "rereading"
  /\ ~reads
  /\ RoundEnds
  /\ ScheduleSync
  /\ UNCHANGED <<clientVars, reads, timers, stop,
                 requestVars, subscribed, joined, muddled>>

\* The finally of discoverThreads(), after which its callers resume.
PumpCleared ==
  /\ at["pump"] = "drained"
  /\ at' = [at EXCEPT !["pump"] = "idle"]
  /\ UNCHANGED <<clientVars, behind, reads, timers, stop, requestVars,
                 syncVars>>

-----------------------------------------------------------------------------
(* Reads of one thread or goal.                                            *)

\* A debounced read timer fires, or an answer asked for a reread.
StartReread ==
  /\ stop = "no" /\ client # 0
  /\ ~reads
  /\ reads' = TRUE
  /\ UNCHANGED <<clientVars, at, behind, timers, stop, requestVars, syncVars>>

RereadEnds ==
  /\ reads
  /\ reads' = FALSE
  /\ UNCHANGED <<clientVars, at, behind, timers, stop, requestVars, syncVars>>

\* ... or times out: the reset does not ask which client was read.
RereadTimesOut ==
  /\ reads
  /\ reads' = FALSE
  /\ Reset
  /\ UNCHANGED <<attached, listening, making, replaced, late, at, behind,
                 timers, stop, requestVars, sync, syncQueued, syncs, joined>>

-----------------------------------------------------------------------------
(* Thread subscriptions.                                                   *)

\* thread/loaded/list answered (or not, within its timeout): resume every
\* thread that is wanted and not recorded, on the client there is now.
SyncListed(want) ==
  /\ sync.at = "listing"
  /\ sync' = [at |-> "resuming", on |-> client, todo |-> want \ subscribed]
  /\ UNCHANGED <<clientVars, at, behind, reads, timers, stop, requestVars,
                 syncQueued, syncs, subscribed, joined, muddled>>

ThreadJoins(t) ==
  /\ sync.at = "resuming" /\ t \in sync.todo
  /\ sync.on # 0 /\ proc[sync.on] \in {"open", "killed"}
  /\ sync' = [sync EXCEPT !.todo = @ \ {t}]
  /\ subscribed' = subscribed \cup {t}
  /\ joined' = [joined EXCEPT ![sync.on] = @ \cup {t}]
  /\ muddled' = (muddled \/ sync.on # client)
  /\ reads' = (reads \/ client # 0)
  /\ UNCHANGED <<clientVars, at, behind, timers, stop, requestVars,
                 syncQueued, syncs>>

ThreadRefused(t) ==
  /\ sync.at = "resuming" /\ t \in sync.todo
  /\ sync' = [sync EXCEPT !.todo = @ \ {t}]
  /\ UNCHANGED <<clientVars, at, behind, reads, timers, stop, requestVars,
                 syncQueued, syncs, subscribed, joined, muddled>>

\* Threads no longer wanted are unsubscribed, whatever the answer.
SyncEnds(unwanted) ==
  /\ sync.at = "resuming" /\ sync.todo = {}
  /\ unwanted \subseteq subscribed
  /\ subscribed' = subscribed \ unwanted
  /\ joined' = IF client = 0 THEN joined
               ELSE [joined EXCEPT ![client] = @ \ unwanted]
  /\ sync' = [NoSync EXCEPT !.at = "drained"]
  /\ UNCHANGED <<clientVars, at, behind, reads, timers, stop, requestVars,
                 syncQueued, syncs, muddled>>

SyncCleared ==
  /\ sync.at = "drained"
  /\ IF syncQueued /\ stop = "no" /\ syncs < MaxSyncs
     THEN StartSync
     ELSE sync' = NoSync /\ UNCHANGED syncs
  /\ syncQueued' = FALSE
  /\ UNCHANGED <<clientVars, at, behind, reads, timers, stop, requestVars,
                 subscribed, joined, muddled>>

-----------------------------------------------------------------------------
(* Requests Codex makes of the user, and their answers.                    *)

\* A process asks; the monitor keeps the request under its number.
Ask(c, r) ==
  /\ proc[c] = "open" /\ c \in listening /\ r \notin asked[c]
  /\ asked' = [asked EXCEPT ![c] = @ \cup {r}]
  /\ pending' = [pending EXCEPT ![r] = c]
  /\ UNCHANGED <<clientVars, at, behind, reads, timers, stop, wants, sent,
                 syncVars>>

CallAnswer(a) ==
  /\ at[a] = "idle"
  /\ EnsureClient(a, at)
  /\ UNCHANGED <<client, attached, listening, replaced, late, behind,
                 reads, timers, stop, requestVars, syncVars>>

Found(a) == pending[wants[a]] # 0

\* After its await the call looks the request up, answers and forgets it in
\* one job.  The answer goes to the client there is now.
AnswerResumes(a) ==
  /\ at[a] = "connected"
  /\ IF client # 0 /\ Found(a)
     THEN /\ at' = [at EXCEPT ![a] = "done"]
          /\ sent' = [sent EXCEPT ![wants[a]] = @ + 1]
          /\ pending' = [pending EXCEPT ![wants[a]] = 0]
     ELSE at' = [at EXCEPT ![a] = "done"] /\ UNCHANGED <<sent, pending>>
  /\ UNCHANGED <<clientVars, behind, reads, timers, stop, asked, wants,
                 syncVars>>

-----------------------------------------------------------------------------
(* start(), its interval, and stop().                                      *)

CallStart ==
  /\ at["start"] = "idle" /\ stop = "no"
  /\ EnsureClient("start", at)
  /\ UNCHANGED <<client, attached, listening, replaced, late, behind,
                 reads, timers, stop, requestVars, syncVars>>

\* The client and the coordinator's warm-up have settled.
StartDiscovers ==
  /\ at["start"] = "connected"
  /\ Discover([at EXCEPT !["start"] = "discovering"])
  /\ UNCHANGED <<client, attached, listening, replaced, late, reads,
                 timers, stop, requestVars, syncVars>>

\* The rest of start() runs whether or not stop() came in between.
StartEnds ==
  /\ at["start"] = "discovering"
  /\ at["pump"] = "idle" \/ stop # "no"
  /\ at' = [at EXCEPT !["start"] = "ready"]
  /\ timers' = TRUE
  /\ UNCHANGED <<clientVars, behind, reads, stop, requestVars, syncVars>>

Tick ==
  /\ timers
  /\ Discover(at)
  /\ UNCHANGED <<client, attached, listening, replaced, late, reads,
                 timers, stop, requestVars, syncVars>>

\* performStop() up to its first await.
StopBegins ==
  /\ stop = "no" /\ at["start"] # "idle"
  /\ stop' = "stopping"
  /\ timers' = FALSE
  /\ listening' = listening \ {attached} /\ attached' = 0
  /\ proc' = Closed(client)
  /\ client' = 0
  /\ UNCHANGED <<making, replaced, late, at, behind, reads, requestVars,
                 syncVars>>

\* The discovery it found has settled, and so have the snapshot work and the
\* coordinator (SnapshotCoordinator models those).
StopEnds ==
  /\ stop = "stopping"
  /\ at["pump"] = "idle"
  /\ stop' = "stopped"
  /\ subscribed' = {}
  /\ UNCHANGED <<clientVars, at, behind, reads, timers, requestVars, sync,
                 syncQueued, syncs, joined, muddled>>

-----------------------------------------------------------------------------
Creations == \E k \in Tasks : CreateSucceeds(k) \/ CreateFails(k)

Pump == \/ PumpAgain \/ PumpConnected \/ DiscoveryFails \/ ThreadsListed
        \/ RereadsStart \/ RereadsSettled \/ PumpCleared

Reads == StartReread \/ RereadEnds \/ RereadTimesOut

Subscriptions ==
  \/ \E T \in SUBSET Threads : SyncListed(T) \/ SyncEnds(T)
  \/ \E t \in Threads : ThreadJoins(t) \/ ThreadRefused(t)
  \/ SyncCleared

Calls == \E a \in Answers : CallAnswer(a) \/ AnswerResumes(a)

Life == CallStart \/ StartDiscovers \/ StartEnds \/ Tick \/ StopBegins \/ StopEnds

Codex == \E c \in Clients : \/ ProcessExits(c)
                            \/ \E r \in Requests : Ask(c, r)

Next == Creations \/ Pump \/ Reads \/ Subscriptions \/ Calls \/ Life \/ Codex

(***************************************************************************)
(* Nothing says that Codex answers.  But create(), thread/list,            *)
(* thread/loaded/list and the rereads carry a timeout, so each of them     *)
(* settles or fails; and jobs that are queued run.                         *)
(***************************************************************************)
Fairness ==
  /\ \A k \in Tasks : WF_vars(CreateSucceeds(k) \/ CreateFails(k))
  /\ WF_vars(PumpAgain \/ PumpConnected \/ DiscoveryFails \/ RereadsSettled
             \/ PumpCleared)
  /\ WF_vars(RereadEnds \/ RereadTimesOut)
  /\ WF_vars(StopEnds)

Spec == Init /\ [][Next]_vars /\ Fairness

-----------------------------------------------------------------------------
Places == {"idle", "creating", "connected", "again", "listing", "loaded",
           "rereading", "drained", "discovering", "ready", "done"}

\* Type invariant: the shape of every variable.
TypeOK ==
  /\ client \in Clients \cup {0} /\ attached \in Clients \cup {0}
  /\ proc \in [Clients -> {"none", "initializing", "open", "killed", "exited"}]
  /\ listening \subseteq Clients /\ reads \in BOOLEAN
  /\ replaced \subseteq Clients /\ late \subseteq Clients
  /\ at \in [Tasks -> Places] /\ making \in [Tasks -> Clients \cup {0}]
  /\ behind \in BOOLEAN
  /\ timers \in BOOLEAN /\ stop \in {"no", "stopping", "stopped"}
  /\ asked \in [Clients -> SUBSET Requests]
  /\ pending \in [Requests -> Clients \cup {0}]
  /\ wants \in [Answers -> Requests]
  /\ sent \in [Requests -> Nat]
  /\ sync.at \in {"none", "listing", "resuming", "drained"}
  /\ sync.on \in Clients \cup {0} /\ sync.todo \subseteq Threads
  /\ syncQueued \in BOOLEAN /\ syncs \in 0..MaxSyncs
  /\ subscribed \subseteq Threads /\ joined \in [Clients -> SUBSET Threads]
  /\ muddled \in BOOLEAN

\* Every app-server process left running is the monitor's own, or is being
\* created, or belongs to one of the two races the code leaves open: another
\* creation finished after it (live-monitor.ts:546), or stop() did before it.
NoStrayProcess ==
  \A c \in Clients :
    proc[c] \in {"initializing", "open"} =>
      \/ c = client
      \/ \E k \in Tasks : making[k] = c
      \/ c \in replaced \cup late

\* The monitor hears one connection at a time, the last it attached to, and
\* none once stop() has begun, unless a creation was then under way.
OneConnectionHeard ==
  /\ listening \subseteq {attached}
  /\ stop # "no" => listening \subseteq late

\* However many browsers answer a request, however their calls interleave
\* with the connection's creation, an id is not answered more often than
\* processes have used it: never twice for one request.
AnsweredOnce ==
  \A r \in Requests : sent[r] <= Cardinality({c \in Clients : r \in asked[c]})

\* While neither race has happened, a thread recorded as subscribed is one
\* that the current connection streams: it is safe not to subscribe it again.
SubscriptionsAreLive ==
  ~muddled /\ stop = "no" => \A t \in subscribed : client # 0 /\ t \in joined[client]

\* One connection, whoever asks for it, closes it or sees it end: no process is
\* left behind, one is heard, and what is recorded of it is true of it.
OneConnection == NoStrayProcess /\ OneConnectionHeard /\ SubscriptionsAreLive

\* The connection is one, and so is the answer to each of its requests.
ConnectionIsKept == OneConnection /\ AnsweredOnce

\* stop() returns: everything it awaits has a timeout, also when the process
\* it has just killed, or one that had ended before, never answers.
StopReturns == (stop = "stopping") ~> (stop = "stopped")

\* live-monitor.ts:1612: the connection is kept alive until the request is
\* answered or resolved: while a request of a connection is pending only
\* stop() closes that connection.
ConnectionKeptForRequest ==
  [][ \A r \in Requests :
        LET c == pending[r] IN
          /\ c # 0 /\ proc[c] = "open" /\ pending'[r] = c /\ stop' = "no"
          => proc'[c] # "killed" ]_vars
=============================================================================
