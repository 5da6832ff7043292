-------------------------- MODULE PeripheralProofs ---------------------------
(***************************************************************************)
(* Proofs about the components around the server: the claims and the pid   *)
(* file that several processes read and replace without a lock             *)
(* (CoordinationClaims, CliLifecycle), the journal that several runs write *)
(* (HistoryJournal), the room in which browsers exchange their fleets      *)
(* (MultiplayerRoom), and what a browser makes of them (SharedFloors); for *)
(* any processes, terminals, agents, browsers, fleets, times and bounds.   *)
(***************************************************************************)
EXTENDS CoordinationClaims, CliLifecycle, HistoryJournal, MultiplayerRoom,
        SharedFloors, SequenceTheorems, FiniteSetTheorems, WellFoundedInduction, TLAPS

-----------------------------------------------------------------------------
(* CoordinationClaims: the inductive invariant.                            *)

\* What a command holds at each stage: a prune, a claim that was old enough
\* when it was listed; a write, a claim with the status its command gives.
CommandInOrder(c) ==
  /\ c.now <= hour
  /\ c.stage = "prune" => Readable(c.seen) /\ ShouldPrune(c.seen, c.now)
  /\ c.stage = "list" => c.op \in {"list", "heartbeat", "released", "handoff"}
  /\ c.stage = "match" => c.op \in {"heartbeat", "released", "handoff"}
  /\ c.stage \in {"write", "rename"} =>
       /\ c.op \in {"start", "heartbeat", "released", "handoff"}
       /\ c.next.status = (IF c.op \in {"start", "heartbeat"} THEN "active" ELSE c.op)
       /\ c.op = "heartbeat" => c.seen.status = "active"
  /\ c.op = "start" => c.stage \in {"write", "rename"}

CommandsInOrder == \A p \in Processes : CommandInOrder(command[p])

\* The claim's first write comes before any other: while it is under way
\* there is no file, and the other commands find none.
StartComesFirst ==
  /\ issued = 0 => file = Absent /\ \A p \in Processes : command[p] = Quiet
  /\ \A p \in Processes : command[p].op = "start" =>
       /\ file.status = "absent"
       /\ \A q \in Processes \ {p} : command[q].stage \in {"idle", "list"}

ClaimInv == ClaimTypeOK /\ CommandsInOrder /\ StartComesFirst

-----------------------------------------------------------------------------
ClaimFiles ==
  [status : {"absent", "active", "released", "handoff"},
   heartbeatAt : 0..MaxHour, expiresAt : 0..(MaxHour + Ttl)]
ClaimCommands ==
  [op : {"none", "start", "list", "heartbeat", "released", "handoff"},
   stage : {"idle", "list", "prune", "match", "write", "rename"},
   now : 0..MaxHour, seen : ClaimFiles, next : ClaimFiles]

LEMMA ClaimTypes ==
  ClaimTypeOK <=> /\ file \in ClaimFiles /\ command \in [Processes -> ClaimCommands]
                  /\ issued \in 0..(MaxCommands + 1) /\ hour \in 0..MaxHour
BY DEF ClaimTypeOK, ClaimFiles, ClaimCommands

LEMMA ClaimNumbers ==
  /\ Ttl \in Nat /\ MaxHour \in Nat /\ MaxCommands \in Nat
  /\ ResolvedRetention \in Nat /\ StaleRetention \in Nat
BY ClaimBoundsAssumption

LEMMA QuietTyped == Absent \in ClaimFiles /\ Quiet \in ClaimCommands
BY ClaimNumbers DEF Absent, Quiet, ClaimFiles, ClaimCommands

\* A claim that is old enough stays so.
LEMMA PruneLater ==
  ASSUME NEW f \in ClaimFiles, NEW a \in 0..MaxHour, NEW b \in 0..MaxHour, a <= b,
         ShouldPrune(f, a)
  PROVE  ShouldPrune(f, b)
<1>1. f.heartbeatAt \in Nat /\ f.expiresAt \in Nat /\ a \in Nat /\ b \in Nat
  BY ClaimNumbers DEF ClaimFiles
<1>2. CASE f.status = "active"
  BY <1>1, <1>2, ClaimNumbers DEF ShouldPrune, Lifecycle
<1>3. CASE f.status # "active"
  <2>1. Lifecycle(f, a) = f.status /\ Lifecycle(f, b) = f.status
    BY <1>3 DEF Lifecycle
  <2>2. f.status # "stale"
    BY DEF ClaimFiles
  <2>3. CASE f.status \in {"released", "handoff"}
    BY <1>1, <2>1, <2>3, ClaimNumbers DEF ShouldPrune
  <2>4. CASE f.status \notin {"released", "handoff"}
    BY <2>1, <2>2, <2>4 DEF ShouldPrune
  <2> QED BY <2>3, <2>4
<1> QED BY <1>2, <1>3

\* What the writes of heartbeat and release are.
LEMMA HeartbeatWrites ==
  ASSUME NEW f \in ClaimFiles, hour \in 0..MaxHour, Heartbeat(f) # Absent
  PROVE  /\ Heartbeat(f) \in ClaimFiles /\ Heartbeat(f).status = "active"
         /\ f.status = "active"
<1>1. f.status = "active"
      /\ Heartbeat(f) = [f EXCEPT !.heartbeatAt = hour, !.expiresAt = hour + Ttl]
  BY DEF Heartbeat
<1>2. hour + Ttl \in 0..(MaxHour + Ttl)
  BY ClaimNumbers
<1> QED BY <1>1, <1>2 DEF ClaimFiles

LEMMA ReleaseWrites ==
  ASSUME NEW f \in ClaimFiles, hour \in 0..MaxHour, NEW status \in {"released", "handoff"},
         Release(f, status) # Absent
  PROVE  Release(f, status) \in ClaimFiles /\ Release(f, status).status = status
<1>1. Release(f, status) = [f EXCEPT !.status = status, !.heartbeatAt = hour]
  BY DEF Release
<1> QED BY <1>1 DEF ClaimFiles


-----------------------------------------------------------------------------
(* CoordinationClaims: the steps.                                          *)

LEMMA ClaimStart == ClaimInit => ClaimInv
<1> SUFFICES ASSUME ClaimInit PROVE ClaimInv
  OBVIOUS
<1>1. file = Absent /\ command = [p \in Processes |-> Quiet] /\ issued = 0 /\ hour = 0
  BY DEF ClaimInit
<1>2. ClaimTypeOK
  BY <1>1, QuietTyped, ClaimNumbers, ClaimTypes
<1>3. CommandInOrder(Quiet)
  BY <1>1 DEF CommandInOrder, Quiet
<1>4. CommandsInOrder
  BY <1>1, <1>3 DEF CommandsInOrder
<1>5. StartComesFirst
  BY <1>1 DEF StartComesFirst, Quiet
<1> QED BY <1>2, <1>4, <1>5 DEF ClaimInv

\* A command that moves on, and leaves the others and the file.
LEMMA CommandMoves ==
  ASSUME ClaimInv, NEW p \in Processes, NEW c \in ClaimCommands, CommandInOrder(c),
         CommandIs(p, c), hour' = hour, file' \in ClaimFiles,
         issued' \in 0..(MaxCommands + 1)
  PROVE  ClaimTypeOK' /\ CommandsInOrder'
<1>1. /\ command' \in [Processes -> ClaimCommands] /\ command'[p] = c
      /\ \A q \in Processes \ {p} : command'[q] = command[q]
      /\ hour \in 0..MaxHour
  BY ClaimTypes DEF ClaimInv, CommandIs
<1>2. ClaimTypeOK'
  BY <1>1, ClaimTypes DEF ClaimTypeOK, ClaimFiles, ClaimCommands
<1>3. CommandsInOrder'
  BY <1>1 DEF ClaimInv, CommandsInOrder, CommandInOrder
<1> QED BY <1>2, <1>3


\* Once the claim has been started no command but a start is one.
LEMMA StartStays ==
  ASSUME ClaimInv, NEW p \in Processes, NEW c \in ClaimCommands, CommandIs(p, c),
         issued # 0, issued' # 0,
         c.op = "start" => command[p].op = "start",
         \/ file' = file \/ file'.status = "absent" \/ file.status # "absent"
         \/ command[p].stage \notin {"idle", "list"} /\ c.op # "start",
         \/ c.stage \in {"idle", "list"} \/ command[p].op = "start"
         \/ command[p].stage \notin {"idle", "list"} \/ file.status # "absent"
  PROVE  StartComesFirst'
<1>1. /\ command'[p] = c /\ \A q \in Processes \ {p} : command'[q] = command[q]
  BY ClaimTypes DEF ClaimInv, CommandIs
<1>2. ASSUME NEW q \in Processes, command'[q].op = "start"
      PROVE  /\ file'.status = "absent"
             /\ \A r \in Processes \ {q} : command'[r].stage \in {"idle", "list"}
  <2>1. command[q].op = "start"
    BY <1>1, <1>2
  <2>2. /\ file.status = "absent" /\ command[q].stage \in {"write", "rename"}
        /\ \A r \in Processes \ {q} : command[r].stage \in {"idle", "list"}
    BY <2>1 DEF ClaimInv, StartComesFirst, CommandsInOrder, CommandInOrder
  <2>3. command[p].op = "start" => p = q
    BY <2>2 DEF ClaimInv, CommandsInOrder, CommandInOrder
  <2> QED BY <1>1, <1>2, <2>2, <2>3
<1> QED BY <1>2 DEF StartComesFirst

LEMMA ClaimCommandStep ==
  ASSUME ClaimInv, NEW p \in Processes,
         \/ StartClaim(p) \/ ListsClaims(p) \/ PrunesClaim(p) \/ RereadsClaim(p)
         \/ WritesTemporary(p) \/ RenamesTemporary(p) \/ CommandKilled(p)
         \/ \E op \in {"list", "heartbeat", "released", "handoff"} : BeginCommand(p, op)
  PROVE  ClaimInv'
<1> DEFINE now == command[p]
<1>1. /\ file \in ClaimFiles /\ now \in ClaimCommands /\ CommandInOrder(now)
      /\ issued \in 0..(MaxCommands + 1) /\ hour \in 0..MaxHour
  BY ClaimTypes DEF ClaimInv, CommandsInOrder
<1>2. CommandInOrder(Quiet) /\ Quiet.stage = "idle" /\ Quiet.op = "none"
  BY <1>1 DEF CommandInOrder, Quiet
<1>3. issued = 0 => file = Absent /\ now = Quiet
  BY DEF ClaimInv, StartComesFirst
<1>4. CASE StartClaim(p)
  <2> DEFINE next == [status |-> "active", heartbeatAt |-> hour, expiresAt |-> hour + Ttl]
             c == [op |-> "start", stage |-> "write", now |-> hour,
                   seen |-> Absent, next |-> next]
  <2>1. /\ issued = 0 /\ issued' = 1 /\ CommandIs(p, c) /\ file' = file /\ hour' = hour
    BY <1>4 DEF StartClaim
  <2>2. next \in ClaimFiles
    BY <1>1, ClaimNumbers DEF ClaimFiles
  <2>3. c \in ClaimCommands /\ CommandInOrder(c)
    BY <1>1, <2>2, QuietTyped DEF ClaimCommands, CommandInOrder
  <2>4. c.op = "start"
    OBVIOUS
  <2> HIDE DEF c
  <2>5. ClaimTypeOK' /\ CommandsInOrder'
    BY <1>1, <2>1, <2>3, CommandMoves, ClaimNumbers
  <2>6. /\ file = Absent /\ \A q \in Processes : command[q] = Quiet
        /\ \A q \in Processes \ {p} : command'[q] = command[q]
    BY <2>1, ClaimTypes DEF ClaimInv, StartComesFirst, CommandIs
  <2>7. StartComesFirst'
    BY <2>1, <2>6 DEF StartComesFirst, Absent, Quiet
  <2> QED BY <2>5, <2>7 DEF ClaimInv
<1>5. ASSUME NEW op \in {"list", "heartbeat", "released", "handoff"}, BeginCommand(p, op)
      PROVE  ClaimInv'
  <2> DEFINE c == [Quiet EXCEPT !.op = op, !.stage = "list", !.now = hour]
  <2>1. /\ now = Quiet /\ issued \in 1..MaxCommands /\ issued' = issued + 1
        /\ CommandIs(p, c) /\ file' = file /\ hour' = hour
    BY <1>5 DEF BeginCommand
  <2>2. c \in ClaimCommands /\ CommandInOrder(c) /\ c.op # "start" /\ c.stage = "list"
    <3>1. c \in ClaimCommands /\ c.op = op /\ c.stage = "list" /\ c.now = hour
      BY <1>1, QuietTyped DEF ClaimCommands
    <3> HIDE DEF c
    <3>2. c.now <= hour
      BY <1>1, <3>1
    <3> QED BY <3>1, <3>2 DEF CommandInOrder
  <2> HIDE DEF c
  <2>3. issued' \in 0..(MaxCommands + 1) /\ issued # 0 /\ issued' # 0
    BY <2>1, ClaimNumbers
  <2>4. ClaimTypeOK' /\ CommandsInOrder'
    BY <1>1, <2>1, <2>2, <2>3, CommandMoves
  <2>5. StartComesFirst'
    BY <2>1, <2>2, <2>3, StartStays
  <2> QED BY <2>4, <2>5 DEF ClaimInv
<1>6. ASSUME issued # 0, issued' = issued, hour' = hour, CommandIs(p, Quiet),
             file' \in ClaimFiles,
             \/ file' = file \/ file'.status = "absent" \/ file.status # "absent"
             \/ now.stage \notin {"idle", "list"}
      PROVE  ClaimInv'
  <2>1. ClaimTypeOK' /\ CommandsInOrder'
    BY <1>1, <1>2, <1>6, CommandMoves, QuietTyped
  <2>2. StartComesFirst'
    BY <1>2, <1>6, StartStays, QuietTyped
  <2> QED BY <2>1, <2>2 DEF ClaimInv
<1>7. CASE ListsClaims(p)
  <2>1. /\ now.stage = "list" /\ issued' = issued /\ hour' = hour /\ file' = file
    BY <1>7 DEF ListsClaims
  <2>2. issued # 0 /\ now.op # "start"
    BY <1>1, <1>2, <1>3, <2>1 DEF CommandInOrder
  <2>3. CASE CommandIs(p, Quiet)
    BY <1>1, <1>6, <2>1, <2>2, <2>3
  <2>4. CASE Readable(file) /\ ShouldPrune(file, now.now)
             /\ CommandIs(p, [now EXCEPT !.stage = "prune", !.seen = file])
    <3> DEFINE c == [now EXCEPT !.stage = "prune", !.seen = file]
    <3>1. c \in ClaimCommands /\ CommandInOrder(c) /\ c.op # "start"
      BY <1>1, <2>2, <2>4 DEF ClaimCommands, CommandInOrder
    <3>2. file.status # "absent"
      BY <2>4 DEF Readable
    <3> HIDE DEF c
    <3>3. CommandIs(p, c)
      BY <2>4 DEF c
    <3>4. ClaimTypeOK' /\ CommandsInOrder'
      BY <1>1, <2>1, <3>1, <3>3, CommandMoves
    <3>5. StartComesFirst'
      BY <2>1, <2>2, <3>1, <3>2, <3>3, StartStays
    <3> QED BY <3>4, <3>5 DEF ClaimInv
  <2>5. CASE Readable(file) /\ now.op # "list"
             /\ CommandIs(p, [now EXCEPT !.stage = "match"])
    <3> DEFINE c == [now EXCEPT !.stage = "match"]
    <3>1. c \in ClaimCommands /\ CommandInOrder(c) /\ c.op # "start"
      BY <1>1, <2>1, <2>5 DEF ClaimCommands, CommandInOrder
    <3>2. file.status # "absent"
      BY <2>5 DEF Readable
    <3> HIDE DEF c
    <3>3. CommandIs(p, c)
      BY <2>5 DEF c
    <3>4. ClaimTypeOK' /\ CommandsInOrder'
      BY <1>1, <2>1, <3>1, <3>3, CommandMoves
    <3>5. StartComesFirst'
      BY <2>1, <2>2, <3>1, <3>2, <3>3, StartStays
    <3> QED BY <3>4, <3>5 DEF ClaimInv
  <2>6. CASE ~Readable(file)
    <3>1. CommandIs(p, Quiet)
      BY <1>7, <2>6 DEF ListsClaims
    <3> QED BY <2>3, <3>1
  <2>7. CASE Readable(file) /\ ShouldPrune(file, now.now)
    BY <1>7, <2>4, <2>7 DEF ListsClaims
  <2>8. CASE Readable(file) /\ ~ShouldPrune(file, now.now) /\ now.op = "list"
    <3>1. CommandIs(p, Quiet)
      BY <1>7, <2>8 DEF ListsClaims
    <3> QED BY <2>3, <3>1
  <2>9. CASE Readable(file) /\ ~ShouldPrune(file, now.now) /\ now.op # "list"
    BY <1>7, <2>5, <2>9 DEF ListsClaims
  <2> QED BY <2>6, <2>7, <2>8, <2>9
<1>8. CASE PrunesClaim(p)
  <2>1. /\ now.stage = "prune" /\ file' = Absent /\ issued' = issued /\ hour' = hour
        /\ CommandIs(p, Quiet)
    BY <1>8 DEF PrunesClaim
  <2>2. issued # 0 /\ now.op # "start"
    BY <1>1, <1>2, <1>3, <2>1 DEF CommandInOrder
  <2>3. file'.status = "absent"
    BY <2>1 DEF Absent
  <2> QED BY <1>6, <2>1, <2>2, <2>3, QuietTyped
<1>9. CASE RereadsClaim(p)
  <2> DEFINE next == IF now.op = "heartbeat" THEN Heartbeat(file) ELSE Release(file, now.op)
  <2>1. /\ now.stage = "match" /\ issued' = issued /\ hour' = hour /\ file' = file
        /\ now.op \in {"heartbeat", "released", "handoff"}
    BY <1>1, <1>9 DEF RereadsClaim, CommandInOrder
  <2>2. issued # 0
    BY <1>2, <1>3, <2>1
  <2>3. CASE CommandIs(p, Quiet)
    BY <1>1, <1>6, <2>1, <2>2, <2>3
  <2>4. CASE next # Absent
             /\ CommandIs(p, [now EXCEPT !.stage = "write", !.seen = file, !.next = next])
    <3> DEFINE c == [now EXCEPT !.stage = "write", !.seen = file, !.next = next]
    <3>1. /\ next \in ClaimFiles
          /\ next.status = (IF now.op = "heartbeat" THEN "active" ELSE now.op)
          /\ now.op = "heartbeat" => file.status = "active"
      <4>1. CASE now.op = "heartbeat"
        BY <1>1, <2>4, <4>1, HeartbeatWrites
      <4>2. CASE now.op # "heartbeat"
        BY <1>1, <2>1, <2>4, <4>2, ReleaseWrites
      <4> QED BY <4>1, <4>2
    <3>2. file.status # "absent"
      BY <2>1, <2>4 DEF Heartbeat, Release, Readable
    <3> HIDE DEF next
    <3>3. c \in ClaimCommands
      BY <1>1, <3>1 DEF ClaimCommands
    <3>4. CommandInOrder(c) /\ c.op # "start"
      BY <1>1, <2>1, <3>1 DEF ClaimCommands, CommandInOrder
    <3> HIDE DEF c
    <3>5. CommandIs(p, c)
      BY <2>4 DEF c
    <3>6. ClaimTypeOK' /\ CommandsInOrder'
      BY <1>1, <2>1, <3>3, <3>4, <3>5, CommandMoves
    <3>7. StartComesFirst'
      BY <2>1, <2>2, <3>2, <3>3, <3>4, <3>5, StartStays
    <3> QED BY <3>6, <3>7 DEF ClaimInv
  <2>5. CommandIs(p, IF next = Absent THEN Quiet
                     ELSE [now EXCEPT !.stage = "write", !.seen = file, !.next = next])
    BY <1>9 DEF RereadsClaim
  <2> HIDE DEF next
  <2> QED BY <2>3, <2>4, <2>5
<1>10. CASE WritesTemporary(p)
  <2> DEFINE c == [now EXCEPT !.stage = "rename"]
  <2>1. /\ now.stage = "write" /\ issued' = issued /\ hour' = hour /\ file' = file
        /\ command' = [command EXCEPT ![p].stage = "rename"]
    BY <1>10 DEF WritesTemporary
  <2>2. CommandIs(p, c)
    BY <2>1 DEF CommandIs
  <2>3. issued # 0
    BY <1>2, <1>3, <2>1
  <2>4. c \in ClaimCommands /\ CommandInOrder(c) /\ c.op = now.op
    BY <1>1, <2>1 DEF ClaimCommands, CommandInOrder
  <2> HIDE DEF c
  <2>5. ClaimTypeOK' /\ CommandsInOrder'
    BY <1>1, <2>1, <2>2, <2>4, CommandMoves
  <2>6. StartComesFirst'
    BY <2>1, <2>2, <2>3, <2>4, StartStays
  <2> QED BY <2>5, <2>6 DEF ClaimInv
<1>11. CASE RenamesTemporary(p)
  <2>1. /\ now.stage = "rename" /\ issued' = issued /\ hour' = hour /\ file' = now.next
        /\ CommandIs(p, Quiet)
    BY <1>11 DEF RenamesTemporary
  <2>2. issued # 0 /\ file' \in ClaimFiles
    BY <1>1, <1>2, <1>3, <2>1 DEF ClaimCommands
  <2> QED BY <1>6, <2>1, <2>2
<1>12. CASE CommandKilled(p)
  <2>1. issued # 0 /\ UNCHANGED <<file, issued, hour>> /\ CommandIs(p, Quiet)
    BY <1>3, <1>12 DEF CommandKilled
  <2> QED BY <1>1, <1>6, <2>1
<1> QED BY <1>4, <1>5, <1>7, <1>8, <1>9, <1>10, <1>11, <1>12


LEMMA ClaimStep == ClaimInv /\ [ClaimNext]_claimVars => ClaimInv'
<1> SUFFICES ASSUME ClaimInv, [ClaimNext]_claimVars PROVE ClaimInv'
  OBVIOUS
<1>1. CASE HourPasses
  <2>1. hour' = hour + 1 /\ hour < MaxHour /\ UNCHANGED <<file, command, issued>>
    BY <1>1 DEF HourPasses
  <2>2. hour \in Nat /\ hour' \in 0..MaxHour
    BY <2>1, ClaimNumbers, ClaimTypes DEF ClaimInv
  <2>3. ClaimTypeOK'
    BY <2>1, <2>2 DEF ClaimInv, ClaimTypeOK
  <2>4. ASSUME NEW p \in Processes PROVE command[p].now <= hour'
    <3>1. command[p].now \in Nat /\ command[p].now <= hour
      BY ClaimTypes, ClaimNumbers DEF ClaimInv, ClaimCommands, CommandsInOrder, CommandInOrder
    <3> QED BY <3>1, <2>1, <2>2
  <2>5. CommandsInOrder'
    BY <2>1, <2>4 DEF ClaimInv, CommandsInOrder, CommandInOrder
  <2>6. StartComesFirst'
    BY <2>1 DEF ClaimInv, StartComesFirst
  <2> QED BY <2>3, <2>5, <2>6 DEF ClaimInv
<1>2. CASE UNCHANGED claimVars
  BY <1>2 DEF claimVars, ClaimInv, ClaimTypeOK, CommandsInOrder, CommandInOrder, StartComesFirst
<1> QED BY <1>1, <1>2, ClaimCommandStep DEF ClaimNext

THEOREM ClaimInvariant == ClaimSpec => []ClaimInv
BY ClaimStart, ClaimStep, PTL DEF ClaimSpec

\* The claim's file and the commands on it keep their shape: no reader ever
\* finds half a claim.
THEOREM ClaimTypeCorrect == ClaimSpec => []ClaimTypeOK
<1>1. ClaimInv => ClaimTypeOK
  BY DEF ClaimInv
<1> QED BY <1>1, ClaimInvariant, PTL

\* The steps that write the file.
LEMMA FileChanges ==
  ASSUME [ClaimNext]_claimVars, file' # file
  PROVE  \E p \in Processes : PrunesClaim(p) \/ RenamesTemporary(p)
BY DEF ClaimNext, StartClaim, ListsClaims, RereadsClaim, WritesTemporary, CommandKilled,
   BeginCommand, HourPasses, claimVars

\* What a rename puts in place can be read, and is active only by a start,
\* when there was no file, or by a heartbeat of an active claim.
LEMMA RenamePlaces ==
  ASSUME ClaimInv, NEW p \in Processes, RenamesTemporary(p)
  PROVE  /\ Readable(file')
         /\ file'.status = "active" =>
              \/ file.status = "absent"
              \/ Doing(p, "heartbeat", "rename") /\ command[p].seen.status = "active"
<1>1. command[p].stage = "rename" /\ file' = command[p].next
  BY DEF RenamesTemporary
<1>2. /\ command[p].op \in {"start", "heartbeat", "released", "handoff"}
      /\ command[p].next.status = (IF command[p].op \in {"start", "heartbeat"}
                                   THEN "active" ELSE command[p].op)
      /\ command[p].op = "heartbeat" => command[p].seen.status = "active"
  BY <1>1 DEF ClaimInv, CommandsInOrder, CommandInOrder
<1>3. command[p].op = "start" => file.status = "absent"
  BY DEF ClaimInv, StartComesFirst
<1> QED BY <1>1, <1>2, <1>3 DEF Readable, Doing

\* coordination.ts: claims that several processes replace and prune without a
\* lock.  None is lost before it is old enough to be pruned, but to a listing
\* that had judged the one replaced; none that ended is active again, but by a
\* heartbeat that had read it while it was.
THEOREM ClaimsAlwaysKept == ClaimSpec => ClaimsAreKept
<1> DEFINE Kept == Readable(file) /\ ~Readable(file')
                     => ShouldPrune(file, hour) \/ ReplacedMeanwhile
           Final == Resolved(file) /\ file'.status = "active"
                      => \E p \in Processes : /\ Doing(p, "heartbeat", "rename")
                                              /\ command[p].seen.status = "active"
<1>1. ClaimInv /\ [ClaimNext]_claimVars => Kept
  <2> SUFFICES ASSUME ClaimInv, [ClaimNext]_claimVars, Readable(file), ~Readable(file'),
                      ~ReplacedMeanwhile
               PROVE  ShouldPrune(file, hour)
    OBVIOUS
  <2>1. PICK p \in Processes : PrunesClaim(p) \/ RenamesTemporary(p)
    BY FileChanges
  <2>2. PrunesClaim(p)
    BY <2>1, RenamePlaces
  <2>3. command[p].stage = "prune" /\ command[p].seen = file
    BY <2>2 DEF PrunesClaim, ReplacedMeanwhile
  <2>4. /\ ShouldPrune(file, command[p].now) /\ command[p].now <= hour
        /\ file \in ClaimFiles /\ command[p].now \in 0..MaxHour /\ hour \in 0..MaxHour
    BY <2>3, ClaimTypes DEF ClaimInv, CommandsInOrder, CommandInOrder, ClaimCommands
  <2> QED BY <2>4, PruneLater
<1>2. ClaimInv /\ [ClaimNext]_claimVars => Final
  <2> SUFFICES ASSUME ClaimInv, [ClaimNext]_claimVars, Resolved(file), file'.status = "active"
               PROVE  \E p \in Processes : /\ Doing(p, "heartbeat", "rename")
                                           /\ command[p].seen.status = "active"
    OBVIOUS
  <2>1. PICK p \in Processes : PrunesClaim(p) \/ RenamesTemporary(p)
    BY FileChanges DEF Resolved
  <2>2. RenamesTemporary(p)
    BY <2>1 DEF PrunesClaim, Absent
  <2>3. file.status # "absent"
    BY DEF Resolved
  <2> QED BY <2>2, <2>3, RenamePlaces
<1> QED BY <1>1, <1>2, ClaimInvariant, PTL
  DEF ClaimSpec, ClaimsAreKept, KeptUntilOld, ReleaseIsFinal


-----------------------------------------------------------------------------
(* CliLifecycle: the inductive invariant.                                  *)

Servers == [stage : {"none", "booting", "live", "draining", "dead"},
            by : {"none", "start", "other"}, killed : {"no", "owned", "forced"}]
Shells ==
  [op : {"none", "start", "stop", "restart"},
   stage : {"idle", "probing", "polling", "stopProbing", "judging", "stopPolling"},
   force : BOOLEAN, named : Pids \cup {0}, live : Pids \cup {0}, left : 0..Polls]

LifecycleTyped ==
  /\ server \in [Pids -> Servers] /\ pidfile \in Pids \cup {0}
  /\ shell \in [Terminals -> Shells] /\ calm \in BOOLEAN

\* A pid that `aot start' wrote is its server's for ever, though that may have
\* ended; the pid file and what a command has read of it name no other.
StartedOrDead(s) ==
  s # 0 => server[s].stage = "dead"
           \/ (server[s].stage # "none" /\ server[s].by = "start")

PidsAreStarted ==
  /\ StartedOrDead(pidfile)
  /\ \A t \in Terminals : /\ StartedOrDead(shell[t].named)
                          /\ shell[t].stage = "judging" => shell[t].live \in Pids

\* Undisturbed, one command runs at a time, and a server that boots is the one
\* that command, or the last, has launched and named.
CalmInOrder ==
  calm =>
    /\ \A s \in Pids : server[s].stage \in {"booting", "live"} => pidfile = s
    /\ \A t, u \in Terminals : shell[t].stage # "idle" /\ shell[u].stage # "idle" => t = u
    /\ \A t \in Terminals :
         shell[t].stage \in {"probing", "stopProbing", "judging", "stopPolling"} =>
           \A s \in Pids : server[s].stage # "booting"

LifecycleInv == LifecycleTyped /\ PidsAreStarted /\ CalmInOrder /\ ForeignSpared

-----------------------------------------------------------------------------
LEMMA ServersTyped ==
  /\ NoServer \in Servers /\ Dead \in Servers /\ Prompt \in Shells
  /\ NoServer.stage = "none" /\ NoServer.by = "none" /\ NoServer.killed = "no"
  /\ Dead.stage = "dead" /\ Dead.killed = "no"
  /\ Prompt.stage = "idle" /\ Prompt.named = 0 /\ 0 \notin Pids
BY LifecycleBoundsAssumption DEF NoServer, Dead, Prompt, Servers, Shells, Pids

LEMMA LifecycleStart == LifecycleInit => LifecycleInv
BY ServersTyped DEF LifecycleInit, LifecycleInv, LifecycleTyped, PidsAreStarted,
   StartedOrDead, CalmInOrder, ForeignSpared

\* A server that changes: it is not another's, it does not come back, and one
\* that boots has been launched, one that is up has booted.
ServerMoves(s, new) ==
  /\ server' = [server EXCEPT ![s] = new] /\ new \in Servers
  /\ server[s].stage # "dead"
  /\ new.killed = "owned" => new.by = "start"
  /\ \/ new.stage = "dead"
     \/ new.stage # "none" /\ new.by = server[s].by
     \/ server[s].stage = "none" /\ new.stage # "none"

LEMMA ServerMovesKeep ==
  ASSUME LifecycleInv, NEW s \in Pids, NEW new, ServerMoves(s, new)
  PROVE  /\ server' \in [Pids -> Servers]
         /\ server'[s] = new /\ \A r \in Pids \ {s} : server'[r] = server[r]
         /\ \A r \in Pids : StartedOrDead(r) => StartedOrDead(r)'
         /\ ForeignSpared'
<1>1. /\ server' \in [Pids -> Servers]
      /\ server'[s] = new /\ \A r \in Pids \ {s} : server'[r] = server[r]
  BY DEF ServerMoves, LifecycleInv, LifecycleTyped
<1>2. \A r \in Pids : StartedOrDead(r) => StartedOrDead(r)'
  BY <1>1, ServersTyped DEF ServerMoves, StartedOrDead
<1>3. ForeignSpared'
  BY <1>1 DEF ServerMoves, ForeignSpared, LifecycleInv
<1> QED BY <1>1, <1>2, <1>3

LEMMA ServerStep ==
  ASSUME LifecycleInv, NEW s \in Pids, ForeignLaunch(s) \/ Listens(s) \/ ServerEnds(s)
  PROVE  LifecycleInv'
<1>1. pidfile' = pidfile /\ shell' = shell
  BY DEF ForeignLaunch, Listens, ServerEnds
<1>2. ASSUME NEW new, ServerMoves(s, new), calm' \in BOOLEAN, CalmInOrder'
      PROVE  LifecycleInv'
  <2>1. LifecycleTyped' /\ ForeignSpared'
    BY <1>1, <1>2, ServerMovesKeep DEF LifecycleInv, LifecycleTyped
  <2>2. PidsAreStarted'
    <3>1. \A r \in Pids : StartedOrDead(r) => StartedOrDead(r)'
      BY <1>2, ServerMovesKeep
    <3>2. \A t \in Terminals : shell[t].named \in Pids \cup {0}
      BY DEF LifecycleInv, LifecycleTyped, Shells
    <3>3. StartedOrDead(pidfile) /\ pidfile \in Pids \cup {0}
      BY DEF LifecycleInv, LifecycleTyped, PidsAreStarted
    <3>4. StartedOrDead(pidfile)'
      BY <1>1, <3>1, <3>3 DEF StartedOrDead
    <3>5. \A t \in Terminals : StartedOrDead(shell[t].named)'
      BY <1>1, <3>1, <3>2 DEF StartedOrDead, LifecycleInv, PidsAreStarted
    <3> QED BY <1>1, <3>4, <3>5 DEF LifecycleInv, PidsAreStarted
  <2> QED BY <1>2, <2>1, <2>2 DEF LifecycleInv
<1>3. CASE ForeignLaunch(s)
  <2> DEFINE new == [NoServer EXCEPT !.stage = "booting", !.by = "other"]
  <2>1. /\ server[s] = NoServer /\ server' = [server EXCEPT ![s] = new] /\ calm' = FALSE
    BY <1>3 DEF ForeignLaunch, Fresh, Launched
  <2>2. new \in Servers /\ new.stage = "booting" /\ new.killed = "no"
    BY DEF NoServer, Servers
  <2> HIDE DEF new
  <2>3. ServerMoves(s, new)
    BY <2>1, <2>2, ServersTyped DEF ServerMoves
  <2> QED BY <1>2, <2>1, <2>3 DEF CalmInOrder
<1>4. CASE Listens(s)
  <2>1. PICK new : /\ server' = [server EXCEPT ![s] = new] /\ calm' = calm
                   /\ server[s].stage = "booting"
                   /\ new \in {Dead, [server[s] EXCEPT !.stage = "live"]}
    BY <1>4 DEF Listens
  <2>2. server[s] \in Servers /\ (server[s].killed = "owned" => server[s].by = "start")
    BY DEF LifecycleInv, LifecycleTyped, ForeignSpared
  <2>3. ServerMoves(s, new) /\ new.stage \in {"dead", "live"}
    BY <2>1, <2>2, ServersTyped DEF ServerMoves, Servers
  <2>4. CalmInOrder'
    BY <1>1, <2>1, <2>3, ServerMovesKeep DEF LifecycleInv, CalmInOrder
  <2> QED BY <1>2, <2>1, <2>3, <2>4 DEF LifecycleInv, LifecycleTyped
<1>5. CASE ServerEnds(s)
  <2>1. /\ server' = [server EXCEPT ![s] = Dead] /\ calm' = calm
        /\ server[s].stage \in {"booting", "live", "draining"}
    BY <1>5 DEF ServerEnds
  <2>2. ServerMoves(s, Dead)
    BY <2>1, ServersTyped DEF ServerMoves
  <2>3. CalmInOrder'
    BY <1>1, <2>1, <2>2, ServerMovesKeep, ServersTyped DEF LifecycleInv, CalmInOrder
  <2> QED BY <1>2, <2>1, <2>2, <2>3 DEF LifecycleInv, LifecycleTyped
<1> QED BY <1>3, <1>4, <1>5


\* A command that moves on and touches no server.
LEMMA ShellMovesKeep ==
  ASSUME LifecycleInv, NEW t \in Terminals, NEW c \in Shells, Step(t, c),
         server' = server, pidfile' \in {pidfile, 0},
         calm' \in BOOLEAN, calm' => calm,
         c.named \in {shell[t].named, pidfile, 0},
         c.stage = "judging" => c.live \in Pids,
         calm' /\ pidfile' # pidfile =>
           \A s \in Pids : server[s].stage \notin {"booting", "live"},
         calm' /\ c.stage # "idle" =>
           \/ shell[t].stage # "idle"
           \/ \A u \in Terminals : shell[u].stage = "idle",
         calm' /\ c.stage \in {"probing", "stopProbing", "judging", "stopPolling"} =>
           \A s \in Pids : server[s].stage # "booting"
  PROVE  LifecycleInv'
<1>1. /\ shell' \in [Terminals -> Shells] /\ shell'[t] = c
      /\ \A u \in Terminals \ {t} : shell'[u] = shell[u]
  BY DEF Step, LifecycleInv, LifecycleTyped
<1>2. LifecycleTyped'
  BY <1>1 DEF LifecycleInv, LifecycleTyped
<1>3. PidsAreStarted'
  BY <1>1 DEF LifecycleInv, PidsAreStarted, StartedOrDead
<1>4. CalmInOrder'
  <2>1. CASE calm'
    <3>1. \A s \in Pids : server'[s].stage \in {"booting", "live"} => pidfile' = s
      BY <2>1 DEF LifecycleInv, CalmInOrder
    <3>2. \A u, v \in Terminals : shell'[u].stage # "idle" /\ shell'[v].stage # "idle" => u = v
      BY <1>1, <2>1 DEF LifecycleInv, CalmInOrder
    <3>3. \A u \in Terminals :
            shell'[u].stage \in {"probing", "stopProbing", "judging", "stopPolling"} =>
              \A s \in Pids : server'[s].stage # "booting"
      BY <1>1, <2>1 DEF LifecycleInv, CalmInOrder
    <3> QED BY <3>1, <3>2, <3>3 DEF CalmInOrder
  <2>2. CASE ~calm'
    BY <2>2 DEF CalmInOrder
  <2> QED BY <2>1, <2>2
<1>5. ForeignSpared'
  BY DEF LifecycleInv, ForeignSpared
<1> QED BY <1>2, <1>3, <1>4, <1>5 DEF LifecycleInv

LEMMA CommandEnds ==
  ASSUME LifecycleInv, NEW t \in Terminals, Ends(t), UNCHANGED <<server, pidfile>>,
         calm' \in BOOLEAN, calm' => calm
  PROVE  LifecycleInv'
BY ShellMovesKeep, ServersTyped DEF Ends

LEMMA GivenKeeps ==
  ASSUME LifecycleInv, NEW t \in Terminals, NEW op \in {"start", "stop", "restart"},
         NEW force \in BOOLEAN, Given(t, op, force)
  PROVE  LifecycleInv'
<1> DEFINE c == [Prompt EXCEPT !.op = op, !.force = force, !.named = pidfile,
                   !.stage = IF op = "start" THEN "probing" ELSE "stopProbing"]
<1>1. /\ Step(t, c) /\ UNCHANGED <<server, pidfile>>
      /\ calm' = (calm /\ (\A u \in Terminals : shell[u] = Prompt)
                       /\ (\A s \in Pids : server[s].stage # "booting"))
  BY DEF Given
<1>2. pidfile \in Pids \cup {0} /\ calm \in BOOLEAN
  BY DEF LifecycleInv, LifecycleTyped
<1>3. c \in Shells /\ c.named = pidfile /\ c.stage \in {"probing", "stopProbing"}
  <2>1. Prompt \in Shells
    BY ServersTyped
  <2> QED BY <1>2, <2>1 DEF Shells
<1> HIDE DEF c
<1>4. calm' \in BOOLEAN
  BY <1>1
<1>5. calm' => /\ calm /\ \A u \in Terminals : shell[u].stage = "idle"
               /\ \A s \in Pids : server[s].stage # "booting"
  BY <1>1, ServersTyped
<1> QED BY <1>1, <1>2, <1>3, <1>4, <1>5, ShellMovesKeep

LEMMA ProbeAnsweredKeeps ==
  ASSUME LifecycleInv, NEW t \in Terminals, NEW s \in Pids, ProbeAnswered(t, s)
  PROVE  LifecycleInv'
<1>1. /\ shell[t] \in Shells /\ calm \in BOOLEAN
      /\ UNCHANGED <<server, pidfile, calm>>
  BY DEF ProbeAnswered, LifecycleInv, LifecycleTyped
<1>2. CASE Ends(t)
  BY <1>1, <1>2, CommandEnds
<1>3. CASE shell[t].stage = "stopProbing"
           /\ Step(t, [shell[t] EXCEPT !.stage = "judging", !.live = s])
  <2> DEFINE c == [shell[t] EXCEPT !.stage = "judging", !.live = s]
  <2>1. c \in Shells /\ c.named = shell[t].named /\ c.stage = "judging" /\ c.live \in Pids
    BY <1>1 DEF Shells
  <2>2. calm => \A r \in Pids : server[r].stage # "booting"
    BY <1>3 DEF LifecycleInv, CalmInOrder
  <2> HIDE DEF c
  <2>3. Step(t, c)
    BY <1>3 DEF c
  <2> QED BY <1>1, <1>3, <2>1, <2>2, <2>3, ShellMovesKeep
<1>4. CASE shell[t].stage = "stopPolling" /\ shell[t].left > 1
           /\ Step(t, [shell[t] EXCEPT !.left = @ - 1])
  <2> DEFINE c == [shell[t] EXCEPT !.left = @ - 1]
  <2>1. c \in Shells /\ c.named = shell[t].named /\ c.stage = "stopPolling"
    BY <1>1, <1>4, LifecycleBoundsAssumption DEF Shells
  <2>2. calm => \A r \in Pids : server[r].stage # "booting"
    BY <1>4 DEF LifecycleInv, CalmInOrder
  <2> HIDE DEF c
  <2>3. Step(t, c)
    BY <1>4 DEF c
  <2> QED BY <1>1, <1>4, <2>1, <2>2, <2>3, ShellMovesKeep
<1>5. CASE shell[t].stage \in {"probing", "polling"}
  BY <1>2, <1>5 DEF ProbeAnswered
<1>6. CASE shell[t].stage = "stopProbing"
  BY <1>3, <1>6 DEF ProbeAnswered
<1>7. CASE shell[t].stage = "stopPolling"
  BY <1>2, <1>4, <1>7 DEF ProbeAnswered
<1> QED BY <1>5, <1>6, <1>7 DEF ProbeAnswered, ProbeStages

\* spawn() at the end of a probe that nobody answered.
LEMMA SpawnKeeps ==
  ASSUME LifecycleInv, NEW t \in Terminals, NEW s \in Pids,
         shell[t].stage = "probing", Spawn(t, s),
         calm' = (calm /\ \A r \in Pids : ~Bound(r))
  PROVE  LifecycleInv'
<1> DEFINE new == [NoServer EXCEPT !.stage = "booting", !.by = "start"]
           c == [shell[t] EXCEPT !.stage = "polling", !.left = Polls]
<1>1. /\ server[s] = NoServer /\ server' = [server EXCEPT ![s] = new]
      /\ pidfile' = s /\ Step(t, c)
  BY DEF Spawn, Fresh, Launched
<1>2. /\ new \in Servers /\ new.stage = "booting" /\ new.by = "start" /\ new.killed = "no"
      /\ c \in Shells /\ c.stage = "polling" /\ c.named = shell[t].named
      /\ calm \in BOOLEAN
  <2>1. NoServer \in Servers /\ NoServer.killed = "no"
    BY ServersTyped
  <2>2. /\ new \in Servers /\ new.stage = "booting" /\ new.by = "start"
        /\ new.killed = "no"
    BY <2>1 DEF Servers
  <2>3. shell[t] \in Shells /\ calm \in BOOLEAN
    BY DEF LifecycleInv, LifecycleTyped
  <2>4. Polls \in 0..Polls
    BY LifecycleBoundsAssumption
  <2>5. c \in Shells /\ c.stage = "polling" /\ c.named = shell[t].named
    BY <2>3, <2>4, Zenon DEF Shells
  <2> QED BY <2>2, <2>3, <2>5
<1> HIDE DEF new, c
<1>3. ServerMoves(s, new)
  BY <1>1, <1>2, ServersTyped DEF ServerMoves
<1>4. /\ server' \in [Pids -> Servers] /\ ForeignSpared'
      /\ server'[s] = new /\ \A r \in Pids \ {s} : server'[r] = server[r]
      /\ \A r \in Pids : StartedOrDead(r) => StartedOrDead(r)'
  BY <1>3, ServerMovesKeep
<1>5. /\ shell' \in [Terminals -> Shells] /\ shell'[t] = c
      /\ \A u \in Terminals \ {t} : shell'[u] = shell[u]
  BY <1>1, <1>2 DEF Step, LifecycleInv, LifecycleTyped
<1>6. LifecycleTyped'
  <2>1. calm' \in BOOLEAN
    OBVIOUS
  <2> QED BY <1>1, <1>4, <1>5, <2>1 DEF LifecycleTyped
<1>7. PidsAreStarted'
  <2>1. StartedOrDead(pidfile)'
    BY <1>1, <1>2, <1>4 DEF StartedOrDead
  <2>2. \A u \in Terminals : shell'[u].named = shell[u].named
    BY <1>2, <1>5
  <2>3. \A u \in Terminals : shell[u].named \in Pids \cup {0} /\ StartedOrDead(shell[u].named)
    BY DEF LifecycleInv, LifecycleTyped, Shells, PidsAreStarted
  <2>4. \A u \in Terminals : StartedOrDead(shell[u].named)'
    BY <1>4, <2>2, <2>3 DEF StartedOrDead
  <2>5. \A u \in Terminals : shell'[u].stage = "judging" => shell'[u].live \in Pids
    BY <1>2, <1>5 DEF LifecycleInv, PidsAreStarted
  <2> QED BY <2>1, <2>4, <2>5 DEF PidsAreStarted
<1>8. CalmInOrder'
  <2>1. CASE calm'
    <3>1. calm /\ \A r \in Pids : server[r].stage \notin {"booting", "live"}
      BY <2>1 DEF LifecycleInv, CalmInOrder, Bound
    <3>2. \A r \in Pids : server'[r].stage \in {"booting", "live"} => pidfile' = r
      BY <3>1, <1>1, <1>4
    <3>3. \A u \in Terminals \ {t} : shell'[u].stage = "idle"
      BY <3>1, <1>5 DEF LifecycleInv, CalmInOrder
    <3>4. c.stage = "polling"
      BY <1>2
    <3> QED BY <3>2, <3>3, <3>4, <1>5 DEF CalmInOrder
  <2>2. CASE ~calm'
    BY <2>2 DEF CalmInOrder
  <2> QED BY <2>1, <2>2
<1> QED BY <1>4, <1>6, <1>7, <1>8 DEF LifecycleInv

LEMMA NobodyAnswersKeeps ==
  ASSUME LifecycleInv, NEW t \in Terminals, NobodyAnswers(t)
  PROVE  LifecycleInv'
<1>1. /\ calm' = (calm /\ \A s \in Pids : ~Bound(s)) /\ shell[t] \in Shells
      /\ calm \in BOOLEAN
  BY DEF NobodyAnswers, LifecycleInv, LifecycleTyped
<1>2. calm' \in BOOLEAN
  BY <1>1
<1>3. CASE shell[t].stage = "probing" /\ \E s \in Pids : Spawn(t, s)
  BY <1>1, <1>3, SpawnKeeps
<1>4. CASE /\ shell[t].stage = "polling" /\ shell[t].left > 1
           /\ Step(t, [shell[t] EXCEPT !.left = @ - 1])
           /\ UNCHANGED <<server, pidfile>>
  <2> DEFINE c == [shell[t] EXCEPT !.left = @ - 1]
  <2>1. c \in Shells /\ c.named = shell[t].named /\ c.stage = "polling"
    BY <1>1, <1>4, LifecycleBoundsAssumption DEF Shells
  <2> HIDE DEF c
  <2>2. Step(t, c)
    BY <1>4 DEF c
  <2> QED BY <1>1, <1>2, <1>4, <2>1, <2>2, ShellMovesKeep
<1>5. CASE /\ shell[t].stage \in {"stopProbing", "stopPolling"}
           /\ pidfile' = 0 /\ Stopped(t) /\ UNCHANGED server
  <2>1. calm' => calm /\ \A s \in Pids : server[s].stage \notin {"booting", "live"}
    BY <1>1, <1>5 DEF LifecycleInv, CalmInOrder, Bound
  <2>2. CASE Step(t, Prompt)
    BY <1>2, <1>5, <2>1, <2>2, ShellMovesKeep, ServersTyped
  <2>3. CASE Step(t, [Prompt EXCEPT !.op = "start", !.stage = "probing"])
    <3> DEFINE c == [Prompt EXCEPT !.op = "start", !.stage = "probing"]
    <3>1. c \in Shells /\ c.named = 0 /\ c.stage = "probing"
      <4>1. Prompt \in Shells /\ Prompt.named = 0
        BY ServersTyped
      <4> QED BY <4>1 DEF Shells
    <3> HIDE DEF c
    <3>2. Step(t, c)
      BY <2>3 DEF c
    <3> QED BY <1>2, <1>5, <2>1, <3>1, <3>2, ShellMovesKeep
  <2> QED BY <1>5, <2>2, <2>3 DEF Stopped, Ends
<1> QED BY <1>3, <1>4, <1>5 DEF NobodyAnswers

\* The kill, at last: without --force of the server the pid file named.
LEMMA JudgesKeeps ==
  ASSUME LifecycleInv, NEW t \in Terminals, Judges(t)
  PROVE  LifecycleInv'
<1> DEFINE s == shell[t].live
           how == IF shell[t].force THEN "forced" ELSE "owned"
<1>1. /\ shell[t].stage = "judging" /\ s \in Pids /\ shell[t] \in Shells
      /\ calm \in BOOLEAN /\ UNCHANGED <<pidfile, calm>>
  BY DEF Judges, LifecycleInv, LifecycleTyped, PidsAreStarted
<1>2. CASE Ends(t) /\ server' = server
  BY <1>1, <1>2, CommandEnds
<1>3. CASE /\ StopSafety(shell[t].named, s) = "safe" \/ shell[t].force
           /\ Bound(s)
           /\ server' = [server EXCEPT ![s].stage = "draining", ![s].killed = how]
           /\ Step(t, [shell[t] EXCEPT !.stage = "stopPolling", !.live = 0, !.left = Polls])
  <2> DEFINE new == [server[s] EXCEPT !.stage = "draining", !.killed = how]
             c == [shell[t] EXCEPT !.stage = "stopPolling", !.live = 0, !.left = Polls]
  <2>1. /\ server[s] \in Servers /\ server[s].stage \in {"live", "draining"}
        /\ server \in [Pids -> Servers]
    BY <1>1, <1>3 DEF Bound, LifecycleInv, LifecycleTyped
  <2>2. server' = [server EXCEPT ![s] = new]
    <3> DEFINE drains == [server EXCEPT ![s].stage = "draining"]
               half == [server[s] EXCEPT !.stage = "draining"]
    <3>1. drains = [server EXCEPT ![s] = half] /\ drains[s] = half
      BY <1>1, <2>1
    <3>2. server' = [drains EXCEPT ![s].killed = how]
      BY <1>3
    <3>3. server' = [drains EXCEPT ![s] = [half EXCEPT !.killed = how]]
      BY <3>1, <3>2
    <3> QED BY <3>1, <3>3, <2>1
  <2>3. shell[t].force \in BOOLEAN
    BY <1>1 DEF Shells
  <2>4. how \in {"owned", "forced"} /\ (how = "owned" => ~shell[t].force)
    BY <2>3
  <2>5. how = "owned" => server[s].by = "start"
    <3>1. how = "owned" => shell[t].named = s
      BY <1>3, <2>4 DEF StopSafety
    <3> QED BY <3>1, <1>1, <2>1, ServersTyped DEF LifecycleInv, PidsAreStarted, StartedOrDead
  <2> HIDE DEF how
  <2>6. /\ new \in Servers /\ new.stage = "draining" /\ new.by = server[s].by
        /\ new.killed = how
    BY <2>1, <2>4 DEF Servers
  <2>7. /\ c \in Shells /\ c.stage = "stopPolling" /\ c.named = shell[t].named
    <3>1. Polls \in 0..Polls /\ 0 \in Pids \cup {0}
      BY LifecycleBoundsAssumption
    <3> QED BY <1>1, <3>1 DEF Shells
  <2> HIDE DEF new, c
  <2>8. ServerMoves(s, new)
    BY <2>1, <2>2, <2>5, <2>6 DEF ServerMoves
  <2>9. /\ server' \in [Pids -> Servers] /\ ForeignSpared'
        /\ server'[s] = new /\ \A r \in Pids \ {s} : server'[r] = server[r]
        /\ \A r \in Pids : StartedOrDead(r) => StartedOrDead(r)'
    BY <1>1, <2>8, ServerMovesKeep
  <2>10. Step(t, c)
    BY <1>3 DEF c
  <2>11. /\ shell' \in [Terminals -> Shells] /\ shell'[t] = c
         /\ \A u \in Terminals \ {t} : shell'[u] = shell[u]
    BY <2>7, <2>10 DEF Step, LifecycleInv, LifecycleTyped
  <2>12. LifecycleTyped'
    BY <1>1, <2>9, <2>11 DEF LifecycleInv, LifecycleTyped
  <2>13. PidsAreStarted'
    <3>1. \A u \in Terminals : shell'[u].named = shell[u].named
      BY <2>7, <2>11
    <3>2. /\ \A u \in Terminals : shell[u].named \in Pids \cup {0}
                                  /\ StartedOrDead(shell[u].named)
          /\ pidfile \in Pids \cup {0} /\ StartedOrDead(pidfile)
      BY DEF LifecycleInv, LifecycleTyped, Shells, PidsAreStarted
    <3>3. \A u \in Terminals : StartedOrDead(shell[u].named)'
      BY <2>9, <3>1, <3>2 DEF StartedOrDead
    <3>4. StartedOrDead(pidfile)'
      BY <1>1, <2>9, <3>2 DEF StartedOrDead
    <3>5. \A u \in Terminals : shell'[u].stage = "judging" => shell'[u].live \in Pids
      BY <2>7, <2>11 DEF LifecycleInv, PidsAreStarted
    <3> QED BY <3>3, <3>4, <3>5 DEF PidsAreStarted
  <2>14. CalmInOrder'
    <3>1. \A r \in Pids : server'[r].stage \in {"booting", "live"} => server'[r] = server[r]
      BY <2>6, <2>9
    <3>2. \A u \in Terminals : shell'[u].stage = "idle" <=> shell[u].stage = "idle"
      BY <1>1, <2>7, <2>11
    <3>3. CASE calm
      <4>1. \A r \in Pids : server[r].stage # "booting"
        BY <1>1, <3>3 DEF LifecycleInv, CalmInOrder
      <4>2. \A r \in Pids : server'[r].stage # "booting"
        BY <3>1, <4>1
      <4>3. \A r \in Pids : server'[r].stage \in {"booting", "live"} => pidfile' = r
        BY <1>1, <3>1, <3>3 DEF LifecycleInv, CalmInOrder
      <4>4. \A u, v \in Terminals :
              shell'[u].stage # "idle" /\ shell'[v].stage # "idle" => u = v
        BY <3>2, <3>3 DEF LifecycleInv, CalmInOrder
      <4> QED BY <4>2, <4>3, <4>4 DEF CalmInOrder
    <3>4. CASE ~calm
      BY <1>1, <3>4 DEF CalmInOrder
    <3> QED BY <3>3, <3>4
  <2> QED BY <2>9, <2>12, <2>13, <2>14 DEF LifecycleInv
<1> QED BY <1>2, <1>3 DEF Judges

LEMMA LifecycleStep == LifecycleInv /\ [LifecycleNext]_lifecycleVars => LifecycleInv'
<1> SUFFICES ASSUME LifecycleInv, [LifecycleNext]_lifecycleVars PROVE LifecycleInv'
  OBVIOUS
<1>1. calm \in BOOLEAN
  BY DEF LifecycleInv, LifecycleTyped
<1>2. ASSUME NEW t \in Terminals, StartGivesUp(t) \/ Interrupted(t) PROVE LifecycleInv'
  BY <1>1, <1>2, CommandEnds DEF StartGivesUp, Interrupted
<1>3. CASE UNCHANGED lifecycleVars
  BY <1>3 DEF lifecycleVars, LifecycleInv, LifecycleTyped, PidsAreStarted, StartedOrDead,
     CalmInOrder, ForeignSpared
<1> QED BY <1>2, <1>3, ServerStep, GivenKeeps, ProbeAnsweredKeeps, NobodyAnswersKeeps,
           JudgesKeeps DEF LifecycleNext

THEOREM LifecycleInvariant == LifecycleSpec => []LifecycleInv
BY LifecycleStart, LifecycleStep, PTL DEF LifecycleSpec

\* lifecycle.ts: however starts, stops and restarts fail, are interrupted or
\* overlap, a server of another launcher is not killed without --force; and
\* undisturbed, a server that is up is the one `aot stop' will stop.
THEOREM StopIsAlwaysSafe == LifecycleSpec => []StopIsSafe
<1>1. LifecycleInv => StopIsSafe
  BY DEF LifecycleInv, CalmInOrder, StopIsSafe, OwnServerIsNamed
<1> QED BY <1>1, LifecycleInvariant, PTL

-----------------------------------------------------------------------------
(* MultiplayerRoom: the inductive invariant.                               *)

RoomMessages == [from : Browsers, fleet : Int]
RoomPages ==
  [on : BOOLEAN, imported : BOOLEAN, attempts : Nat, current : Nat,
   timer : BOOLEAN, peers : UNION {[S -> Int] : S \in SUBSET Browsers}]
RoomSockets ==
  [owner : Browsers, state : {"connecting", "open", "down", Closed},
   inbox : Seq(RoomMessages), import : BOOLEAN, drops : Nat]

RoomTypeOK ==
  /\ page \in [Browsers -> RoomPages]
  /\ sockets \in Seq(RoomSockets)
  /\ fleetOf \in [Browsers -> Int]
  /\ sameDevice \in BOOLEAN
  /\ changes \in Nat

\* A browser's connection is its own.
CurrentIsOwn ==
  \A b \in Browsers :
    \/ page[b].current = 0
    \/ /\ page[b].current \in DOMAIN sockets
       /\ sockets[page[b].current].owner = b

\* Before the library is imported no socket of the page is alive; and one that
\* is down has been dropped.
AliveInOrder ==
  \A s \in DOMAIN sockets :
    /\ sockets[s].state # Closed => page[sockets[s].owner].imported
    /\ sockets[s].state = "down" => sockets[s].drops # 0

From(q, p) == {i \in DOMAIN q : q[i].from = p}

\* Of a browser none of whose sockets has ever opened nobody has heard.
Unheard(b) ==
  /\ \A s \in DOMAIN sockets : From(sockets[s].inbox, b) = {}
  /\ \A q \in Browsers : b \notin DOMAIN page[q].peers
OnlyTheOpenAreHeard ==
  \A b \in Browsers :
    (\A s \in DOMAIN sockets :
       sockets[s].owner = b => sockets[s].state = "connecting") => Unheard(b)

\* It has joined once, and has not lost its connection.
Lone(b) ==
  /\ IsOpen(b, sockets)
  /\ \A s \in DOMAIN sockets :
       sockets[s].owner = b => s = page[b].current /\ sockets[s].drops = 0

Box(b) == sockets[page[b].current].inbox

\* The last that q says of p is fleet f.
Says(q, p, f) ==
  \E i \in From(q, p) : q[i].fleet = f /\ \A j \in From(q, p) : j <= i

\* b knows what p shares now, or a message on its way says so, or p's timer
\* runs, or p will hear of b for the first time and answer.
Told(b, p) ==
  \/ page[p].timer
  \/ Says(Box(b), p, fleetOf[p])
  \/ /\ From(Box(b), p) = {}
     /\ p \in DOMAIN page[b].peers /\ page[b].peers[p] = fleetOf[p]
  \/ /\ b \notin DOMAIN page[p].peers
     /\ \/ page[b].timer
        \/ fleetOf[b] = NoFleet
        \/ From(Box(p), b) # {}

LonesAreTold ==
  ~sameDevice =>
    \A b, p \in Browsers :
      b # p /\ Lone(b) /\ Lone(p) /\ fleetOf[p] # NoFleet => Told(b, p)

RoomInv ==
  /\ RoomTypeOK /\ CurrentIsOwn /\ AliveInOrder
  /\ OnlyTheImportLeaks /\ OneDeviceIsNoPeer
  /\ OnlyTheOpenAreHeard /\ LonesAreTold

-----------------------------------------------------------------------------
(* What is on its way.                                                     *)

\* A message that is appended is the last of its sender, and leaves what
\* others have said as it is.
LEMMA MailIsAdded ==
  ASSUME NEW q \in Seq(RoomMessages), NEW c \in Browsers, NEW f \in Int,
         NEW p \in Browsers
  PROVE  LET r == Append(q, [from |-> c, fleet |-> f]) IN
         /\ r \in Seq(RoomMessages)
         /\ Says(r, c, f) /\ From(r, c) # {}
         /\ From(q, p) # {} => From(r, p) # {}
         /\ p # c => From(r, p) = From(q, p)
         /\ p # c => \A g \in Int : Says(q, p, g) => Says(r, p, g)
<1> DEFINE m == [from |-> c, fleet |-> f]
           r == Append(q, m)
           n == Len(q)
<1>1. m \in RoomMessages /\ m.from = c /\ m.fleet = f
  BY DEF RoomMessages
<1> HIDE DEF m
<1>2. /\ r \in Seq(RoomMessages) /\ n \in Nat
      /\ DOMAIN q = 1..n /\ DOMAIN r = 1..(n + 1)
      /\ r[n + 1] = m /\ \A i \in 1..n : r[i] = q[i]
  BY <1>1
<1> HIDE DEF r, n
<1>3. n + 1 \in From(r, c) /\ r[n + 1].fleet = f /\ \A j \in From(r, c) : j <= n + 1
  BY <1>1, <1>2 DEF From
<1>4. Says(r, c, f) /\ From(r, c) # {}
  BY <1>3 DEF Says
<1>5. \A i \in From(q, p) : i \in From(r, p)
  BY <1>2 DEF From
<1>6. p # c => From(r, p) = From(q, p)
  BY <1>1, <1>2 DEF From
<1>7. p # c => \A g \in Int : Says(q, p, g) => Says(r, p, g)
  BY <1>2, <1>6 DEF Says, From
<1> QED
  BY <1>2, <1>4, <1>5, <1>6, <1>7 DEF r, m

\* Reading the first message leaves what was said last, unless it said it.
LEMMA MailIsRead ==
  ASSUME NEW q \in Seq(RoomMessages), q # <<>>, NEW p \in Browsers
  PROVE  /\ Head(q) \in RoomMessages /\ Tail(q) \in Seq(RoomMessages)
         /\ From(q, p) = {} => From(Tail(q), p) = {} /\ Head(q).from # p
         /\ From(q, p) # {} => Head(q).from = p \/ From(Tail(q), p) # {}
         /\ \A g \in Int : Says(q, p, g) =>
              \/ Says(Tail(q), p, g)
              \/ From(Tail(q), p) = {} /\ Head(q).from = p /\ Head(q).fleet = g
<1> DEFINE r == Tail(q)
           n == Len(q)
<1>1. /\ Head(q) = q[1] /\ q[1] \in RoomMessages
      /\ r \in Seq(RoomMessages) /\ n \in Nat /\ n >= 1
      /\ DOMAIN q = 1..n /\ DOMAIN r = 1..(n - 1)
      /\ \A i \in 1..(n - 1) : r[i] = q[i + 1]
  OBVIOUS
<1> HIDE DEF r, n
<1>2. \A i \in From(r, p) : i + 1 \in From(q, p) /\ r[i] = q[i + 1] /\ i \in Nat
  BY <1>1 DEF From
<1>3. \A i \in From(q, p) : i # 1 => i - 1 \in From(r, p) /\ r[i - 1] = q[i]
  <2>1. TAKE i \in From(q, p)
  <2>2. HAVE i # 1
  <2>3. i \in 1..n /\ q[i].from = p
    BY <1>1 DEF From
  <2>4. i - 1 \in 1..(n - 1) /\ (i - 1) + 1 = i
    BY <1>1, <2>2, <2>3
  <2> QED
    BY <1>1, <2>3, <2>4 DEF From
<1>4. 1 \in From(q, p) <=> q[1].from = p
  BY <1>1 DEF From
<1>5. From(q, p) = {} => From(r, p) = {} /\ q[1].from # p
  BY <1>2, <1>4
<1>6. From(q, p) # {} => q[1].from = p \/ From(r, p) # {}
  BY <1>3, <1>4
<1>7. ASSUME NEW g \in Int, Says(q, p, g)
      PROVE  \/ Says(r, p, g)
             \/ From(r, p) = {} /\ q[1].from = p /\ q[1].fleet = g
  <2>1. PICK i \in From(q, p) : q[i].fleet = g /\ \A j \in From(q, p) : j <= i
    BY <1>7 DEF Says
  <2>2. From(q, p) \subseteq 1..n /\ From(r, p) \subseteq Nat
    BY <1>1, <1>2 DEF From
  <2>3. CASE i = 1
    <3>1. \A j \in From(r, p) : j + 1 <= 1 /\ j >= 1
      BY <1>1, <1>2, <2>1, <2>3 DEF From
    <3>2. From(r, p) = {}
      BY <3>1, <2>2
    <3> QED
      BY <3>2, <2>1, <2>3, <1>4
  <2>4. CASE i # 1
    <3>1. i - 1 \in From(r, p) /\ r[i - 1].fleet = g
      BY <1>3, <2>1, <2>4
    <3>2. \A j \in From(r, p) : j <= i - 1
      BY <1>2, <2>1, <2>2
    <3> QED
      BY <3>1, <3>2 DEF Says
  <2> QED
    BY <2>3, <2>4
<1> QED
  BY <1>1, <1>5, <1>6, <1>7 DEF r


-----------------------------------------------------------------------------
(* The steps.                                                              *)

\* A socket that changes only in what it is about to deliver.
SameSocket(s, t) ==
  /\ s.owner = t.owner /\ s.state = t.state /\ s.import = t.import
  /\ s.drops = t.drops

\* What the relay does to the sockets: every open one gets the fleet, and
\* nothing else changes.
LEMMA RelayReaches ==
  ASSUME RoomTypeOK, NEW all \in Seq(RoomSockets), NEW c \in Browsers
  PROVE  /\ Relayed(all, c) \in Seq(RoomSockets)
         /\ DOMAIN Relayed(all, c) = DOMAIN all
         /\ \A s \in DOMAIN all :
              /\ SameSocket(Relayed(all, c)[s], all[s])
              /\ Relayed(all, c)[s].inbox =
                   IF all[s].state = "open" /\ fleetOf[c] # NoFleet
                   THEN Append(all[s].inbox, [from |-> c, fleet |-> fleetOf[c]])
                   ELSE all[s].inbox
<1> DEFINE m == [from |-> c, fleet |-> fleetOf[c]]
<1>1. m \in RoomMessages
  BY DEF RoomTypeOK, RoomMessages
<1>2. CASE fleetOf[c] = NoFleet
  BY <1>2 DEF Relayed, SameSocket
<1>3. CASE fleetOf[c] # NoFleet
  <2> HIDE DEF m
  <2> DEFINE next(s) == IF all[s].state # "open" THEN all[s]
                        ELSE [all[s] EXCEPT !.inbox = Append(@, m)]
  <2>1. Relayed(all, c) = [s \in DOMAIN all |-> next(s)]
    BY <1>3 DEF Relayed, m
  <2>2. ASSUME NEW s \in DOMAIN all
        PROVE  /\ next(s) \in RoomSockets /\ SameSocket(next(s), all[s])
               /\ next(s).inbox = IF all[s].state = "open"
                                  THEN Append(all[s].inbox, m) ELSE all[s].inbox
    <3>0. all[s] \in RoomSockets
      OBVIOUS
    <3>1. all[s] \in RoomSockets /\ all[s].inbox \in Seq(RoomMessages)
      BY <3>0 DEF RoomSockets
    <3> DEFINE more == Append(all[s].inbox, m)
    <3>2. more \in Seq(RoomMessages)
      BY <1>1, <3>1
    <3> HIDE DEF more
    <3>3. next(s) = IF all[s].state # "open" THEN all[s]
                    ELSE [all[s] EXCEPT !.inbox = more]
      BY DEF more
    <3> HIDE DEF next
    <3>4. CASE all[s].state = "open"
      BY <3>1, <3>2, <3>3, <3>4 DEF RoomSockets, SameSocket, more
    <3>5. CASE all[s].state # "open"
      BY <3>1, <3>3, <3>5 DEF SameSocket
    <3> QED
      BY <3>4, <3>5
  <2> HIDE DEF next
  <2>3. DOMAIN all = 1..Len(all) /\ Len(all) \in Nat
    OBVIOUS
  <2>4. [s \in DOMAIN all |-> next(s)] \in Seq(RoomSockets)
    BY <2>2, <2>3
  <2> QED
    BY <1>3, <2>1, <2>2, <2>4 DEF m
<1> QED
  BY <1>2, <1>3

\* SameSocket, but for what is to be delivered.
LEMMA ClosedSocket ==
  ASSUME NEW all \in Seq(RoomSockets), NEW s \in DOMAIN all
  PROVE  /\ CloseSocket(all, s) \in Seq(RoomSockets)
         /\ DOMAIN CloseSocket(all, s) = DOMAIN all
         /\ CloseSocket(all, s)[s].state = Closed
         /\ CloseSocket(all, s)[s].owner = all[s].owner
         /\ CloseSocket(all, s)[s].import = all[s].import
         /\ CloseSocket(all, s)[s].inbox = <<>>
         /\ \A t \in DOMAIN all \ {s} : CloseSocket(all, s)[t] = all[t]
<1>1. all[s] \in RoomSockets
  OBVIOUS
<1> DEFINE c == [all[s] EXCEPT !.state = Closed, !.inbox = <<>>]
<1>2. <<>> \in Seq(RoomMessages)
  OBVIOUS
<1>3. /\ c \in RoomSockets /\ c.state = Closed /\ c.owner = all[s].owner
      /\ c.import = all[s].import /\ c.inbox = <<>>
  BY <1>1, <1>2, Zenon DEF RoomSockets
<1> HIDE DEF c
<1>4. CloseSocket(all, s) = [all EXCEPT ![s] = c]
  BY DEF CloseSocket, c
<1> QED
  BY <1>3, <1>4


LEMMA MadeIsASocket ==
  ASSUME NEW b \in Browsers, NEW import \in BOOLEAN
  PROVE  /\ Made(b, import) \in RoomSockets
         /\ Made(b, import).owner = b /\ Made(b, import).state = "connecting"
         /\ Made(b, import).inbox = <<>> /\ Made(b, import).import = import
         /\ Made(b, import).drops = 0
<1>1. <<>> \in Seq(RoomMessages)
  OBVIOUS
<1> QED
  BY <1>1 DEF Made, RoomSockets

LEMMA NoPeersIsPeers ==
  NoPeers \in UNION {[S -> Int] : S \in SUBSET Browsers} /\ DOMAIN NoPeers = {}
<1>1. NoPeers \in [{} -> Int] /\ {} \in SUBSET Browsers
  BY DEF NoPeers
<1> QED
  BY <1>1

\* A socket's maker, its kind and, once it is closed, its end never change; and
\* what is new is connecting.
SocketsGoOn ==
  /\ DOMAIN sockets \subseteq DOMAIN sockets'
  /\ \A s \in DOMAIN sockets :
       /\ sockets'[s].owner = sockets[s].owner
       /\ sockets'[s].import = sockets[s].import
  /\ \A s \in DOMAIN sockets' \ DOMAIN sockets :
       /\ sockets'[s].state = "connecting" /\ sockets'[s].inbox = <<>>

PagesOfOthers(b) == \A c \in Browsers \ {b} : page'[c] = page[c]

LEMMA FleetEffect ==
  ASSUME RoomTypeOK, NEW b \in Browsers, NEW fleet \in {NoShare, changes + 1},
         FleetChanges(b, fleet)
  PROVE  /\ RoomTypeOK'
         /\ sockets' = sockets /\ PagesOfOthers(b)
         /\ page'[b].on = page[b].on /\ page'[b].imported = page[b].imported
         /\ page'[b].current = page[b].current /\ page'[b].peers = page[b].peers
         /\ page'[b].timer = Scheduled(b, page[b].timer)
         /\ fleetOf'[b] # NoFleet
         /\ \A c \in Browsers \ {b} : fleetOf'[c] = fleetOf[c]
<1>1. /\ page[b] \in RoomPages /\ fleet \in Int /\ fleet # NoFleet
      /\ changes' \in Nat
  BY DEF RoomTypeOK, FleetChanges, NoShare, NoFleet
<1> DEFINE t == Scheduled(b, page[b].timer)
<1>2. t \in BOOLEAN
  BY <1>1 DEF Scheduled, IsOpen, RoomPages
<1> HIDE DEF t
<1> DEFINE n == [page[b] EXCEPT !.timer = t]
<1>3. /\ n \in RoomPages /\ n.on = page[b].on /\ n.imported = page[b].imported
      /\ n.current = page[b].current /\ n.peers = page[b].peers /\ n.timer = t
  BY <1>1, <1>2 DEF RoomPages
<1>4. page' = [page EXCEPT ![b] = n]
  BY DEF FleetChanges, t
<1> HIDE DEF n
<1>5. page' \in [Browsers -> RoomPages] /\ page'[b] = n /\ PagesOfOthers(b)
  BY <1>3, <1>4 DEF RoomTypeOK, PagesOfOthers
<1>6. /\ fleetOf' \in [Browsers -> Int] /\ fleetOf'[b] = fleet
      /\ \A c \in Browsers \ {b} : fleetOf'[c] = fleetOf[c]
  BY <1>1 DEF FleetChanges, RoomTypeOK
<1>7. sockets' = sockets /\ sameDevice' = sameDevice
  BY DEF FleetChanges
<1> QED
  BY <1>1, <1>3, <1>5, <1>6, <1>7 DEF RoomTypeOK, t

LEMMA ArriveEffect ==
  ASSUME RoomTypeOK, CurrentIsOwn, NEW b \in Browsers, NEW on \in BOOLEAN,
         SettingsArrive(b, on)
  PROVE  /\ RoomTypeOK' /\ SocketsGoOn /\ PagesOfOthers(b)
         /\ fleetOf' = fleetOf
         /\ \A s \in DOMAIN sockets :
              IF s = page[b].current
              THEN sockets'[s].state = Closed /\ sockets'[s].inbox = <<>>
              ELSE sockets'[s] = sockets[s]
         /\ \A s \in DOMAIN sockets' \ DOMAIN sockets :
              /\ sockets'[s].owner = b /\ ~sockets'[s].import
              /\ sockets'[s].drops = 0
              /\ page'[b].current = s /\ page[b].imported /\ on
         /\ page'[b].current = 0 \/ page'[b].current \in DOMAIN sockets' \ DOMAIN sockets
         /\ page'[b].on = on /\ page'[b].imported = page[b].imported
         /\ page'[b].peers = NoPeers
<1> DEFINE base == WithoutCurrent(b)
           n == Len(sockets)
<1>1. /\ page[b] \in RoomPages /\ sockets \in Seq(RoomSockets)
      /\ n \in Nat /\ DOMAIN sockets = 1..n
  BY DEF RoomTypeOK
<1>2. /\ base \in Seq(RoomSockets) /\ DOMAIN base = DOMAIN sockets /\ Len(base) = n
      /\ \A s \in DOMAIN sockets :
           /\ base[s].owner = sockets[s].owner /\ base[s].import = sockets[s].import
           /\ IF s = page[b].current
              THEN base[s].state = Closed /\ base[s].inbox = <<>>
              ELSE base[s] = sockets[s]
  <2>1. CASE page[b].current = 0
    BY <1>1, <2>1 DEF WithoutCurrent
  <2>2. CASE page[b].current # 0
    <3> DEFINE c == page[b].current
    <3>1. c \in DOMAIN sockets /\ base = CloseSocket(sockets, c)
      BY <2>2 DEF CurrentIsOwn, WithoutCurrent
    <3> HIDE DEF c, base
    <3>2. /\ base \in Seq(RoomSockets)
          /\ DOMAIN base = DOMAIN sockets
          /\ base[c].state = Closed
          /\ base[c].owner = sockets[c].owner
          /\ base[c].import = sockets[c].import
          /\ base[c].inbox = <<>>
          /\ \A t \in DOMAIN sockets \ {c} : base[t] = sockets[t]
      BY <1>1, <3>1, ClosedSocket
    <3>3. Len(base) = n
      BY <1>1, <3>2
    <3> QED
      BY <3>2, <3>3 DEF c
  <2> QED
    BY <2>1, <2>2
<1> DEFINE left == [page[b] EXCEPT !.on = on, !.timer = FALSE, !.current = 0,
                                   !.peers = NoPeers]
<1>3. /\ left \in RoomPages /\ left.on = on /\ left.imported = page[b].imported
      /\ left.current = 0 /\ left.peers = NoPeers /\ left.attempts \in Nat
  BY <1>1, NoPeersIsPeers DEF RoomPages
<1>4. fleetOf' = fleetOf /\ sameDevice' = sameDevice /\ changes' = changes
  BY DEF SettingsArrive
<1>5. CASE on /\ page[b].imported
  <2> DEFINE m == Made(b, FALSE)
             l == [left EXCEPT !.current = n + 1]
  <2>1. /\ m \in RoomSockets /\ m.owner = b /\ m.state = "connecting"
        /\ m.inbox = <<>> /\ ~m.import /\ m.drops = 0
    BY MadeIsASocket
  <2>3. sockets' = Append(base, m) /\ page' = [page EXCEPT ![b] = l]
    BY <1>5 DEF SettingsArrive
  <2> HIDE DEF base, m, left, n
  <2>2. /\ l \in RoomPages /\ l.on = on /\ l.imported = page[b].imported
        /\ l.current = n + 1 /\ l.peers = NoPeers
    BY <1>1, <1>3 DEF RoomPages
  <2> HIDE DEF l
  <2>4. /\ sockets' \in Seq(RoomSockets) /\ DOMAIN sockets' = 1..(n + 1)
        /\ sockets'[n + 1] = m /\ \A s \in 1..n : sockets'[s] = base[s]
    BY <1>1, <1>2, <2>1, <2>3
  <2>5. DOMAIN sockets' \ DOMAIN sockets = {n + 1} /\ DOMAIN sockets \subseteq DOMAIN sockets'
    BY <1>1, <2>4
  <2>6. page' \in [Browsers -> RoomPages] /\ page'[b] = l /\ PagesOfOthers(b)
    BY <2>2, <2>3 DEF RoomTypeOK, PagesOfOthers
  <2>7. RoomTypeOK'
    BY <1>4, <2>4, <2>6 DEF RoomTypeOK
  <2>8. SocketsGoOn
    BY <1>1, <1>2, <2>1, <2>4, <2>5 DEF SocketsGoOn
  <2>9. \A s \in DOMAIN sockets :
           IF s = page[b].current
           THEN sockets'[s].state = Closed /\ sockets'[s].inbox = <<>>
           ELSE sockets'[s] = sockets[s]
    BY <1>1, <1>2, <2>4
  <2>10. \A s \in DOMAIN sockets' \ DOMAIN sockets :
           /\ sockets'[s].owner = b /\ ~sockets'[s].import
           /\ sockets'[s].drops = 0
           /\ page'[b].current = s /\ page[b].imported /\ on
    BY <1>5, <2>1, <2>2, <2>4, <2>5, <2>6
  <2>11. page'[b].current \in DOMAIN sockets' \ DOMAIN sockets
    BY <2>2, <2>5, <2>6
  <2>12. page'[b].on = on /\ page'[b].imported = page[b].imported /\ page'[b].peers = NoPeers
    BY <2>2, <2>6
  <2> QED
    BY <1>4, <2>6, <2>7, <2>8, <2>9, <2>10, <2>11, <2>12
<1>6. CASE ~(on /\ page[b].imported)
  <2> DEFINE l == [left EXCEPT !.attempts = IF on THEN @ + 1 ELSE @]
  <2>3. sockets' = base /\ page' = [page EXCEPT ![b] = l]
    BY <1>6 DEF SettingsArrive
  <2> HIDE DEF base, left, n
  <2> DEFINE a == IF on THEN left.attempts + 1 ELSE left.attempts
  <2>1. a \in Nat /\ l = [left EXCEPT !.attempts = a]
    BY <1>3
  <2> HIDE DEF a
  <2>2. /\ l \in RoomPages /\ l.on = on /\ l.imported = page[b].imported
        /\ l.current = 0 /\ l.peers = NoPeers
    BY <1>3, <2>1 DEF RoomPages
  <2> HIDE DEF l
  <2>6. page' \in [Browsers -> RoomPages] /\ page'[b] = l /\ PagesOfOthers(b)
    BY <2>2, <2>3 DEF RoomTypeOK, PagesOfOthers
  <2>7. RoomTypeOK'
    BY <1>2, <1>4, <2>3, <2>6 DEF RoomTypeOK
  <2>8. SocketsGoOn
    BY <1>2, <2>3 DEF SocketsGoOn
  <2> QED
    BY <1>2, <1>4, <2>2, <2>3, <2>6, <2>7, <2>8
<1> QED
  BY <1>5, <1>6


LEMMA ImportEffect ==
  ASSUME RoomTypeOK, NEW b \in Browsers, ImportEnds(b)
  PROVE  /\ RoomTypeOK' /\ SocketsGoOn /\ PagesOfOthers(b)
         /\ fleetOf' = fleetOf
         /\ \A s \in DOMAIN sockets : sockets'[s] = sockets[s]
         /\ \A s \in DOMAIN sockets' \ DOMAIN sockets :
              sockets'[s].owner = b /\ sockets'[s].import /\ sockets'[s].drops = 0
         /\ page'[b].current \in DOMAIN sockets' \ DOMAIN sockets
         /\ ~page[b].imported /\ page'[b].imported
         /\ page'[b].on = page[b].on /\ page'[b].peers = page[b].peers
<1> DEFINE k == page[b].attempts
           n == Len(sockets)
           m == Made(b, TRUE)
           more == [i \in 1..k |-> m]
           l == [page[b] EXCEPT !.imported = TRUE, !.attempts = 0, !.current = n + k]
<1>1. /\ page[b] \in RoomPages /\ sockets \in Seq(RoomSockets)
      /\ n \in Nat /\ DOMAIN sockets = 1..n
      /\ k \in Nat /\ k > 0
  BY DEF RoomTypeOK, RoomPages, ImportEnds
<1>2. /\ m \in RoomSockets /\ m.owner = b /\ m.state = "connecting"
      /\ m.inbox = <<>> /\ m.import = TRUE /\ m.drops = 0
  BY MadeIsASocket
<1>3. /\ sockets' = sockets \o more /\ page' = [page EXCEPT ![b] = l]
      /\ fleetOf' = fleetOf /\ sameDevice' = sameDevice /\ changes' = changes
      /\ ~page[b].imported
  BY DEF ImportEnds
<1> HIDE DEF k, n, m
<1> DEFINE last == n + k
<1>0. last \in Nat /\ l = [page[b] EXCEPT !.imported = TRUE, !.attempts = 0, !.current = last]
  BY <1>1
<1> HIDE DEF last, l
<1>4. /\ l \in RoomPages /\ l.on = page[b].on /\ l.imported = TRUE
      /\ l.current = last /\ l.peers = page[b].peers
  BY <1>0, <1>1 DEF RoomPages
<1>5. more \in Seq(RoomSockets) /\ Len(more) = k /\ \A i \in 1..k : more[i] = m
  BY <1>1, <1>2
<1> HIDE DEF more
<1>a. /\ sockets \o more \in Seq(RoomSockets)
      /\ Len(sockets \o more) = Len(sockets) + Len(more)
      /\ \A i \in 1..(Len(sockets) + Len(more)) :
           (sockets \o more)[i] = IF i <= Len(sockets) THEN sockets[i]
                                  ELSE more[i - Len(sockets)]
  BY <1>1, <1>5, ConcatProperties
<1>b. Len(sockets) = n
  BY DEF n
<1>c. /\ sockets' \in Seq(RoomSockets) /\ Len(sockets') = n + k
      /\ \A i \in 1..(n + k) : sockets'[i] = IF i <= n THEN sockets[i] ELSE more[i - n]
  BY <1>3, <1>5, <1>a, <1>b
<1>6. /\ sockets' \in Seq(RoomSockets) /\ DOMAIN sockets' = 1..(n + k)
      /\ \A s \in 1..n : sockets'[s] = sockets[s]
      /\ \A s \in 1..(n + k) : s > n => sockets'[s] = more[s - n]
  BY <1>1, <1>c
<1>7. \A s \in (n + 1)..(n + k) : sockets'[s] = m
  <2>1. TAKE s \in (n + 1)..(n + k)
  <2>2. s \in 1..(n + k) /\ s > n /\ s - n \in 1..k
    BY <1>1
  <2> QED
    BY <1>5, <1>6, <2>2
<1>8. /\ DOMAIN sockets' \ DOMAIN sockets = (n + 1)..(n + k)
      /\ DOMAIN sockets \subseteq DOMAIN sockets'
      /\ n + k \in (n + 1)..(n + k)
  BY <1>1, <1>6
<1>9. page' \in [Browsers -> RoomPages] /\ page'[b] = l /\ PagesOfOthers(b)
  BY <1>3, <1>4 DEF RoomTypeOK, PagesOfOthers
<1>10. RoomTypeOK'
  BY <1>3, <1>6, <1>9 DEF RoomTypeOK
<1>11. SocketsGoOn
  BY <1>1, <1>2, <1>6, <1>7, <1>8 DEF SocketsGoOn
<1>12. \A s \in DOMAIN sockets' \ DOMAIN sockets :
         sockets'[s].owner = b /\ sockets'[s].import /\ sockets'[s].drops = 0
  BY <1>2, <1>7, <1>8
<1> QED
  BY <1>1, <1>3, <1>4, <1>6, <1>8, <1>9, <1>10, <1>11, <1>12 DEF last

LEMMA ReloadEffect ==
  ASSUME RoomTypeOK, NEW b \in Browsers, Reloads(b)
  PROVE  /\ RoomTypeOK' /\ SocketsGoOn /\ PagesOfOthers(b)
         /\ DOMAIN sockets' = DOMAIN sockets
         /\ \A s \in DOMAIN sockets :
              IF sockets[s].owner = b
              THEN sockets'[s].state = Closed /\ sockets'[s].inbox = <<>>
              ELSE sockets'[s] = sockets[s]
         /\ ~page'[b].imported /\ page'[b].current = 0 /\ page'[b].peers = NoPeers
         /\ \A c \in Browsers \ {b} : fleetOf'[c] = fleetOf[c]
<1> DEFINE next(s) == IF sockets[s].owner # b THEN sockets[s]
                      ELSE [sockets[s] EXCEPT !.state = Closed, !.inbox = <<>>]
           l == [on |-> FALSE, imported |-> FALSE, attempts |-> 0, current |-> 0,
                 timer |-> FALSE, peers |-> NoPeers]
<1>1. /\ sockets \in Seq(RoomSockets) /\ Len(sockets) \in Nat
      /\ DOMAIN sockets = 1..Len(sockets)
      /\ <<>> \in Seq(RoomMessages)
  BY DEF RoomTypeOK
<1>2. ASSUME NEW s \in DOMAIN sockets
      PROVE  /\ next(s) \in RoomSockets /\ next(s).owner = sockets[s].owner
             /\ next(s).import = sockets[s].import
             /\ IF sockets[s].owner = b
                THEN next(s).state = Closed /\ next(s).inbox = <<>>
                ELSE next(s) = sockets[s]
  <2>1. sockets[s] \in RoomSockets
    BY <1>1
  <2>2. CASE sockets[s].owner # b
    BY <2>1, <2>2
  <2>3. CASE sockets[s].owner = b
    <3> DEFINE c == [sockets[s] EXCEPT !.state = Closed, !.inbox = <<>>]
    <3>1. /\ c \in RoomSockets /\ c.owner = sockets[s].owner
          /\ c.import = sockets[s].import
          /\ c.state = Closed /\ c.inbox = <<>>
      BY <1>1, <2>1, Zenon DEF RoomSockets
    <3>2. next(s) = c
      BY <2>3
    <3> HIDE DEF c, next
    <3> QED
      BY <2>3, <3>1, <3>2
  <2> QED
    BY <2>2, <2>3
<1>3. /\ sockets' = [s \in DOMAIN sockets |-> next(s)]
      /\ page' = [page EXCEPT ![b] = l]
      /\ fleetOf' = [fleetOf EXCEPT ![b] = NoFleet]
      /\ sameDevice' = sameDevice /\ changes' = changes
  BY DEF Reloads
<1>4. l \in RoomPages /\ ~l.imported /\ l.current = 0 /\ l.peers = NoPeers
  BY NoPeersIsPeers DEF RoomPages
<1> HIDE DEF next, l
<1>5. sockets' \in Seq(RoomSockets) /\ DOMAIN sockets' = DOMAIN sockets
  BY <1>1, <1>2, <1>3
<1>6. page' \in [Browsers -> RoomPages] /\ page'[b] = l /\ PagesOfOthers(b)
  BY <1>3, <1>4 DEF RoomTypeOK, PagesOfOthers
<1>7. fleetOf' \in [Browsers -> Int] /\ \A c \in Browsers \ {b} : fleetOf'[c] = fleetOf[c]
  BY <1>3 DEF RoomTypeOK, NoFleet
<1>8. RoomTypeOK'
  BY <1>3, <1>5, <1>6, <1>7 DEF RoomTypeOK
<1>9. SocketsGoOn
  BY <1>2, <1>3, <1>5 DEF SocketsGoOn
<1> QED
  BY <1>2, <1>3, <1>4, <1>5, <1>6, <1>7, <1>8, <1>9

LEMMA OpenEffect ==
  ASSUME RoomTypeOK, NEW s \in DOMAIN sockets, SocketOpens(s)
  PROVE  LET b == sockets[s].owner IN
         /\ RoomTypeOK' /\ SocketsGoOn /\ page' = page /\ fleetOf' = fleetOf
         /\ DOMAIN sockets' = DOMAIN sockets
         /\ b \in Browsers /\ sockets[s].state \in {"connecting", "down"}
         /\ sockets'[s].state = "open"
         /\ \A t \in DOMAIN sockets \ {s} : SameSocket(sockets'[t], sockets[t])
         /\ \A t \in DOMAIN sockets :
              /\ sockets'[t].drops = sockets[t].drops
              /\ sockets'[t].inbox =
                   IF /\ page[b].current = s /\ fleetOf[b] # NoFleet
                      /\ sockets'[t].state = "open"
                   THEN Append(sockets[t].inbox, [from |-> b, fleet |-> fleetOf[b]])
                   ELSE sockets[t].inbox
<1> DEFINE b == sockets[s].owner
           o == [sockets[s] EXCEPT !.state = "open"]
           opened == [sockets EXCEPT ![s] = o]
<1>0. sockets \in Seq(RoomSockets) /\ sockets[s] \in RoomSockets
  BY DEF RoomTypeOK
<1>1. /\ sockets \in Seq(RoomSockets) /\ sockets[s] \in RoomSockets
      /\ b \in Browsers
  BY <1>0 DEF RoomSockets
<1>2. /\ o \in RoomSockets /\ o.state = "open" /\ o.owner = b
      /\ o.import = sockets[s].import /\ o.inbox = sockets[s].inbox
      /\ o.drops = sockets[s].drops
  BY <1>1 DEF RoomSockets
<1>3. /\ sockets' = IF page[b].current = s THEN Relayed(opened, b) ELSE opened
      /\ page' = page /\ fleetOf' = fleetOf /\ sameDevice' = sameDevice
      /\ changes' = changes /\ sockets[s].state \in {"connecting", "down"}
  BY DEF SocketOpens
<1> HIDE DEF o, b
<1>4. /\ opened \in Seq(RoomSockets) /\ DOMAIN opened = DOMAIN sockets
      /\ opened[s] = o /\ \A t \in DOMAIN sockets \ {s} : opened[t] = sockets[t]
  BY <1>1, <1>2
<1> HIDE DEF opened
<1>5. /\ Relayed(opened, b) \in Seq(RoomSockets)
      /\ DOMAIN Relayed(opened, b) = DOMAIN opened
      /\ \A t \in DOMAIN opened :
           /\ SameSocket(Relayed(opened, b)[t], opened[t])
           /\ Relayed(opened, b)[t].inbox =
                IF opened[t].state = "open" /\ fleetOf[b] # NoFleet
                THEN Append(opened[t].inbox, [from |-> b, fleet |-> fleetOf[b]])
                ELSE opened[t].inbox
  BY <1>1, <1>4, RelayReaches
<1>6. /\ sockets' \in Seq(RoomSockets) /\ DOMAIN sockets' = DOMAIN sockets
      /\ \A t \in DOMAIN sockets :
           /\ SameSocket(sockets'[t], opened[t])
           /\ sockets'[t].inbox =
                IF page[b].current = s /\ fleetOf[b] # NoFleet /\ opened[t].state = "open"
                THEN Append(opened[t].inbox, [from |-> b, fleet |-> fleetOf[b]])
                ELSE opened[t].inbox
  <2>1. CASE page[b].current = s
    BY <1>3, <1>4, <1>5, <2>1
  <2>2. CASE page[b].current # s
    BY <1>3, <1>4, <2>2 DEF SameSocket
  <2> QED
    BY <2>1, <2>2
<1>7. \A t \in DOMAIN sockets :
        /\ sockets'[t].drops = sockets[t].drops
        /\ sockets'[t].owner = sockets[t].owner
        /\ sockets'[t].import = sockets[t].import
        /\ opened[t].inbox = sockets[t].inbox
        /\ sockets'[t].state = opened[t].state
        /\ t # s => SameSocket(sockets'[t], sockets[t])
  BY <1>2, <1>4, <1>6 DEF SameSocket, b
<1>8. \A t \in DOMAIN sockets :
        sockets'[t].inbox =
          IF /\ page[b].current = s /\ fleetOf[b] # NoFleet
             /\ sockets'[t].state = "open"
          THEN Append(sockets[t].inbox, [from |-> b, fleet |-> fleetOf[b]])
          ELSE sockets[t].inbox
  BY <1>6, <1>7
<1>9. RoomTypeOK'
  BY <1>3, <1>6 DEF RoomTypeOK
<1>10. SocketsGoOn
  BY <1>6, <1>7 DEF SocketsGoOn
<1> QED
  BY <1>1, <1>2, <1>3, <1>4, <1>6, <1>7, <1>8, <1>9, <1>10 DEF b


LEMMA DropEffect ==
  ASSUME RoomTypeOK, NEW s \in DOMAIN sockets, SocketDrops(s)
  PROVE  /\ RoomTypeOK' /\ SocketsGoOn /\ page' = page /\ fleetOf' = fleetOf
         /\ DOMAIN sockets' = DOMAIN sockets
         /\ sockets[s].state = "open"
         /\ sockets'[s].state = "down" /\ sockets'[s].inbox = <<>>
         /\ sockets'[s].drops \in Nat \ {0}
         /\ \A t \in DOMAIN sockets \ {s} : sockets'[t] = sockets[t]
<1> DEFINE d == sockets[s].drops + 1
           o == [sockets[s] EXCEPT !.state = "down", !.inbox = <<>>, !.drops = d]
<1>1. sockets \in Seq(RoomSockets) /\ sockets[s] \in RoomSockets
  BY DEF RoomTypeOK
<1>2. d \in Nat \ {0} /\ <<>> \in Seq(RoomMessages)
  BY <1>1 DEF RoomSockets
<1>a. sockets' = [sockets EXCEPT ![s] = o]
  BY Zenon DEF SocketDrops
<1>3. /\ sockets' = [sockets EXCEPT ![s] = o]
      /\ page' = page /\ fleetOf' = fleetOf /\ sameDevice' = sameDevice
      /\ changes' = changes /\ sockets[s].state = "open"
  BY <1>a DEF SocketDrops
<1> HIDE DEF d
<1>4. /\ o \in RoomSockets /\ o.state = "down" /\ o.owner = sockets[s].owner
      /\ o.import = sockets[s].import /\ o.inbox = <<>> /\ o.drops = d
  BY <1>1, <1>2, Zenon DEF RoomSockets
<1> HIDE DEF o
<1>5. /\ sockets' \in Seq(RoomSockets) /\ DOMAIN sockets' = DOMAIN sockets
      /\ sockets'[s] = o /\ \A t \in DOMAIN sockets \ {s} : sockets'[t] = sockets[t]
  BY <1>1, <1>3, <1>4
<1>6. RoomTypeOK'
  BY <1>3, <1>5 DEF RoomTypeOK
<1>7. SocketsGoOn
  BY <1>4, <1>5 DEF SocketsGoOn
<1> QED
  BY <1>2, <1>3, <1>4, <1>5, <1>6, <1>7

LEMMA TimerEffect ==
  ASSUME RoomTypeOK, NEW b \in Browsers, TimerFires(b)
  PROVE  /\ RoomTypeOK' /\ SocketsGoOn /\ PagesOfOthers(b) /\ fleetOf' = fleetOf
         /\ DOMAIN sockets' = DOMAIN sockets
         /\ page'[b].on = page[b].on /\ page'[b].imported = page[b].imported
         /\ page'[b].current = page[b].current /\ page'[b].peers = page[b].peers
         /\ \A t \in DOMAIN sockets :
              /\ SameSocket(sockets'[t], sockets[t])
              /\ sockets'[t].inbox =
                   IF /\ IsOpen(b, sockets) /\ fleetOf[b] # NoFleet
                      /\ sockets[t].state = "open"
                   THEN Append(sockets[t].inbox, [from |-> b, fleet |-> fleetOf[b]])
                   ELSE sockets[t].inbox
<1> DEFINE l == [page[b] EXCEPT !.timer = FALSE]
<1>1. sockets \in Seq(RoomSockets) /\ page[b] \in RoomPages
  BY DEF RoomTypeOK
<1>2. /\ l \in RoomPages /\ l.on = page[b].on /\ l.imported = page[b].imported
      /\ l.current = page[b].current /\ l.peers = page[b].peers
  BY <1>1 DEF RoomPages
<1>3. /\ page' = [page EXCEPT ![b] = l]
      /\ sockets' = IF IsOpen(b, sockets) THEN Relayed(sockets, b) ELSE sockets
      /\ fleetOf' = fleetOf /\ sameDevice' = sameDevice /\ changes' = changes
  BY DEF TimerFires
<1> HIDE DEF l
<1>4. page' \in [Browsers -> RoomPages] /\ page'[b] = l /\ PagesOfOthers(b)
  BY <1>2, <1>3 DEF RoomTypeOK, PagesOfOthers
<1>5. /\ sockets' \in Seq(RoomSockets) /\ DOMAIN sockets' = DOMAIN sockets
      /\ \A t \in DOMAIN sockets :
           /\ SameSocket(sockets'[t], sockets[t])
           /\ sockets'[t].inbox =
                IF /\ IsOpen(b, sockets) /\ fleetOf[b] # NoFleet
                   /\ sockets[t].state = "open"
                THEN Append(sockets[t].inbox, [from |-> b, fleet |-> fleetOf[b]])
                ELSE sockets[t].inbox
  <2>1. CASE IsOpen(b, sockets)
    <3>1. sockets' = Relayed(sockets, b)
      BY <1>3, <2>1
    <3>2. /\ Relayed(sockets, b) \in Seq(RoomSockets)
          /\ DOMAIN Relayed(sockets, b) = DOMAIN sockets
          /\ \A s \in DOMAIN sockets :
               /\ SameSocket(Relayed(sockets, b)[s], sockets[s])
               /\ Relayed(sockets, b)[s].inbox =
                    IF sockets[s].state = "open" /\ fleetOf[b] # NoFleet
                    THEN Append(sockets[s].inbox, [from |-> b, fleet |-> fleetOf[b]])
                    ELSE sockets[s].inbox
      BY <1>1, RelayReaches
    <3> QED
      BY <2>1, <3>1, <3>2
  <2>2. CASE ~IsOpen(b, sockets)
    BY <1>1, <1>3, <2>2 DEF SameSocket
  <2> QED
    BY <2>1, <2>2
<1>6. RoomTypeOK'
  BY <1>3, <1>4, <1>5 DEF RoomTypeOK
<1>7. SocketsGoOn
  BY <1>5 DEF SocketsGoOn, SameSocket
<1> QED
  BY <1>2, <1>3, <1>4, <1>5, <1>6, <1>7

LEMMA DeliverEffect ==
  ASSUME RoomTypeOK, NEW s \in DOMAIN sockets, Delivered(s)
  PROVE  LET b == sockets[s].owner
             q == sockets[s].inbox
             p == Head(q).from IN
         /\ RoomTypeOK' /\ SocketsGoOn /\ PagesOfOthers(b) /\ fleetOf' = fleetOf
         /\ DOMAIN sockets' = DOMAIN sockets
         /\ b \in Browsers /\ p \in Browsers /\ q \in Seq(RoomMessages) /\ q # <<>>
         /\ SameSocket(sockets'[s], sockets[s]) /\ sockets'[s].inbox = Tail(q)
         /\ \A t \in DOMAIN sockets \ {s} : sockets'[t] = sockets[t]
         /\ page'[b].on = page[b].on /\ page'[b].imported = page[b].imported
         /\ page'[b].current = page[b].current
         /\ IF page[b].current # s \/ p = b \/ sameDevice
            THEN page' = page
            ELSE /\ DOMAIN page'[b].peers = DOMAIN page[b].peers \cup {p}
                 /\ page'[b].peers[p] = Head(q).fleet
                 /\ \A r \in DOMAIN page[b].peers \ {p} :
                      page'[b].peers[r] = page[b].peers[r]
                 /\ page'[b].timer = IF p \notin DOMAIN page[b].peers
                                     THEN Scheduled(b, page[b].timer)
                                     ELSE page[b].timer
<1> DEFINE b == sockets[s].owner
           q == sockets[s].inbox
           p == Head(q).from
           f == Head(q).fleet
           known == page[b].peers
           told == [r \in DOMAIN known \cup {p} |-> IF r = p THEN f ELSE known[r]]
           t == IF p \notin DOMAIN known THEN Scheduled(b, page[b].timer)
                ELSE page[b].timer
           o == [sockets[s] EXCEPT !.inbox = Tail(q)]
           l == [page[b] EXCEPT !.peers = told, !.timer = t]
<1>1. sockets \in Seq(RoomSockets) /\ sockets[s] \in RoomSockets
  BY DEF RoomTypeOK
<1>2. b \in Browsers /\ q \in Seq(RoomMessages) /\ q # <<>>
  BY <1>1 DEF RoomSockets, Delivered
<1>3. Head(q) \in RoomMessages /\ Tail(q) \in Seq(RoomMessages)
  BY <1>2
<1>4. p \in Browsers /\ f \in Int /\ page[b] \in RoomPages
  BY <1>2, <1>3 DEF RoomMessages, RoomTypeOK
<1>a. sockets' = [sockets EXCEPT ![s] = o]
  BY DEF Delivered
<1>b. page' = IF page[b].current # s \/ p = b \/ sameDevice THEN page
              ELSE [page EXCEPT ![b] = l]
  BY Zenon DEF Delivered, Reply
<1>5. /\ sockets' = [sockets EXCEPT ![s] = o]
      /\ page' = IF page[b].current # s \/ p = b \/ sameDevice THEN page
                 ELSE [page EXCEPT ![b] = l]
      /\ fleetOf' = fleetOf /\ sameDevice' = sameDevice /\ changes' = changes
  BY <1>a, <1>b DEF Delivered
<1>6. t \in BOOLEAN
  BY <1>4 DEF Scheduled, IsOpen, RoomPages
<1>7. PICK S \in SUBSET Browsers : known \in [S -> Int]
  BY <1>4 DEF RoomPages
<1> HIDE DEF b, q, p, f, t, known
<1>8. told \in [S \cup {p} -> Int] /\ S \cup {p} \in SUBSET Browsers
  BY <1>4, <1>7
<1>9. /\ DOMAIN told = DOMAIN known \cup {p} /\ told[p] = f
      /\ \A r \in DOMAIN known \ {p} : told[r] = known[r]
  BY <1>7
<1> HIDE DEF told
<1>10. told \in UNION {[R -> Int] : R \in SUBSET Browsers}
  BY <1>8
<1>11. /\ l \in RoomPages /\ l.on = page[b].on /\ l.imported = page[b].imported
       /\ l.current = page[b].current /\ l.peers = told /\ l.timer = t
  BY <1>4, <1>6, <1>10, Zenon DEF RoomPages
<1> HIDE DEF l
<1>12. o \in RoomSockets /\ SameSocket(o, sockets[s]) /\ o.inbox = Tail(q)
  BY <1>1, <1>3 DEF RoomSockets, SameSocket
<1> HIDE DEF o
<1>13. /\ sockets' \in Seq(RoomSockets) /\ DOMAIN sockets' = DOMAIN sockets
       /\ sockets'[s] = o /\ \A r \in DOMAIN sockets \ {s} : sockets'[r] = sockets[r]
  BY <1>1, <1>5, <1>12
<1>14. SocketsGoOn
  BY <1>12, <1>13 DEF SocketsGoOn, SameSocket
<1>15. CASE page[b].current # s \/ p = b \/ sameDevice
  <2>1. page' = page
    BY <1>5, <1>15
  <2>2. RoomTypeOK' /\ PagesOfOthers(b)
    BY <1>5, <1>13, <2>1 DEF RoomTypeOK, PagesOfOthers
  <2> QED
    BY <1>2, <1>4, <1>5, <1>12, <1>13, <1>14, <1>15, <2>1, <2>2 DEF b, q, p
<1>16. CASE ~(page[b].current # s \/ p = b \/ sameDevice)
  <2>1. page' = [page EXCEPT ![b] = l]
    BY <1>5, <1>16
  <2>2. page' \in [Browsers -> RoomPages] /\ page'[b] = l /\ PagesOfOthers(b)
    BY <1>2, <1>11, <2>1 DEF RoomTypeOK, PagesOfOthers
  <2>3. RoomTypeOK'
    BY <1>5, <1>13, <2>2 DEF RoomTypeOK
  <2> QED
    BY <1>2, <1>4, <1>5, <1>9, <1>11, <1>12, <1>13, <1>14, <1>16, <2>2, <2>3
       DEF b, q, p, f, known, t
<1> QED
  BY <1>15, <1>16

LEMMA StaleEffect ==
  ASSUME RoomTypeOK, NEW b \in Browsers, NEW p \in Browsers, PeerGoesStale(b, p)
  PROVE  /\ RoomTypeOK' /\ SocketsGoOn /\ PagesOfOthers(b) /\ fleetOf' = fleetOf
         /\ sockets' = sockets /\ ~IsOpen(p, sockets)
         /\ page'[b].on = page[b].on /\ page'[b].imported = page[b].imported
         /\ page'[b].current = page[b].current /\ page'[b].timer = page[b].timer
         /\ p \in DOMAIN page[b].peers
         /\ DOMAIN page'[b].peers = DOMAIN page[b].peers \ {p}
         /\ \A r \in DOMAIN page[b].peers \ {p} :
              page'[b].peers[r] = page[b].peers[r]
<1> DEFINE known == page[b].peers
           kept == [r \in DOMAIN known \ {p} |-> known[r]]
           l == [page[b] EXCEPT !.peers = kept]
<1>1. page[b] \in RoomPages
  BY DEF RoomTypeOK
<1>2. /\ page' = [page EXCEPT ![b] = l] /\ sockets' = sockets
      /\ fleetOf' = fleetOf /\ sameDevice' = sameDevice /\ changes' = changes
      /\ p \in DOMAIN known /\ ~IsOpen(p, sockets)
  BY DEF PeerGoesStale
<1>3. PICK S \in SUBSET Browsers : known \in [S -> Int]
  BY <1>1 DEF RoomPages
<1> HIDE DEF known
<1>4. kept \in [S \ {p} -> Int] /\ S \ {p} \in SUBSET Browsers
  BY <1>3
<1>5. /\ DOMAIN kept = DOMAIN known \ {p}
      /\ \A r \in DOMAIN known \ {p} : kept[r] = known[r]
  OBVIOUS
<1> HIDE DEF kept
<1>6. kept \in UNION {[R -> Int] : R \in SUBSET Browsers}
  BY <1>4
<1>7. /\ l \in RoomPages /\ l.on = page[b].on /\ l.imported = page[b].imported
      /\ l.current = page[b].current /\ l.peers = kept /\ l.timer = page[b].timer
  BY <1>1, <1>6, Zenon DEF RoomPages
<1> HIDE DEF l
<1>8. page' \in [Browsers -> RoomPages] /\ page'[b] = l /\ PagesOfOthers(b)
  BY <1>2, <1>7 DEF RoomTypeOK, PagesOfOthers
<1>9. RoomTypeOK' /\ SocketsGoOn
  BY <1>2, <1>8 DEF RoomTypeOK, SocketsGoOn
<1> QED
  BY <1>2, <1>5, <1>7, <1>8, <1>9 DEF known


-----------------------------------------------------------------------------
(* The steps keep the invariant.                                           *)

LEMMA RoomTypeStep ==
  ASSUME RoomTypeOK, CurrentIsOwn, RoomNext
  PROVE  RoomTypeOK' /\ SocketsGoOn
<1>1. ASSUME NEW b \in Browsers, NEW fleet \in {NoShare, changes + 1}, FleetChanges(b, fleet)
      PROVE  RoomTypeOK' /\ SocketsGoOn
  BY <1>1, FleetEffect DEF SocketsGoOn
<1>2. ASSUME NEW b \in Browsers, NEW on \in BOOLEAN, SettingsArrive(b, on)
      PROVE  RoomTypeOK' /\ SocketsGoOn
  BY <1>2, ArriveEffect
<1>3. ASSUME NEW b \in Browsers, ImportEnds(b)
      PROVE  RoomTypeOK' /\ SocketsGoOn
  BY <1>3, ImportEffect
<1>4. ASSUME NEW b \in Browsers, Reloads(b)
      PROVE  RoomTypeOK' /\ SocketsGoOn
  BY <1>4, ReloadEffect
<1>5. ASSUME NEW b \in Browsers, TimerFires(b)
      PROVE  RoomTypeOK' /\ SocketsGoOn
  BY <1>5, TimerEffect
<1>6. ASSUME NEW b \in Browsers, NEW p \in Browsers \ {b}, PeerGoesStale(b, p)
      PROVE  RoomTypeOK' /\ SocketsGoOn
  BY <1>6, StaleEffect
<1>7. ASSUME NEW s \in DOMAIN sockets, SocketOpens(s)
      PROVE  RoomTypeOK' /\ SocketsGoOn
  BY <1>7, OpenEffect
<1>8. ASSUME NEW s \in DOMAIN sockets, SocketDrops(s)
      PROVE  RoomTypeOK' /\ SocketsGoOn
  BY <1>8, DropEffect
<1>9. ASSUME NEW s \in DOMAIN sockets, Delivered(s)
      PROVE  RoomTypeOK' /\ SocketsGoOn
  BY <1>9, DeliverEffect
<1> QED
  BY <1>1, <1>2, <1>3, <1>4, <1>5, <1>6, <1>7, <1>8, <1>9 DEF RoomNext

\* A page whose connection stays keeps it as its own.
LEMMA OwnStep ==
  ASSUME RoomTypeOK, CurrentIsOwn, RoomNext
  PROVE  CurrentIsOwn'
<1> DEFINE Fine(c) == \/ page'[c].current = 0
                      \/ /\ page'[c].current \in DOMAIN sockets'
                         /\ sockets'[page'[c].current].owner = c
<1>0. SocketsGoOn
  BY RoomTypeStep
<1>a. ASSUME NEW c \in Browsers, page'[c].current = page[c].current
      PROVE  Fine(c)
  BY <1>0, <1>a DEF CurrentIsOwn, SocketsGoOn
<1>b. ASSUME NEW b \in Browsers, PagesOfOthers(b), Fine(b)
      PROVE  CurrentIsOwn'
  BY <1>a, <1>b DEF CurrentIsOwn, PagesOfOthers
<1> HIDE DEF Fine
<1>1. ASSUME NEW b \in Browsers, NEW fleet \in {NoShare, changes + 1}, FleetChanges(b, fleet)
      PROVE  CurrentIsOwn'
  BY <1>1, <1>a, <1>b, FleetEffect
<1>2. ASSUME NEW b \in Browsers, NEW on \in BOOLEAN, SettingsArrive(b, on)
      PROVE  CurrentIsOwn'
  <2>1. PagesOfOthers(b) /\ Fine(b)
    BY <1>2, ArriveEffect DEF Fine
  <2> QED
    BY <1>b, <2>1
<1>3. ASSUME NEW b \in Browsers, ImportEnds(b)
      PROVE  CurrentIsOwn'
  <2>1. PagesOfOthers(b) /\ Fine(b)
    BY <1>3, ImportEffect DEF Fine
  <2> QED
    BY <1>b, <2>1
<1>4. ASSUME NEW b \in Browsers, Reloads(b)
      PROVE  CurrentIsOwn'
  <2>1. PagesOfOthers(b) /\ Fine(b)
    BY <1>4, ReloadEffect DEF Fine
  <2> QED
    BY <1>b, <2>1
<1>5. ASSUME NEW b \in Browsers, TimerFires(b)
      PROVE  CurrentIsOwn'
  BY <1>5, <1>a, <1>b, TimerEffect
<1>6. ASSUME NEW b \in Browsers, NEW p \in Browsers \ {b}, PeerGoesStale(b, p)
      PROVE  CurrentIsOwn'
  BY <1>6, <1>a, <1>b, StaleEffect
<1>7. ASSUME NEW s \in DOMAIN sockets, SocketOpens(s)
      PROVE  CurrentIsOwn'
  <2>1. \A c \in Browsers : Fine(c)
    BY <1>7, <1>a, OpenEffect
  <2> QED
    BY <2>1 DEF Fine, CurrentIsOwn
<1>8. ASSUME NEW s \in DOMAIN sockets, SocketDrops(s)
      PROVE  CurrentIsOwn'
  <2>1. \A c \in Browsers : Fine(c)
    BY <1>8, <1>a, DropEffect
  <2> QED
    BY <2>1 DEF Fine, CurrentIsOwn
<1>9. ASSUME NEW s \in DOMAIN sockets, Delivered(s)
      PROVE  CurrentIsOwn'
  BY <1>9, <1>a, <1>b, DeliverEffect
<1> QED
  BY <1>1, <1>2, <1>3, <1>4, <1>5, <1>6, <1>7, <1>8, <1>9 DEF RoomNext

\* What a socket that is alive, or down, owes its page.
InOrder(s) ==
  /\ sockets[s].state # Closed => page[sockets[s].owner].imported
  /\ sockets[s].state = "down" => sockets[s].drops # 0
  /\ sockets[s].state # Closed /\ ~sockets[s].import =>
       /\ page[sockets[s].owner].current = s /\ page[sockets[s].owner].on

LEMMA AllInOrder ==
  (AliveInOrder /\ OnlyTheImportLeaks) <=> \A s \in DOMAIN sockets : InOrder(s)
BY DEF AliveInOrder, OnlyTheImportLeaks, InOrder

LEMMA AliveStep ==
  ASSUME RoomTypeOK, CurrentIsOwn, AliveInOrder, OnlyTheImportLeaks, RoomNext
  PROVE  (AliveInOrder /\ OnlyTheImportLeaks)'
<1>1. SocketsGoOn /\ RoomTypeOK' /\ \A s \in DOMAIN sockets : InOrder(s)
  BY RoomTypeStep, AllInOrder
<1> SUFFICES ASSUME NEW s \in DOMAIN sockets'
             PROVE  InOrder(s)'
  BY DEF AliveInOrder, OnlyTheImportLeaks, InOrder
<1>2. \A t \in DOMAIN sockets' : sockets'[t] \in RoomSockets /\ sockets'[t].owner \in Browsers
  <2>1. TAKE t \in DOMAIN sockets'
  <2>2. sockets'[t] \in RoomSockets
    BY <1>1 DEF RoomTypeOK
  <2> QED
    BY <2>2 DEF RoomSockets
<1>3. ASSUME NEW b \in Browsers, NEW fleet \in {NoShare, changes + 1}, FleetChanges(b, fleet)
      PROVE  InOrder(s)'
  <2>1. sockets' = sockets /\ PagesOfOthers(b)
        /\ page'[b].on = page[b].on /\ page'[b].imported = page[b].imported
        /\ page'[b].current = page[b].current
    BY <1>3, FleetEffect
  <2> QED
    BY <1>1, <1>2, <2>1 DEF InOrder, PagesOfOthers
<1>4. ASSUME NEW b \in Browsers, NEW on \in BOOLEAN, SettingsArrive(b, on)
      PROVE  InOrder(s)'
  <2>1. /\ PagesOfOthers(b)
        /\ \A t \in DOMAIN sockets :
              IF t = page[b].current THEN sockets'[t].state = Closed
              ELSE sockets'[t] = sockets[t]
        /\ \A t \in DOMAIN sockets' \ DOMAIN sockets :
              /\ sockets'[t].owner = b /\ ~sockets'[t].import
              /\ sockets'[t].state = "connecting"
              /\ page'[b].current = t /\ page[b].imported /\ on
        /\ page'[b].on = on /\ page'[b].imported = page[b].imported
    BY <1>4, ArriveEffect DEF SocketsGoOn
  <2>2. CASE s \notin DOMAIN sockets
    BY <2>1, <2>2 DEF InOrder, Closed
  <2>3. CASE s \in DOMAIN sockets /\ s = page[b].current
    BY <2>1, <2>3 DEF InOrder, Closed
  <2>4. CASE s \in DOMAIN sockets /\ s # page[b].current
    <3>1. sockets'[s] = sockets[s] /\ InOrder(s) /\ sockets[s].owner \in Browsers
      BY <1>1, <1>2, <2>1, <2>4
    <3>2. CASE sockets[s].owner = b
      BY <2>1, <2>4, <3>1, <3>2 DEF InOrder
    <3>3. CASE sockets[s].owner # b
      BY <2>1, <3>1, <3>3 DEF InOrder, PagesOfOthers
    <3> QED
      BY <3>2, <3>3
  <2> QED
    BY <2>2, <2>3, <2>4
<1>5. ASSUME NEW b \in Browsers, ImportEnds(b)
      PROVE  InOrder(s)'
  <2>1. /\ PagesOfOthers(b)
        /\ \A t \in DOMAIN sockets : sockets'[t] = sockets[t]
        /\ \A t \in DOMAIN sockets' \ DOMAIN sockets :
              /\ sockets'[t].owner = b /\ sockets'[t].import
              /\ sockets'[t].state = "connecting"
        /\ ~page[b].imported /\ page'[b].imported
    BY <1>5, ImportEffect DEF SocketsGoOn
  <2>2. CASE s \notin DOMAIN sockets
    BY <2>1, <2>2 DEF InOrder, Closed
  <2>4. CASE s \in DOMAIN sockets
    <3>1. sockets'[s] = sockets[s] /\ InOrder(s) /\ sockets[s].owner \in Browsers
      BY <1>1, <1>2, <2>1, <2>4
    <3>2. CASE sockets[s].owner = b
      BY <2>1, <2>4, <3>1, <3>2 DEF InOrder, Closed
    <3>3. CASE sockets[s].owner # b
      BY <2>1, <3>1, <3>3 DEF InOrder, PagesOfOthers
    <3> QED
      BY <3>2, <3>3
  <2> QED
    BY <2>2, <2>4
<1>6. ASSUME NEW b \in Browsers, Reloads(b)
      PROVE  InOrder(s)'
  <2>1. /\ PagesOfOthers(b) /\ DOMAIN sockets' = DOMAIN sockets
        /\ IF sockets[s].owner = b THEN sockets'[s].state = Closed
           ELSE sockets'[s] = sockets[s]
    BY <1>6, ReloadEffect
  <2>2. InOrder(s) /\ sockets[s].owner \in Browsers
    BY <1>1, <1>2, <2>1 DEF SocketsGoOn
  <2> QED
    BY <2>1, <2>2 DEF InOrder, PagesOfOthers, Closed
<1>7. ASSUME NEW b \in Browsers, TimerFires(b)
      PROVE  InOrder(s)'
  <2>1. /\ PagesOfOthers(b) /\ DOMAIN sockets' = DOMAIN sockets
        /\ page'[b].on = page[b].on /\ page'[b].imported = page[b].imported
        /\ page'[b].current = page[b].current
        /\ SameSocket(sockets'[s], sockets[s])
    BY <1>7, TimerEffect
  <2>2. InOrder(s) /\ sockets[s].owner \in Browsers
    BY <1>1, <1>2, <2>1 DEF SocketsGoOn
  <2> QED
    BY <2>1, <2>2 DEF InOrder, PagesOfOthers, SameSocket
<1>8. ASSUME NEW b \in Browsers, NEW p \in Browsers \ {b}, PeerGoesStale(b, p)
      PROVE  InOrder(s)'
  <2>1. /\ PagesOfOthers(b) /\ sockets' = sockets
        /\ page'[b].on = page[b].on /\ page'[b].imported = page[b].imported
        /\ page'[b].current = page[b].current
    BY <1>8, StaleEffect
  <2> QED
    BY <1>1, <1>2, <2>1 DEF InOrder, PagesOfOthers
<1>9. ASSUME NEW r \in DOMAIN sockets, SocketOpens(r)
      PROVE  InOrder(s)'
  <2>1. /\ page' = page /\ DOMAIN sockets' = DOMAIN sockets
        /\ sockets[r].state \in {"connecting", "down"}
        /\ sockets'[r].state = "open"
        /\ s # r => SameSocket(sockets'[s], sockets[s])
        /\ sockets'[s].owner = sockets[s].owner /\ sockets'[s].import = sockets[s].import
    BY <1>1, <1>9, OpenEffect DEF SocketsGoOn
  <2> QED
    BY <1>1, <2>1 DEF InOrder, SameSocket, Closed
<1>10. ASSUME NEW r \in DOMAIN sockets, SocketDrops(r)
      PROVE  InOrder(s)'
  <2>1. /\ page' = page /\ DOMAIN sockets' = DOMAIN sockets
        /\ sockets[r].state = "open" /\ sockets'[r].drops # 0
        /\ s # r => sockets'[s] = sockets[s]
        /\ sockets'[s].owner = sockets[s].owner /\ sockets'[s].import = sockets[s].import
    BY <1>1, <1>10, DropEffect DEF SocketsGoOn
  <2> QED
    BY <1>1, <2>1 DEF InOrder, Closed
<1>11. ASSUME NEW r \in DOMAIN sockets, Delivered(r)
      PROVE  InOrder(s)'
  <2> DEFINE b == sockets[r].owner
  <2>1. /\ PagesOfOthers(b) /\ DOMAIN sockets' = DOMAIN sockets
        /\ page'[b].on = page[b].on /\ page'[b].imported = page[b].imported
        /\ page'[b].current = page[b].current
        /\ SameSocket(sockets'[r], sockets[r])
        /\ s # r => sockets'[s] = sockets[s]
    BY <1>11, DeliverEffect
  <2>2. InOrder(s) /\ sockets[s].owner \in Browsers
    BY <1>1, <1>2, <2>1 DEF SocketsGoOn
  <2> HIDE DEF b
  <2> QED
    BY <2>1, <2>2 DEF InOrder, PagesOfOthers, SameSocket
<1> QED
  BY <1>3, <1>4, <1>5, <1>6, <1>7, <1>8, <1>9, <1>10, <1>11 DEF RoomNext


LEMMA DeviceStep ==
  ASSUME RoomTypeOK, CurrentIsOwn, OneDeviceIsNoPeer, RoomNext
  PROVE  OneDeviceIsNoPeer'
<1> SUFFICES ASSUME sameDevice', NEW c \in Browsers
             PROVE  page'[c].peers = NoPeers
  BY DEF OneDeviceIsNoPeer
<1>0. sameDevice /\ \A b \in Browsers : page[b].peers = NoPeers
  BY DEF OneDeviceIsNoPeer, RoomNext, FleetChanges, SettingsArrive, ImportEnds,
         Reloads, TimerFires, PeerGoesStale, SocketOpens, SocketDrops, Delivered
<1>a. ASSUME NEW b \in Browsers, PagesOfOthers(b), page'[b].peers = NoPeers
      PROVE  page'[c].peers = NoPeers
  BY <1>0, <1>a DEF PagesOfOthers
<1>1. ASSUME NEW b \in Browsers, NEW fleet \in {NoShare, changes + 1}, FleetChanges(b, fleet)
      PROVE  page'[c].peers = NoPeers
  BY <1>0, <1>1, <1>a, FleetEffect
<1>2. ASSUME NEW b \in Browsers, NEW on \in BOOLEAN, SettingsArrive(b, on)
      PROVE  page'[c].peers = NoPeers
  BY <1>0, <1>2, <1>a, ArriveEffect
<1>3. ASSUME NEW b \in Browsers, ImportEnds(b)
      PROVE  page'[c].peers = NoPeers
  BY <1>0, <1>3, <1>a, ImportEffect
<1>4. ASSUME NEW b \in Browsers, Reloads(b)
      PROVE  page'[c].peers = NoPeers
  BY <1>0, <1>4, <1>a, ReloadEffect
<1>5. ASSUME NEW b \in Browsers, TimerFires(b)
      PROVE  page'[c].peers = NoPeers
  BY <1>0, <1>5, <1>a, TimerEffect
<1>6. ASSUME NEW b \in Browsers, NEW p \in Browsers \ {b}, PeerGoesStale(b, p)
      PROVE  page'[c].peers = NoPeers
  BY <1>0, <1>6, StaleEffect, NoPeersIsPeers
<1>7. ASSUME NEW s \in DOMAIN sockets, SocketOpens(s)
      PROVE  page'[c].peers = NoPeers
  BY <1>0, <1>7, OpenEffect
<1>8. ASSUME NEW s \in DOMAIN sockets, SocketDrops(s)
      PROVE  page'[c].peers = NoPeers
  BY <1>0, <1>8, DropEffect
<1>9. ASSUME NEW s \in DOMAIN sockets, Delivered(s)
      PROVE  page'[c].peers = NoPeers
  BY <1>0, <1>9, DeliverEffect
<1> QED
  BY <1>1, <1>2, <1>3, <1>4, <1>5, <1>6, <1>7, <1>8, <1>9 DEF RoomNext

\* No socket of b has ever opened.
Unopened(b) == \A s \in DOMAIN sockets : sockets[s].owner = b => sockets[s].state = "connecting"

LEMMA FreshBefore ==
  ASSUME RoomTypeOK, CurrentIsOwn, RoomNext, NEW b \in Browsers, Unopened(b)'
  PROVE  Unopened(b)
<1> SUFFICES ASSUME NEW s \in DOMAIN sockets, sockets[s].owner = b
             PROVE  sockets[s].state = "connecting"
  BY DEF Unopened
<1>1. /\ SocketsGoOn /\ s \in DOMAIN sockets'
      /\ sockets'[s].state = "connecting"
  BY RoomTypeStep DEF SocketsGoOn, Unopened
<1>2. ASSUME NEW c \in Browsers, NEW fleet \in {NoShare, changes + 1}, FleetChanges(c, fleet)
      PROVE  sockets[s].state = "connecting"
  BY <1>1, <1>2, FleetEffect
<1>3. ASSUME NEW c \in Browsers, NEW on \in BOOLEAN, SettingsArrive(c, on)
      PROVE  sockets[s].state = "connecting"
  BY <1>1, <1>3, ArriveEffect DEF Closed
<1>4. ASSUME NEW c \in Browsers, ImportEnds(c)
      PROVE  sockets[s].state = "connecting"
  BY <1>1, <1>4, ImportEffect
<1>5. ASSUME NEW c \in Browsers, Reloads(c)
      PROVE  sockets[s].state = "connecting"
  BY <1>1, <1>5, ReloadEffect DEF Closed
<1>6. ASSUME NEW c \in Browsers, TimerFires(c)
      PROVE  sockets[s].state = "connecting"
  BY <1>1, <1>6, TimerEffect DEF SameSocket
<1>7. ASSUME NEW c \in Browsers, NEW p \in Browsers \ {c}, PeerGoesStale(c, p)
      PROVE  sockets[s].state = "connecting"
  BY <1>1, <1>7, StaleEffect
<1>8. ASSUME NEW t \in DOMAIN sockets, SocketOpens(t)
      PROVE  sockets[s].state = "connecting"
  BY <1>1, <1>8, OpenEffect DEF SameSocket
<1>9. ASSUME NEW t \in DOMAIN sockets, SocketDrops(t)
      PROVE  sockets[s].state = "connecting"
  BY <1>1, <1>9, DropEffect
<1>10. ASSUME NEW t \in DOMAIN sockets, Delivered(t)
      PROVE  sockets[s].state = "connecting"
  BY <1>1, <1>10, DeliverEffect DEF SameSocket
<1> QED
  BY <1>2, <1>3, <1>4, <1>5, <1>6, <1>7, <1>8, <1>9, <1>10 DEF RoomNext

\* In an inbox that is empty, or the same, or has lost its first message, or has
\* one more of another browser, there is nothing more of b.
LEMMA NothingMoreOf ==
  ASSUME NEW b \in Browsers, NEW q \in Seq(RoomMessages), From(q, b) = {}
  PROVE  /\ From(<<>>, b) = {}
         /\ q # <<>> => From(Tail(q), b) = {} /\ Head(q).from # b
         /\ \A c \in Browsers \ {b}, f \in Int :
              From(Append(q, [from |-> c, fleet |-> f]), b) = {}
<1>1. From(<<>>, b) = {}
  BY DEF From
<1>2. q # <<>> => From(Tail(q), b) = {} /\ Head(q).from # b
  BY MailIsRead
<1>3. ASSUME NEW c \in Browsers \ {b}, NEW f \in Int
      PROVE  From(Append(q, [from |-> c, fleet |-> f]), b) = {}
  BY MailIsAdded
<1> QED
  BY <1>1, <1>2, <1>3

LEMMA HeardStep ==
  ASSUME RoomTypeOK, CurrentIsOwn, OnlyTheOpenAreHeard, RoomNext
  PROVE  OnlyTheOpenAreHeard'
<1> SUFFICES ASSUME NEW b \in Browsers, Unopened(b)'
             PROVE  Unheard(b)'
  BY DEF OnlyTheOpenAreHeard, Unopened
<1>1. /\ RoomTypeOK' /\ SocketsGoOn /\ Unopened(b)
      /\ \A s \in DOMAIN sockets : From(sockets[s].inbox, b) = {}
      /\ \A q \in Browsers : b \notin DOMAIN page[q].peers
  BY RoomTypeStep, FreshBefore DEF OnlyTheOpenAreHeard, Unopened, Unheard
<1>2. \A s \in DOMAIN sockets : sockets[s].inbox \in Seq(RoomMessages)
  <2>1. TAKE s \in DOMAIN sockets
  <2>2. sockets[s] \in RoomSockets
    BY DEF RoomTypeOK
  <2> QED
    BY <2>2 DEF RoomSockets
<1>3. \A c \in Browsers : fleetOf[c] \in Int
  BY DEF RoomTypeOK
<1>4. /\ From(<<>>, b) = {}
      /\ \A s \in DOMAIN sockets' \ DOMAIN sockets : From(sockets'[s].inbox, b) = {}
  BY <1>1 DEF SocketsGoOn, From
<1>a. ASSUME \A s \in DOMAIN sockets : From(sockets'[s].inbox, b) = {},
             \A q \in Browsers : b \notin DOMAIN page'[q].peers
      PROVE  Unheard(b)'
  BY <1>4, <1>a DEF Unheard
<1>b. ASSUME NEW c \in Browsers, PagesOfOthers(c), b \notin DOMAIN page'[c].peers
      PROVE  \A q \in Browsers : b \notin DOMAIN page'[q].peers
  BY <1>1, <1>b DEF PagesOfOthers
<1>5. ASSUME NEW c \in Browsers, NEW fleet \in {NoShare, changes + 1}, FleetChanges(c, fleet)
      PROVE  Unheard(b)'
  BY <1>1, <1>5, <1>a, <1>b, FleetEffect
<1>6. ASSUME NEW c \in Browsers, NEW on \in BOOLEAN, SettingsArrive(c, on)
      PROVE  Unheard(b)'
  <2>1. b \notin DOMAIN page'[c].peers /\ PagesOfOthers(c)
    BY <1>6, ArriveEffect, NoPeersIsPeers
  <2>2. ASSUME NEW s \in DOMAIN sockets
        PROVE  From(sockets'[s].inbox, b) = {}
    BY <1>1, <1>4, <1>6, ArriveEffect
  <2> QED
    BY <1>a, <1>b, <2>1, <2>2
<1>7. ASSUME NEW c \in Browsers, ImportEnds(c)
      PROVE  Unheard(b)'
  <2>1. b \notin DOMAIN page'[c].peers /\ PagesOfOthers(c)
    BY <1>1, <1>7, ImportEffect
  <2>2. ASSUME NEW s \in DOMAIN sockets
        PROVE  From(sockets'[s].inbox, b) = {}
    BY <1>1, <1>7, ImportEffect
  <2> QED
    BY <1>a, <1>b, <2>1, <2>2
<1>8. ASSUME NEW c \in Browsers, Reloads(c)
      PROVE  Unheard(b)'
  <2>1. b \notin DOMAIN page'[c].peers /\ PagesOfOthers(c)
    BY <1>8, ReloadEffect, NoPeersIsPeers
  <2>2. ASSUME NEW s \in DOMAIN sockets
        PROVE  From(sockets'[s].inbox, b) = {}
    BY <1>1, <1>4, <1>8, ReloadEffect
  <2> QED
    BY <1>a, <1>b, <2>1, <2>2
<1>9. ASSUME NEW c \in Browsers, TimerFires(c)
      PROVE  Unheard(b)'
  <2>1. b \notin DOMAIN page'[c].peers /\ PagesOfOthers(c)
    BY <1>1, <1>9, TimerEffect
  <2>2. IsOpen(c, sockets) => c # b
    BY <1>1 DEF IsOpen, CurrentIsOwn, Unopened
  <2>3. ASSUME NEW s \in DOMAIN sockets
        PROVE  From(sockets'[s].inbox, b) = {}
    <3>1. \/ sockets'[s].inbox = sockets[s].inbox
          \/ /\ c # b
             /\ sockets'[s].inbox = Append(sockets[s].inbox, [from |-> c, fleet |-> fleetOf[c]])
      BY <1>9, <2>2, TimerEffect
    <3>2. From(sockets[s].inbox, b) = {} /\ sockets[s].inbox \in Seq(RoomMessages)
           /\ fleetOf[c] \in Int
      BY <1>1, <1>2, <1>3
    <3>3. c # b => From(Append(sockets[s].inbox, [from |-> c, fleet |-> fleetOf[c]]), b) = {}
      BY <3>2, NothingMoreOf, Zenon
    <3> QED
      BY <3>1, <3>2, <3>3
  <2> QED
    BY <1>a, <1>b, <2>1, <2>3
<1>10. ASSUME NEW c \in Browsers, NEW p \in Browsers \ {c}, PeerGoesStale(c, p)
      PROVE  Unheard(b)'
  BY <1>1, <1>10, <1>a, <1>b, StaleEffect
<1>11. ASSUME NEW t \in DOMAIN sockets, SocketOpens(t)
      PROVE  Unheard(b)'
  <2> DEFINE c == sockets[t].owner
  <2>1. /\ page' = page /\ c \in Browsers /\ sockets'[t].state = "open"
        /\ sockets'[t].owner = c
        /\ \A s \in DOMAIN sockets :
             \/ sockets'[s].inbox = sockets[s].inbox
             \/ sockets'[s].inbox = Append(sockets[s].inbox, [from |-> c, fleet |-> fleetOf[c]])
    BY <1>1, <1>11, OpenEffect DEF SocketsGoOn
  <2> HIDE DEF c
  <2>2. c # b
    BY <1>1, <2>1 DEF Unopened, SocketsGoOn
  <2>3. ASSUME NEW s \in DOMAIN sockets
        PROVE  From(sockets'[s].inbox, b) = {}
    <3>1. From(sockets[s].inbox, b) = {} /\ sockets[s].inbox \in Seq(RoomMessages)
           /\ fleetOf[c] \in Int
      BY <1>1, <1>2, <1>3, <2>1
    <3>2. c # b => From(Append(sockets[s].inbox, [from |-> c, fleet |-> fleetOf[c]]), b) = {}
      BY <2>1, <3>1, NothingMoreOf, Zenon
    <3> QED
      BY <2>1, <2>2, <3>1, <3>2
  <2> QED
    BY <1>1, <1>a, <2>1, <2>3
<1>12. ASSUME NEW t \in DOMAIN sockets, SocketDrops(t)
      PROVE  Unheard(b)'
  <2>1. \A s \in DOMAIN sockets : From(sockets'[s].inbox, b) = {}
    BY <1>1, <1>4, <1>12, DropEffect
  <2> QED
    BY <1>1, <1>12, <1>a, <2>1, DropEffect
<1>13. ASSUME NEW t \in DOMAIN sockets, Delivered(t)
      PROVE  Unheard(b)'
  <2> DEFINE c == sockets[t].owner
             q == sockets[t].inbox
             p == Head(q).from
  <2>1. /\ PagesOfOthers(c) /\ c \in Browsers /\ q # <<>> /\ q \in Seq(RoomMessages)
        /\ sockets'[t].inbox = Tail(q)
        /\ \A s \in DOMAIN sockets \ {t} : sockets'[s] = sockets[s]
        /\ page' = page \/ DOMAIN page'[c].peers = DOMAIN page[c].peers \cup {p}
    BY <1>13, DeliverEffect
  <2>2. From(q, b) = {}
    BY <1>1
  <2> HIDE DEF c, q
  <2>3. From(Tail(q), b) = {} /\ p # b
    BY <2>1, <2>2, NothingMoreOf
  <2> HIDE DEF p
  <2>4. \A s \in DOMAIN sockets : From(sockets'[s].inbox, b) = {}
    BY <1>1, <2>1, <2>3
  <2>5. b \notin DOMAIN page'[c].peers
    BY <1>1, <2>1, <2>3
  <2> QED
    BY <1>a, <1>b, <2>1, <2>4, <2>5
<1> QED
  BY <1>5, <1>6, <1>7, <1>8, <1>9, <1>10, <1>11, <1>12, <1>13 DEF RoomNext


\* A browser that is lone was so before, or its only socket opens.
LEMMA LoneBefore ==
  ASSUME RoomTypeOK, CurrentIsOwn, AliveInOrder, RoomNext,
         NEW c \in Browsers, Lone(c)'
  PROVE  /\ page'[c].current = page[c].current
         /\ page[c].current \in DOMAIN sockets
         /\ sockets[page[c].current].owner = c
         /\ \/ Lone(c)
            \/ Unopened(c) /\ SocketOpens(page[c].current)
<1>1. SocketsGoOn /\ RoomTypeOK'
  BY RoomTypeStep
<1>2. /\ page'[c].current # 0
      /\ sockets'[page'[c].current].state = "open"
      /\ \A s \in DOMAIN sockets' :
           sockets'[s].owner = c => s = page'[c].current /\ sockets'[s].drops = 0
  BY DEF Lone, IsOpen
<1>3. ASSUME page'[c].current = page[c].current,
             \A s \in DOMAIN sockets : sockets[s].owner = c =>
               /\ sockets'[s].state = sockets[s].state
               /\ sockets'[s].drops = sockets[s].drops
      PROVE  /\ page[c].current \in DOMAIN sockets
             /\ sockets[page[c].current].owner = c
             /\ Lone(c)
  <2>1. page[c].current \in DOMAIN sockets /\ sockets[page[c].current].owner = c
    BY <1>2, <1>3 DEF CurrentIsOwn
  <2>2. \A s \in DOMAIN sockets :
          sockets[s].owner = c => s = page[c].current /\ sockets[s].drops = 0
    BY <1>1, <1>2, <1>3 DEF SocketsGoOn
  <2> QED
    BY <1>2, <1>3, <2>1, <2>2 DEF Lone, IsOpen
<1>4. ASSUME NEW d \in Browsers, NEW fleet \in {NoShare, changes + 1}, FleetChanges(d, fleet)
      PROVE  page'[c].current = page[c].current /\ Lone(c)
  <2>1. page'[c].current = page[c].current /\ sockets' = sockets
    BY <1>4, FleetEffect DEF PagesOfOthers
  <2> QED
    BY <1>3, <2>1
<1>5. ASSUME NEW d \in Browsers, NEW on \in BOOLEAN, SettingsArrive(d, on)
      PROVE  page'[c].current = page[c].current /\ Lone(c)
  <2>1. /\ PagesOfOthers(d)
        /\ page'[d].current = 0 \/ page'[d].current \in DOMAIN sockets' \ DOMAIN sockets
        /\ \A s \in DOMAIN sockets : s # page[d].current => sockets'[s] = sockets[s]
    BY <1>5, ArriveEffect
  <2>2. c # d
    BY <1>1, <1>2, <2>1 DEF SocketsGoOn
  <2>3. page'[c].current = page[c].current
    BY <2>1, <2>2 DEF PagesOfOthers
  <2>4. \A s \in DOMAIN sockets : sockets[s].owner = c => sockets'[s] = sockets[s]
    <3>1. 0 \notin DOMAIN sockets
      BY DEF RoomTypeOK
    <3> QED
      BY <2>1, <2>2, <3>1 DEF CurrentIsOwn
  <2> QED
    BY <1>3, <2>3, <2>4
<1>6. ASSUME NEW d \in Browsers, ImportEnds(d)
      PROVE  page'[c].current = page[c].current /\ Lone(c)
  <2>1. /\ PagesOfOthers(d)
        /\ page'[d].current \in DOMAIN sockets' \ DOMAIN sockets
        /\ \A s \in DOMAIN sockets : sockets'[s] = sockets[s]
    BY <1>6, ImportEffect
  <2>2. c # d
    BY <1>1, <1>2, <2>1 DEF SocketsGoOn
  <2>3. page'[c].current = page[c].current
    BY <2>1, <2>2 DEF PagesOfOthers
  <2> QED
    BY <1>3, <2>1, <2>3
<1>7. ASSUME NEW d \in Browsers, Reloads(d)
      PROVE  page'[c].current = page[c].current /\ Lone(c)
  <2>1. /\ PagesOfOthers(d) /\ page'[d].current = 0
        /\ \A s \in DOMAIN sockets : sockets[s].owner # d => sockets'[s] = sockets[s]
    BY <1>7, ReloadEffect
  <2>2. c # d
    BY <1>2, <2>1
  <2>3. page'[c].current = page[c].current
    BY <2>1, <2>2 DEF PagesOfOthers
  <2> QED
    BY <1>3, <2>1, <2>2, <2>3
<1>8. ASSUME NEW d \in Browsers, TimerFires(d)
      PROVE  page'[c].current = page[c].current /\ Lone(c)
  <2>1. /\ page'[c].current = page[c].current
        /\ \A s \in DOMAIN sockets : SameSocket(sockets'[s], sockets[s])
    BY <1>8, TimerEffect DEF PagesOfOthers
  <2> QED
    BY <1>3, <2>1 DEF SameSocket
<1>9. ASSUME NEW d \in Browsers, NEW p \in Browsers \ {d}, PeerGoesStale(d, p)
      PROVE  page'[c].current = page[c].current /\ Lone(c)
  <2>1. page'[c].current = page[c].current /\ sockets' = sockets
    BY <1>9, StaleEffect DEF PagesOfOthers
  <2> QED
    BY <1>3, <2>1
<1>10. ASSUME NEW s \in DOMAIN sockets, SocketOpens(s)
       PROVE  /\ page'[c].current = page[c].current
              /\ Lone(c) \/ (s = page[c].current /\ sockets[s].owner = c /\ Unopened(c))
  <2>1. /\ page' = page /\ DOMAIN sockets' = DOMAIN sockets
        /\ sockets[s].state \in {"connecting", "down"}
        /\ \A t \in DOMAIN sockets \ {s} : SameSocket(sockets'[t], sockets[t])
        /\ sockets'[s].drops = sockets[s].drops
    BY <1>10, OpenEffect
  <2>2. CASE sockets[s].owner # c
    BY <1>3, <2>1, <2>2 DEF SameSocket
  <2>3. CASE sockets[s].owner = c
    <3>1. s = page[c].current /\ sockets[s].drops = 0
      BY <1>1, <1>2, <2>1, <2>3 DEF SocketsGoOn
    <3>2. sockets[s].state = "connecting"
      BY <2>1, <3>1 DEF AliveInOrder
    <3>3. \A t \in DOMAIN sockets : sockets[t].owner = c => t = s
      BY <1>1, <1>2, <2>1, <3>1 DEF SocketsGoOn
    <3> QED
      BY <2>1, <2>3, <3>1, <3>2, <3>3 DEF Unopened
  <2> QED
    BY <2>2, <2>3
<1>11. ASSUME NEW s \in DOMAIN sockets, SocketDrops(s)
       PROVE  page'[c].current = page[c].current /\ Lone(c)
  <2>1. /\ page' = page /\ DOMAIN sockets' = DOMAIN sockets
        /\ sockets'[s].drops # 0
        /\ \A t \in DOMAIN sockets \ {s} : sockets'[t] = sockets[t]
    BY <1>11, DropEffect
  <2>2. sockets[s].owner # c
    BY <1>1, <1>2, <2>1 DEF SocketsGoOn
  <2> QED
    BY <1>3, <2>1, <2>2
<1>12. ASSUME NEW s \in DOMAIN sockets, Delivered(s)
       PROVE  page'[c].current = page[c].current /\ Lone(c)
  <2>1. /\ page'[c].current = page[c].current
        /\ \A t \in DOMAIN sockets : SameSocket(sockets'[t], sockets[t])
    BY <1>12, DeliverEffect DEF PagesOfOthers, SameSocket
  <2> QED
    BY <1>3, <2>1 DEF SameSocket
<1>13. \/ page'[c].current = page[c].current /\ Lone(c)
       \/ \E s \in DOMAIN sockets :
            /\ SocketOpens(s) /\ page'[c].current = page[c].current
            /\ s = page[c].current /\ sockets[s].owner = c /\ Unopened(c)
  BY <1>4, <1>5, <1>6, <1>7, <1>8, <1>9, <1>10, <1>11, <1>12 DEF RoomNext
<1>14. Lone(c) => /\ page[c].current \in DOMAIN sockets
                  /\ sockets[page[c].current].owner = c
  BY DEF Lone, IsOpen, CurrentIsOwn
<1> QED
  BY <1>13, <1>14


\* The inbox y is x, or x and a message that is not from p.
MoreOfOthers(x, y, p) ==
  y = x \/ \E c \in Browsers \ {p}, f \in Int : y = Append(x, [from |-> c, fleet |-> f])

LEMMA ToldStep ==
  ASSUME RoomTypeOK, CurrentIsOwn, AliveInOrder, OnlyTheOpenAreHeard,
         LonesAreTold, RoomNext
  PROVE  LonesAreTold'
<1> SUFFICES ASSUME ~sameDevice', NEW b \in Browsers, NEW p \in Browsers, b # p,
                    Lone(b)', Lone(p)', fleetOf'[p] # NoFleet
             PROVE  Told(b, p)'
  BY DEF LonesAreTold
<1> DEFINE s == page[b].current
           t == page[p].current
           q == sockets[s].inbox
           r == sockets[t].inbox
<1>1. /\ page'[b].current = s /\ s \in DOMAIN sockets /\ sockets[s].owner = b
      /\ Lone(b) \/ (Unopened(b) /\ SocketOpens(s))
  BY LoneBefore
<1>2. /\ page'[p].current = t /\ t \in DOMAIN sockets /\ sockets[t].owner = p
      /\ Lone(p) \/ (Unopened(p) /\ SocketOpens(t))
  BY LoneBefore
<1>3. s # t /\ s # 0 /\ t # 0
  BY <1>1, <1>2 DEF RoomTypeOK
<1>4. sockets'[s].state = "open" /\ sockets'[t].state = "open"
  BY <1>1, <1>2 DEF Lone, IsOpen
<1>5. q \in Seq(RoomMessages) /\ r \in Seq(RoomMessages)
  <2>1. sockets[s] \in RoomSockets /\ sockets[t] \in RoomSockets
    BY <1>1, <1>2 DEF RoomTypeOK
  <2> QED
    BY <2>1 DEF RoomSockets
<1>6. ~sameDevice
  BY DEF RoomNext, FleetChanges, SettingsArrive, ImportEnds, Reloads, TimerFires,
         PeerGoesStale, SocketOpens, SocketDrops, Delivered
<1>7. Box(b)' = sockets'[s].inbox /\ Box(p)' = sockets'[t].inbox
  BY <1>1, <1>2 DEF Box
<1>8. Lone(b) => IsOpen(b, sockets) /\ sockets[s].state = "open"
  BY DEF Lone, IsOpen
<1>9. Lone(p) => IsOpen(p, sockets) /\ sockets[t].state = "open"
  BY DEF Lone, IsOpen
<1>10. ASSUME Lone(b), Lone(p), fleetOf[p] # NoFleet
       PROVE  \/ page[p].timer
              \/ Says(q, p, fleetOf[p])
              \/ /\ From(q, p) = {}
                 /\ p \in DOMAIN page[b].peers /\ page[b].peers[p] = fleetOf[p]
              \/ /\ b \notin DOMAIN page[p].peers
                 /\ page[b].timer \/ fleetOf[b] = NoFleet \/ From(r, b) # {}
  BY <1>6, <1>10 DEF LonesAreTold, Told, Box
<1> DEFINE Pos == \/ page'[p].timer
                  \/ Says(sockets'[s].inbox, p, fleetOf'[p])
                  \/ /\ From(sockets'[s].inbox, p) = {}
                     /\ p \in DOMAIN page'[b].peers /\ page'[b].peers[p] = fleetOf'[p]
                  \/ /\ b \notin DOMAIN page'[p].peers
                     /\ \/ page'[b].timer \/ fleetOf'[b] = NoFleet
                        \/ From(sockets'[t].inbox, b) # {}
<1>11. Pos => Told(b, p)'
  BY <1>7 DEF Told
<1>12. fleetOf[p] \in Int /\ fleetOf[b] \in Int
  BY DEF RoomTypeOK
<1> HIDE DEF q, r, Pos
\* Nothing happens to the two, but that mail may come.
<1>13. ASSUME Lone(b), Lone(p), fleetOf'[p] = fleetOf[p], fleetOf'[b] = fleetOf[b],
              page[p].timer => page'[p].timer, page[b].timer => page'[b].timer,
              p \in DOMAIN page[b].peers =>
                p \in DOMAIN page'[b].peers /\ page'[b].peers[p] = page[b].peers[p],
              b \notin DOMAIN page[p].peers => b \notin DOMAIN page'[p].peers,
              MoreOfOthers(q, sockets'[s].inbox, p),
              From(r, b) # {} => From(sockets'[t].inbox, b) # {}
       PROVE  Pos
  <2>1. /\ From(q, p) = {} => From(sockets'[s].inbox, p) = {}
        /\ Says(q, p, fleetOf[p]) => Says(sockets'[s].inbox, p, fleetOf[p])
    <3>1. CASE sockets'[s].inbox = q
      BY <3>1
    <3>2. ASSUME NEW c \in Browsers \ {p}, NEW f \in Int,
                 sockets'[s].inbox = Append(q, [from |-> c, fleet |-> f])
          PROVE  /\ From(q, p) = {} => From(sockets'[s].inbox, p) = {}
                 /\ Says(q, p, fleetOf[p]) => Says(sockets'[s].inbox, p, fleetOf[p])
      <4>1. /\ From(q, p) = {} => From(Append(q, [from |-> c, fleet |-> f]), p) = {}
            /\ Says(q, p, fleetOf[p]) =>
                 Says(Append(q, [from |-> c, fleet |-> f]), p, fleetOf[p])
        BY <1>5, <1>12, MailIsAdded
      <4> QED
        BY <3>2, <4>1
    <3> QED
      BY <1>13, <3>1, <3>2 DEF MoreOfOthers
  <2> QED
    BY <1>10, <1>13, <2>1 DEF Pos
\* Mail of c reaches the two, if it goes out.
<1>14. ASSUME NEW c \in Browsers, NEW x \in {s, t},
              \/ sockets'[x].inbox = sockets[x].inbox
              \/ sockets'[x].inbox =
                   Append(sockets[x].inbox, [from |-> c, fleet |-> fleetOf[c]])
       PROVE  /\ x = s /\ c # p => MoreOfOthers(q, sockets'[s].inbox, p)
              /\ x = t => (From(r, b) # {} => From(sockets'[t].inbox, b) # {})
  <2>1. fleetOf[c] \in Int
    BY DEF RoomTypeOK
  <2>2. x = s /\ c # p => MoreOfOthers(q, sockets'[s].inbox, p)
    BY <1>14, <2>1 DEF MoreOfOthers, q
  <2>3. From(r, b) # {} => From(Append(r, [from |-> c, fleet |-> fleetOf[c]]), b) # {}
    BY <1>5, <2>1, MailIsAdded
  <2> QED
    BY <1>14, <2>2, <2>3 DEF r
<1>15. ASSUME NEW d \in Browsers, NEW fleet \in {NoShare, changes + 1}, FleetChanges(d, fleet)
       PROVE  Pos
  <2>1. /\ sockets' = sockets /\ PagesOfOthers(d)
        /\ page'[d].peers = page[d].peers
        /\ page'[d].timer = Scheduled(d, page[d].timer)
        /\ \A c \in Browsers \ {d} : fleetOf'[c] = fleetOf[c]
    BY <1>15, FleetEffect
  <2>2. Lone(b) /\ Lone(p)
    <3>1. ~SocketOpens(s) /\ ~SocketOpens(t)
      BY <1>4, <2>1 DEF SocketOpens
    <3> QED
      BY <1>1, <1>2, <3>1
  <2>3. CASE d = p
    BY <1>9, <2>1, <2>2, <2>3 DEF Pos, Scheduled
  <2>4. CASE d = b
    <3>1. page'[b].timer
      BY <1>8, <2>1, <2>2, <2>4 DEF Scheduled
    <3>2. fleetOf'[p] = fleetOf[p] /\ page'[p] = page[p]
      BY <2>1, <2>4 DEF PagesOfOthers
    <3> QED
      BY <1>10, <2>1, <2>2, <2>4, <3>1, <3>2 DEF Pos, q, r
  <2>5. CASE d \notin {b, p}
    <3>1. /\ page'[b] = page[b] /\ page'[p] = page[p]
          /\ fleetOf'[b] = fleetOf[b] /\ fleetOf'[p] = fleetOf[p]
      BY <2>1, <2>5 DEF PagesOfOthers
    <3>2. sockets'[s].inbox = q /\ sockets'[t].inbox = r
      BY <2>1 DEF q, r
    <3> QED
      BY <1>13, <2>2, <3>1, <3>2 DEF MoreOfOthers
  <2> QED
    BY <2>3, <2>4, <2>5
\* A page that is not one of the two.
<1>16. ASSUME NEW d \in Browsers \ {b, p}, PagesOfOthers(d),
              fleetOf'[b] = fleetOf[b], fleetOf'[p] = fleetOf[p],
              sockets'[s] = sockets[s], sockets'[t] = sockets[t],
              Lone(b), Lone(p)
       PROVE  Pos
  <2>1. page'[b] = page[b] /\ page'[p] = page[p]
    BY <1>16 DEF PagesOfOthers
  <2>2. sockets'[s].inbox = q /\ sockets'[t].inbox = r
    BY <1>16 DEF q, r
  <2> QED
    BY <1>13, <1>16, <2>1, <2>2 DEF MoreOfOthers
<1>17. ASSUME sockets'[s].state = sockets[s].state, sockets'[t].state = sockets[t].state
       PROVE  Lone(b) /\ Lone(p)
  BY <1>1, <1>2, <1>4, <1>17 DEF SocketOpens
<1>18. ASSUME NEW d \in Browsers, NEW on \in BOOLEAN, SettingsArrive(d, on)
       PROVE  Pos
  <2>1. /\ PagesOfOthers(d) /\ fleetOf' = fleetOf
        /\ page'[d].current = 0 \/ page'[d].current \in DOMAIN sockets' \ DOMAIN sockets
        /\ \A x \in DOMAIN sockets : x # page[d].current => sockets'[x] = sockets[x]
    BY <1>18, ArriveEffect
  <2>2. d \notin {b, p}
    BY <1>1, <1>2, <1>3, <2>1
  <2>3. sockets'[s] = sockets[s] /\ sockets'[t] = sockets[t]
    BY <1>1, <1>2, <1>3, <2>1, <2>2 DEF CurrentIsOwn
  <2> QED
    BY <1>16, <1>17, <2>1, <2>2, <2>3
<1>19. ASSUME NEW d \in Browsers, ImportEnds(d)
       PROVE  Pos
  <2>1. /\ PagesOfOthers(d) /\ fleetOf' = fleetOf
        /\ page'[d].current \in DOMAIN sockets' \ DOMAIN sockets
        /\ \A x \in DOMAIN sockets : sockets'[x] = sockets[x]
    BY <1>19, ImportEffect
  <2>2. d \notin {b, p}
    BY <1>1, <1>2, <1>3, <2>1
  <2> QED
    BY <1>1, <1>2, <1>16, <1>17, <2>1, <2>2
<1>20. ASSUME NEW d \in Browsers, Reloads(d)
       PROVE  Pos
  <2>1. /\ PagesOfOthers(d) /\ page'[d].current = 0
        /\ \A c \in Browsers \ {d} : fleetOf'[c] = fleetOf[c]
        /\ \A x \in DOMAIN sockets : sockets[x].owner # d => sockets'[x] = sockets[x]
    BY <1>20, ReloadEffect
  <2>2. d \notin {b, p}
    BY <1>1, <1>2, <1>3, <2>1
  <2>3. sockets'[s] = sockets[s] /\ sockets'[t] = sockets[t]
    BY <1>1, <1>2, <2>1, <2>2
  <2> QED
    BY <1>16, <1>17, <2>1, <2>2, <2>3
<1>21. ASSUME NEW d \in Browsers, TimerFires(d)
       PROVE  Pos
  <2>1. /\ PagesOfOthers(d) /\ fleetOf' = fleetOf
        /\ page'[d].peers = page[d].peers
        /\ \A x \in DOMAIN sockets :
             /\ SameSocket(sockets'[x], sockets[x])
             /\ sockets'[x].inbox =
                  IF /\ IsOpen(d, sockets) /\ fleetOf[d] # NoFleet
                     /\ sockets[x].state = "open"
                  THEN Append(sockets[x].inbox, [from |-> d, fleet |-> fleetOf[d]])
                  ELSE sockets[x].inbox
    BY <1>21, TimerEffect
  <2>2. Lone(b) /\ Lone(p)
    BY <1>1, <1>2, <1>17, <2>1 DEF SameSocket
  <2>3. \A x \in {s, t} : \/ sockets'[x].inbox = sockets[x].inbox
                          \/ sockets'[x].inbox = Append(sockets[x].inbox, [from |-> d, fleet |-> fleetOf[d]])
    BY <1>1, <1>2, <2>1
  <2>4. /\ d # p => MoreOfOthers(q, sockets'[s].inbox, p)
        /\ From(r, b) # {} => From(sockets'[t].inbox, b) # {}
    BY <1>14, <2>3
  <2>5. CASE d = p
    <3>1. sockets'[s].inbox = Append(q, [from |-> p, fleet |-> fleetOf[p]])
      BY <1>1, <1>8, <1>9, <2>1, <2>2, <2>5 DEF q
    <3>2. Says(sockets'[s].inbox, p, fleetOf[p])
      BY <1>5, <1>12, <3>1, MailIsAdded
    <3> QED
      BY <2>1, <3>2 DEF Pos
  <2>6. CASE d = b
    <3>1. page'[p] = page[p] /\ page'[b].peers = page[b].peers
      BY <2>1, <2>6 DEF PagesOfOthers
    <3>2. fleetOf[b] # NoFleet => From(sockets'[t].inbox, b) # {}
      <4>1. fleetOf[b] # NoFleet =>
              sockets'[t].inbox = Append(r, [from |-> b, fleet |-> fleetOf[b]])
        BY <1>2, <1>8, <1>9, <2>1, <2>2, <2>6 DEF r
      <4> QED
        BY <1>5, <1>12, <4>1, MailIsAdded
    <3>3. /\ From(q, p) = {} => From(sockets'[s].inbox, p) = {}
          /\ Says(q, p, fleetOf[p]) => Says(sockets'[s].inbox, p, fleetOf[p])
      <4>1. \/ sockets'[s].inbox = q
            \/ sockets'[s].inbox = Append(q, [from |-> b, fleet |-> fleetOf[b]])
        BY <2>3, <2>6 DEF q
      <4>2. /\ From(q, p) = {} => From(Append(q, [from |-> b, fleet |-> fleetOf[b]]), p) = {}
            /\ Says(q, p, fleetOf[p]) =>
                 Says(Append(q, [from |-> b, fleet |-> fleetOf[b]]), p, fleetOf[p])
        BY <1>5, <1>12, MailIsAdded
      <4> QED
        BY <4>1, <4>2
    <3> QED
      BY <1>10, <2>1, <2>2, <3>1, <3>2, <3>3 DEF Pos
  <2>7. CASE d \notin {b, p}
    <3>1. page'[b] = page[b] /\ page'[p] = page[p]
      BY <2>1, <2>7 DEF PagesOfOthers
    <3> QED
      BY <1>13, <2>1, <2>2, <2>4, <2>7, <3>1
  <2> QED
    BY <2>5, <2>6, <2>7
<1>22. ASSUME NEW d \in Browsers, NEW x \in Browsers \ {d}, PeerGoesStale(d, x)
       PROVE  Pos
  <2>1. /\ PagesOfOthers(d) /\ fleetOf' = fleetOf /\ sockets' = sockets
        /\ ~IsOpen(x, sockets)
        /\ page'[d].timer = page[d].timer
        /\ DOMAIN page'[d].peers = DOMAIN page[d].peers \ {x}
        /\ \A y \in DOMAIN page[d].peers \ {x} : page'[d].peers[y] = page[d].peers[y]
    BY <1>22, StaleEffect
  <2>2. Lone(b) /\ Lone(p)
    BY <1>17, <2>1
  <2>3. x \notin {b, p}
    BY <1>8, <1>9, <2>1, <2>2
  <2>4. /\ page'[p].timer = page[p].timer /\ page'[b].timer = page[b].timer
        /\ p \in DOMAIN page[b].peers =>
             p \in DOMAIN page'[b].peers /\ page'[b].peers[p] = page[b].peers[p]
        /\ b \notin DOMAIN page[p].peers => b \notin DOMAIN page'[p].peers
    BY <2>1, <2>3 DEF PagesOfOthers
  <2>5. sockets'[s].inbox = q /\ sockets'[t].inbox = r
    BY <2>1 DEF q, r
  <2> QED
    BY <1>13, <2>1, <2>2, <2>4, <2>5 DEF MoreOfOthers
<1>23. ASSUME NEW x \in DOMAIN sockets, SocketOpens(x)
       PROVE  Pos
  <2> DEFINE d == sockets[x].owner
  <2>1. /\ page' = page /\ fleetOf' = fleetOf
        /\ d \in Browsers /\ sockets[x].state # "open"
        /\ \A y \in DOMAIN sockets :
             sockets'[y].inbox =
               IF page[d].current = x /\ fleetOf[d] # NoFleet /\ sockets'[y].state = "open"
               THEN Append(sockets[y].inbox, [from |-> d, fleet |-> fleetOf[d]])
               ELSE sockets[y].inbox
        /\ \A y \in DOMAIN sockets \ {x} : SameSocket(sockets'[y], sockets[y])
    BY <1>23, OpenEffect
  <2>2. CASE x = s
    <3>1. d = b /\ page[b].current = x
      BY <1>1, <2>2
    <3>2. Unopened(b)
      BY <1>1, <1>8, <2>1, <2>2
    <3>3. b \notin DOMAIN page[p].peers
      BY <3>2 DEF OnlyTheOpenAreHeard, Unopened, Unheard
    <3> HIDE DEF d
    <3>4. fleetOf[b] # NoFleet =>
            sockets'[t].inbox = Append(r, [from |-> b, fleet |-> fleetOf[b]])
      BY <1>2, <1>4, <2>1, <3>1 DEF r
    <3>5. fleetOf[b] # NoFleet => From(sockets'[t].inbox, b) # {}
      BY <1>5, <1>12, <3>4, MailIsAdded
    <3> QED
      BY <2>1, <3>3, <3>5 DEF Pos
  <2>3. CASE x = t
    <3>1. d = p /\ page[p].current = x
      BY <1>2, <2>3
    <3> HIDE DEF d
    <3>2. sockets'[s].inbox = Append(q, [from |-> p, fleet |-> fleetOf[p]])
      BY <1>1, <1>4, <2>1, <3>1 DEF q
    <3>3. Says(sockets'[s].inbox, p, fleetOf[p])
      BY <1>5, <1>12, <3>2, MailIsAdded
    <3> QED
      BY <2>1, <3>3 DEF Pos
  <2>4. CASE x \notin {s, t}
    <3>1. Lone(b) /\ Lone(p)
      BY <1>1, <1>2, <1>17, <2>1, <2>4 DEF SameSocket
    <3>2. d \notin {b, p}
      BY <1>23, <2>4, <3>1 DEF Lone
    <3>3. \A y \in {s, t} : \/ sockets'[y].inbox = sockets[y].inbox
                            \/ sockets'[y].inbox = Append(sockets[y].inbox, [from |-> d, fleet |-> fleetOf[d]])
      BY <1>1, <1>2, <2>1
    <3> HIDE DEF d
    <3>4. /\ MoreOfOthers(q, sockets'[s].inbox, p)
          /\ From(r, b) # {} => From(sockets'[t].inbox, b) # {}
      BY <1>14, <2>1, <3>2, <3>3
    <3> QED
      BY <1>13, <2>1, <3>1, <3>4
  <2> QED
    BY <2>2, <2>3, <2>4
<1>24. ASSUME NEW x \in DOMAIN sockets, SocketDrops(x)
       PROVE  Pos
  <2>1. /\ page' = page /\ fleetOf' = fleetOf /\ sockets'[x].state = "down"
        /\ \A y \in DOMAIN sockets \ {x} : sockets'[y] = sockets[y]
    BY <1>24, DropEffect
  <2>2. x \notin {s, t}
    BY <1>4, <2>1
  <2>3. sockets'[s] = sockets[s] /\ sockets'[t] = sockets[t]
    BY <1>1, <1>2, <2>1, <2>2
  <2>4. Lone(b) /\ Lone(p)
    BY <1>17, <2>3
  <2>5. sockets'[s].inbox = q /\ sockets'[t].inbox = r
    BY <2>3 DEF q, r
  <2> QED
    BY <1>13, <2>1, <2>4, <2>5 DEF MoreOfOthers
<1>25. ASSUME NEW x \in DOMAIN sockets, Delivered(x)
       PROVE  Pos
  <2> DEFINE d == sockets[x].owner
             m == Head(sockets[x].inbox)
             y == m.from
  <2>1. /\ PagesOfOthers(d) /\ fleetOf' = fleetOf
        /\ d \in Browsers /\ y \in Browsers /\ sockets[x].inbox # <<>>
        /\ SameSocket(sockets'[x], sockets[x]) /\ sockets'[x].inbox = Tail(sockets[x].inbox)
        /\ \A z \in DOMAIN sockets \ {x} : sockets'[z] = sockets[z]
        /\ IF page[d].current # x \/ y = d
           THEN page' = page
           ELSE /\ DOMAIN page'[d].peers = DOMAIN page[d].peers \cup {y}
                /\ page'[d].peers[y] = m.fleet
                /\ \A z \in DOMAIN page[d].peers \ {y} :
                     page'[d].peers[z] = page[d].peers[z]
                /\ page'[d].timer = IF y \notin DOMAIN page[d].peers
                                    THEN Scheduled(d, page[d].timer)
                                    ELSE page[d].timer
    BY <1>6, <1>25, DeliverEffect
  <2>2. Lone(b) /\ Lone(p)
    BY <1>1, <1>2, <1>17, <2>1 DEF SameSocket
  <2>3. CASE d = b
    <3>1. x = s
      BY <2>2, <2>3 DEF Lone
    <3>2. sockets'[s].inbox = Tail(q) /\ sockets'[t].inbox = r /\ q # <<>> /\ m = Head(q)
      BY <1>2, <1>3, <2>1, <3>1 DEF q, r
    <3>3. page'[p] = page[p]
      BY <2>1, <2>3 DEF PagesOfOthers
    <3> HIDE DEF d, m, y
    <3>4. /\ From(q, p) = {} => From(Tail(q), p) = {} /\ m.from # p
          /\ Says(q, p, fleetOf[p]) =>
               \/ Says(Tail(q), p, fleetOf[p])
               \/ From(Tail(q), p) = {} /\ m.from = p /\ m.fleet = fleetOf[p]
      BY <1>5, <1>12, <3>2, MailIsRead
    <3>5. m.from = y
      BY DEF y
    <3>6. CASE y = b
      <4>1. page'[b] = page[b]
        BY <2>1, <2>3, <3>6
      <4> QED
        BY <1>10, <2>1, <2>2, <3>2, <3>3, <3>4, <3>5, <3>6, <4>1 DEF Pos
    <3>7. CASE y # b
      <4>1. /\ DOMAIN page'[b].peers = DOMAIN page[b].peers \cup {y}
            /\ page'[b].peers[y] = m.fleet
            /\ \A z \in DOMAIN page[b].peers \ {y} : page'[b].peers[z] = page[b].peers[z]
            /\ page[b].timer => page'[b].timer
        BY <2>1, <2>3, <3>1, <3>7 DEF Scheduled
      <4>2. CASE page[p].timer
        BY <3>3, <4>2 DEF Pos
      <4>3. CASE Says(q, p, fleetOf[p])
        BY <2>1, <3>2, <3>4, <3>5, <4>1, <4>3 DEF Pos
      <4>4. CASE /\ From(q, p) = {}
                 /\ p \in DOMAIN page[b].peers /\ page[b].peers[p] = fleetOf[p]
        BY <2>1, <3>2, <3>4, <3>5, <4>1, <4>4 DEF Pos
      <4>5. CASE /\ b \notin DOMAIN page[p].peers
                 /\ page[b].timer \/ fleetOf[b] = NoFleet \/ From(r, b) # {}
        BY <2>1, <3>2, <3>3, <4>1, <4>5 DEF Pos
      <4> QED
        BY <1>10, <2>1, <2>2, <4>2, <4>3, <4>4, <4>5
    <3> QED
      BY <3>6, <3>7
  <2>4. CASE d = p
    <3>1. x = t
      BY <2>2, <2>4 DEF Lone
    <3>2. sockets'[t].inbox = Tail(r) /\ sockets'[s].inbox = q /\ r # <<>> /\ m = Head(r)
      BY <1>1, <1>3, <2>1, <3>1 DEF q, r
    <3>3. page'[b] = page[b]
      BY <2>1, <2>4 DEF PagesOfOthers
    <3> HIDE DEF d, m, y
    <3>4. From(r, b) # {} => m.from = b \/ From(Tail(r), b) # {}
      BY <1>5, <3>2, MailIsRead
    <3>5. m.from = y
      BY DEF y
    <3>6. /\ page[p].timer => page'[p].timer
          /\ b \notin DOMAIN page[p].peers /\ y = b => page'[p].timer
          /\ b \notin DOMAIN page[p].peers /\ y # b => b \notin DOMAIN page'[p].peers
      <4>1. CASE y = p
        BY <2>1, <2>4, <4>1
      <4>2. CASE y # p
        <5>1. /\ DOMAIN page'[p].peers = DOMAIN page[p].peers \cup {y}
              /\ page'[p].timer = IF y \notin DOMAIN page[p].peers
                                  THEN Scheduled(p, page[p].timer)
                                  ELSE page[p].timer
          BY <2>1, <2>4, <3>1, <4>2
        <5>2. Scheduled(p, page[p].timer)
          BY <1>9, <2>2 DEF Scheduled
        <5> QED
          BY <5>1, <5>2
      <4> QED
        BY <4>1, <4>2
    <3> QED
      BY <1>10, <2>1, <2>2, <3>2, <3>3, <3>4, <3>5, <3>6 DEF Pos
  <2>5. CASE d \notin {b, p}
    <3>1. x \notin {s, t}
      BY <1>1, <1>2, <2>5
    <3>2. sockets'[s] = sockets[s] /\ sockets'[t] = sockets[t]
      BY <1>1, <1>2, <2>1, <3>1
    <3> HIDE DEF d, m, y
    <3> QED
      BY <1>16, <2>1, <2>2, <2>5, <3>2
  <2> QED
    BY <2>3, <2>4, <2>5
<1> QED
  BY <1>11, <1>15, <1>18, <1>19, <1>20, <1>21, <1>22, <1>23, <1>24, <1>25 DEF RoomNext


\* Once nothing is on its way, what the lone are told is what is so.
LEMMA TheTold ==
  ASSUME RoomInv
  PROVE  RoomIsShared
<1>1. OnlyTheImportLeaks /\ OneDeviceIsNoPeer
  BY DEF RoomInv
<1>2. ASSUME Settled, ~sameDevice, NEW b \in Steady, NEW p \in Steady, b # p
      PROVE  p \in DOMAIN page[b].peers /\ page[b].peers[p] = fleetOf[p]
  <2>1. /\ b \in Browsers /\ p \in Browsers
        /\ IsOpen(b, sockets) /\ IsOpen(p, sockets)
        /\ fleetOf[b] # NoFleet /\ fleetOf[p] # NoFleet
    BY DEF Steady, Present
  <2>2. Lone(b) /\ Lone(p)
    BY <2>1 DEF Steady, SocketsOf, Lone
  <2>3. Told(b, p)
    BY <1>2, <2>1, <2>2 DEF RoomInv, LonesAreTold
  <2>4. ~page[b].timer /\ ~page[p].timer
    BY <1>2, <2>1 DEF Settled
  <2>5. page[b].current \in DOMAIN sockets /\ page[p].current \in DOMAIN sockets
    BY <2>1 DEF RoomInv, CurrentIsOwn, IsOpen
  <2>6. Box(b) = <<>> /\ Box(p) = <<>>
    BY <1>2, <2>5 DEF Settled, Box
  <2>7. From(Box(b), p) = {} /\ From(Box(p), b) = {}
    BY <2>6 DEF From
  <2> QED
    BY <2>1, <2>3, <2>4, <2>7 DEF Told, Says
<1>3. RoomConverges
  BY <1>2 DEF RoomConverges
<1> QED
  BY <1>1, <1>3 DEF RoomIsShared

LEMMA RoomInvInit ==
  ASSUME RoomInit PROVE RoomInv
<1>1. RoomTypeOK
  <2>1. [on |-> FALSE, imported |-> FALSE, attempts |-> 0, current |-> 0,
         timer |-> FALSE, peers |-> NoPeers] \in RoomPages
    BY NoPeersIsPeers DEF RoomPages
  <2>2. <<>> \in Seq(RoomSockets)
    OBVIOUS
  <2> QED
    BY <2>1, <2>2 DEF RoomInit, RoomTypeOK, NoFleet
<1>2. /\ sockets = <<>> /\ DOMAIN sockets = {}
      /\ \A b \in Browsers : page[b].current = 0 /\ page[b].peers = NoPeers
  BY DEF RoomInit
<1>3. CurrentIsOwn /\ AliveInOrder /\ OnlyTheImportLeaks /\ OneDeviceIsNoPeer
  BY <1>2 DEF CurrentIsOwn, AliveInOrder, OnlyTheImportLeaks, OneDeviceIsNoPeer
<1>4. OnlyTheOpenAreHeard
  BY <1>2, NoPeersIsPeers DEF OnlyTheOpenAreHeard, Unheard
<1>5. LonesAreTold
  BY <1>2 DEF LonesAreTold, Lone, IsOpen
<1> QED
  BY <1>1, <1>3, <1>4, <1>5 DEF RoomInv

\* For any browsers, any sockets and any changes of what is shared: browsers that
\* have stayed connected show what each of them shares now as soon as nothing is
\* on its way; only attempts that waited for the same import leave a connection
\* that is nobody's; and viewers of one machine never are each other's peers.
THEOREM RoomIsAlwaysShared == RoomSpec => []RoomIsShared
<1>1. RoomInit => RoomInv
  BY RoomInvInit
<1>2. RoomInv /\ [RoomNext]_roomVars => RoomInv'
  <2> SUFFICES ASSUME RoomInv, [RoomNext]_roomVars
               PROVE  RoomInv'
    OBVIOUS
  <2>1. CASE UNCHANGED roomVars
    <3>1. /\ page' = page /\ sockets' = sockets /\ fleetOf' = fleetOf
          /\ sameDevice' = sameDevice /\ changes' = changes
      BY <2>1 DEF roomVars
    <3>2. (RoomTypeOK /\ CurrentIsOwn /\ AliveInOrder)'
      BY <3>1 DEF RoomInv, RoomTypeOK, CurrentIsOwn, AliveInOrder
    <3>3. (OnlyTheImportLeaks /\ OneDeviceIsNoPeer /\ OnlyTheOpenAreHeard)'
      BY <3>1 DEF RoomInv, OnlyTheImportLeaks, OneDeviceIsNoPeer,
                  OnlyTheOpenAreHeard, Unheard
    <3>4. ASSUME NEW b \in Browsers, NEW p \in Browsers
          PROVE  (Lone(b)' <=> Lone(b)) /\ (Told(b, p)' <=> Told(b, p))
      BY <3>1 DEF Lone, IsOpen, Told, Box
    <3>5. LonesAreTold'
      BY <3>1, <3>4 DEF RoomInv, LonesAreTold
    <3> QED
      BY <3>2, <3>3, <3>5 DEF RoomInv
  <2>2. CASE RoomNext
    BY <2>2, RoomTypeStep, OwnStep, AliveStep, DeviceStep, HeardStep, ToldStep
       DEF RoomInv
  <2> QED
    BY <2>1, <2>2
<1>3. RoomInv => RoomIsShared
  BY TheTold
<1> QED
  BY <1>1, <1>2, <1>3, PTL DEF RoomSpec

-----------------------------------------------------------------------------
(* HistoryJournal: the inductive invariant.                                *)

Kinds == OfWait \cup OfWork
Lines == [kind : Kinds, agent : Agents]

JournalTypeOK ==
  /\ lastFleet \in [Agents -> Flags] /\ heardFleet \in [Agents -> Flags]
  /\ journal \in Seq(Lines) /\ older \in Seq(Lines) /\ written \in Seq(Lines)
  /\ torn \in BOOLEAN /\ sound \in BOOLEAN /\ surprised \in BOOLEAN
  /\ publishes \in Nat

JournalInv == JournalTypeOK /\ JournalIsHonest

\* Lines tell once that a flag has changed, and say nothing of one that has not.
Tells(lines, a, kinds, kind, changed) ==
  IF changed
    THEN \E i \in 1..Len(lines) :
           /\ lines[i] = Event(kind, a)
           /\ \A j \in 1..Len(lines) :
                lines[j].agent = a /\ lines[j].kind \in kinds => j = i
    ELSE \A j \in 1..Len(lines) : ~(lines[j].agent = a /\ lines[j].kind \in kinds)

WaitTold(lines, a, before, after) ==
  Tells(lines, a, OfWait, IF after.waits THEN "wait.opened" ELSE "wait.resolved",
        before.waits # after.waits)
WorkTold(lines, a, before, after) ==
  Tells(lines, a, OfWork, IF after.busy THEN "session.started" ELSE "session.finished",
        before.busy # after.busy)

TellAll(lines, n, before, after) ==
  /\ lines \in Seq(Lines)
  /\ \A i \in 1..Len(lines) : lines[i].agent \in 1..n
  /\ \A a \in 1..n : /\ WaitTold(lines, a, before[a], after[a])
                     /\ WorkTold(lines, a, before[a], after[a])

-----------------------------------------------------------------------------

\* Every set of naturals that is not empty has a least element.
LEMMA LeastNumber ==
  ASSUME NEW S \in SUBSET Nat, S # {}
  PROVE  \E c \in S : \A d \in S : c <= d
<1> DEFINE Upto == {0..c : c \in S}
<1>1. Upto \subseteq FiniteSubsetsOf(Nat)
  <2> SUFFICES ASSUME NEW c \in S PROVE 0..c \in SUBSET Nat /\ IsFiniteSet(0..c)
    BY DEF FiniteSubsetsOf
  <2> QED
    BY FS_Interval
<1>2. Upto # {}
  OBVIOUS
<1> HIDE DEF Upto
<1>3. PICK m \in Upto : \A u \in Upto : ~ (<<u, m>> \in StrictSubsetOrdering(Nat))
  BY <1>1, <1>2, FS_StrictSubsetOrderingWellFounded, WFMin
<1>4. PICK c \in S : m = 0..c
  BY DEF Upto
<1>5. ASSUME NEW d \in S, ~ (c <= d) PROVE FALSE
  <2>1. 0..d \in Upto
    BY DEF Upto
  <2>2. 0..d \subseteq 0..c /\ c \in 0..c /\ c \notin 0..d
    BY <1>5
  <2>3. 0..d \in SUBSET Nat /\ 0..c \in SUBSET Nat
    OBVIOUS
  <2>4. <<0..d, 0..c>> \in StrictSubsetOrdering(Nat)
    BY <2>2, <2>3 DEF StrictSubsetOrdering
  <2> QED
    BY <1>3, <1>4, <2>1, <2>4
<1> QED
  BY <1>5

LEMMA AgentNumbers == AgentCount \in Nat /\ Agents = 1..AgentCount
BY HistoryBoundsAssumption DEF Agents

LEMMA FewLines ==
  ASSUME NEW e, NEW d
  PROVE  /\ <<>> \o <<e>> = <<e>> /\ <<e>> \o <<>> = <<e>> /\ <<>> \o <<>> = <<>>
         /\ <<e>> \o <<d>> = <<e, d>> /\ <<e, d>> \o <<>> = <<e, d>>
<1>1. <<>> \in Seq({e, d}) /\ <<e>> \in Seq({e, d}) /\ <<d>> \in Seq({e, d}) /\ <<e, d>> \in Seq({e, d})
  OBVIOUS
<1>2. \A t \in Seq({e, d}) : t \o <<>> = t /\ <<>> \o t = t
  BY ConcatEmptySeq
<1>3. <<e>> \o <<d>> = <<e, d>>
  <2> DEFINE u == <<e>> v == <<d>> t == <<e, d>>
  <2>1. u \in Seq({e, d}) /\ v \in Seq({e, d}) /\ t \in Seq({e, d})
    BY <1>1
  <2>2. Len(u) = 1 /\ Len(v) = 1 /\ Len(t) = 2 /\ u[1] = e /\ v[1] = d /\ t[1] = e /\ t[2] = d
    OBVIOUS
  <2> HIDE DEF u, v, t
  <2>3. /\ u \o v \in Seq({e, d}) /\ Len(u \o v) = Len(u) + Len(v)
        /\ \A i \in 1 .. Len(u) + Len(v) :
             (u \o v)[i] = IF i <= Len(u) THEN u[i] ELSE v[i - Len(u)]
    BY <2>1, ConcatProperties
  <2>4. Len(u \o v) = 2 /\ (u \o v)[1] = e /\ (u \o v)[2] = d
    BY <2>2, <2>3
  <2>5. \A i \in 1 .. Len(u \o v) : (u \o v)[i] = t[i]
    BY <2>2, <2>4
  <2>6. u \o v = t
    BY <2>1, <2>2, <2>3, <2>4, <2>5, SeqEqual
  <2> QED
    BY <2>6 DEF u, v, t
<1> QED
  BY <1>1, <1>2, <1>3, Zenon

\* The lines of one agent are none, one or one of each kind.
LEMMA NoLineTells ==
  ASSUME NEW a, NEW kinds, NEW kind
  PROVE  Tells(<<>>, a, kinds, kind, FALSE)
BY DEF Tells

LEMMA OneLineTells ==
  ASSUME NEW a, NEW kinds, NEW kind, NEW p
  PROVE  /\ p \in kinds => Tells(<<Event(p, a)>>, a, kinds, p, TRUE)
         /\ p \notin kinds => Tells(<<Event(p, a)>>, a, kinds, kind, FALSE)
BY DEF Tells, Event

LEMMA TwoLinesTell ==
  ASSUME NEW a, NEW kinds, NEW p, NEW q
  PROVE  /\ p \in kinds /\ q \notin kinds
              => Tells(<<Event(p, a), Event(q, a)>>, a, kinds, p, TRUE)
         /\ p \notin kinds /\ q \in kinds
              => Tells(<<Event(p, a), Event(q, a)>>, a, kinds, q, TRUE)
BY DEF Tells, Event

LEMMA KindsDiffer ==
  /\ "wait.opened" \in OfWait /\ "wait.resolved" \in OfWait
  /\ "session.started" \in OfWork /\ "session.finished" \in OfWork
  /\ "wait.opened" \notin OfWork /\ "wait.resolved" \notin OfWork
  /\ "session.started" \notin OfWait /\ "session.finished" \notin OfWait
BY DEF OfWait, OfWork

\* Of an agent there are no lines, one or one of each kind.
LEMMA FourWays ==
  ASSUME NEW a, NEW before \in Flags, NEW after \in Flags, NEW left \in BOOLEAN,
         left => after = [busy |-> FALSE, waits |-> FALSE]
  PROVE  LET s == AgentEvents(before, after, a, left)
             w == Event(IF after.waits THEN "wait.opened" ELSE "wait.resolved", a)
             k == Event(IF after.busy THEN "session.started" ELSE "session.finished", a)
         IN  /\ before.waits = after.waits /\ before.busy = after.busy => s = <<>>
             /\ before.waits # after.waits /\ before.busy = after.busy => s = <<w>>
             /\ before.waits = after.waits /\ before.busy # after.busy => s = <<k>>
             /\ before.waits # after.waits /\ before.busy # after.busy
                  => s = IF left THEN <<k, w>> ELSE <<w, k>>
<1>1. /\ before.busy \in BOOLEAN /\ before.waits \in BOOLEAN
      /\ after.busy \in BOOLEAN /\ after.waits \in BOOLEAN
  BY DEF Flags
<1>2. CASE left
  <2>1. ~after.busy /\ ~after.waits
    BY <1>2
  <2>2. CASE before.waits
    BY <1>1, <1>2, <2>1, <2>2, FewLines DEF AgentEvents, If
  <2>3. CASE ~before.waits
    BY <1>1, <1>2, <2>1, <2>3, FewLines DEF AgentEvents, If
  <2> QED
    BY <2>2, <2>3
<1>3. CASE ~left
  <2>1. CASE before.waits /\ after.waits
    BY <1>1, <1>3, <2>1, FewLines DEF AgentEvents, If
  <2>2. CASE ~before.waits /\ ~after.waits
    BY <1>1, <1>3, <2>2, FewLines DEF AgentEvents, If
  <2>3. CASE before.waits /\ ~after.waits
    BY <1>1, <1>3, <2>3, FewLines DEF AgentEvents, If
  <2>4. CASE ~before.waits /\ after.waits
    BY <1>1, <1>3, <2>4, FewLines DEF AgentEvents, If
  <2> QED
    BY <1>1, <2>1, <2>2, <2>3, <2>4
<1> QED
  BY <1>2, <1>3

LEMMA AgentTold ==
  ASSUME NEW a \in Agents, NEW before \in Flags, NEW after \in Flags, NEW left \in BOOLEAN,
         left => after = [busy |-> FALSE, waits |-> FALSE]
  PROVE  LET s == AgentEvents(before, after, a, left)
         IN  /\ s \in Seq(Lines)
             /\ \A i \in 1..Len(s) : s[i].agent = a
             /\ WaitTold(s, a, before, after) /\ WorkTold(s, a, before, after)
<1> DEFINE s == AgentEvents(before, after, a, left)
           w == IF after.waits THEN "wait.opened" ELSE "wait.resolved"
           k == IF after.busy THEN "session.started" ELSE "session.finished"
           dw == before.waits # after.waits
           dk == before.busy # after.busy
<1>1. /\ w \in OfWait /\ w \notin OfWork /\ k \in OfWork /\ k \notin OfWait
      /\ w \in Kinds /\ k \in Kinds
  BY DEF OfWait, OfWork, Kinds
<1>2. /\ WaitTold(s, a, before, after) <=> Tells(s, a, OfWait, w, dw)
      /\ WorkTold(s, a, before, after) <=> Tells(s, a, OfWork, k, dk)
  BY DEF WaitTold, WorkTold
<1>3. /\ ~dw /\ ~dk => s = <<>>
      /\ dw /\ ~dk => s = <<Event(w, a)>>
      /\ ~dw /\ dk => s = <<Event(k, a)>>
      /\ dw /\ dk => s = <<Event(k, a), Event(w, a)>> \/ s = <<Event(w, a), Event(k, a)>>
  BY FourWays, Zenon
<1>4. dw \in BOOLEAN /\ dk \in BOOLEAN
  OBVIOUS
<1> HIDE DEF s, w, k, dw, dk
<1>5. Event(w, a) \in Lines /\ Event(k, a) \in Lines /\ Event(w, a).agent = a /\ Event(k, a).agent = a
  BY <1>1 DEF Lines, Event
<1>6. /\ s \in Seq(Lines)
      /\ \A i \in 1..Len(s) : s[i].agent = a
  <2> DEFINE x == Event(w, a) y == Event(k, a)
  <2>1. s = <<>> \/ s = <<x>> \/ s = <<y>> \/ s = <<x, y>> \/ s = <<y, x>>
    BY <1>3, <1>4
  <2>2. x \in Lines /\ y \in Lines /\ x.agent = a /\ y.agent = a
    BY <1>5
  <2> HIDE DEF x, y
  <2>3. \A p \in Lines : <<p>> \in Seq(Lines) /\ Len(<<p>>) = 1 /\ <<p>>[1] = p
    OBVIOUS
  <2>4. \A p \in Lines, q \in Lines :
          /\ <<p, q>> \in Seq(Lines) /\ Len(<<p, q>>) = 2
          /\ <<p, q>>[1] = p /\ <<p, q>>[2] = q
    OBVIOUS
  <2>5. CASE s = <<>>
    BY <2>5
  <2>6. CASE \E p \in {x, y} : s = <<p>>
    BY <2>2, <2>3, <2>6
  <2>7. CASE \E p \in {x, y}, q \in {x, y} : s = <<p, q>>
    <3>1. PICK p \in {x, y}, q \in {x, y} : s = <<p, q>>
      BY <2>7
    <3>2. s \in Seq(Lines) /\ Len(s) = 2 /\ s[1] = p /\ s[2] = q
      BY <2>2, <2>4, <3>1
    <3> QED
      BY <2>2, <3>2
  <2> QED
    BY <2>1, <2>5, <2>6, <2>7
<1>7. Tells(s, a, OfWait, w, dw) /\ Tells(s, a, OfWork, k, dk)
  <2>1. CASE ~dw /\ ~dk
    <3>1. s = <<>> /\ dw = FALSE /\ dk = FALSE
      BY <1>3, <1>4, <2>1
    <3> QED
      BY <3>1, NoLineTells
  <2>2. CASE dw /\ ~dk
    <3>1. s = <<Event(w, a)>> /\ dw = TRUE /\ dk = FALSE
      BY <1>3, <1>4, <2>2
    <3> QED
      BY <1>1, <3>1, OneLineTells
  <2>3. CASE ~dw /\ dk
    <3>1. s = <<Event(k, a)>> /\ dw = FALSE /\ dk = TRUE
      BY <1>3, <1>4, <2>3
    <3> QED
      BY <1>1, <3>1, OneLineTells
  <2>4. CASE dw /\ dk
    <3>1. dw = TRUE /\ dk = TRUE
      BY <1>4, <2>4
    <3>2. s = <<Event(k, a), Event(w, a)>> \/ s = <<Event(w, a), Event(k, a)>>
      BY <1>3, <2>4
    <3> QED
      BY <1>1, <3>1, <3>2, TwoLinesTell
  <2> QED
    BY <1>4, <2>1, <2>2, <2>3, <2>4
<1> QED
  BY <1>2, <1>6, <1>7 DEF s

-----------------------------------------------------------------------------
\* Lines of an agent that come after the lines of others.
LEMMA TellsMore ==
  ASSUME NEW n \in Nat, NEW f \in Seq(Lines), NEW s \in Seq(Lines), NEW a, NEW kinds, NEW kind,
         NEW changed,
         \A i \in 1..Len(f) : f[i].agent \in 1..n,
         \A i \in 1..Len(s) : s[i].agent = n + 1
  PROVE  /\ a \in 1..n /\ Tells(f, a, kinds, kind, changed)
              => Tells(f \o s, a, kinds, kind, changed)
         /\ a = n + 1 /\ Tells(s, a, kinds, kind, changed)
              => Tells(f \o s, a, kinds, kind, changed)
<1> DEFINE t == f \o s
<1>1. /\ Len(f) \in Nat /\ Len(s) \in Nat /\ Len(t) = Len(f) + Len(s)
      /\ \A i \in 1..Len(f) : t[i] = f[i]
      /\ \A i \in 1..Len(s) : t[Len(f) + i] = s[i]
  <2>1. /\ Len(t) = Len(f) + Len(s)
        /\ \A i \in 1 .. Len(f) + Len(s) : t[i] = IF i <= Len(f) THEN f[i] ELSE s[i - Len(f)]
    BY ConcatProperties
  <2>2. Len(f) \in Nat /\ Len(s) \in Nat
    OBVIOUS
  <2> HIDE DEF t
  <2>3. \A i \in 1..Len(f) : t[i] = f[i]
    BY <2>1, <2>2
  <2>4. ASSUME NEW i \in 1..Len(s) PROVE t[Len(f) + i] = s[i]
    <3>1. Len(f) + i \in 1 .. Len(f) + Len(s) /\ ~ (Len(f) + i <= Len(f))
          /\ Len(f) + i - Len(f) = i
      BY <2>2
    <3> QED
      BY <2>1, <3>1
  <2> QED
    BY <2>1, <2>2, <2>3, <2>4
<1> HIDE DEF t
<1>2. \A i \in 1..Len(t) : i \in 1..Len(f) \/ \E j \in 1..Len(s) : i = Len(f) + j
  <2> SUFFICES ASSUME NEW i \in 1..Len(t), i \notin 1..Len(f)
               PROVE  \E j \in 1..Len(s) : i = Len(f) + j
    OBVIOUS
  <2>1. i - Len(f) \in 1..Len(s) /\ i = Len(f) + (i - Len(f))
    BY <1>1
  <2> QED
    BY <2>1
<1>3. \A i \in 1..Len(f) : i \in 1..Len(t)
  BY <1>1
<1>4. \A i \in 1..Len(s) : Len(f) + i \in 1..Len(t)
  BY <1>1
<1>5. ASSUME a \in 1..n, Tells(f, a, kinds, kind, changed)
      PROVE  Tells(t, a, kinds, kind, changed)
  <2>1. \A j \in 1..Len(s) : t[Len(f) + j].agent # a
    BY <1>1, <1>5
  <2>2. CASE changed
    <3>1. PICK i \in 1..Len(f) :
             /\ f[i] = Event(kind, a)
             /\ \A j \in 1..Len(f) : f[j].agent = a /\ f[j].kind \in kinds => j = i
      BY <1>5, <2>2 DEF Tells
    <3>2. \A j \in 1..Len(t) : t[j].agent = a /\ t[j].kind \in kinds => j = i
      BY <1>1, <1>2, <2>1, <3>1
    <3> QED
      BY <1>1, <1>3, <2>2, <3>1, <3>2 DEF Tells
  <2>3. CASE ~changed
    BY <1>1, <1>2, <1>5, <2>1, <2>3 DEF Tells
  <2> QED
    BY <2>2, <2>3
<1>6. ASSUME a = n + 1, Tells(s, a, kinds, kind, changed)
      PROVE  Tells(t, a, kinds, kind, changed)
  <2>1. \A j \in 1..Len(f) : t[j].agent # a
    BY <1>1, <1>6
  <2>2. CASE changed
    <3>1. PICK i \in 1..Len(s) :
             /\ s[i] = Event(kind, a)
             /\ \A j \in 1..Len(s) : s[j].agent = a /\ s[j].kind \in kinds => j = i
      BY <1>6, <2>2 DEF Tells
    <3>2. ASSUME NEW j \in 1..Len(t), t[j].agent = a, t[j].kind \in kinds
          PROVE  j = Len(f) + i
      <4>1. PICK k \in 1..Len(s) : j = Len(f) + k
        BY <1>2, <2>1, <3>2
      <4>2. t[j] = s[k]
        BY <1>1, <4>1
      <4> QED
        BY <3>1, <3>2, <4>1, <4>2
    <3> QED
      BY <1>1, <1>4, <2>2, <3>1, <3>2 DEF Tells
  <2>3. CASE ~changed
    BY <1>1, <1>2, <1>6, <2>1, <2>3 DEF Tells
  <2> QED
    BY <2>2, <2>3
<1> QED
  BY <1>5, <1>6 DEF t

\* The loop over the agents: it has a solution for any number of them, which
\* tells all that has changed.  Were there a least number without, what is
\* there for one less would extend to it.
LinesUpto(f, n, next, gone) ==
  f = [m \in 0..n |->
         IF m = 0 THEN <<>>
         ELSE f[m - 1] \o AgentEvents(lastFleet[m], next[m], m, m \in gone)]

LEMMA DiffExists ==
  ASSUME NEW next, NEW gone
  PROVE  \A n \in Nat : \E f : LinesUpto(f, n, next, gone)
<1> DEFINE Without == {n \in Nat : ~ \E f : LinesUpto(f, n, next, gone)}
           E(m) == AgentEvents(lastFleet[m], next[m], m, m \in gone)
<1>1. SUFFICES ASSUME Without # {} PROVE FALSE
  OBVIOUS
<1>2. Without \in SUBSET Nat
  OBVIOUS
<1>3. PICK n \in Without : \A d \in Without : n <= d
  <2> HIDE DEF Without
  <2> QED
    BY <1>1, <1>2, LeastNumber
<1>4. n \in Nat /\ ~ \E f : LinesUpto(f, n, next, gone)
  OBVIOUS
<1>5. CASE n = 0
  <2> DEFINE f == [m \in 0..0 |-> <<>>]
  <2>1. f = [m \in 0..0 |-> IF m = 0 THEN <<>> ELSE f[m - 1] \o E(m)]
    OBVIOUS
  <2>2. LinesUpto(f, 0, next, gone)
    BY <2>1 DEF LinesUpto
  <2> QED
    BY <1>4, <1>5, <2>2
<1>6. CASE n # 0
  <2>1. n - 1 \in Nat /\ n - 1 \notin Without
    <3>1. n - 1 \in Nat /\ ~ (n <= n - 1)
      BY <1>4, <1>6
    <3> HIDE DEF Without
    <3> QED
      BY <1>3, <3>1
  <2>2. PICK f : LinesUpto(f, n - 1, next, gone)
    BY <2>1
  <2> DEFINE last == f[n - 1] \o E(n)
             g == [m \in 0..n |-> IF m = n THEN last ELSE f[m]]
  <2>3. \A m \in 0 .. n - 1 : f[m] = IF m = 0 THEN <<>> ELSE f[m - 1] \o E(m)
    BY <2>2 DEF LinesUpto
  <2>4. \A m \in 0 .. n - 1 : g[m] = f[m]
    BY <1>4
  <2>5. g[n] = last /\ DOMAIN g = 0..n
    <3> HIDE DEF last
    <3> QED
      BY <1>4
  <2> DEFINE step == [m \in 0..n |-> IF m = 0 THEN <<>> ELSE g[m - 1] \o E(m)]
  <2>6. \A m \in 0..n : g[m] = IF m = 0 THEN <<>> ELSE g[m - 1] \o E(m)
    <3> SUFFICES ASSUME NEW m \in 0..n
                 PROVE  g[m] = IF m = 0 THEN <<>> ELSE g[m - 1] \o E(m)
      OBVIOUS
    <3> HIDE DEF E
    <3>1. CASE m = n
      <4>1. n - 1 \in 0 .. n - 1
        BY <2>1
      <4>2. g[n - 1] = f[n - 1]
        BY <2>4, <4>1, Zenon
      <4> HIDE DEF g
      <4> QED
        BY <1>6, <2>5, <3>1, <4>2
    <3>2. CASE m # n /\ m = 0
      <4>1. m \in 0 .. n - 1
        BY <2>1, <3>2
      <4> HIDE DEF g
      <4> QED
        BY <2>3, <2>4, <3>2, <4>1
    <3>3. CASE m # n /\ m # 0
      <4>1. m \in 0 .. n - 1 /\ m - 1 \in 0 .. n - 1
        BY <1>4, <3>3
      <4>2. /\ g[m] = f[m]
            /\ g[m - 1] = f[m - 1]
            /\ f[m] = IF m = 0 THEN <<>> ELSE f[m - 1] \o E(m)
        BY <2>3, <2>4, <4>1, Zenon
      <4> HIDE DEF g
      <4> QED
        BY <3>3, <4>2
    <3> QED
      BY <3>1, <3>2, <3>3
  <2>7. g = step
    <3>1. g = [m \in DOMAIN g |-> g[m]]
      OBVIOUS
    <3> HIDE DEF g, E
    <3> QED
      BY <2>5, <2>6, <3>1
  <2>8. LinesUpto(g, n, next, gone)
    <3> HIDE DEF g
    <3> QED
      BY <2>7 DEF LinesUpto
  <2> QED
    BY <1>4, <2>8
<1> QED
  BY <1>5, <1>6

LEMMA DiffTells ==
  ASSUME JournalTypeOK, NEW next \in [Agents -> Flags], NEW gone \in SUBSET Agents,
         \A a \in gone : next[a] = Nothing[a]
  PROVE  TellAll(Diff(next, gone), AgentCount, lastFleet, next)
<1> DEFINE f == CHOOSE h : LinesUpto(h, AgentCount, next, gone)
           E(m) == AgentEvents(lastFleet[m], next[m], m, m \in gone)
<1>1. Diff(next, gone) = f[AgentCount]
  BY DEF Diff, LinesUpto
<1>2. LinesUpto(f, AgentCount, next, gone)
  BY AgentNumbers, DiffExists
<1> HIDE DEF f
<1>3. \A m \in 0..AgentCount : f[m] = IF m = 0 THEN <<>> ELSE f[m - 1] \o E(m)
  BY <1>2 DEF LinesUpto
<1>4. ASSUME NEW m \in 1..AgentCount
      PROVE  /\ E(m) \in Seq(Lines)
             /\ \A i \in 1..Len(E(m)) : E(m)[i].agent = m
             /\ WaitTold(E(m), m, lastFleet[m], next[m])
             /\ WorkTold(E(m), m, lastFleet[m], next[m])
  <2>1. m \in Agents /\ lastFleet[m] \in Flags /\ next[m] \in Flags
    BY AgentNumbers DEF JournalTypeOK
  <2>2. m \in gone => next[m] = [busy |-> FALSE, waits |-> FALSE]
    BY <2>1 DEF Nothing
  <2> DEFINE before == lastFleet[m]
             after == next[m]
             left == m \in gone
  <2>3. /\ left \in BOOLEAN /\ before \in Flags /\ after \in Flags
        /\ left => after = [busy |-> FALSE, waits |-> FALSE]
    BY <2>1, <2>2
  <2>4. E(m) = AgentEvents(before, after, m, left)
    OBVIOUS
  <2> HIDE DEF before, after, left, E
  <2>5. /\ E(m) \in Seq(Lines)
        /\ \A i \in 1..Len(E(m)) : E(m)[i].agent = m
        /\ WaitTold(E(m), m, before, after) /\ WorkTold(E(m), m, before, after)
    BY <2>1, <2>3, <2>4, AgentTold
  <2> QED
    BY <2>5 DEF before, after
<1> HIDE DEF E
<1> DEFINE Wrong == {n \in Nat : n <= AgentCount /\ ~ TellAll(f[n], n, lastFleet, next)}
<1>5. SUFFICES ASSUME Wrong # {} PROVE FALSE
  BY <1>1, AgentNumbers
<1>6. Wrong \in SUBSET Nat
  OBVIOUS
<1>7. PICK n \in Wrong : \A d \in Wrong : n <= d
  <2> HIDE DEF Wrong
  <2> QED
    BY <1>5, <1>6, LeastNumber
<1>8. n \in Nat /\ n <= AgentCount /\ ~ TellAll(f[n], n, lastFleet, next)
  OBVIOUS
<1>9. CASE n = 0
  <2>1. f[0] = <<>>
    BY <1>3, AgentNumbers
  <2>2. TellAll(<<>>, 0, lastFleet, next)
    BY DEF TellAll
  <2> QED
    BY <1>8, <1>9, <2>1, <2>2
<1>10. CASE n # 0
  <2>1. n - 1 \in Nat /\ n - 1 <= AgentCount /\ n - 1 \notin Wrong
    <3>1. n - 1 \in Nat /\ n - 1 <= AgentCount /\ ~ (n <= n - 1)
      BY <1>8, <1>10, AgentNumbers
    <3> HIDE DEF Wrong
    <3> QED
      BY <1>7, <3>1
  <2>2. TellAll(f[n - 1], n - 1, lastFleet, next)
    BY <2>1
  <2>3. n \in 1..AgentCount /\ f[n] = f[n - 1] \o E(n)
    <3>1. n \in 1..AgentCount /\ n \in 0..AgentCount
      BY <1>8, <1>10, AgentNumbers
    <3> HIDE DEF Wrong
    <3> QED
      BY <1>3, <1>10, <3>1
  <2> DEFINE old == f[n - 1]
             new == E(n)
             p == n - 1
  <2>4. /\ new \in Seq(Lines) /\ \A i \in 1..Len(new) : new[i].agent = n
        /\ WaitTold(new, n, lastFleet[n], next[n])
        /\ WorkTold(new, n, lastFleet[n], next[n])
    BY <1>4, <2>3, Zenon
  <2>5. /\ old \in Seq(Lines) /\ \A i \in 1..Len(old) : old[i].agent \in 1..p
        /\ \A a \in 1..p : /\ WaitTold(old, a, lastFleet[a], next[a])
                           /\ WorkTold(old, a, lastFleet[a], next[a])
    BY <2>2 DEF TellAll
  <2>6. p \in Nat /\ n = p + 1
    BY <1>8, <2>1
  <2>7. f[n] = old \o new
    BY <2>3
  <2> HIDE DEF old, new, p
  <2>8. old \o new \in Seq(Lines)
    BY <2>4, <2>5
  <2>9. \A i \in 1..Len(old \o new) : (old \o new)[i].agent \in 1..n
    <3>1. /\ Len(old \o new) = Len(old) + Len(new)
          /\ \A i \in 1 .. Len(old) + Len(new) :
               (old \o new)[i] = IF i <= Len(old) THEN old[i] ELSE new[i - Len(old)]
      BY <2>4, <2>5, ConcatProperties
    <3>2. Len(old) \in Nat /\ Len(new) \in Nat
      BY <2>4, <2>5
    <3> SUFFICES ASSUME NEW i \in 1..Len(old \o new)
                 PROVE  (old \o new)[i].agent \in 1..n
      OBVIOUS
    <3>3. CASE i <= Len(old)
      <4>1. i \in 1..Len(old) /\ (old \o new)[i] = old[i]
        BY <3>1, <3>2, <3>3
      <4>2. old[i].agent \in 1..p
        BY <2>5, <4>1
      <4> QED
        BY <2>6, <4>1, <4>2
    <3>4. CASE ~ (i <= Len(old))
      <4>1. i - Len(old) \in 1..Len(new) /\ (old \o new)[i] = new[i - Len(old)]
        BY <3>1, <3>2, <3>4
      <4>2. new[i - Len(old)].agent = n
        BY <2>4, <4>1
      <4> QED
        BY <2>6, <4>1, <4>2
    <3> QED
      BY <3>3, <3>4
  <2>10. ASSUME NEW a \in 1..n
         PROVE  /\ WaitTold(old \o new, a, lastFleet[a], next[a])
                /\ WorkTold(old \o new, a, lastFleet[a], next[a])
    <3>1. a \in 1..p \/ a = p + 1
      BY <2>6
    <3>2. \A i \in 1..Len(new) : new[i].agent = p + 1
      BY <2>4, <2>6
    <3>3. CASE a \in 1..p
      <4>1. WaitTold(old, a, lastFleet[a], next[a]) /\ WorkTold(old, a, lastFleet[a], next[a])
        BY <2>5, <3>3
      <4> QED
        BY <2>4, <2>5, <2>6, <3>2, <3>3, <4>1, TellsMore DEF WaitTold, WorkTold
    <3>4. CASE a = p + 1
      <4>1. WaitTold(new, a, lastFleet[a], next[a]) /\ WorkTold(new, a, lastFleet[a], next[a])
        BY <2>4, <2>6, <3>4
      <4> QED
        BY <2>4, <2>5, <2>6, <3>2, <3>4, <4>1, TellsMore DEF WaitTold, WorkTold
    <3> QED
      BY <3>1, <3>3, <3>4
  <2>11. TellAll(f[n], n, lastFleet, next)
    BY <2>7, <2>8, <2>9, <2>10 DEF TellAll
  <2> QED
    BY <1>8, <2>11
<1> QED
  BY <1>9, <1>10

\* What is heard of a flag that is told once, or not at all.
LEMMA HeardOfOne ==
  ASSUME NEW lines \in Seq(Lines), NEW a, NEW kinds, NEW kind, NEW yes,
         NEW before \in BOOLEAN, NEW changed,
         kind \in kinds, Tells(lines, a, kinds, kind, changed)
  PROVE  /\ LastWord(lines, Len(lines), a, kinds, yes, before)
               = IF changed THEN kind = yes ELSE before
         /\ \A i \in 1..Len(lines) : lines[i].agent = a /\ lines[i].kind \in kinds
              => /\ lines[i].kind = kind /\ changed
                 /\ LastWord(lines, i - 1, a, kinds, yes, before) = before
<1>1. CASE changed
  <2>1. PICK i \in 1..Len(lines) :
           /\ lines[i] = Event(kind, a)
           /\ \A j \in 1..Len(lines) :
                lines[j].agent = a /\ lines[j].kind \in kinds => j = i
    BY <1>1 DEF Tells
  <2>2. lines[i].agent = a /\ lines[i].kind = kind
    BY <2>1 DEF Event
  <2>3. i \in Nat /\ Len(lines) \in Nat /\ i <= Len(lines) /\ 1 <= i
    OBVIOUS
  <2>4. About(lines, Len(lines), a, kinds) = {i}
    BY <2>1, <2>2 DEF About
  <2>5. (CHOOSE m \in {i} : \A j \in {i} : j <= m) = i
    BY <2>3
  <2>6. LastWord(lines, Len(lines), a, kinds, yes, before) = (kind = yes)
    BY <2>2, <2>4, <2>5 DEF LastWord
  <2>7. About(lines, i - 1, a, kinds) = {}
    BY <2>1, <2>3 DEF About
  <2>8. LastWord(lines, i - 1, a, kinds, yes, before) = before
    BY <2>7 DEF LastWord
  <2> QED
    BY <1>1, <2>1, <2>2, <2>6, <2>8
<1>2. CASE ~changed
  <2>1. About(lines, Len(lines), a, kinds) = {}
    BY <1>2 DEF About, Tells
  <2>2. LastWord(lines, Len(lines), a, kinds, yes, before) = before
    BY <2>1 DEF LastWord
  <2> QED
    BY <1>2, <2>2 DEF Tells
<1> QED
  BY <1>1, <1>2

\* A reader of the difference knows the new fleet, and no line surprises it.
LEMMA DiffIsUnderstood ==
  ASSUME JournalTypeOK, NEW next \in [Agents -> Flags], NEW lines,
         TellAll(lines, AgentCount, lastFleet, next), heardFleet = lastFleet
  PROVE  /\ Believed(lines, Len(lines)) = next
         /\ \A i \in 1..Len(lines) :
              ~ Repeats(lines[i], Believed(lines, i - 1)[lines[i].agent])
<1>1. lines \in Seq(Lines) /\ \A i \in 1..Len(lines) : lines[i].agent \in Agents
  BY AgentNumbers DEF TellAll
<1>2. ASSUME NEW a \in Agents
      PROVE  /\ lastFleet[a] \in Flags /\ next[a] \in Flags
             /\ WaitTold(lines, a, lastFleet[a], next[a])
             /\ WorkTold(lines, a, lastFleet[a], next[a])
  BY AgentNumbers DEF TellAll, JournalTypeOK
<1> DEFINE wait(a) == IF next[a].waits THEN "wait.opened" ELSE "wait.resolved"
           work(a) == IF next[a].busy THEN "session.started" ELSE "session.finished"
<1>3. ASSUME NEW a \in Agents
      PROVE  /\ LastWord(lines, Len(lines), a, OfWait, "wait.opened", lastFleet[a].waits) = next[a].waits
             /\ \A i \in 1..Len(lines) : lines[i].agent = a /\ lines[i].kind \in OfWait
                  => /\ lines[i].kind = wait(a) /\ lastFleet[a].waits # next[a].waits
                     /\ LastWord(lines, i - 1, a, OfWait, "wait.opened", lastFleet[a].waits)
                          = lastFleet[a].waits
  <2>1. lastFleet[a].waits \in BOOLEAN /\ next[a].waits \in BOOLEAN
    BY <1>2 DEF Flags
  <2>2. Tells(lines, a, OfWait, wait(a), lastFleet[a].waits # next[a].waits)
    BY <1>2 DEF WaitTold
  <2>3. wait(a) \in OfWait /\ ((wait(a) = "wait.opened") = next[a].waits)
    BY <2>1 DEF OfWait
  <2> HIDE DEF wait
  <2> DEFINE c == lastFleet[a].waits # next[a].waits
  <2>4. Tells(lines, a, OfWait, wait(a), c)
    BY <2>2
  <2>5. /\ LastWord(lines, Len(lines), a, OfWait, "wait.opened", lastFleet[a].waits)
               = IF c THEN wait(a) = "wait.opened" ELSE lastFleet[a].waits
        /\ \A i \in 1..Len(lines) : lines[i].agent = a /\ lines[i].kind \in OfWait
              => /\ lines[i].kind = wait(a) /\ c
                 /\ LastWord(lines, i - 1, a, OfWait, "wait.opened", lastFleet[a].waits)
                      = lastFleet[a].waits
    <3> DEFINE k == wait(a)
    <3>1. k \in OfWait /\ Tells(lines, a, OfWait, k, c) /\ lines \in Seq(Lines)
      BY <1>1, <2>3, <2>4
    <3> HIDE DEF c, k
    <3>2. /\ LastWord(lines, Len(lines), a, OfWait, "wait.opened", lastFleet[a].waits)
               = IF c THEN k = "wait.opened" ELSE lastFleet[a].waits
          /\ \A i \in 1..Len(lines) : lines[i].agent = a /\ lines[i].kind \in OfWait
              => /\ lines[i].kind = k /\ c
                 /\ LastWord(lines, i - 1, a, OfWait, "wait.opened", lastFleet[a].waits)
                      = lastFleet[a].waits
      BY <2>1, <3>1, HeardOfOne
    <3> QED
      BY <3>2 DEF k
  <2>6. (IF c THEN wait(a) = "wait.opened" ELSE lastFleet[a].waits) = next[a].waits
    BY <2>1, <2>3
  <2> QED
    BY <2>5, <2>6
<1>4. ASSUME NEW a \in Agents
      PROVE  /\ LastWord(lines, Len(lines), a, OfWork, "session.started", lastFleet[a].busy) = next[a].busy
             /\ \A i \in 1..Len(lines) : lines[i].agent = a /\ lines[i].kind \in OfWork
                  => /\ lines[i].kind = work(a) /\ lastFleet[a].busy # next[a].busy
                     /\ LastWord(lines, i - 1, a, OfWork, "session.started", lastFleet[a].busy)
                          = lastFleet[a].busy
  <2>1. lastFleet[a].busy \in BOOLEAN /\ next[a].busy \in BOOLEAN
    BY <1>2 DEF Flags
  <2>2. Tells(lines, a, OfWork, work(a), lastFleet[a].busy # next[a].busy)
    BY <1>2 DEF WorkTold
  <2>3. work(a) \in OfWork /\ ((work(a) = "session.started") = next[a].busy)
    BY <2>1 DEF OfWork
  <2> HIDE DEF work
  <2> DEFINE c == lastFleet[a].busy # next[a].busy
  <2>4. Tells(lines, a, OfWork, work(a), c)
    BY <2>2
  <2>5. /\ LastWord(lines, Len(lines), a, OfWork, "session.started", lastFleet[a].busy)
               = IF c THEN work(a) = "session.started" ELSE lastFleet[a].busy
        /\ \A i \in 1..Len(lines) : lines[i].agent = a /\ lines[i].kind \in OfWork
              => /\ lines[i].kind = work(a) /\ c
                 /\ LastWord(lines, i - 1, a, OfWork, "session.started", lastFleet[a].busy)
                      = lastFleet[a].busy
    <3> DEFINE k == work(a)
    <3>1. k \in OfWork /\ Tells(lines, a, OfWork, k, c) /\ lines \in Seq(Lines)
      BY <1>1, <2>3, <2>4
    <3> HIDE DEF c, k
    <3>2. /\ LastWord(lines, Len(lines), a, OfWork, "session.started", lastFleet[a].busy)
               = IF c THEN k = "session.started" ELSE lastFleet[a].busy
          /\ \A i \in 1..Len(lines) : lines[i].agent = a /\ lines[i].kind \in OfWork
              => /\ lines[i].kind = k /\ c
                 /\ LastWord(lines, i - 1, a, OfWork, "session.started", lastFleet[a].busy)
                      = lastFleet[a].busy
      BY <2>1, <3>1, HeardOfOne
    <3> QED
      BY <3>2 DEF k
  <2>6. (IF c THEN work(a) = "session.started" ELSE lastFleet[a].busy) = next[a].busy
    BY <2>1, <2>3
  <2> QED
    BY <2>5, <2>6
<1>5. Believed(lines, Len(lines)) = next
  <2> DEFINE h == [a \in Agents |->
                     [busy |-> LastWord(lines, Len(lines), a, OfWork, "session.started", heardFleet[a].busy),
                      waits |-> LastWord(lines, Len(lines), a, OfWait, "wait.opened", heardFleet[a].waits)]]
  <2>1. ASSUME NEW a \in Agents PROVE h[a] = next[a]
    <3>1. h[a] = [busy |-> next[a].busy, waits |-> next[a].waits]
      BY <1>3, <1>4
    <3>2. next[a] \in Flags
      BY <1>2
    <3> QED
      BY <3>1, <3>2 DEF Flags
  <2>2. Believed(lines, Len(lines)) = h
    BY DEF Believed
  <2>3. h \in [Agents -> Flags]
    <3>1. \A a \in Agents : h[a] \in Flags
      BY <1>2, <2>1
    <3> QED
      BY <3>1
  <2> HIDE DEF h
  <2> QED
    BY <2>1, <2>2, <2>3
<1>6. ASSUME NEW i \in 1..Len(lines)
      PROVE  ~ Repeats(lines[i], Believed(lines, i - 1)[lines[i].agent])
  <2> DEFINE a == lines[i].agent
             told == Believed(lines, i - 1)[a]
  <2>1. a \in Agents /\ lines[i].kind \in OfWait \cup OfWork
    <3>1. lines[i] \in Lines
      BY <1>1
    <3> QED
      BY <1>1, <3>1 DEF Lines, Kinds
  <2>2. /\ told.busy = LastWord(lines, i - 1, a, OfWork, "session.started", lastFleet[a].busy)
        /\ told.waits = LastWord(lines, i - 1, a, OfWait, "wait.opened", lastFleet[a].waits)
    BY <2>1 DEF Believed
  <2>3. lastFleet[a] \in Flags /\ next[a] \in Flags
    BY <1>2, <2>1
  <2>4. ASSUME lines[i].kind \in OfWait PROVE ~ Repeats(lines[i], told)
    <3>1. /\ lines[i].kind = wait(a) /\ lastFleet[a].waits # next[a].waits
          /\ told.waits = lastFleet[a].waits
      BY <1>3, <2>1, <2>2, <2>4
    <3>2. lastFleet[a].waits \in BOOLEAN /\ next[a].waits \in BOOLEAN
      BY <2>3 DEF Flags
    <3> HIDE DEF told, a
    <3>3. CASE next[a].waits
      BY <3>1, <3>2, <3>3 DEF Repeats
    <3>4. CASE ~ next[a].waits
      BY <3>1, <3>2, <3>4 DEF Repeats
    <3> QED
      BY <3>3, <3>4
  <2>5. ASSUME lines[i].kind \in OfWork PROVE ~ Repeats(lines[i], told)
    <3>1. /\ lines[i].kind = work(a) /\ lastFleet[a].busy # next[a].busy
          /\ told.busy = lastFleet[a].busy
      BY <1>4, <2>1, <2>2, <2>5
    <3>2. lastFleet[a].busy \in BOOLEAN /\ next[a].busy \in BOOLEAN
      BY <2>3 DEF Flags
    <3> HIDE DEF told, a
    <3>3. CASE next[a].busy
      BY <3>1, <3>2, <3>3 DEF Repeats
    <3>4. CASE ~ next[a].busy
      BY <3>1, <3>2, <3>4 DEF Repeats
    <3> QED
      BY <3>3, <3>4
  <2>6. ~ Repeats(lines[i], told)
    BY <2>1, <2>4, <2>5 DEF a, told
  <2> QED
    BY <2>6
<1> QED
  BY <1>5, <1>6

-----------------------------------------------------------------------------
\* What is written whole, of lines that are to be written.
LEMMA WholeLines ==
  ASSUME JournalTypeOK, NEW lines \in Seq(Lines)
  PROVE  Whole(lines) \in Seq(Lines)
<1>1. CASE lines = <<>>
  BY <1>1 DEF Whole
<1>2. CASE lines # <<>>
  <2>1. Tail(lines) \in Seq(Lines)
    BY <1>2, HeadTailProperties
  <2> QED
    BY <2>1 DEF Whole
<1> QED
  BY <1>1, <1>2

\* What stays the end when both get longer, and what is the end of the end.
LEMMA EndStays ==
  ASSUME NEW s \in Seq(Lines), NEW all \in Seq(Lines), NEW more \in Seq(Lines),
         IsEndOf(s, all)
  PROVE  IsEndOf(s \o more, all \o more)
<1> DEFINE t == s \o more
           u == all \o more
<1>1. /\ Len(t) = Len(s) + Len(more) /\ Len(u) = Len(all) + Len(more)
      /\ \A i \in 1 .. Len(s) + Len(more) : t[i] = IF i <= Len(s) THEN s[i] ELSE more[i - Len(s)]
      /\ \A i \in 1 .. Len(all) + Len(more) : u[i] = IF i <= Len(all) THEN all[i] ELSE more[i - Len(all)]
  BY ConcatProperties
<1>2. /\ Len(s) \in Nat /\ Len(all) \in Nat /\ Len(more) \in Nat /\ Len(s) <= Len(all)
      /\ \A i \in 1..Len(s) : s[i] = all[Len(all) - Len(s) + i]
  BY DEF IsEndOf
<1> HIDE DEF t, u
<1>3. ASSUME NEW i \in 1..Len(t) PROVE t[i] = u[Len(u) - Len(t) + i]
  <2>1. /\ Len(u) - Len(t) + i = Len(all) - Len(s) + i
        /\ Len(all) - Len(s) + i \in 1 .. Len(all) + Len(more)
        /\ i \in 1 .. Len(s) + Len(more)
    BY <1>1, <1>2
  <2>2. CASE i <= Len(s)
    <3>1. i \in 1..Len(s) /\ Len(all) - Len(s) + i <= Len(all)
      BY <1>2, <2>2
    <3>2. t[i] = s[i] /\ u[Len(all) - Len(s) + i] = all[Len(all) - Len(s) + i]
      BY <1>1, <2>1, <2>2, <3>1
    <3> QED
      BY <1>2, <2>1, <3>1, <3>2
  <2>3. CASE ~ (i <= Len(s))
    <3>1. /\ ~ (Len(all) - Len(s) + i <= Len(all))
          /\ Len(all) - Len(s) + i - Len(all) = i - Len(s)
      BY <1>2, <2>3
    <3>2. t[i] = more[i - Len(s)] /\ u[Len(all) - Len(s) + i] = more[i - Len(s)]
      BY <1>1, <2>1, <2>3, <3>1
    <3> QED
      BY <2>1, <3>2
  <2> QED
    BY <2>2, <2>3
<1>4. Len(t) <= Len(u)
  BY <1>1, <1>2
<1> QED
  BY <1>3, <1>4 DEF IsEndOf, t, u

LEMMA EndOfEnd ==
  ASSUME NEW first \in Seq(Lines), NEW s \in Seq(Lines), NEW all \in Seq(Lines),
         IsEndOf(first \o s, all)
  PROVE  IsEndOf(s, all)
<1> DEFINE t == first \o s
<1>1. /\ Len(t) = Len(first) + Len(s) /\ Len(t) <= Len(all)
      /\ \A i \in 1 .. Len(first) + Len(s) : t[i] = IF i <= Len(first) THEN first[i] ELSE s[i - Len(first)]
      /\ \A i \in 1..Len(t) : t[i] = all[Len(all) - Len(t) + i]
  BY ConcatProperties DEF IsEndOf
<1>2. Len(first) \in Nat /\ Len(s) \in Nat /\ Len(all) \in Nat
  OBVIOUS
<1> HIDE DEF t
<1>3. ASSUME NEW i \in 1..Len(s) PROVE s[i] = all[Len(all) - Len(s) + i]
  <2>1. /\ Len(first) + i \in 1..Len(t) /\ Len(first) + i \in 1 .. Len(first) + Len(s)
        /\ ~ (Len(first) + i <= Len(first)) /\ Len(first) + i - Len(first) = i
        /\ Len(all) - Len(t) + (Len(first) + i) = Len(all) - Len(s) + i
    BY <1>1, <1>2
  <2>2. t[Len(first) + i] = s[i]
    BY <1>1, <2>1
  <2> QED
    BY <1>1, <2>1, <2>2
<1>4. Len(s) <= Len(all)
  BY <1>1, <1>2
<1> QED
  BY <1>3, <1>4 DEF IsEndOf

LEMMA AllIsItsEnd == ASSUME NEW all \in Seq(Lines) PROVE IsEndOf(all, all)
BY DEF IsEndOf

LEMMA LinesAssociate ==
  ASSUME NEW s \in Seq(Lines), NEW t \in Seq(Lines), NEW u \in Seq(Lines)
  PROVE  (s \o t) \o u = s \o (t \o u)
BY ConcatAssociative, SMTT(30)

\* Rotation and appending keep the end of what was written.
LEMMA AppendKeeps ==
  ASSUME JournalTypeOK, RecentHistoryKept, NEW lines \in Seq(Lines), AppendLines(lines)
  PROVE  /\ RecentHistoryKept'
         /\ journal' \in Seq(Lines) /\ older' \in Seq(Lines) /\ written' \in Seq(Lines)
<1> DEFINE more == Whole(lines)
<1>1. more \in Seq(Lines)
  BY WholeLines
<1>2. journal \in Seq(Lines) /\ older \in Seq(Lines) /\ written \in Seq(Lines) /\ MaxLines \in Nat
  BY HistoryBoundsAssumption DEF JournalTypeOK
<1>3. IsEndOf(older \o journal, written) /\ (Len(older \o journal) > MaxLines \/ older \o journal = written)
  BY DEF RecentHistoryKept
<1>4. written' = written \o more
  BY DEF AppendLines
<1> HIDE DEF more
<1>5. CASE Rotates
  <2>1. older' = journal /\ journal' = more
    <3>1. <<>> \o more = more
      BY <1>1, ConcatEmptySeq
    <3> QED
      BY <1>5, <3>1 DEF AppendLines, more
  <2>2. IsEndOf(journal, written)
    BY <1>2, <1>3, EndOfEnd
  <2>3. IsEndOf(journal \o more, written \o more)
    BY <1>1, <1>2, <2>2, EndStays
  <2>4. Len(journal \o more) = Len(journal) + Len(more) /\ Len(journal) > MaxLines
        /\ Len(journal) \in Nat /\ Len(more) \in Nat
    BY <1>1, <1>2, <1>5, ConcatProperties DEF Rotates
  <2>5. Len(journal \o more) > MaxLines
    BY <1>2, <2>4
  <2> QED
    BY <1>1, <1>2, <1>4, <2>1, <2>3, <2>5 DEF RecentHistoryKept
<1>6. CASE ~ Rotates
  <2>1. older' = older /\ journal' = journal \o more
    BY <1>6 DEF AppendLines, more
  <2>2. older \o (journal \o more) = (older \o journal) \o more
    <3> DEFINE a == older b == journal
    <3>1. a \in Seq(Lines) /\ b \in Seq(Lines)
      BY <1>2
    <3> HIDE DEF a, b
    <3>2. more \in Seq(Lines)
      BY <1>1
    <3> HIDE DEF more
    <3>4. (a \o b) \o more = a \o (b \o more)
      BY <3>1, <3>2, LinesAssociate
    <3> QED
      BY <3>4 DEF a, b
  <2>3. older \o journal \in Seq(Lines) /\ journal \o more \in Seq(Lines)
        /\ written \o more \in Seq(Lines)
    BY <1>1, <1>2
  <2>4. IsEndOf((older \o journal) \o more, written \o more)
    BY <1>1, <1>2, <1>3, <2>3, EndStays
  <2>5. Len((older \o journal) \o more) = Len(older \o journal) + Len(more)
        /\ Len(older \o journal) \in Nat /\ Len(more) \in Nat
    BY <1>1, <2>3, ConcatProperties
  <2>6. Len((older \o journal) \o more) > MaxLines \/ (older \o journal) \o more = written \o more
    <3>1. CASE Len(older \o journal) > MaxLines
      BY <1>2, <2>5, <3>1
    <3>2. CASE older \o journal = written
      BY <3>2
    <3> QED
      BY <1>3, <3>1, <3>2
  <2> QED
    BY <1>2, <1>4, <2>1, <2>2, <2>3, <2>4, <2>6 DEF RecentHistoryKept
<1> QED
  BY <1>5, <1>6

-----------------------------------------------------------------------------
(* The steps.                                                              *)

LEMMA JournalInvInit == HistoryInit => JournalInv
<1> SUFFICES ASSUME HistoryInit PROVE JournalInv
  OBVIOUS
<1>1. Nothing \in [Agents -> Flags]
  BY DEF Nothing, Flags
<1>2. JournalTypeOK
  <2>1. <<>> \in Seq(Lines)
    OBVIOUS
  <2> QED
    BY <1>1, <2>1 DEF HistoryInit, JournalTypeOK
<1>3. <<>> \o <<>> = <<>> /\ IsEndOf(<<>>, <<>>)
  BY FewLines DEF IsEndOf
<1> QED
  BY <1>2, <1>3 DEF HistoryInit, JournalInv, JournalIsHonest, JournalTellsTheFleet, RecentHistoryKept

LEMMA DiffTyped ==
  ASSUME JournalTypeOK, NEW next \in [Agents -> Flags], NEW gone \in SUBSET Agents,
         Shows(next, gone)
  PROVE  /\ TellAll(Diff(next, gone), AgentCount, lastFleet, next)
         /\ Diff(next, gone) \in Seq(Lines)
         /\ lastFleet' = next /\ publishes' \in Nat
<1>1. TellAll(Diff(next, gone), AgentCount, lastFleet, next)
  BY DiffTells DEF Shows
<1>2. Diff(next, gone) \in Seq(Lines)
  BY <1>1 DEF TellAll
<1> QED
  BY <1>1, <1>2 DEF Shows, JournalTypeOK

LEMMA PublishedKeeps ==
  ASSUME JournalInv, NEW next \in [Agents -> Flags], NEW gone \in SUBSET Agents,
         FleetPublished(next, gone)
  PROVE  JournalInv'
<1> DEFINE lines == Diff(next, gone)
<1>1. JournalTypeOK /\ JournalTellsTheFleet /\ RecentHistoryKept
  BY DEF JournalInv, JournalIsHonest
<1>2. Shows(next, gone) /\ heardFleet' = Believed(lines, Len(lines))
      /\ sound' = (sound /\ lines = Whole(lines))
      /\ surprised' = \/ surprised
                      \/ /\ sound'
                         /\ \E i \in 1..Len(lines) :
                              Repeats(lines[i], Believed(lines, i - 1)[lines[i].agent])
      /\ IF lines = <<>>
           THEN UNCHANGED <<journal, older, written, torn>>
           ELSE AppendLines(lines) /\ torn' = FALSE
  BY DEF FleetPublished
<1>3. /\ TellAll(lines, AgentCount, lastFleet, next) /\ lines \in Seq(Lines)
      /\ lastFleet' = next /\ publishes' \in Nat
  BY <1>1, <1>2, DiffTyped
<1> HIDE DEF lines
<1>4. /\ RecentHistoryKept'
      /\ journal' \in Seq(Lines) /\ older' \in Seq(Lines) /\ written' \in Seq(Lines)
      /\ torn' \in BOOLEAN
  <2>1. CASE lines = <<>>
    <3>1. journal' = journal /\ older' = older /\ written' = written /\ torn' = torn
      BY <1>2, <2>1
    <3> QED
      BY <1>1, <3>1 DEF RecentHistoryKept, JournalTypeOK
  <2>2. CASE lines # <<>>
    BY <1>1, <1>2, <1>3, <2>2, AppendKeeps
  <2> QED
    BY <2>1, <2>2
<1>5. sound \in BOOLEAN /\ surprised = FALSE
  BY <1>1 DEF JournalTypeOK, JournalTellsTheFleet
<1>6. heardFleet' \in [Agents -> Flags]
  <2>1. heardFleet \in [Agents -> Flags]
    BY <1>1 DEF JournalTypeOK
  <2>2. \A a \in Agents :
          /\ LastWord(lines, Len(lines), a, OfWork, "session.started", heardFleet[a].busy) \in BOOLEAN
          /\ LastWord(lines, Len(lines), a, OfWait, "wait.opened", heardFleet[a].waits) \in BOOLEAN
    BY <2>1 DEF LastWord, Flags
  <2> QED
    BY <1>2, <2>2 DEF Believed, Flags
<1>7. CASE sound'
  <2>1. sound /\ heardFleet = lastFleet
    BY <1>1, <1>2, <1>7 DEF JournalTellsTheFleet
  <2>2. /\ Believed(lines, Len(lines)) = next
        /\ \A i \in 1..Len(lines) :
             ~ Repeats(lines[i], Believed(lines, i - 1)[lines[i].agent])
    BY <1>1, <1>3, <2>1, DiffIsUnderstood
  <2>3. heardFleet' = lastFleet' /\ surprised' = FALSE /\ sound' \in BOOLEAN
    BY <1>2, <1>3, <1>5, <2>2
  <2> QED
    BY <1>3, <1>4, <1>6, <2>3
       DEF JournalInv, JournalTypeOK, JournalIsHonest, JournalTellsTheFleet
<1>8. CASE ~ sound'
  <2>1. surprised' = FALSE /\ sound' \in BOOLEAN
    BY <1>2, <1>5, <1>8
  <2> QED
    BY <1>3, <1>4, <1>6, <1>8, <2>1
       DEF JournalInv, JournalTypeOK, JournalIsHonest, JournalTellsTheFleet
<1> QED
  BY <1>7, <1>8

LEMMA UnwrittenKeeps ==
  ASSUME JournalInv, NEW next \in [Agents -> Flags], NEW gone \in SUBSET Agents,
         NEW n \in 0..1, NEW partial \in BOOLEAN, PublishUnwritten(next, gone, n, partial)
  PROVE  JournalInv'
<1> DEFINE lines == Diff(next, gone)
           some == SubSeq(lines, 1, n)
<1>1. JournalTypeOK /\ JournalTellsTheFleet /\ RecentHistoryKept
  BY DEF JournalInv, JournalIsHonest
<1>2. /\ Shows(next, gone) /\ n < Len(lines) /\ AppendLines(some)
      /\ torn' = (partial \/ (n = 0 /\ Swallows)) /\ sound' = FALSE
      /\ heardFleet' = heardFleet /\ surprised' = surprised
  BY DEF PublishUnwritten
<1>3. lines \in Seq(Lines) /\ lastFleet' = next /\ publishes' \in Nat
  BY <1>1, <1>2, DiffTyped
<1>4. some \in Seq(Lines)
  <2> HIDE DEF lines
  <2>1. \A i \in 1..n : lines[i] \in Lines
    BY <1>2, <1>3
  <2> QED
    BY <2>1, SubSeqProperties
<1>5. torn' \in BOOLEAN
  BY <1>1, <1>2 DEF JournalTypeOK
<1> HIDE DEF lines, some
<1>6. /\ RecentHistoryKept'
      /\ journal' \in Seq(Lines) /\ older' \in Seq(Lines) /\ written' \in Seq(Lines)
  BY <1>1, <1>2, <1>4, AppendKeeps
<1> QED
  BY <1>1, <1>2, <1>3, <1>5, <1>6
     DEF JournalInv, JournalTypeOK, JournalIsHonest, JournalTellsTheFleet

LEMMA RestartKeeps ==
  ASSUME JournalInv, NEW between \in BOOLEAN, Restart(between)
  PROVE  JournalInv'
<1>1. JournalTypeOK /\ JournalTellsTheFleet /\ RecentHistoryKept
  BY DEF JournalInv, JournalIsHonest
<1>2. /\ lastFleet' = Nothing /\ heardFleet' = Nothing /\ sound' = TRUE
      /\ surprised' = surprised /\ written' = written /\ publishes' = publishes
  BY DEF Restart
<1>3. Nothing \in [Agents -> Flags]
  BY DEF Nothing, Flags
<1>4. journal \in Seq(Lines) /\ older \in Seq(Lines) /\ written \in Seq(Lines)
  BY <1>1 DEF JournalTypeOK
<1>5. /\ RecentHistoryKept'
      /\ journal' \in Seq(Lines) /\ older' \in Seq(Lines) /\ torn' \in BOOLEAN
  <2>1. CASE between
    <3>1. Rotates /\ older' = journal /\ journal' = <<>> /\ torn' = FALSE
      BY <2>1 DEF Restart
    <3>2. IsEndOf(journal, written)
      BY <1>1, <1>4, EndOfEnd DEF RecentHistoryKept
    <3>3. journal \o <<>> = journal
      BY <1>4, ConcatEmptySeq
    <3>4. Len(journal) > MaxLines
      BY <3>1 DEF Rotates
    <3>5. older' \o journal' = journal
      BY <3>1, <3>3
    <3>6. RecentHistoryKept'
      BY <1>2, <3>2, <3>4, <3>5 DEF RecentHistoryKept
    <3>7. <<>> \in Seq(Lines)
      OBVIOUS
    <3> QED
      BY <1>4, <3>1, <3>6, <3>7
  <2>2. CASE ~ between
    <3>1. journal' = journal /\ older' = older /\ torn' = torn
      BY <2>2 DEF Restart
    <3> QED
      BY <1>1, <1>2, <3>1 DEF RecentHistoryKept, JournalTypeOK
  <2> QED
    BY <2>1, <2>2
<1> QED
  BY <1>1, <1>2, <1>3, <1>5
     DEF JournalInv, JournalTypeOK, JournalIsHonest, JournalTellsTheFleet

LEMMA JournalStep == JournalInv /\ [HistoryNext]_historyVars => JournalInv'
<1> SUFFICES ASSUME JournalInv, [HistoryNext]_historyVars PROVE JournalInv'
  OBVIOUS
<1>1. CASE \E next \in [Agents -> Flags], gone \in SUBSET Agents : FleetPublished(next, gone)
  BY <1>1, PublishedKeeps
<1>2. CASE \E next \in [Agents -> Flags], gone \in SUBSET Agents, n \in 0..1, partial \in BOOLEAN :
             PublishUnwritten(next, gone, n, partial)
  BY <1>2, UnwrittenKeeps
<1>3. CASE \E between \in BOOLEAN : Restart(between)
  BY <1>3, RestartKeeps
<1>4. CASE UNCHANGED historyVars
  <2>1. /\ lastFleet' = lastFleet /\ journal' = journal /\ older' = older /\ torn' = torn
        /\ heardFleet' = heardFleet /\ sound' = sound /\ surprised' = surprised
        /\ written' = written /\ publishes' = publishes
    BY <1>4 DEF historyVars
  <2> QED
    BY <2>1 DEF JournalInv, JournalTypeOK, JournalIsHonest, JournalTellsTheFleet, RecentHistoryKept
<1> QED
  BY <1>1, <1>2, <1>3, <1>4 DEF HistoryNext

\* The journal (publish, appendHistoryEvents): as long as no write fails, the
\* events of one run tell of each agent of the fleet when it became busy or
\* waiting and when it no longer was, each once; and through failed writes,
\* rotations and crashes the two files keep the end of all that was written.
THEOREM JournalIsAlwaysHonest == HistorySpec => []JournalIsHonest
<1>1. JournalInv => JournalIsHonest
  BY DEF JournalInv
<1> QED
  BY JournalInvInit, JournalStep, <1>1, PTL DEF HistorySpec

-----------------------------------------------------------------------------
(* SharedFloors: recursion over the numbers up to a bound.                 *)

IsStep(step, V) == step \in [Nat \X V -> V]
IsSolvable(V, base, step, m) ==
  \E f \in [0..m -> V] : f[0] = base /\ \A n \in 1..m : f[n] = step[<<n, f[n - 1]>>]

\* A recursion over the numbers up to m has a solution: were there a least m
\* without one, the solution for one less would extend to it.
LEMMA RecursionSolved ==
  ASSUME NEW V, NEW base \in V, NEW step, IsStep(step, V), NEW m \in Nat
  PROVE  IsSolvable(V, base, step, m)
<1>0. step \in [Nat \X V -> V]
  BY DEF IsStep
<1> DEFINE Solves(f, k) == /\ f \in [0..k -> V] /\ f[0] = base
                           /\ \A n \in 1..k : f[n] = step[<<n, f[n - 1]>>]
           Without == {k \in Nat : ~ \E f : Solves(f, k)}
<1>1. SUFFICES ASSUME Without # {} PROVE FALSE
  <2>1. \E f : Solves(f, m)
    BY <1>1
  <2> QED
    BY <2>1 DEF IsSolvable
<1>2. PICK k \in Without : \A d \in Without : k <= d
  <2>1. Without \in SUBSET Nat
    OBVIOUS
  <2> HIDE DEF Without
  <2> QED
    BY <1>1, <2>1, LeastNumber
<1>3. k \in Nat /\ ~ \E f : Solves(f, k)
  OBVIOUS
<1>4. CASE k = 0
  <2>1. Solves([n \in 0..0 |-> base], 0)
    OBVIOUS
  <2> QED
    BY <1>3, <1>4, <2>1
<1>5. CASE k # 0
  <2>1. k - 1 \in Nat /\ ~ (k <= k - 1)
    BY <1>3, <1>5
  <2>2. k - 1 \notin Without
    <3> HIDE DEF Without
    <3> QED
      BY <1>2, <2>1
  <2>3. PICK f : Solves(f, k - 1)
    <3> HIDE DEF Solves
    <3> QED
      BY <2>1, <2>2
  <2> DEFINE g == [n \in 0..k |-> IF n = k THEN step[<<k, f[k - 1]>>] ELSE f[n]]
  <2>4. f[k - 1] \in V /\ step[<<k, f[k - 1]>>] \in V
    BY <1>0, <1>3, <2>1, <2>3
  <2>5. \A n \in 0..k : n # k => n \in 0 .. k - 1
    BY <1>3
  <2>6. g \in [0..k -> V]
    BY <2>3, <2>4, <2>5
  <2>7. g[0] = base
    BY <1>3, <1>5, <2>3
  <2>8. \A n \in 1..k : g[n] = step[<<n, g[n - 1]>>]
    <3> SUFFICES ASSUME NEW n \in 1..k PROVE g[n] = step[<<n, g[n - 1]>>]
      OBVIOUS
    <3>1. n - 1 \in 0..k /\ n - 1 # k /\ n \in 0..k
      BY <1>3
    <3>2. g[n - 1] = f[n - 1]
      BY <3>1
    <3>3. g[n] = IF n = k THEN step[<<k, f[k - 1]>>] ELSE f[n]
      BY <3>1
    <3>4. n # k => f[n] = step[<<n, f[n - 1]>>]
      BY <1>3, <2>3
    <3> HIDE DEF g
    <3> QED
      BY <3>2, <3>3, <3>4
  <2> HIDE DEF g
  <2>9. Solves(g, k)
    BY <2>6, <2>7, <2>8
  <2> QED
    BY <1>3, <2>9
<1> QED
  BY <1>4, <1>5

StepsAgree(f, h, m) ==
  f[0] = h[0] /\ \A n \in 1..m : f[n - 1] = h[n - 1] => f[n] = h[n]
Agree(f, h, m) == \A n \in 0..m : f[n] = h[n]

\* And there is no other.
LEMMA RecursionsAgree ==
  ASSUME NEW f, NEW h, NEW m \in Nat, StepsAgree(f, h, m)
  PROVE  Agree(f, h, m)
<1> DEFINE Off == {n \in 0..m : f[n] # h[n]}
<1>1. SUFFICES ASSUME Off # {} PROVE FALSE
  BY DEF Agree
<1>2. PICK n \in Off : \A d \in Off : n <= d
  <2>1. Off \in SUBSET Nat
    OBVIOUS
  <2> HIDE DEF Off
  <2> QED
    BY <1>1, <2>1, LeastNumber
<1>3. n \in 1..m /\ n - 1 \in 0..m /\ ~ (n <= n - 1)
  BY DEF StepsAgree
<1>4. f[n - 1] = h[n - 1]
  BY <1>2, <1>3
<1> QED
  BY <1>3, <1>4 DEF StepsAgree

-----------------------------------------------------------------------------
(* SharedFloors: what the floors say.                                      *)

ShownAgents == [id : STRING, of : Peers \cup {Own}]
ShownFloors == FloorsOf(Peers \cup {Own})

\* The first of some positions.
LEMMA FirstIsLeast ==
  ASSUME NEW hits \in SUBSET (Nat \ {0})
  PROVE  /\ hits = {} <=> First(hits) = 0
         /\ hits # {} => First(hits) \in hits /\ \A j \in hits : First(hits) <= j
<1>1. CASE hits = {}
  BY <1>1 DEF First
<1>2. CASE hits # {}
  <2>1. \E i \in hits : \A j \in hits : i <= j
    BY <1>2, LeastNumber
  <2>2. First(hits) = CHOOSE i \in hits : \A j \in hits : i <= j
    BY <1>2 DEF First
  <2>3. First(hits) \in hits /\ \A j \in hits : First(hits) <= j
    BY <2>1, <2>2
  <2> QED
    BY <1>2, <2>3
<1> QED
  BY <1>1, <1>2

\* What joins a floor: the agents it does not have, each once.
JoinsAs(js, n, peer, remote, floor) ==
  /\ js \in Seq(ShownAgents)
  /\ \A k \in DOMAIN js : \E a \in 1..n :
       /\ js[k] = Shares(peer, remote.agents[a])
       /\ ~ \E l \in DOMAIN floor.agents : floor.agents[l] = Shares(Own, remote.agents[a])
  /\ \A k, l \in DOMAIN js : js[k] = js[l] => k = l
  /\ \A a \in 1..n :
       \/ \E k \in DOMAIN js : js[k] = Shares(peer, remote.agents[a])
       \/ \E l \in DOMAIN floor.agents : floor.agents[l] = Shares(Own, remote.agents[a])

IdsAreDistinct(floor) ==
  \A j, k \in DOMAIN floor.agents : floor.agents[j].id = floor.agents[k].id => j = k

LEMMA SharesAnAgent ==
  ASSUME NEW peer \in Peers, NEW remote \in FloorsOf({Own}), NEW n \in 1..Len(remote.agents)
  PROVE  Shares(peer, remote.agents[n]) \in ShownAgents
<1> DEFINE Theirs == [id : STRING, of : {Own}]
<1>1. remote.agents \in Seq(Theirs)
  BY DEF FloorsOf
<1> HIDE DEF Theirs
<1>2. remote.agents[n] \in Theirs
  BY <1>1
<1>3. remote.agents[n].id \in STRING
  BY <1>2 DEF Theirs
<1> QED
  BY <1>3 DEF ShownAgents, Shares

LEMMA OneMoreJoins ==
  ASSUME NEW peer \in Peers, NEW remote \in FloorsOf({Own}), IdsAreDistinct(remote),
         NEW floor, NEW js, NEW n \in 1..Len(remote.agents),
         JoinsAs(js, n - 1, peer, remote, floor)
  PROVE  JoinsAs(IF \E l \in DOMAIN floor.agents : floor.agents[l] = Shares(Own, remote.agents[n])
                 THEN js ELSE Append(js, Shares(peer, remote.agents[n])), n, peer, remote, floor)
<1> DEFINE here(a) == \E l \in DOMAIN floor.agents : floor.agents[l] = Shares(Own, remote.agents[a])
           next == Shares(peer, remote.agents[n])
<1>1. remote.agents \in Seq([id : STRING, of : {Own}]) /\ n \in Nat /\ n # 0
  BY DEF FloorsOf
<1>2. next \in ShownAgents
  BY SharesAnAgent
<1>3. \A a \in 1 .. n - 1 : a \in 1..n /\ Shares(peer, remote.agents[a]) # next
  BY <1>1 DEF Shares, IdsAreDistinct
<1>4. 1..n = (1 .. n - 1) \cup {n}
  BY <1>1
<1> HIDE DEF here, next
<1>5. CASE here(n)
  BY <1>4, <1>5 DEF JoinsAs, here
<1>6. CASE ~ here(n)
  <2> DEFINE grown == Append(js, next)
  <2>1. js \in Seq(ShownAgents)
    BY DEF JoinsAs
  <2>2. grown \in Seq(ShownAgents) /\ Len(grown) = Len(js) + 1 /\ Len(js) \in Nat
        /\ grown[Len(js) + 1] = next /\ \A k \in DOMAIN js : grown[k] = js[k]
    BY <1>2, <2>1, AppendProperties
  <2>3. DOMAIN grown = DOMAIN js \cup {Len(js) + 1}
    BY <2>1, <2>2
  <2> HIDE DEF grown
  <2>4. \A k \in DOMAIN js : js[k] # next
    BY <1>3 DEF JoinsAs
  <2>5. JoinsAs(grown, n, peer, remote, floor)
    <3>1. \A k \in DOMAIN grown : \E a \in 1..n : grown[k] = Shares(peer, remote.agents[a]) /\ ~ here(a)
      <4> SUFFICES ASSUME NEW k \in DOMAIN grown
                   PROVE  \E a \in 1..n : grown[k] = Shares(peer, remote.agents[a]) /\ ~ here(a)
        OBVIOUS
      <4>1. CASE k \in DOMAIN js
        <5>1. PICK a \in 1 .. n - 1 : js[k] = Shares(peer, remote.agents[a]) /\ ~ here(a)
          BY <4>1 DEF JoinsAs, here
        <5> QED
          BY <1>4, <2>2, <4>1, <5>1
      <4>2. CASE k = Len(js) + 1
        BY <1>4, <1>6, <2>2, <4>2 DEF next
      <4> QED
        BY <2>3, <4>1, <4>2
    <3>2. \A k, l \in DOMAIN grown : grown[k] = grown[l] => k = l
      BY <2>2, <2>3, <2>4 DEF JoinsAs
    <3>3. \A a \in 1..n : (\E k \in DOMAIN grown : grown[k] = Shares(peer, remote.agents[a])) \/ here(a)
      BY <1>4, <2>2, <2>3 DEF JoinsAs, here, next
    <3> QED
      BY <2>2, <3>1, <3>2, <3>3 DEF JoinsAs, here
  <2> QED
    BY <1>6, <2>5 DEF grown, here, next
<1> QED
  BY <1>5, <1>6 DEF here, next

LEMMA JoiningJoins ==
  ASSUME NEW peer \in Peers, NEW remote \in FloorsOf({Own}), NEW floor
  PROVE  /\ Joining(peer, remote, floor) \in Seq(ShownAgents)
         /\ IdsAreDistinct(remote) =>
              JoinsAs(Joining(peer, remote, floor), Len(remote.agents), peer, remote, floor)
<1> DEFINE m == Len(remote.agents)
           V == Seq(ShownAgents)
           Next_(js, n) ==
             IF \E l \in DOMAIN floor.agents : floor.agents[l] = Shares(Own, remote.agents[n])
             THEN js ELSE Append(js, Shares(peer, remote.agents[n]))
           step == [x \in Nat \X V |-> IF x[1] \in 1..m THEN Next_(x[2], x[1]) ELSE x[2]]
           Is(h) == h = [n \in 0..m |-> IF n = 0 THEN <<>> ELSE Next_(h[n - 1], n)]
<1>1. m \in Nat /\ <<>> \in V
  <2>1. remote.agents \in Seq([id : STRING, of : {Own}])
    BY DEF FloorsOf
  <2> QED
    BY <2>1
<1>2. Joining(peer, remote, floor) = (CHOOSE h : Is(h))[m]
  BY DEF Joining
<1>3. \A js \in V : \A n \in 1..m : Next_(js, n) \in V
  <2> SUFFICES ASSUME NEW js \in V, NEW n \in 1..m PROVE Next_(js, n) \in V
    OBVIOUS
  <2>1. Shares(peer, remote.agents[n]) \in ShownAgents
    BY SharesAnAgent
  <2>2. Append(js, Shares(peer, remote.agents[n])) \in V
    BY <2>1, AppendProperties
  <2> QED
    BY <2>2
<1>4. ASSUME IdsAreDistinct(remote), NEW n \in 1..m, NEW js, JoinsAs(js, n - 1, peer, remote, floor)
      PROVE  JoinsAs(Next_(js, n), n, peer, remote, floor)
  BY <1>4, OneMoreJoins
<1> HIDE DEF Next_, V, m
<1>5. step \in [Nat \X V -> V]
  BY <1>3
<1>6. PICK f \in [0..m -> V] : f[0] = <<>> /\ \A n \in 1..m : f[n] = step[<<n, f[n - 1]>>]
  <2>1. IsStep(step, V)
    BY <1>5 DEF IsStep
  <2> HIDE DEF step
  <2>2. IsSolvable(V, <<>>, step, m)
    BY <1>1, <2>1, RecursionSolved
  <2> QED
    BY <2>2 DEF IsSolvable
<1>7. \A n \in 1..m : f[n] = Next_(f[n - 1], n)
  <2>1. \A n \in 1..m : \A js \in V : step[<<n, js>>] = Next_(js, n)
    BY <1>1
  <2>2. \A n \in 1..m : f[n - 1] \in V
    BY <1>1, <1>6
  <2> HIDE DEF step
  <2> QED
    BY <1>6, <2>1, <2>2
<1>8. Is(f)
  BY <1>6, <1>7
<1>9. PICK h : h = (CHOOSE g : Is(g))
  OBVIOUS
<1>10. Is(h)
  <2> HIDE DEF Is
  <2> QED
    BY <1>8, <1>9
<1>11. h[0] = <<>> /\ \A n \in 1..m : h[n] = Next_(h[n - 1], n)
  BY <1>1, <1>10
<1>12. \A n \in 0..m : f[n] = h[n]
  <2>1. StepsAgree(f, h, m)
    BY <1>6, <1>7, <1>11 DEF StepsAgree
  <2>2. Agree(f, h, m)
    BY <1>1, <2>1, RecursionsAgree
  <2> QED
    BY <2>2 DEF Agree
<1>13. m \in 0..m /\ Joining(peer, remote, floor) = f[m]
  BY <1>1, <1>2, <1>9, <1>12
<1>14. ASSUME IdsAreDistinct(remote) PROVE JoinsAs(f[m], m, peer, remote, floor)
  <2> DEFINE Off == {n \in 0..m : ~ JoinsAs(f[n], n, peer, remote, floor)}
  <2>1. ASSUME Off # {} PROVE FALSE
    <3>1. PICK n \in Off : \A d \in Off : n <= d
      <4>1. Off \in SUBSET Nat
        BY <1>1
      <4> HIDE DEF Off
      <4> QED
        BY <2>1, <4>1, LeastNumber
    <3>2. n \in 0..m /\ ~ JoinsAs(f[n], n, peer, remote, floor)
      OBVIOUS
    <3>3. CASE n = 0
      <4>1. f[0] = <<>> /\ <<>> \in Seq(ShownAgents) /\ 1..0 = {} /\ DOMAIN <<>> = {}
        BY <1>6
      <4>2. JoinsAs(f[0], 0, peer, remote, floor)
        BY <4>1 DEF JoinsAs
      <4> QED
        BY <3>2, <3>3, <4>2
    <3>4. CASE n # 0
      <4>1. n \in 1..m /\ n - 1 \in 0..m /\ ~ (n <= n - 1)
        BY <1>1, <3>2, <3>4
      <4>2. JoinsAs(f[n - 1], n - 1, peer, remote, floor)
        BY <3>1, <4>1
      <4>3. JoinsAs(f[n], n, peer, remote, floor)
        BY <1>4, <1>7, <1>14, <4>1, <4>2
      <4> QED
        BY <3>2, <4>3
    <3> QED
      BY <3>3, <3>4
  <2> QED
    BY <1>13, <2>1
<1> QED
  BY <1>6, <1>13, <1>14 DEF V, m

-----------------------------------------------------------------------------
(* SharedFloors: which floor is a remote one's.                            *)

LEMMA HitsArePositions ==
  ASSUME NEW s \in Seq(ShownFloors), NEW f
  PROVE  /\ OfRepository(s, f) \in SUBSET (Nat \ {0}) /\ OfCommit(s, f) \in SUBSET (Nat \ {0})
         /\ ByRepository(s, f) = First(OfRepository(s, f))
         /\ ByCommit(s, f) \in {0, First(OfCommit(s, f))}
         /\ ByIdentity(s, f) \in {0} \cup DOMAIN s
<1>1. /\ OfRepository(s, f) \in SUBSET (Nat \ {0}) /\ OfCommit(s, f) \in SUBSET (Nat \ {0})
      /\ OfRepository(s, f) \subseteq DOMAIN s /\ OfCommit(s, f) \subseteq DOMAIN s
  BY DEF OfRepository, OfCommit
<1>2. ByRepository(s, f) = First(OfRepository(s, f))
  BY DEF ByRepository
<1>3. ByCommit(s, f) \in {0, First(OfCommit(s, f))}
  BY DEF ByCommit
<1>4. ASSUME NEW hits \in SUBSET (Nat \ {0}), hits \subseteq DOMAIN s
      PROVE  First(hits) \in {0} \cup DOMAIN s
  BY <1>4, FirstIsLeast
<1> QED
  BY <1>1, <1>2, <1>3, <1>4 DEF ByIdentity

\* Agents come and go; the floor stays whose it is.
SameIdentities(s, t) ==
  DOMAIN s = DOMAIN t /\ \A i \in DOMAIN s :
    s[i].root = t[i].root /\ s[i].repo = t[i].repo /\ s[i].commit = t[i].commit

LEMMA IdentityStays ==
  ASSUME NEW s \in Seq(ShownFloors), NEW t \in Seq(ShownFloors), SameIdentities(s, t), NEW f
  PROVE  ByIdentity(t, f) = ByIdentity(s, f)
<1>1. OfRepository(t, f) = OfRepository(s, f) /\ OfCommit(t, f) = OfCommit(s, f)
  BY DEF SameIdentities, OfRepository, OfCommit
<1>2. ByRepository(t, f) = ByRepository(s, f)
  BY <1>1, HitsArePositions
<1> DEFINE hits == OfCommit(s, f)
           Same(u) == \A i \in hits : SameProject(u[i], u[First(hits)])
<1>3. ByCommit(s, f) = IF Same(s) THEN First(hits) ELSE 0
  BY DEF ByCommit
<1>4. ByCommit(t, f) = IF Same(t) THEN First(hits) ELSE 0
  BY <1>1 DEF ByCommit
<1>5. Same(t) <=> Same(s)
  <2>1. hits \subseteq DOMAIN s
    BY DEF OfCommit
  <2>2. hits # {} => First(hits) \in hits
    BY HitsArePositions, FirstIsLeast
  <2> HIDE DEF hits
  <2> QED
    BY <2>1, <2>2 DEF SameIdentities, SameProject
<1> HIDE DEF Same, hits
<1> QED
  BY <1>2, <1>3, <1>4, <1>5 DEF ByIdentity

\* One more position after the others does not come first.
LEMMA FirstOfMore ==
  ASSUME NEW n \in Nat, NEW hits \in SUBSET (1..n), hits # {},
         NEW more, more \in {hits, hits \cup {n + 1}}
  PROVE  First(more) = First(hits)
<1>1. hits \in SUBSET (Nat \ {0}) /\ more \in SUBSET (Nat \ {0}) /\ more # {}
  OBVIOUS
<1>2. First(hits) \in hits /\ \A j \in hits : First(hits) <= j
  BY <1>1, FirstIsLeast
<1>3. First(more) \in more /\ \A j \in more : First(more) <= j
  BY <1>1, FirstIsLeast
<1>4. PICK a : a = First(hits)
  OBVIOUS
<1>5. PICK b : b = First(more)
  OBVIOUS
<1>6. a \in 1..n /\ a \in more
  BY <1>2, <1>4
<1>7. b <= a /\ (b \in hits \/ b = n + 1)
  BY <1>3, <1>5, <1>6
<1>8. b \in hits
  BY <1>6, <1>7
<1>9. a <= b
  BY <1>2, <1>4, <1>8
<1> QED
  BY <1>4, <1>5, <1>6, <1>7, <1>8, <1>9

\* A new floor takes nobody's from him, but of those of its own repository
\* who are known by another root commit.
LEMMA HomeStays ==
  ASSUME NEW s \in Seq(ShownFloors), NEW g \in ShownFloors, ByIdentity(s, g) = 0,
         NEW f, ByIdentity(s, f) # 0, g.repo = f.repo => g.commit = f.commit
  PROVE  ByIdentity(Append(s, g), f) = ByIdentity(s, f)
<1> DEFINE t == Append(s, g)
           n == Len(s)
<1>1. /\ n \in Nat /\ DOMAIN s = 1..n /\ DOMAIN t = 1..n \cup {n + 1} /\ t[n + 1] = g
      /\ t \in Seq(ShownFloors) /\ \A i \in 1..n : t[i] = s[i]
  <2>1. /\ t \in Seq(ShownFloors) /\ Len(t) = n + 1 /\ t[n + 1] = g /\ \A i \in 1..n : t[i] = s[i]
    BY AppendProperties
  <2> QED
    BY <2>1
<1> HIDE DEF t, n
<1>2. OfRepository(t, f) = OfRepository(s, f) \cup (IF Known(g.repo, f.repo) THEN {n + 1} ELSE {})
  BY <1>1 DEF OfRepository
<1>3. OfCommit(t, f) = OfCommit(s, f) \cup (IF Known(g.commit, f.commit) THEN {n + 1} ELSE {})
  BY <1>1 DEF OfCommit
<1>4. /\ ByRepository(s, f) = First(OfRepository(s, f)) /\ ByRepository(t, f) = First(OfRepository(t, f))
      /\ OfRepository(s, f) \in SUBSET (Nat \ {0}) /\ OfCommit(s, f) \in SUBSET (Nat \ {0})
      /\ OfRepository(s, f) \in SUBSET (1..n) /\ OfCommit(s, f) \in SUBSET (1..n)
  <2>1. OfRepository(s, f) \subseteq DOMAIN s /\ OfCommit(s, f) \subseteq DOMAIN s
    BY DEF OfRepository, OfCommit
  <2> QED
    BY <1>1, <2>1, HitsArePositions
<1>5. CASE OfRepository(s, f) # {}
  <2>1. ByRepository(t, f) = ByRepository(s, f)
    BY <1>1, <1>2, <1>4, <1>5, FirstOfMore
  <2>2. ByRepository(s, f) # 0
    BY <1>4, <1>5, FirstIsLeast
  <2> QED
    BY <2>1, <2>2 DEF ByIdentity, t
<1>6. CASE OfRepository(s, f) = {}
  <2>1. ByRepository(s, f) = 0
    BY <1>4, <1>6, FirstIsLeast
  <2>2. ByCommit(s, f) # 0
    BY <2>1 DEF ByIdentity
  <2>3. ByCommit(s, g) = 0
    BY DEF ByIdentity
  <2>4. ~ (Known(g.commit, f.commit))
    <3>1. g.commit = f.commit => ByCommit(s, g) = ByCommit(s, f)
      BY DEF ByCommit, OfCommit
    <3> QED
      BY <2>2, <2>3, <3>1 DEF Known
  <2>5. ~ (Known(g.repo, f.repo))
    <3>1. g.commit = f.commit => ByCommit(s, g) = ByCommit(s, f)
      BY DEF ByCommit, OfCommit
    <3> QED
      BY <2>2, <2>3, <3>1 DEF Known
  <2>6. ByRepository(t, f) = 0
    BY <1>2, <1>4, <2>1, <2>5
  <2> DEFINE hits == OfCommit(s, f)
             Same(u) == \A i \in hits : SameProject(u[i], u[First(hits)])
  <2>7. ByCommit(s, f) = IF Same(s) THEN First(hits) ELSE 0
    BY DEF ByCommit
  <2>8. OfCommit(t, f) = hits
    BY <1>3, <2>4
  <2>9. ByCommit(t, f) = IF Same(t) THEN First(hits) ELSE 0
    BY <2>8 DEF ByCommit
  <2>10. Same(t) <=> Same(s)
    <3>1. hits # {} => First(hits) \in hits
      BY <1>4, FirstIsLeast
    <3>2. hits \subseteq 1..n
      BY <1>4
    <3> HIDE DEF hits
    <3> QED
      BY <1>1, <3>1, <3>2
  <2> HIDE DEF Same, hits
  <2> QED
    BY <2>1, <2>6, <2>7, <2>9, <2>10 DEF ByIdentity, t
<1> QED
  BY <1>5, <1>6

\* A new floor of a known repository is the home of those of it.
LEMMA HomeMade ==
  ASSUME NEW s \in Seq(ShownFloors), NEW g \in ShownFloors, ByIdentity(s, g) = 0,
         NEW f, g.repo = f.repo, f.repo # Unknown
  PROVE  ByIdentity(Append(s, g), f) = Len(s) + 1
<1> DEFINE t == Append(s, g)
           n == Len(s)
<1>1. /\ n \in Nat /\ DOMAIN s = 1..n /\ DOMAIN t = 1..n \cup {n + 1} /\ t[n + 1] = g
      /\ t \in Seq(ShownFloors) /\ \A i \in 1..n : t[i] = s[i]
  <2>1. /\ t \in Seq(ShownFloors) /\ Len(t) = n + 1 /\ t[n + 1] = g /\ \A i \in 1..n : t[i] = s[i]
    BY AppendProperties
  <2> QED
    BY <2>1
<1>2. ByRepository(s, g) = 0
  BY DEF ByIdentity
<1> HIDE DEF t, n
<1>3. OfRepository(s, g) = {}
  BY <1>2, HitsArePositions, FirstIsLeast
<1>4. OfRepository(t, f) = {n + 1}
  BY <1>1, <1>3 DEF OfRepository, Known
<1>5. {n + 1} \in SUBSET (Nat \ {0}) /\ n + 1 # 0
  BY <1>1
<1>6. First({n + 1}) = n + 1
  <2>1. First({n + 1}) \in {n + 1}
    BY <1>5, FirstIsLeast
  <2> QED
    BY <2>1
<1>7. ByRepository(t, f) = n + 1
  BY <1>1, <1>4, <1>6, HitsArePositions
<1> QED
  BY <1>5, <1>7 DEF ByIdentity, t, n

-----------------------------------------------------------------------------
(* SharedFloors: what is shown after some floors of the peers were merged. *)

ToldFloors(peers) == {t \in Nat \X Nat : t[1] \in DOMAIN peers /\ t[2] \in DOMAIN peers[t[1]].floors}
PeerOf(peers, t) == peers[t[1]].peer
FloorTold(peers, t) == peers[t[1]].floors[t[2]]

RoomIsSound(peers) ==
  /\ peers \in Seq([peer : Peers, floors : RemoteFleets])
  /\ \A m, n \in DOMAIN peers : peers[m].peer = peers[n].peer => m = n

OneHistoryIn(peers, repo) ==
  \A t, u \in ToldFloors(peers) :
    FloorTold(peers, t).repo = repo /\ FloorTold(peers, u).repo = repo
      => FloorTold(peers, t).commit = FloorTold(peers, u).commit

KeepsOwn(s, fleet) ==
  \A i \in DOMAIN fleet : \A k \in DOMAIN fleet[i].agents :
    i \in DOMAIN s /\ k \in DOMAIN s[i].agents /\ s[i].agents[k] = fleet[i].agents[k]

NotNextToOwn(s) ==
  \A i \in DOMAIN s : \A k, l \in DOMAIN s[i].agents :
    s[i].agents[k].of = Own /\ s[i].agents[l].of # Own => s[i].agents[k].id # s[i].agents[l].id

ComesFrom(s, i, agent, peers, t) ==
  /\ agent.of = PeerOf(peers, t) /\ agent.id \in Ids(FloorTold(peers, t))
  /\ FloorTold(peers, t).repo # Unknown /\ OneHistoryIn(peers, FloorTold(peers, t).repo)
       => ByIdentity(s, FloorTold(peers, t)) = i

TheyAreTold(s, peers, T) ==
  \A i \in DOMAIN s : \A k \in DOMAIN s[i].agents :
    s[i].agents[k].of # Own => \E t \in T : ComesFrom(s, i, s[i].agents[k], peers, t)

EachOnce(s) ==
  \A i, j \in DOMAIN s : \A k \in DOMAIN s[i].agents : \A l \in DOMAIN s[j].agents :
    s[i].agents[k] = s[j].agents[l] /\ s[i].agents[k].of # Own => i = j /\ k = l

IsShown(s, id, owners) ==
  \E i \in DOMAIN s : \E k \in DOMAIN s[i].agents :
    s[i].agents[k].id = id /\ s[i].agents[k].of \in owners

NobodyMissing(s, peers, T) ==
  \A t \in T : \A id \in Ids(FloorTold(peers, t)) : IsShown(s, id, {PeerOf(peers, t), Own})

FloorsAreSound(s, fleet, peers, T) ==
  /\ s \in Seq(ShownFloors)
  /\ KeepsOwn(s, fleet)
  /\ NotNextToOwn(s)
  /\ TheyAreTold(s, peers, T)
  /\ EachOnce(s)
  /\ NobodyMissing(s, peers, T)

LEMMA WhatIsTold ==
  ASSUME NEW peers, RoomIsSound(peers), NEW t \in ToldFloors(peers)
  PROVE  /\ FloorTold(peers, t) \in FloorsOf({Own}) /\ IdsAreDistinct(FloorTold(peers, t))
         /\ PeerOf(peers, t) \in Peers /\ PeerOf(peers, t) # Own
         /\ \A u \in ToldFloors(peers) : \A id \in Ids(FloorTold(peers, t)) :
              PeerOf(peers, t) = PeerOf(peers, u) /\ id \in Ids(FloorTold(peers, u)) => t = u
<1> DEFINE Said == [peer : Peers, floors : RemoteFleets]
<1>1. /\ peers \in Seq(Said)
      /\ \A m, n \in DOMAIN peers : peers[m].peer = peers[n].peer => m = n
  BY DEF RoomIsSound
<1>2. ASSUME NEW u \in ToldFloors(peers)
      PROVE  /\ u = <<u[1], u[2]>> /\ u[1] \in DOMAIN peers /\ u[2] \in DOMAIN peers[u[1]].floors
             /\ peers[u[1]].peer \in Peers /\ peers[u[1]].floors \in RemoteFleets
  <2>1. u \in Nat \X Nat /\ u[1] \in DOMAIN peers /\ u[2] \in DOMAIN peers[u[1]].floors
    BY <1>2 DEF ToldFloors
  <2> HIDE DEF Said
  <2>2. peers[u[1]] \in Said
    BY <1>1, <2>1
  <2> QED
    BY <2>1, <2>2 DEF Said
<1> DEFINE floors == peers[t[1]].floors
<1>3. floors \in RemoteFleets /\ t[2] \in DOMAIN floors
  BY <1>2
<1>4. floors \in Seq(FloorsOf({Own}))
  BY <1>3, FleetsAreOwn
<1>5. /\ \A x, y \in DOMAIN floors : x # y => Ids(floors[x]) \cap Ids(floors[y]) = {}
      /\ \A x \in DOMAIN floors : \A j, k \in DOMAIN floors[x].agents :
           floors[x].agents[j].id = floors[x].agents[k].id => j = k
  BY <1>3, AgentsAreDistinct
<1>6. FloorTold(peers, t) \in FloorsOf({Own})
  <2> HIDE DEF floors
  <2>1. floors[t[2]] \in FloorsOf({Own})
    BY <1>3, <1>4
  <2> QED
    BY <2>1 DEF FloorTold, floors
<1>7. IdsAreDistinct(FloorTold(peers, t))
  BY <1>3, <1>5 DEF IdsAreDistinct, FloorTold
<1>8. ASSUME NEW u \in ToldFloors(peers), NEW id \in Ids(FloorTold(peers, t)),
             PeerOf(peers, t) = PeerOf(peers, u), id \in Ids(FloorTold(peers, u))
      PROVE  t = u
  <2>1. t[1] = u[1]
    BY <1>1, <1>2, <1>8 DEF PeerOf
  <2>2. u[2] \in DOMAIN floors /\ id \in Ids(floors[t[2]]) /\ id \in Ids(floors[u[2]])
    BY <1>2, <1>8, <2>1 DEF FloorTold
  <2>3. t[2] = u[2]
    <3> HIDE DEF floors
    <3> QED
      BY <1>3, <1>5, <2>2
  <2>4. t = <<t[1], t[2]>> /\ u = <<u[1], u[2]>>
    BY <1>2
  <2> QED
    BY <2>1, <2>3, <2>4
<1>9. PeerOf(peers, t) \in Peers
  BY <1>2 DEF PeerOf
<1> QED
  BY <1>6, <1>7, <1>8, <1>9, PeersAreOthers

\* A floor of a peer's own, still without agents.
LEMMA GrowingKeeps ==
  ASSUME NEW peers, RoomIsSound(peers), NEW T \in SUBSET ToldFloors(peers), NEW t \in ToldFloors(peers),
         NEW fleet, NEW s, FloorsAreSound(s, fleet, peers, T),
         ByIdentity(s, FloorTold(peers, t)) = 0
  PROVE  LET grown == Append(s, Emptied(FloorTold(peers, t)))
         IN /\ FloorsAreSound(grown, fleet, peers, T)
            /\ Len(s) + 1 \in DOMAIN grown
            /\ FloorTold(peers, t).repo # Unknown => ByIdentity(grown, FloorTold(peers, t)) = Len(s) + 1
<1> DEFINE remote == FloorTold(peers, t)
           g == Emptied(remote)
           grown == Append(s, g)
           n == Len(s)
<1>1. s \in Seq(ShownFloors)
  BY DEF FloorsAreSound
<1>2. remote \in FloorsOf({Own})
  BY WhatIsTold
<1>3. g \in ShownFloors /\ g.repo = remote.repo /\ g.commit = remote.commit /\ g.agents = <<>>
  <2> HIDE DEF remote
  <2>1. /\ remote = [root |-> remote.root, repo |-> remote.repo, commit |-> remote.commit,
                     agents |-> remote.agents]
        /\ remote.root \in STRING /\ remote.repo \in STRING /\ remote.commit \in STRING
    BY <1>2 DEF FloorsOf
  <2>2. g = [root |-> remote.root, repo |-> remote.repo, commit |-> remote.commit, agents |-> <<>>]
    BY <2>1 DEF Emptied
  <2>3. <<>> \in Seq([id : STRING, of : Peers \cup {Own}])
    OBVIOUS
  <2> QED
    BY <2>1, <2>2, <2>3 DEF ShownFloors, FloorsOf
<1> HIDE DEF g
<1>4. ByIdentity(s, g) = 0
  <2>1. OfRepository(s, g) = OfRepository(s, remote) /\ OfCommit(s, g) = OfCommit(s, remote)
    BY <1>3 DEF OfRepository, OfCommit
  <2> HIDE DEF remote
  <2> QED
    BY <2>1 DEF ByIdentity, ByRepository, ByCommit, remote
<1>5. /\ grown \in Seq(ShownFloors) /\ n \in Nat /\ DOMAIN s = 1..n
      /\ DOMAIN grown = DOMAIN s \cup {n + 1} /\ grown[n + 1] = g
      /\ \A i \in DOMAIN s : grown[i] = s[i] /\ n + 1 \notin DOMAIN s
  <2>1. /\ grown \in Seq(ShownFloors) /\ Len(grown) = n + 1 /\ grown[n + 1] = g
        /\ \A i \in 1..n : grown[i] = s[i]
    BY <1>1, <1>3, AppendProperties
  <2> QED
    BY <1>1, <2>1
<1>6. remote.repo # Unknown => ByIdentity(grown, remote) = n + 1
  BY <1>1, <1>3, <1>4, HomeMade
<1>7. ASSUME NEW u \in T, FloorTold(peers, u).repo # Unknown,
             OneHistoryIn(peers, FloorTold(peers, u).repo), ByIdentity(s, FloorTold(peers, u)) # 0
      PROVE  ByIdentity(grown, FloorTold(peers, u)) = ByIdentity(s, FloorTold(peers, u))
  <2>1. g.repo = FloorTold(peers, u).repo => g.commit = FloorTold(peers, u).commit
    BY <1>3, <1>7 DEF OneHistoryIn
  <2> QED
    BY <1>1, <1>3, <1>4, <1>7, <2>1, HomeStays
<1> HIDE DEF grown, n, remote
<1>8. \A i \in DOMAIN grown : \A k \in DOMAIN grown[i].agents : i \in DOMAIN s /\ grown[i] = s[i]
  <2>1. DOMAIN <<>> = {}
    OBVIOUS
  <2> QED
    BY <1>3, <1>5, <2>1
<1>9. TheyAreTold(grown, peers, T)
  <2> SUFFICES ASSUME NEW i \in DOMAIN grown, NEW k \in DOMAIN grown[i].agents,
                      grown[i].agents[k].of # Own
               PROVE  \E u \in T : ComesFrom(grown, i, grown[i].agents[k], peers, u)
    BY DEF TheyAreTold
  <2>1. i \in DOMAIN s /\ grown[i] = s[i] /\ i # 0
    BY <1>5, <1>8
  <2>2. PICK u \in T : ComesFrom(s, i, s[i].agents[k], peers, u)
    BY <2>1 DEF FloorsAreSound, TheyAreTold
  <2>3. ComesFrom(grown, i, grown[i].agents[k], peers, u)
    BY <1>7, <2>1, <2>2 DEF ComesFrom
  <2> QED
    BY <2>3
<1>10. KeepsOwn(grown, fleet)
  BY <1>5 DEF FloorsAreSound, KeepsOwn
<1>11. NotNextToOwn(grown)
  BY <1>8 DEF FloorsAreSound, NotNextToOwn
<1>12. EachOnce(grown)
  BY <1>8 DEF FloorsAreSound, EachOnce
<1>13. NobodyMissing(grown, peers, T)
  BY <1>5 DEF FloorsAreSound, NobodyMissing, IsShown
<1> QED
  BY <1>5, <1>6, <1>9, <1>10, <1>11, <1>12, <1>13 DEF FloorsAreSound, grown, n, remote, g

\* A floor whose agents some others join: who was there stays at his place,
\* and the others come after.
Adds(s, i, t, js) ==
  /\ t \in Seq(ShownFloors) /\ SameIdentities(s, t) /\ DOMAIN t = DOMAIN s
  /\ \A j \in DOMAIN s : \A k \in DOMAIN s[j].agents :
       k \in DOMAIN t[j].agents /\ t[j].agents[k] = s[j].agents[k]
  /\ \A k \in DOMAIN js :
       /\ k + Len(s[i].agents) \in DOMAIN t[i].agents
       /\ t[i].agents[k + Len(s[i].agents)] = js[k]
  /\ \A j \in DOMAIN s : \A k \in DOMAIN t[j].agents :
       k \in DOMAIN s[j].agents \/ (j = i /\ \E l \in DOMAIN js : k = l + Len(s[i].agents))

LEMMA WithAdds ==
  ASSUME NEW s \in Seq(ShownFloors), NEW i \in DOMAIN s, NEW peer, NEW remote,
         Joining(peer, remote, s[i]) \in Seq(ShownAgents)
  PROVE  Adds(s, i, With(s, i, peer, remote), Joining(peer, remote, s[i]))
<1> DEFINE js == Joining(peer, remote, s[i])
           t == With(s, i, peer, remote)
           old == s[i].agents
           len == Len(old)
           new == [s[i] EXCEPT !.agents = old \o js]
<1>1. /\ s[i] = [root |-> s[i].root, repo |-> s[i].repo, commit |-> s[i].commit, agents |-> old]
      /\ s[i].root \in STRING /\ s[i].repo \in STRING /\ s[i].commit \in STRING
      /\ old \in Seq(ShownAgents)
  <2>1. s[i] \in ShownFloors
    OBVIOUS
  <2> QED
    BY <2>1 DEF ShownFloors, FloorsOf, ShownAgents
<1>2. new = [root |-> s[i].root, repo |-> s[i].repo, commit |-> s[i].commit, agents |-> old \o js]
  <2> HIDE DEF old, js
  <2>1. PICK floor : floor = s[i]
    OBVIOUS
  <2>2. PICK all : all = old \o js
    OBVIOUS
  <2>3. floor = [root |-> floor.root, repo |-> floor.repo, commit |-> floor.commit, agents |-> old]
    BY <1>1, <2>1
  <2>4. [floor EXCEPT !.agents = all] =
          [root |-> floor.root, repo |-> floor.repo, commit |-> floor.commit, agents |-> all]
    BY <2>3
  <2> QED
    BY <2>1, <2>2, <2>4
<1>3. /\ old \o js \in Seq(ShownAgents) /\ len \in Nat /\ DOMAIN old = 1..len
      /\ Len(js) \in Nat /\ DOMAIN js = 1..Len(js)
      /\ DOMAIN (old \o js) = 1 .. len + Len(js)
      /\ \A k \in 1..len : (old \o js)[k] = old[k]
      /\ \A k \in 1..Len(js) : (old \o js)[k + len] = js[k]
  <2> HIDE DEF old
  <2>1. old \in Seq(ShownAgents) /\ Len(js) \in Nat /\ len \in Nat
    BY <1>1
  <2>2. /\ old \o js \in Seq(ShownAgents) /\ Len(old \o js) = len + Len(js)
        /\ \A k \in 1 .. len + Len(js) : (old \o js)[k] = IF k <= len THEN old[k] ELSE js[k - len]
    BY <2>1, ConcatProperties
  <2>3. ASSUME NEW k \in 1..Len(js) PROVE (old \o js)[k + len] = js[k]
    <3>1. k + len \in 1 .. len + Len(js) /\ ~ (k + len <= len) /\ (k + len) - len = k
      BY <2>1
    <3> QED
      BY <2>2, <3>1
  <2> QED
    BY <2>1, <2>2, <2>3
<1>4. new \in ShownFloors
  <2> HIDE DEF new, old
  <2>1. old \o js \in Seq([id : STRING, of : Peers \cup {Own}])
    BY <1>3 DEF ShownAgents
  <2> QED
    BY <1>1, <1>2, <2>1 DEF ShownFloors, FloorsOf
<1>5. t = [s EXCEPT ![i] = new]
  BY DEF With
<1>6. /\ t \in Seq(ShownFloors) /\ DOMAIN t = DOMAIN s
      /\ \A j \in DOMAIN s : t[j] = IF j = i THEN new ELSE s[j]
  <2> HIDE DEF new
  <2>1. t \in Seq(ShownFloors) /\ Len(t) = Len(s)
    BY <1>4, <1>5, ExceptSeq
  <2> QED
    BY <1>5, <2>1
<1> HIDE DEF t, new, old, len, js
<1>7. SameIdentities(s, t)
  BY <1>2, <1>6 DEF SameIdentities
<1>8. t[i].agents = old \o js /\ \A j \in DOMAIN s : j # i => t[j].agents = s[j].agents
  BY <1>2, <1>6
<1>9. ASSUME NEW j \in DOMAIN s, NEW k \in DOMAIN s[j].agents
      PROVE  k \in DOMAIN t[j].agents /\ t[j].agents[k] = s[j].agents[k]
  <2>1. CASE j = i
    <3>1. k \in 1..len /\ k \in 1 .. len + Len(js) /\ s[j].agents = old
      BY <1>3, <2>1 DEF old
    <3> QED
      BY <1>3, <1>8, <2>1, <3>1
  <2> QED
    BY <1>8, <2>1
<1>10. ASSUME NEW k \in DOMAIN js
       PROVE  k + len \in DOMAIN t[i].agents /\ t[i].agents[k + len] = js[k]
  BY <1>3, <1>8
<1>11. ASSUME NEW j \in DOMAIN s, NEW k \in DOMAIN t[j].agents, k \notin DOMAIN s[j].agents
       PROVE  j = i /\ \E l \in DOMAIN js : k = l + len
  <2>1. j = i
    BY <1>8, <1>11
  <2>2. k \in 1 .. len + Len(js) /\ k \notin 1..len
    BY <1>3, <1>8, <1>11, <2>1 DEF old
  <2>3. k - len \in 1..Len(js) /\ k = (k - len) + len
    BY <1>3, <2>2
  <2> QED
    BY <1>3, <2>1, <2>3
<1>12. len = Len(s[i].agents)
  BY DEF len, old
<1>13. \A j \in DOMAIN s : \A k \in DOMAIN t[j].agents :
         k \in DOMAIN s[j].agents \/ (j = i /\ \E l \in DOMAIN js : k = l + Len(s[i].agents))
  BY <1>11, <1>12
<1>14. \A k \in DOMAIN js : /\ k + Len(s[i].agents) \in DOMAIN t[i].agents
                           /\ t[i].agents[k + Len(s[i].agents)] = js[k]
  BY <1>10, <1>12
<1>15. \A j \in DOMAIN s : \A k \in DOMAIN s[j].agents :
         k \in DOMAIN t[j].agents /\ t[j].agents[k] = s[j].agents[k]
  BY <1>9
<1>16. Adds(s, i, t, js)
  BY <1>6, <1>7, <1>13, <1>14, <1>15 DEF Adds
<1> QED
  BY <1>16 DEF t, js

\* A peer's floor merged with the one that is its home.
LEMMA JoiningKeeps ==
  ASSUME NEW peers, RoomIsSound(peers), NEW T \in SUBSET ToldFloors(peers),
         NEW t \in ToldFloors(peers), t \notin T,
         NEW fleet, NEW s, FloorsAreSound(s, fleet, peers, T), NEW i \in DOMAIN s,
         FloorTold(peers, t).repo # Unknown => ByIdentity(s, FloorTold(peers, t)) = i
  PROVE  FloorsAreSound(With(s, i, PeerOf(peers, t), FloorTold(peers, t)), fleet, peers, T \cup {t})
<1> DEFINE remote == FloorTold(peers, t)
           peer == PeerOf(peers, t)
           after == With(s, i, peer, remote)
           js == Joining(peer, remote, s[i])
           len == Len(s[i].agents)
           m == Len(remote.agents)
<1>1. s \in Seq(ShownFloors)
  BY DEF FloorsAreSound
<1>2. remote \in FloorsOf({Own}) /\ IdsAreDistinct(remote) /\ peer \in Peers /\ peer # Own
  BY WhatIsTold
<1>3. js \in Seq(ShownAgents) /\ JoinsAs(js, m, peer, remote, s[i])
  BY <1>2, JoiningJoins
<1>4. DOMAIN remote.agents = 1..m
  <2>1. remote.agents \in Seq([id : STRING, of : {Own}])
    BY <1>2 DEF FloorsOf
  <2> QED
    BY <2>1
<1>5. /\ \A k \in DOMAIN js : \E a \in 1..m :
           /\ js[k] = Shares(peer, remote.agents[a])
           /\ ~ \E l \in DOMAIN s[i].agents : s[i].agents[l] = Shares(Own, remote.agents[a])
      /\ \A k, l \in DOMAIN js : js[k] = js[l] => k = l
      /\ \A a \in 1..m :
           \/ \E k \in DOMAIN js : js[k] = Shares(peer, remote.agents[a])
           \/ \E l \in DOMAIN s[i].agents : s[i].agents[l] = Shares(Own, remote.agents[a])
  BY <1>3 DEF JoinsAs
<1>6. \A k \in DOMAIN js : /\ js[k].of = peer /\ js[k].id \in Ids(remote)
                           /\ \A l \in DOMAIN s[i].agents :
                                s[i].agents[l].of = Own => s[i].agents[l].id # js[k].id
  <2> SUFFICES ASSUME NEW k \in DOMAIN js
               PROVE  /\ js[k].of = peer /\ js[k].id \in Ids(remote)
                      /\ \A l \in DOMAIN s[i].agents :
                           s[i].agents[l].of = Own => s[i].agents[l].id # js[k].id
    OBVIOUS
  <2>1. PICK a \in 1..m : /\ js[k] = Shares(peer, remote.agents[a])
                          /\ ~ \E l \in DOMAIN s[i].agents : s[i].agents[l] = Shares(Own, remote.agents[a])
    BY <1>5
  <2>2. js[k].of = peer /\ js[k].id = remote.agents[a].id
    BY <2>1 DEF Shares
  <2>3. js[k].id \in Ids(remote)
    BY <1>4, <2>2 DEF Ids
  <2>4. ASSUME NEW l \in DOMAIN s[i].agents, s[i].agents[l].of = Own, s[i].agents[l].id = js[k].id
        PROVE  FALSE
    <3>1. s[i].agents[l] \in ShownAgents
      <4>1. s[i] \in ShownFloors
        BY <1>1
      <4>2. s[i].agents \in Seq(ShownAgents)
        BY <4>1 DEF ShownFloors, FloorsOf, ShownAgents
      <4> QED
        BY <4>2
    <3>2. s[i].agents[l] = [id |-> s[i].agents[l].id, of |-> s[i].agents[l].of]
      BY <3>1 DEF ShownAgents
    <3>3. s[i].agents[l] = Shares(Own, remote.agents[a])
      BY <2>2, <2>4, <3>2 DEF Shares
    <3> QED
      BY <2>1, <3>3
  <2> QED
    BY <2>2, <2>3, <2>4
<1>7. /\ after \in Seq(ShownFloors) /\ SameIdentities(s, after) /\ DOMAIN after = DOMAIN s
      /\ \A j \in DOMAIN s : \A k \in DOMAIN s[j].agents :
           k \in DOMAIN after[j].agents /\ after[j].agents[k] = s[j].agents[k]
      /\ \A k \in DOMAIN js : k + len \in DOMAIN after[i].agents /\ after[i].agents[k + len] = js[k]
      /\ \A j \in DOMAIN s : \A k \in DOMAIN after[j].agents :
           k \in DOMAIN s[j].agents \/ (j = i /\ \E l \in DOMAIN js : k = l + len)
  <2>1. Adds(s, i, after, js)
    BY <1>1, <1>3, WithAdds
  <2> QED
    BY <2>1 DEF Adds
<1>8. \A f : ByIdentity(after, f) = ByIdentity(s, f)
  BY <1>1, <1>7, IdentityStays
<1> HIDE DEF js, after, len, m
<1>9. \A j \in DOMAIN s : \A k \in DOMAIN after[j].agents :
        \/ k \in DOMAIN s[j].agents /\ after[j].agents[k] = s[j].agents[k]
        \/ j = i /\ \E l \in DOMAIN js : k = l + len /\ after[j].agents[k] = js[l]
  BY <1>7
<1>10. KeepsOwn(after, fleet)
  BY <1>7 DEF FloorsAreSound, KeepsOwn
<1>11. NotNextToOwn(after)
  <2> SUFFICES ASSUME NEW j \in DOMAIN s, NEW k \in DOMAIN after[j].agents, NEW l \in DOMAIN after[j].agents,
                      after[j].agents[k].of = Own, after[j].agents[l].of # Own
               PROVE  after[j].agents[k].id # after[j].agents[l].id
    BY <1>7 DEF NotNextToOwn
  <2>1. k \in DOMAIN s[j].agents /\ after[j].agents[k] = s[j].agents[k]
    BY <1>2, <1>6, <1>9
  <2>2. CASE l \in DOMAIN s[j].agents /\ after[j].agents[l] = s[j].agents[l]
    BY <2>1, <2>2 DEF FloorsAreSound, NotNextToOwn
  <2>3. CASE j = i /\ \E x \in DOMAIN js : l = x + len /\ after[j].agents[l] = js[x]
    BY <1>6, <2>1, <2>3
  <2> QED
    BY <1>9, <2>2, <2>3
<1>12. TheyAreTold(after, peers, T \cup {t})
  <2> SUFFICES ASSUME NEW j \in DOMAIN s, NEW k \in DOMAIN after[j].agents, after[j].agents[k].of # Own
               PROVE  \E u \in T \cup {t} : ComesFrom(after, j, after[j].agents[k], peers, u)
    BY <1>7 DEF TheyAreTold
  <2>1. CASE k \in DOMAIN s[j].agents /\ after[j].agents[k] = s[j].agents[k]
    <3>1. PICK u \in T : ComesFrom(s, j, s[j].agents[k], peers, u)
      BY <2>1 DEF FloorsAreSound, TheyAreTold
    <3>2. ComesFrom(after, j, after[j].agents[k], peers, u)
      BY <1>8, <2>1, <3>1 DEF ComesFrom
    <3> QED
      BY <3>2
  <2>2. CASE j = i /\ \E x \in DOMAIN js : k = x + len /\ after[j].agents[k] = js[x]
    <3>1. ComesFrom(after, j, after[j].agents[k], peers, t)
      BY <1>6, <1>8, <2>2 DEF ComesFrom
    <3> QED
      BY <3>1
  <2> QED
    BY <1>9, <2>1, <2>2
<1>13. EachOnce(after)
  <2>1. ASSUME NEW j \in DOMAIN s, NEW k \in DOMAIN s[j].agents, NEW x \in DOMAIN js, s[j].agents[k] = js[x]
        PROVE  FALSE
    <3>1. s[j].agents[k].of = peer /\ s[j].agents[k].id \in Ids(remote) /\ peer # Own
      BY <1>2, <1>6, <2>1
    <3>2. PICK u \in T : ComesFrom(s, j, s[j].agents[k], peers, u)
      BY <3>1 DEF FloorsAreSound, TheyAreTold
    <3>3. PeerOf(peers, u) = peer /\ s[j].agents[k].id \in Ids(FloorTold(peers, u)) /\ u \in ToldFloors(peers)
      BY <3>1, <3>2 DEF ComesFrom
    <3>4. t = u
      BY <3>1, <3>3, WhatIsTold
    <3> QED
      BY <3>2, <3>4
  <2> SUFFICES ASSUME NEW j \in DOMAIN s, NEW h \in DOMAIN s,
                      NEW k \in DOMAIN after[j].agents, NEW l \in DOMAIN after[h].agents,
                      after[j].agents[k] = after[h].agents[l], after[j].agents[k].of # Own
               PROVE  j = h /\ k = l
    BY <1>7 DEF EachOnce
  <2>2. CASE k \in DOMAIN s[j].agents /\ after[j].agents[k] = s[j].agents[k]
    <3>1. ~ \E x \in DOMAIN js : after[h].agents[l] = js[x]
      BY <2>1, <2>2
    <3>2. l \in DOMAIN s[h].agents /\ after[h].agents[l] = s[h].agents[l]
      BY <1>9, <3>1
    <3>3. EachOnce(s)
      BY DEF FloorsAreSound
    <3>4. s[j].agents[k] = s[h].agents[l] /\ s[j].agents[k].of # Own
      BY <2>2, <3>2
    <3> QED
      BY <2>2, <3>2, <3>3, <3>4 DEF EachOnce
  <2>3. CASE j = i /\ \E x \in DOMAIN js : k = x + len /\ after[j].agents[k] = js[x]
    <3>1. h = i /\ \E x \in DOMAIN js : l = x + len /\ after[h].agents[l] = js[x]
      BY <1>9, <2>1, <2>3
    <3> QED
      BY <1>5, <2>3, <3>1
  <2> QED
    BY <1>9, <2>2, <2>3
<1>14. NobodyMissing(after, peers, T \cup {t})
  <2>1. ASSUME NEW u \in T, NEW id \in Ids(FloorTold(peers, u))
        PROVE  IsShown(after, id, {PeerOf(peers, u), Own})
    <3>1. IsShown(s, id, {PeerOf(peers, u), Own})
      BY <2>1 DEF FloorsAreSound, NobodyMissing
    <3> QED
      BY <1>7, <3>1 DEF IsShown
  <2>2. ASSUME NEW id \in Ids(remote) PROVE IsShown(after, id, {peer, Own})
    <3>1. PICK a \in 1..m : remote.agents[a].id = id
      BY <1>4 DEF Ids
    <3>2. CASE \E k \in DOMAIN js : js[k] = Shares(peer, remote.agents[a])
      <4>1. PICK k \in DOMAIN js : js[k] = Shares(peer, remote.agents[a])
        BY <3>2
      <4>2. js[k].id = id /\ js[k].of = peer
        BY <3>1, <4>1 DEF Shares
      <4> QED
        BY <1>7, <4>2 DEF IsShown
    <3>3. CASE \E l \in DOMAIN s[i].agents : s[i].agents[l] = Shares(Own, remote.agents[a])
      <4>1. PICK l \in DOMAIN s[i].agents : s[i].agents[l] = Shares(Own, remote.agents[a])
        BY <3>3
      <4>2. s[i].agents[l].id = id /\ s[i].agents[l].of = Own
        BY <3>1, <4>1 DEF Shares
      <4> QED
        BY <1>7, <4>2 DEF IsShown
    <3> QED
      BY <1>5, <3>2, <3>3
  <2> QED
    BY <2>1, <2>2 DEF NobodyMissing
<1> QED
  BY <1>7, <1>10, <1>11, <1>12, <1>13, <1>14 DEF FloorsAreSound, after

-----------------------------------------------------------------------------
(* SharedFloors: the merging of a room.                                    *)

RemoteFloorsAreIdentified ==
  \A floors \in RemoteFleets : \A x \in DOMAIN floors : ~ Anonymous(floors[x])

BothFleets == [shown : Seq(ShownFloors), local : Seq(ShownFloors)]

LEMMA WithIsTyped ==
  ASSUME NEW s \in Seq(ShownFloors), NEW i \in DOMAIN s, NEW peer \in Peers, NEW remote \in FloorsOf({Own})
  PROVE  With(s, i, peer, remote) \in Seq(ShownFloors)
<1>1. Joining(peer, remote, s[i]) \in Seq(ShownAgents)
  BY JoiningJoins
<1>2. Adds(s, i, With(s, i, peer, remote), Joining(peer, remote, s[i]))
  BY <1>1, WithAdds
<1> QED
  BY <1>2 DEF Adds

LEMMA EmptiedIsTyped ==
  ASSUME NEW remote \in FloorsOf({Own}), NEW s \in Seq(ShownFloors)
  PROVE  /\ Append(s, Emptied(remote)) \in Seq(ShownFloors)
         /\ Len(s) + 1 \in DOMAIN Append(s, Emptied(remote))
<1>1. /\ remote = [root |-> remote.root, repo |-> remote.repo, commit |-> remote.commit,
                   agents |-> remote.agents]
      /\ remote.root \in STRING /\ remote.repo \in STRING /\ remote.commit \in STRING
  BY DEF FloorsOf
<1>2. Emptied(remote) =
        [root |-> remote.root, repo |-> remote.repo, commit |-> remote.commit, agents |-> <<>>]
  BY <1>1 DEF Emptied
<1>3. <<>> \in Seq([id : STRING, of : Peers \cup {Own}])
  OBVIOUS
<1>4. Emptied(remote) \in ShownFloors
  BY <1>1, <1>2, <1>3 DEF ShownFloors, FloorsOf
<1>5. Append(s, Emptied(remote)) \in Seq(ShownFloors) /\ Len(Append(s, Emptied(remote))) = Len(s) + 1
  BY <1>4, AppendProperties
<1> QED
  BY <1>5

LEMMA MergeFloorIs ==
  ASSUME NEW both \in BothFleets, NEW peer \in Peers, NEW remote \in FloorsOf({Own})
  PROVE  LET i == ByIdentity(both.shown, remote)
             s == IF i # 0 THEN both.shown ELSE Append(both.shown, Emptied(remote))
             j == IF i # 0 THEN i ELSE Len(both.shown) + 1
         IN /\ MergeFloor(both, peer, remote) \in BothFleets
            /\ s \in Seq(ShownFloors) /\ j \in DOMAIN s
            /\ ~ Anonymous(remote) =>
                 MergeFloor(both, peer, remote) =
                   [shown |-> With(s, j, peer, remote), local |-> both.local]
<1> DEFINE i == ByIdentity(both.shown, remote)
           s == IF i # 0 THEN both.shown ELSE Append(both.shown, Emptied(remote))
           j == IF i # 0 THEN i ELSE Len(both.shown) + 1
           k == IF Anonymous(remote) THEN ByRoot(both.local, remote) ELSE 0
           merged == MergeFloor(both, peer, remote)
<1>1. /\ both.shown \in Seq(ShownFloors) /\ both.local \in Seq(ShownFloors)
      /\ both = [shown |-> both.shown, local |-> both.local]
  BY DEF BothFleets
<1>2. i \in {0} \cup DOMAIN both.shown
  BY <1>1, HitsArePositions
<1>3. s \in Seq(ShownFloors) /\ j \in DOMAIN s
  BY <1>1, <1>2, EmptiedIsTyped
<1>4. k \in {0} \cup DOMAIN both.local
  <2> DEFINE hits == {n \in DOMAIN both.local : both.local[n].root = remote.root}
  <2>1. hits \in SUBSET (Nat \ {0}) /\ hits \subseteq DOMAIN both.local
    BY <1>1
  <2>2. First(hits) \in {0} \cup DOMAIN both.local
    <3> HIDE DEF hits
    <3> QED
      BY <2>1, FirstIsLeast
  <2> QED
    BY <2>2 DEF ByRoot
<1>5. With(s, j, peer, remote) \in Seq(ShownFloors)
  BY <1>3, WithIsTyped
<1>6. CASE i = 0 /\ k # 0
  <2>1. merged = [both EXCEPT !.local = With(both.local, k, peer, remote)]
    BY <1>6 DEF MergeFloor
  <2>2. With(both.local, k, peer, remote) \in Seq(ShownFloors)
    BY <1>1, <1>4, <1>6, WithIsTyped
  <2>3. merged \in BothFleets
    BY <1>1, <2>1, <2>2 DEF BothFleets
  <2> QED
    BY <1>3, <1>6, <2>3
<1>7. CASE ~ (i = 0 /\ k # 0)
  <2>1. merged = [both EXCEPT !.shown = With(s, j, peer, remote)]
    <3>1. CASE i # 0
      BY <3>1 DEF MergeFloor
    <3>2. CASE i = 0
      <4>1. k = 0
        BY <1>7, <3>2
      <4> QED
        BY <3>2, <4>1 DEF MergeFloor
    <3> QED
      BY <3>1, <3>2
  <2> HIDE DEF s, j, i, k
  <2>2. merged = [shown |-> With(s, j, peer, remote), local |-> both.local]
    BY <1>1, <2>1
  <2>3. merged \in BothFleets
    BY <1>1, <1>5, <2>2 DEF BothFleets
  <2> QED
    BY <1>3, <2>2, <2>3 DEF s, j, i
<1> QED
  BY <1>6, <1>7

SoundFor(both, fleet, peers, T) ==
  both.local = fleet /\ FloorsAreSound(both.shown, fleet, peers, T)

\* One floor merged.
LEMMA MergingKeeps ==
  ASSUME RemoteFloorsAreIdentified,
         NEW peers, RoomIsSound(peers), NEW T \in SUBSET ToldFloors(peers), NEW t \in ToldFloors(peers), t \notin T,
         NEW fleet, NEW both \in BothFleets, SoundFor(both, fleet, peers, T)
  PROVE  SoundFor(MergeFloor(both, PeerOf(peers, t), FloorTold(peers, t)), fleet, peers, T \cup {t})
<1> DEFINE remote == FloorTold(peers, t)
           peer == PeerOf(peers, t)
           i == ByIdentity(both.shown, remote)
           s == IF i # 0 THEN both.shown ELSE Append(both.shown, Emptied(remote))
           j == IF i # 0 THEN i ELSE Len(both.shown) + 1
           merged == MergeFloor(both, peer, remote)
<1>1. remote \in FloorsOf({Own}) /\ peer \in Peers
  BY WhatIsTold
<1>2. ~ Anonymous(remote)
  <2>1. peers \in Seq([peer : Peers, floors : RemoteFleets]) /\ t[1] \in DOMAIN peers
    BY DEF RoomIsSound, ToldFloors
  <2>2. peers[t[1]] \in [peer : Peers, floors : RemoteFleets]
    <3> DEFINE Said == [peer : Peers, floors : RemoteFleets]
    <3>1. peers \in Seq(Said)
      BY <2>1
    <3> HIDE DEF Said
    <3>2. peers[t[1]] \in Said
      BY <2>1, <3>1
    <3> QED
      BY <3>2 DEF Said
  <2>3. peers[t[1]].floors \in RemoteFleets /\ t[2] \in DOMAIN peers[t[1]].floors
    BY <2>2 DEF ToldFloors
  <2> QED
    BY <2>3 DEF FloorTold, RemoteFloorsAreIdentified
<1>3. s \in Seq(ShownFloors) /\ j \in DOMAIN s
      /\ merged = [shown |-> With(s, j, peer, remote), local |-> both.local]
  BY <1>1, <1>2, MergeFloorIs
<1>4. FloorsAreSound(s, fleet, peers, T) /\ (remote.repo # Unknown => ByIdentity(s, remote) = j)
  BY GrowingKeeps DEF SoundFor
<1> HIDE DEF s, j
<1>5. FloorsAreSound(With(s, j, peer, remote), fleet, peers, T \cup {t})
  BY <1>3, <1>4, JoiningKeeps
<1>6. merged.local = fleet /\ merged.shown = With(s, j, peer, remote)
  BY <1>3 DEF SoundFor
<1> QED
  BY <1>5, <1>6 DEF SoundFor

IsMergeOfPeer(f, both, said) ==
  /\ f \in [0..Len(said.floors) -> BothFleets] /\ f[0] = both
  /\ \A n \in 1..Len(said.floors) : f[n] = MergeFloor(f[n - 1], said.peer, said.floors[n])
  /\ f[Len(said.floors)] = MergePeer(both, said)

\* A peer's floors are merged one after the other.
LEMMA PeerIsMerged ==
  ASSUME NEW both \in BothFleets, NEW said \in [peer : Peers, floors : RemoteFleets]
  PROVE  \E f : IsMergeOfPeer(f, both, said)
<1> DEFINE m == Len(said.floors)
           V == BothFleets
           Next_(b, n) == MergeFloor(b, said.peer, said.floors[n])
           step == [x \in Nat \X V |-> IF x[1] \in 1..m THEN Next_(x[2], x[1]) ELSE x[2]]
           Is(h) == h = [n \in 0..m |-> IF n = 0 THEN both ELSE Next_(h[n - 1], n)]
<1>1. m \in Nat /\ said.peer \in Peers /\ said.floors \in Seq(FloorsOf({Own}))
  <2>1. said.peer \in Peers /\ said.floors \in Seq(FloorsOf({Own}))
    BY FleetsAreOwn
  <2> QED
    BY <2>1
<1>2. MergePeer(both, said) = (CHOOSE h : Is(h))[m]
  BY DEF MergePeer
<1>3. \A b \in V : \A n \in 1..m : Next_(b, n) \in V
  <2> SUFFICES ASSUME NEW b \in V, NEW n \in 1..m PROVE Next_(b, n) \in V
    OBVIOUS
  <2>1. said.floors[n] \in FloorsOf({Own})
    <3> DEFINE Mine == FloorsOf({Own})
    <3>1. said.floors \in Seq(Mine)
      BY <1>1
    <3> HIDE DEF Mine
    <3>2. said.floors[n] \in Mine
      BY <3>1
    <3> QED
      BY <3>2 DEF Mine
  <2> QED
    BY <1>1, <2>1, MergeFloorIs
<1> HIDE DEF Next_, V, m
<1>4. both \in V
  BY DEF V
<1>5. step \in [Nat \X V -> V]
  BY <1>3
<1>6. PICK f \in [0..m -> V] : f[0] = both /\ \A n \in 1..m : f[n] = step[<<n, f[n - 1]>>]
  <2>1. IsStep(step, V)
    BY <1>5 DEF IsStep
  <2> HIDE DEF step
  <2>2. IsSolvable(V, both, step, m)
    BY <1>1, <1>4, <2>1, RecursionSolved
  <2> QED
    BY <2>2 DEF IsSolvable
<1>7. \A n \in 1..m : f[n] = Next_(f[n - 1], n)
  <2>1. \A n \in 1..m : \A b \in V : step[<<n, b>>] = Next_(b, n)
    BY <1>1
  <2>2. \A n \in 1..m : f[n - 1] \in V
    BY <1>1, <1>6
  <2> HIDE DEF step
  <2> QED
    BY <1>6, <2>1, <2>2
<1>8. Is(f)
  BY <1>6, <1>7
<1>9. PICK h : h = (CHOOSE g : Is(g))
  OBVIOUS
<1>10. Is(h)
  <2> HIDE DEF Is
  <2> QED
    BY <1>8, <1>9
<1>11. h[0] = both /\ \A n \in 1..m : h[n] = Next_(h[n - 1], n)
  BY <1>1, <1>10
<1>12. Agree(f, h, m)
  <2>1. StepsAgree(f, h, m)
    BY <1>6, <1>7, <1>11 DEF StepsAgree
  <2> QED
    BY <1>1, <2>1, RecursionsAgree
<1>13. MergePeer(both, said) = f[m]
  BY <1>1, <1>2, <1>9, <1>12 DEF Agree
<1>14. IsMergeOfPeer(f, both, said)
  BY <1>6, <1>7, <1>13 DEF IsMergeOfPeer, Next_, V, m
<1> QED
  BY <1>14

IsMergeOfRoom(f, fleet, peers) ==
  /\ f \in [0..Len(peers) -> BothFleets] /\ f[0] = [shown |-> fleet, local |-> fleet]
  /\ \A n \in 1..Len(peers) : f[n] = MergePeer(f[n - 1], peers[n])
  /\ f[Len(peers)] = Shared(fleet, peers)

\* And the peers of the room.
LEMMA RoomIsMerged ==
  ASSUME NEW fleet \in Seq(ShownFloors), NEW peers \in Seq([peer : Peers, floors : RemoteFleets])
  PROVE  \E f : IsMergeOfRoom(f, fleet, peers)
<1> DEFINE m == Len(peers)
           V == BothFleets
           base == [shown |-> fleet, local |-> fleet]
           Next_(b, n) == MergePeer(b, peers[n])
           step == [x \in Nat \X V |-> IF x[1] \in 1..m THEN Next_(x[2], x[1]) ELSE x[2]]
           Is(h) == h = [n \in 0..m |-> IF n = 0 THEN base ELSE Next_(h[n - 1], n)]
<1>1. m \in Nat
  OBVIOUS
<1>2. Shared(fleet, peers) = (CHOOSE h : Is(h))[m]
  BY DEF Shared
<1>3. \A b \in V : \A n \in 1..m : Next_(b, n) \in V
  <2> SUFFICES ASSUME NEW b \in V, NEW n \in 1..m PROVE Next_(b, n) \in V
    OBVIOUS
  <2> DEFINE Said == [peer : Peers, floors : RemoteFleets]
  <2>1. peers[n] \in Said
    <3>1. peers \in Seq(Said)
      OBVIOUS
    <3> HIDE DEF Said
    <3> QED
      BY <3>1
  <2>2. PICK f : IsMergeOfPeer(f, b, peers[n])
    BY <2>1, PeerIsMerged
  <2>3. Len(peers[n].floors) \in Nat
    <3>1. peers[n].floors \in Seq(FloorsOf({Own}))
      BY <2>1, FleetsAreOwn
    <3> QED
      BY <3>1
  <2>4. f[Len(peers[n].floors)] \in V
    BY <2>2, <2>3 DEF IsMergeOfPeer
  <2> QED
    BY <2>2, <2>4 DEF IsMergeOfPeer
<1>4. base \in V
  BY DEF BothFleets
<1> HIDE DEF Next_, V, m, base
<1>5. step \in [Nat \X V -> V]
  BY <1>3
<1>6. PICK f \in [0..m -> V] : f[0] = base /\ \A n \in 1..m : f[n] = step[<<n, f[n - 1]>>]
  <2>1. IsStep(step, V)
    BY <1>5 DEF IsStep
  <2> HIDE DEF step
  <2>2. IsSolvable(V, base, step, m)
    BY <1>1, <1>4, <2>1, RecursionSolved
  <2> QED
    BY <2>2 DEF IsSolvable
<1>7. \A n \in 1..m : f[n] = Next_(f[n - 1], n)
  <2>1. \A n \in 1..m : \A b \in V : step[<<n, b>>] = Next_(b, n)
    BY <1>1
  <2>2. \A n \in 1..m : f[n - 1] \in V
    BY <1>1, <1>6
  <2> HIDE DEF step
  <2> QED
    BY <1>6, <2>1, <2>2
<1>8. Is(f)
  BY <1>6, <1>7
<1>9. PICK h : h = (CHOOSE g : Is(g))
  OBVIOUS
<1>10. Is(h)
  <2> HIDE DEF Is
  <2> QED
    BY <1>8, <1>9
<1>11. h[0] = base /\ \A n \in 1..m : h[n] = Next_(h[n - 1], n)
  BY <1>1, <1>10
<1>12. Agree(f, h, m)
  <2>1. StepsAgree(f, h, m)
    BY <1>6, <1>7, <1>11 DEF StepsAgree
  <2> QED
    BY <1>1, <2>1, RecursionsAgree
<1>13. Shared(fleet, peers) = f[m]
  BY <1>1, <1>2, <1>9, <1>12 DEF Agree
<1>14. IsMergeOfRoom(f, fleet, peers)
  BY <1>6, <1>7, <1>13 DEF IsMergeOfRoom, Next_, V, m, base
<1> QED
  BY <1>14

\* What is merged when k floors of the n-th peer are.
Until(peers, n, k) == {t \in ToldFloors(peers) : t[1] < n \/ (t[1] = n /\ t[2] <= k)}

SoundUntil(both, fleet, peers, n, k) == SoundFor(both, fleet, peers, Until(peers, n, k))

LEMMA PeerKeeps ==
  ASSUME RemoteFloorsAreIdentified, NEW peers, RoomIsSound(peers), NEW n \in DOMAIN peers,
         NEW fleet, NEW both \in BothFleets, SoundUntil(both, fleet, peers, n, 0)
  PROVE  SoundUntil(MergePeer(both, peers[n]), fleet, peers, n, Len(peers[n].floors))
<1> DEFINE Said == [peer : Peers, floors : RemoteFleets]
           m == Len(peers[n].floors)
<1>1. peers \in Seq(Said) /\ n \in Nat
  BY DEF RoomIsSound
<1>2. peers[n] \in Said
  <2> HIDE DEF Said
  <2> QED
    BY <1>1
<1>3. m \in Nat /\ DOMAIN peers[n].floors = 1..m
  <2>1. peers[n].floors \in Seq(FloorsOf({Own}))
    BY <1>2, FleetsAreOwn
  <2> QED
    BY <2>1
<1>4. PICK f : IsMergeOfPeer(f, both, peers[n])
  BY <1>2, PeerIsMerged
<1>5. /\ f \in [0..m -> BothFleets] /\ f[0] = both /\ f[m] = MergePeer(both, peers[n])
      /\ \A k \in 1..m : f[k] = MergeFloor(f[k - 1], peers[n].peer, peers[n].floors[k])
  BY <1>4 DEF IsMergeOfPeer
<1> HIDE DEF m
<1>6. ASSUME NEW k \in 1..m, SoundUntil(f[k - 1], fleet, peers, n, k - 1)
      PROVE  SoundUntil(f[k], fleet, peers, n, k)
  <2> DEFINE t == <<n, k>>
             T == Until(peers, n, k - 1)
  <2>1. t \in ToldFloors(peers) /\ PeerOf(peers, t) = peers[n].peer /\ FloorTold(peers, t) = peers[n].floors[k]
    BY <1>1, <1>3 DEF ToldFloors, PeerOf, FloorTold
  <2>2. T \in SUBSET ToldFloors(peers) /\ t \notin T
    BY <1>1, <1>3 DEF Until
  <2>3. Until(peers, n, k) = T \cup {t}
    <3>1. \A u \in ToldFloors(peers) : u = <<u[1], u[2]>> /\ u[1] \in Nat /\ u[2] \in Nat
      BY DEF ToldFloors
    <3>2. \A u \in ToldFloors(peers) : u[1] = n /\ u[2] <= k <=> (u[1] = n /\ u[2] <= k - 1) \/ u = t
      BY <1>1, <1>3, <3>1
    <3> QED
      BY <2>1, <3>2 DEF Until
  <2>4. f[k - 1] \in BothFleets
    BY <1>3, <1>5
  <2> HIDE DEF T, t
  <2>5. f[k] = MergeFloor(f[k - 1], PeerOf(peers, t), FloorTold(peers, t))
    BY <1>5, <2>1
  <2>6. SoundFor(f[k - 1], fleet, peers, T)
    BY <1>6 DEF SoundUntil, T
  <2>7. SoundFor(f[k], fleet, peers, T \cup {t})
    BY <2>1, <2>2, <2>4, <2>5, <2>6, MergingKeeps
  <2> QED
    BY <2>3, <2>7 DEF SoundUntil
<1> DEFINE Off == {k \in 0..m : ~ SoundUntil(f[k], fleet, peers, n, k)}
<1>7. ASSUME Off # {} PROVE FALSE
  <2>1. PICK k \in Off : \A d \in Off : k <= d
    <3>1. Off \in SUBSET Nat
      BY <1>3
    <3> HIDE DEF Off
    <3> QED
      BY <1>7, <3>1, LeastNumber
  <2>2. k \in 0..m /\ ~ SoundUntil(f[k], fleet, peers, n, k)
    OBVIOUS
  <2>3. k # 0
    BY <1>5, <2>2
  <2>4. k \in 1..m /\ k - 1 \in 0..m /\ ~ (k <= k - 1)
    BY <1>3, <2>2, <2>3
  <2>5. SoundUntil(f[k - 1], fleet, peers, n, k - 1)
    BY <2>1, <2>4
  <2> QED
    BY <1>6, <2>2, <2>4, <2>5
<1>8. m \in 0..m
  BY <1>3
<1> QED
  BY <1>5, <1>7, <1>8 DEF m

LEMMA SharedIsSound ==
  ASSUME RemoteFloorsAreIdentified, NEW fleet \in Seq(FloorsOf({Own})), NEW peers, RoomIsSound(peers)
  PROVE  SoundFor(Shared(fleet, peers), fleet, peers, ToldFloors(peers))
<1> DEFINE Said == [peer : Peers, floors : RemoteFleets]
           m == Len(peers)
<1>1. peers \in Seq(Said)
  BY DEF RoomIsSound
<1>2. m \in Nat /\ DOMAIN peers = 1..m
  BY <1>1
<1>3. \A n \in DOMAIN peers : Len(peers[n].floors) \in Nat /\ DOMAIN peers[n].floors = 1..Len(peers[n].floors)
  <2> SUFFICES ASSUME NEW n \in DOMAIN peers
               PROVE  Len(peers[n].floors) \in Nat /\ DOMAIN peers[n].floors = 1..Len(peers[n].floors)
    OBVIOUS
  <2>1. peers[n] \in Said
    <3> HIDE DEF Said
    <3> QED
      BY <1>1
  <2>2. peers[n].floors \in Seq(FloorsOf({Own}))
    BY <2>1, FleetsAreOwn
  <2> QED
    BY <2>2
<1>4. fleet \in Seq(ShownFloors)
  <2>1. FloorsOf({Own}) \subseteq ShownFloors
    <3> SUFFICES ASSUME NEW floor \in FloorsOf({Own}) PROVE floor \in ShownFloors
      OBVIOUS
    <3> DEFINE Home == [id : STRING, of : {Own}]
               Anyone == [id : STRING, of : Peers \cup {Own}]
    <3>1. Home \subseteq Anyone
      OBVIOUS
    <3>2. /\ floor = [root |-> floor.root, repo |-> floor.repo, commit |-> floor.commit,
                      agents |-> floor.agents]
          /\ floor.root \in STRING /\ floor.repo \in STRING /\ floor.commit \in STRING
          /\ floor.agents \in Seq(Home)
      BY DEF FloorsOf
    <3>3. floor.agents \in Seq(Anyone)
      <4> HIDE DEF Home, Anyone
      <4> QED
        BY <3>1, <3>2
    <3> QED
      BY <3>2, <3>3 DEF ShownFloors, FloorsOf
  <2> QED
    BY <2>1, SeqMonotonic
<1>5. \A i \in DOMAIN fleet : \A k \in DOMAIN fleet[i].agents : fleet[i].agents[k].of = Own
  <2> SUFFICES ASSUME NEW i \in DOMAIN fleet, NEW k \in DOMAIN fleet[i].agents
               PROVE  fleet[i].agents[k].of = Own
    OBVIOUS
  <2> DEFINE Mine == [id : STRING, of : {Own}]
  <2>1. fleet[i] \in FloorsOf({Own})
    OBVIOUS
  <2>2. fleet[i].agents \in Seq(Mine)
    BY <2>1 DEF FloorsOf
  <2> HIDE DEF Mine
  <2>3. fleet[i].agents[k] \in Mine
    BY <2>2
  <2> QED
    BY <2>3 DEF Mine
<1>6. PICK f : IsMergeOfRoom(f, fleet, peers)
  BY <1>1, <1>4, RoomIsMerged
<1>7. /\ f \in [0..m -> BothFleets] /\ f[0] = [shown |-> fleet, local |-> fleet]
      /\ \A n \in 1..m : f[n] = MergePeer(f[n - 1], peers[n])
      /\ f[m] = Shared(fleet, peers)
  BY <1>6 DEF IsMergeOfRoom
<1> HIDE DEF m, Said
<1>8. \A t \in ToldFloors(peers) : t[1] \in 1..m /\ t[1] \in DOMAIN peers /\ t[2] \in 1..Len(peers[t[1]].floors)
  BY <1>2, <1>3 DEF ToldFloors
<1>9. SoundUntil(f[0], fleet, peers, 1, 0)
  <2>1. Until(peers, 1, 0) = {}
    <3>1. ASSUME NEW t \in ToldFloors(peers) PROVE ~ (t[1] < 1) /\ ~ (t[2] <= 0)
      <4>1. t[1] \in 1..m /\ t[2] \in 1..Len(peers[t[1]].floors) /\ Len(peers[t[1]].floors) \in Nat
        BY <1>3, <1>8
      <4> QED
        BY <1>2, <4>1
    <3> QED
      BY <3>1 DEF Until
  <2>2. f[0].local = fleet /\ f[0].shown = fleet
    BY <1>7
  <2>3. FloorsAreSound(fleet, fleet, peers, {})
    BY <1>4, <1>5 DEF FloorsAreSound, KeepsOwn, NotNextToOwn, TheyAreTold, EachOnce, NobodyMissing
  <2> QED
    BY <2>1, <2>2, <2>3 DEF SoundUntil, SoundFor
<1>10. ASSUME NEW n \in 1..m, SoundUntil(f[n - 1], fleet, peers, n, 0)
       PROVE  SoundUntil(f[n], fleet, peers, n + 1, 0)
  <2>1. n \in DOMAIN peers /\ n \in Nat /\ f[n - 1] \in BothFleets /\ f[n] = MergePeer(f[n - 1], peers[n])
    BY <1>2, <1>7
  <2>2. SoundUntil(f[n], fleet, peers, n, Len(peers[n].floors))
    BY <1>10, <2>1, PeerKeeps
  <2>3. Until(peers, n, Len(peers[n].floors)) = Until(peers, n + 1, 0)
    <3>1. ASSUME NEW t \in ToldFloors(peers)
          PROVE  t[1] < n \/ (t[1] = n /\ t[2] <= Len(peers[n].floors))
                   <=> t[1] < n + 1 \/ (t[1] = n + 1 /\ t[2] <= 0)
      <4>1. /\ t[1] \in Nat /\ t[2] \in Nat /\ Len(peers[t[1]].floors) \in Nat
            /\ t[2] <= Len(peers[t[1]].floors) /\ ~ (t[2] <= 0)
        BY <1>2, <1>3, <1>8
      <4>2. t[1] = n => t[2] <= Len(peers[n].floors)
        BY <4>1
      <4> QED
        BY <2>1, <4>1, <4>2
    <3> QED
      BY <3>1 DEF Until
  <2> QED
    BY <2>2, <2>3 DEF SoundUntil
<1> DEFINE Off == {n \in 0..m : ~ SoundUntil(f[n], fleet, peers, n + 1, 0)}
<1>11. ASSUME Off # {} PROVE FALSE
  <2>1. PICK n \in Off : \A d \in Off : n <= d
    <3>1. Off \in SUBSET Nat
      BY <1>2
    <3> HIDE DEF Off
    <3> QED
      BY <1>11, <3>1, LeastNumber
  <2>2. n \in 0..m /\ ~ SoundUntil(f[n], fleet, peers, n + 1, 0)
    OBVIOUS
  <2>3. n # 0
    <3>1. 0 + 1 = 1
      OBVIOUS
    <3> QED
      BY <1>9, <2>2, <3>1
  <2>4. n \in 1..m /\ n - 1 \in 0..m /\ ~ (n <= n - 1) /\ (n - 1) + 1 = n
    BY <1>2, <2>2, <2>3
  <2>5. SoundUntil(f[n - 1], fleet, peers, (n - 1) + 1, 0)
    BY <2>1, <2>4
  <2> QED
    BY <1>10, <2>2, <2>4, <2>5
<1>12. SoundUntil(f[m], fleet, peers, m + 1, 0)
  <2>1. m \in 0..m
    BY <1>2
  <2> QED
    BY <1>11, <2>1
<1>13. Until(peers, m + 1, 0) = ToldFloors(peers)
  <2>1. \A t \in ToldFloors(peers) : t[1] < m + 1
    BY <1>2, <1>8
  <2> QED
    BY <2>1 DEF Until
<1> QED
  BY <1>7, <1>12, <1>13 DEF SoundUntil

-----------------------------------------------------------------------------
(* SharedFloors: what is shown.                                            *)

SharedInv ==
  /\ localFleet \in Seq(FloorsOf({Own}))
  /\ RoomIsSound(heard)
  /\ FloorsAreSound(shown, localFleet, heard, ToldFloors(heard))

LEMMA AppliesSound ==
  ASSUME RemoteFloorsAreIdentified, NEW fleet \in Seq(FloorsOf({Own})), NEW peers, RoomIsSound(peers),
         Applies(fleet, peers)
  PROVE  SharedInv'
<1>1. SoundFor(Shared(fleet, peers), fleet, peers, ToldFloors(peers))
  BY SharedIsSound
<1>2. localFleet' = fleet /\ FloorsAreSound(shown', fleet, peers, ToldFloors(peers)) /\ heard' = peers
  BY <1>1 DEF Applies, SoundFor
<1>3. FloorsAreSound(shown', localFleet', heard', ToldFloors(heard'))
  BY <1>2
<1> QED
  BY <1>2, <1>3 DEF SharedInv

LEMMA PlaceOfPeer ==
  ASSUME RoomIsSound(heard), NEW peer \in Peers
  PROVE  /\ Place(peer) = 0 => \A m \in DOMAIN heard : heard[m].peer # peer
         /\ Place(peer) # 0 => Place(peer) \in DOMAIN heard /\ heard[Place(peer)].peer = peer
<1> DEFINE hits == {i \in DOMAIN heard : heard[i].peer = peer}
<1>1. hits \in SUBSET (Nat \ {0})
  BY DEF RoomIsSound
<1>2. Place(peer) = First(hits)
  BY DEF Place
<1>3. (hits = {} <=> First(hits) = 0) /\ (hits # {} => First(hits) \in hits)
  <2> HIDE DEF hits
  <2> QED
    BY <1>1, FirstIsLeast
<1> QED
  BY <1>2, <1>3

LEMMA NewsKeepTheRoom ==
  ASSUME RoomIsSound(heard), NEW peer \in Peers, NEW floors \in RemoteFleets
  PROVE  RoomIsSound(IF Place(peer) = 0 THEN Append(heard, [peer |-> peer, floors |-> floors])
                     ELSE [heard EXCEPT ![Place(peer)] = [peer |-> peer, floors |-> floors]])
<1> DEFINE Said == [peer : Peers, floors : RemoteFleets]
           said == [peer |-> peer, floors |-> floors]
<1>1. heard \in Seq(Said) /\ \A m, n \in DOMAIN heard : heard[m].peer = heard[n].peer => m = n
  BY DEF RoomIsSound
<1>2. said \in Said /\ said.peer = peer
  OBVIOUS
<1>3. CASE Place(peer) = 0
  <2> DEFINE more == Append(heard, said)
  <2> HIDE DEF Said, said
  <2>1. /\ more \in Seq(Said) /\ Len(more) = Len(heard) + 1 /\ more[Len(heard) + 1] = said
        /\ \A m \in 1..Len(heard) : more[m] = heard[m]
    BY <1>1, <1>2, AppendProperties
  <2>2. Len(heard) \in Nat /\ DOMAIN heard = 1..Len(heard) /\ DOMAIN more = 1..Len(heard) \cup {Len(heard) + 1}
    BY <1>1, <2>1
  <2>3. \A m \in 1..Len(heard) : more[m].peer = heard[m].peer /\ heard[m].peer # peer
    BY <1>3, <2>1, <2>2, PlaceOfPeer
  <2>4. more[Len(heard) + 1].peer = peer
    BY <1>2, <2>1
  <2> HIDE DEF more
  <2>5. \A m, n \in DOMAIN more : more[m].peer = more[n].peer => m = n
    BY <1>1, <2>2, <2>3, <2>4
  <2> QED
    BY <1>3, <2>1, <2>5 DEF RoomIsSound, Said, said, more
<1>4. CASE Place(peer) # 0
  <2> DEFINE more == [heard EXCEPT ![Place(peer)] = said]
  <2> HIDE DEF Said, said
  <2>1. Place(peer) \in DOMAIN heard /\ heard[Place(peer)].peer = peer
    BY <1>4, PlaceOfPeer
  <2>2. /\ more \in Seq(Said) /\ DOMAIN more = DOMAIN heard
        /\ \A m \in DOMAIN heard : more[m] = IF m = Place(peer) THEN said ELSE heard[m]
    BY <1>1, <1>2, <2>1
  <2>3. \A m \in DOMAIN heard : more[m].peer = heard[m].peer
    BY <1>2, <2>1, <2>2
  <2> HIDE DEF more
  <2>4. \A m, n \in DOMAIN more : more[m].peer = more[n].peer => m = n
    BY <1>1, <2>2, <2>3
  <2> QED
    BY <1>4, <2>2, <2>4 DEF RoomIsSound, Said, said, more
<1> QED
  BY <1>3, <1>4

LEMMA LeavingKeepsTheRoom ==
  ASSUME RoomIsSound(heard), NEW i \in DOMAIN heard
  PROVE  RoomIsSound(RemoveAt(heard, i))
<1> DEFINE Said == [peer : Peers, floors : RemoteFleets]
           left == RemoveAt(heard, i)
           len == Len(heard)
<1>1. heard \in Seq(Said) /\ \A m, n \in DOMAIN heard : heard[m].peer = heard[n].peer => m = n
  BY DEF RoomIsSound
<1> HIDE DEF Said
<1>2. len \in Nat /\ DOMAIN heard = 1..len /\ i \in 1..len
  BY <1>1
<1>3. /\ left \in Seq(Said) /\ DOMAIN left = 1 .. len - 1
      /\ \A m \in 1 .. len - 1 : left[m] = IF m < i THEN heard[m] ELSE heard[m + 1]
  <2> DEFINE front == SubSeq(heard, 1, i - 1)
             back == SubSeq(heard, i + 1, len)
  <2>1. left = front \o back
    BY DEF RemoveAt
  <2>2. /\ front \in Seq(Said) /\ Len(front) = i - 1
        /\ \A m \in 1 .. i - 1 : front[m] = heard[m]
    BY <1>1, <1>2
  <2>3. /\ back \in Seq(Said) /\ Len(back) = len - i
        /\ \A m \in 1 .. len - i : back[m] = heard[m + i]
    BY <1>1, <1>2
  <2> HIDE DEF front, back
  <2>4. /\ left \in Seq(Said) /\ Len(left) = len - 1
        /\ \A m \in 1 .. len - 1 : left[m] = IF m <= i - 1 THEN front[m] ELSE back[m - (i - 1)]
    <3> HIDE DEF left, len
    <3>1. left \in Seq(Said) /\ Len(left) = Len(front) + Len(back)
      BY <2>1, <2>2, <2>3, ConcatProperties
    <3>2. (i - 1) + (len - i) = len - 1 /\ Len(left) = len - 1
      BY <1>2, <2>2, <2>3, <3>1
    <3>3. \A m \in 1 .. Len(front) + Len(back) :
            left[m] = IF m <= Len(front) THEN front[m] ELSE back[m - Len(front)]
      BY <2>1, <2>2, <2>3, ConcatProperties
    <3> QED
      BY <2>2, <2>3, <3>1, <3>2, <3>3
  <2>5. ASSUME NEW m \in 1 .. len - 1
        PROVE  left[m] = IF m < i THEN heard[m] ELSE heard[m + 1]
    <3>1. CASE m < i
      <4>1. m <= i - 1 /\ m \in 1 .. i - 1
        BY <1>2, <3>1
      <4> QED
        BY <2>2, <2>4, <3>1, <4>1
    <3>2. CASE ~ (m < i)
      <4>1. ~ (m <= i - 1) /\ m - (i - 1) \in 1 .. len - i /\ (m - (i - 1)) + i = m + 1
        BY <1>2, <3>2
      <4> QED
        BY <2>3, <2>4, <3>2, <4>1
    <3> QED
      BY <3>1, <3>2
  <2>6. DOMAIN left = 1 .. len - 1
    BY <1>2, <2>4
  <2> QED
    BY <2>4, <2>5, <2>6
<1> HIDE DEF left, len
<1>4. \A m, n \in DOMAIN left : left[m].peer = left[n].peer => m = n
  <2> SUFFICES ASSUME NEW m \in 1 .. len - 1, NEW n \in 1 .. len - 1, left[m].peer = left[n].peer
               PROVE  m = n
    BY <1>3
  <2> DEFINE x == IF m < i THEN m ELSE m + 1
             y == IF n < i THEN n ELSE n + 1
  <2>1. x \in 1..len /\ y \in 1..len
    BY <1>2
  <2>2. left[m] = heard[x] /\ left[n] = heard[y]
    BY <1>3
  <2>3. x = y
    <3> HIDE DEF x, y
    <3> QED
      BY <1>1, <1>2, <2>1, <2>2
  <2> QED
    BY <1>2, <2>3
<1> QED
  BY <1>3, <1>4 DEF RoomIsSound, Said, left

LEMMA SharedStarts == SharedInit => SharedInv
<1> SUFFICES ASSUME SharedInit PROVE SharedInv
  OBVIOUS
<1>1. localFleet = <<>> /\ heard = <<>> /\ shown = <<>> /\ DOMAIN <<>> = {}
  BY DEF SharedInit
<1>2. <<>> \in Seq(FloorsOf({Own})) /\ <<>> \in Seq(ShownFloors)
      /\ <<>> \in Seq([peer : Peers, floors : RemoteFleets])
  OBVIOUS
<1>3. RoomIsSound(heard)
  BY <1>1, <1>2 DEF RoomIsSound
<1>4. ToldFloors(heard) = {}
  BY <1>1 DEF ToldFloors
<1>5. FloorsAreSound(shown, localFleet, heard, ToldFloors(heard))
  BY <1>1, <1>2, <1>4 DEF FloorsAreSound, KeepsOwn, NotNextToOwn, TheyAreTold, EachOnce, NobodyMissing
<1> QED
  BY <1>1, <1>2, <1>3, <1>5 DEF SharedInv

LEMMA SharedFloorsStep ==
  ASSUME RemoteFloorsAreIdentified, SharedInv, [SharedNext]_sharedVars
  PROVE  SharedInv'
<1>1. CASE FleetArrives
  <2>1. PICK fleet \in LocalFleets : Applies(fleet, heard)
    BY <1>1 DEF FleetArrives
  <2>2. fleet \in Seq(FloorsOf({Own}))
    BY FleetsAreOwn
  <2> QED
    BY <2>1, <2>2, AppliesSound DEF SharedInv
<1>2. ASSUME NEW p \in Peers, PeerSays(p) PROVE SharedInv'
  <2>1. PICK floors \in RemoteFleets :
          Applies(localFleet, IF Place(p) = 0 THEN Append(heard, [peer |-> p, floors |-> floors])
                              ELSE [heard EXCEPT ![Place(p)] = [peer |-> p, floors |-> floors]])
    BY <1>2 DEF PeerSays
  <2> DEFINE peers == IF Place(p) = 0 THEN Append(heard, [peer |-> p, floors |-> floors])
                      ELSE [heard EXCEPT ![Place(p)] = [peer |-> p, floors |-> floors]]
  <2>2. RoomIsSound(peers)
    BY NewsKeepTheRoom DEF SharedInv
  <2>3. Applies(localFleet, peers)
    BY <2>1
  <2> HIDE DEF peers
  <2> QED
    BY <2>2, <2>3, AppliesSound DEF SharedInv
<1>3. ASSUME NEW p \in Peers, PeerGoes(p) PROVE SharedInv'
  <2>1. Place(p) \in DOMAIN heard /\ Applies(localFleet, RemoveAt(heard, Place(p)))
    BY <1>3, PlaceOfPeer DEF PeerGoes, SharedInv
  <2>2. RoomIsSound(RemoveAt(heard, Place(p)))
    BY <2>1, LeavingKeepsTheRoom DEF SharedInv
  <2> QED
    BY <2>1, <2>2, AppliesSound DEF SharedInv
<1>4. CASE UNCHANGED sharedVars
  <2>1. localFleet' = localFleet /\ heard' = heard /\ shown' = shown
    BY <1>4 DEF sharedVars
  <2> QED
    BY <2>1 DEF SharedInv
<1> QED
  BY <1>1, <1>2, <1>3, <1>4 DEF SharedNext

\* Who stands where.
LEMMA SpotIs ==
  ASSUME SharedInv, NEW of, NEW s \in Spots(of)
  PROVE  /\ s = <<s[1], s[2]>> /\ s[1] \in DOMAIN shown /\ s[2] \in DOMAIN shown[s[1]].agents
         /\ At(s) = shown[s[1]].agents[s[2]] /\ At(s).of = of
<1>1. s \in UNION {{i} \X (DOMAIN shown[i].agents) : i \in DOMAIN shown} /\ shown[s[1]].agents[s[2]].of = of
  BY DEF Spots
<1>2. PICK i \in DOMAIN shown : s \in {i} \X (DOMAIN shown[i].agents)
  BY <1>1
<1> QED
  BY <1>1, <1>2 DEF At

LEMMA IsSpot ==
  ASSUME NEW i \in DOMAIN shown, NEW k \in DOMAIN shown[i].agents
  PROVE  <<i, k>> \in Spots(shown[i].agents[k].of) /\ At(<<i, k>>) = shown[i].agents[k]
BY DEF Spots, At

LEMMA SharedIsTrue ==
  ASSUME SharedInv
  PROVE  FloorsAreShared
<1>1. /\ RoomIsSound(heard) /\ shown \in Seq(ShownFloors) /\ KeepsOwn(shown, localFleet)
      /\ NotNextToOwn(shown) /\ TheyAreTold(shown, heard, ToldFloors(heard)) /\ EachOnce(shown)
      /\ NobodyMissing(shown, heard, ToldFloors(heard))
  BY DEF SharedInv, FloorsAreSound
<1>2. \A t \in ToldFloors(heard) : PeerOf(heard, t) \in InTheRoom
  BY DEF ToldFloors, PeerOf, InTheRoom
<1>3. Own \notin InTheRoom
  <2> DEFINE Said == [peer : Peers, floors : RemoteFleets]
  <2> SUFFICES ASSUME NEW i \in DOMAIN heard PROVE heard[i].peer # Own
    BY DEF InTheRoom
  <2>1. heard \in Seq(Said)
    BY <1>1 DEF RoomIsSound
  <2>2. heard[i] \in Said
    <3> HIDE DEF Said
    <3> QED
      BY <2>1
  <2> QED
    BY <2>2, PeersAreOthers
<1>4. GonePeersAreHidden
  <2> SUFFICES ASSUME NEW i \in DOMAIN shown, NEW k \in DOMAIN shown[i].agents, shown[i].agents[k].of # Own
               PROVE  shown[i].agents[k].of \in InTheRoom
    BY DEF GonePeersAreHidden
  <2>1. PICK t \in ToldFloors(heard) : ComesFrom(shown, i, shown[i].agents[k], heard, t)
    BY <1>1 DEF TheyAreTold
  <2> QED
    BY <1>2, <2>1 DEF ComesFrom
<1>5. ShownOnce
  <2>1. ASSUME NEW p \in InTheRoom, NEW s \in Spots(p), NEW t \in Spots(p), At(s) = At(t) PROVE s = t
    <3>1. /\ s = <<s[1], s[2]>> /\ s[1] \in DOMAIN shown /\ s[2] \in DOMAIN shown[s[1]].agents
          /\ At(s) = shown[s[1]].agents[s[2]] /\ At(s).of = p
      BY SpotIs
    <3>2. /\ t = <<t[1], t[2]>> /\ t[1] \in DOMAIN shown /\ t[2] \in DOMAIN shown[t[1]].agents
          /\ At(t) = shown[t[1]].agents[t[2]]
      BY SpotIs
    <3>4. p # Own /\ shown[s[1]].agents[s[2]] = shown[t[1]].agents[t[2]]
      BY <1>3, <2>1, <3>1, <3>2
    <3>5. shown[s[1]].agents[s[2]].of # Own
      BY <3>1, <3>4
    <3>6. s[1] \in DOMAIN shown /\ t[1] \in DOMAIN shown
          /\ s[2] \in DOMAIN shown[s[1]].agents /\ t[2] \in DOMAIN shown[t[1]].agents
      BY <3>1, <3>2
    <3>7. ASSUME NEW i \in DOMAIN shown, NEW j \in DOMAIN shown, NEW k \in DOMAIN shown[i].agents,
                 NEW l \in DOMAIN shown[j].agents, shown[i].agents[k] = shown[j].agents[l],
                 shown[i].agents[k].of # Own
          PROVE  i = j /\ k = l
      BY <1>1, <3>7 DEF EachOnce
    <3>3. s[1] = t[1] /\ s[2] = t[2]
      BY <3>4, <3>5, <3>6, <3>7
    <3> QED
      BY <3>1, <3>2, <3>3
  <2>2. ASSUME NEW s \in Spots(Own), NEW p \in InTheRoom, NEW t \in Spots(p), s[1] = t[1]
        PROVE  At(s).id # At(t).id
    <3>1. /\ s[1] \in DOMAIN shown /\ s[2] \in DOMAIN shown[s[1]].agents
          /\ At(s) = shown[s[1]].agents[s[2]] /\ At(s).of = Own
      BY SpotIs
    <3>2. t[2] \in DOMAIN shown[t[1]].agents /\ At(t) = shown[t[1]].agents[t[2]] /\ At(t).of = p
      BY SpotIs
    <3> QED
      BY <1>1, <1>3, <2>2, <3>1, <3>2 DEF NotNextToOwn
  <2> QED
    BY <2>1, <2>2 DEF ShownOnce
<1>6. AllAreShown
  <2> SUFFICES ASSUME NEW m \in DOMAIN heard, NEW x \in DOMAIN heard[m].floors,
                      NEW id \in Ids(heard[m].floors[x])
               PROVE  \E s \in Spots(heard[m].peer) \cup Spots(Own) : At(s).id = id
    BY DEF AllAreShown
  <2>1. <<m, x>> \in ToldFloors(heard)
    <3>1. heard \in Seq([peer : Peers, floors : RemoteFleets])
      BY <1>1 DEF RoomIsSound
    <3>2. heard[m].floors \in Seq(FloorsOf({Own}))
      <4> DEFINE Said == [peer : Peers, floors : RemoteFleets]
      <4>1. heard \in Seq(Said)
        BY <3>1
      <4> HIDE DEF Said
      <4>2. heard[m] \in Said
        BY <4>1
      <4>3. heard[m].floors \in RemoteFleets
        BY <4>2 DEF Said
      <4> QED
        BY <4>3, FleetsAreOwn
    <3> QED
      BY <3>1, <3>2 DEF ToldFloors
  <2>2. FloorTold(heard, <<m, x>>) = heard[m].floors[x] /\ PeerOf(heard, <<m, x>>) = heard[m].peer
    BY DEF FloorTold, PeerOf
  <2>3. IsShown(shown, id, {heard[m].peer, Own})
    BY <1>1, <2>1, <2>2 DEF NobodyMissing
  <2>6. PICK i \in DOMAIN shown : \E k \in DOMAIN shown[i].agents :
          shown[i].agents[k].id = id /\ shown[i].agents[k].of \in {heard[m].peer, Own}
    BY <2>3 DEF IsShown
  <2>4. PICK k \in DOMAIN shown[i].agents :
          shown[i].agents[k].id = id /\ shown[i].agents[k].of \in {heard[m].peer, Own}
    BY <2>6
  <2>5. <<i, k>> \in Spots(shown[i].agents[k].of) /\ At(<<i, k>>) = shown[i].agents[k]
    BY IsSpot
  <2> QED
    BY <2>4, <2>5
<1>7. ASSUME NEW m \in DOMAIN heard, NEW x \in DOMAIN heard[m].floors,
             NEW s \in Spots(heard[m].peer), At(s).id \in Ids(heard[m].floors[x]),
             heard[m].floors[x].repo # Unknown, OneHistory(heard[m].floors[x].repo)
      PROVE  ByIdentity(shown, heard[m].floors[x]) = s[1]
  <2>1. /\ s[1] \in DOMAIN shown /\ s[2] \in DOMAIN shown[s[1]].agents
        /\ At(s) = shown[s[1]].agents[s[2]] /\ At(s).of = heard[m].peer
    BY SpotIs
  <2>2. heard[m].peer # Own
    BY <1>3 DEF InTheRoom
  <2>3. PICK t \in ToldFloors(heard) : ComesFrom(shown, s[1], At(s), heard, t)
    BY <1>1, <2>1, <2>2 DEF TheyAreTold
  <2>4. <<m, x>> \in ToldFloors(heard)
    <3>1. heard \in Seq([peer : Peers, floors : RemoteFleets])
      BY <1>1 DEF RoomIsSound
    <3>2. heard[m].floors \in Seq(FloorsOf({Own}))
      <4> DEFINE Said == [peer : Peers, floors : RemoteFleets]
      <4>1. heard \in Seq(Said)
        BY <3>1
      <4> HIDE DEF Said
      <4>2. heard[m] \in Said
        BY <4>1
      <4>3. heard[m].floors \in RemoteFleets
        BY <4>2 DEF Said
      <4> QED
        BY <4>3, FleetsAreOwn
    <3> QED
      BY <3>1, <3>2 DEF ToldFloors
  <2>5. FloorTold(heard, <<m, x>>) = heard[m].floors[x] /\ PeerOf(heard, <<m, x>>) = heard[m].peer
    BY DEF FloorTold, PeerOf
  <2>6. t = <<m, x>>
    <3>1. PeerOf(heard, t) = PeerOf(heard, <<m, x>>) /\ At(s).id \in Ids(FloorTold(heard, t))
          /\ At(s).id \in Ids(FloorTold(heard, <<m, x>>))
      BY <1>7, <2>1, <2>3, <2>5 DEF ComesFrom
    <3> QED
      BY <1>1, <2>4, <3>1, WhatIsTold
  <2>7. OneHistoryIn(heard, heard[m].floors[x].repo)
    BY <1>7 DEF OneHistory, OneHistoryIn, ToldFloors, FloorTold
  <2> QED
    BY <1>7, <2>3, <2>5, <2>6, <2>7 DEF ComesFrom
<1>8. SameProjectMeets
  <2> SUFFICES ASSUME NEW m \in DOMAIN heard, NEW n \in DOMAIN heard,
                      NEW x \in DOMAIN heard[m].floors, NEW y \in DOMAIN heard[n].floors,
                      heard[m].floors[x].repo # Unknown, heard[m].floors[x].repo = heard[n].floors[y].repo,
                      OneHistory(heard[m].floors[x].repo),
                      NEW s \in Spots(heard[m].peer), NEW t \in Spots(heard[n].peer),
                      At(s).id \in Ids(heard[m].floors[x]), At(t).id \in Ids(heard[n].floors[y])
               PROVE  s[1] = t[1]
    BY DEF SameProjectMeets, Ids
  <2>1. ByIdentity(shown, heard[m].floors[x]) = s[1] /\ ByIdentity(shown, heard[n].floors[y]) = t[1]
    BY <1>7
  <2>2. heard[m].floors[x].commit = heard[n].floors[y].commit
    BY DEF OneHistory
  <2>3. ByIdentity(shown, heard[m].floors[x]) = ByIdentity(shown, heard[n].floors[y])
    BY <2>2 DEF ByIdentity, ByRepository, ByCommit, OfRepository, OfCommit
  <2> QED
    BY <2>1, <2>3
<1>9. \A i \in DOMAIN localFleet : \A k \in DOMAIN localFleet[i].agents :
        shown[i].agents[k] = localFleet[i].agents[k]
  BY <1>1 DEF KeepsOwn
<1> QED
  BY <1>4, <1>5, <1>6, <1>8, <1>9 DEF FloorsAreShared

\* Whatever a server and its peers send, and whoever leaves: if each remote
\* floor has an identity, nobody is shown who left, each agent is at one
\* desk and nobody is missing, those of a repository meet on one floor, and
\* this browser's own fleet is shown as it is (multiplayer-source.ts:1038).
THEOREM FloorsAlwaysShared ==
  ASSUME RemoteFloorsAreIdentified
  PROVE  SharedSpec => []FloorsAreShared
<1>1. SharedInit => SharedInv
  BY SharedStarts
<1>2. SharedInv /\ [SharedNext]_sharedVars => SharedInv'
  BY SharedFloorsStep
<1>3. SharedInv => FloorsAreShared
  BY SharedIsTrue
<1> QED
  BY <1>1, <1>2, <1>3, PTL DEF SharedSpec
=============================================================================
