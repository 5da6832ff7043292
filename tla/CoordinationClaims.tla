------------------------- MODULE CoordinationClaims -------------------------
(***************************************************************************)
(* Coordination claims (core/src/coordination.ts and the commands of       *)
(* cli/src/claims.ts): one claim, a JSON file that several processes read, *)
(* replace and prune without a lock.                                       *)
(*                                                                         *)
(* A step is one operation on the file system.  A process may be killed    *)
(* between any two.  The contents of a claim are its status and clocks.    *)
(***************************************************************************)
EXTENDS Integers

CONSTANTS
  Processes,
  Ttl, ResolvedRetention, StaleRetention,
  MaxHour, MaxCommands           \* bounds

ASSUME ClaimBoundsAssumption ==
  {Ttl, ResolvedRetention, StaleRetention, MaxHour, MaxCommands} \subseteq Nat

VARIABLES
  file,      \* the claim's file
  command,   \* what each process is doing
  issued,    \* commands so far
  hour

claimVars == <<file, command, issued, hour>>

Absent == [status |-> "absent", heartbeatAt |-> 0, expiresAt |-> 0]
Torn == [status |-> "torn", heartbeatAt |-> 0, expiresAt |-> 0]
Quiet == [op |-> "none", stage |-> "idle", now |-> 0, seen |-> Absent,
          next |-> Absent]

\* readClaimFile() finds a claim.
Readable(f) == f.status \in {"active", "released", "handoff"}

Resolved(f) == f.status \in {"released", "handoff"}

Lifecycle(f, now) ==
  IF f.status = "active" /\ now >= f.expiresAt THEN "stale" ELSE f.status

ShouldPrune(f, now) ==
  CASE Lifecycle(f, now) \in {"released", "handoff"} ->
         now - f.heartbeatAt > ResolvedRetention
    [] Lifecycle(f, now) = "stale" -> now - f.expiresAt > StaleRetention
    [] OTHER -> FALSE

ClaimInit ==
  /\ file = Absent
  /\ command = [p \in Processes |-> Quiet]
  /\ issued = 0 /\ hour = 0

Doing(p, op, stage) == command[p].op = op /\ command[p].stage = stage

CommandIs(p, c) == command' = [command EXCEPT ![p] = c]

\* claims start: the id is new, so nothing is read first.
StartClaim(p) ==
  /\ command[p] = Quiet
  /\ issued = 0
  /\ issued' = 1
  /\ CommandIs(p, [op |-> "start", stage |-> "write", now |-> hour,
                 seen |-> Absent,
                 next |-> [status |-> "active", heartbeatAt |-> hour,
                           expiresAt |-> hour + Ttl]])
  /\ UNCHANGED <<file, hour>>

\* The other commands begin by listing: to show, to advise, or to find the id.
BeginCommand(p, op) ==
  /\ command[p] = Quiet
  /\ issued \in 1..MaxCommands
  /\ issued' = issued + 1
  /\ CommandIs(p, [Quiet EXCEPT !.op = op, !.stage = "list", !.now = hour])
  /\ UNCHANGED <<file, hour>>

\* listCoordinationClaims() reads the file.
ListsClaims(p) ==
  LET after == IF Readable(file) /\ ShouldPrune(file, command[p].now)
                 THEN [command[p] EXCEPT !.stage = "prune", !.seen = file]
               ELSE IF Readable(file) /\ command[p].op # "list"
                 THEN [command[p] EXCEPT !.stage = "match"]
               ELSE Quiet
  IN  /\ command[p].stage = "list"
      /\ CommandIs(p, after)
      /\ UNCHANGED <<file, issued, hour>>

PrunesClaim(p) ==
  /\ command[p].stage = "prune"
  /\ file' = Absent
  /\ CommandIs(p, Quiet)
  /\ UNCHANGED <<issued, hour>>

\* heartbeatCoordinationClaim(): the claim it writes, or none.
Heartbeat(f) ==
  IF f.status # "active" THEN Absent
    ELSE [f EXCEPT !.heartbeatAt = hour, !.expiresAt = hour + Ttl]

\* releaseCoordinationClaim(), also of a claim that is released already.
Release(f, status) ==
  IF ~Readable(f) THEN Absent
    ELSE [f EXCEPT !.status = status, !.heartbeatAt = hour]

RereadsClaim(p) ==
  LET next == IF command[p].op = "heartbeat" THEN Heartbeat(file)
                ELSE Release(file, command[p].op)
  IN  /\ command[p].stage = "match"
      /\ CommandIs(p, IF next = Absent THEN Quiet
                      ELSE [command[p] EXCEPT !.stage = "write", !.seen = file,
                                              !.next = next])
      /\ UNCHANGED <<file, issued, hour>>

WritesTemporary_InPlace(p) ==
  /\ command[p].stage = "write"
  /\ file' = Torn
  /\ command' = [command EXCEPT ![p].stage = "rename"]
  /\ UNCHANGED <<issued, hour>>

\* writeFileSync() to a temporary name that no listing takes up.
WritesTemporary(p) ==
  /\ command[p].stage = "write"
  /\ command' = [command EXCEPT ![p].stage = "rename"]
  /\ UNCHANGED <<file, issued, hour>>

RenamesTemporary(p) ==
  /\ command[p].stage = "rename"
  /\ file' = command[p].next
  /\ CommandIs(p, Quiet)
  /\ UNCHANGED <<issued, hour>>

CommandKilled(p) ==
  /\ command[p] # Quiet
  /\ CommandIs(p, Quiet)
  /\ UNCHANGED <<file, issued, hour>>

HourPasses ==
  /\ hour < MaxHour
  /\ hour' = hour + 1
  /\ UNCHANGED <<file, command, issued>>

ClaimNext ==
  \/ \E p \in Processes :
       \/ StartClaim(p) \/ ListsClaims(p) \/ PrunesClaim(p) \/ RereadsClaim(p)
       \/ WritesTemporary(p) \/ RenamesTemporary(p) \/ CommandKilled(p)
       \/ \E op \in {"list", "heartbeat", "released", "handoff"} : BeginCommand(p, op)
  \/ HourPasses

ClaimSpec == ClaimInit /\ [][ClaimNext]_claimVars

-----------------------------------------------------------------------------
ClaimTypeOK ==
  LET Files == [status : {"absent", "active", "released", "handoff"},
                heartbeatAt : 0..MaxHour, expiresAt : 0..(MaxHour + Ttl)]
  IN  /\ file \in Files
      /\ command \in
           [Processes ->
              [op : {"none", "start", "list", "heartbeat", "released", "handoff"},
               stage : {"idle", "list", "prune", "match", "write", "rename"},
               now : 0..MaxHour, seen : Files, next : Files]]
      /\ issued \in 0..(MaxCommands + 1) /\ hour \in 0..MaxHour

\* The file a pruning process judged has been replaced since it was read.
ReplacedMeanwhile ==
  \E p \in Processes : command[p].stage = "prune" /\ command[p].seen # file

\* A claim, once written, can be read by every process at every moment until it
\* is old enough to be pruned, whoever replaces it and whoever is killed doing
\* so.  The exception is a claim replaced between a listing's read and its rm.
KeptUntilOld ==
  [][Readable(file) /\ ~Readable(file')
       => ShouldPrune(file, hour) \/ ReplacedMeanwhile]_claimVars

\* A claim that was released or handed over is active again only by a heartbeat
\* that had read it before: heartbeatCoordinationClaim() refuses the others, and
\* the read and the rename are not one step.
ReleaseIsFinal ==
  [][Resolved(file) /\ file'.status = "active"
       => \E p \in Processes : /\ Doing(p, "heartbeat", "rename")
                               /\ command[p].seen.status = "active"]_claimVars

\* Commands of several processes at once neither lose a claim nor undo its end.
ClaimsAreKept == KeptUntilOld /\ ReleaseIsFinal
=============================================================================
