---------------------------- MODULE ClaudeAgents ----------------------------
(***************************************************************************)
(* The rows of a Claude child agent (core/src/claude.ts): the same child   *)
(* may be known from its workflow transcript and journal, from the hook    *)
(* records of its lead that carry its agent_id, and as a teammate.  Each   *)
(* source makes a row, and rows of one id are merged.                      *)
(*                                                                         *)
(* The hooks of a session run side by side: their records may be appended  *)
(* in another order than their timestamps.                                 *)
(***************************************************************************)
EXTENDS ClaudeHooks, Sequences

CONSTANTS
  ChildTools,                    \* the families of tools the child uses
  MaxChildHooks, MaxChildClock   \* bounds

ASSUME ChildBounds == MaxChildHooks \in Nat /\ MaxChildClock \in Nat

VARIABLES
  childHooks,   \* the lead's records with the child's agent_id: [event, at]
  childFile,    \* its workflow transcript: [text, result, at]; at -1: none
  journal,      \* its latest journal entry: [state, at]; at -1: none
  teammate,     \* its team record: [member, active, at]
  childClock

childVars == <<childHooks, childFile, journal, teammate, childClock>>

ChildInit ==
  /\ childHooks = <<>> /\ childClock = 0
  /\ childFile = [text |-> FALSE, result |-> "none", at |-> -1]
  /\ journal = [state |-> "none", at |-> -1]
  /\ teammate \in {[member |-> m, active |-> m, at |-> 0] : m \in BOOLEAN}

MaxOf(a, b) == IF a > b THEN a ELSE b
Settled == {"done", "idle", "blocked"}

(***************************************************************************)
(* The rows.                                                               *)
(***************************************************************************)

\* claudeWorkflowSubagentSummary
FileSummary(at) ==
  LET state == IF childFile.result # "none" THEN childFile.result
               ELSE IF childFile.text THEN "done"
               ELSE IF Old(at, childClock, DoneWindow) THEN "idle"
               ELSE "running"
  IN Summary(state, state \notin Settled, "none", at)

JournalSummary ==
  Summary(journal.state, journal.state \notin Settled, "none", journal.at)

\* readClaudeWorkflowSubagentSeeds: the journal wins when it is as new as
\* the transcript.
Seed ==
  LET at == MaxOf(childFile.at, journal.at) IN
  IF at = -1 THEN NoSummary
  ELSE IF childFile.at = -1 \/ journal.at = at THEN JournalSummary
  ELSE FileSummary(at)

\* buildClaudeSubagentAgents: a hook record replaces what is only inferred,
\* and a newer typed record is not replaced by an older one.
Replaces_Always(row, at) == TRUE
Replaces(row, at) == ~row.typed \/ row.at <= at

HookRow[n \in 0..MaxChildHooks] ==
  IF n = 0
    THEN [typed |-> FALSE, at |-> Seed.at,
          summary |-> IF Seed = NoSummary THEN NoSummary
                      ELSE AgedSummary(Seed, childClock)]
    ELSE LET row == HookRow[n - 1]
             told == HookSummary(childHooks[n]) IN
         IF told # NoSummary /\ Replaces(row, told.at)
           THEN [typed |-> TRUE, at |-> told.at,
                 summary |-> AgedSummary(told, childClock)]
           ELSE row

Row(s, at) == [state |-> s.state, ongoing |-> s.ongoing, needs |-> s.needs,
               at |-> at, stopped |-> ~s.ongoing]
NoRow == Row(NoSummary, -1)

ChildRow == LET row == HookRow[Len(childHooks)] IN
            IF row.summary = NoSummary THEN NoRow
                                       ELSE Row(row.summary, row.summary.at)

\* latestClaudeTeamHookSummary
TeamHook ==
  LET told == {HookSummary(childHooks[i]) : i \in DOMAIN childHooks}
                \ {NoSummary}
      newest == {i \in DOMAIN childHooks :
                   /\ HookSummary(childHooks[i]) # NoSummary
                   /\ \A s \in told : s.at <= childHooks[i].at} IN
  IF told = {} THEN NoSummary
  ELSE AgedSummary(HookSummary(childHooks[CHOOSE i \in newest :
                                          \A j \in newest : j <= i]),
                   childClock)
TeamHookAt == LET ats == {childHooks[i].at : i \in
                  {k \in DOMAIN childHooks :
                     HookSummary(childHooks[k]) # NoSummary}} IN
  CHOOSE a \in ats : \A b \in ats : b <= a

\* hasFreshClaudeTeamActivity
FreshMember ==
  /\ teammate.active
  /\ \/ ~Old(teammate.at, childClock, DoneWindow)
     \/ TeamHook # NoSummary /\ ~Old(TeamHookAt, childClock, DoneWindow)

\* claudeTeamMemberSummary, claudeAgentFromTeamMemberContext
TeamRow ==
  IF ~teammate.member THEN NoRow
  ELSE IF TeamHook = NoSummary
    THEN Row(Summary(IF FreshMember THEN "running" ELSE "idle", FreshMember,
                     "none", teammate.at), teammate.at)
    ELSE Row([TeamHook EXCEPT
                !.state = IF FreshMember /\ @ \in {"done", "idle"}
                            THEN "running" ELSE @,
                !.ongoing = @ \/ FreshMember],
             MaxOf(teammate.at, TeamHookAt))

\* mergeClaudeDashboardAgents
Merged(existing, incoming) ==
  LET newer == incoming.at >= existing.at
      primary == IF newer THEN incoming ELSE existing
      secondary == IF newer THEN existing ELSE incoming
      ongoing == primary.ongoing \/ (secondary.ongoing /\ ~primary.stopped) IN
  [primary EXCEPT
     !.ongoing = ongoing,
     !.stopped = ~(primary.ongoing \/ secondary.ongoing)
                 /\ (primary.stopped \/ secondary.stopped)]

\* loadClaudeProjectSnapshotData: the session's children, then the teams.
ChildAgent ==
  IF ChildRow = NoRow THEN TeamRow
  ELSE IF TeamRow = NoRow THEN ChildRow
  ELSE Merged(ChildRow, TeamRow)

(***************************************************************************)
(* The child leaves its traces.                                            *)
(***************************************************************************)

ChildHookEvents ==
  [event : {"SubagentStart", "SubagentStop", "PermissionRequest",
            "TeammateIdle"}, tool : {"none"}]
  \cup [event : {"PreToolUse", "PostToolUseFailure"}, tool : ChildTools]

\* A record may be appended after one with a later timestamp.
ChildHook(e, at) ==
  /\ Len(childHooks) < MaxChildHooks
  /\ childHooks' = Append(childHooks, [event |-> e, at |-> at])
  /\ UNCHANGED <<childFile, journal, teammate, childClock>>

ChildWrites(text, result) ==
  /\ childFile' = [text |-> childFile.text \/ text, at |-> childClock,
                   result |-> IF result # "none" THEN result
                              ELSE childFile.result]
  /\ UNCHANGED <<childHooks, journal, teammate, childClock>>

JournalEntry(state) ==
  /\ journal' = [state |-> state, at |-> childClock]
  /\ UNCHANGED <<childHooks, childFile, teammate, childClock>>

TeamFileChanges(active) ==
  /\ teammate.member
  /\ teammate' = [teammate EXCEPT !.active = active, !.at = childClock]
  /\ UNCHANGED <<childHooks, childFile, journal, childClock>>

ChildTick ==
  /\ childClock < MaxChildClock /\ childClock' = childClock + 1
  /\ UNCHANGED <<childHooks, childFile, journal, teammate>>

ChildNext ==
  \/ \E e \in ChildHookEvents :
       \E at \in {childClock, childClock - 1} \cap Nat : ChildHook(e, at)
  \/ \E text \in BOOLEAN : \E r \in {"none", "blocked"} :
       ChildWrites(text, r)
  \/ \E s \in {"running", "done", "blocked"} : JournalEntry(s)
  \/ \E active \in BOOLEAN : TeamFileChanges(active)
  \/ ChildTick

ChildSpec == ChildInit /\ [][ChildNext]_childVars

(***************************************************************************)
(* Properties.                                                             *)
(***************************************************************************)

\* What was said last of the child, by time and not by place in the file.
ToldAt == {i \in DOMAIN childHooks : HookSummary(childHooks[i]) # NoSummary}
SaidLast == {i \in ToldAt : \A j \in ToldAt : childHooks[j].at <= childHooks[i].at}

\* A child whose lead was told last that it stopped is not shown at work by
\* an earlier record, wherever that stands in the file, nor by what its
\* transcript and journal suggest; only a team may still call it active.
StoppedStaysStopped ==
  (/\ SaidLast # {} /\ ~FreshMember
   /\ \A i \in SaidLast : childHooks[i].event.event = "SubagentStop")
  => ~ChildAgent.ongoing

\* A child of which every trace is old does not go on, unless it was left
\* waiting for somebody; and it is never both at work and stopped.
NoForgottenChild ==
  /\ ~(ChildAgent.ongoing /\ ChildAgent.stopped)
  /\ (/\ \A i \in ToldAt : /\ Old(childHooks[i].at, childClock, DoneWindow)
                           /\ HookSummary(childHooks[i]).state \in Transient \cup {"done"}
      /\ Old(Seed.at, childClock, DoneWindow)
      /\ Old(teammate.at, childClock, DoneWindow))
     => ~ChildAgent.ongoing

ChildrenAreTold == StoppedStaysStopped /\ NoForgottenChild
=============================================================================
