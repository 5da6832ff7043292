-------------------------- MODULE ClaudeHookBridge --------------------------
(***************************************************************************)
(* The Agent SDK bridge of one Claude session (core/src/claude-agent-      *)
(* sdk.ts): a hook that asks for a permission or for input appends its     *)
(* record to the sidecar log and polls for a response file; the browser's  *)
(* answer writes that file and appends a resolution marker.  The hooks run *)
(* in Claude's process, the answers in the server's.                       *)
(*                                                                         *)
(* A call is one run of such a hook.  Its request id is its event name and *)
(* the instant of the call (buildClaudeHookRequestId; Claude gives none).  *)
(***************************************************************************)
EXTENDS Integers, Sequences

CONSTANTS
  Calls,
  InputCalls,      \* the calls that are Elicitations; the others ask
                   \* for a permission
  MaxRecords,      \* bound: records of the sidecar log
  MaxInstant       \* bound: instants

ASSUME BridgeAssumption ==
  InputCalls \subseteq Calls /\ {MaxRecords, MaxInstant} \subseteq Nat

VARIABLES
  instant,
  sidecar,    \* the log: [event, request]
  call,       \* of each call: [stage, request, got]
  file,       \* the response file of each request id
  answer,     \* of each call: how far the browser's answer to it has come
  shown       \* the request in the monitor's snapshot

bridgeVars == <<instant, sidecar, call, file, answer, shown>>

NoRequest == [event |-> "none", instant |-> 0]
RequestIds == [event : {"PermissionRequest", "Elicitation"},
               instant : 0..MaxInstant]
EventOf(c) == IF c \in InputCalls THEN "Elicitation" ELSE "PermissionRequest"
\* What the browser can answer: a form is submitted, never declined.
Decisions(c) == IF c \in InputCalls THEN {"accept"} ELSE {"accept", "decline"}

RequestId(c) == [event |-> EventOf(c), instant |-> instant]

Append1(event, request) ==
  sidecar' = Append(sidecar, [event |-> event, request |-> request])

BridgeInit ==
  /\ instant = 0 /\ sidecar = <<>> /\ shown = NoRequest
  /\ call = [c \in Calls |-> [stage |-> "none", request |-> NoRequest,
                              got |-> "none"]]
  /\ file = [q \in RequestIds |-> "absent"]
  /\ answer = [c \in Calls |-> [stage |-> "none", decision |-> "none"]]

(***************************************************************************)
(* The hook.                                                               *)
(***************************************************************************)

\* Two hooks of one event in one millisecond would share their id and their
\* file; MaxInstant counts the instants that differ.
HookAsks(c) ==
  LET q == RequestId(c) IN
  /\ call[c].stage = "none" /\ Len(sidecar) < MaxRecords
  /\ instant < MaxInstant /\ instant' = instant + 1
  /\ Append1(EventOf(c), q)
  /\ call' = [call EXCEPT ![c] = [@ EXCEPT !.stage = "polling", !.request = q]]
  /\ UNCHANGED <<file, answer, shown>>

PollFinds_AnyResponse(c) ==
  /\ call[c].stage = "polling"
  /\ \E q \in RequestIds :
       /\ file[q] # "absent"
       /\ call' = [call EXCEPT ![c].stage = "read", ![c].got = file[q]]
  /\ UNCHANGED <<instant, sidecar, file, answer, shown>>

PollFinds(c) ==
  /\ call[c].stage = "polling" /\ file[call[c].request] # "absent"
  /\ call' = [call EXCEPT ![c].stage = "read",
                          ![c].got = file[call[c].request]]
  /\ UNCHANGED <<instant, sidecar, file, answer, shown>>

\* rm(), then JSON.parse(): a file read before its content was written throws.
PollRemoves(c) ==
  /\ call[c].stage = "read"
  /\ file' = [file EXCEPT ![call[c].request] = "absent"]
  /\ call' = [call EXCEPT ![c].stage =
                IF call[c].got = "empty" THEN "threw" ELSE "returned"]
  /\ UNCHANGED <<instant, sidecar, answer, shown>>

\* Claude gives the hook up: answered in the terminal, interrupted.
HookAborted(c) ==
  /\ call[c].stage = "polling"
  /\ call' = [call EXCEPT ![c].stage = "aborted"]
  /\ UNCHANGED <<instant, sidecar, file, answer, shown>>

\* Any other hook of the session; a tool of no known family has no summary.
OtherHook(event) ==
  /\ Len(sidecar) < MaxRecords
  /\ Append1(event, NoRequest)
  /\ UNCHANGED <<instant, call, file, answer, shown>>

(***************************************************************************)
(* The server.                                                             *)
(***************************************************************************)

\* The request the session's latest summarised hook record asks about.
ShownBy(records) ==
  LET told == {i \in DOMAIN records : records[i].event # "OtherTool"} IN
  IF told = {} THEN NoRequest
  ELSE LET last == CHOOSE i \in told : \A j \in told : j <= i
       IN records[last].request

SnapshotRefreshes ==
  /\ shown' = ShownBy(sidecar)
  /\ UNCHANGED <<instant, sidecar, call, file, answer>>

\* respondToApprovalRequest, respondToInputRequest: by the snapshot.  One
\* answer to a request at a time; a second one may follow while it shows.
BrowserAnswers(c, d) ==
  /\ shown # NoRequest /\ call[c].request = shown
  /\ answer[c].stage \in {"none", "done"}
  /\ answer' = [answer EXCEPT ![c] = [stage |-> "opening", decision |-> d]]
  /\ UNCHANGED <<instant, sidecar, call, file, shown>>

\* writeFile() opens and truncates, then writes.
AnswerOpens(c) ==
  /\ answer[c].stage = "opening"
  /\ file' = [file EXCEPT ![call[c].request] = "empty"]
  /\ answer' = [answer EXCEPT ![c].stage = "writing"]
  /\ UNCHANGED <<instant, sidecar, call, shown>>

\* A file removed since it was opened takes its content with it.
AnswerWrites(c) ==
  /\ answer[c].stage = "writing"
  /\ file' = [file EXCEPT ![call[c].request] =
                IF @ = "absent" THEN "absent" ELSE answer[c].decision]
  /\ answer' = [answer EXCEPT ![c].stage = "marking"]
  /\ UNCHANGED <<instant, sidecar, call, shown>>

AnswerMarks(c) ==
  /\ answer[c].stage = "marking" /\ Len(sidecar) < MaxRecords
  /\ Append1("AgentsOfficeMarker", NoRequest)
  /\ answer' = [answer EXCEPT ![c].stage = "done"]
  /\ shown' = ShownBy(sidecar')
  /\ UNCHANGED <<instant, call, file>>

BridgeNext ==
  \/ \E c \in Calls : HookAsks(c) \/ PollFinds(c) \/ PollRemoves(c)
                      \/ HookAborted(c)
  \/ \E e \in {"OtherTool", "PostToolUse"} : OtherHook(e)
  \/ SnapshotRefreshes
  \/ \E c \in Calls : \E d \in Decisions(c) : BrowserAnswers(c, d)
  \/ \E c \in Calls : AnswerOpens(c) \/ AnswerWrites(c) \/ AnswerMarks(c)

BridgeSpec == BridgeInit /\ [][BridgeNext]_bridgeVars

(***************************************************************************)
(* Properties.                                                             *)
(***************************************************************************)

\* integration-hooks.md:763: the hook that returns a decision returns one the
\* browser gave to its own request, and a decision whose file is gone was
\* read by that hook; none is taken by a parallel hook of the session.
AnswersFindTheirHook ==
  \A c \in Calls :
    /\ call[c].stage = "returned"
         => answer[c].stage # "none" /\ call[c].got \in Decisions(c)
    /\ answer[c].stage \in {"marking", "done"}
         => \/ file[call[c].request] # "absent"
            \/ call[c].stage \in {"read", "returned", "threw"}

\* integration-hooks.md:763 as it is written: the hook whose poll finds the
\* answer returns the decision.
AnswerIsReturned ==
  \A c \in Calls :
    call[c].stage \in {"returned", "threw"} => call[c].got \in Decisions(c)
=============================================================================
