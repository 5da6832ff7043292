----------------------------- MODULE CursorCloud -----------------------------
(***************************************************************************)
(* The messages of one Cursor cloud agent (core/src/adapters/cursor-       *)
(* cloud.ts, cursor-cloud-data.ts).  Loads overlap; each lists the agents, *)
(* reads the conversation where the agent is still of interest, and tells  *)
(* the messages no load has read before, but not those the first load      *)
(* finds.  A StaticProjectSource keeps the snapshot of the newest load.    *)
(*                                                                         *)
(* The project's repository matches the agent's.  A request and its second *)
(* try with the older authorization are one step.                          *)
(***************************************************************************)
EXTENDS Integers, Sequences, FiniteSets

CONSTANTS MaxMessages, MaxCloudLoads   \* bounds

ASSUME CloudBounds == MaxMessages \in Nat /\ MaxCloudLoads \in Nat

VARIABLES
  cloudAgent,    \* in the cloud: [messages, ofInterest, key]
  cloudLoads,    \* each load: [at, emit, got, events, kept]
  knownMessages, \* knownConversationMessageIds: a prefix, by its length
  emitEvents     \* emitConversationEvents

cloudVars == <<cloudAgent, cloudLoads, knownMessages, emitEvents>>

CloudInit ==
  /\ cloudAgent \in [messages : 0..MaxMessages, ofInterest : BOOLEAN,
                     key : BOOLEAN]
  /\ cloudLoads = <<>> /\ knownMessages = 0 /\ emitEvents = FALSE

(***************************************************************************)
(* Cursor.                                                                 *)
(***************************************************************************)

MessageWritten ==
  /\ cloudAgent.messages < MaxMessages
  /\ cloudAgent' = [cloudAgent EXCEPT !.messages = @ + 1, !.ofInterest = TRUE]
  /\ UNCHANGED <<cloudLoads, knownMessages, emitEvents>>

AgentGrowsOld ==
  /\ cloudAgent' = [cloudAgent EXCEPT !.ofInterest = FALSE]
  /\ UNCHANGED <<cloudLoads, knownMessages, emitEvents>>

\* The user stores or removes the API key.
KeyChanges ==
  /\ cloudAgent' = [cloudAgent EXCEPT !.key = ~@]
  /\ UNCHANGED <<cloudLoads, knownMessages, emitEvents>>

(***************************************************************************)
(* A load.                                                                 *)
(***************************************************************************)

LoadBegins ==
  /\ Len(cloudLoads) < MaxCloudLoads
  /\ cloudLoads' = Append(cloudLoads,
       [at |-> "checking", emit |-> FALSE, got |-> 0, events |-> {},
        kept |-> FALSE])
  /\ UNCHANGED <<cloudAgent, knownMessages, emitEvents>>

\* StaticProjectSource keeps the snapshot unless a newer load has begun.
CloudLoadEnds(n, events) ==
  cloudLoads' = [cloudLoads EXCEPT ![n] =
    [@ EXCEPT !.at = "over", !.events = events, !.kept = n = Len(cloudLoads)]]

\* describeCursorAgentAvailability
Checked(n) ==
  /\ cloudLoads[n].at = "checking"
  /\ IF cloudAgent.key
       THEN cloudLoads' = [cloudLoads EXCEPT ![n].at = "listing",
                                             ![n].emit = emitEvents]
       ELSE CloudLoadEnds(n, {})
  /\ UNCHANGED <<cloudAgent, knownMessages, emitEvents>>

\* listCursorBackgroundAgents; the conversation of an old agent is not read.
ListAnswers(n) ==
  /\ cloudLoads[n].at = "listing"
  /\ cloudLoads' = [cloudLoads EXCEPT ![n].at =
                      IF cloudAgent.ofInterest THEN "reading" ELSE "building"]
  /\ UNCHANGED <<cloudAgent, knownMessages, emitEvents>>

\* The adapter turns the error into an empty snapshot.
ListRefused(n) ==
  /\ cloudLoads[n].at = "listing"
  /\ CloudLoadEnds(n, {}) /\ emitEvents' = TRUE
  /\ UNCHANGED <<cloudAgent, knownMessages>>

\* fetchCursorAgentConversation; a failure leaves the agent without one.
ConversationRead(n, fails) ==
  /\ cloudLoads[n].at = "reading"
  /\ cloudLoads' = [cloudLoads EXCEPT ![n].at = "building",
                      ![n].got = IF fails THEN 0 ELSE cloudAgent.messages]
  /\ UNCHANGED <<cloudAgent, knownMessages, emitEvents>>

Remembered_IfTold(load) ==
  IF load.emit /\ load.got > knownMessages THEN load.got ELSE knownMessages
Remembered(load) ==
  IF load.got > knownMessages THEN load.got ELSE knownMessages

\* loadCursorCloudProjectSnapshotData, after the appearance of the agent.
Builds(n) ==
  LET load == cloudLoads[n] IN
  /\ load.at = "building"
  /\ CloudLoadEnds(n, IF load.emit THEN knownMessages + 1 .. load.got ELSE {})
  /\ knownMessages' = Remembered(load) /\ emitEvents' = TRUE
  /\ UNCHANGED cloudAgent

CloudNext ==
  \/ MessageWritten \/ AgentGrowsOld \/ KeyChanges \/ LoadBegins
  \/ \E n \in DOMAIN cloudLoads :
       \/ Checked(n) \/ ListAnswers(n) \/ ListRefused(n) \/ Builds(n)
       \/ \E fails \in BOOLEAN : ConversationRead(n, fails)

CloudSpec == CloudInit /\ [][CloudNext]_cloudVars

(***************************************************************************)
(* Properties.                                                             *)
(***************************************************************************)

Finished == {n \in DOMAIN cloudLoads : cloudLoads[n].at = "over"}
HaveRead(m) == {n \in Finished : m <= cloudLoads[n].got}
TellersOf(m) == {n \in Finished : cloudLoads[n].kept
                                  /\ m \in cloudLoads[n].events}

\* architecture.md:480, "newly seen prompts and replies": a message that any
\* load has read is not told again, be it history or told before, however
\* the loads overlap.
NewlySeenOnly ==
  [][\A m \in 1..MaxMessages : HaveRead(m) # {} => TellersOf(m)' = TellersOf(m)
    ]_cloudVars

\* A message a load has read was told, unless it is history to a load that
\* does not tell or the load was superseded and took the message with it.
LostOnlyWithItsLoad ==
  \A m \in 1..MaxMessages :
    HaveRead(m) # {} /\ TellersOf(m) = {} =>
      \E n \in HaveRead(m) : ~cloudLoads[n].emit \/ ~cloudLoads[n].kept

CloudTellsOnce == NewlySeenOnly /\ []LostOnlyWithItsLoad
=============================================================================
