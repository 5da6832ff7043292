------------------------------- MODULE OfficePage -------------------------------
(***************************************************************************)
(* The office page of one browser (ui-source.ts, attention-panel-          *)
(* source.ts): how the fleet reaches it, by one request at the start, by   *)
(* an event stream, and by a request after each thing the user has done;   *)
(* and what the user does, replies to threads and answers to agents, from  *)
(* the click to the router, the monitor and back.                          *)
(*                                                                         *)
(* A call is a request of the page and what follows it: its POST, and then *)
(* the fleet it asks for.  The server may carry a POST out after the page  *)
(* has given it up, or carry it out and fail to say so.                    *)
(***************************************************************************)
EXTENDS Naturals, Sequences, FiniteSets

CONSTANTS
  Threads,      \* threads of Codex that may be replied to
  Requests,     \* what agents may ask of the user
  MaxFleets,    \* fleets the server publishes
  MaxCalls,     \* calls of the page, the initial one included
  MaxTexts,     \* texts the user types
  MaxBreaks     \* times the event stream breaks

None == "none"
NoRequest ==
  [name |-> None, kind |-> None, from |-> None, options |-> None,
   other |-> FALSE, required |-> FALSE]
NoFleet == [v |-> 0, threads |-> {}, need |-> NoRequest]
NoComposer ==
  [thread |-> None, draft |-> 0, pending |-> FALSE, error |-> FALSE, again |-> FALSE]

\* A thread is not a request; a request asks for a decision or for an input.
ASSUME OfficeShape ==
  /\ None \notin Threads /\ Threads \cap Requests = {}
  /\ NoRequest \notin Requests
  /\ \A r \in Requests :
       r.kind \in {"approval", "input"} /\ r.options \in {None, "some", "empty"}

VARIABLES
  served,       \* the fleet the server has published last
  asking,       \* requests waiting for the user, in the order they were made
  asked,        \* requests made so far
  stream,       \* "none", "connecting", "open" or "broken"
  wire,         \* fleets on their way through the stream
  breaks,
  shown,        \* state.fleet
  newest,       \* the newest fleet shown so far (history)
  openThread,   \* state.openAgentThread
  composer,     \* state.replyComposer, and whether it was opened again while
                \* its draft was being sent or had failed
  entered,      \* state.needsUserInputDrafts: what is entered for a request
  busy,         \* state.needsUserActionRequestIds
  failed,       \* requests of state.needsUserActionErrorsByRequestId
  calls,        \* the page's calls, in the order they were made
  texts         \* texts typed so far

serverVars == <<served, asking, asked>>
streamVars == <<stream, wire, breaks>>
pageVars == <<openThread, composer, entered, busy, failed>>
officeVars == <<serverVars, streamVars, shown, newest, pageVars, calls, texts>>

-----------------------------------------------------------------------------
\* What the panel lets the user give as an answer, and what the monitor takes.

\* approvalDecisionEntries: the decisions the request names, or three of them.
DecisionsOffered(r) ==
  CASE r.from = "claude" -> {"accept", "decline"}
    [] r.from = "permissions" -> {"accept", "acceptForSession"}
    [] OTHER -> {"accept", "decline", "cancel"}

\* The decisions a request of each origin can be answered with.
DecisionsTaken(r) ==
  CASE r.from = "claude" -> {"accept", "decline"}
    [] r.from = "permissions" -> {"accept", "acceptForSession"}
    [] OTHER -> {"accept", "acceptForSession", "decline", "cancel"}

\* What can be entered for a question: one of its options, or a text where it
\* has none or admits another answer.
Enterable(r) ==
  IF r.options = "some"
  THEN {None, "option"} \union (IF r.other THEN {"text"} ELSE {})
  ELSE {None, "text"}

\* needsUserInputCompletion: nothing required is missing.
Complete(r) == r.required => entered[r] # None

\* The decisions or answers the page lets the user send for a request.
Sendable(r) ==
  IF r.kind = "approval" THEN DecisionsOffered(r)
  ELSE IF Complete(r) THEN {entered[r]} ELSE {}

\* normalizeUserInputAnswers, and normalizeClaudeHookInputContent for Claude:
\* a list of options, though empty, admits no other answer.
Taken(r, answer) ==
  IF r.kind = "approval" THEN answer \in DecisionsTaken(r)
  ELSE CASE answer = None -> ~r.required
         [] answer = "option" -> TRUE
         [] answer = "text" -> r.from = "claude" \/ r.options = None \/ r.other

-----------------------------------------------------------------------------
Call(kind, about, what, phase) ==
  [kind |-> kind, about |-> about, what |-> what,
   deed |-> IF phase = "posted" THEN "due" ELSE "done", phase |-> phase,
   since |-> newest, body |-> NoFleet]

OfficeInit ==
  /\ served = [v |-> 1, threads |-> Threads, need |-> NoRequest]
  /\ asking = <<>> /\ asked = {}
  /\ stream = "none" /\ wire = <<>> /\ breaks = 0
  /\ shown = NoFleet /\ newest = 0
  /\ openThread = None /\ composer = NoComposer
  /\ entered = [r \in Requests |-> None]
  /\ busy = {} /\ failed = {}
  /\ calls = <<>> /\ texts = 0

\* The page is loaded: refreshFleet().
OpensPage ==
  /\ calls = <<>>
  /\ calls' = <<Call("open", None, None, "refreshing")>>
  /\ UNCHANGED <<serverVars, streamVars, shown, newest, pageVars, texts>>

-----------------------------------------------------------------------------
\* The request the server shows: the last one of those that still wait.
NeedOf(waiting) ==
  IF waiting = <<>> THEN NoRequest ELSE waiting[Len(waiting)]

\* The requests that wait when the one at k has gone.
Without(waiting, k) ==
  [j \in 1..(Len(waiting) - 1) |-> IF j < k THEN waiting[j] ELSE waiting[j + 1]]

\* The server publishes fleet f, and writes it to the stream of the page.
Publishes(f) ==
  /\ f.v <= MaxFleets
  /\ served' = f
  /\ wire' = IF stream = "open" THEN Append(wire, f) ELSE wire

\* Threads come and go, and agents ask and are answered elsewhere.
OfficeChanges ==
  /\ \/ \E T \in SUBSET Threads :
          /\ T # served.threads
          /\ Publishes([served EXCEPT !.v = @ + 1, !.threads = T])
          /\ UNCHANGED <<asking, asked>>
     \/ \E r \in Requests \ asked :
          /\ asking' = Append(asking, r) /\ asked' = asked \union {r}
          /\ Publishes([served EXCEPT !.v = @ + 1, !.need = r])
     \/ \E i \in DOMAIN asking :
          /\ asking' = Without(asking, i)
          /\ Publishes([served EXCEPT !.v = @ + 1, !.need = NeedOf(asking')])
          /\ UNCHANGED asked
  /\ UNCHANGED <<stream, breaks, shown, newest, pageVars, calls, texts>>

\* registerSse(): a new stream begins with the fleet published last.
StreamOpens ==
  /\ stream \in {"connecting", "broken"}
  /\ stream' = "open" /\ wire' = <<served>>
  /\ UNCHANGED <<serverVars, breaks, shown, newest, pageVars, calls, texts>>

\* What was on its way is lost; the browser connects again by itself.
StreamBreaks ==
  /\ stream = "open" /\ breaks < MaxBreaks
  /\ stream' = "broken" /\ wire' = <<>> /\ breaks' = breaks + 1
  /\ UNCHANGED <<serverVars, shown, newest, pageVars, calls, texts>>

-----------------------------------------------------------------------------
\* fleetSemanticToken: fleets that differ only in what is asked are one.
SameToken(f, g) == f.v = g.v

\* render() closes the thread that has gone, and the reply to it.
Drops(f, t) == t # None /\ t \notin f.threads

\* ingestFleet(): a fleet that looks as the one shown does is left aside.
Ingest(f, c) ==
  IF SameToken(f, shown)
  THEN UNCHANGED <<shown, newest, openThread>> /\ composer' = c
  ELSE /\ shown' = f
       /\ newest' = IF f.v > newest THEN f.v ELSE newest
       /\ openThread' = IF Drops(f, openThread) THEN None ELSE openThread
       /\ composer' = IF Drops(f, openThread) /\ c.thread = openThread
                      THEN NoComposer ELSE c

StreamDelivers ==
  /\ stream = "open" /\ wire # <<>>
  /\ Ingest(Head(wire), composer)
  /\ wire' = Tail(wire)
  /\ UNCHANGED <<serverVars, stream, breaks, entered, busy, failed, calls, texts>>

-----------------------------------------------------------------------------
\* What the user does.

Shown(t) == t \in shown.threads

\* openReplyComposer(): the draft of the same thread is kept, and is no longer
\* being sent.
Reopened(t) ==
  IF composer.thread = t
  THEN [composer EXCEPT !.pending = FALSE, !.error = FALSE,
                        !.again = @ \/ composer.pending \/ composer.error]
  ELSE [NoComposer EXCEPT !.thread = t]

OpensComposer(t) ==
  /\ Shown(t) /\ composer' = Reopened(t) /\ composer' # composer
  /\ UNCHANGED <<serverVars, streamVars, shown, newest, openThread, entered,
                 busy, failed, calls, texts>>

\* The field and the buttons are disabled while a reply is being sent.
Usable == composer.thread # None /\ Shown(composer.thread) /\ ~composer.pending

Types ==
  /\ Usable /\ texts < MaxTexts
  /\ texts' = texts + 1
  /\ composer' = [composer EXCEPT !.draft = texts + 1, !.error = FALSE,
                                  !.again = FALSE]
  /\ UNCHANGED <<serverVars, streamVars, shown, newest, openThread, entered,
                 busy, failed, calls>>

Cancels ==
  /\ Usable /\ composer' = NoComposer
  /\ UNCHANGED <<serverVars, streamVars, shown, newest, openThread, entered,
                 busy, failed, calls, texts>>

OpensThread(t) ==
  /\ Shown(t) /\ t # openThread /\ openThread' = t
  /\ UNCHANGED <<serverVars, streamVars, shown, newest, composer, entered,
                 busy, failed, calls, texts>>

\* closeAgentThread(): by its button, or by a click elsewhere, which closes
\* whatever composer is open.
ClosesThread ==
  /\ openThread # None /\ openThread' = None
  /\ composer' \in {NoComposer,
                    IF composer.thread = openThread THEN NoComposer ELSE composer}
  /\ UNCHANGED <<serverVars, streamVars, shown, newest, entered, busy, failed,
                 calls, texts>>

\* submitReplyComposer().
Submits ==
  /\ Usable
  /\ IF composer.draft = 0
     THEN ~composer.error /\ composer' = [composer EXCEPT !.error = TRUE]
                          /\ UNCHANGED calls
     ELSE /\ Len(calls) < MaxCalls
          /\ composer' = [composer EXCEPT !.pending = TRUE, !.error = FALSE]
          /\ calls' = Append(calls, Call("reply", composer.thread,
                                         composer.draft, "posted"))
  /\ UNCHANGED <<serverVars, streamVars, shown, newest, openThread, entered,
                 busy, failed, texts>>

\* An option is selected or a text typed for the request shown, or both
\* cleared; the fields are disabled while the answer is being sent.
Enters ==
  /\ shown.need # NoRequest /\ shown.need \notin busy /\ shown.need.kind = "input"
  /\ \E e \in Enterable(shown.need) \ {entered[shown.need]} :
       entered' = [entered EXCEPT ![shown.need] = e]
  /\ failed' = failed \ {shown.need}
  /\ UNCHANGED <<serverVars, streamVars, shown, newest, openThread, composer,
                 busy, calls, texts>>

Busy_Never(r) == FALSE

\* The buttons of a request are disabled while its answer is on its way.
Busy(r) == r \in busy

\* submitNeedsUserInput(), or a decision's button.
Answers ==
  /\ shown.need # NoRequest /\ ~Busy(shown.need) /\ Len(calls) < MaxCalls
  /\ \E answer \in Sendable(shown.need) :
       calls' = Append(calls, Call("need", shown.need, answer, "posted"))
  /\ busy' = busy \union {shown.need}
  /\ failed' = failed \ {shown.need}
  /\ UNCHANGED <<serverVars, streamVars, shown, newest, openThread, composer,
                 entered, texts>>

-----------------------------------------------------------------------------
\* The server carries a POST out: FleetLiveService looks the monitor up, the
\* monitor sends to Codex, the fleet is published, the audit record written.

Deed(i, d) == calls' = [calls EXCEPT ![i].deed = d]

\* sendThreadReply(): the thread is there and can be steered or started.
SendsReply(i) ==
  /\ calls[i].kind = "reply" /\ calls[i].about \in served.threads
  /\ Publishes([served EXCEPT !.v = @ + 1])
  /\ UNCHANGED <<asking, asked>>

\* respondToApprovalRequest(), respondToInputRequest(): nothing in the fleet's
\* token tells that another request of the agent is now the one shown.
SendsAnswer(i) ==
  /\ calls[i].kind = "need" /\ Taken(calls[i].about, calls[i].what)
  /\ \E k \in DOMAIN asking :
       /\ asking[k] = calls[i].about
       /\ asking' = Without(asking, k)
       /\ Publishes([served EXCEPT !.need = NeedOf(asking'),
                     !.v = IF asking' = <<>> THEN @ + 1 ELSE @])
  /\ UNCHANGED asked

\* The handler answers; after the deed the publish or the audit may still fail.
Carries(i) ==
  /\ calls[i].deed = "due"
  /\ SendsReply(i) \/ SendsAnswer(i)
  /\ \E d \in {"done", "botched"} : Deed(i, d)
  /\ UNCHANGED <<stream, breaks, shown, newest, pageVars, texts>>

\* The thread is of another owner or not steerable yet, the request is gone, or
\* its answer is not one that it takes.
Refuses(i) ==
  /\ calls[i].deed = "due"
  /\ calls[i].kind = "need" =>
       \/ ~Taken(calls[i].about, calls[i].what)
       \/ \A k \in DOMAIN asking : asking[k] # calls[i].about
  /\ Deed(i, "refused")
  /\ UNCHANGED <<serverVars, streamVars, shown, newest, pageVars, texts>>

\* GET /api/fleet.
FleetAnswered(i) ==
  /\ calls[i].phase = "refreshing" /\ calls[i].body = NoFleet
  /\ calls' = [calls EXCEPT ![i].body = served]
  /\ UNCHANGED <<serverVars, streamVars, shown, newest, pageVars, texts>>

-----------------------------------------------------------------------------
\* How the page goes on.

Phase(i, p) ==
  LET since == IF p = "refreshing" THEN shown.v ELSE calls[i].since
  IN calls' = [calls EXCEPT ![i] = [@ EXCEPT !.phase = p, !.since = since]]

\* The POST was answered with success.
PostSucceeds(i) ==
  /\ calls[i].phase = "posted" /\ calls[i].deed = "done"
  /\ Phase(i, "refreshing")
  /\ IF calls[i].kind = "reply"
     THEN /\ composer' = NoComposer
          /\ openThread' = IF openThread = calls[i].about THEN None ELSE openThread
          /\ UNCHANGED <<entered, failed>>
     ELSE /\ entered' = [entered EXCEPT ![calls[i].about] = None]
          /\ failed' = failed \ {calls[i].about}
          /\ UNCHANGED <<composer, openThread>>
  /\ UNCHANGED <<serverVars, streamVars, shown, newest, busy, texts>>

\* The catch of submitReplyComposer(): whatever composer is open shows the error.
Blamed(c) == [c EXCEPT !.pending = FALSE, !.error = TRUE]

\* The catch of the handlers, and their finally.
Fails(i) ==
  /\ Phase(i, "over")
  /\ CASE calls[i].kind = "reply" ->
            composer' = Blamed(composer) /\ UNCHANGED <<busy, failed>>
       [] calls[i].kind = "need" ->
            /\ busy' = busy \ {calls[i].about}
            /\ failed' = failed \union {calls[i].about}
            /\ UNCHANGED composer
       [] calls[i].kind = "open" -> UNCHANGED <<composer, busy, failed>>
  /\ UNCHANGED <<serverVars, streamVars, shown, newest, openThread, entered, texts>>

\* The server said no, or nothing within the time allowed.
PostFails(i) == calls[i].phase = "posted" /\ Fails(i)

RefreshFails(i) == calls[i].phase = "refreshing" /\ Fails(i)

\* The fleet asked for is shown, though the stream may have brought a newer one.
\* The stream itself is opened once the first fleet has come.
RefreshArrives(i) ==
  /\ calls[i].phase = "refreshing" /\ calls[i].body # NoFleet
  /\ Ingest(calls[i].body, composer)
  /\ Phase(i, "over")
  /\ busy' = IF calls[i].kind = "need" THEN busy \ {calls[i].about} ELSE busy
  /\ stream' = IF calls[i].kind = "open" THEN "connecting" ELSE stream
  /\ UNCHANGED <<serverVars, wire, breaks, entered, failed, texts>>

-----------------------------------------------------------------------------
UserActs ==
  \/ \E t \in Threads : OpensComposer(t) \/ OpensThread(t)
  \/ Types \/ Cancels \/ ClosesThread \/ Submits \/ Enters \/ Answers

PageGoesOn(i) == PostSucceeds(i) \/ PostFails(i) \/ RefreshArrives(i) \/ RefreshFails(i)

OfficeNext ==
  \/ OpensPage \/ UserActs
  \/ OfficeChanges \/ StreamOpens \/ StreamBreaks \/ StreamDelivers
  \/ \E i \in DOMAIN calls :
       Carries(i) \/ Refuses(i) \/ FleetAnswered(i) \/ PageGoesOn(i)

OfficeSpec == OfficeInit /\ [][OfficeNext]_officeVars

\* The browser reconnects and hands over what arrives; a POST is answered or
\* given up, and a fleet asked for comes or fails.
OfficeFairness ==
  /\ WF_officeVars(StreamOpens) /\ WF_officeVars(StreamDelivers)
  /\ \A i \in 1..MaxCalls : WF_officeVars(i \in DOMAIN calls /\ PageGoesOn(i))

-----------------------------------------------------------------------------
\* A reply that is said to be on its way is.
SendingIsTrue ==
  composer.pending =>
    \E i \in DOMAIN calls : /\ calls[i].phase = "posted"
                            /\ calls[i].about = composer.thread
                            /\ calls[i].what = composer.draft

\* A text or an answer on its way is not sent again, unless the user was shown
\* an error or has opened the composer again.
NotSentTwice ==
  Len(calls') > Len(calls) =>
    LET new == calls'[Len(calls')]
    IN \A i \in DOMAIN calls :
         calls[i].phase = "posted" /\ calls[i].about = new.about =>
           /\ new.kind = "reply"
           /\ calls[i].what = new.what => composer.error \/ composer.again

\* What the page shows goes back only when a refresh crosses the stream, either
\* overtaking the other, and not beyond what was shown when it was asked for.
BackNoFurther ==
  shown'.v < shown.v =>
    \E i \in DOMAIN calls : /\ calls[i].kind # "open" /\ calls[i].body # NoFleet
                            /\ shown'.v >= calls[i].since

\* A text goes from the composer only by the user's own act, because a reply was
\* delivered, or because its thread has gone while its card was open.
DraftsAreKept ==
  composer.draft # 0 /\ composer'.draft # composer.draft =>
    \/ UserActs
    \/ \E i \in DOMAIN calls : calls[i].kind = "reply" /\ PostSucceeds(i)
    \/ composer.thread = openThread /\ composer.thread \notin shown'.threads

\* An answer is refused only when its request is gone, or asks for a text and
\* lists no options.
AnswersFit ==
  \A i \in DOMAIN calls :
    /\ calls[i].kind = "need" /\ calls[i].deed = "due" /\ calls'[i].deed = "refused"
    => \/ \A k \in DOMAIN asking : asking[k] # calls[i].about
       \/ calls[i].about.options = "empty"

\* Once connected, the page comes to show what the server has published last,
\* as far as its token tells, unless a refresh that the stream had overtaken was
\* the last to come; and no request stays busy for good.
CatchesUp ==
  /\ <>[](stream \in {"open", "broken"} =>
            SameToken(shown, served) \/ shown.v < newest)
  /\ \A r \in Requests : []<>(r \notin busy)

\* The page tells its user the truth, sends what it is told to once, and shows
\* what there is (ui-source.ts 625-895, 1074-1096).
PageIsHonest ==
  /\ []SendingIsTrue
  /\ [][NotSentTwice /\ BackNoFurther /\ DraftsAreKept /\ AnswersFit]_officeVars
  /\ CatchesUp
=============================================================================
