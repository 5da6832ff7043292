--------------------------- MODULE CodexThreadView ---------------------------
(***************************************************************************)
(* What the office shows of one Codex thread.  A notification becomes an   *)
(* event of a feed (live-monitor-lib/events.ts); a reread becomes a        *)
(* summary of the thread's last turn (snapshot-lib/thread-summary.ts); the *)
(* codex-local adapter puts the two together with the monitor's record of  *)
(* the thread, and the workload policy decides whether the agent has a     *)
(* desk and whether it still looks busy (domain/workload-policy.ts).       *)
(* ThreadLifecycle has the order of rereads and lost answers; here a       *)
(* reread is one step, and a turn has its items.                           *)
(***************************************************************************)
EXTENDS Integers, Sequences, SequencesExt, FiniteSetsExt

CONSTANTS
  ItemTypes,     \* what Codex does in a turn, of DOMAIN Working
  DoneGrace,     \* RECENT_DONE_GRACE_MS; a subagent's is shorter
  FreshWindow,   \* FRESH_NOT_LOADED_.., ACTIVE_FRESH_LOCAL_WINDOW_MS
  EventWindow,   \* EVENT_ACTIVITY_WINDOW_MS
  SpawnWindow,   \* FRESH_SPAWNED_THREAD_WINDOW_MS
  QuietLimit,    \* QUIET_LIVE_THREAD_WINDOW_MS, QUIET_LIVE_LOCAL_WINDOW_MS
  DoneWindow,    \* DONE_WINDOW_MS
  ChildWindow,   \* ACTIVE_SUBAGENT_THREAD_WINDOW_MS, ACTIVE_SUBAGENT_WINDOW_MS
  WaitingWindow, \* WAITING_LOCAL_WINDOW_MS
  MaxItems, MaxPrompts, MaxViewClock,
  MaxExtras      \* bounds

ASSUME ViewWindows ==
  /\ DoneGrace <= FreshWindow /\ FreshWindow <= EventWindow
  /\ EventWindow <= SpawnWindow /\ SpawnWindow <= QuietLimit
  /\ QuietLimit <= DoneWindow /\ DoneWindow <= ChildWindow
  /\ ChildWindow <= WaitingWindow

VARIABLES
  kin,        \* [child, subscribed]: the thread is a subagent's; it is watched
  viewClock,
  live,       \* the thread as Codex has it, and the number of its last turn
  question,   \* what Codex waits for: "none", "approval" or "input"
  mon,        \* what the monitor has of the thread, see Forgotten
  prompts,
  extras      \* losses, rereads, questions and unloads so far

viewVars == <<kin, viewClock, live, question, mon, prompts, extras>>

Unread == [status |-> "none"]

Forgotten ==
  [known |-> Unread,    \* threads: the thread as last read
   hydrated |-> FALSE,  \* hydratedThreadIds
   ongoing |-> FALSE,   \* ongoingThreadIds
   stopped |-> 0,       \* stoppedAtByThreadId
   confirm |-> FALSE,   \* pendingNotLoadedStopTimers
   pending |-> "none",  \* the open request of pendingUserRequests
   feed |-> {}]         \* recentEvents of the thread

ViewInit ==
  /\ kin \in [child : BOOLEAN, subscribed : BOOLEAN]
  /\ viewClock = 1
  /\ live = [status |-> "notLoaded", flag |-> "none", no |-> 0, turn |-> "none",
             items |-> <<>>, at |-> 1]
  /\ question = "none"
  /\ mon = Forgotten
  /\ prompts = 0
  /\ extras = 0

-----------------------------------------------------------------------------
(* Turns (domain/codex-turn-semantics.ts).  An item is [type, mark]: its   *)
(* status, or for a message its phase; reasoning and searches have none.   *)

Final == "final_answer"
Over == {"completed", "failed"}
HasStatus == {"fileChange", "commandExecution", "mcpToolCall", "collabAgentToolCall"}

FinalAnswer(t) == \E i \in DOMAIN t.items : t.items[i].mark = Final
NonFinalWork(t) ==
  \E i \in DOMAIN t.items : t.items[i].type # "userMessage" /\ t.items[i].mark # Final
OpenWork(t) ==
  \/ t.turn = "inProgress"
  \/ \E i \in DOMAIN t.items : t.items[i].type \in HasStatus /\ t.items[i].mark \notin Over

Age(t) == viewClock - t.at
Dormant(t) == t.status \in {"idle", "notLoaded"}
PastQuiet(t) == Dormant(t) /\ Age(t) > QuietLimit

\* No turns yet, and either just spawned by another thread or just sent.
Unhydrated(t) ==
  /\ t.status = "notLoaded" /\ t.turn = "none"
  /\ Age(t) <= FreshWindow \/ (kin.child /\ viewClock - 1 <= SpawnWindow)

FreshWork(t) ==
  /\ t.status = "notLoaded" /\ t.turn \notin {"none", "failed"}
  /\ ~kin.child /\ ~FinalAnswer(t) /\ Age(t) <= QuietLimit
  /\ t.turn = "inProgress" \/ NonFinalWork(t)

StaleChild(t) ==
  t.status = "active" /\ kin.child /\ t.turn # "inProgress" /\ Age(t) > ChildWindow

Ongoing(t) ==
  IF t.status = "active" THEN ~FinalAnswer(t) /\ ~StaleChild(t)
  ELSE /\ ~PastQuiet(t)
       /\ Unhydrated(t) \/ t.turn = "inProgress" \/ FreshWork(t)

AwaitsAnswer(t) ==
  /\ t.status # "systemError" /\ ~PastQuiet(t)
  /\ t.turn \notin {"none", "failed"} /\ ~FinalAnswer(t)
  /\ t.turn = "inProgress" \/ NonFinalWork(t)

-----------------------------------------------------------------------------
(* summariseThread.                                                        *)

\* selectRelevantItem: the last item of the first of these types.
Relevance == <<"fileChange", "commandExecution", "mcpToolCall", "webSearch",
               "collabAgentToolCall", "reasoning", "agentMessage", "userMessage">>

Working == [fileChange |-> "editing", commandExecution |-> "running",
            mcpToolCall |-> "planning", webSearch |-> "scanning",
            collabAgentToolCall |-> "delegating", reasoning |-> "thinking",
            agentMessage |-> "thinking", userMessage |-> "planning"]

RelevantItem(items) ==
  LET Of(type) == {i \in DOMAIN items : items[i].type = type}
      first == Min({r \in DOMAIN Relevance : Of(Relevance[r]) # {}})
  IN items[Max(Of(Relevance[first]))]

InProgress(t) ==
  \/ t.turn = "inProgress" /\ ~PastQuiet(t)
  \/ FreshWork(t)
  \/ t.status = "active" /\ ~kin.child /\ ~FinalAnswer(t)

Recently(t) == IF Age(t) <= DoneWindow THEN "done" ELSE "idle"

MessageState(t) ==
  LET interrupted == t.turn = "interrupted" /\ ~FinalAnswer(t)
  IN IF InProgress(t) \/ (interrupted /\ Age(t) <= DoneWindow) THEN "thinking"
       ELSE IF interrupted THEN "done"
       ELSE Recently(t)

PromptState(t) ==
  IF InProgress(t) \/ Age(t) <= FreshWindow THEN "planning" ELSE Recently(t)

ItemState(t, item) ==
  LET settled == ~InProgress(t) /\ t.turn = "completed" /\ FinalAnswer(t)
      failed == item.mark = "failed" /\ ~settled
  IN CASE item.type \in HasStatus ->
            IF failed THEN "blocked"
            ELSE IF ~InProgress(t) /\ item.mark \in Over THEN Recently(t)
            ELSE Working[item.type]
       [] item.type \in {"webSearch", "reasoning"} -> Working[item.type]
       [] item.type = "agentMessage" -> MessageState(t)
       [] OTHER -> PromptState(t)

Summarised(t) ==
  IF t.status = "systemError" THEN [state |-> "blocked", activity |-> "none"]
    ELSE IF t.status = "active" /\ t.flag = "approval" THEN [state |-> "blocked", activity |-> "none"]
    ELSE IF t.status = "active" /\ t.flag = "input" THEN [state |-> "waiting", activity |-> "none"]
    ELSE IF t.turn = "none" THEN
         [state |-> IF t.status = "active" \/ Unhydrated(t) THEN "planning" ELSE Recently(t),
          activity |-> "none"]
    ELSE IF t.turn = "failed" THEN [state |-> "blocked", activity |-> "none"]
    ELSE IF t.items = <<>> THEN
         [state |-> IF InProgress(t) THEN "planning"
                    ELSE IF t.turn = "interrupted" THEN Recently(t) ELSE "idle",
          activity |-> "none"]
    ELSE
         LET item == RelevantItem(t.items)
         IN [state |-> ItemState(t, item),
             activity |-> IF item.type = "reasoning" THEN "none" ELSE item.type]

-----------------------------------------------------------------------------
(* The feed.  An event is [item, kind, by, phase, at]; its id is made of   *)
(* its method "by" and the item, so that the same one again replaces it.   *)

EventKind == [fileChange |-> "fileChange", commandExecution |-> "command",
              mcpToolCall |-> "tool", webSearch |-> "tool",
              collabAgentToolCall |-> "subagent", reasoning |-> "item",
              agentMessage |-> "message"]

Fed(m, e) ==
  [m EXCEPT !.feed = {old \in @ : <<old.item, old.by>> # <<e.item, e.by>>} \cup {e}]

\* buildEventFromItem, of the item i of the turn no.
ItemEvent(no, i, type, by, phase) ==
  [item |-> <<no, i>>, kind |-> EventKind[type], by |-> by, phase |-> phase,
   at |-> viewClock]

\* buildThreadReadAgentMessageEvent.
ReadEvent(t, i) ==
  ItemEvent(t.no, i, "agentMessage", "read",
            IF t.items[i].mark = Final THEN "completed" ELSE "updated")

Weight(e) ==
  CASE e.kind = "fileChange" -> 50
    [] e.kind = "subagent" -> 48
    [] e.kind = "command" -> 45
    [] e.kind = "message" /\ e.phase = "completed" -> 40
    [] e.kind = "message" /\ e.phase = "updated" -> 35
    [] OTHER -> 10

\* applyRecentActivityEvent: the weightiest fresh event, the newest of those.
Telling(t) ==
  {e \in mon.feed : /\ e.kind \in {"fileChange", "command", "subagent", "message"}
                /\ e.at >= t.at - EventWindow /\ e.at >= viewClock - EventWindow}
Preferred(t) ==
  CHOOSE e \in Telling(t) :
    \A other \in Telling(t) :
      Weight(e) > Weight(other) \/ (Weight(e) = Weight(other) /\ e.at >= other.at)

WithEvent(t, s) ==
  LET e == Preferred(t)
      shown == CASE e.kind = "fileChange" -> "fileChange" [] e.kind = "command" -> "commandExecution"
                 [] e.kind = "subagent" -> "collabAgentToolCall" [] OTHER -> "agentMessage"
      Became(state) == [state |-> state, activity |-> shown]
  IN IF Telling(t) = {} \/ s.state \in {"waiting", "blocked"} THEN s
       ELSE IF e.kind = "message" THEN Became(s.state)
       ELSE IF e.kind = "command" /\ s.state \in {"done", "idle"} THEN s
       ELSE IF e.kind = "subagent" THEN Became(IF e.phase = "failed" THEN "blocked" ELSE "delegating")
       ELSE Became(IF e.phase = "failed" THEN "blocked"
                          ELSE IF e.phase \in {"started", "updated"} THEN Working[shown]
                          ELSE s.state)

-----------------------------------------------------------------------------
(* The agent (adapters/codex-local.ts) and its desk (workload-policy.ts).  *)

Asking == [approval |-> "blocked", input |-> "waiting"]

\* recentWorkloadEventTimeMs.
WorkTime(t) ==
  LET said == {i \in DOMAIN t.items : t.items[i].type = "agentMessage"}
      nonFinal == said # {} /\ t.items[Max(said)].mark # Final
  IN Max({0} \cup {e.at : e \in {x \in mon.feed :
            /\ ~(x.kind = "message" /\ x.phase = "completed")
            /\ \/ nonFinal \/ x.kind = "subagent"
               \/ x.phase \in {"started", "updated", "waiting", "failed"}}})

Agent(t) ==
  LET s == Summarised(t)
      asked == IF mon.pending = "none" THEN s ELSE [s EXCEPT !.state = Asking[mon.pending]]
      told == WithEvent(t, asked)
      busy == (mon.ongoing /\ ~PastQuiet(t)) \/ Ongoing(t)
  IN [state |-> told.state, activity |-> told.activity, ongoing |-> busy,
      status |-> t.status, at |-> Max({t.at, WorkTime(t)}),
      stopped |-> IF busy THEN 0 ELSE mon.stopped,
      replied |-> told.activity = "agentMessage"
                  \/ \E i \in DOMAIN t.items : t.items[i].type = "agentMessage"]

LiveStates == {"editing", "running", "scanning", "thinking", "planning", "delegating"}
Terminal(a) == mon.pending = "none" /\ a.state \in {"done", "idle"}

\* isCurrentWorkloadAgent, of a local agent.
Current(a) ==
  LET age == viewClock - a.at
      grace == IF kin.child THEN 0 ELSE DoneGrace
      stale == kin.child /\ a.status = "active" /\ mon.pending = "none" /\ age > ChildWindow
  IN IF stale THEN FALSE
       ELSE IF a.status = "active" /\ Terminal(a) THEN
            IF a.stopped # 0 THEN viewClock - a.stopped <= grace ELSE age <= grace
       ELSE IF kin.child /\ a.state \in {"done", "idle"} /\ a.status # "active" /\ a.stopped = 0 THEN FALSE
       ELSE IF a.ongoing \/ a.status = "active" \/ mon.pending # "none" THEN TRUE
       ELSE IF kin.child /\ a.status = "notLoaded" /\ a.stopped = 0 THEN FALSE
       ELSE IF a.stopped # 0 THEN viewClock - a.stopped <= grace
       ELSE IF a.state \in {"waiting", "blocked"} THEN age <= WaitingWindow
       ELSE
         \/ /\ a.status = "notLoaded" /\ ~kin.subscribed /\ age <= DoneGrace
            /\ a.state \in {"done", "idle"} /\ a.replied
         \/ /\ ~kin.child /\ age <= QuietLimit
            /\ a.activity \notin {"none", "agentMessage", "userMessage"}
         \/ a.state = "done" /\ age <= grace
         \/ /\ a.state \in LiveStates
            /\ \/ age <= FreshWindow
               \/ age <= QuietLimit /\ (kin.subscribed \/ a.status = "notLoaded")

\* applyCurrentWorkloadState: settleDormantLocalState, and the bridge for a
\* reply nobody else outshines.
Shown(a) ==
  LET settles == /\ ~a.ongoing /\ a.status # "active" /\ mon.pending = "none"
                 /\ a.state \in LiveStates
                 /\ a.stopped # 0 \/ ~Current(a)
      state == IF settles THEN IF a.replied THEN "done" ELSE "idle" ELSE a.state
      bridged == /\ ~kin.child /\ ~a.ongoing /\ a.status = "notLoaded" /\ ~kin.subscribed
                 /\ state \in {"done", "idle"} /\ a.replied
                 /\ viewClock - a.at <= DoneGrace
  IN [state |-> state, current |-> Current(a) \/ bridged]

-----------------------------------------------------------------------------
(* The monitor: what a notification and a reread do to its record.         *)

GoesLive(m) == [m EXCEPT !.ongoing = TRUE, !.stopped = 0, !.confirm = FALSE]
GoesDown(m) ==
  IF m.known = Unread \/ m.stopped # 0 THEN m
  ELSE [m EXCEPT !.ongoing = FALSE, !.stopped = viewClock, !.confirm = FALSE,
                 !.pending = "none"]
GoesDormant(m) == IF m.pending # "none" THEN GoesLive(m) ELSE GoesDown(m)

\* upsertThreadTurn: a turn that is not known comes without its items.
WithTurn(m, no, turn) ==
  IF m.known = Unread THEN m
  ELSE [m EXCEPT !.known.turn = turn, !.known.no = no,
                 !.known.items = IF m.known.no = no THEN @ ELSE <<>>]
WithStatus(m, status, flag) ==
  IF m.known = Unread THEN m
  ELSE LET to == [m EXCEPT !.known.status = status, !.known.flag = flag]
       IN CASE status = "active" -> GoesLive(to)
            [] status = "notLoaded" /\ (m.ongoing \/ Ongoing(m.known)) ->
                 [to EXCEPT !.confirm = TRUE]
            [] OTHER -> to

\* Of a watched thread that is read and that its own app-server runs; what is
\* not read is the project's only by a path in the message.
Watched == kin.subscribed /\ live.status # "notLoaded"
Comes == Watched /\ mon.known # Unread
ComesByPath(type) ==
  Watched /\ (mon.known # Unread \/ type \in {"fileChange", "commandExecution"})

\* The last message of the thread, backfilled unless it has an event already.
LastMessage(t) ==
  IF t = Unread THEN <<0, 0>> ELSE
  LET said == {i \in DOMAIN t.items : t.items[i].type = "agentMessage"}
  IN IF said = {} THEN <<0, 0>> ELSE <<t.no, Max(said)>>
Backfilled_Always(m, before, t) ==
  IF m.hydrated /\ LastMessage(t) \notin {<<0, 0>>, LastMessage(before)}
  THEN Fed(m, ReadEvent(t, LastMessage(t)[2]))
  ELSE m
Backfilled(m, before, t) ==
  IF /\ m.hydrated /\ LastMessage(t) \notin {<<0, 0>>, LastMessage(before)}
     /\ ~\E e \in m.feed : e.item = LastMessage(t)
  THEN Fed(m, ReadEvent(t, LastMessage(t)[2]))
  ELSE m

\* isSettledDormantSubagentThread.
SettledChild(t) ==
  /\ kin.child /\ Dormant(t) /\ t.turn \notin {"none", "inProgress"}
  /\ \/ t.status = "notLoaded" /\ ~OpenWork(t)
     \/ Summarised(t).state \in {"done", "idle"}

\* refreshThread, from the answer on.  What awaits an answer is fresh enough
\* for isFreshEnoughToPromote.., or a subagent far too old for it.
Judged(m, before, t) ==
  LET was == m.ongoing \/ (before # Unread /\ Ongoing(before))
      awaits == /\ ~SettledChild(t) /\ AwaitsAnswer(t)
                /\ kin.subscribed \/ was \/ Age(t) <= QuietLimit
  IN IF (t.status = "active" /\ ~StaleChild(t)) \/ Ongoing(t) \/ awaits THEN GoesLive(m)
       ELSE IF ~was \/ (t.status = "notLoaded" /\ m.confirm) THEN m
       ELSE IF t.status = "systemError" THEN GoesDown(m)
       ELSE IF FinalAnswer(t) \/ (t.turn = "failed" /\ (StaleChild(t) \/ SettledChild(t))) THEN GoesDown(m)
       ELSE GoesDormant(m)

Reread(m) ==
  LET before == m.known
      read == [m EXCEPT !.known = live]
  IN [Backfilled(Judged(read, before, live), before, live) EXCEPT !.hydrated = TRUE]

-----------------------------------------------------------------------------
(* Codex, and what the monitor is told of it at once.                      *)

Extra == extras < MaxExtras /\ extras' = extras + 1

Heard(comes, told) ==
  \/ comes /\ mon' = told /\ UNCHANGED extras
  \/ ~comes /\ UNCHANGED <<mon, extras>>
  \/ comes /\ Extra /\ UNCHANGED mon

Prompt ==
  /\ prompts < MaxPrompts /\ live.turn # "inProgress"
  /\ prompts' = prompts + 1
  /\ \E status \in {"active", "notLoaded"} :
       live' = [status |-> status, flag |-> "none", no |-> prompts', turn |-> "inProgress",
                items |-> <<[type |-> "userMessage", mark |-> "none"]>>, at |-> viewClock]
  /\ Heard(kin.subscribed /\ mon.known # Unread /\ live'.status = "active",
           WithStatus(GoesLive(WithTurn(mon, prompts', "inProgress")), "active", "none"))
  /\ UNCHANGED <<kin, viewClock, question>>

Busy == live.turn = "inProgress" /\ ~FinalAnswer(live) /\ question = "none"
Added(item) == live' = [live EXCEPT !.items = Append(@, item), !.at = viewClock]
Next_ == Len(live.items) + 1

ItemStarts(type) ==
  /\ Busy /\ Len(live.items) < MaxItems
  /\ \A i \in DOMAIN live.items : live.items[i].mark # "inProgress"
  /\ Added([type |-> type, mark |-> IF type \in HasStatus THEN "inProgress" ELSE "none"])
  /\ Heard(ComesByPath(type),
           Fed(GoesLive(mon), ItemEvent(live.no, Next_, type, "started", "started")))
  /\ UNCHANGED <<kin, viewClock, question, prompts>>

\* An event about a subagent is a sign of life whatever it says.
ItemEnds(mark) ==
  LET i == Len(live.items)
      told == Fed(mon, ItemEvent(live.no, i, live.items[i].type, "completed", mark))
  IN /\ Busy /\ i > 0 /\ live.items[i].mark = "inProgress"
     /\ live' = [live EXCEPT !.items[i].mark = mark, !.at = viewClock]
     /\ Heard(ComesByPath(live.items[i].type),
              IF live.items[i].type = "collabAgentToolCall" THEN GoesLive(told) ELSE told)
     /\ UNCHANGED <<kin, viewClock, question, prompts>>

\* The first words of a message come as a delta.
Says(mark) ==
  LET streamed == Fed(GoesLive(mon), ItemEvent(live.no, Next_, "agentMessage", "delta", "updated"))
      Ended(m) == LET told == Fed(m, ItemEvent(live.no, Next_, "agentMessage", "completed", "completed"))
                  IN IF mark = Final THEN GoesDown(told) ELSE told
  IN /\ Busy /\ Len(live.items) < MaxItems
     /\ \A i \in DOMAIN live.items : live.items[i].mark # "inProgress"
     /\ Added([type |-> "agentMessage", mark |-> mark])
     /\ \/ Heard(Comes, Ended(streamed))
        \/ Comes /\ Extra /\ mon' \in {streamed, Ended(mon)}
     /\ UNCHANGED <<kin, viewClock, question, prompts>>

\* buildNeedsUserStateFromServerRequest: a command, a file change or a wider
\* permission wants approval, a question or an elicitation wants input.
QuestionKinds == {"approval", "input"}

Asks(kind) ==
  /\ Busy
  /\ question' = kind
  /\ live' = [live EXCEPT !.flag = IF @ = "none" /\ live.status = "active" THEN kind ELSE @]
  /\ Extra
  /\ (Watched /\ mon' = GoesLive([mon EXCEPT !.pending = kind])) \/ UNCHANGED mon
  /\ UNCHANGED <<kin, viewClock, prompts>>

\* Answered here, when the monitor knows the request, or elsewhere.
IsAnswered ==
  /\ question # "none"
  /\ question' = "none"
  /\ live' = [live EXCEPT !.flag = "none", !.at = viewClock]
  /\ \/ mon.pending # "none" /\ mon' = GoesLive([mon EXCEPT !.pending = "none"]) /\ UNCHANGED extras
     \/ Heard(Comes, [mon EXCEPT !.pending = "none"])
  /\ UNCHANGED <<kin, viewClock, prompts>>

TurnEnds(turn) ==
  /\ live.turn = "inProgress" /\ (turn = "completed" => FinalAnswer(live))
  /\ question' = "none"
  /\ live' = [live EXCEPT !.turn = turn, !.at = viewClock, !.flag = "none",
                          !.status = IF @ = "active" THEN "idle" ELSE @]
  /\ Heard(Comes, WithStatus(WithTurn([mon EXCEPT !.pending =
                                         IF question # "none" THEN "none" ELSE @],
                                      live.no, turn), "idle", "none"))
  /\ UNCHANGED <<kin, viewClock, prompts>>

Unloads ==
  /\ live.status \in {"idle", "active"}
  /\ live' = [live EXCEPT !.status = "notLoaded", !.flag = "none"]
  /\ Extra
  /\ (Comes /\ mon' = WithStatus(mon, "notLoaded", "none")) \/ UNCHANGED mon
  /\ UNCHANGED <<kin, viewClock, question, prompts>>

IsReread ==
  /\ mon' = Reread(mon)
  /\ mon' # mon
  /\ Extra
  /\ UNCHANGED <<kin, viewClock, live, question, prompts>>

\* confirmDormantNotLoadedThread.
Confirms ==
  LET read == Reread([mon EXCEPT !.confirm = FALSE])
  IN /\ mon.confirm
     /\ mon' = IF mon.known = Unread THEN [mon EXCEPT !.confirm = FALSE]
               ELSE IF Ongoing(live) THEN GoesLive(read)
               ELSE IF live.status # "notLoaded" THEN read ELSE GoesDormant(read)
     /\ UNCHANGED <<kin, viewClock, live, question, prompts, extras>>

\* removeThread; the feed is the project's and stays.
IsRemoved ==
  /\ mon.stopped # 0 /\ viewClock - mon.stopped > DoneGrace
  /\ mon' = [Forgotten EXCEPT !.feed = mon.feed]
  /\ UNCHANGED <<kin, viewClock, live, question, prompts, extras>>

\* Timers are not late.
ViewTime ==
  /\ viewClock < MaxViewClock
  /\ ~mon.confirm
  /\ mon.stopped # 0 => viewClock - mon.stopped <= DoneGrace
  /\ viewClock' = viewClock + 1
  /\ UNCHANGED <<kin, live, question, mon, prompts, extras>>

ViewNext ==
  \/ Prompt
  \/ \E type \in ItemTypes : ItemStarts(type)
  \/ \E mark \in Over : ItemEnds(mark)
  \/ \E mark \in {"commentary", Final} : Says(mark)
  \/ \E kind \in QuestionKinds : Asks(kind)
  \/ IsAnswered
  \/ \E turn \in {"completed", "interrupted", "failed"} : TurnEnds(turn)
  \/ Unloads \/ IsReread \/ Confirms \/ IsRemoved \/ ViewTime

-----------------------------------------------------------------------------
\* The agent of the known thread as it is shown, worked out once.
Seen == CHOOSE shown \in {Shown(a) : a \in {Agent(mon.known)}} : TRUE

UpToDate == mon.known = live

\* A turn that the last reread shows at work has a desk and looks busy, or
\* blocked by an item that failed, unless it has been silent for long.
WorkIsShown ==
  (/\ UpToDate /\ live.turn = "inProgress" /\ ~FinalAnswer(live) /\ question = "none"
   /\ ~kin.child \/ Age(live) <= ChildWindow
   /\ live.status = "active" \/ Age(live) <= QuietLimit) =>
    Seen.current /\ Seen.state \in LiveStates \cup {"blocked", Asking["input"]}

\* A question the monitor knows of is shown as one, whatever else it hears.
QuestionIsShown ==
  (mon.pending # "none" /\ mon.known # Unread) =>
    Seen.current /\ Seen.state = Asking[mon.pending]

\* Nobody works at a desk who has finished: a turn with a final answer is
\* neither shown at work nor kept beyond the windows of its last sign.
FinishedLeaves ==
  (/\ UpToDate /\ live.status # "active" /\ live.turn = "completed"
   /\ FinalAnswer(live) /\ mon.pending = "none" /\ Age(live) > QuietLimit
   /\ viewClock - mon.stopped > DoneGrace) =>
    ~Seen.current /\ Seen.state \in {"done", "idle"}

\* What is stopped is off the floor as soon as its moment of grace is over,
\* and that of a reply that came since.
StoppedLeaves ==
  (mon.stopped # 0 /\ mon.known # Unread /\ ~Ongoing(mon.known) /\ mon.known.status # "active"
   /\ viewClock - mon.stopped > DoneGrace /\ viewClock - Agent(mon.known).at > DoneGrace) =>
    ~Seen.current

\* A reply is backfilled by a reread only when the feed had nothing of it.
RepliesAreToldOnce ==
  \A e \in mon.feed, f \in mon.feed :
    (e.item = f.item /\ e.kind = "message" /\ e.by = "read") => f = e

\* A reply that a reread brings to a thread already read is in the feed.
RepliesAreFed ==
  (/\ mon.hydrated /\ mon'.hydrated /\ LastMessage(mon'.known) # <<0, 0>>
   /\ LastMessage(mon'.known) # LastMessage(mon.known)) =>
    \E e \in mon'.feed : e.item = LastMessage(mon'.known)

CodexIsTold ==
  /\ [](/\ WorkIsShown /\ QuestionIsShown /\ FinishedLeaves /\ StoppedLeaves
        /\ RepliesAreToldOnce)
  /\ [][RepliesAreFed]_viewVars
==============================================================================
