--------------------------- MODULE ThreadLifecycle ---------------------------
(***************************************************************************)
(* How ProjectLiveMonitor (core/src/live-monitor.ts) follows one top-level *)
(* Codex thread: which of notifications, rereads, thread lists and timers  *)
(* keep the thread's desk ("ongoing"), release it ("stopped") or drop it,  *)
(* and what becomes of the approval and input requests it has raised.      *)
(*                                                                         *)
(* Codex itself (codex, open) is external: it runs turns, raises requests, *)
(* and is seen only through notifications, thread/read and thread/list.    *)
(* Notifications and answers share one ordered pipe, so a Codex step stands *)
(* for the moment its notifications are handled; any of them may not come, *)
(* as for a thread that is not subscribed.  A thread is reduced to its     *)
(* status, its last turn and its clock; a request to the turn that raised  *)
(* it.                                                                     *)
(***************************************************************************)
EXTENDS Integers, FiniteSets

CONSTANTS
  MaxTurns,      \* bound: turns Codex runs
  MaxNow,        \* bound: ticks of the clock
  MaxRefreshes,  \* bound: refreshThread() calls in progress
  MaxFailures,   \* bound: thread/read calls that fail
  MaxUnloads,    \* bound: times the observer's app-server unloads the thread
  QuietWindow,   \* QUIET_LIVE_THREAD_WINDOW_MS, in ticks
  FailStatuses,  \* statuses a failing turn leaves: of {"idle", "systemError"}
  SameSecond,    \* a turn may start in the second of the thread's last update
  FreshWindow    \* FRESH_NOT_LOADED_THREAD_UPDATE_WINDOW_MS, in ticks

ASSUME BoundsAssumption ==
  /\ MaxTurns \in Nat /\ MaxNow \in Nat
  /\ MaxRefreshes \in Nat /\ MaxFailures \in Nat /\ MaxUnloads \in Nat
ASSUME WindowAssumption ==
  QuietWindow \in Nat /\ FreshWindow \in Nat /\ FreshWindow <= QuietWindow
ASSUME FailStatusesAssumption == FailStatuses \subseteq {"idle", "systemError"}

VARIABLES
  now,
  codex,      \* the thread as Codex has it
  archived,
  open,       \* turns whose request Codex is waiting on
  m,          \* what the monitor holds of the thread, see Monitor
  readTimer,  \* threadReadTimers has an entry
  refreshes,  \* refreshThread() calls in progress, see Refresh
  failures, unloads

codexVars == <<codex, archived, open, unloads>>
vars == <<now, codex, archived, open, m, readTimer, refreshes, failures, unloads>>

-----------------------------------------------------------------------------
(* Threads.                                                                *)

Statuses == {"active", "idle", "notLoaded", "systemError"}
TurnStates == {"inProgress", "completed", "interrupted", "failed"}

\* What the last turn holds: no agent item yet, non-final work, a final answer.
Phases == {"empty", "working", "final"}

\* turn = 0: no turns; spoke: an earlier turn ended in a final answer.
Threads == [status : Statuses, turn : Nat, state : TurnStates,
            phase : Phases, spoke : BOOLEAN, at : Nat]

None == [status |-> "none"]

\* A thread/list row: status and clock, no turns.
Row(thread) ==
  [thread EXCEPT !.turn = 0, !.state = "completed", !.phase = "empty",
                 !.spoke = FALSE]

PastQuietWindow(thread) ==
  thread.status \in {"idle", "notLoaded"} /\ now - thread.at > QuietWindow

\* threadStillAwaitsFinalAnswer
StillAwaitsFinalAnswer(thread) ==
  /\ thread.status # "systemError"
  /\ ~PastQuietWindow(thread)
  /\ thread.turn > 0
  /\ thread.state # "failed"
  /\ thread.phase # "final"
  /\ thread.state = "inProgress" \/ thread.phase = "working"

\* isOngoingThread
IsOngoing(thread) ==
  IF thread.status = "active"
  THEN ~(thread.turn > 0 /\ thread.phase = "final")
  ELSE /\ ~PastQuietWindow(thread)
       /\ \/ /\ thread.status = "notLoaded" /\ thread.turn = 0
             /\ now - thread.at <= FreshWindow
          \/ thread.turn > 0 /\ thread.state = "inProgress"
          \/ thread.status = "notLoaded" /\ StillAwaitsFinalAnswer(thread)

\* The newest agent message of the whole thread is a final answer.
LatestMessageIsFinal(thread) ==
  \/ thread.turn > 0 /\ thread.phase = "final"
  \/ thread.phase = "empty" /\ thread.spoke

TerminalTurn(thread) ==
  thread.turn > 0 /\ (thread.state = "failed" \/ thread.phase = "final")

-----------------------------------------------------------------------------
(* The monitor's record of the thread, and the operations on it.           *)

\* A pending request with its baseline: the last turn and the clock of the
\* known thread when it arrived.
Pending == [turn : Nat, baseTurn : Nat, baseAt : Nat]

Monitor == [known : Threads \cup {None},
            ongoing : BOOLEAN,      \* ongoingThreadIds
            stopped : BOOLEAN,      \* stoppedAtByThreadId
            removal : BOOLEAN,      \* threadRemovalTimers
            unloadTimer : BOOLEAN,  \* pendingNotLoadedStopTimers
            pending : SUBSET Pending]

Forgotten == [known |-> None, ongoing |-> FALSE, stopped |-> FALSE,
              removal |-> FALSE, unloadTimer |-> FALSE, pending |-> {}]

\* X_Mistake is X as a plausible slip would write it.
MarkLive_Mistake(mon) ==
  [mon EXCEPT !.unloadTimer = FALSE, !.ongoing = TRUE, !.stopped = FALSE]

MarkLive(mon) ==
  [mon EXCEPT !.unloadTimer = FALSE, !.ongoing = TRUE, !.stopped = FALSE,
              !.removal = FALSE]

MarkStopped_Mistake(mon) ==
  IF mon.known = None \/ mon.stopped
  THEN mon
  ELSE [mon EXCEPT !.unloadTimer = FALSE, !.ongoing = FALSE,
                   !.stopped = TRUE, !.removal = TRUE]

MarkStopped(mon) ==
  IF mon.known = None \/ mon.stopped
  THEN mon
  ELSE [mon EXCEPT !.pending = {}, !.unloadTimer = FALSE, !.ongoing = FALSE,
                   !.stopped = TRUE, !.removal = TRUE]

MarkDormant(mon) ==
  IF mon.pending # {} THEN MarkLive(mon) ELSE MarkStopped(mon)

\* pendingRequestOutlivesObservedTerminalState
RequestOutlives(mon, thread) ==
  \E q \in mon.pending :
    /\ q.turn # thread.turn
    /\ q.baseTurn = thread.turn \/ thread.at < q.baseAt

StopForObservedState(mon, thread) ==
  IF \/ thread.status = "systemError"
     \/ TerminalTurn(thread) /\ ~RequestOutlives(mon, thread)
  THEN MarkStopped(mon)
  ELSE MarkDormant(mon)

ScheduleUnloadStop(mon) ==
  IF mon.known = None THEN mon ELSE [mon EXCEPT !.unloadTimer = TRUE]

Later(a, b) == IF a > b THEN a ELSE b

WithKnown(mon, thread) == [mon EXCEPT !.known = thread]

\* upsertThreadTurn: the turn goes last; a known turn keeps its items.
UpsertTurn(thread, turn, state) ==
  IF turn = thread.turn
  THEN [thread EXCEPT !.state = state]
  ELSE [thread EXCEPT !.turn = turn, !.state = state, !.phase = "empty",
                      !.spoke = LatestMessageIsFinal(thread)]

-----------------------------------------------------------------------------
(* A refreshThread() call.  read: thread/read is under way; turns: it has  *)
(* answered status and clock, the turns are being read; goal: the thread   *)
(* is stored and thread/goal/get under way; confirm: over, but             *)
(* confirmDormantNotLoadedThread() still has to look.                      *)

Refresh ==
  [stage : {"read", "turns", "goal", "confirm"},
   current : BOOLEAN,             \* the newest generation of the thread
   confirms : BOOLEAN,            \* called by confirmDormantNotLoadedThread
   fallback : Threads \cup {None}, \* what a failed read leaves: None without a row
   clock : Nat,                   \* updatedAt of the row, else of the known thread
   wasOngoing : BOOLEAN,
   thread : Threads \cup {None}]   \* what has been read so far

Init ==
  /\ now = 0
  /\ codex = [status |-> "idle", turn |-> 0, state |-> "completed",
              phase |-> "empty", spoke |-> FALSE, at |-> 0]
  /\ archived = FALSE
  /\ open = {}
  /\ m = Forgotten
  /\ readTimer = FALSE
  /\ refreshes = {}
  /\ failures = 0 /\ unloads = 0

-----------------------------------------------------------------------------
(* Notifications and requests (handleAppServerNotification,                *)
(* handleAppServerServerRequest).                                          *)

StatusNews == {"active", "idle", "notLoaded", "systemError"}
TurnNews == [started |-> "inProgress", completed |-> "completed",
             interrupted |-> "interrupted"]

\* belongsToProject: a known thread, or a message that names the project's path.
Belongs(mon, msg) ==
  msg.kind # "nothing" /\ (mon.known # None \/ msg.kind \in {"ask", "work"})

WasOngoing(mon) == mon.ongoing \/ (mon.known # None /\ IsOngoing(mon.known))

\* The turn and the status the notification brings, on the known thread.
Noted(thread, msg) ==
  IF thread = None THEN None
  ELSE IF msg.kind \in DOMAIN TurnNews
       THEN UpsertTurn(thread, msg.turn, TurnNews[msg.kind])
  ELSE IF msg.kind \in StatusNews THEN [thread EXCEPT !.status = msg.kind]
  ELSE thread

Judged_Mistake(mon, msg, wasOngoing) ==
  CASE msg.kind \in {"started", "work", "active", "ask"} -> MarkLive(mon)
    [] msg.kind \in {"final", "archived", "failed", "systemError", "notLoaded"} ->
         MarkStopped(mon)
    [] OTHER -> mon

\* What the notification says of the desk.
Judged(mon, msg, wasOngoing) ==
  CASE msg.kind \in {"started", "work", "active", "ask"} -> MarkLive(mon)
    [] msg.kind \in {"final", "archived", "failed", "systemError"} ->
         MarkStopped(mon)
    [] msg.kind = "notLoaded" /\ wasOngoing -> ScheduleUnloadStop(mon)
    [] OTHER -> mon

\* What it says of the pending requests.
Queued(mon, msg) ==
  CASE msg.kind = "resolved" ->
         [mon EXCEPT !.pending = {q \in @ : q.turn # msg.turn}]
    [] msg.kind = "ask" ->
         [mon EXCEPT !.pending = @ \cup
            {IF mon.known = None
             THEN [turn |-> msg.turn, baseTurn |-> 0, baseAt |-> 0]
             ELSE [turn |-> msg.turn, baseTurn |-> mon.known.turn,
                   baseAt |-> mon.known.at]}]
    [] OTHER -> mon

Message(kind, turn) == [kind |-> kind, turn |-> turn]

Handle(mon, msg) ==
  Judged(Queued(WithKnown(mon, Noted(mon.known, msg)), msg), msg, WasOngoing(mon))

-----------------------------------------------------------------------------
(* Codex (external).  It acts while the clock leaves a quiet window: a     *)
(* bound, so that every run can outlast the window.                        *)

Silence == Message("nothing", 0)

\* A message comes, or is lost; one of another project is dropped.
Heard(mon, msg, comes) ==
  IF comes /\ Belongs(mon, msg) THEN Handle(mon, msg) ELSE mon

\* The two notifications of a step come in order, either may not come, and each
\* schedules a reread; the rollout watcher of a known thread may see the write.
Notify(first, second) ==
  /\ ~archived
  /\ now + QuietWindow < MaxNow
  /\ \E one, two, seen \in BOOLEAN :
       /\ m' = Heard(Heard(m, first, one), second, two)
       /\ readTimer' = \/ readTimer
                       \/ seen /\ m.known # None
                       \/ one /\ Belongs(m, first)
                       \/ two /\ Belongs(m, second)
  /\ UNCHANGED <<now, refreshes, failures>>

Running == codex.state = "inProgress" /\ codex.phase # "final"

\* A thread another process runs stays notLoaded for the observer.
StartTurn ==
  /\ codex.state # "inProgress" /\ codex.turn < MaxTurns
  /\ SameSecond \/ codex.at < now
  /\ codex' = [UpsertTurn(codex, codex.turn + 1, "inProgress")
                 EXCEPT !.at = now,
                        !.status = IF @ = "notLoaded" THEN @ ELSE "active"]
  /\ Notify(Message("started", codex.turn + 1), Message("active", 0))
  /\ UNCHANGED <<archived, open, unloads>>

Work ==
  /\ Running /\ open = {}
  /\ codex.phase = "empty" \/ codex.at < now
  /\ codex' = [codex EXCEPT !.phase = "working", !.at = now]
  /\ Notify(Message("work", codex.turn), Silence)
  /\ UNCHANGED <<archived, open, unloads>>

\* The turn's first work needs an approval or an input: one request a turn.
Ask ==
  /\ Running /\ codex.phase = "empty"
  /\ codex' = [codex EXCEPT !.phase = "working", !.at = now]
  /\ open' = open \cup {codex.turn}
  /\ Notify(Message("ask", codex.turn), Silence)
  /\ UNCHANGED <<archived, unloads>>

\* Another client answers.
ResolveElsewhere ==
  /\ open # {}
  /\ open' = {}
  /\ Notify(Message("resolved", codex.turn), Silence)
  /\ UNCHANGED <<codex, archived, unloads>>

FinalAnswer ==
  /\ Running /\ open = {}
  /\ codex' = [codex EXCEPT !.phase = "final", !.at = now]
  /\ Notify(Message("final", codex.turn), Silence)
  /\ UNCHANGED <<archived, open, unloads>>

Settled(thread) == IF thread.status = "active" THEN "idle" ELSE thread.status

CompleteTurn ==
  /\ codex.state = "inProgress" /\ open = {}
  /\ codex' = [codex EXCEPT !.state = "completed", !.at = now,
                            !.status = Settled(codex)]
  /\ Notify(Message("completed", codex.turn), Message("idle", 0))
  /\ UNCHANGED <<archived, open, unloads>>

Interrupt ==
  /\ Running
  /\ codex' = [codex EXCEPT !.state = "interrupted", !.at = now,
                            !.status = Settled(codex)]
  /\ open' = {}
  /\ Notify(Message("resolved", codex.turn), Message("interrupted", codex.turn))
  /\ UNCHANGED <<archived, unloads>>

Fail(status) ==
  /\ Running
  /\ codex' = [codex EXCEPT !.state = "failed", !.at = now, !.status = status]
  /\ open' = {}
  /\ Notify(IF status = "systemError" THEN Message("systemError", 0)
            ELSE Message("failed", codex.turn), Silence)
  /\ UNCHANGED <<archived, unloads>>

Archive ==
  /\ codex.turn > 0 /\ codex.state # "inProgress"
  /\ archived' = TRUE
  /\ Notify(Message("archived", 0), Silence)
  /\ UNCHANGED <<codex, open, unloads>>

\* The observer's app-server drops the thread; it may still be running.
Unload ==
  /\ codex.status # "notLoaded" /\ unloads < MaxUnloads
  /\ unloads' = unloads + 1
  /\ codex' = [codex EXCEPT !.status = "notLoaded"]
  /\ Notify(Message("notLoaded", 0), Silence)
  /\ UNCHANGED <<archived, open>>

Codex ==
  \/ StartTurn \/ Work \/ Ask \/ ResolveElsewhere \/ FinalAnswer
  \/ CompleteTurn \/ Interrupt \/ Archive \/ Unload
  \/ \E status \in FailStatuses : Fail(status)

Tick ==
  /\ now < MaxNow
  /\ now' = now + 1
  /\ UNCHANGED <<codexVars, m, readTimer, refreshes, failures>>

-----------------------------------------------------------------------------
(* Rereads (refreshThread).                                                *)

\* Without a read, the row's status and clock on the turns already known.
Fallback(row) ==
  IF m.known = None THEN row
  ELSE [(IF row.status = "active" THEN Row(m.known) ELSE m.known)
          EXCEPT !.status = row.status, !.at = Later(@, row.at)]

\* row: the one discovery passes, or None.
NewRefresh(confirms, row) ==
  [stage |-> "read", current |-> TRUE, confirms |-> confirms,
   fallback |-> IF row = None THEN None ELSE Fallback(row),
   clock |-> IF row # None THEN row.at
             ELSE IF m.known # None THEN m.known.at ELSE 0,
   wasOngoing |-> WasOngoing(m), thread |-> None]

StartRefresh_Mistake(confirms, row) ==
  /\ Cardinality(refreshes) < MaxRefreshes
  /\ refreshes' = refreshes \cup {NewRefresh(confirms, row)}

\* A new generation supersedes the calls in progress.
StartRefresh(confirms, row) ==
  /\ Cardinality(refreshes) < MaxRefreshes
  /\ refreshes' = {[r EXCEPT !.current = FALSE] : r \in refreshes}
                    \cup {NewRefresh(confirms, row)}

ReadTimerFires ==
  /\ readTimer
  /\ readTimer' = FALSE
  /\ StartRefresh(FALSE, None)
  /\ UNCHANGED <<now, codexVars, m, failures>>

\* The unload debounce ends: confirmDormantNotLoadedThread.
UnloadTimerFires ==
  /\ m.unloadTimer
  /\ m' = [m EXCEPT !.unloadTimer = FALSE]
  /\ IF m.known = None THEN UNCHANGED refreshes ELSE StartRefresh(TRUE, None)
  /\ UNCHANGED <<now, codexVars, readTimer, failures>>

Become(r, new) == refreshes' = (refreshes \ {r}) \cup new

\* External: the app-server answers thread/read, without turns.
ReadAnswers(r) ==
  /\ r.stage = "read"
  /\ Become(r, {[r EXCEPT !.stage = "turns", !.thread = Row(codex)]})
  /\ UNCHANGED <<now, codexVars, m, readTimer, failures>>

\* The row, else the known thread, may be fresher than the read.
Freshest(read, r) ==
  [read EXCEPT !.status = IF r.fallback # None THEN r.fallback.status ELSE @,
               !.at = Later(@, r.clock)]

\* The read is in: a superseded call returns, the newest stores the thread.
Store(r, read) ==
  IF r.current
  THEN LET thread == Freshest(read, r)
       IN /\ m' = WithKnown(m, thread)
          /\ Become(r, {[r EXCEPT !.stage = "goal", !.thread = thread,
                                  !.fallback = None, !.clock = 0]})
  ELSE Become(r, {}) /\ UNCHANGED m

\* The turns and their items are in.
ReadReturns(r) ==
  /\ r.stage = "turns"
  /\ Store(r, [codex EXCEPT !.status = r.thread.status, !.at = r.thread.at])
  /\ UNCHANGED <<now, codexVars, readTimer, failures>>

\* A failed read falls back on the row; with no row the call is "unavailable",
\* and a confirmation waits again inside the quiet window.
ReadFails(r) ==
  /\ r.stage \in {"read", "turns"} /\ failures < MaxFailures
  /\ failures' = failures + 1
  /\ IF r.fallback # None
     THEN Store(r, r.fallback)
     ELSE /\ Become(r, {})
          /\ m' = IF ~r.confirms THEN m
                  ELSE IF m.known # None /\ ~PastQuietWindow(m.known)
                  THEN ScheduleUnloadStop(MarkLive(m))
                  ELSE MarkDormant(m)
  /\ UNCHANGED <<now, codexVars, readTimer>>

\* What refreshThread() concludes from the thread it stored.
Concluded(r) ==
  LET thread == r.thread
      live == \/ thread.status = "active"
              \/ IsOngoing(thread)
              \/ StillAwaitsFinalAnswer(thread)
      waits == thread.status = "notLoaded" /\ m.unloadTimer
  IN IF live THEN MarkLive(m)
     ELSE IF ~r.wasOngoing \/ waits THEN m
     ELSE IF thread.status = "systemError" THEN MarkStopped(m)
     ELSE IF LatestMessageIsFinal(thread) THEN StopForObservedState(m, thread)
     ELSE MarkDormant(m)

\* thread/goal/get returned, or failed: no generation check here.
GoalReturns(r) ==
  /\ r.stage = "goal"
  /\ m' = Concluded(r)
  /\ Become(r, IF r.confirms
               THEN {[r EXCEPT !.stage = "confirm", !.thread = None]}
               ELSE {})
  /\ UNCHANGED <<now, codexVars, readTimer, failures>>

\* confirmDormantNotLoadedThread after a successful reread.
Confirm(r) ==
  /\ r.stage = "confirm"
  /\ m' = IF m.known = None THEN m
          ELSE IF IsOngoing(m.known) THEN MarkLive(m)
          ELSE IF m.known.status = "notLoaded" THEN MarkDormant(m)
          ELSE m
  /\ Become(r, {})
  /\ UNCHANGED <<now, codexVars, readTimer, failures>>

-----------------------------------------------------------------------------
(* Discovery (performThreadDiscovery): one pass at a time, which waits for *)
(* the reread it starts.                                                   *)

\* A row the known thread already agrees with only brings its status.
Merged(row) == [m.known EXCEPT !.status = row.status]

Relisted_Mistake(row) ==
  WithKnown(IF IsOngoing(Merged(row)) THEN MarkLive(m) ELSE m, Merged(row))

Relisted(row) ==
  LET merged == Merged(row)
      preserve == \/ IsOngoing(merged)
                  \/ m.ongoing /\ StillAwaitsFinalAnswer(merged)
  IN WithKnown(IF preserve THEN MarkLive(m)
               ELSE IF m.ongoing THEN StopForObservedState(m, merged)
               ELSE m, merged)

NeedsReread_Mistake(row) == m.known = None

NeedsReread(row) == m.known = None \/ m.known.at # row.at

\* External: thread/list does not list an archived thread.
DiscoverThreads ==
  /\ \A r \in refreshes : r.fallback = None
  /\ LET row == Row(codex)
         awaited == m.ongoing /\ StillAwaitsFinalAnswer(m.known)
     IN IF archived
        THEN /\ m' = IF m.known = None \/ awaited THEN m ELSE MarkDormant(m)
             /\ UNCHANGED refreshes
        ELSE IF NeedsReread(row)
        THEN StartRefresh(FALSE, row) /\ UNCHANGED m
        ELSE m' = Relisted(row) /\ UNCHANGED refreshes
  /\ UNCHANGED <<now, codexVars, readTimer, failures>>

-----------------------------------------------------------------------------
(* Removal, and the user's answers.                                        *)

\* removeThread, once the grace of a stopped thread is over.
RemovalFires ==
  /\ m.removal
  /\ m' = Forgotten
  /\ readTimer' = FALSE
  /\ UNCHANGED <<now, codexVars, refreshes, failures>>

\* respondToApprovalRequest, respondToInputRequest.
Answer(q) ==
  /\ m' = MarkLive([m EXCEPT !.pending = @ \ {q}])
  /\ open' = open \ {q.turn}
  /\ readTimer' = TRUE
  /\ UNCHANGED <<now, codex, archived, unloads, refreshes, failures>>

-----------------------------------------------------------------------------

Observe ==
  \/ ReadTimerFires \/ UnloadTimerFires
  \/ \E r \in refreshes : \/ ReadAnswers(r) \/ ReadReturns(r) \/ ReadFails(r)
                          \/ GoalReturns(r) \/ Confirm(r)
  \/ DiscoverThreads
  \/ RemovalFires

Next == Codex \/ Tick \/ Observe \/ \E q \in m.pending : Answer(q)

\* Timers fire, the app-server answers each call or the call times out, the
\* discovery interval comes round, and the clock runs; Codex, its notifications
\* and the user owe nothing.
Fairness ==
  /\ WF_vars(ReadTimerFires) /\ WF_vars(UnloadTimerFires)
  /\ WF_vars(\E r \in refreshes : ReadAnswers(r))
  /\ WF_vars(\E r \in refreshes : ReadReturns(r))
  /\ WF_vars(\E r \in refreshes : GoalReturns(r))
  /\ WF_vars(\E r \in refreshes : Confirm(r))
  /\ WF_vars(DiscoverThreads)
  /\ WF_vars(RemovalFires) /\ WF_vars(Tick)

Safety == Init /\ [][Next]_vars
Spec == Safety /\ Fairness

-----------------------------------------------------------------------------

TypeOK ==
  /\ now \in 0..MaxNow
  /\ codex \in Threads /\ archived \in BOOLEAN /\ open \in SUBSET Nat
  /\ m \in Monitor
  /\ readTimer \in BOOLEAN
  /\ refreshes \subseteq Refresh
  /\ failures \in 0..MaxFailures /\ unloads \in 0..MaxUnloads

\* One record, whatever the order of events: the removal timer runs exactly
\* while the thread is stopped, and a stopped thread is known, not ongoing, and
\* has no request left (markThreadLive, markThreadStopped and
\* removeThread keep six maps in step).
Consistent ==
  /\ m.stopped = m.removal
  /\ m.stopped => m.known # None /\ ~m.ongoing /\ m.pending = {}

\* The clock of a known thread never goes back, whichever reread, list or failed
\* reread stores it: superseded calls store nothing, the others keep the freshest
\* clock ("instead of letting an older thread/read payload move the workload
\* backwards in time").
ClockNeverGoesBack ==
  [][m.known # None /\ m'.known # None => m'.known.at >= m.known.at]_vars

\* A request waiting for the user holds the desk (markThreadDormant).
PendingHoldsDesk == m.pending # {} => m.ongoing

Dropped(q) == q \in m.pending /\ q \notin m'.pending

\* What the monitor judges by: the thread it knows and those it has reread.
Views == {m.known} \cup {r.thread : r \in {s \in refreshes : s.stage = "goal"}}

\* The monitor looks at a turn that is over, or at none.
Behind(turn) == \E view \in Views : view # None /\ view.turn < turn

\* A request that Codex still waits on stays in the queue, once nothing the
\* monitor judges by is older than the request's turn: no terminal state, quiet
\* window, unload, failed reread or removal of that turn drops it.
OpenRequestKeptOnceSeen ==
  [][\A q \in m.pending : Dropped(q) =>
       q.turn \notin open' \/ Behind(q.turn)]_vars

\* live-monitor.ts:1612 without that condition: "Keep their thread and
\* connection alive until the request is answered or resolved."
OpenRequestKept == [][\A q \in m.pending : Dropped(q) => q.turn \notin open']_vars

\* A reread that comes late, or looks at an older turn, neither drops what came
\* in the meantime nor sets the clock back.
LateRereadsDoNoHarm == OpenRequestKeptOnceSeen /\ ClockNeverGoesBack

\* A thread only heard of, never read, has no desk whatever ongoingThreadIds holds.
OnDesk == m.known # None /\ m.ongoing

Released == m.ongoing /\ m'.stopped

\* A desk is not released under a turn that runs, unless the monitor looks at
\* an older turn or at a thread quiet for the whole window.
ReleaseJustified ==
  [][Released => \/ ~Running' \/ archived'
                 \/ Behind(codex'.turn)
                 \/ \E view \in Views \cup {m'.known} :
                      view # None /\ PastQuietWindow(view)]_vars

\* Once Codex has ended its last turn and no request is left, the desk is
\* released for good: whatever was lost, a list, a reread or the window sees it.
FinishedReleased ==
  <>[](codex.state # "inProgress" /\ ~archived /\ m.pending = {}) => <>[]~OnDesk

\* A turn that keeps running under an active thread ends up on a desk.
RunningGetsDesk == <>[](Running /\ codex.status = "active") => <>[]OnDesk
=============================================================================
