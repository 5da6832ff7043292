------------------------ MODULE ThreadLifecycleProofs ------------------------
(***************************************************************************)
(* For every bound and window, TypeOK, Consistent and PendingHoldsDesk are *)
(* invariants of Safety, and LateRereadsDoNoHarm and ReleaseJustified are  *)
(* what its steps do.                                                      *)
(*                                                                         *)
(* The first argument is local to the record: each operation on it         *)
(* (markThreadLive, markThreadStopped, ...) keeps it Sound, so every       *)
(* handler that is built from them does.  The second is about time:        *)
(* whatever the monitor holds of the thread was true of Codex once, and    *)
(* the newest reread is not behind what is known (InOrder); so a step that *)
(* drops a request or releases a desk looked at an older turn, or Codex    *)
(* has ended the turn.                                                     *)
(***************************************************************************)
EXTENDS ThreadLifecycle, TLAPS

Sound(mon) ==
  /\ mon \in Monitor
  /\ mon.stopped = mon.removal
  /\ mon.stopped => mon.known # None /\ ~mon.ongoing /\ mon.pending = {}
  /\ mon.pending # {} => mon.ongoing

\* What a reread holds at each stage.
ReadsTyped ==
  \A r \in refreshes : r.stage \in {"turns", "goal"} => r.thread # None

Inv == TypeOK /\ ReadsTyped /\ Sound(m)

-----------------------------------------------------------------------------
(* Operations on a thread and on the record.                               *)

\* An unknown thread is told from every known one.
LEMMA NoneIsNoThread == None \notin Threads
  BY DEF None, Threads

\* A turn in one of Codex's states makes a thread again (upsertThreadTurn).
LEMMA UpsertTyped ==
  ASSUME NEW thread \in Threads, NEW turn \in Nat, NEW state \in TurnStates
  PROVE  UpsertTurn(thread, turn, state) \in Threads
  BY DEF UpsertTurn, Threads, Phases, LatestMessageIsFinal

\* A list row is a thread without turns.
LEMMA RowTyped ==
  ASSUME NEW thread \in Threads
  PROVE  Row(thread) \in Threads
  BY DEF Row, Threads, TurnStates, Phases

\* markThreadLive repairs whatever it finds, and touches no request.
LEMMA LiveSound ==
  ASSUME NEW mon \in Monitor
  PROVE  Sound(MarkLive(mon))
  BY DEF Sound, MarkLive, Monitor

\* markThreadStopped, markThreadDormant, stopThreadForObservedState and the
\* not-loaded timer keep the record sound.
LEMMA StoppedSound ==
  ASSUME NEW mon, Sound(mon)
  PROVE  Sound(MarkStopped(mon))
  BY DEF Sound, MarkStopped, Monitor

LEMMA DormantSound ==
  ASSUME NEW mon, Sound(mon)
  PROVE  Sound(MarkDormant(mon))
  BY LiveSound, StoppedSound DEF MarkDormant, Sound

LEMMA StopForObservedSound ==
  ASSUME NEW mon, Sound(mon), NEW thread
  PROVE  Sound(StopForObservedState(mon, thread))
  BY StoppedSound, DormantSound DEF StopForObservedState

LEMMA UnloadStopSound ==
  ASSUME NEW mon, Sound(mon)
  PROVE  Sound(ScheduleUnloadStop(mon))
  BY DEF Sound, ScheduleUnloadStop, Monitor

\* Storing a thread leaves the maps alone.
LEMMA WithKnownSound ==
  ASSUME NEW mon, Sound(mon), NEW thread \in Threads
  PROVE  Sound(WithKnown(mon, thread))
  BY NoneIsNoThread DEF Sound, WithKnown, Monitor

\* removeThread leaves a sound record.
LEMMA ForgottenSound == Sound(Forgotten)
  BY DEF Sound, Forgotten, Monitor

-----------------------------------------------------------------------------
(* Notifications.                                                          *)

IsMessage(msg) == msg.turn \in Nat

\* What Codex sends, and what the monitor makes of it.
LEMMA MessageTyped ==
  ASSUME NEW kind, NEW turn \in Nat
  PROVE  IsMessage(Message(kind, turn))
  BY DEF Message, IsMessage

\* The notification's turn and status leave a thread.
LEMMA NotedSound ==
  ASSUME NEW mon, Sound(mon), NEW msg, IsMessage(msg)
  PROVE  Sound(WithKnown(mon, Noted(mon.known, msg)))
<1>1. CASE mon.known = None
  BY <1>1 DEF Noted, WithKnown, Sound, Monitor
<1>2. CASE mon.known # None
  <2>1. mon.known \in Threads
    BY <1>2 DEF Sound, Monitor
  <2>2. Noted(mon.known, msg) \in Threads
    <3>1. CASE msg.kind \in DOMAIN TurnNews
      <4>1. TurnNews[msg.kind] \in TurnStates
        BY <3>1 DEF TurnNews, TurnStates
      <4> QED
        BY <1>2, <2>1, <3>1, <4>1, UpsertTyped DEF Noted, IsMessage
    <3>2. CASE msg.kind \notin DOMAIN TurnNews /\ msg.kind \in StatusNews
      BY <1>2, <2>1, <3>2 DEF Noted, Threads, StatusNews, Statuses
    <3>3. CASE msg.kind \notin DOMAIN TurnNews /\ msg.kind \notin StatusNews
      BY <1>2, <2>1, <3>3 DEF Noted
    <3> QED
      BY <3>1, <3>2, <3>3
  <2> QED
    BY <2>2, WithKnownSound
<1> QED
  BY <1>1, <1>2

\* A request joins the queue in the same step that makes its thread live; every
\* other notification only takes requests out.
LEMMA HandleSound ==
  ASSUME NEW mon, Sound(mon), NEW msg, IsMessage(msg)
  PROVE  Sound(Handle(mon, msg))
<1> DEFINE noted == WithKnown(mon, Noted(mon.known, msg))
           queued == Queued(noted, msg)
<1>1. Sound(noted)
  BY NotedSound
<1> HIDE DEF noted
<1>2. CASE msg.kind = "ask"
  <2>1. queued = [noted EXCEPT !.pending = @ \cup
            {IF noted.known = None
             THEN [turn |-> msg.turn, baseTurn |-> 0, baseAt |-> 0]
             ELSE [turn |-> msg.turn, baseTurn |-> noted.known.turn,
                   baseAt |-> noted.known.at]}]
    BY <1>2 DEF Queued
  <2>2. IF noted.known = None
        THEN [turn |-> msg.turn, baseTurn |-> 0, baseAt |-> 0] \in Pending
        ELSE [turn |-> msg.turn, baseTurn |-> noted.known.turn,
              baseAt |-> noted.known.at] \in Pending
    BY <1>1 DEF Sound, Monitor, Threads, IsMessage, Pending
  <2>3. queued \in Monitor
    BY <1>1, <2>1, <2>2 DEF Sound, Monitor
  <2>4. Judged(queued, msg, WasOngoing(mon)) = MarkLive(queued)
    BY <1>2 DEF Judged
  <2> QED
    BY <2>3, <2>4, LiveSound DEF Handle, noted
<1>3. CASE msg.kind # "ask"
  <2>1. Sound(queued)
    BY <1>1, <1>3 DEF Queued, Sound, Monitor
  <2> HIDE DEF queued
  <2>2. MarkLive(queued) = Judged(queued, msg, WasOngoing(mon))
        \/ MarkStopped(queued) = Judged(queued, msg, WasOngoing(mon))
        \/ ScheduleUnloadStop(queued) = Judged(queued, msg, WasOngoing(mon))
        \/ queued = Judged(queued, msg, WasOngoing(mon))
    BY DEF Judged
  <2>3. Sound(Judged(queued, msg, WasOngoing(mon)))
    BY <2>1, <2>2, LiveSound, StoppedSound, UnloadStopSound DEF Sound
  <2> QED
    BY <2>3 DEF Handle, queued, noted
<1> QED
  BY <1>2, <1>3

\* A notification that comes, or does not, keeps the record sound; so do two.
LEMMA HeardSound ==
  ASSUME NEW mon, Sound(mon), NEW msg, IsMessage(msg), NEW comes \in BOOLEAN
  PROVE  Sound(Heard(mon, msg, comes))
  BY HandleSound DEF Heard

LEMMA NotifySound ==
  ASSUME Inv, NEW first, IsMessage(first), NEW second, IsMessage(second),
         Notify(first, second)
  PROVE  /\ Sound(m') /\ readTimer' \in BOOLEAN
         /\ now' = now /\ refreshes' = refreshes /\ failures' = failures
<1>1. PICK one \in BOOLEAN, two \in BOOLEAN, seen \in BOOLEAN :
        /\ m' = Heard(Heard(m, first, one), second, two)
        /\ readTimer' = \/ readTimer
                        \/ seen /\ m.known # None
                        \/ one /\ Belongs(m, first)
                        \/ two /\ Belongs(m, second)
  BY DEF Notify
<1>2. Sound(m')
  BY <1>1, HeardSound DEF Inv
<1>3. readTimer' \in BOOLEAN
  BY <1>1 DEF Inv, TypeOK
<1> QED
  BY <1>2, <1>3 DEF Notify

-----------------------------------------------------------------------------
(* Steps.                                                                  *)

\* What a step of Codex leaves, whatever it notifies.
LEMMA CodexStep ==
  ASSUME Inv, Codex
  PROVE  Inv'
<1>1. /\ codex \in Threads /\ codex.turn \in Nat /\ now \in Nat
      /\ codex.status \in Statuses /\ Settled(codex) \in Statuses
  BY BoundsAssumption DEF Inv, TypeOK, Threads, Settled, Statuses
<1>2. ASSUME NEW first, IsMessage(first), NEW second, IsMessage(second),
             Notify(first, second), codex' \in Threads, archived' \in BOOLEAN,
             open' \in SUBSET Nat, unloads' \in 0..MaxUnloads
      PROVE  Inv'
  <2>1. /\ Sound(m') /\ readTimer' \in BOOLEAN
        /\ now' = now /\ refreshes' = refreshes /\ failures' = failures
    BY <1>2, NotifySound
  <2>2. TypeOK'
    BY <1>2, <2>1 DEF Inv, TypeOK, Sound
  <2>3. ReadsTyped'
    BY <2>1 DEF Inv, ReadsTyped
  <2> QED
    BY <2>1, <2>2, <2>3 DEF Inv
<1>3. IsMessage(Silence)
  BY MessageTyped DEF Silence
<1>4. CASE StartTurn
  <2>1. UpsertTurn(codex, codex.turn + 1, "inProgress") \in Threads
    BY <1>1, UpsertTyped DEF TurnStates
  <2>2. codex' \in Threads
    BY <1>1, <1>4, <2>1 DEF StartTurn, Threads, Statuses
  <2>3. IsMessage(Message("started", codex.turn + 1))
        /\ IsMessage(Message("active", 0))
    BY <1>1, MessageTyped
  <2> QED
    BY <1>2, <1>4, <2>2, <2>3 DEF StartTurn, Inv, TypeOK
<1>5. CASE Work
  <2>1. codex' \in Threads
    BY <1>1, <1>5 DEF Work, Threads, Phases
  <2>9. IsMessage(Message("work", codex.turn))
    BY <1>1, MessageTyped
  <2> QED
    BY <1>1, <1>2, <1>3, <1>5, <2>1, <2>9 DEF Work, Inv, TypeOK
<1>6. CASE Ask
  <2>1. codex' \in Threads
    BY <1>1, <1>6 DEF Ask, Threads, Phases
  <2>2. open' \in SUBSET Nat
    BY <1>1, <1>6 DEF Ask, Inv, TypeOK
  <2>9. IsMessage(Message("ask", codex.turn))
    BY <1>1, MessageTyped
  <2> QED
    BY <1>1, <1>2, <1>3, <1>6, <2>1, <2>2, <2>9 DEF Ask, Inv, TypeOK
<1>7. CASE ResolveElsewhere
  <2>1. IsMessage(Message("resolved", codex.turn))
    BY <1>1, MessageTyped
  <2> QED
    BY <1>1, <1>2, <1>3, <1>7, <2>1 DEF ResolveElsewhere, Inv, TypeOK
<1>8. CASE FinalAnswer
  <2>1. codex' \in Threads
    BY <1>1, <1>8 DEF FinalAnswer, Threads, Phases
  <2>9. IsMessage(Message("final", codex.turn))
    BY <1>1, MessageTyped
  <2> QED
    BY <1>1, <1>2, <1>3, <1>8, <2>1, <2>9 DEF FinalAnswer, Inv, TypeOK
<1>9. CASE CompleteTurn
  <2>1. codex' \in Threads
    BY <1>1, <1>9 DEF CompleteTurn, Threads, TurnStates
  <2>2. IsMessage(Message("completed", codex.turn))
        /\ IsMessage(Message("idle", 0))
    BY <1>1, MessageTyped
  <2> QED
    BY <1>2, <1>9, <2>1, <2>2 DEF CompleteTurn, Inv, TypeOK
<1>10. CASE Interrupt
  <2>1. codex' \in Threads
    BY <1>1, <1>10 DEF Interrupt, Threads, TurnStates
  <2>2. IsMessage(Message("resolved", codex.turn))
        /\ IsMessage(Message("interrupted", codex.turn))
    BY <1>1, MessageTyped
  <2> QED
    BY <1>2, <1>10, <2>1, <2>2 DEF Interrupt, Inv, TypeOK
<1>11. CASE Archive
  <2>1. IsMessage(Message("archived", 0))
    BY <1>1, MessageTyped
  <2> QED
    BY <1>1, <1>2, <1>3, <1>11, <2>1 DEF Archive, Inv, TypeOK
<1>12. CASE Unload
  <2>1. codex' \in Threads
    BY <1>1, <1>12 DEF Unload, Threads, Statuses
  <2>2. unloads' \in 0..MaxUnloads
    BY <1>12, BoundsAssumption DEF Unload, Inv, TypeOK
  <2>9. IsMessage(Message("notLoaded", 0))
    BY <1>1, MessageTyped
  <2> QED
    BY <1>2, <1>3, <1>12, <2>1, <2>2, <2>9 DEF Unload, Inv, TypeOK
<1>13. ASSUME NEW status \in FailStatuses, Fail(status)
       PROVE  Inv'
  <2>1. codex' \in Threads
    BY <1>1, <1>13, FailStatusesAssumption DEF Fail, Threads, TurnStates, Statuses
  <2>2. IsMessage(IF status = "systemError" THEN Message("systemError", 0)
                  ELSE Message("failed", codex.turn))
    BY <1>1, MessageTyped
  <2> QED
    BY <1>2, <1>3, <1>13, <2>1, <2>2 DEF Fail, Inv, TypeOK
<1> QED
  BY <1>4, <1>5, <1>6, <1>7, <1>8, <1>9, <1>10, <1>11, <1>12, <1>13 DEF Codex

\* A step of the monitor leaves Codex and the clock alone.
LEMMA MonitorStep ==
  ASSUME Inv, UNCHANGED <<now, codex, archived, unloads>>, open' \in SUBSET Nat,
         Sound(m'), readTimer' \in BOOLEAN, refreshes' \subseteq Refresh,
         ReadsTyped', failures' \in 0..MaxFailures
  PROVE  Inv'
<1>1. TypeOK'
  BY DEF Inv, TypeOK, Sound
<1> QED
  BY <1>1 DEF Inv

\* Clocks and threads of rereads keep their types.
LEMMA LaterTyped ==
  ASSUME NEW a \in Nat, NEW b \in Nat
  PROVE  Later(a, b) \in Nat
  BY DEF Later

LEMMA FallbackTyped ==
  ASSUME Inv, NEW row \in Threads
  PROVE  Fallback(row) \in Threads
<1>1. CASE m.known = None
  BY <1>1 DEF Fallback
<1>2. CASE m.known # None
  <2>1. m.known \in Threads
    BY <1>2 DEF Inv, Sound, Monitor
  <2> DEFINE kept == IF row.status = "active" THEN Row(m.known) ELSE m.known
  <2>2. kept \in Threads
    BY <2>1, RowTyped
  <2> HIDE DEF kept
  <2>3. Later(kept.at, row.at) \in Nat /\ row.status \in Statuses
    BY <2>2, LaterTyped DEF Threads
  <2>4. [kept EXCEPT !.status = row.status, !.at = Later(@, row.at)] \in Threads
    BY <2>2, <2>3 DEF Threads
  <2> QED
    BY <1>2, <2>4 DEF Fallback, kept
<1> QED
  BY <1>1, <1>2

LEMMA FreshestTyped ==
  ASSUME NEW read \in Threads, NEW r \in Refresh
  PROVE  Freshest(read, r) \in Threads
<1>1. Later(read.at, r.clock) \in Nat
  BY LaterTyped DEF Threads, Refresh
<1>2. (IF r.fallback # None THEN r.fallback.status ELSE read.status) \in Statuses
  BY DEF Threads, Refresh
<1> QED
  BY <1>1, <1>2 DEF Freshest, Threads

LEMMA NewRefreshTyped ==
  ASSUME Inv, NEW confirms \in BOOLEAN, NEW row \in Threads \cup {None}
  PROVE  NewRefresh(confirms, row) \in Refresh
<1>1. (IF row = None THEN None ELSE Fallback(row)) \in Threads \cup {None}
  BY FallbackTyped
<1>2. (IF row # None THEN row.at
       ELSE IF m.known # None THEN m.known.at ELSE 0) \in Nat
  BY DEF Inv, Sound, Monitor, Threads
<1>3. WasOngoing(m) \in BOOLEAN
  BY DEF WasOngoing, Inv, Sound, Monitor, IsOngoing
<1> QED
  BY <1>1, <1>2, <1>3 DEF NewRefresh, Refresh

LEMMA StartRefreshTyped ==
  ASSUME Inv, NEW confirms \in BOOLEAN, NEW row \in Threads \cup {None},
         StartRefresh(confirms, row)
  PROVE  refreshes' \subseteq Refresh /\ ReadsTyped'
<1>1. NewRefresh(confirms, row) \in Refresh
  BY NewRefreshTyped
<1>2. NewRefresh(confirms, row).stage = "read"
  BY DEF NewRefresh
<1>3. \A r \in refreshes : [r EXCEPT !.current = FALSE] \in Refresh
  BY DEF Inv, TypeOK, Refresh
<1>4. \A r \in refreshes : LET old == [r EXCEPT !.current = FALSE]
                         IN old.stage = r.stage /\ old.thread = r.thread
  BY DEF Inv, TypeOK, Refresh
<1>5. refreshes' = {[r EXCEPT !.current = FALSE] : r \in refreshes}
                   \cup {NewRefresh(confirms, row)}
  BY DEF StartRefresh
<1>6. refreshes' \subseteq Refresh
  BY <1>1, <1>3, <1>5
<1>7. ASSUME NEW s \in refreshes', s.stage \in {"turns", "goal"}
      PROVE  s.thread # None
  <2>1. CASE s = NewRefresh(confirms, row)
    BY <1>2, <1>7, <2>1
  <2>2. CASE s \in {[r EXCEPT !.current = FALSE] : r \in refreshes}
    <3>1. PICK r \in refreshes : s = [r EXCEPT !.current = FALSE]
      BY <2>2
    <3>2. s.stage = r.stage /\ s.thread = r.thread
      BY <1>4, <3>1
    <3> QED
      BY <1>7, <3>2 DEF Inv, ReadsTyped
  <2> QED
    BY <1>5, <2>1, <2>2
<1> QED
  BY <1>6, <1>7 DEF ReadsTyped

\* A reread moves on without disturbing the others.
LEMMA BecomeTyped ==
  ASSUME Inv, NEW r, NEW new \in SUBSET Refresh, Become(r, new),
         \A s \in new : s.stage \in {"turns", "goal"} => s.thread # None
  PROVE  refreshes' \subseteq Refresh /\ ReadsTyped'
  BY DEF Become, Inv, TypeOK, ReadsTyped

\* Storing a reread thread, deciding about it and merging a row keep the record
\* sound.
LEMMA StoreSound ==
  ASSUME Inv, NEW r \in refreshes, NEW read \in Threads, Store(r, read)
  PROVE  Sound(m') /\ refreshes' \subseteq Refresh /\ ReadsTyped'
<1> DEFINE thread == Freshest(read, r)
           stored == [r EXCEPT !.stage = "goal", !.thread = thread,
                               !.fallback = None, !.clock = 0]
<1>1. r \in Refresh
  BY DEF Inv, TypeOK
<1>2. thread \in Threads
  BY <1>1, FreshestTyped
<1> HIDE DEF thread
<1>3. stored \in Refresh /\ stored.thread # None
  BY <1>1, <1>2, NoneIsNoThread DEF Refresh
<1>4. CASE r.current
  <2>1. m' = WithKnown(m, thread) /\ Become(r, {stored})
    BY <1>4 DEF Store, thread
  <2>2. Sound(m')
    BY <1>2, <2>1, WithKnownSound DEF Inv
  <2> HIDE DEF stored
  <2> QED
    BY <1>3, <2>1, <2>2, BecomeTyped
<1>5. CASE ~r.current
  <2>1. m' = m /\ Become(r, {})
    BY <1>5 DEF Store
  <2> QED
    BY <2>1, BecomeTyped DEF Inv
<1> QED
  BY <1>4, <1>5

LEMMA ConcludedSound ==
  ASSUME Inv, NEW r
  PROVE  Sound(Concluded(r))
<1>1. Sound(m) /\ m \in Monitor
  BY DEF Inv, Sound
<1>2. Sound(MarkLive(m)) /\ Sound(MarkStopped(m)) /\ Sound(MarkDormant(m))
      /\ Sound(StopForObservedState(m, r.thread))
  BY <1>1, LiveSound, StoppedSound, DormantSound, StopForObservedSound
<1> QED
  BY <1>1, <1>2 DEF Concluded

LEMMA RelistedSound ==
  ASSUME Inv, NEW row \in Threads, m.known # None
  PROVE  Sound(Relisted(row))
<1>1. Sound(m) /\ m \in Monitor /\ m.known \in Threads
  BY DEF Inv, Sound, Monitor
<1>2. Merged(row) \in Threads
  BY <1>1 DEF Merged, Threads
<1>3. /\ Sound(MarkLive(m))
      /\ Sound(StopForObservedState(m, Merged(row)))
  BY <1>1, LiveSound, StopForObservedSound
<1>4. /\ Sound(WithKnown(MarkLive(m), Merged(row)))
      /\ Sound(WithKnown(StopForObservedState(m, Merged(row)), Merged(row)))
      /\ Sound(WithKnown(m, Merged(row)))
  BY <1>1, <1>2, <1>3, WithKnownSound
<1> QED
  BY <1>4 DEF Relisted

\* The steps of a reread.
LEMMA ReadStep ==
  ASSUME Inv, NEW r \in refreshes,
         ReadAnswers(r) \/ ReadReturns(r) \/ ReadFails(r)
         \/ GoalReturns(r) \/ Confirm(r)
  PROVE  Inv'
<1>1. /\ r \in Refresh /\ codex \in Threads /\ Sound(m) /\ m \in Monitor
      /\ r.stage \in {"turns", "goal"} => r.thread \in Threads
  BY DEF Inv, TypeOK, ReadsTyped, Refresh, Sound
<1>2. CASE ReadAnswers(r)
  <2> DEFINE answered == [r EXCEPT !.stage = "turns", !.thread = Row(codex)]
  <2>1. Row(codex) \in Threads /\ Row(codex) # None
    BY <1>1, RowTyped, NoneIsNoThread
  <2>2. answered \in Refresh /\ answered.thread # None
    BY <1>1, <2>1 DEF Refresh
  <2>3. Become(r, {answered})
    BY <1>2 DEF ReadAnswers
  <2> HIDE DEF answered
  <2>4. refreshes' \subseteq Refresh /\ ReadsTyped'
    BY <2>2, <2>3, BecomeTyped
  <2>5. Sound(m') /\ open' = open /\ readTimer' = readTimer
    BY <1>1, <1>2 DEF ReadAnswers, codexVars
  <2> QED
    BY <1>2, <2>4, <2>5, MonitorStep DEF ReadAnswers, codexVars, Inv, TypeOK
<1>3. CASE ReadReturns(r)
  <2> DEFINE read == [codex EXCEPT !.status = r.thread.status,
                                   !.at = r.thread.at]
  <2>1. read \in Threads
    BY <1>1, <1>3 DEF ReadReturns, Threads
  <2>2. Store(r, read)
    BY <1>3 DEF ReadReturns
  <2> HIDE DEF read
  <2>3. Sound(m') /\ refreshes' \subseteq Refresh /\ ReadsTyped'
    BY <2>1, <2>2, StoreSound
  <2> QED
    BY <1>3, <2>3, MonitorStep DEF ReadReturns, codexVars, Inv, TypeOK
<1>4. CASE ReadFails(r)
  <2>1. failures' \in 0..MaxFailures
    BY <1>4, BoundsAssumption DEF ReadFails, Inv, TypeOK
  <2>2. CASE r.fallback # None
    <3>1. r.fallback \in Threads /\ Store(r, r.fallback)
      BY <1>1, <1>4, <2>2 DEF ReadFails, Refresh
    <3>2. Sound(m') /\ refreshes' \subseteq Refresh /\ ReadsTyped'
      BY <3>1, StoreSound
    <3> QED
      BY <1>4, <2>1, <3>2, MonitorStep DEF ReadFails, codexVars, Inv, TypeOK
  <2>3. CASE r.fallback = None
    <3>1. Become(r, {})
      BY <1>4, <2>3 DEF ReadFails
    <3>2. refreshes' \subseteq Refresh /\ ReadsTyped'
      BY <3>1, BecomeTyped
    <3>3. Sound(ScheduleUnloadStop(MarkLive(m))) /\ Sound(MarkDormant(m))
      BY <1>1, LiveSound, UnloadStopSound, DormantSound
    <3>4. Sound(m')
      BY <1>1, <1>4, <2>3, <3>3 DEF ReadFails
    <3> QED
      BY <1>4, <2>1, <3>2, <3>4, MonitorStep DEF ReadFails, codexVars, Inv, TypeOK
  <2> QED
    BY <2>2, <2>3
<1>5. CASE GoalReturns(r)
  <2> DEFINE left == IF r.confirms
                     THEN {[r EXCEPT !.stage = "confirm", !.thread = None]}
                     ELSE {}
  <2>1. left \in SUBSET Refresh
        /\ \A s \in left : s.stage \in {"turns", "goal"} => s.thread # None
    BY <1>1 DEF Refresh
  <2>2. Become(r, left)
    BY <1>5 DEF GoalReturns
  <2> HIDE DEF left
  <2>3. refreshes' \subseteq Refresh /\ ReadsTyped'
    BY <2>1, <2>2, BecomeTyped
  <2>4. Sound(m')
    BY <1>5, ConcludedSound DEF GoalReturns
  <2> QED
    BY <1>5, <2>3, <2>4, MonitorStep DEF GoalReturns, codexVars, Inv, TypeOK
<1>6. CASE Confirm(r)
  <2>1. refreshes' \subseteq Refresh /\ ReadsTyped'
    BY <1>6, BecomeTyped DEF Confirm
  <2>2. Sound(MarkLive(m)) /\ Sound(MarkDormant(m))
    BY <1>1, LiveSound, DormantSound
  <2>3. Sound(m')
    BY <1>1, <1>6, <2>2 DEF Confirm
  <2> QED
    BY <1>6, <2>1, <2>3, MonitorStep DEF Confirm, codexVars, Inv, TypeOK
<1> QED
  BY <1>2, <1>3, <1>4, <1>5, <1>6

\* The steps of the timers.
LEMMA TimerStep ==
  ASSUME Inv, ReadTimerFires \/ UnloadTimerFires \/ RemovalFires
  PROVE  Inv'
<1>1. CASE ReadTimerFires
  <2>1. refreshes' \subseteq Refresh /\ ReadsTyped'
    BY <1>1, StartRefreshTyped DEF ReadTimerFires
  <2> QED
    BY <1>1, <2>1, MonitorStep DEF ReadTimerFires, codexVars, Inv, TypeOK
<1>2. CASE UnloadTimerFires
  <2>1. Sound(m')
    BY <1>2 DEF UnloadTimerFires, Inv, Sound, Monitor
  <2>2. refreshes' \subseteq Refresh /\ ReadsTyped'
    <3>1. CASE m.known = None
      BY <1>2, <3>1 DEF UnloadTimerFires, Inv, TypeOK, ReadsTyped
    <3>2. CASE m.known # None
      BY <1>2, <3>2, StartRefreshTyped DEF UnloadTimerFires
    <3> QED
      BY <3>1, <3>2
  <2> QED
    BY <1>2, <2>1, <2>2, MonitorStep DEF UnloadTimerFires, codexVars, Inv, TypeOK
<1>3. CASE RemovalFires
  <2>1. ReadsTyped'
    BY <1>3 DEF RemovalFires, Inv, ReadsTyped
  <2> QED
    BY <1>3, <2>1, ForgottenSound, MonitorStep
    DEF RemovalFires, codexVars, Inv, TypeOK
<1> QED
  BY <1>1, <1>2, <1>3

\* A thread/list row, whichever way it is taken.
LEMMA DiscoverStep ==
  ASSUME Inv, DiscoverThreads
  PROVE  Inv'
<1>1. Row(codex) \in Threads /\ Row(codex) # None
  BY RowTyped, NoneIsNoThread DEF Inv, TypeOK
<1>2. CASE archived
  <2>1. Sound(m') /\ refreshes' = refreshes
    BY <1>2, DormantSound DEF DiscoverThreads, Inv
  <2>2. ReadsTyped'
    BY <2>1 DEF Inv, ReadsTyped
  <2> QED
    BY <2>1, <2>2, MonitorStep DEF DiscoverThreads, codexVars, Inv, TypeOK
<1>3. CASE ~archived /\ NeedsReread(Row(codex))
  <2>1. StartRefresh(FALSE, Row(codex)) /\ m' = m
    BY <1>3 DEF DiscoverThreads
  <2>2. refreshes' \subseteq Refresh /\ ReadsTyped'
    BY <1>1, <2>1, StartRefreshTyped
  <2> QED
    BY <2>1, <2>2, MonitorStep DEF DiscoverThreads, codexVars, Inv, TypeOK
<1>4. CASE ~archived /\ ~NeedsReread(Row(codex))
  <2>1. m' = Relisted(Row(codex)) /\ refreshes' = refreshes /\ m.known # None
    BY <1>4 DEF DiscoverThreads, NeedsReread
  <2>2. Sound(m')
    BY <1>1, <2>1, RelistedSound
  <2>3. ReadsTyped'
    BY <2>1 DEF Inv, ReadsTyped
  <2> QED
    BY <2>1, <2>2, <2>3, MonitorStep DEF DiscoverThreads, codexVars, Inv, TypeOK
<1> QED
  BY <1>2, <1>3, <1>4

\* An answer to a request.
LEMMA AnswerStep ==
  ASSUME Inv, NEW q \in m.pending, Answer(q)
  PROVE  Inv'
<1>1. [m EXCEPT !.pending = @ \ {q}] \in Monitor
  BY DEF Inv, Sound, Monitor
<1>2. Sound(m')
  BY <1>1, LiveSound DEF Answer
<1>3. open' \in SUBSET Nat /\ ReadsTyped'
  BY DEF Answer, Inv, TypeOK, ReadsTyped
<1> QED
  BY <1>2, <1>3, MonitorStep DEF Answer, Inv, TypeOK

\* The monitor begins knowing nothing.
LEMMA InitInv ==
  ASSUME Init
  PROVE  Inv
<1>1. codex \in Threads
  BY DEF Init, Threads, Statuses, TurnStates, Phases
<1>2. Sound(m)
  BY ForgottenSound DEF Init
<1>3. m \in Monitor
  BY <1>2 DEF Sound
<1>4. now \in 0..MaxNow /\ failures \in 0..MaxFailures /\ unloads \in 0..MaxUnloads
  BY BoundsAssumption DEF Init
<1>5. archived \in BOOLEAN /\ readTimer \in BOOLEAN /\ open \in SUBSET Nat
      /\ refreshes \subseteq Refresh
  BY DEF Init
<1>6. TypeOK
  BY <1>1, <1>3, <1>4, <1>5 DEF TypeOK
<1> QED
  BY <1>2, <1>6 DEF Init, Inv, ReadsTyped

\* Every step keeps the invariant.
LEMMA NextInv ==
  ASSUME Inv, [Next]_vars
  PROVE  Inv'
<1>1. CASE Codex
  BY <1>1, CodexStep
<1>2. CASE Tick
  BY <1>2, BoundsAssumption
  DEF Tick, codexVars, Inv, TypeOK, ReadsTyped
<1>3. CASE ReadTimerFires \/ UnloadTimerFires \/ RemovalFires
  BY <1>3, TimerStep
<1>4. CASE DiscoverThreads
  BY <1>4, DiscoverStep
<1>5. ASSUME NEW r \in refreshes,
             ReadAnswers(r) \/ ReadReturns(r) \/ ReadFails(r)
             \/ GoalReturns(r) \/ Confirm(r)
      PROVE  Inv'
  BY <1>5, ReadStep
<1>6. ASSUME NEW q \in m.pending, Answer(q)
      PROVE  Inv'
  BY <1>6, AnswerStep
<1>7. CASE UNCHANGED vars
  BY <1>7 DEF vars, Inv, TypeOK, ReadsTyped
<1> QED
  BY <1>1, <1>2, <1>3, <1>4, <1>5, <1>6, <1>7 DEF Next, Observe

-----------------------------------------------------------------------------

\* Every step of Codex, the monitor and the user keeps the record sound.
THEOREM Invariant == Safety => []Inv
  BY InitInv, NextInv, PTL DEF Safety

\* Codex, the record and the rereads keep their types.
THEOREM TypeCorrect == Safety => []TypeOK
<1>1. Inv => TypeOK
  BY DEF Inv
<1> QED
  BY <1>1, Invariant, PTL

\* The maps of a thread (ongoing, stopped, removal timer, requests) agree.
THEOREM MapsAgree == Safety => []Consistent
<1>1. Inv => Consistent
  BY DEF Inv, Sound, Consistent
<1> QED
  BY <1>1, Invariant, PTL

\* A request waiting for the user always holds its thread's desk.
THEOREM RequestsHoldDesks == Safety => []PendingHoldsDesk
<1>1. Inv => PendingHoldsDesk
  BY DEF Inv, Sound, PendingHoldsDesk
<1> QED
  BY <1>1, Invariant, PTL

-----------------------------------------------------------------------------
(* What is read is never ahead of Codex, and never behind what is known.   *)

\* thread is codex as of now or of an earlier moment.
Sees(c, thread) ==
  /\ thread.at <= c.at /\ thread.turn <= c.turn
  /\ thread.turn = c.turn =>
       /\ c.state = "inProgress" => thread.state = "inProgress"
       /\ thread.phase = "final" => c.phase = "final"

\* A request is one of the turn that runs, which then has no final answer.
CodexInOrder ==
  /\ codex.at <= now
  /\ codex.turn = 0 => codex.state # "inProgress"
  /\ open \subseteq {codex.turn}
  /\ open # {} => codex.state = "inProgress" /\ codex.phase = "working"

\* Whatever the monitor holds of the thread was once true.
ViewsInOrder ==
  /\ m.known # None => Sees(codex, m.known)
  /\ \A r \in refreshes : /\ r.fallback # None => Sees(codex, r.fallback)
                          /\ r.thread # None => Sees(codex, r.thread)
                          /\ r.clock <= codex.at

\* One reread is the newest, and starts from the clock of the known thread.
RereadsInOrder ==
  /\ \A r, s \in refreshes : r.current /\ s.current => r = s
  /\ \A r \in refreshes :
       r.current /\ r.stage \in {"read", "turns"} /\ m.known # None
         => m.known.at <= r.clock

InOrder == CodexInOrder /\ ViewsInOrder /\ RereadsInOrder

-----------------------------------------------------------------------------
(* Threads as they were.                                                   *)

\* What was true of an earlier Codex was true of Codex once.
LEMMA SeesTransitive ==
  ASSUME NEW a \in Threads, NEW b \in Threads, NEW c \in Threads,
         Sees(c, b), Sees(b, a)
  PROVE  Sees(c, a)
<1>1. /\ a.at \in Nat /\ b.at \in Nat /\ c.at \in Nat
      /\ a.turn \in Nat /\ b.turn \in Nat /\ c.turn \in Nat
  BY DEF Threads
<1> QED
  BY <1>1 DEF Sees

\* A list row of a thread that was true is true: it claims no turn.
LEMMA RowSeen ==
  ASSUME NEW c \in Threads, c.turn = 0 => c.state # "inProgress",
         NEW thread \in Threads, Sees(c, thread)
  PROVE  Sees(c, Row(thread)) /\ Row(thread).at = thread.at
         /\ Row(thread).turn = 0 /\ Row(thread).status = thread.status
<1>1. /\ Row(thread).at = thread.at /\ Row(thread).turn = 0
      /\ Row(thread).phase = "empty" /\ Row(thread).status = thread.status
  BY DEF Row, Threads
<1>2. c.turn \in Nat
  BY DEF Threads
<1> QED
  BY <1>1, <1>2 DEF Sees

\* A thread is as true of itself as can be.
LEMMA SeesItself ==
  ASSUME NEW c \in Threads
  PROVE  Sees(c, c)
  BY DEF Sees, Threads

\* The status is nothing Sees looks at, and a clock within Codex's is as good.
LEMMA SeenRestamped ==
  ASSUME NEW c \in Threads, NEW thread \in Threads, Sees(c, thread),
         NEW status, NEW at, at <= c.at
  PROVE  Sees(c, [thread EXCEPT !.status = status, !.at = at])
<1> DEFINE stamped == [thread EXCEPT !.status = status, !.at = at]
<1>1. /\ stamped.at = at /\ stamped.turn = thread.turn
      /\ stamped.state = thread.state /\ stamped.phase = thread.phase
  BY DEF Threads
<1> HIDE DEF stamped
<1>2. Sees(c, stamped)
  BY <1>1 DEF Sees
<1> QED
  BY <1>2 DEF stamped

\* The greater of two clocks is one of them.
LEMMA LaterBounds ==
  ASSUME NEW a \in Nat, NEW b \in Nat
  PROVE  /\ a <= Later(a, b) /\ b <= Later(a, b)
         /\ \A c \in Nat : a <= c /\ b <= c => Later(a, b) <= c
  BY DEF Later

\* What the fallback and a stored reread are made of is true.
LEMMA FallbackSeen ==
  ASSUME Inv, CodexInOrder, m.known # None => Sees(codex, m.known),
         NEW row \in Threads, Sees(codex, row)
  PROVE  Sees(codex, Fallback(row))
<1>1. codex \in Threads
  BY DEF Inv, TypeOK
<1>2. CASE m.known = None
  BY <1>2 DEF Fallback
<1>3. CASE m.known # None
  <2> DEFINE kept == IF row.status = "active" THEN Row(m.known) ELSE m.known
  <2>1. m.known \in Threads
    BY <1>3 DEF Inv, Sound, Monitor
  <2>2. kept \in Threads /\ Sees(codex, kept)
    BY <1>1, <1>3, <2>1, RowTyped, RowSeen DEF CodexInOrder
  <2> HIDE DEF kept
  <2>3. kept.at \in Nat /\ row.at \in Nat /\ codex.at \in Nat
        /\ kept.at <= codex.at /\ row.at <= codex.at
    BY <1>1, <2>2 DEF Threads, Sees
  <2>4. Later(kept.at, row.at) <= codex.at
    BY <2>3, LaterBounds
  <2>5. Sees(codex, [kept EXCEPT !.status = row.status,
                                 !.at = Later(kept.at, row.at)])
    BY <1>1, <2>2, <2>4, SeenRestamped
  <2>6. Fallback(row) = [kept EXCEPT !.status = row.status,
                                     !.at = Later(kept.at, row.at)]
    BY <1>3 DEF Fallback, kept
  <2> QED
    BY <2>5, <2>6
<1> QED
  BY <1>2, <1>3

LEMMA FreshestSeen ==
  ASSUME NEW c \in Threads, NEW read \in Threads, Sees(c, read),
         NEW r \in Refresh, r.clock <= c.at
  PROVE  Sees(c, Freshest(read, r)) /\ r.clock <= Freshest(read, r).at
<1> DEFINE status == IF r.fallback # None THEN r.fallback.status ELSE read.status
           at == Later(read.at, r.clock)
<1>1. read.at \in Nat /\ r.clock \in Nat /\ c.at \in Nat /\ read.at <= c.at
  BY DEF Threads, Refresh, Sees
<1>2. at <= c.at /\ r.clock <= at
  BY <1>1, LaterBounds
<1>3. Freshest(read, r) = [read EXCEPT !.status = status, !.at = at]
  BY DEF Freshest
<1> HIDE DEF status, at
<1>4. Sees(c, [read EXCEPT !.status = status, !.at = at])
  BY <1>2, SeenRestamped
<1>5. [read EXCEPT !.status = status, !.at = at].at = at
  BY DEF Threads
<1> QED
  BY <1>2, <1>3, <1>4, <1>5

-----------------------------------------------------------------------------
(* What the operations on the record leave as it was.                      *)

\* None of them touches the known thread.
LEMMA KnownUntouched ==
  ASSUME NEW mon \in Monitor, NEW thread
  PROVE  /\ MarkLive(mon).known = mon.known
         /\ MarkStopped(mon).known = mon.known
         /\ MarkDormant(mon).known = mon.known
         /\ ScheduleUnloadStop(mon).known = mon.known
         /\ StopForObservedState(mon, thread).known = mon.known
<1>1. /\ MarkLive(mon).known = mon.known
      /\ MarkStopped(mon).known = mon.known
      /\ ScheduleUnloadStop(mon).known = mon.known
  BY DEF MarkLive, MarkStopped, ScheduleUnloadStop, Monitor
<1>2. MarkDormant(mon).known = mon.known
  BY <1>1 DEF MarkDormant
<1> QED
  BY <1>1, <1>2 DEF StopForObservedState

\* Only markThreadStopped drops a request, and a dormant thread that has one
\* is not stopped.
LEMMA RequestsUntouched ==
  ASSUME NEW mon \in Monitor, NEW thread
  PROVE  /\ MarkLive(mon).pending = mon.pending /\ ~MarkLive(mon).stopped
         /\ mon.pending \subseteq MarkDormant(mon).pending
         /\ ScheduleUnloadStop(mon).pending = mon.pending
         /\ ScheduleUnloadStop(mon).stopped = mon.stopped
         /\ thread.status # "systemError" /\ ~TerminalTurn(thread)
              => mon.pending \subseteq StopForObservedState(mon, thread).pending
<1>1. /\ MarkLive(mon).pending = mon.pending /\ ~MarkLive(mon).stopped
      /\ ScheduleUnloadStop(mon).pending = mon.pending
      /\ ScheduleUnloadStop(mon).stopped = mon.stopped
  BY DEF MarkLive, ScheduleUnloadStop, Monitor
<1>2. mon.pending \subseteq MarkDormant(mon).pending
  BY <1>1 DEF MarkDormant
<1> QED
  BY <1>1, <1>2 DEF StopForObservedState

\* Storing a thread changes nothing else.
LEMMA KnownReplaced ==
  ASSUME NEW mon \in Monitor, NEW thread
  PROVE  /\ WithKnown(mon, thread).known = thread
         /\ WithKnown(mon, thread).pending = mon.pending
         /\ WithKnown(mon, thread).stopped = mon.stopped
  BY DEF WithKnown, Monitor

-----------------------------------------------------------------------------
(* Notifications tell the truth of the turn they name.                     *)

\* A turn's notification is one of Codex's last turn, as it is now.
Truthful(c, msg) ==
  msg.kind \in DOMAIN TurnNews =>
    msg.turn = c.turn /\ (c.state = "inProgress" => msg.kind = "started")

\* The kinds that stop a thread.
Ends == {"final", "archived", "failed", "systemError"}

\* A turn that is noted as it is leaves the view true.
LEMMA UpsertSeen ==
  ASSUME NEW c \in Threads, NEW thread \in Threads, Sees(c, thread),
         NEW state \in TurnStates, c.state = "inProgress" => state = "inProgress"
  PROVE  /\ Sees(c, UpsertTurn(thread, c.turn, state))
         /\ UpsertTurn(thread, c.turn, state).at = thread.at
<1> DEFINE noted == UpsertTurn(thread, c.turn, state)
<1>1. CASE c.turn = thread.turn
  <2>1. /\ noted.at = thread.at /\ noted.turn = thread.turn
        /\ noted.state = state /\ noted.phase = thread.phase
    BY <1>1 DEF UpsertTurn, Threads
  <2> HIDE DEF noted
  <2> QED
    BY <1>1, <2>1 DEF Sees, noted
<1>2. CASE c.turn # thread.turn
  <2>1. /\ noted.at = thread.at /\ noted.turn = c.turn
        /\ noted.state = state /\ noted.phase = "empty"
    BY <1>2 DEF UpsertTurn, Threads
  <2>2. c.turn \in Nat
    BY DEF Threads
  <2> HIDE DEF noted
  <2> QED
    BY <2>1, <2>2 DEF Sees, noted
<1> QED
  BY <1>1, <1>2

LEMMA NotedSeen ==
  ASSUME NEW c \in Threads, NEW thread \in Threads, Sees(c, thread),
         NEW msg, Truthful(c, msg)
  PROVE  /\ Sees(c, Noted(thread, msg))
         /\ Noted(thread, msg).at = thread.at
         /\ Noted(thread, msg) # None
<1>1. thread # None /\ thread.at <= c.at
  BY NoneIsNoThread DEF Sees
<1>2. CASE msg.kind \in DOMAIN TurnNews
  <2> DEFINE state == TurnNews[msg.kind]
  <2>1. state \in TurnStates /\ (c.state = "inProgress" => state = "inProgress")
    BY <1>2 DEF TurnNews, TurnStates, Truthful
  <2>2. Noted(thread, msg) = UpsertTurn(thread, c.turn, state)
    BY <1>1, <1>2 DEF Noted, Truthful
  <2> HIDE DEF state
  <2>3. UpsertTurn(thread, c.turn, state) \in Threads
    BY <2>1, UpsertTyped DEF Threads
  <2> QED
    BY <2>1, <2>2, <2>3, UpsertSeen, NoneIsNoThread
<1>3. CASE msg.kind \notin DOMAIN TurnNews /\ msg.kind \in StatusNews
  <2> DEFINE noted == [thread EXCEPT !.status = msg.kind]
  <2>1. /\ noted.at = thread.at /\ noted.turn = thread.turn
        /\ noted.state = thread.state /\ noted.phase = thread.phase
        /\ noted \in Threads
    BY <1>3 DEF Threads, StatusNews, Statuses
  <2>2. Noted(thread, msg) = noted
    BY <1>1, <1>3 DEF Noted
  <2> HIDE DEF noted
  <2>3. Sees(c, noted)
    BY <2>1 DEF Sees
  <2> QED
    BY <2>1, <2>2, <2>3, NoneIsNoThread
<1>4. CASE msg.kind \notin DOMAIN TurnNews /\ msg.kind \notin StatusNews
  BY <1>1, <1>4 DEF Noted
<1> QED
  BY <1>2, <1>3, <1>4

\* A request joins a typed queue; the known thread stays.
LEMMA QueuedTyped ==
  ASSUME NEW mon, Sound(mon), NEW msg, IsMessage(msg)
  PROVE  /\ Queued(mon, msg) \in Monitor
         /\ Queued(mon, msg).known = mon.known
         /\ Queued(mon, msg).stopped = mon.stopped
         /\ msg.kind # "resolved" => mon.pending \subseteq Queued(mon, msg).pending
<1>1. CASE msg.kind = "ask"
  <2> DEFINE request == IF mon.known = None
                        THEN [turn |-> msg.turn, baseTurn |-> 0, baseAt |-> 0]
                        ELSE [turn |-> msg.turn, baseTurn |-> mon.known.turn,
                              baseAt |-> mon.known.at]
  <2>1. request \in Pending
    BY DEF Sound, Monitor, Threads, IsMessage, Pending
  <2>2. Queued(mon, msg) = [mon EXCEPT !.pending = @ \cup {request}]
    BY <1>1 DEF Queued
  <2> HIDE DEF request
  <2> QED
    BY <1>1, <2>1, <2>2 DEF Sound, Monitor
<1>2. CASE msg.kind # "ask"
  BY <1>2 DEF Queued, Sound, Monitor
<1> QED
  BY <1>1, <1>2

\* What one notification does to the known thread, the queue and the desk.
LEMMA HandleEffect ==
  ASSUME NEW mon, Sound(mon), NEW msg, IsMessage(msg)
  PROVE  /\ Handle(mon, msg).known = Noted(mon.known, msg)
         /\ msg.kind \notin Ends \cup {"resolved"}
              => mon.pending \subseteq Handle(mon, msg).pending
         /\ msg.kind \notin Ends /\ ~mon.stopped => ~Handle(mon, msg).stopped
<1> DEFINE noted == WithKnown(mon, Noted(mon.known, msg))
           queued == Queued(noted, msg)
           judged == Judged(queued, msg, WasOngoing(mon))
<1>1. Sound(noted)
  BY NotedSound
<1>2. /\ noted.known = Noted(mon.known, msg)
      /\ noted.pending = mon.pending /\ noted.stopped = mon.stopped
  BY KnownReplaced DEF Sound
<1> HIDE DEF noted
<1>3. /\ queued \in Monitor /\ queued.known = noted.known
      /\ queued.stopped = noted.stopped
      /\ msg.kind # "resolved" => noted.pending \subseteq queued.pending
  BY <1>1, QueuedTyped
<1> HIDE DEF queued
<1>4. \/ judged = MarkLive(queued) \/ judged = ScheduleUnloadStop(queued)
      \/ judged = queued
      \/ msg.kind \in Ends /\ judged = MarkStopped(queued)
  BY DEF Judged, Ends
<1>5. Handle(mon, msg) = judged
  BY DEF Handle, noted, queued
<1> HIDE DEF judged
<1>6. judged.known = queued.known
  BY <1>3, <1>4, KnownUntouched
<1>7. msg.kind \notin Ends => /\ judged.pending = queued.pending
                              /\ judged.stopped => queued.stopped
  BY <1>3, <1>4, RequestsUntouched
<1> QED
  BY <1>2, <1>3, <1>5, <1>6, <1>7

\* The same for one that comes or is lost.
LEMMA HeardEffect ==
  ASSUME NEW c \in Threads, NEW mon, Sound(mon),
         mon.known # None => Sees(c, mon.known),
         NEW msg, IsMessage(msg), Truthful(c, msg), NEW comes \in BOOLEAN
  PROVE  /\ Heard(mon, msg, comes).known # None
              => Sees(c, Heard(mon, msg, comes).known)
         /\ (Heard(mon, msg, comes).known = None) <=> (mon.known = None)
         /\ mon.known # None => Heard(mon, msg, comes).known.at = mon.known.at
         /\ msg.kind \notin Ends \cup {"resolved"}
              => mon.pending \subseteq Heard(mon, msg, comes).pending
         /\ msg.kind \notin Ends /\ ~mon.stopped => ~Heard(mon, msg, comes).stopped
<1>1. CASE comes /\ Belongs(mon, msg)
  <2>1. Heard(mon, msg, comes) = Handle(mon, msg)
    BY <1>1 DEF Heard
  <2>2. CASE mon.known = None
    <3>1. Handle(mon, msg).known = None
      BY <2>2, HandleEffect DEF Noted
    <3> QED
      BY <2>1, <2>2, <3>1, HandleEffect
  <2>3. CASE mon.known # None
    <3>1. mon.known \in Threads
      BY <2>3 DEF Sound, Monitor
    <3>2. /\ Sees(c, Handle(mon, msg).known)
          /\ Handle(mon, msg).known.at = mon.known.at
          /\ Handle(mon, msg).known # None
      BY <2>3, <3>1, NotedSeen, HandleEffect
    <3> QED
      BY <2>1, <2>3, <3>2, HandleEffect
  <2> QED
    BY <2>2, <2>3
<1>2. CASE ~(comes /\ Belongs(mon, msg))
  BY <1>2 DEF Heard
<1> QED
  BY <1>1, <1>2

-----------------------------------------------------------------------------
(* Steps that keep the order do no harm.                                   *)

\* The three action properties, as what one step must be.
KeepsOpenRequests ==
  \A q \in m.pending : Dropped(q) => q.turn \notin open' \/ Behind(q.turn)

ClockStays == m.known # None /\ m'.known # None => m'.known.at >= m.known.at

ReleasesRightly ==
  Released => \/ ~Running' \/ archived'
              \/ Behind(codex'.turn)
              \/ \E view \in Views \cup {m'.known} :
                   view # None /\ PastQuietWindow(view)

DoesNoHarm == KeepsOpenRequests /\ ClockStays /\ ReleasesRightly

\* A step that drops no request and stops no thread, and keeps the clock.
LEMMA QuietStep ==
  ASSUME Inv, m.pending \subseteq m'.pending, m'.stopped => m.stopped, ClockStays
  PROVE  DoesNoHarm
  BY DEF DoesNoHarm, KeepsOpenRequests, ReleasesRightly, Dropped, Released,
         Inv, Sound

\* Whoever looks at the turn that runs sees that it runs, unless the window hides it.
LEMMA RunningIsSeen ==
  ASSUME Inv, CodexInOrder, NEW thread \in Threads, Sees(codex, thread),
         ~(thread.turn < codex.turn), Running
  PROVE  /\ ~TerminalTurn(thread)
         /\ IsOngoing(thread) \/ PastQuietWindow(thread)
<1>1. /\ codex.turn \in Nat /\ thread.turn \in Nat
      /\ thread.phase # "final" => ~(thread.turn > 0 /\ thread.phase = "final")
  BY DEF Inv, TypeOK, Threads
<1>2. thread.turn = codex.turn /\ thread.turn > 0
  BY <1>1 DEF Sees, Running, CodexInOrder
<1>3. thread.state = "inProgress" /\ thread.phase # "final"
  BY <1>2 DEF Sees, Running
<1> QED
  BY <1>2, <1>3 DEF TerminalTurn, IsOngoing

\* An open request is one of the turn that runs.
LEMMA OpenMeansRunning ==
  ASSUME CodexInOrder, NEW turn \in open
  PROVE  turn = codex.turn /\ Running
  BY DEF CodexInOrder, Running

-----------------------------------------------------------------------------
(* Codex moves on.                                                         *)

\* Notifications that tell the truth of where Codex is.
LEMMA NotifyHarmless ==
  ASSUME Inv, InOrder, NEW first, IsMessage(first), NEW second, IsMessage(second),
         Notify(first, second), codex' \in Threads, Sees(codex', codex),
         Truthful(codex', first), Truthful(codex', second),
         {first.kind, second.kind} \cap (Ends \cup {"resolved"}) # {} => open' = {},
         {first.kind, second.kind} \cap Ends # {} => ~Running' \/ archived'
  PROVE  ViewsInOrder' /\ RereadsInOrder' /\ DoesNoHarm
<1>1. PICK one \in BOOLEAN, two \in BOOLEAN :
        m' = Heard(Heard(m, first, one), second, two)
  BY DEF Notify
<1> DEFINE half == Heard(m, first, one)
<1>2. /\ Sound(m) /\ codex \in Threads /\ refreshes \subseteq Refresh
      /\ m.known # None => m.known \in Threads
  BY DEF Inv, TypeOK, Sound, Monitor
<1>3. m.known # None => Sees(codex', m.known)
  BY <1>2, SeesTransitive DEF InOrder, ViewsInOrder
<1>4. Sound(half)
  BY <1>2, HeardSound
<1>5. /\ half.known # None => Sees(codex', half.known)
      /\ (half.known = None) <=> (m.known = None)
      /\ m.known # None => half.known.at = m.known.at
      /\ first.kind \notin Ends \cup {"resolved"} => m.pending \subseteq half.pending
      /\ first.kind \notin Ends /\ ~m.stopped => ~half.stopped
  BY <1>2, <1>3, HeardEffect
<1> HIDE DEF half
<1>6. /\ m'.known # None => Sees(codex', m'.known)
      /\ (m'.known = None) <=> (half.known = None)
      /\ half.known # None => m'.known.at = half.known.at
      /\ second.kind \notin Ends \cup {"resolved"} => half.pending \subseteq m'.pending
      /\ second.kind \notin Ends /\ ~half.stopped => ~m'.stopped
  BY <1>1, <1>4, <1>5, HeardEffect DEF half
<1>7. refreshes' = refreshes /\ codex.at <= codex'.at
  BY DEF Notify, Sees
<1>8. ViewsInOrder'
  <2>1. ASSUME NEW r \in refreshes
        PROVE  /\ r.fallback # None => Sees(codex', r.fallback)
               /\ r.thread # None => Sees(codex', r.thread)
               /\ r.clock <= codex'.at
    <3>1. /\ r.fallback # None => r.fallback \in Threads
          /\ r.thread # None => r.thread \in Threads
          /\ r.clock \in Nat /\ codex.at \in Nat /\ codex'.at \in Nat
      BY <1>2 DEF Refresh, Threads
    <3> QED
      BY <1>2, <1>7, <3>1, SeesTransitive DEF InOrder, ViewsInOrder
  <2> QED
    BY <1>6, <1>7, <2>1 DEF ViewsInOrder
<1>9. RereadsInOrder'
  BY <1>5, <1>6, <1>7 DEF InOrder, RereadsInOrder
<1>10. ClockStays
  <2>1. m.known # None => m.known.at \in Nat
    BY <1>2 DEF Threads
  <2> QED
    BY <1>5, <1>6, <2>1 DEF ClockStays
<1>11. KeepsOpenRequests
  BY <1>5, <1>6 DEF KeepsOpenRequests, Dropped
<1>12. ReleasesRightly
  BY <1>2, <1>5, <1>6 DEF ReleasesRightly, Released, Sound
<1> QED
  BY <1>8, <1>9, <1>10, <1>11, <1>12 DEF DoesNoHarm

\* The messages of Codex, by their fields.
LEMMA MessageFields ==
  ASSUME NEW kind, NEW turn
  PROVE  Message(kind, turn).kind = kind /\ Message(kind, turn).turn = turn
  BY DEF Message

\* Whatever Codex does, its clock and its turns go on, and what it notifies is so.
LEMMA CodexHarmless ==
  ASSUME Inv, Inv', InOrder, Codex
  PROVE  InOrder' /\ DoesNoHarm
<1>1. /\ codex \in Threads /\ codex' \in Threads /\ now \in Nat /\ CodexInOrder
      /\ codex.turn \in Nat /\ codex.at \in Nat /\ codex.at <= now
      /\ open \in SUBSET Nat
  BY BoundsAssumption DEF Inv, TypeOK, InOrder, CodexInOrder, Threads
<1>2. now' = now
  BY DEF Codex, StartTurn, Work, Ask, ResolveElsewhere, FinalAnswer,
         CompleteTurn, Interrupt, Archive, Unload, Fail, Notify
<1>3. ASSUME NEW first, NEW second, IsMessage(first), IsMessage(second),
             Notify(first, second),
             Sees(codex', codex), Truthful(codex', first), Truthful(codex', second),
             {first.kind, second.kind} \cap (Ends \cup {"resolved"}) # {}
               => open' = {},
             {first.kind, second.kind} \cap Ends # {} => ~Running' \/ archived',
             CodexInOrder'
      PROVE  InOrder' /\ DoesNoHarm
  BY <1>1, <1>3, NotifyHarmless DEF InOrder
<1>4. /\ IsMessage(Silence) /\ Silence.kind = "nothing"
      /\ \A c \in Threads : Truthful(c, Silence)
  BY MessageTyped, MessageFields DEF Silence, Truthful, TurnNews
<1>5. CASE StartTurn
  <2> DEFINE first == Message("started", codex.turn + 1)
             second == Message("active", 0)
  <2>1. /\ codex'.turn = codex.turn + 1 /\ codex'.state = "inProgress"
        /\ codex'.at = now /\ codex'.phase = "empty"
    BY <1>1, <1>5 DEF StartTurn, UpsertTurn, Threads
  <2>2. open = {} /\ open' = open
    BY <1>1, <1>5 DEF StartTurn, CodexInOrder
  <2>3. Sees(codex', codex) /\ CodexInOrder'
    BY <1>1, <1>2, <2>1, <2>2 DEF Sees, CodexInOrder
  <2>4. /\ first.kind = "started" /\ first.turn = codex.turn + 1
        /\ second.kind = "active"
    BY MessageFields
  <2>5. IsMessage(first) /\ IsMessage(second) /\ Notify(first, second)
    BY <1>1, <1>5, MessageTyped DEF StartTurn
  <2> HIDE DEF first, second
  <2>6. Truthful(codex', first) /\ Truthful(codex', second)
    BY <2>1, <2>4 DEF Truthful, TurnNews
  <2>7. {first.kind, second.kind} \cap (Ends \cup {"resolved"}) = {}
    BY <2>4 DEF Ends
  <2> QED
    BY <1>3, <2>3, <2>5, <2>6, <2>7
<1>6. CASE Work
  <2> DEFINE first == Message("work", codex.turn)
  <2>1. /\ codex'.turn = codex.turn /\ codex'.state = codex.state
        /\ codex'.at = now /\ codex'.phase = "working"
    BY <1>1, <1>6 DEF Work, Threads
  <2>2. open' = open /\ open = {} /\ codex.phase # "final"
    BY <1>6 DEF Work, Running
  <2>3. Sees(codex', codex) /\ CodexInOrder'
    BY <1>1, <1>2, <2>1, <2>2 DEF Sees, CodexInOrder
  <2>4. first.kind = "work"
    BY MessageFields
  <2>5. IsMessage(first) /\ Notify(first, Silence)
    BY <1>1, <1>6, MessageTyped DEF Work
  <2> HIDE DEF first
  <2>6. Truthful(codex', first)
    BY <2>4 DEF Truthful, TurnNews
  <2>7. {first.kind, Silence.kind} \cap (Ends \cup {"resolved"}) = {}
    BY <1>4, <2>4 DEF Ends
  <2> QED
    BY <1>1, <1>3, <1>4, <2>3, <2>5, <2>6, <2>7
<1>7. CASE Ask
  <2> DEFINE first == Message("ask", codex.turn)
  <2>1. /\ codex'.turn = codex.turn /\ codex'.state = codex.state
        /\ codex'.at = now /\ codex'.phase = "working"
    BY <1>1, <1>7 DEF Ask, Threads
  <2>2. /\ open' = open \cup {codex.turn} /\ codex.state = "inProgress"
        /\ codex.phase # "final"
    BY <1>7 DEF Ask, Running
  <2>3. Sees(codex', codex) /\ CodexInOrder'
    BY <1>1, <1>2, <2>1, <2>2 DEF Sees, CodexInOrder
  <2>4. first.kind = "ask"
    BY MessageFields
  <2>5. IsMessage(first) /\ Notify(first, Silence)
    BY <1>1, <1>7, MessageTyped DEF Ask
  <2> HIDE DEF first
  <2>6. Truthful(codex', first)
    BY <2>4 DEF Truthful, TurnNews
  <2>7. {first.kind, Silence.kind} \cap (Ends \cup {"resolved"}) = {}
    BY <1>4, <2>4 DEF Ends
  <2> QED
    BY <1>1, <1>3, <1>4, <2>3, <2>5, <2>6, <2>7
<1>8. CASE ResolveElsewhere
  <2> DEFINE first == Message("resolved", codex.turn)
  <2>1. codex' = codex /\ open' = {}
    BY <1>8 DEF ResolveElsewhere
  <2>2. Sees(codex', codex) /\ CodexInOrder'
    BY <1>1, <1>2, <2>1, SeesItself DEF CodexInOrder
  <2>3. first.kind = "resolved"
    BY MessageFields
  <2>4. IsMessage(first) /\ Notify(first, Silence)
    BY <1>1, <1>8, MessageTyped DEF ResolveElsewhere
  <2> HIDE DEF first
  <2>5. Truthful(codex', first)
    BY <2>3 DEF Truthful, TurnNews
  <2>6. {first.kind, Silence.kind} \cap Ends = {}
    BY <1>4, <2>3 DEF Ends
  <2> QED
    BY <1>1, <1>3, <1>4, <2>1, <2>2, <2>4, <2>5, <2>6
<1>9. CASE FinalAnswer
  <2> DEFINE first == Message("final", codex.turn)
  <2>1. /\ codex'.turn = codex.turn /\ codex'.state = codex.state
        /\ codex'.at = now /\ codex'.phase = "final"
    BY <1>1, <1>9 DEF FinalAnswer, Threads
  <2>2. open' = {}
    BY <1>9 DEF FinalAnswer
  <2>3. Sees(codex', codex) /\ CodexInOrder' /\ ~Running'
    BY <1>1, <1>2, <2>1, <2>2 DEF Sees, CodexInOrder, Running
  <2>4. first.kind = "final"
    BY MessageFields
  <2>5. IsMessage(first) /\ Notify(first, Silence)
    BY <1>1, <1>9, MessageTyped DEF FinalAnswer
  <2> HIDE DEF first
  <2>6. Truthful(codex', first)
    BY <2>4 DEF Truthful, TurnNews
  <2> QED
    BY <1>1, <1>3, <1>4, <2>2, <2>3, <2>5, <2>6
<1>10. CASE CompleteTurn
  <2> DEFINE first == Message("completed", codex.turn)
             second == Message("idle", 0)
  <2>1. /\ codex'.turn = codex.turn /\ codex'.state = "completed"
        /\ codex'.at = now /\ codex'.phase = codex.phase
    BY <1>1, <1>10 DEF CompleteTurn, Threads
  <2>2. open' = {}
    BY <1>10 DEF CompleteTurn
  <2>3. Sees(codex', codex) /\ CodexInOrder'
    BY <1>1, <1>2, <2>1, <2>2 DEF Sees, CodexInOrder
  <2>4. /\ first.kind = "completed" /\ first.turn = codex.turn
        /\ second.kind = "idle"
    BY MessageFields
  <2>5. IsMessage(first) /\ IsMessage(second) /\ Notify(first, second)
    BY <1>1, <1>10, MessageTyped DEF CompleteTurn
  <2> HIDE DEF first, second
  <2>6. Truthful(codex', first) /\ Truthful(codex', second)
    BY <2>1, <2>4 DEF Truthful, TurnNews
  <2>7. {first.kind, second.kind} \cap (Ends \cup {"resolved"}) = {}
    BY <2>4 DEF Ends
  <2> QED
    BY <1>3, <2>3, <2>5, <2>6, <2>7
<1>11. CASE Interrupt
  <2> DEFINE first == Message("resolved", codex.turn)
             second == Message("interrupted", codex.turn)
  <2>1. /\ codex'.turn = codex.turn /\ codex'.state = "interrupted"
        /\ codex'.at = now /\ codex'.phase = codex.phase
    BY <1>1, <1>11 DEF Interrupt, Threads
  <2>2. open' = {}
    BY <1>11 DEF Interrupt
  <2>3. Sees(codex', codex) /\ CodexInOrder'
    BY <1>1, <1>2, <2>1, <2>2 DEF Sees, CodexInOrder
  <2>4. /\ first.kind = "resolved"
        /\ second.kind = "interrupted" /\ second.turn = codex.turn
    BY MessageFields
  <2>5. IsMessage(first) /\ IsMessage(second) /\ Notify(first, second)
    BY <1>1, <1>11, MessageTyped DEF Interrupt
  <2> HIDE DEF first, second
  <2>6. Truthful(codex', first) /\ Truthful(codex', second)
    BY <2>1, <2>4 DEF Truthful, TurnNews
  <2>7. {first.kind, second.kind} \cap Ends = {}
    BY <2>4 DEF Ends
  <2> QED
    BY <1>3, <2>2, <2>3, <2>5, <2>6, <2>7
<1>12. CASE Archive
  <2> DEFINE first == Message("archived", 0)
  <2>1. codex' = codex /\ open' = open /\ archived' = TRUE
        /\ codex.state # "inProgress"
    BY <1>12 DEF Archive
  <2>2. open = {}
    BY <1>1, <2>1 DEF CodexInOrder
  <2>3. Sees(codex', codex) /\ CodexInOrder'
    BY <1>1, <1>2, <2>1, SeesItself DEF CodexInOrder
  <2>4. first.kind = "archived"
    BY MessageFields
  <2>5. IsMessage(first) /\ Notify(first, Silence)
    BY <1>1, <1>12, MessageTyped DEF Archive
  <2> HIDE DEF first
  <2>6. Truthful(codex', first)
    BY <2>4 DEF Truthful, TurnNews
  <2> QED
    BY <1>1, <1>3, <1>4, <2>1, <2>2, <2>3, <2>5, <2>6
<1>13. CASE Unload
  <2> DEFINE first == Message("notLoaded", 0)
  <2>1. /\ codex'.turn = codex.turn /\ codex'.state = codex.state
        /\ codex'.at = codex.at /\ codex'.phase = codex.phase /\ open' = open
    BY <1>1, <1>13 DEF Unload, Threads
  <2>2. Sees(codex', codex) /\ CodexInOrder'
    BY <1>1, <1>2, <2>1 DEF Sees, CodexInOrder
  <2>3. first.kind = "notLoaded"
    BY MessageFields
  <2>4. IsMessage(first) /\ Notify(first, Silence)
    BY <1>1, <1>13, MessageTyped DEF Unload
  <2> HIDE DEF first
  <2>5. Truthful(codex', first)
    BY <2>3 DEF Truthful, TurnNews
  <2>6. {first.kind, Silence.kind} \cap (Ends \cup {"resolved"}) = {}
    BY <1>4, <2>3 DEF Ends
  <2> QED
    BY <1>1, <1>3, <1>4, <2>2, <2>4, <2>5, <2>6
<1>14. ASSUME NEW status \in FailStatuses, Fail(status)
       PROVE  InOrder' /\ DoesNoHarm
  <2> DEFINE first == IF status = "systemError" THEN Message("systemError", 0)
                      ELSE Message("failed", codex.turn)
  <2>1. /\ codex'.turn = codex.turn /\ codex'.state = "failed"
        /\ codex'.at = now /\ codex'.phase = codex.phase /\ open' = {}
    BY <1>1, <1>14 DEF Fail, Threads
  <2>2. Sees(codex', codex) /\ CodexInOrder' /\ ~Running'
    BY <1>1, <1>2, <2>1 DEF Sees, CodexInOrder, Running
  <2>3. first.kind = "systemError" \/ first.kind = "failed"
    BY MessageFields
  <2>4. IsMessage(first) /\ Notify(first, Silence)
    BY <1>1, <1>14, MessageTyped DEF Fail
  <2> HIDE DEF first
  <2>5. Truthful(codex', first)
    BY <2>3 DEF Truthful, TurnNews
  <2> QED
    BY <1>1, <1>3, <1>4, <2>1, <2>2, <2>4, <2>5
<1> QED
  BY <1>5, <1>6, <1>7, <1>8, <1>9, <1>10, <1>11, <1>12, <1>13, <1>14 DEF Codex

-----------------------------------------------------------------------------
(* The monitor's own steps.                                                *)

\* Codex stands still while the monitor takes a step.
Still == UNCHANGED <<now, codex, archived>> /\ open' \subseteq open

LEMMA StillInOrder ==
  ASSUME CodexInOrder, Still
  PROVE  CodexInOrder'
  BY DEF CodexInOrder, Still

\* A new reread starts from the row, or else from the known thread.
LEMMA StartInOrder ==
  ASSUME Inv, InOrder, Still, m'.known = m.known, NEW confirms \in BOOLEAN,
         NEW row, row = None \/ row = Row(codex), StartRefresh(confirms, row)
  PROVE  InOrder'
<1> DEFINE new == NewRefresh(confirms, row)
<1>1. /\ codex \in Threads /\ refreshes \subseteq Refresh /\ CodexInOrder
      /\ m.known # None => m.known \in Threads /\ Sees(codex, m.known)
      /\ codex' = codex
  BY DEF Inv, TypeOK, Sound, Monitor, InOrder, ViewsInOrder, Still
<1>2. /\ Row(codex) \in Threads /\ Row(codex) # None
      /\ Sees(codex, Row(codex)) /\ Row(codex).at = codex.at
  BY <1>1, RowTyped, RowSeen, SeesItself, NoneIsNoThread DEF CodexInOrder
<1>3. /\ codex.at \in Nat
      /\ m.known # None => m.known.at \in Nat /\ m.known.at <= codex.at
  BY <1>1 DEF Threads, Sees
<1>4. /\ new.fallback # None => Sees(codex, new.fallback)
      /\ new.thread = None /\ new.clock <= codex.at
      /\ m.known # None => m.known.at <= new.clock
  BY <1>1, <1>2, <1>3, FallbackSeen DEF NewRefresh
<1>5. refreshes' = {[r EXCEPT !.current = FALSE] : r \in refreshes} \cup {new}
  BY DEF StartRefresh
<1> HIDE DEF new
<1>6. ASSUME NEW s \in refreshes'
      PROVE  \/ s = new
             \/ \E r \in refreshes :
                  /\ ~s.current /\ s.fallback = r.fallback
                  /\ s.thread = r.thread /\ s.clock = r.clock
  <2>1. CASE s # new
    <3>1. PICK r \in refreshes : s = [r EXCEPT !.current = FALSE]
      BY <1>5, <2>1
    <3>2. /\ ~s.current /\ s.fallback = r.fallback
          /\ s.thread = r.thread /\ s.clock = r.clock
      BY <1>1, <3>1 DEF Refresh
    <3> QED
      BY <3>2
  <2> QED
    BY <2>1
<1>7. ViewsInOrder'
  BY <1>1, <1>4, <1>6 DEF InOrder, ViewsInOrder
<1>8. RereadsInOrder'
  BY <1>4, <1>6 DEF RereadsInOrder
<1> QED
  BY <1>1, <1>7, <1>8, StillInOrder DEF InOrder

\* A reread that moves on to s, in its own generation.
Continues(r, s) ==
  /\ s.current = r.current
  /\ s.fallback # None => Sees(codex, s.fallback)
  /\ s.thread # None => Sees(codex, s.thread)
  /\ s.clock <= codex.at

LEMMA BecomeInOrder ==
  ASSUME Inv, InOrder, Still, NEW r \in refreshes, NEW new, Become(r, new),
         \A s \in new : new = {s} /\ Continues(r, s),
         m'.known # None => Sees(codex, m'.known),
         \A s \in refreshes' :
           s.current /\ s.stage \in {"read", "turns"} /\ m'.known # None
             => m'.known.at <= s.clock
  PROVE  InOrder'
<1>1. codex' = codex /\ CodexInOrder'
  BY StillInOrder DEF Still, InOrder
<1>2. refreshes' = (refreshes \ {r}) \cup new
  BY DEF Become
<1>3. ViewsInOrder'
  BY <1>1, <1>2 DEF InOrder, ViewsInOrder, Continues
<1>4. RereadsInOrder'
  <2>1. ASSUME NEW s \in refreshes', NEW t \in refreshes', s.current, t.current
        PROVE  s = t
    <3>1. CASE s \in new /\ t \in new
      BY <3>1
    <3>2. CASE s \in new /\ t \notin new
      BY <1>2, <2>1, <3>2 DEF InOrder, RereadsInOrder, Continues
    <3>3. CASE s \notin new /\ t \in new
      BY <1>2, <2>1, <3>3 DEF InOrder, RereadsInOrder, Continues
    <3>4. CASE s \notin new /\ t \notin new
      BY <1>2, <2>1, <3>4 DEF InOrder, RereadsInOrder
    <3> QED
      BY <3>1, <3>2, <3>3, <3>4
  <2> QED
    BY <2>1 DEF RereadsInOrder
<1> QED
  BY <1>1, <1>3, <1>4 DEF InOrder

\* The steps that keep the clock of the known thread.
LEMMA BecomeBeside ==
  ASSUME Inv, InOrder, Still, NEW r \in refreshes, NEW new, Become(r, new),
         \A s \in new : /\ new = {s} /\ Continues(r, s)
                        /\ s.stage \in {"read", "turns"}
                             => r.stage \in {"read", "turns"} /\ s.clock = r.clock,
         m'.known = m.known
  PROVE  InOrder'
<1>1. m'.known # None => Sees(codex, m'.known)
  BY DEF InOrder, ViewsInOrder
<1>2. ASSUME NEW s \in refreshes',
             s.current, s.stage \in {"read", "turns"}, m'.known # None
      PROVE  m'.known.at <= s.clock
  <2>1. CASE s \in new
    BY <1>2, <2>1 DEF InOrder, RereadsInOrder, Continues
  <2>2. CASE s \notin new
    BY <1>2, <2>2 DEF Become, InOrder, RereadsInOrder
  <2> QED
    BY <2>1, <2>2
<1> QED
  BY <1>1, <1>2, BecomeInOrder

\* Only the newest reread stores, with a clock that is not behind.
LEMMA StoreHarmless ==
  ASSUME Inv, InOrder, Still, NEW r \in refreshes, r.stage \in {"read", "turns"},
         NEW read \in Threads, Sees(codex, read), Store(r, read)
  PROVE  InOrder' /\ DoesNoHarm
<1> DEFINE thread == Freshest(read, r)
           stored == [r EXCEPT !.stage = "goal", !.thread = thread,
                               !.fallback = None, !.clock = 0]
<1>1. /\ r \in Refresh /\ codex \in Threads /\ m \in Monitor /\ Sound(m)
      /\ r.clock \in Nat /\ r.clock <= codex.at /\ codex.at \in Nat
      /\ m.known # None => m.known \in Threads
  BY DEF Inv, TypeOK, InOrder, ViewsInOrder, Refresh, Threads, Sound, Monitor
<1>2. thread \in Threads /\ Sees(codex, thread) /\ r.clock <= thread.at
  BY <1>1, FreshestTyped, FreshestSeen
<1> HIDE DEF thread
<1>3. /\ stored.stage = "goal" /\ stored.current = r.current
      /\ stored.thread = thread /\ stored.fallback = None /\ stored.clock = 0
  BY <1>1 DEF Refresh
<1>4. CASE r.current
  <2>1. m' = WithKnown(m, thread) /\ Become(r, {stored})
    BY <1>4 DEF Store, thread
  <2>2. /\ m'.known = thread /\ m'.pending = m.pending
        /\ m'.stopped = m.stopped
    BY <1>1, <2>1, KnownReplaced
  <2> HIDE DEF stored
  <2>3. Continues(r, stored)
    BY <1>1, <1>2, <1>3 DEF Continues
  <2>4. \A s \in refreshes' : s.current => s.stage \notin {"read", "turns"}
    BY <1>3, <1>4, <2>1 DEF Become, InOrder, RereadsInOrder
  <2>5. InOrder'
    BY <1>2, <2>1, <2>2, <2>3, <2>4, BecomeInOrder
  <2>6. m.known # None => m.known.at <= r.clock
    BY <1>4 DEF InOrder, RereadsInOrder
  <2>7. ClockStays
    BY <1>1, <1>2, <2>2, <2>6 DEF ClockStays, Threads
  <2> QED
    BY <2>2, <2>5, <2>7, QuietStep
<1>5. CASE ~r.current
  <2>1. m' = m /\ Become(r, {})
    BY <1>5 DEF Store
  <2>2. InOrder'
    BY <2>1, BecomeBeside
  <2>3. ClockStays
    BY <1>1, <2>1 DEF ClockStays, Threads
  <2> QED
    BY <2>1, <2>2, <2>3, QuietStep
<1> QED
  BY <1>4, <1>5

-----------------------------------------------------------------------------
(* What is concluded from a view of the thread.                            *)

\* The condition under which markThreadDormant, or a verdict on thread, is right.
Excused(thread) ==
  Running => thread.turn < codex.turn \/ PastQuietWindow(thread)

\* A view that is not ongoing excuses what is made of it.
LEMMA NotOngoingExcuses ==
  ASSUME Inv, CodexInOrder, NEW thread \in Threads, Sees(codex, thread)
  PROVE  /\ ~IsOngoing(thread) => Excused(thread)
         /\ ~IsOngoing(thread) /\ thread.status = "systemError" /\ Running
              => thread.turn < codex.turn
         /\ TerminalTurn(thread) /\ Running => thread.turn < codex.turn
<1>1. thread.status = "systemError" => ~PastQuietWindow(thread)
  BY DEF PastQuietWindow
<1> QED
  BY <1>1, RunningIsSeen DEF Excused

\* A step that stops the thread, if it does, on such a view.
LEMMA VerdictHarmless ==
  ASSUME Inv, CodexInOrder, Still, NEW thread \in Threads,
         thread \in Views \/ \E view \in Views :
                               view # None /\ view.turn = thread.turn,
         thread \in Views \cup {m'.known},
         m'.stopped /\ ~m.stopped => Excused(thread),
         \/ m.pending \subseteq m'.pending
         \/ Running => thread.turn < codex.turn,
         ClockStays
  PROVE  DoesNoHarm
<1>1. codex' = codex /\ open' \subseteq open /\ thread # None
  BY NoneIsNoThread DEF Still
<1>2. thread.turn < codex.turn => Behind(codex.turn)
  BY <1>1 DEF Behind
<1>3. KeepsOpenRequests
  <2>1. ASSUME NEW q \in m.pending, Dropped(q), q.turn \in open'
        PROVE  Behind(q.turn)
    <3>1. q.turn = codex.turn /\ Running
      BY <1>1, <2>1, OpenMeansRunning
    <3> QED
      BY <1>2, <2>1, <3>1 DEF Dropped
  <2> QED
    BY <2>1 DEF KeepsOpenRequests
<1>4. ReleasesRightly
  <2>1. ASSUME Released, Running
        PROVE  Behind(codex.turn) \/ PastQuietWindow(thread)
    BY <1>2, <2>1 DEF Released, Excused, Inv, Sound
  <2>2. Running' <=> Running
    BY <1>1 DEF Running
  <2> QED
    BY <1>1, <2>1, <2>2 DEF ReleasesRightly
<1> QED
  BY <1>3, <1>4 DEF DoesNoHarm

\* refreshThread()'s conclusion keeps an open request of the turn it has read.
LEMMA ConcludedHarmless ==
  ASSUME Inv, InOrder, Still, NEW r \in refreshes, r.stage = "goal",
         m' = Concluded(r)
  PROVE  DoesNoHarm
<1> DEFINE thread == r.thread
<1>1. /\ thread \in Threads /\ thread \in Views /\ Sees(codex, thread)
      /\ CodexInOrder /\ m \in Monitor /\ Sound(m)
      /\ m.known # None => m.known \in Threads
  BY DEF Inv, TypeOK, ReadsTyped, InOrder, ViewsInOrder, Refresh, Views, Sound,
         Monitor
<1> HIDE DEF thread
<1>2. /\ ~IsOngoing(thread) => Excused(thread)
      /\ ~IsOngoing(thread) /\ thread.status = "systemError" /\ Running
           => thread.turn < codex.turn
      /\ TerminalTurn(thread) /\ Running => thread.turn < codex.turn
  BY <1>1, NotOngoingExcuses
<1>3. \/ m' = MarkLive(m) \/ m' = m
      \/ ~IsOngoing(thread) /\ thread.status = "systemError" /\ m' = MarkStopped(m)
      \/ ~IsOngoing(thread) /\ m' = StopForObservedState(m, thread)
      \/ ~IsOngoing(thread) /\ m' = MarkDormant(m)
  BY DEF Concluded, thread
<1>4. m'.known = m.known
  BY <1>1, <1>3, KnownUntouched
<1>5. ClockStays
  BY <1>1, <1>4 DEF ClockStays, Threads
<1>6. m'.stopped /\ ~m.stopped => Excused(thread)
  BY <1>1, <1>2, <1>3, RequestsUntouched
<1>7. m.pending \subseteq m'.pending \/ (Running => thread.turn < codex.turn)
  <2>1. CASE thread.status = "systemError" \/ TerminalTurn(thread)
    BY <1>1, <1>2, <1>3, <2>1, RequestsUntouched
  <2>2. CASE ~(thread.status = "systemError" \/ TerminalTurn(thread))
    BY <1>1, <1>3, <2>2, RequestsUntouched
  <2> QED
    BY <2>1, <2>2
<1> QED
  BY <1>1, <1>5, <1>6, <1>7, VerdictHarmless

\* So does confirmDormantNotLoadedThread ...
LEMMA ConfirmHarmless ==
  ASSUME Inv, InOrder, NEW r \in refreshes, Confirm(r)
  PROVE  DoesNoHarm
<1>1. Still
  BY DEF Confirm, codexVars, Still
<1>2. /\ CodexInOrder /\ m \in Monitor /\ Sound(m)
      /\ m.known # None => m.known \in Threads /\ Sees(codex, m.known)
  BY DEF Inv, InOrder, ViewsInOrder, Sound, Monitor
<1>3. \/ m' = m
      \/ m.known # None /\ m' = MarkLive(m)
      \/ m.known # None /\ ~IsOngoing(m.known) /\ m' = MarkDormant(m)
  BY DEF Confirm
<1>4. m'.known = m.known
  BY <1>2, <1>3, KnownUntouched
<1>5. ClockStays
  BY <1>2, <1>4 DEF ClockStays, Threads
<1>6. m.pending \subseteq m'.pending
  BY <1>2, <1>3, RequestsUntouched
<1>7. CASE m.known = None
  BY <1>3, <1>5, <1>7, QuietStep
<1>8. CASE m.known # None
  <2>1. m'.stopped /\ ~m.stopped => Excused(m.known)
    BY <1>2, <1>3, <1>8, NotOngoingExcuses, RequestsUntouched
  <2>2. m.known \in Views
    BY DEF Views
  <2> QED
    BY <1>1, <1>2, <1>5, <1>6, <1>8, <2>1, <2>2, VerdictHarmless
<1> QED
  BY <1>7, <1>8

\* ... and a thread list row that is merged into the known thread.
LEMMA RelistedHarmless ==
  ASSUME Inv, InOrder, Still, NEW row \in Threads, m.known # None,
         m' = Relisted(row), refreshes' = refreshes
  PROVE  InOrder' /\ DoesNoHarm
<1> DEFINE merged == Merged(row)
<1>1. /\ CodexInOrder /\ m \in Monitor /\ Sound(m) /\ codex' = codex
      /\ m.known \in Threads /\ Sees(codex, m.known) /\ codex \in Threads
  BY DEF Inv, TypeOK, InOrder, ViewsInOrder, Sound, Monitor, Still
<1>2. /\ merged \in Threads /\ merged.at = m.known.at /\ merged.turn = m.known.turn
      /\ merged.state = m.known.state /\ merged.phase = m.known.phase
  BY <1>1 DEF Merged, Threads
<1> HIDE DEF merged
<1>3. Sees(codex, merged)
  BY <1>1, <1>2 DEF Sees
<1> DEFINE verdict == IF \/ IsOngoing(merged)
                         \/ m.ongoing /\ StillAwaitsFinalAnswer(merged)
                      THEN MarkLive(m)
                      ELSE IF m.ongoing THEN StopForObservedState(m, merged)
                      ELSE m
<1>4. m' = WithKnown(verdict, merged)
  BY DEF Relisted, merged
<1>5. \/ verdict = MarkLive(m) \/ verdict = m
      \/ ~IsOngoing(merged) /\ verdict = StopForObservedState(m, merged)
  OBVIOUS
<1> HIDE DEF verdict
<1>6. verdict \in Monitor
  BY <1>1, <1>5, LiveSound, StopForObservedSound DEF Sound
<1>7. /\ m'.known = merged /\ m'.pending = verdict.pending
      /\ m'.stopped = verdict.stopped
  BY <1>4, <1>6, KnownReplaced
<1>8. ClockStays
  BY <1>1, <1>2, <1>7 DEF ClockStays, Threads
<1>9. InOrder'
  <2>1. merged # None
    BY <1>2, NoneIsNoThread
  <2>2. ViewsInOrder'
    BY <1>1, <1>3, <1>7, <2>1 DEF InOrder, ViewsInOrder
  <2>3. RereadsInOrder'
    BY <1>2, <1>7 DEF InOrder, RereadsInOrder
  <2> QED
    BY <1>1, <2>2, <2>3, StillInOrder DEF InOrder
<1>10. /\ ~IsOngoing(merged) => Excused(merged)
       /\ ~IsOngoing(merged) /\ merged.status = "systemError" /\ Running
            => merged.turn < codex.turn
       /\ TerminalTurn(merged) /\ Running => merged.turn < codex.turn
  BY <1>1, <1>2, <1>3, NotOngoingExcuses
<1>11. m'.stopped /\ ~m.stopped => Excused(merged)
  BY <1>1, <1>5, <1>7, <1>10, RequestsUntouched
<1>12. m.pending \subseteq m'.pending \/ (Running => merged.turn < codex.turn)
  <2>1. CASE merged.status = "systemError" \/ TerminalTurn(merged)
    BY <1>1, <1>5, <1>7, <1>10, <2>1, RequestsUntouched
  <2>2. CASE ~(merged.status = "systemError" \/ TerminalTurn(merged))
    BY <1>1, <1>5, <1>7, <2>2, RequestsUntouched
  <2> QED
    BY <2>1, <2>2
<1>13. \E view \in Views : view # None /\ view.turn = merged.turn
  BY <1>2 DEF Views
<1> QED
  BY <1>1, <1>2, <1>7, <1>8, <1>9, <1>11, <1>12, <1>13, VerdictHarmless

\* A reread's steps.
LEMMA ReadHarmless ==
  ASSUME Inv, InOrder, NEW r \in refreshes,
         ReadAnswers(r) \/ ReadReturns(r) \/ ReadFails(r)
         \/ GoalReturns(r) \/ Confirm(r)
  PROVE  InOrder' /\ DoesNoHarm
<1>1. /\ r \in Refresh /\ codex \in Threads /\ Sound(m) /\ m \in Monitor
      /\ r.stage \in {"turns", "goal"} => r.thread \in Threads /\ r.thread # None
      /\ r.fallback # None => r.fallback \in Threads /\ Sees(codex, r.fallback)
      /\ r.thread # None => Sees(codex, r.thread)
      /\ r.clock <= codex.at /\ CodexInOrder
      /\ m.known # None => m.known \in Threads /\ Sees(codex, m.known)
  BY DEF Inv, TypeOK, ReadsTyped, Refresh, Sound, Monitor, InOrder, ViewsInOrder
<1>2. Still
  BY DEF ReadAnswers, ReadReturns, ReadFails, GoalReturns, Confirm, codexVars, Still
<1>3. m' = m => ClockStays
  BY <1>1 DEF ClockStays, Threads
<1>4. CASE ReadAnswers(r)
  <2> DEFINE answered == [r EXCEPT !.stage = "turns", !.thread = Row(codex)]
  <2>1. Sees(codex, Row(codex))
    BY <1>1, SeesItself, RowSeen DEF CodexInOrder
  <2>2. /\ answered.current = r.current /\ answered.fallback = r.fallback
        /\ answered.thread = Row(codex) /\ answered.clock = r.clock
    BY <1>1 DEF Refresh
  <2>3. Become(r, {answered}) /\ m' = m /\ r.stage = "read"
    BY <1>4 DEF ReadAnswers
  <2> HIDE DEF answered
  <2>4. Continues(r, answered)
    BY <1>1, <2>1, <2>2 DEF Continues
  <2>5. InOrder'
    BY <1>2, <2>2, <2>3, <2>4, BecomeBeside
  <2> QED
    BY <1>3, <2>3, <2>5, QuietStep
<1>5. CASE ReadReturns(r)
  <2> DEFINE read == [codex EXCEPT !.status = r.thread.status,
                                   !.at = r.thread.at]
  <2>1. r.stage = "turns" /\ Store(r, read) /\ r.thread.at <= codex.at
    BY <1>1, <1>5 DEF ReadReturns, Sees
  <2>2. read \in Threads
    BY <1>1, <2>1 DEF Threads
  <2>3. Sees(codex, read)
    BY <1>1, <2>1, SeesItself, SeenRestamped
  <2> HIDE DEF read
  <2> QED
    BY <1>2, <2>1, <2>2, <2>3, StoreHarmless
<1>6. CASE ReadFails(r)
  <2>1. CASE r.fallback # None
    <3>1. r.stage \in {"read", "turns"} /\ Store(r, r.fallback)
      BY <1>6, <2>1 DEF ReadFails
    <3> QED
      BY <1>1, <1>2, <2>1, <3>1, StoreHarmless
  <2>2. CASE r.fallback = None
    <3>1. /\ Become(r, {})
          /\ \/ m' = m \/ m' = ScheduleUnloadStop(MarkLive(m))
             \/ /\ m' = MarkDormant(m)
                /\ m.known # None => PastQuietWindow(m.known)
      BY <1>6, <2>2 DEF ReadFails
    <3>2. MarkLive(m) \in Monitor
      BY <1>1, LiveSound DEF Sound
    <3>3. m'.known = m.known
      BY <1>1, <3>1, <3>2, KnownUntouched
    <3>4. InOrder'
      BY <1>2, <3>1, <3>3, BecomeBeside
    <3>5. ClockStays
      BY <1>1, <3>3 DEF ClockStays, Threads
    <3>6. m.pending \subseteq m'.pending
      BY <1>1, <3>1, <3>2, RequestsUntouched
    <3>7. CASE m.known = None
      <4>1. MarkStopped(m) = m
        BY <3>7 DEF MarkStopped
      <4>2. m'.stopped => m.stopped
        BY <1>1, <3>1, <3>2, <4>1, RequestsUntouched DEF MarkDormant
      <4> QED
        BY <3>4, <3>5, <3>6, <4>2, QuietStep
    <3>8. CASE m.known # None
      <4>1. m'.stopped /\ ~m.stopped => Excused(m.known)
        BY <1>1, <3>1, <3>2, <3>8, RequestsUntouched DEF Excused
      <4>2. m.known \in Views
        BY DEF Views
      <4> QED
        BY <1>1, <1>2, <3>4, <3>5, <3>6, <3>8, <4>1, <4>2, VerdictHarmless
    <3> QED
      BY <3>7, <3>8
  <2> QED
    BY <2>1, <2>2
<1>7. CASE GoalReturns(r)
  <2> DEFINE left == [r EXCEPT !.stage = "confirm", !.thread = None]
  <2>1. /\ left.current = r.current /\ left.fallback = r.fallback
        /\ left.thread = None /\ left.clock = r.clock /\ left.stage = "confirm"
    BY <1>1 DEF Refresh
  <2>2. r.stage = "goal" /\ m' = Concluded(r)
        /\ Become(r, IF r.confirms THEN {left} ELSE {})
    BY <1>7 DEF GoalReturns
  <2> HIDE DEF left
  <2>3. Continues(r, left)
    BY <1>1, <2>1 DEF Continues
  <2>4. m'.known = m.known
    BY <1>1, <2>2, KnownUntouched DEF Concluded
  <2>5. InOrder'
    BY <1>2, <2>1, <2>2, <2>3, <2>4, BecomeBeside
  <2> QED
    BY <1>2, <2>2, <2>5, ConcludedHarmless
<1>8. CASE Confirm(r)
  <2>1. m'.known = m.known /\ Become(r, {})
    BY <1>1, <1>8, KnownUntouched DEF Confirm
  <2>2. InOrder'
    BY <1>2, <2>1, BecomeBeside
  <2> QED
    BY <1>8, <2>2, ConfirmHarmless
<1> QED
  BY <1>4, <1>5, <1>6, <1>7, <1>8

\* The timers' steps.
LEMMA TimerHarmless ==
  ASSUME Inv, InOrder, ReadTimerFires \/ UnloadTimerFires \/ RemovalFires
  PROVE  InOrder' /\ DoesNoHarm
<1>1. Sound(m) /\ m \in Monitor /\ (m.known # None => m.known \in Threads)
  BY DEF Inv, Sound, Monitor
<1>2. Still
  BY DEF ReadTimerFires, UnloadTimerFires, RemovalFires, codexVars, Still
<1>3. m'.known = m.known => ClockStays
  BY <1>1 DEF ClockStays, Threads
<1>4. CASE ReadTimerFires
  <2>1. StartRefresh(FALSE, None) /\ m' = m
    BY <1>4 DEF ReadTimerFires
  <2> QED
    BY <1>2, <1>3, <2>1, StartInOrder, QuietStep
<1>5. CASE UnloadTimerFires
  <2>1. /\ m'.known = m.known /\ m'.pending = m.pending
        /\ m'.stopped = m.stopped
    BY <1>1, <1>5 DEF UnloadTimerFires, Monitor
  <2>2. CASE m.known = None
    <3>1. refreshes' = refreshes
      BY <1>5, <2>2 DEF UnloadTimerFires
    <3>2. InOrder'
      BY <1>2, <2>1, <2>2, <3>1, StillInOrder
      DEF InOrder, ViewsInOrder, RereadsInOrder, Still
    <3> QED
      BY <1>3, <2>1, <3>2, QuietStep
  <2>3. CASE m.known # None
    <3>1. StartRefresh(TRUE, None)
      BY <1>5, <2>3 DEF UnloadTimerFires
    <3> QED
      BY <1>2, <1>3, <2>1, <3>1, StartInOrder, QuietStep
  <2> QED
    BY <2>2, <2>3
<1>6. CASE RemovalFires
  <2>1. /\ m'.known = None /\ ~m'.stopped /\ refreshes' = refreshes
        /\ m.pending = {}
    BY <1>1, <1>6 DEF RemovalFires, Forgotten, Sound
  <2>2. InOrder'
    BY <1>2, <2>1, StillInOrder DEF InOrder, ViewsInOrder, RereadsInOrder, Still
  <2> QED
    BY <2>1, <2>2, QuietStep DEF ClockStays
<1> QED
  BY <1>4, <1>5, <1>6

\* A pass of the discovery.
LEMMA DiscoverHarmless ==
  ASSUME Inv, InOrder, DiscoverThreads
  PROVE  InOrder' /\ DoesNoHarm
<1>1. /\ Sound(m) /\ m \in Monitor /\ (m.known # None => m.known \in Threads)
      /\ Row(codex) \in Threads
  BY RowTyped DEF Inv, TypeOK, Sound, Monitor
<1>2. Still
  BY DEF DiscoverThreads, codexVars, Still
<1>3. m'.known = m.known => ClockStays
  BY <1>1 DEF ClockStays, Threads
<1>4. CASE archived
  <2>1. (m' = m \/ m' = MarkDormant(m)) /\ refreshes' = refreshes /\ archived'
    BY <1>4 DEF DiscoverThreads, codexVars
  <2>2. m'.known = m.known /\ m.pending \subseteq m'.pending
    BY <1>1, <2>1, KnownUntouched, RequestsUntouched
  <2>3. InOrder'
    BY <1>2, <2>1, <2>2, StillInOrder
    DEF InOrder, ViewsInOrder, RereadsInOrder, Still
  <2> QED
    BY <1>3, <2>1, <2>2, <2>3
    DEF DoesNoHarm, KeepsOpenRequests, ReleasesRightly, Dropped
<1>5. CASE ~archived /\ NeedsReread(Row(codex))
  <2>1. StartRefresh(FALSE, Row(codex)) /\ m' = m
    BY <1>5 DEF DiscoverThreads
  <2> QED
    BY <1>2, <1>3, <2>1, StartInOrder, QuietStep
<1>6. CASE ~archived /\ ~NeedsReread(Row(codex))
  <2>1. m' = Relisted(Row(codex)) /\ refreshes' = refreshes /\ m.known # None
    BY <1>6 DEF DiscoverThreads, NeedsReread
  <2> QED
    BY <1>1, <1>2, <2>1, RelistedHarmless
<1> QED
  BY <1>4, <1>5, <1>6

\* The user's answer takes only the request it answers.
LEMMA AnswerHarmless ==
  ASSUME Inv, InOrder, NEW q \in m.pending, Answer(q)
  PROVE  InOrder' /\ DoesNoHarm
<1> DEFINE left == [m EXCEPT !.pending = @ \ {q}]
<1>1. m \in Monitor /\ (m.known # None => m.known \in Threads)
  BY DEF Inv, Sound, Monitor
<1>2. left \in Monitor /\ left.known = m.known /\ left.pending = m.pending \ {q}
  BY <1>1 DEF Monitor
<1>3. m' = MarkLive(left)
  BY DEF Answer
<1> HIDE DEF left
<1>4. m'.known = m.known /\ m'.pending = m.pending \ {q} /\ ~m'.stopped
  BY <1>2, <1>3, KnownUntouched, RequestsUntouched
<1>5. Still /\ refreshes' = refreshes /\ q.turn \notin open'
  BY DEF Answer, Still
<1>6. InOrder'
  BY <1>4, <1>5, StillInOrder DEF InOrder, ViewsInOrder, RereadsInOrder, Still
<1>7. ClockStays
  BY <1>1, <1>4 DEF ClockStays, Threads
<1> QED
  BY <1>4, <1>5, <1>6, <1>7
  DEF DoesNoHarm, KeepsOpenRequests, ReleasesRightly, Dropped, Released

\* The clock runs, or nothing happens.
LEMMA IdleHarmless ==
  ASSUME Inv, InOrder, Tick \/ UNCHANGED vars
  PROVE  InOrder' /\ DoesNoHarm
<1>1. /\ m' = m /\ codex' = codex /\ open' = open /\ refreshes' = refreshes
      /\ (now' = now \/ now' = now + 1)
  BY DEF Tick, codexVars, vars
<1>2. now \in Nat /\ codex.at \in Nat /\ (m.known # None => m.known.at \in Nat)
  BY BoundsAssumption DEF Inv, TypeOK, Sound, Monitor, Threads
<1>3. InOrder'
  BY <1>1, <1>2 DEF InOrder, CodexInOrder, ViewsInOrder, RereadsInOrder
<1>4. ClockStays
  BY <1>1, <1>2 DEF ClockStays
<1> QED
  BY <1>1, <1>3, <1>4, QuietStep

\* The monitor begins knowing nothing of a Codex that has done nothing.
LEMMA InitInOrder ==
  ASSUME Init
  PROVE  InOrder
  BY DEF Init, Forgotten, InOrder, CodexInOrder, ViewsInOrder, RereadsInOrder

\* No step upsets the order, and none does harm.
LEMMA NextHarmless ==
  ASSUME Inv, Inv', InOrder, [Next]_vars
  PROVE  InOrder' /\ DoesNoHarm
  BY CodexHarmless, IdleHarmless, TimerHarmless, DiscoverHarmless, ReadHarmless,
     AnswerHarmless
  DEF Next, Observe

-----------------------------------------------------------------------------

\* Whatever is lost, late or superseded, what the monitor holds of a thread was
\* true of it once, and the newest reread is not behind it.
THEOREM ViewsStayInOrder == Safety => []InOrder
  BY Invariant, InitInOrder, NextHarmless, PTL DEF Safety

\* A reread that comes late drops no request Codex waits on, once nothing judged
\* by is older than its turn, and never sets the clock back (refreshThread's
\* generations, pendingRequestOutlivesObservedTerminalState, markThreadDormant).
THEOREM LateRereadsAreHarmless == Safety => LateRereadsDoNoHarm
<1>1. Inv /\ Inv' /\ InOrder /\ [Next]_vars
        => [\A q \in m.pending : Dropped(q) =>
              q.turn \notin open' \/ Behind(q.turn)]_vars
  BY NextHarmless DEF DoesNoHarm, KeepsOpenRequests
<1>2. Inv /\ Inv' /\ InOrder /\ [Next]_vars
        => [m.known # None /\ m'.known # None => m'.known.at >= m.known.at]_vars
  BY NextHarmless DEF DoesNoHarm, ClockStays
<1> QED
  BY <1>1, <1>2, Invariant, ViewsStayInOrder, PTL
  DEF Safety, LateRereadsDoNoHarm, OpenRequestKeptOnceSeen, ClockNeverGoesBack

\* A desk is released only when its turn is over, the thread archived, the view
\* behind, or the thread quiet for the whole window.
THEOREM ReleasesAreJustified == Safety => ReleaseJustified
<1>1. Inv /\ Inv' /\ InOrder /\ [Next]_vars
        => [Released => \/ ~Running' \/ archived'
                        \/ Behind(codex'.turn)
                        \/ \E view \in Views \cup {m'.known} :
                             view # None /\ PastQuietWindow(view)]_vars
  BY NextHarmless DEF DoesNoHarm, ReleasesRightly
<1> QED
  BY <1>1, Invariant, ViewsStayInOrder, PTL DEF Safety, ReleaseJustified

=============================================================================
