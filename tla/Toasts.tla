------------------------------- MODULE Toasts -------------------------------
(***************************************************************************)
(* The toasts over the office (web/src/client/toast-source.ts).  What an   *)
(* agent does reaches the browser twice: as a typed event of the fleet and *)
(* as the summary of its agent, which may lag behind or be all there is.   *)
(* Each fleet that arrives is compared with the one before, and what is    *)
(* new is shown unless one of the memories of what was shown refuses it.   *)
(* A text is the line that a toast has room for and what is cut off.       *)
(***************************************************************************)
EXTENDS Naturals, Sequences, SequencesExt, FiniteSetsExt, Functions

CONSTANTS
  Actors,          \* the agents of the floor
  Doings,          \* what they may do: [actor, kind, text]; a text is a pair
                   \* <<line, rest>>, where the rest may be ""
  DefaultTime,     \* NOTIFICATION_TTL_MS
  MessageTime,     \* MESSAGE_NOTIFICATION_TTL_MS
  CommandTime,     \* COMMAND_NOTIFICATION_BASE_TTL_MS
  LineTime,        \* COMMAND_NOTIFICATION_LINE_TTL_MS
  RepeatTime,      \* NOTIFICATION_FINGERPRINT_DEDUPE_MS
  LineRepeatTime,  \* TOAST_LINE_DEDUPE_MS
  TypedWindow,     \* the 15 s a typed event speaks for the summary
  HistoryTime,     \* HISTORICAL_HYDRATION_SUPPRESS_MS
  MaxToasts,       \* the last 24 are kept
  MaxHappenings, MaxToastClock   \* bounds

ASSUME ToastBounds ==
  /\ {DefaultTime, MessageTime, CommandTime, LineTime, RepeatTime,
      LineRepeatTime, TypedWindow, HistoryTime, MaxHappenings, MaxToastClock} \subseteq Nat
  /\ MaxToasts \in Nat \ {0}

VARIABLES
  typed,      \* the actors whose provider sends typed events
  happened,   \* what agents did: [actor, kind, text, at]
  summary,    \* per agent, the last message and activity its summary has
  seenFleet,  \* what the browser last had: [events, summary]
  openedAt,   \* when the first fleet came: 0 before
  toasts,     \* notifications
  shownAt,    \* recentNotificationFingerprintTimes
  lineAt,     \* recentToastLineTimes
  seenKeys,   \* seenNotificationKeys
  pruneAt,    \* when notificationPruneTimer fires; 0 without one
  toastClock

toastVars == <<typed, happened, summary, seenFleet, openedAt, toasts, shownAt, lineAt, seenKeys,
               pruneAt, toastClock>>

Unsummarised == [message |-> 0, activity |-> 0, at |-> 0, current |-> FALSE]

ToastsInit ==
  /\ typed \in SUBSET Actors
  /\ happened = <<>>
  /\ summary = [a \in Actors |-> Unsummarised]
  /\ seenFleet = [events |-> 0, summary |-> summary]
  /\ openedAt = 0
  /\ toasts = <<>>
  /\ shownAt = <<>> /\ lineAt = <<>>
  /\ seenKeys = {}
  /\ pruneAt = 0
  /\ toastClock = 1

-----------------------------------------------------------------------------
(***************************************************************************)
(* The entry that a happening makes: `of` is the happening, and key what   *)
(* seenNotificationKeys knows it by, which for a message is its text.      *)
(***************************************************************************)
Entry(i, key) ==
  LET h == happened[i]
  IN [of |-> i, actor |-> h.actor, kind |-> h.kind, text |-> h.text,
      key |-> IF h.kind = "message" THEN <<"message", h.actor, h.text>> ELSE key]

Priority(kind) == IF kind = "message" THEN 2 ELSE 0

\* One text is the beginning of the other.
Equivalent(s, t) == s[1] = t[1] /\ (s[2] = t[2] \/ s[2] = "" \/ t[2] = "")

Stack(e) == <<e.actor, e.kind>>
\* A toast and an entry of the same semanticKey; its own memory of a second
\* is covered by that of the fingerprint, which is longer.
Fingerprint(e) == <<e.actor, e.kind, e.text>>
LineKey(e) == <<Stack(e), e.text[1]>>

Lifetime(kind, lines) ==
  CASE kind = "command" -> CommandTime + Min({lines, 3}) * LineTime
    [] kind = "message" -> MessageTime + (lines - 1) * LineTime
    [] OTHER -> DefaultTime + (lines - 1) * LineTime

Within(memory, key, span) ==
  key \in DOMAIN memory /\ toastClock - memory[key] < span

Remember(memory, key) ==
  [k \in DOMAIN memory \cup {key} |-> IF k = key THEN toastClock ELSE memory[k]]

\* What enqueueNotification works on.
Tray == [toasts |-> toasts, shown |-> shownAt, lines |-> lineAt, keys |-> seenKeys]

Active(tray) == {i \in DOMAIN tray.toasts : toastClock < tray.toasts[i].expires}

\* hasActiveHigherPriorityNotification asks of every toast, whoever's it is.
Outranked(tray, e) ==
  \E i \in Active(tray) : Priority(tray.toasts[i].kind) > Priority(e.kind)

AlreadySaid(tray, e) ==
  /\ e.kind = "message"
  /\ \E i \in Active(tray) :
       /\ tray.toasts[i].actor = e.actor /\ tray.toasts[i].kind = "message"
       /\ Equivalent(tray.toasts[i].text, e.text)

StackOf(tray, e) == {i \in Active(tray) : tray.toasts[i].stack = Stack(e)}

LineSeen(tray, e) == Within(tray.lines, LineKey(e), LineRepeatTime)

Latest(n, s) == SubSeq(s, Max({1, Len(s) - n + 1}), Len(s))

Shown(tray, e, row) ==
  [tray EXCEPT !.toasts = Latest(MaxToasts, row),
               !.shown = Remember(@, Fingerprint(e)),
               !.lines = Remember(@, LineKey(e))]

\* mergeStackableNotification: another line of the same toast, the last three.
Stacked(tray, e) ==
  LET i == Min(StackOf(tray, e))
      lines == Latest(3, Append(tray.toasts[i].lines, e.of))
      merged == [tray.toasts[i] EXCEPT
                   !.text = e.text, !.lines = lines,
                   !.expires = toastClock + Lifetime(e.kind, Len(lines))]
  IN Shown(tray, e, [tray.toasts EXCEPT ![i] = merged])

\* pruneNotificationsForAgent: a message clears its agent's other toasts.
Cleared_Everyone(tray, e) ==
  IF e.kind = "message" THEN <<>> ELSE tray.toasts
Cleared(tray, e) ==
  IF e.kind = "message" THEN SelectSeq(tray.toasts, LAMBDA t : t.actor # e.actor)
  ELSE tray.toasts

Pushed(tray, e, row) ==
  Shown(tray, e, Append(row,
    [actor |-> e.actor, kind |-> e.kind, text |-> e.text, stack |-> Stack(e),
     lines |-> <<e.of>>, expires |-> toastClock + Lifetime(e.kind, 1)]))

Enqueue(tray, e) ==
  CASE \/ Within(tray.shown, Fingerprint(e), RepeatTime)
       \/ Outranked(tray, e)
       \/ AlreadySaid(tray, e) -> tray
    [] OTHER ->
       IF StackOf(tray, e) # {} /\ ~LineSeen(tray, e) THEN Stacked(tray, e)
       ELSE LET row == Cleared(tray, e)
                again == \E i \in DOMAIN row : /\ toastClock < row[i].expires
                                               /\ Fingerprint(row[i]) = Fingerprint(e)
            IN IF again \/ LineSeen(tray, e) THEN [tray EXCEPT !.toasts = row]
               ELSE Pushed(tray, e, row)

\* The key is remembered whether or not the toast is shown.
Offer(tray, e) ==
  IF e.key \in tray.keys THEN tray
  ELSE [Enqueue(tray, e) EXCEPT !.keys = @ \cup {e.key}]

-----------------------------------------------------------------------------
\* First seen with a summary that was old when the browser opened.
Historical(a) ==
  openedAt # 0 /\ summary[a].at + HistoryTime <= openedAt

\* queueSnapshotEvents, for the typed event i.
OfferEvent(tray, i) ==
  LET h == happened[i]
  IN IF \/ summary[h.actor] = Unsummarised \/ Historical(h.actor)
        \/ ~summary[h.actor].current /\ h.kind # "message"
     THEN tray
     ELSE Offer(tray, Entry(i, <<"item", i>>))

TypedMessage(a) ==
  /\ a \in typed
  /\ \E i \in DOMAIN happened :
       happened[i].actor = a /\ happened[i].kind = "message"
TypedLately(a, at) ==
  /\ a \in typed
  /\ \E i \in DOMAIN happened :
       happened[i].actor = a /\ happened[i].at + TypedWindow >= at

\* notificationDescriptor: the happening that the summary s of a tells of
\* after the summary before, or 0.
Described(a, s, before) ==
  IF s.message # 0 /\ s.message # before.message /\ ~TypedMessage(a) THEN s.message
  ELSE IF \/ ~s.current \/ TypedLately(a, s.at) \/ s.activity = 0
          \/ /\ happened[s.activity].kind = "approval"
             /\ s.activity = before.activity
  THEN 0
  ELSE s.activity

\* queueAgentNotifications, for the agent a.
OfferSummary(tray, a) ==
  LET before == seenFleet.summary[a]
      i == Described(a, summary[a], before)
      j == Described(a, before, Unsummarised)
      same == j # 0 /\ i # 0 /\ Fingerprint(happened[i]) = Fingerprint(happened[j])
  IN IF \/ before = Unsummarised /\ Historical(a)
        \/ i = 0 \/ same
     THEN tray
     ELSE Offer(tray, Entry(i, <<"summary", Fingerprint(happened[i]), summary[a].at>>))

\* scheduleNotificationPrune; a toast that is already over is given a moment.
PruneScheduled(row) ==
  IF row = <<>> THEN 0
  ELSE Max({toastClock + 1, Min({row[i].expires : i \in DOMAIN row})})

FleetIsShown ==
  LET news == SetToSortSeq({i \in seenFleet.events + 1..Len(happened) :
                              happened[i].actor \in typed}, <)
      all == FoldLeft(OfferSummary, FoldLeft(OfferEvent, Tray, news),
                      SetToSeq(Actors))
  IN /\ seenFleet # [events |-> Len(happened), summary |-> summary]
     /\ seenFleet' = [events |-> Len(happened), summary |-> summary]
     /\ IF openedAt = 0
        THEN openedAt' = toastClock /\ UNCHANGED <<toasts, shownAt, lineAt, seenKeys, pruneAt>>
        ELSE /\ toasts' = all.toasts
             /\ shownAt' = all.shown
             /\ lineAt' = all.lines
             /\ seenKeys' = all.keys
             /\ pruneAt' = PruneScheduled(all.toasts)
             /\ UNCHANGED openedAt
     /\ UNCHANGED <<typed, happened, summary, toastClock>>

\* pruneNotifications.
TimerPrunes ==
  /\ pruneAt # 0 /\ toastClock >= pruneAt
  /\ toasts' = SelectSeq(toasts, LAMBDA t : toastClock < t.expires)
  /\ pruneAt' = PruneScheduled(toasts')
  /\ UNCHANGED <<typed, happened, summary, seenFleet, openedAt, shownAt, lineAt,
                 seenKeys, toastClock>>

-----------------------------------------------------------------------------
\* The server's side: something happens, and the summary says so at once or,
\* when there is a typed event, in its own time.
SummaryOf(a, list) ==
  LET mine == {i \in DOMAIN list : list[i].actor = a}
      said == {i \in mine : list[i].kind = "message"}
  IN [message |-> Max(said \cup {0}), activity |-> Max(mine), at |-> toastClock,
      current |-> TRUE]

Happens(d) ==
  /\ Len(happened) < MaxHappenings
  /\ happened' = Append(happened, [actor |-> d.actor, kind |-> d.kind,
                                   text |-> d.text, at |-> toastClock])
  /\ summary' = IF d.actor \in typed THEN summary
                ELSE [summary EXCEPT ![d.actor] = SummaryOf(d.actor, happened')]
  /\ UNCHANGED <<typed, seenFleet, openedAt, toasts, shownAt, lineAt, seenKeys, pruneAt,
                 toastClock>>

IsSummarised(a) ==
  /\ \E i \in DOMAIN happened : happened[i].actor = a
  /\ \/ a \in typed /\ summary' = [summary EXCEPT ![a] = SummaryOf(a, happened)]
     \/ summary' = [summary EXCEPT ![a].current = FALSE]
  /\ [summary'[a] EXCEPT !.at = 0] # [summary[a] EXCEPT !.at = 0]
  /\ summary' # summary
  /\ UNCHANGED <<typed, happened, seenFleet, openedAt, toasts, shownAt, lineAt, seenKeys,
                 pruneAt, toastClock>>

\* Timers are not late, and fleets come at once.
ToastTime ==
  /\ toastClock < MaxToastClock
  /\ openedAt # 0 => seenFleet = [events |-> Len(happened), summary |-> summary]
  /\ pruneAt # 0 => toastClock < pruneAt
  /\ toastClock' = toastClock + 1
  /\ UNCHANGED <<typed, happened, summary, seenFleet, openedAt, toasts, shownAt, lineAt,
                 seenKeys, pruneAt>>

ToastsNext ==
  \/ \E d \in Doings : Happens(d)
  \/ \E a \in Actors : IsSummarised(a)
  \/ FleetIsShown
  \/ TimerPrunes
  \/ ToastTime

-----------------------------------------------------------------------------
\* A toast that is over is taken down within a moment.
ToastsGo == \A i \in DOMAIN toasts : toastClock <= toasts[i].expires + 1

\* An agent has one command toast at a time, of at most three lines in the
\* order in which the commands ran.
OneCommandToast ==
  \A i \in Active(Tray) :
    toasts[i].kind = "command" =>
      /\ \A j \in Active(Tray) : toasts[j].stack = toasts[i].stack => j = i
      /\ Len(toasts[i].lines) <= 3
      /\ \A k \in DOMAIN toasts[i].lines, l \in DOMAIN toasts[i].lines :
           k < l => toasts[i].lines[k] < toasts[i].lines[l]

\* A toast leaves before its time for its own agent's newer message, or when
\* newer toasts fill the tray; never for another agent's.
NeighboursStay ==
  \A i \in Active(Tray) :
    \/ \E k \in DOMAIN toasts[i].lines, j \in DOMAIN toasts' :
         toasts[i].lines[k] \in Range(toasts'[j].lines)
    \/ Len(toasts') = MaxToasts
    \/ \E m \in 1..Len(happened) :
         /\ m \in {summary[toasts[i].actor].message} \cup seenFleet.events + 1..Len(happened)
         /\ happened[m].kind = "message" /\ happened[m].actor = toasts[i].actor
         /\ <<"message", happened[m].actor, happened[m].text>> \in seenKeys' \ seenKeys

\* A message that a fleet brings is shown, unless its agent has said as much
\* lately: commands and requests do not keep it from the office.
RepliesAreShown ==
  (openedAt # 0 /\ seenFleet' # seenFleet) =>
    \A i \in seenFleet.events + 1..Len(happened) :
      LET h == happened[i] IN
      (/\ h.actor \in typed /\ h.kind = "message"
       /\ summary[h.actor] # Unsummarised /\ ~Historical(h.actor)) =>
        \/ \E j \in DOMAIN toasts' : i \in Range(toasts'[j].lines)
        \/ \E j \in DOMAIN happened \ {i} :
             /\ happened[j].actor = h.actor /\ happened[j].kind = "message"
             /\ happened[j].text[1] = h.text[1]
        \/ Len(toasts') = MaxToasts

ToastsAreSound ==
  [](ToastsGo /\ OneCommandToast) /\ [][NeighboursStay /\ RepliesAreShown]_toastVars
==============================================================================
