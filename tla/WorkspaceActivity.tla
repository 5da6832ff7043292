-------------------------- MODULE WorkspaceActivity --------------------------
(***************************************************************************)
(* The activity of a project in its snapshot: the hot changes, out of the  *)
(* monitor's recent events (live-monitor.ts), of what each agent changed   *)
(* last and of git status (services/snapshot-assembler.ts,                 *)
(* domain/workspace-activity.ts), and the commands that run, as the        *)
(* project lists them and as an agent's summary tells one of them          *)
(* (snapshot-lib/activity-summary.ts).  A path is a file of the project    *)
(* and the way it is spelled, from the root of the machine or of the       *)
(* project.                                                                *)
(***************************************************************************)
EXTENDS Integers, Sequences, SequencesExt, FiniteSetsExt

CONSTANTS
  Workers,      \* threads, each with its agent
  Tree,         \* the project's files in git's order, [path, family]
  Commands,     \* item ids
  Patches,      \* how files are changed and told of, of AnyPatch
  Long,         \* LONG_RUNNING_COMMAND_MS
  Recent,       \* two minutes of aggregateEvents, HOT_FILE_WINDOW_MS
  HalfLife,     \* HOT_CHANGE_HALF_LIFE_MS
  RunWindow,    \* RUNNING_COMMAND_WINDOW_MS
  HotWindow,    \* HOT_CHANGE_WINDOW_MS
  MaxFeed,      \* MAX_RECENT_EVENTS
  MaxHot,       \* MAX_HOT_CHANGES
  MaxPerFamily, \* MAX_HOT_CHANGES_PER_FAMILY
  MaxFallbacks, \* fallbackCount
  MaxEdits, MaxDay \* bounds

AnyPatch == [by : Workers, absolute : BOOLEAN, told : BOOLEAN,
             action : {"edited", "created"}, phase : {"started", "completed"}]

ASSUME PatchesAssumption == Patches \subseteq AnyPatch
ASSUME TreeAssumption == Tree \in Seq([path : Seq(STRING), family : STRING])
ASSUME WorkersAssumption == IsFiniteSet(Workers)
ASSUME ActivityWindows ==
  /\ {Long, Recent, RunWindow, HotWindow} \subseteq Nat /\ HalfLife \in Nat \ {0}
  /\ Long <= Recent /\ Recent <= RunWindow /\ RunWindow <= HotWindow
ASSUME ActivityLimits ==
  MaxFeed \in Nat \ {0} /\ {MaxHot, MaxPerFamily, MaxFallbacks} \subseteq Nat

VARIABLES
  day,      \* the clock
  feed,     \* recentEvents, newest first
  doing,    \* [Workers -> [at, path, action, busy]]: what its thread says
  commands, \* [Commands -> [status, by, since, news]], as they really are
  changed,  \* the files git status reports
  touched   \* <<worker, file, day>>: who changed what

activityVars == <<day, feed, doing, commands, changed, touched>>

Nowhere == [file |-> 0, absolute |-> FALSE]
InProject(i) == [file |-> i, absolute |-> FALSE]

ActivityInit ==
  /\ day = 1
  /\ feed = <<>>
  /\ doing = [w \in Workers |-> [at |-> 0, path |-> Nowhere, action |-> "none", busy |-> FALSE]]
  /\ commands = [c \in Commands |-> [status |-> "none", by |-> "none", since |-> 0, news |-> 0]]
  /\ changed = {}
  /\ touched = {}

-----------------------------------------------------------------------------
(* What happens.  An event of a file is a patch that began or was applied, *)
(* one of a command its start, output or end, and an id that comes again   *)
(* replaces the event it had.                                              *)

Push(e) ==
  LET twice == {i \in DOMAIN feed : feed[i].id = e.id}
      old == IF twice = {} THEN Len(feed) + 1 ELSE CHOOSE i \in twice : TRUE
      size == Min({MaxFeed, Max({old, Len(feed)})})
  IN feed' = [i \in 1..size |->
                IF i = 1 THEN e ELSE IF i <= old THEN feed[i - 1] ELSE feed[i]]

\* The notification may be lost; the thread has the change all the same.
Edits(p, f) ==
  LET path == [file |-> f, absolute |-> p.absolute] IN
  /\ Cardinality(touched) < MaxEdits
  /\ doing' = [doing EXCEPT ![p.by] =
       [at |-> day, path |-> path, action |-> p.action, busy |-> TRUE]]
  /\ touched' = touched \union {<<p.by, f, day>>}
  /\ changed' = changed \union {f}
  /\ IF p.told
       THEN Push([id |-> <<"file", <<p.by, path, day>>, p.phase>>, kind |-> "fileChange",
                  by |-> p.by, at |-> day, path |-> path, action |-> p.action, phase |-> p.phase])
       ELSE UNCHANGED feed
  /\ UNCHANGED <<day, commands>>

CommandEvent(c, w, phase) ==
  [id |-> <<"command", c, phase>>, kind |-> "command", by |-> w, at |-> day,
   path |-> Nowhere, action |-> "none", phase |-> phase]

Starts(c, w) ==
  /\ commands[c].status = "none"
  /\ commands' = [commands EXCEPT ![c] =
       [status |-> "running", by |-> w, since |-> day, news |-> day]]
  /\ doing' = [doing EXCEPT ![w].at = day, ![w].busy = TRUE]
  /\ Push(CommandEvent(c, w, "started"))
  /\ UNCHANGED <<day, changed, touched>>

Tells(c, phase) ==
  LET w == commands[c].by IN
  /\ commands[c].status = "running"
  /\ commands' = [commands EXCEPT ![c].news = day,
                                  ![c].status = IF phase = "updated" THEN @ ELSE "ended"]
  /\ doing' = [doing EXCEPT ![w].at = day]
  /\ Push(CommandEvent(c, w, phase))
  /\ UNCHANGED <<day, changed, touched>>

\* The turn is over, and what it ran is gone without another word.
TurnEnds(w) ==
  /\ doing[w].busy
  /\ doing' = [doing EXCEPT ![w] = [@ EXCEPT !.busy = FALSE, !.at = day]]
  /\ commands' = [c \in Commands |->
       IF commands[c].by = w /\ commands[c].status = "running"
       THEN [commands[c] EXCEPT !.status = "gone"] ELSE commands[c]]
  /\ UNCHANGED <<day, feed, changed, touched>>

Commits(f) ==
  /\ f \in changed
  /\ changed' = changed \ {f}
  /\ UNCHANGED <<day, feed, doing, commands, touched>>

DayPasses ==
  /\ day < MaxDay
  /\ day' = day + 1
  /\ UNCHANGED <<feed, doing, commands, changed, touched>>

-----------------------------------------------------------------------------
(* The hot changes.                                                        *)

SameFile(l, r) == l.file = r.file

\* hotFilePathsMatch knows no root: an absolute path that ends in the other.
EndsIn(l, r) == l.absolute /\ ~r.absolute /\ IsSuffix(Tree[r.file].path, Tree[l.file].path)

Matches_AsWritten(l, r) == l = r
Matches(l, r) == l = r \/ EndsIn(l, r) \/ EndsIn(r, l)

\* addAgentHotFileEvents: what an agent changed last, as of its last sign of
\* life, unless an event of it is as fresh.
Supplements ==
  {[id |-> <<"latest", w, "updated">>, kind |-> "fileChange", by |-> w, at |-> doing[w].at,
    path |-> doing[w].path, action |-> doing[w].action, phase |-> "updated"] :
      w \in {v \in Workers :
        /\ doing[v].path # Nowhere
        /\ \A e \in ToSet(feed) :
             e.kind = "fileChange" /\ e.by = v /\ SameFile(e.path, doing[v].path)
               => e.at < doing[v].at}}

Changes ==
  {e \in ToSet(feed) \union Supplements : e.kind = "fileChange" /\ day - e.at <= HotWindow}

Weight(e) ==
  IF e.action \in {"created", "deleted"} THEN 7
  ELSE IF e.action = "moved" \/ e.phase = "completed" THEN 6
  ELSE IF e.phase = "started" THEN 4
  ELSE 3

Weights(es) ==
  LET Weighing(k) == Cardinality({e \in es : Weight(e) = k})
  IN 7 * Weighing(7) + 6 * Weighing(6) + 4 * Weighing(4) + 3 * Weighing(3)

\* In hundredths: from the oldest on, what is older is halved at a half-life.
Heat(es) ==
  LET Aged(age) == 100 * Weights({e \in es : day - e.at = age})
      heat[n \in 0..HotWindow] ==
        IF n = 0 THEN Aged(HotWindow)
        ELSE LET older == heat[n - 1]
             IN Aged(HotWindow - n)
                + (IF (HotWindow - n + 1) % HalfLife = 0 THEN older \div 2 ELSE older)
  IN heat[HotWindow]

ChangesOf(changes, path) == {e \in changes : e.path = path}

\* Changed again and again, a file is hotter yet.
Score(changes, path) ==
  LET es == ChangesOf(changes, path)
  IN (Heat(es) * (100 + Min({80, 12 * (Cardinality(es) - 1)}))) \div 100

LatestChange(changes, path) == Max({e.at : e \in ChangesOf(changes, path)})

Hotter(changes, p, q) ==
  LET sp == Score(changes, p) \div 10  sq == Score(changes, q) \div 10
      tp == LatestChange(changes, p)  tq == LatestChange(changes, q)
  IN \/ sp > sq
     \/ sp = sq /\ tp > tq
     \/ /\ sp = sq /\ tp = tq
        /\ (p.absolute /\ ~q.absolute) \/ (p.absolute = q.absolute /\ p.file < q.file)

\* HOT_CHANGE_MIN_SCORE is 1.2.
HotPaths(changes) == {p \in {e.path : e \in changes} : Score(changes, p) >= 120}

\* The i-th has i - 1 that are hotter.
Ranked(changes) ==
  LET hot == HotPaths(changes)
  IN [i \in 1..Cardinality(hot) |->
        CHOOSE p \in hot : Cardinality({q \in hot : Hotter(changes, q, p)}) = i - 1]

OfFamily(rows, path) ==
  Cardinality({i \in DOMAIN rows : Tree[rows[i].path.file].family = Tree[path.file].family})

Fits(rows, path) == Len(rows) < MaxHot /\ OfFamily(rows, path) < MaxPerFamily

Listed(rows, path) == \E i \in DOMAIN rows : Matches(rows[i].path, path)

Fallbacks(rows) == Cardinality({i \in DOMAIN rows : ~rows[i].typed})

\* Out of git status: a family that has no row goes first.
Takes(rows, offer) ==
  /\ Fits(rows, offer.path)
  /\ offer.pass # "hot" =>
       /\ offer.path.file \in changed /\ ~Listed(rows, offer.path)
       /\ Fallbacks(rows) < MaxFallbacks
  /\ offer.pass = "first" => OfFamily(rows, offer.path) = 0

\* What is hot, and git's files in order, twice.
Offers(changes) ==
  LET ranked == Ranked(changes)  n == Len(ranked)  m == Len(Tree)
  IN [i \in 1..(n + m + m) |->
        IF i <= n THEN [path |-> ranked[i], pass |-> "hot"]
        ELSE IF i <= n + m THEN [path |-> InProject(i - n), pass |-> "first"]
        ELSE [path |-> InProject(i - n - m), pass |-> "rest"]]

\* A row has the agents of its changes, of whom a snapshot names four.
RowFor(changes, offer) ==
  [path |-> offer.path, typed |-> offer.pass = "hot",
   agents |-> IF offer.pass = "hot" THEN {e.by : e \in ChangesOf(changes, offer.path)} ELSE {}]

HotChanges(changes) ==
  LET offers == Offers(changes)
      rows[n \in 0..Len(offers)] ==
        IF n = 0 THEN <<>>
        ELSE LET before == rows[n - 1]
             IN IF Takes(before, offers[n])
                THEN Append(before, RowFor(changes, offers[n])) ELSE before
  IN rows[Len(offers)]

-----------------------------------------------------------------------------
(* The commands that run.                                                  *)

EndPhases == {"completed", "failed", "interrupted"}

Of(c, es) == {e \in es : e.kind = "command" /\ e.id[2] = c}
Ended(es) == \E e \in es : e.phase \in EndPhases
Times(es) == {e.at : e \in es}

\* buildRunningCommands.
RunningCommands ==
  {[id |-> c, by |-> (CHOOSE e \in Of(c, ToSet(feed)) : TRUE).by,
    since |-> Min(Times(Of(c, ToSet(feed)))), news |-> Max(Times(Of(c, ToSet(feed))))] :
      c \in {d \in Commands :
        LET es == Of(d, ToSet(feed))
        IN es # {} /\ ~Ended(es) /\ day - Max(Times(es)) <= RunWindow}}

\* summarizeRunningCommandFromEvents: of the last two minutes only.
RecentOf(w) == {e \in ToSet(feed) : e.by = w /\ day - e.at <= Recent}

AgentCommands(w) ==
  LET known == {c \in Commands : Of(c, RecentOf(w)) # {} /\ ~Ended(Of(c, RecentOf(w)))}
      Began(es) == LET first == {e \in es : e.phase = "started"}
                   IN Min(Times(IF first # {} THEN first ELSE es))
  IN {[id |-> c, since |-> Began(Of(c, RecentOf(w))), news |-> Max(Times(Of(c, RecentOf(w))))] :
        c \in known}

\* Of several with the same news the order of the feed decides.
AgentCommand(w) ==
  {s \in AgentCommands(w) : \A t \in AgentCommands(w) : t.news <= s.news}

\* summarizeBlockers: a command that is long at work.
LongCommands(w) == {s \in AgentCommand(w) : day - s.since >= Long}

-----------------------------------------------------------------------------
SomeoneWorks ==
  \/ \E p \in Patches, f \in DOMAIN Tree : Edits(p, f)
  \/ \E c \in Commands, w \in Workers : Starts(c, w)
  \/ \E c \in Commands, phase \in {"updated", "completed", "failed"} : Tells(c, phase)
  \/ \E w \in Workers : TurnEnds(w)

ActivityNext ==
  \/ SomeoneWorks
  \/ \E f \in DOMAIN Tree : Commits(f)
  \/ DayPasses

ActivitySpec == ActivityInit /\ [][ActivityNext]_activityVars

-----------------------------------------------------------------------------
\* A command that ended is not said to run, by the project or its agent; one
\* that runs and was heard of lately is listed as whose it is, and never as
\* older than it is.
CommandsAreTrue ==
  /\ \A r \in RunningCommands :
       commands[r.id].status # "ended" /\ r.by = commands[r.id].by /\ r.since >= commands[r.id].since
  /\ \A c \in Commands :
       commands[c].status = "running" /\ day - commands[c].news <= RunWindow /\ Of(c, ToSet(feed)) # {}
         => \E r \in RunningCommands : r.id = c /\ r.news = commands[c].news
  /\ \A w \in Workers : \A s \in AgentCommand(w) :
       commands[s.id].status # "ended" /\ commands[s.id].by = w

\* A command whose start is of the last two minutes is told as long when it is.
LongOnesAreTold ==
  \A w \in Workers : \A s \in AgentCommand(w) :
    day - commands[s.id].since \in Long..Recent /\ (\E e \in ToSet(feed) : e.id = <<"command", s.id, "started">>)
      => s \in LongCommands(w)

\* Who is named on a hot file changed it, no file of git status stands next
\* to a row of the same file, and a change just made is on the board, if its
\* notification was lost too, unless the board is full of others.
ChangesAreTrue ==
  \A rows \in {HotChanges(c) : c \in {Changes}} :
  /\ \A i \in DOMAIN rows : \A w \in rows[i].agents :
       \E t \in touched : t[1] = w /\ t[2] = rows[i].path.file
  /\ \A i, j \in DOMAIN rows :
       i # j /\ SameFile(rows[i].path, rows[j].path) => rows[i].typed /\ rows[j].typed
  /\ \A w \in Workers :
       doing[w].at = day /\ doing[w].path # Nowhere =>
         ~Fits(rows, doing[w].path) \/ \E i \in DOMAIN rows : w \in rows[i].agents

\* The activity of a snapshot is what happened in the project: no ended
\* command runs and no running one is lost (domain/workspace-activity.ts:600),
\* long ones are told (snapshot-lib/activity-summary.ts:162), and the hot
\* changes name who made them and no file twice on git's account.
ActivityIsTrue == CommandsAreTrue /\ LongOnesAreTold /\ ChangesAreTrue
===============================================================================
