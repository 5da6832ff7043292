------------------------------- MODULE MCServer -------------------------------
(***************************************************************************)
(* What the server puts together out of several sources, in one run: the   *)
(* snapshots of a ProjectSnapshotCoordinator, the activity a project shows *)
(* in them, the Codex threads its queries find, and the                    *)
(* IntegrationSettings of the machine.  The system under check is one of   *)
(* them, and the others stay as they began.                                *)
(***************************************************************************)
EXTENDS SnapshotCoordinator, IntegrationSettings, WorkspaceActivity, CodexSessionFiles

CONSTANTS c1, s1, s2, w1, w2, k1, k2, f1, f2, q1, q2

VARIABLE which

serverSideVars == <<vars, settingsVars, activityVars, sessionVars, which>>

\* A file at the root has the name of one below it, as an index or a readme.
ActivityTree ==
  <<[path |-> <<"notes">>, family |-> "docs"], [path |-> <<"src", "index">>, family |-> "code"],
    [path |-> <<"index">>, family |-> "code"]>>

Settings == {"store", "popup"}

AtServer(ps) ==
  {i \in DOMAIN ps : ps[i].server \notin {"sent", "answered", "failed"}}
Unhandled(ps) == {i \in DOMAIN ps : ps[i].server = "sent"}
AtPage(ps) ==
  {i \in DOMAIN ps : ps[i].page = "waiting" /\ ps[i].server \in {"answered", "failed"}}

\* Saves overlap and the server dies, while a text typed before is saved, and
\* the page takes what comes at once and gives nothing up by itself.
InTheStore ==
  /\ texts' <= 1 /\ (posts' # <<>> => texts' = 1)
  /\ Len(posts') > Len(posts) =>
       LET p == posts'[Len(posts')] IN p.field # "none" => p.value # 0
  /\ AtPage(posts) # {} => AtPage(posts') # AtPage(posts)
  /\ AtPage(posts) = {} /\ Unhandled(posts) # {} => Unhandled(posts') # Unhandled(posts)
  /\ \A i \in DOMAIN posts : posts'[i].page = "failed" => posts'[i].server = "failed"

\* Answers cross and are given up, while a save takes no time.
InThePopup ==
  /\ ~damaged' /\ starts' = starts
  /\ AtServer(posts) # {} =>
       /\ popupVars' = popupVars /\ texts' = texts
       /\ DOMAIN posts' = DOMAIN posts /\ Unhandled(posts') = Unhandled(posts)
       /\ \A i \in AtServer(posts) : posts'[i].server # "failed"
  /\ Len(posts) <= 1 => texts' <= 1
  /\ posts = <<>> \/ (Len(posts) = 1 /\ posts[1].page = "waiting") => Len(posts') <= 1

\* One agent is at the desktop and the other in a container, so that they
\* spell a path differently; a patch of the second is not told.
ServerPatches ==
  {p \in [by : {w1}, absolute : {TRUE}, told : BOOLEAN,
          action : {"edited"}, phase : {"started", "completed"}] :
     p.told \/ p.phase = "completed"}
  \union [by : {w2}, absolute : {FALSE}, told : {FALSE},
          action : {"created"}, phase : {"completed"}]

\* Commands run where no file is changed, or one begins when two were, and a
\* turn that changed files goes on.
AtWork ==
  /\ touched' # touched => \A c \in Commands : commands[c].status = "none"
  /\ touched' # {} =>
       /\ \A w \in Workers : doing[w].busy => doing'[w].busy
       /\ commands' # commands =>
            /\ commands'[k1].news = commands'[k1].since
            /\ commands'[k2].status = "none" /\ Cardinality(touched) = MaxEdits
       /\ touched' = touched => feed' = feed \/ commands' # commands
       /\ changed' # changed /\ changed' \subseteq changed => Cardinality(touched') = MaxEdits
  /\ commands'[k1].by # w2
  /\ commands'[k2].status # "none" => commands[k1].status # "none"

\* The second session was spawned by the first.
SpawnedBy == [f \in Files |-> IF f = f2 THEN f1 ELSE None]

Sessions == {"scans", "reads", "merges"}

FirstLine(f) == log[f].lines[1]

SessionsBegin(w) ==
  /\ log[f1].there /\ \A f \in Files : ~log[f].torn
  /\ CASE w = "scans"  -> FirstLine(f1) = "top" /\ FirstLine(f2) = "top" /\ ~log[f2].there
       [] w = "reads"  -> /\ FirstLine(f1) \in {"top", "marked"}
                          /\ FirstLine(f2) \in {"sub", "elsewhere"} /\ log[f2].there
       [] w = "merges" -> FirstLine(f1) \in {"top", "sub"} /\ FirstLine(f2) = "sub" /\ log[f2].there
       [] OTHER        -> FirstLine(f1) = "top" /\ FirstLine(f2) = "top" /\ log[f2].there

Neither(stages) == \A q \in Queries : query[q].stage \notin stages

\* Only the first query's scans fail, and the first query begins first.
Sure == \A q \in Queries, f \in Files : job'[q][f].probe # "unknown" /\ (job'[q][f].failed => q = q1)
InTurn == asked' = 1 => query'[q1].stage # "idle"

QuerySteps == \E q \in Queries : QueryStep(q) \/ QueryBegins(q, NoRows)

\* One file grows while two queries scan it, one after the other or at once.
Scans ==
  /\ \/ QuerySteps
     \/ \E q \in Queries : JobStep(q, f1)
     \/ Neither({"probing", "reading"}) /\ EndsLine(f1)
     \/ /\ Neither({"probing", "reading"})
        /\ \E x \in {<<"started", TRUE>>, <<"started", FALSE>>, <<"complete", FALSE>>, <<"long", TRUE>>} :
             Appends(f1, x[1], x[2])
  /\ Sure /\ InTurn
  /\ asked' # asked => Neither({"probing", "reading"})
  /\ job'[q1][f1].failed => now > 2

\* Two queries read both files, one of which is written anew, and none grows.
Reads ==
  /\ \/ QuerySteps
     \/ \E q \in Queries, f \in Files : JobStep(q, f)
     \/ now = 1 /\ \E m \in {"top", "sub", "marked"} : Replaced(f1, m)
  /\ InTurn
  /\ asked' = 2 => query'[q2].stage # "idle"
  /\ \A q \in Queries, f \in Files :
       /\ job'[q][f].probe = "unknown" => job'[q][f].owner = None /\ q = q1
       /\ job'[q][f].failed => q = q1 \/ job[q1][f].at \in {"joined", "told"}

\* One query after another merges what both files say with what is listed.
Merging ==
  /\ \/ QueryStep(q1)
     \/ \E f \in Files : JobStep(q1, f) \/ PushedOut(f)
     \/ (now = 1 \/ asked = 1) /\ \E rows \in Rows : QueryBegins(q1, rows)
     \/ /\ Neither({"probing", "scanning", "reading"}) /\ now < 3
        /\ \/ SessionTimePasses
           \/ now = 2 /\ Len(log[f1].lines) = 1 /\ Vanishes(f2)
           \/ \E line \in {"started", "aborted", "long"} : Appends(f1, line, FALSE)
           \/ \E line \in {"started", "complete"} : Appends(f2, line, FALSE)
  /\ Sure /\ \A f \in Files : Len(log'[f].lines) <= 2

ServerSideInit ==
  /\ Init /\ SettingsInit /\ ActivityInit /\ SessionsInit
  /\ which \in {"assembly", "activity"} \union Settings \union Sessions
  /\ SessionsBegin(which)

ServerSideNext ==
  /\ UNCHANGED which
  /\ \/ which = "assembly" /\ Next /\ UNCHANGED <<settingsVars, activityVars, sessionVars>>
     \/ which = "store" /\ SettingsNext /\ InTheStore
        /\ UNCHANGED <<vars, activityVars, sessionVars>>
     \/ which = "popup" /\ SettingsNext /\ InThePopup
        /\ UNCHANGED <<vars, activityVars, sessionVars>>
     \/ which = "activity" /\ ActivityNext /\ AtWork
        /\ UNCHANGED <<vars, settingsVars, sessionVars>>
     \/ which = "scans" /\ Scans /\ UNCHANGED <<vars, settingsVars, activityVars>>
     \/ which = "reads" /\ Reads /\ UNCHANGED <<vars, settingsVars, activityVars>>
     \/ which = "merges" /\ Merging /\ UNCHANGED <<vars, settingsVars, activityVars>>

ServerSideSpec ==
  ServerSideInit /\ [][ServerSideNext]_serverSideVars /\ SettingsFairness
===============================================================================
