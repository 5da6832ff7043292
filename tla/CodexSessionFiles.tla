-------------------------- MODULE CodexSessionFiles --------------------------
(***************************************************************************)
(* How the Codex threads of a project are found: the app-server's list     *)
(* (core/src/codex-thread-query.ts), the session files Codex writes        *)
(* (core/src/codex-session-files.ts), which several queries read at the    *)
(* same time, and the choice among them (core/src/local-thread-selection). *)
(*                                                                         *)
(* A file is its lines, and each line two pieces, the second of which ends *)
(* it: a file whose last line is torn has one piece less.  A session is    *)
(* known by its file.  A query is a call of                                *)
(* listCodexProjectThreadCandidates(), and its work on a file a job.       *)
(***************************************************************************)
EXTENDS Integers, Sequences, FiniteSets

CONSTANTS
  Files, Queries,
  None,
  Parent,               \* the session a session was spawned by, or None
  Slots,                \* SESSION_FULL_READ_CONCURRENCY
  MetaWorkers,          \* SESSION_META_READ_CONCURRENCY
  MaxFiles,             \* maxFiles
  Recency, Window,      \* SESSION_FILE_RECENCY_MS, ACTIVE_TOP_LEVEL_SESSION_FILE_WINDOW_MS
  LocalLimit,
  LineKinds,            \* what Codex may write in a line
  RowStatuses,          \* of the threads the app-server lists
  MaxLines, MaxNow, MaxAsked   \* bounds

ASSUME SessionBoundsAssumption ==
  /\ IsFiniteSet(Files) /\ IsFiniteSet(Queries) /\ None \notin Files \union Queries
  /\ {Slots, MetaWorkers} \subseteq Nat \ {0} /\ RowStatuses \subseteq STRING
  /\ {MaxFiles, Recency, Window, LocalLimit, MaxLines, MaxNow, MaxAsked} \subseteq Nat

VARIABLES
  log,         \* the session files
  now,
  metaCache,   \* sessionMetaCache
  wordCache,   \* sessionLifecycleCache
  active,      \* activeFullSessionReads
  waiters,     \* fullSessionReadWaiters
  query,       \* the stage of each query, the app-server's rows, its result, and,
               \* as a history, the sessions whose files said that they run
  job,         \* the work of each query on each file
  asked        \* the queries there were

sessionVars ==
  <<log, now, metaCache, wordCache, active, waiters, query, job, asked>>

-----------------------------------------------------------------------------
(* Files and what is read of them *)

\* A first line: of a session of the project, of a subagent, of one that only
\* thread_source says is a subagent, and of a subagent of another project.
Metas == {"top", "sub", "marked", "elsewhere"}
Words == {"started", "complete", "aborted"}

\* A "long" line is a task_complete over SESSION_LIFECYCLE_LINE_LIMIT.
TaskEvents == Words \union {"long"}

Whole(d) == Len(d.lines) - (IF d.torn THEN 1 ELSE 0)
Size(d) == 2 * Len(d.lines) - (IF d.torn THEN 1 ELSE 0)

LastOf(S) == IF S = {} THEN 0 ELSE CHOOSE i \in S : \A j \in S : j <= i

\* The last of the first k lines that is one of S; 0: none.
LastIn(ls, k, S) == LastOf({i \in 1..k : ls[i] \in S})

\* An entry of the cache: how many pieces were read, the last task event in them,
\* and the line that was not yet whole, unless it is too long to be kept
\* (discardingLongLine).  A file is a new one since its epoch, the time it was
\* written anew; the epoch is 0 when the pieces are not of one file.
NothingRead == [size |-> 0, word |-> None, partial |-> None, epoch |-> 0]

ScannedTo_ForgetsPartial(acc, d, n) ==
  LET words == {i \in 1..Len(d.lines) :
                  2 * i <= n /\ 2 * i > acc.size + 1 /\ d.lines[i] \in Words}
      line == d.lines[(n + 1) \div 2] IN
  IF n <= acc.size THEN acc
    ELSE [size |-> n,
          word |-> IF words = {} THEN acc.word ELSE d.lines[LastOf(words)],
          partial |-> IF n % 2 = 1 /\ line # "long" THEN line ELSE None,
          epoch |-> IF acc.size = 0 \/ acc.epoch = d.epoch THEN d.epoch ELSE 0]

\* scanSessionLifecycleLines() of the pieces after those of acc up to the n-th: the
\* lines that begin in them, and the one that acc has the beginning of.
ScannedTo(acc, d, n) ==
  LET whole(i) == 2 * i > acc.size + 1 \/ (2 * i > acc.size /\ acc.partial = d.lines[i])
      words == {i \in 1..Len(d.lines) : 2 * i <= n /\ whole(i) /\ d.lines[i] \in Words}
      line == d.lines[(n + 1) \div 2] IN
  IF n <= acc.size THEN acc
    ELSE [size |-> n,
          word |-> IF words = {} THEN acc.word ELSE d.lines[LastOf(words)],
          partial |-> IF n % 2 = 1 /\ line # "long" THEN line ELSE None,
          epoch |-> IF acc.size = 0 \/ acc.epoch = d.epoch THEN d.epoch ELSE 0]

\* readSessionMetaPrefix() of the first bytes of a file, as many as were listed.
Probed(d, size) ==
  IF d.there /\ size >= 2 /\ d.lines[1] \in Metas
    THEN IF d.lines[1] = "marked" THEN "sub" ELSE d.lines[1]
    ELSE "unknown"

TurnOf(event) ==
  IF event = "started" THEN "inProgress"
  ELSE IF event = "aborted" THEN "interrupted" ELSE "completed"

\* parseCodexSessionThreadFromJsonl(): None unless a subagent wrote the file.
Parsed(d, at) ==
  LET meta == LastIn(d.lines, Whole(d), Metas)
      last == LastIn(d.lines, Whole(d), TaskEvents) IN
  IF ~d.there \/ meta = 0 \/ d.lines[meta] = "top" THEN None
    ELSE [status |-> IF last # 0 /\ d.lines[last] = "started" THEN "active"
                                                              ELSE "notLoaded",
          turn |-> IF last = 0 THEN "none" ELSE TurnOf(d.lines[last]),
          at |-> at, live |-> FALSE, meta |-> d.lines[meta],
          epoch |-> d.epoch, upTo |-> Whole(d)]

-----------------------------------------------------------------------------
(* The files change *)

WrittenTo(f, lines, torn) ==
  [log[f] EXCEPT !.lines = lines, !.torn = torn, !.stamp = now + 1]

FileUnread == UNCHANGED <<metaCache, wordCache, active, waiters, query, job, asked>>

FileBecomes(f, d) ==
  /\ now < MaxNow
  /\ now' = now + 1
  /\ log' = [log EXCEPT ![f] = d]
  /\ FileUnread

Appends(f, line, torn) ==
  /\ log[f].there /\ ~log[f].torn /\ Len(log[f].lines) < MaxLines
  /\ FileBecomes(f, WrittenTo(f, Append(log[f].lines, line), torn))

EndsLine(f) ==
  /\ log[f].there /\ log[f].torn
  /\ FileBecomes(f, WrittenTo(f, log[f].lines, FALSE))

\* The file is written anew, under its name.
Replaced(f, line) ==
  FileBecomes(f, [lines |-> <<line>>, torn |-> FALSE, stamp |-> now + 1,
                  there |-> TRUE, epoch |-> now + 1])

Vanishes(f) ==
  /\ log[f].there
  /\ FileBecomes(f, [log[f] EXCEPT !.there = FALSE])

SessionTimePasses == now < MaxNow /\ now' = now + 1 /\ UNCHANGED log /\ FileUnread

\* Other files push what is known of this one out of the caches
\* (SESSION_META_CACHE_LIMIT, SESSION_LIFECYCLE_CACHE_LIMIT).
PushedOut(f) ==
  /\ metaCache' = [metaCache EXCEPT ![f] = None]
  /\ wordCache' = [wordCache EXCEPT ![f] = None]
  /\ UNCHANGED <<log, now, active, waiters, query, job, asked>>

-----------------------------------------------------------------------------
(* Jobs *)

NoJob == [at |-> "out", seen |-> None, probe |-> None, owner |-> None,
          acc |-> NothingRead, thread |-> None, failed |-> FALSE]

Busy == {"probing", "scanning", "queued", "reading", "joined"}

ListedFiles == {f \in Files : log[f].there /\ now - log[f].stamp <= Recency}

\* listRecentSessionFiles(): the newest files.
NewestFiles ==
  {f \in ListedFiles : Cardinality({g \in ListedFiles : log[g].stamp > log[f].stamp}) < MaxFiles}

Seen(f) == [stamp |-> log[f].stamp, size |-> Size(log[f])]

JobsAt(q, places) == {f \in Files : job[q][f].at \in places}

\* mapWithConcurrency(): the newest of those that wait is next; a worker whose file
\* could not be scanned takes no other.
WorkersOf(q) ==
  {f \in Files : job[q][f].at \in Busy \/ (job[q][f].at = "scanned" /\ job[q][f].failed)}

NextUp(q, f, place, workers) ==
  /\ job[q][f].at = place
  /\ \A g \in JobsAt(q, {place}) : job[q][g].seen.stamp <= job[q][f].seen.stamp
  /\ Cardinality(WorkersOf(q)) < workers

NoRows == [f \in Files |-> None]
Idle == [stage |-> "idle", rows |-> NoRows, result |-> NoRows, tracked |-> {}, running |-> {}]

JobIs(q, f, j) == job' = [job EXCEPT ![q][f] = j]

\* A thread as the app-server lists it, without its turns.
Row(status, at) ==
  [status |-> status, turn |-> "none", at |-> at, live |-> FALSE, meta |-> "row",
   epoch |-> 0, upTo |-> 0]

Rows == [Files -> {None} \union {Row(s, t) : s \in RowStatuses, t \in {1, now}}]

\* The app-server has listed the threads of the project (scopedThreads), and the
\* session files are listed.
QueryBegins(q, rows) ==
  /\ query[q].stage \in {"idle", "done", "failed"} /\ JobsAt(q, Busy) = {}
  /\ JobsAt(q, {"to scan"}) = {} \/ Cardinality(WorkersOf(q)) >= MetaWorkers
  /\ asked < MaxAsked /\ asked' = asked + 1
  /\ query' = [query EXCEPT ![q] = [Idle EXCEPT !.stage = "probing", !.rows = rows]]
  /\ job' = [job EXCEPT ![q] =
       [f \in Files |-> IF f \in NewestFiles THEN [NoJob EXCEPT !.at = "listed", !.seen = Seen(f)]
                                        ELSE NoJob]]
  /\ UNCHANGED <<log, now, metaCache, wordCache, active, waiters>>

\* getSessionMetaProbe(): the promise in the cache when its signature is that
\* of the listing, which another query may still wait for (owner), or a new one.
ProbeStarts(q, f) ==
  LET j == job[q][f]
      cached == metaCache[f] # None /\ metaCache[f].stamp = j.seen.stamp IN
  /\ query[q].stage = "probing" /\ NextUp(q, f, "listed", MetaWorkers)
  /\ IF cached
       THEN /\ JobIs(q, f, [j EXCEPT !.at = IF metaCache[f].owner = None THEN "probed"
                                                                       ELSE "probing",
                                     !.probe = metaCache[f].probe,
                                     !.owner = metaCache[f].owner])
            /\ UNCHANGED metaCache
       ELSE /\ JobIs(q, f, [j EXCEPT !.at = "probing", !.owner = q])
            /\ metaCache' = [metaCache EXCEPT ![f] =
                 [stamp |-> j.seen.stamp, owner |-> q, probe |-> None]]
  /\ UNCHANGED <<log, now, wordCache, active, waiters, query, asked>>

\* The prefix is read, or cannot be, and all that wait for the promise go on.
ProbeReads(q, f, probe) ==
  LET waits(r) == job[r][f].at = "probing" /\ job[r][f].owner = q IN
  /\ waits(q)
  /\ probe \in {"unknown", Probed(log[f], job[q][f].seen.size)}
  /\ job' = [r \in Queries |-> [job[r] EXCEPT ![f] =
       IF waits(r) THEN [job[r][f] EXCEPT !.at = "probed", !.probe = probe, !.owner = None]
                   ELSE job[r][f]]]
  /\ metaCache' = IF metaCache[f] # None /\ metaCache[f].owner = q
       THEN [metaCache EXCEPT ![f].owner = None, ![f].probe = probe] ELSE metaCache
  /\ UNCHANGED <<log, now, wordCache, active, waiters, query, asked>>

\* The sessions of the project that were written of late are scanned.
ScansBegin(q) ==
  /\ query[q].stage = "probing"
  /\ JobsAt(q, {"listed", "probing"}) = {}
  /\ query' = [query EXCEPT ![q].stage = "scanning"]
  /\ job' = [job EXCEPT ![q] = [f \in Files |->
       LET j == job[q][f] IN
       IF j.at # "probed" THEN j
       ELSE [j EXCEPT !.at = IF j.probe = "top" /\ now - j.seen.stamp <= Window
                               THEN "to scan" ELSE "scanned"]]]
  /\ UNCHANGED <<log, now, metaCache, wordCache, active, waiters, asked>>

ScanStarts(q, f) ==
  LET cached == wordCache[f]
      canContinue == cached # None /\ cached.size <= job[q][f].seen.size IN
  /\ NextUp(q, f, "to scan", MetaWorkers)
  /\ JobIs(q, f, [job[q][f] EXCEPT !.at = "scanning",
                                   !.acc = IF canContinue THEN cached ELSE NothingRead])
  /\ UNCHANGED <<log, now, metaCache, wordCache, active, waiters, query, asked>>

LiveThread(j, acc) ==
  [status |-> "active", turn |-> "inProgress", at |-> j.seen.stamp, live |-> TRUE,
   meta |-> "top", epoch |-> acc.epoch, upTo |-> acc.size \div 2]

\* The file is read as far as it was listed, or as it goes.
ScanEnds(q, f) ==
  LET j == job[q][f]
      end == IF j.seen.size <= Size(log[f]) THEN j.seen.size ELSE Size(log[f])
      acc == ScannedTo(j.acc, log[f], end) IN
  /\ j.at = "scanning"
  /\ wordCache' = [wordCache EXCEPT ![f] = acc]
  /\ JobIs(q, f, [j EXCEPT !.at = "scanned", !.acc = acc,
                           !.thread = IF acc.word = "started" THEN LiveThread(j, acc) ELSE None])
  /\ UNCHANGED <<log, now, metaCache, active, waiters, query, asked>>

\* open() or read() rejects, and with it the query; its other scans go on.
ScanFails(q, f) ==
  /\ job[q][f].at = "scanning"
  /\ JobIs(q, f, [job[q][f] EXCEPT !.at = "scanned", !.failed = TRUE])
  /\ query' = [query EXCEPT ![q].stage = "failed"]
  /\ UNCHANGED <<log, now, metaCache, wordCache, active, waiters, asked>>

\* Subagents of the project are read whole, and so are files whose first line
\* says nothing.
ReadsBegin(q) ==
  /\ query[q].stage = "scanning"
  /\ JobsAt(q, {"to scan", "scanning"}) = {}
  /\ query' = [query EXCEPT ![q].stage = "reading"]
  /\ job' = [job EXCEPT ![q] = [f \in Files |->
       LET j == job[q][f] IN
       IF j.at # "scanned" THEN j
       ELSE [j EXCEPT !.at = IF j.probe \in {"unknown", "sub"} THEN "to read" ELSE "told"]]]
  /\ UNCHANGED <<log, now, metaCache, wordCache, active, waiters, asked>>

\* The query that reads the file for this listing of it, if one does.
Reading(q, f) ==
  {r \in Queries : /\ job[r][f].at \in {"queued", "reading"}
                   /\ job[r][f].seen.stamp = job[q][f].seen.stamp}

\* readAndParseSessionFile() and acquireFullSessionReadSlot()
ReadStarts(q, f) ==
  LET j == job[q][f] IN
  /\ NextUp(q, f, "to read", Slots)
  /\ IF Reading(q, f) # {}
       THEN /\ \E r \in Reading(q, f) : JobIs(q, f, [j EXCEPT !.at = "joined", !.owner = r])
            /\ UNCHANGED <<active, waiters, asked>>
     ELSE IF active < Slots
       THEN /\ JobIs(q, f, [j EXCEPT !.at = "reading"])
            /\ active' = active + 1 /\ UNCHANGED waiters
       ELSE /\ JobIs(q, f, [j EXCEPT !.at = "queued"])
            /\ waiters' = Append(waiters, <<q, f>>) /\ UNCHANGED active
  /\ UNCHANGED <<log, now, metaCache, wordCache, query, asked>>

\* A parsed file is known by its thread, which has no thread_source.
KnownAs(thread) == IF thread.meta = "marked" THEN "top" ELSE thread.meta

\* The read ends, well or not; releaseFullSessionReadSlot() gives the slot to the
\* first that waits for one.
ReadEnds(q, f, ok) ==
  LET thread == IF ok THEN Parsed(log[f], job[q][f].seen.stamp) ELSE None
      joined(r) == job[r][f].at = "joined" /\ job[r][f].owner = q
      told(j) == [j EXCEPT !.at = "told", !.thread = thread, !.owner = None, !.failed = ~ok] IN
  /\ job[q][f].at = "reading"
  /\ ok => log[f].there
  /\ job' = [r \in Queries |-> [g \in Files |->
       IF g = f /\ (r = q \/ joined(r)) THEN told(job[r][g])
       ELSE IF waiters # <<>> /\ <<r, g>> = Head(waiters)
         THEN [job[r][g] EXCEPT !.at = "reading"]
       ELSE job[r][g]]]
  /\ IF waiters # <<>> THEN waiters' = Tail(waiters) /\ UNCHANGED active
                       ELSE active' = active - 1 /\ UNCHANGED waiters
  /\ metaCache' = IF thread = None THEN metaCache
       ELSE [metaCache EXCEPT ![f] = [stamp |-> job[q][f].seen.stamp, owner |-> None,
                                      probe |-> KnownAs(thread)]]
  /\ UNCHANGED <<log, now, wordCache, query, asked>>

-----------------------------------------------------------------------------
(* The result *)

\* mergeThreadLists() of the app-server's row of a session and what its file says.
Merged(row, found) ==
  IF found = None THEN row
  ELSE IF row = None THEN found
  ELSE IF found.live
    THEN [row EXCEPT !.status = "active", !.turn = "inProgress", !.live = TRUE,
                     !.at = IF found.at > row.at THEN found.at ELSE row.at]
  ELSE IF found.at > row.at \/ (found.at = row.at /\ found.turn # "none") THEN found
  ELSE row

\* What the session files tell: a session of another project is left out.
Found(q, f) ==
  LET thread == job[q][f].thread IN
  IF thread # None /\ thread.meta = "elsewhere" THEN None ELSE thread

All(q, rows) == [f \in Files |-> Merged(rows[f], Found(q, f))]

Related(f, g) == Parent[f] = g \/ Parent[g] = f

\* selectProjectThreadsWithParents(): the active threads, and the newest others up
\* to the limit, with all their parents and children.
Selected(all) ==
  LET known == {f \in Files : all[f] # None}
      busy == {f \in known : all[f].status = "active"}
      ahead(f) == {g \in known \ busy : all[g].at > all[f].at}
      first == busy \union {f \in known \ busy :
                               Cardinality(busy) + Cardinality(ahead(f)) < LocalLimit}
      closed(S) == first \subseteq S /\ \A f \in S : \A g \in known : Related(f, g) => g \in S
  IN {f \in known : \A S \in SUBSET known : closed(S) => f \in S}

QueryDone(q, all) ==
  /\ query' = [query EXCEPT ![q] =
       [stage |-> "done", rows |-> NoRows, result |-> all, tracked |-> Selected(all),
        running |-> {f \in Files : Found(q, f) # None /\ Found(q, f).live}]]
  /\ job' = [job EXCEPT ![q] = [f \in Files |-> NoJob]]

\* The project's threads by cwd, or, when there are none, a list of all threads.
Merges(q) ==
  LET all == All(q, query[q].rows) IN
  /\ query[q].stage = "reading"
  /\ JobsAt(q, Busy \union {"to read"}) = {}
  /\ IF Selected(all) # {}
       THEN QueryDone(q, all)
       ELSE /\ query' = [query EXCEPT ![q].stage = "unscoped", ![q].result = all]
            /\ UNCHANGED job
  /\ UNCHANGED <<log, now, metaCache, wordCache, active, waiters, asked>>

UnscopedFails(q) ==
  /\ query[q].stage = "unscoped"
  /\ query' = [query EXCEPT ![q].stage = "failed"]
  /\ job' = [job EXCEPT ![q] = [f \in Files |-> NoJob]]
  /\ UNCHANGED <<log, now, metaCache, wordCache, active, waiters, asked>>

UnscopedRows(q, rows) ==
  LET all == All(q, rows) IN
  /\ query[q].stage = "unscoped"
  /\ QueryDone(q, IF Selected(all) = {} THEN query[q].result ELSE all)
  /\ UNCHANGED <<log, now, metaCache, wordCache, active, waiters, asked>>

-----------------------------------------------------------------------------
SessionsInit ==
  /\ now = 1
  /\ log \in [Files -> {[lines |-> <<m>>, torn |-> t, stamp |-> 1, there |-> b, epoch |-> 1] :
                          m \in LineKinds \ TaskEvents, t, b \in BOOLEAN}]
  /\ metaCache = [f \in Files |-> None] /\ wordCache = [f \in Files |-> None]
  /\ active = 0 /\ waiters = <<>> /\ asked = 0
  /\ query = [q \in Queries |-> Idle]
  /\ job = [q \in Queries |-> [f \in Files |-> NoJob]]

JobStep(q, f) ==
  \/ ProbeStarts(q, f) \/ ScanStarts(q, f) \/ ScanEnds(q, f)
  \/ ScanFails(q, f) \/ ReadStarts(q, f)
  \/ \E p \in {"unknown", "top", "sub", "elsewhere"} : ProbeReads(q, f, p)
  \/ \E ok \in BOOLEAN : ReadEnds(q, f, ok)

QueryStep(q) ==
  \/ ScansBegin(q) \/ ReadsBegin(q) \/ Merges(q) \/ UnscopedFails(q)
  \/ \E rows \in Rows : UnscopedRows(q, rows)

FileStep(f) ==
  \/ \E line \in LineKinds, torn \in BOOLEAN : Appends(f, line, torn)
  \/ \E line \in LineKinds \ TaskEvents : Replaced(f, line)
  \/ EndsLine(f) \/ Vanishes(f) \/ PushedOut(f)

SessionsNext ==
  \/ \E q \in Queries : QueryStep(q) \/ \E rows \in Rows : QueryBegins(q, rows)
  \/ \E q \in Queries, f \in Files : JobStep(q, f)
  \/ \E f \in Files : FileStep(f)
  \/ SessionTimePasses

SessionsSpec == SessionsInit /\ [][SessionsNext]_sessionVars

-----------------------------------------------------------------------------
\* What one reading of a file has come to, as far as the file is still the same,
\* is what its first pieces say: the last task event in a line that is not too
\* long, and the line that is not yet whole, however often the reading was
\* continued by another query and wherever it stopped.
TrueScan(acc, d) ==
  LET last == LastIn(d.lines, acc.size \div 2, Words)
      odd == acc.size % 2 = 1
      line == d.lines[acc.size \div 2 + 1] IN
  (acc.size > 0 /\ acc.epoch = d.epoch) =>
    /\ acc.size <= Size(d)
    /\ acc.word = IF last = 0 THEN None ELSE d.lines[last]
    /\ acc.partial = IF odd /\ line # "long" THEN line ELSE None

ScansAreTrue ==
  \A f \in Files :
    /\ wordCache[f] # None => TrueScan(wordCache[f], log[f])
    /\ \A q \in Queries : job[q][f].at = "scanning" => TrueScan(job[q][f].acc, log[f])

\* A session of the project that was listed, and is still the same file, is told
\* as active if and only if the last task event it was listed with is a start;
\* a subagent is told with the state of its last task event, unless its file could
\* not be read or has the first line of another session as well.  (A subagent that
\* only its thread_source calls one is taken for a session once it has been read:
\* sessionSourceIsSubagent(thread.source, null).)
ToldTruly(j, d) ==
  LET first == d.lines[1]
      listed == LastIn(d.lines, j.seen.size \div 2, Words) IN
  /\ j.probe = "top" /\ ~j.failed /\ j.seen.stamp >= d.epoch /\ j.acc.epoch = d.epoch
        => (j.thread # None <=> listed # 0 /\ d.lines[listed] = "started")
  /\ first = "sub" /\ LastIn(d.lines, Len(d.lines), Metas) = 1
     /\ j.seen.stamp >= d.epoch /\ j.seen.size >= 2 /\ ~j.failed
        => j.thread # None /\ ~j.thread.live
  /\ j.thread # None /\ j.thread.epoch = d.epoch
        => LET e == LastIn(d.lines, j.thread.upTo, IF j.thread.live THEN Words ELSE TaskEvents)
           IN j.thread.status = "active" <=> e # 0 /\ d.lines[e] = "started"

ThreadsAreTrue ==
  \A q \in Queries, f \in Files : job[q][f].at = "told" => ToldTruly(job[q][f], log[f])

\* No more files are read whole at a time than there are slots, a slot is free
\* only while nobody waits for one, and no listing of a file is read twice at
\* once.  Who waits, waits for somebody: for a slot in the queue, or for the query
\* whose promise it was given and which is still at it.
Claims == {x \in Queries \X Files : job[x[1]][x[2]].at \in {"queued", "reading"}}
Holders == {x \in Claims : job[x[1]][x[2]].at = "reading"}

SlotsAreKept ==
  /\ active = Cardinality(Holders) /\ active <= Slots
  /\ waiters # <<>> => active = Slots
  /\ {waiters[i] : i \in DOMAIN waiters} = Claims \ Holders
  /\ \A i, k \in DOMAIN waiters : waiters[i] = waiters[k] => i = k

SameListing(q, r, f) == job[q][f].seen.stamp = job[r][f].seen.stamp

NobodyWaitsInVain ==
  \A f \in Files :
    /\ \A q, r \in Queries :
         <<q, f>> \in Claims /\ <<r, f>> \in Claims /\ SameListing(q, r, f) => q = r
    /\ \A q \in Queries : job[q][f].at = "joined" =>
         /\ job[q][f].owner \in Queries
         /\ <<job[q][f].owner, f>> \in Claims /\ SameListing(q, job[q][f].owner, f)
    /\ \A q \in Queries : job[q][f].at = "probing" =>
         LET r == job[q][f].owner IN
         /\ r \in Queries /\ SameListing(q, r, f)
         /\ job[r][f].at = "probing" /\ job[r][f].owner = r
    /\ metaCache[f] # None /\ metaCache[f].owner # None =>
         LET r == metaCache[f].owner IN
         /\ r \in Queries /\ metaCache[f].stamp = job[r][f].seen.stamp
         /\ job[r][f].at = "probing" /\ job[r][f].owner = r

ReadsAreShared == SlotsAreKept /\ NobodyWaitsInVain

\* A session whose file says that it runs is in the result as an active thread,
\* whatever the app-server lists, and with a tracked thread come its parent and
\* its children.
ResultsAreTrue ==
  \A q \in Queries :
    /\ \A f \in query[q].running : query[q].result[f].status = "active" /\ f \in query[q].tracked
    /\ \A f \in query[q].tracked, g \in Files :
         query[q].result[g] # None /\ Related(f, g) => g \in query[q].tracked

SessionsAreTold == ScansAreTrue /\ ThreadsAreTrue /\ ResultsAreTrue /\ ReadsAreShared
=============================================================================
