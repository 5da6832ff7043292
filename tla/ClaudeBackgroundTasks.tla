------------------------ MODULE ClaudeBackgroundTasks ------------------------
(***************************************************************************)
(* The background tasks of a Claude session, from its transcript           *)
(* (core/src/claude-background-tasks.ts).  Claude appends to the           *)
(* transcript, a line in two writes here; several loads read what is new   *)
(* of it at once, through one cache entry that remembers how far the file  *)
(* was read, the unfinished line and the last records.  The transcript may *)
(* be replaced.  Only lines about background tasks are modelled, for one   *)
(* task among others, and the time is the number of lines written.         *)
(***************************************************************************)
EXTENDS Integers, Sequences

CONSTANTS
  Readers,                \* loads of the session's project
  MaxCached,              \* MAX_CACHED_BACKGROUND_RECORDS
  OrphanWindow,           \* ORPHANED_TASK_WINDOW_MS, in ticks
  RecentWindow,           \* RECENT_TASK_WINDOW_MS, in ticks
  MaxLines, MaxFiles      \* bounds

ASSUME TaskBounds ==
  /\ {MaxCached, OrphanWindow, RecentWindow, MaxLines, MaxFiles}
     \subseteq Nat
  /\ MaxCached > 0 /\ RecentWindow <= OrphanWindow

VARIABLES
  transcript,   \* [ino, lines: sequence of [kind, at], size in half-lines,
                \* lines written before it was replaced]
  cached,       \* the entry of rawTranscriptCache: [ino, offset, pending,
                \* records], or NoEntry
  reading       \* per load: [at, ino, size, entry, kept]

taskVars == <<transcript, cached, reading>>

None == <<>>
Entry(ino, offset, pending, records) ==
  [ino |-> ino, offset |-> offset, pending |-> pending, records |-> records]
NoEntry == Entry(0, 0, None, <<>>)
NotReading == [at |-> "idle", ino |-> 0, size |-> 0, entry |-> NoEntry,
               kept |-> FALSE]

TasksInit ==
  /\ transcript = [ino |-> 1, lines |-> <<>>, size |-> 0, before |-> 0]
  /\ cached = NoEntry
  /\ reading = [r \in Readers |-> NotReading]

Least(a, b) == IF a < b THEN a ELSE b
Now == transcript.before + Len(transcript.lines)
LastOf(s, n) == SubSeq(s, Len(s) - Least(n, Len(s)) + 1, Len(s))
Odd(n) == n % 2 = 1

(***************************************************************************)
(* Claude.                                                                 *)
(***************************************************************************)

\* The lines of the task come in order; others come between them.
NextKinds ==
  LET written == {transcript.lines[i].kind : i \in DOMAIN transcript.lines} IN
  {"other"} \cup
  (IF "launch" \notin written THEN {"launch"}
   ELSE IF "started" \notin written THEN {"started"}
   ELSE IF "finished" \notin written THEN {"finished"} ELSE {})

BeginsLine(kind) ==
  /\ ~Odd(transcript.size) /\ Now < MaxLines
  /\ transcript' = [transcript EXCEPT
       !.lines = Append(@, [kind |-> kind, at |-> Now + 1]),
       !.size = @ + 1]
  /\ UNCHANGED <<cached, reading>>

EndsLine ==
  /\ Odd(transcript.size)
  /\ transcript' = [transcript EXCEPT !.size = @ + 1]
  /\ UNCHANGED <<cached, reading>>

Replaced ==
  /\ transcript.ino < MaxFiles
  /\ transcript' = [ino |-> transcript.ino + 1, lines |-> <<>>, size |-> 0,
                    before |-> Now]
  /\ UNCHANGED <<cached, reading>>

(***************************************************************************)
(* A load reads what is new (readRawBackgroundTaskRecords).                *)
(***************************************************************************)

Stats(r) ==
  /\ reading[r].at = "idle"
  /\ reading' = [reading EXCEPT ![r] =
       [NotReading EXCEPT !.at = "statted", !.ino = transcript.ino,
                          !.size = transcript.size]]
  /\ UNCHANGED <<transcript, cached>>

CanAppend_AnySize(ino, size) == cached # NoEntry /\ cached.ino = ino
CanAppend(ino, size) ==
  cached # NoEntry /\ cached.ino = ino /\ size >= cached.offset

\* The entry is looked up after the stat: another load may have moved it.
LooksUp(r) ==
  LET me == reading[r]
      kept == CanAppend(me.ino, me.size)
      entry == IF kept THEN cached ELSE Entry(me.ino, 0, None, <<>>) IN
  /\ me.at = "statted"
  /\ IF me.size = entry.offset
       THEN cached' = entry /\ reading' = [reading EXCEPT ![r] = NotReading]
       ELSE /\ reading' = [reading EXCEPT ![r].at = "reading",
                             ![r].entry = entry, ![r].kept = kept]
            /\ UNCHANGED cached
  /\ UNCHANGED transcript

\* The lines that end in the part read.  The first of them follows what was
\* pending, and parses only when that is its beginning.
NewLines(entry, end) ==
  LET first == (entry.offset \div 2) + 1
      parses == entry.pending = IF Odd(entry.offset)
                                  THEN <<transcript.ino, first>> ELSE None IN
  SubSeq(transcript.lines, IF parses THEN first ELSE first + 1, end \div 2)

StillPending(entry, end) ==
  IF end <= entry.offset THEN entry.pending
  ELSE IF Odd(end) THEN <<transcript.ino, (end + 1) \div 2>> ELSE None

ReadsAndRemembers(r) ==
  LET me == reading[r]
      end == Least(me.size, transcript.size) IN
  /\ me.at = "reading"
  /\ cached' = Entry(me.entry.ino, me.size, StillPending(me.entry, end),
                     LastOf(me.entry.records \o NewLines(me.entry, end),
                            MaxCached))
  /\ reading' = [reading EXCEPT ![r] = NotReading]
  /\ UNCHANGED transcript

ReadFails(r) ==
  /\ reading[r].at = "reading"
  /\ cached' = IF reading[r].kept THEN reading[r].entry ELSE NoEntry
  /\ reading' = [reading EXCEPT ![r] = NotReading]
  /\ UNCHANGED transcript

\* Sixty-four other transcripts have been read since
\* (rememberRawTranscriptCache).
Evicted ==
  /\ cached' = NoEntry
  /\ UNCHANGED <<transcript, reading>>

TasksNext ==
  \/ \E kind \in NextKinds : BeginsLine(kind)
  \/ EndsLine \/ Replaced \/ Evicted
  \/ \E r \in Readers : Stats(r) \/ LooksUp(r) \/ ReadsAndRemembers(r)
                        \/ ReadFails(r)

TasksSpec == TasksInit /\ [][TasksNext]_taskVars

(***************************************************************************)
(* What the records say of the task (readClaudeTranscriptBackgroundTasks). *)
(***************************************************************************)

\* A result makes the task when its launch came before it, and the end of a
\* task is only known to a task that was made.
Holds(records, kind, after) ==
  {i \in DOMAIN records : records[i].kind = kind /\ i > after}
Made(records) ==
  {i \in Holds(records, "started", 0) :
     \E j \in Holds(records, "launch", 0) : j < i}

Ended(records) ==
  \E i \in Made(records) : Holds(records, "finished", i) # {}

\* outputAt is when the task last wrote to its output file.
UpdatedAt(records, outputAt) ==
  LET first == CHOOSE i \in Made(records) : \A j \in Made(records) : i <= j
      ats == {records[i].at : i \in Made(records)}
             \cup {records[i].at : i \in Holds(records, "finished", first)}
             \cup {outputAt} IN
  CHOOSE a \in ats : \A b \in ats : b <= a

TaskShown(records, outputAt) ==
  IF Made(records) = {} THEN "absent"
  ELSE LET age == Now - UpdatedAt(records, outputAt) IN
       IF ~Ended(records) /\ age <= OrphanWindow THEN "running"
       ELSE IF age <= RecentWindow THEN "done" ELSE "absent"

(***************************************************************************)
(* Properties.                                                             *)
(***************************************************************************)

\* However the loads and the writes interleave, the entry of the file in
\* place holds exactly the last records of the part it says was read.
CacheIsAPrefix ==
  cached.ino = transcript.ino =>
    /\ cached.offset <= transcript.size
    /\ cached.records = LastOf(SubSeq(transcript.lines, 1,
                                      cached.offset \div 2), MaxCached)
    /\ cached.pending = IF Odd(cached.offset)
                          THEN <<transcript.ino, (cached.offset + 1) \div 2>>
                          ELSE None

\* The records of the sampled transcript, head and tail, come after those of
\* the cache, and repeat some of them.
SampleOf(n) == SubSeq(transcript.lines, 1, Least(n, 2))
               \o LastOf(SubSeq(transcript.lines, 1, n), 1)

\* A task whose start and end were read does not run again because the
\* sample repeats its start.
FinishedStaysFinished ==
  Ended(cached.records) =>
    \A n \in 0..(transcript.size \div 2), outputAt \in 0..Now :
      TaskShown(cached.records \o SampleOf(n), outputAt) # "running"

TasksAreTold == CacheIsAPrefix /\ FinishedStaysFinished
=============================================================================
