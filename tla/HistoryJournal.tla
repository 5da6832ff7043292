--------------------------- MODULE HistoryJournal ---------------------------
(***************************************************************************)
(* The history journal (core/src/history.ts) as FleetLiveService writes it *)
(* (web/src/server/fleet-live-service.ts): each publish appends how the    *)
(* fleet differs from the one before; the file is rotated when it is full. *)
(*                                                                         *)
(* An agent of the fleet is whether it is busy and whether it waits for a  *)
(* user; one that is not in the fleet is neither.  A file is the sequence  *)
(* of its lines; a write that fails may leave the start of its last line.  *)
(***************************************************************************)
EXTENDS Integers, Sequences

CONSTANTS
  AgentCount,     \* agents the fleet has at one time or another
  MaxLines,       \* HISTORY_JOURNAL_MAX_BYTES, in events
  MaxPublishes    \* bound

ASSUME HistoryBoundsAssumption ==
  AgentCount \in Nat /\ MaxLines \in Nat /\ MaxPublishes \in Nat

Agents == 1..AgentCount

VARIABLES
  lastFleet,   \* fleet: what the last publish showed
  journal,     \* journal.jsonl
  older,       \* journal.previous.jsonl
  torn,        \* the last line of journal is incomplete
  heardFleet,  \* history: the state of each agent the events of this run tell
  sound,       \* history: no write of this run has failed
  surprised,   \* history: an event contradicted those before it
  written,     \* history: every line that was written whole
  publishes

historyVars ==
  <<lastFleet, journal, older, torn, heardFleet, sound, surprised,
    written, publishes>>

Flags == [busy : BOOLEAN, waits : BOOLEAN]
Nothing == [a \in Agents |-> [busy |-> FALSE, waits |-> FALSE]]

HistoryInit ==
  /\ lastFleet = Nothing /\ heardFleet = Nothing
  /\ journal = <<>> /\ older = <<>> /\ written = <<>>
  /\ torn = FALSE /\ sound = TRUE /\ surprised = FALSE /\ publishes = 0

Event(kind, a) == [kind |-> kind, agent |-> a]
If(condition, kind, a) == IF condition THEN <<Event(kind, a)>> ELSE <<>>

AgentEvents_LeavesWaits(before, after, a, left) ==
  IF left
    THEN If(before.busy, "session.finished", a)
    ELSE If(after.waits /\ ~before.waits, "wait.opened", a)
         \o If(before.waits /\ ~after.waits, "wait.resolved", a)
         \o If(after.busy /\ ~before.busy, "session.started", a)
         \o If(before.busy /\ ~after.busy, "session.finished", a)

\* diffFleetForHistory() for one agent; left: it is not in the next fleet.
AgentEvents(before, after, a, left) ==
  IF left
    THEN If(before.busy, "session.finished", a)
         \o If(before.waits, "wait.resolved", a)
    ELSE If(after.waits /\ ~before.waits, "wait.opened", a)
         \o If(before.waits /\ ~after.waits, "wait.resolved", a)
         \o If(after.busy /\ ~before.busy, "session.started", a)
         \o If(before.busy /\ ~after.busy, "session.finished", a)

Diff(next, gone) ==
  LET upTo[n \in 0..AgentCount] ==
        IF n = 0 THEN <<>>
        ELSE upTo[n - 1] \o AgentEvents(lastFleet[n], next[n], n, n \in gone)
  IN  upTo[AgentCount]

-----------------------------------------------------------------------------
\* What a reader of the first n lines believes of an agent: what the last line
\* about it says, or what was heard before.
OfWait == {"wait.opened", "wait.resolved"}
OfWork == {"session.started", "session.finished"}

About(lines, n, a, kinds) ==
  {i \in 1..n : lines[i].agent = a /\ lines[i].kind \in kinds}

LastWord(lines, n, a, kinds, yes, before) ==
  LET about == About(lines, n, a, kinds)
  IN  IF about = {} THEN before
      ELSE lines[CHOOSE i \in about : \A j \in about : j <= i].kind = yes

Believed(lines, n) ==
  [a \in Agents |->
     [busy |-> LastWord(lines, n, a, OfWork, "session.started", heardFleet[a].busy),
      waits |-> LastWord(lines, n, a, OfWait, "wait.opened", heardFleet[a].waits)]]

\* A line that tells what its reader believes already.
Repeats(e, told) ==
  CASE e.kind = "wait.opened" -> told.waits
    [] e.kind = "wait.resolved" -> ~told.waits
    [] e.kind = "session.started" -> told.busy
    [] e.kind = "session.finished" -> ~told.busy

Rotates == Len(journal) > MaxLines

\* An incomplete line swallows the one that is written after it.
Swallows == torn /\ ~Rotates
Whole(lines) == IF Swallows /\ lines # <<>> THEN Tail(lines) ELSE lines

\* appendHistoryEvents(): renameSync() when the file is full, then appendFileSync().
AppendLines(lines) ==
  /\ older' = IF Rotates THEN journal ELSE older
  /\ journal' = (IF Rotates THEN <<>> ELSE journal) \o Whole(lines)
  /\ written' = written \o Whole(lines)

\* The end of publish().  next is the new fleet, gone the agents not in it.
Shows(next, gone) ==
  /\ publishes < MaxPublishes
  /\ publishes' = publishes + 1
  /\ \A a \in gone : next[a] = Nothing[a]
  /\ lastFleet' = next

FleetPublished(next, gone) ==
  LET lines == Diff(next, gone)
  IN  /\ Shows(next, gone)
      /\ heardFleet' = Believed(lines, Len(lines))
      /\ sound' = (sound /\ lines = Whole(lines))
      /\ surprised' = \/ surprised
                      \/ /\ sound'
                         /\ \E i \in 1..Len(lines) :
                              Repeats(lines[i], Believed(lines, i - 1)[lines[i].agent])
      /\ IF lines = <<>>
           THEN UNCHANGED <<journal, older, written, torn>>
           ELSE AppendLines(lines) /\ torn' = FALSE

\* The append fails after n lines and perhaps a part of the next; the error is
\* swallowed, and the new fleet stays.
PublishUnwritten(next, gone, n, partial) ==
  LET lines == Diff(next, gone) IN
  /\ Shows(next, gone)
  /\ n < Len(lines)
  /\ AppendLines(SubSeq(lines, 1, n))
  /\ torn' = (partial \/ (n = 0 /\ Swallows))
  /\ sound' = FALSE
  /\ UNCHANGED <<heardFleet, surprised>>

\* The server ends, also between the rename and the append, and a new one starts
\* with an empty fleet (startInternal()).
Restart(betweenRenameAndAppend) ==
  /\ lastFleet # Nothing
  /\ lastFleet' = Nothing /\ heardFleet' = Nothing /\ sound' = TRUE
  /\ IF betweenRenameAndAppend
       THEN Rotates /\ older' = journal /\ journal' = <<>> /\ torn' = FALSE
       ELSE UNCHANGED <<journal, older, torn>>
  /\ UNCHANGED <<surprised, written, publishes>>

HistoryNext ==
  \/ \E next \in [Agents -> Flags], gone \in SUBSET Agents :
       \/ FleetPublished(next, gone)
       \/ \E n \in 0..1, partial \in BOOLEAN :
            PublishUnwritten(next, gone, n, partial)
  \/ \E between \in BOOLEAN : Restart(between)

HistorySpec == HistoryInit /\ [][HistoryNext]_historyVars

-----------------------------------------------------------------------------
\* As long as its writes succeed, the events of one server's run tell what the
\* fleet shows: openings and resolutions, starts and ends alternate, agents that
\* leave the fleet are ended, and what is open is open in the fleet.
JournalTellsTheFleet == (sound => heardFleet = lastFleet) /\ ~surprised

\* Whatever rotations, failed writes and crashes there were, what
\* readHistoryEvents() finds in the two files is the end of all that was
\* written, and more than MaxLines of it unless there is no more.
IsEndOf(s, all) ==
  /\ Len(s) <= Len(all)
  /\ \A i \in 1..Len(s) : s[i] = all[Len(all) - Len(s) + i]

RecentHistoryKept ==
  LET found == older \o journal
  IN  /\ IsEndOf(found, written)
      /\ Len(found) > MaxLines \/ found = written

JournalIsHonest == JournalTellsTheFleet /\ RecentHistoryKept
=============================================================================
