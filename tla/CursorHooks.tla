----------------------------- MODULE CursorHooks -----------------------------
(***************************************************************************)
(* A local Cursor session (core/src/cursor.ts): its hooks append records,  *)
(* each stamped by Cursor, to one file, and every load reads the file, its *)
(* modification time and the clock.  A stamp too far ahead of the file is  *)
(* replaced by one before it; the record with the latest stamp decides     *)
(* what the session does, until that is old.                               *)
(***************************************************************************)
EXTENDS Integers, Sequences

CONSTANTS
  CursorEvents,       \* the kinds of hook events that happen
  Skews,              \* how far ahead of the file a stamp may be
  Tolerance,          \* CURSOR_HOOK_FUTURE_TOLERANCE_MS, in ticks
  ActiveSpan,         \* CURSOR_HOOK_ACTIVE_WINDOW_MS
  DoneSpan,           \* CURSOR_HOOK_DONE_WINDOW_MS
  MaxCursorRecords, MaxCursorClock   \* bounds

ASSUME CursorSpans ==
  /\ {Tolerance, ActiveSpan, DoneSpan, MaxCursorRecords, MaxCursorClock}
       \subseteq Nat
  /\ Skews \subseteq Nat /\ Tolerance <= ActiveSpan /\ ActiveSpan <= DoneSpan

VARIABLES
  cursorFile,   \* its records in the order they were appended: [event, stamp]
  cursorSaved,  \* its modification time
  cursorClock

cursorVars == <<cursorFile, cursorSaved, cursorClock>>

CursorInit == cursorFile = <<>> /\ cursorSaved = 0 /\ cursorClock = 0

\* Cursor runs a hook, which appends its payload.
CursorHook(event, skew) ==
  /\ Len(cursorFile) < MaxCursorRecords
  /\ cursorFile' = Append(cursorFile, [event |-> event,
                                       stamp |-> cursorClock + skew])
  /\ cursorSaved' = cursorClock
  /\ UNCHANGED cursorClock

CursorTick ==
  /\ cursorClock < MaxCursorClock /\ cursorClock' = cursorClock + 1
  /\ UNCHANGED <<cursorFile, cursorSaved>>

CursorNext ==
  \/ \E e \in CursorEvents, s \in Skews : CursorHook(e, s)
  \/ CursorTick

CursorSpec == CursorInit /\ [][CursorNext]_cursorVars

(***************************************************************************)
(* What a load makes of the file.                                          *)
(***************************************************************************)

Stamp_AsWritten(r) == r.stamp
\* cursorHookRecordTimestampMs
Stamp(r) ==
  IF r.stamp <= cursorSaved + Tolerance THEN r.stamp
  ELSE IF cursorSaved > Tolerance THEN cursorSaved - Tolerance ELSE 0

Phase(state, ongoing) == [state |-> state, ongoing |-> ongoing]
NoPhase == Phase("none", FALSE)

\* cursorHookToolState: a tool of no known family plans.
ToolPhases ==
  [edit |-> "editing", shell |-> "running", read |-> "scanning",
   task |-> "delegating", otherTool |-> "planning"]

\* cursorHookPhaseSummary
PhaseOf(event) ==
  CASE event \in DOMAIN ToolPhases -> Phase(ToolPhases[event], TRUE)
    [] event \in {"toolFailed", "subagentFailed", "stopError", "endError"} ->
         Phase("blocked", FALSE)
    [] event \in {"prompt", "sessionStart"} -> Phase("planning", TRUE)
    [] event \in {"response", "thought", "preCompact"} ->
         Phase("thinking", TRUE)
    [] event \in {"shellHook", "mcpHook"} -> Phase("running", TRUE)
    [] event \in {"fileEdit", "sessionStartEdit"} -> Phase("editing", TRUE)
    [] event = "subagentStart" -> Phase("delegating", TRUE)
    [] event = "subagentStop" -> Phase("done", TRUE)
    [] event \in {"stop", "end"} -> Phase("done", FALSE)
    [] OTHER -> NoPhase

Summarised == {i \in DOMAIN cursorFile : PhaseOf(cursorFile[i].event) # NoPhase}

\* summariseCursorHookSession: sorted by stamp, the last one decides; of one
\* stamp the last appended.
Deciding ==
  CHOOSE i \in Summarised : \A j \in Summarised :
    \/ Stamp(cursorFile[j]) < Stamp(cursorFile[i])
    \/ Stamp(cursorFile[j]) = Stamp(cursorFile[i]) /\ j <= i

\* ageCursorHookSummary
AgedPhase(phase, at) ==
  LET age == cursorClock - at IN
  IF age <= (IF phase.ongoing THEN ActiveSpan ELSE DoneSpan) THEN phase
  ELSE Phase(IF age <= DoneSpan THEN "done" ELSE "idle", FALSE)

\* loadCursorHookProjectSnapshotData: an idle session is not shown.
CursorAgent ==
  LET r == cursorFile[Deciding]
      aged == AgedPhase(PhaseOf(r.event), Stamp(r)) IN
  IF Summarised = {} \/ aged = Phase("idle", FALSE) THEN NoPhase ELSE aged

(***************************************************************************)
(* Properties.                                                             *)
(***************************************************************************)

\* However far ahead its stamps are, a session whose file is no longer
\* written stops looking busy, and is then no longer shown.
GoesQuiet ==
  LET silence == cursorClock - cursorSaved IN
  /\ silence > ActiveSpan + Tolerance => ~CursorAgent.ongoing
  /\ silence > DoneSpan + Tolerance => CursorAgent = NoPhase

\* A last record with a right stamp decides over any other that is not
\* ahead of the file by less than the tolerance.
LastDecides ==
  LET n == Len(cursorFile)
      plausible == {i \in Summarised \ {n} :
                      cursorFile[i].stamp \in cursorSaved + 1
                                              .. cursorSaved + Tolerance} IN
  (n \in Summarised /\ cursorFile[n].stamp = cursorSaved /\ plausible = {})
  => Deciding = n

CursorIsTold == GoesQuiet /\ LastDecides

\* What the test of claude-cursor.test.js says: a record of the future does
\* not decide once a newer one is appended.
FutureIsIgnored ==
  LET n == Len(cursorFile) IN
  (n \in Summarised /\ cursorFile[n].stamp = cursorSaved) => Deciding = n
=============================================================================
