------------------------ MODULE DiscoverySourceCache ------------------------
(***************************************************************************)
(* DiscoverySourceCache (core/src/services/discovery-source-cache.ts): one *)
(* key.  Readers get the last completed scan; a scan that takes longer     *)
(* than MaxScan is given up and replaced, and may still complete later.    *)
(*                                                                         *)
(* A scan is known by the generation it was started with.  What it finds   *)
(* is the version of the disk at one moment of its run.                    *)
(***************************************************************************)
EXTENDS Integers

CONSTANTS
  Readers,
  MaxScan, Retention,             \* maxScanMs, retentionMs
  MaxScans, MaxDisk, MaxTicks     \* bounds

ASSUME DiscoveryBoundsAssumption ==
  /\ {MaxScan, Retention, MaxScans, MaxTicks} \subseteq Nat
  /\ MaxDisk \in Nat \ {0}

VARIABLES
  entry,     \* the entry of the key
  scan,      \* the scans by generation
  reader,    \* the scan each call of read() waits for; 0: none
  disk, ticks

discoveryVars == <<entry, scan, reader, disk, ticks>>

Scans == 1..MaxScans
NoScan == [stage |-> "none", found |-> 0]
ScanAt(s, found) == [stage |-> s, found |-> found]

\* value 0 is null; published is the generation value came from.
DiscoveryInit ==
  /\ entry = [value |-> 0, completedAt |-> 0, pending |-> 0, startedAt |-> 0,
              generation |-> 0, published |-> 0]
  /\ scan = [s \in Scans |-> NoScan]
  /\ reader = [r \in Readers |-> 0]
  /\ disk = 1 /\ ticks = 0

CacheUsable(e) == e.value # 0 /\ ticks - e.completedAt < Retention

\* The scan that a read() starts, if it starts one.
NeedsScan(e) == e.pending = 0 \/ ticks - e.startedAt >= MaxScan

Opened(e) ==
  IF NeedsScan(e)
    THEN [e EXCEPT !.generation = @ + 1, !.startedAt = ticks,
                   !.pending = e.generation + 1]
    ELSE e

Read(r) ==
  LET opened == Opened(entry) IN
  /\ reader[r] = 0
  /\ opened.generation \in 0..MaxScans
  /\ entry' = opened
  /\ scan' = [s \in Scans |-> IF s = opened.generation /\ s # entry.generation
                                THEN ScanAt("running", 0) ELSE scan[s]]
  /\ reader' = [reader EXCEPT ![r] = IF CacheUsable(opened) THEN 0
                                                            ELSE opened.pending]
  /\ UNCHANGED <<disk, ticks>>

ScanLooks(s) ==
  /\ scan[s].stage = "running"
  /\ scan' = [scan EXCEPT ![s] = ScanAt("found", disk)]
  /\ UNCHANGED <<entry, reader, disk, ticks>>

ScanCompleted(e, s) ==
  IF s # e.generation THEN e
    ELSE [e EXCEPT !.value = scan[s].found, !.completedAt = ticks,
                   !.published = s]

ScanSucceeds(s) ==
  /\ scan[s].stage = "found"
  /\ entry' = ScanCompleted(entry, s)
  /\ scan' = [scan EXCEPT ![s] = ScanAt("settled", 0)]
  /\ UNCHANGED <<reader, disk, ticks>>

ScanFails(s) ==
  /\ scan[s].stage \in {"running", "found"}
  /\ scan' = [scan EXCEPT ![s] = ScanAt("settled", 0)]
  /\ UNCHANGED <<entry, reader, disk, ticks>>

PendingCleared_Any(e, s) == [e EXCEPT !.pending = 0]

\* The finally, a promise job after the settlement.
PendingCleared(e, s) == IF s = e.generation THEN [e EXCEPT !.pending = 0] ELSE e

ScanEnds(s) ==
  /\ scan[s].stage = "settled"
  /\ entry' = PendingCleared(entry, s)
  /\ scan' = [scan EXCEPT ![s] = ScanAt("ended", 0)]
  /\ UNCHANGED <<reader, disk, ticks>>

ScanWakesReader(r) ==
  /\ reader[r] # 0
  /\ scan[reader[r]].stage = "ended"
  /\ reader' = [reader EXCEPT ![r] = 0]
  /\ UNCHANGED <<entry, scan, disk, ticks>>

ReaderTimesOut(r) ==
  /\ reader[r] # 0
  /\ reader' = [reader EXCEPT ![r] = 0]
  /\ UNCHANGED <<entry, scan, disk, ticks>>

DiskChanges ==
  /\ disk < MaxDisk
  /\ disk' = disk + 1
  /\ UNCHANGED <<entry, scan, reader, ticks>>

DiscoveryTick ==
  /\ ticks < MaxTicks
  /\ ticks' = ticks + 1
  /\ UNCHANGED <<entry, scan, reader, disk>>

DiscoveryNext ==
  \/ \E r \in Readers : Read(r) \/ ScanWakesReader(r) \/ ReaderTimesOut(r)
  \/ \E s \in Scans :
       ScanLooks(s) \/ ScanSucceeds(s) \/ ScanFails(s) \/ ScanEnds(s)
  \/ DiskChanges \/ DiscoveryTick

\* A scan may hang for ever; the timer of a read() does not.
DiscoveryFairness == \A r \in Readers : WF_discoveryVars(ReaderTimesOut(r))

DiscoverySpec == DiscoveryInit /\ [][DiscoveryNext]_discoveryVars /\ DiscoveryFairness

-----------------------------------------------------------------------------
Latest == INSTANCE LatestWins WITH
       Values <- 1..MaxDisk, Initial <- 0,
       value <- entry.value, stamp <- entry.published, closed <- FALSE

\* A scan that was given up publishes nothing once a later one has been
\* started, and does not release its successor's place: the cache is a
\* LatestWins cell, what it holds is never older than before, and while a
\* scan of less than MaxScan runs no other is started next to it
\* (generation !== state.generation, in then and in finally).
NothingSuperseded ==
  /\ Latest!Spec
  /\ [][entry'.value >= entry.value]_entry
  /\ [][entry'.generation # entry.generation /\ entry.generation # 0
          => \/ scan[entry.generation].stage = "ended"
             \/ ticks - entry.startedAt >= MaxScan]_entry

\* Each read() returns, also while a scan hangs (Promise.race with a timer).
ReadersReturn == \A r \in Readers : reader[r] # 0 ~> reader[r] = 0

\* Readers are served, and by the newest scan there is.
ReadersAreServed == NothingSuperseded /\ ReadersReturn
=============================================================================
