--------------------------- MODULE ProviderProofs ---------------------------
(***************************************************************************)
(* Proofs about what the other providers make of the files and answers of  *)
(* the programs they watch, for any readers, hooks, clocks and bounds:     *)
(* Hermes, OpenClaw, and Cursor's hooks and cloud agents.                  *)
(***************************************************************************)
EXTENDS ClaudeProofs, HermesSessions, OpenClawGateway, CursorHooks, CursorCloud

-----------------------------------------------------------------------------
(* Hermes: its store, its hooks and its process.                           *)

HermesRecords == [stream : Streams, event : HookEvents, root : Places, at : Nat]

HermesTyped ==
  /\ hermesHooks \in Seq(HermesRecords) /\ hermesClock \in Nat
  /\ stored \in [is : BOOLEAN, cli : BOOLEAN, ended : Int, active : Nat,
                 started : Nat, last : {"none", "open", "failure", "reply"},
                 root : Places]

LEMMA HermesTypedHolds == HermesSpec => []HermesTyped
<1>1. HermesInit => HermesTyped
  <2> SUFFICES ASSUME HermesInit PROVE HermesTyped
    OBVIOUS
  <2>1. <<>> \in Seq(HermesRecords)
    OBVIOUS
  <2>2. stored \in [is : {FALSE}, cli : BOOLEAN, ended : {-1}, active : {0},
                    started : {0}, last : {"none"}, root : {Nowhere}]
    BY DEF HermesInit
  <2>3. stored \in [is : BOOLEAN, cli : BOOLEAN, ended : Int, active : Nat,
                    started : Nat, last : {"none", "open", "failure", "reply"},
                    root : Places]
    <3>1. PICK cli \in BOOLEAN :
            stored = [is |-> FALSE, cli |-> cli, ended |-> -1, active |-> 0,
                      started |-> 0, last |-> "none", root |-> Nowhere]
      BY <2>2, ZenonT(30)
    <3>2. Nowhere \in Places
      BY DEF Places
    <3> QED
      BY <3>1, <3>2
  <2>4. hermesHooks \in Seq(HermesRecords) /\ hermesClock \in Nat
    BY <2>1 DEF HermesInit
  <2> QED
    BY <2>3, <2>4 DEF HermesTyped
<1>2. HermesTyped /\ [HermesNext]_hermesVars => HermesTyped'
  <2> SUFFICES ASSUME HermesTyped, [HermesNext]_hermesVars
               PROVE  HermesTyped'
    OBVIOUS
  <2>1. ASSUME NEW root \in Places, SessionStored(root)
        PROVE  HermesTyped'
    BY <2>1 DEF SessionStored, HermesTyped
  <2>2. ASSUME NEW root \in Places, ProcessMoves(root)
        PROVE  HermesTyped'
    BY <2>2 DEF ProcessMoves, HermesTyped
  <2>3. ASSUME NEW m \in Messages, NEW root \in Places, MessageStored(m, root)
        PROVE  HermesTyped'
    BY <2>3 DEF MessageStored, HermesTyped, Messages, Places
  <2>4. ASSUME NEW s \in Streams, NEW e \in HookEvents, NEW root \in Places,
               HookWritten(s, e, root)
        PROVE  HermesTyped'
    <3> DEFINE written == [stream |-> s, event |-> e, root |-> root,
                           at |-> hermesClock]
    <3>1. written \in HermesRecords
      BY DEF HermesTyped, HermesRecords
    <3>2. Append(hermesHooks, written) \in Seq(HermesRecords)
      BY <3>1 DEF HermesTyped
    <3> QED
      BY <2>4, <3>2 DEF HookWritten, HermesTyped
  <2>5. CASE SessionEnds
    BY <2>5 DEF SessionEnds, HermesTyped
  <2>6. CASE HermesTick
    BY <2>6 DEF HermesTick, HermesTyped
  <2>7. CASE UNCHANGED hermesVars
    BY <2>7 DEF hermesVars, HermesTyped
  <2> QED
    BY <2>1, <2>2, <2>3, <2>4, <2>5, <2>6, <2>7 DEF HermesNext
<1> QED
  BY <1>1, <1>2, PTL DEF HermesSpec

\* The latest of some records is one of them, and is the latest of every part
\* of them that has it.
LatestOf(records) == CHOOSE i \in records : \A j \in records : j <= i

LEMMA LatestExists ==
  ASSUME HermesTyped, NEW records \in SUBSET DOMAIN hermesHooks, records # {}
  PROVE  /\ LatestOf(records) \in records
         /\ \A j \in records : j <= LatestOf(records)
         /\ LatestRecord(records) = hermesHooks[LatestOf(records)]
         /\ LatestRecord(records) \in HermesRecords
<1>1. /\ DOMAIN hermesHooks = 1..Len(hermesHooks)
      /\ Len(hermesHooks) \in Nat
  BY DEF HermesTyped
<1> DEFINE size == Len(hermesHooks)
<1>2. /\ records \in SUBSET Nat
      /\ size \in Nat
      /\ \A c \in records : c <= size
  BY <1>1
<1> HIDE DEF size
<1>3. \E i \in records : \A j \in records : j <= i
  BY <1>2, GreatestNumber
<1>4. /\ LatestOf(records) \in records
      /\ \A j \in records : j <= LatestOf(records)
  BY <1>3 DEF LatestOf
<1>5. LatestRecord(records) = hermesHooks[LatestOf(records)]
  BY DEF LatestRecord, LatestOf
<1>6. hermesHooks[LatestOf(records)] \in HermesRecords
  BY <1>4 DEF HermesTyped
<1> QED
  BY <1>4, <1>5, <1>6

LEMMA LatestOfPart ==
  ASSUME HermesTyped, NEW records \in SUBSET DOMAIN hermesHooks,
         NEW part \in SUBSET records, LatestOf(records) \in part
  PROVE  LatestRecord(part) = LatestRecord(records)
<1>1. records # {} /\ part # {} /\ part \in SUBSET DOMAIN hermesHooks
  OBVIOUS
<1>2. /\ LatestOf(part) \in part
      /\ \A j \in part : j <= LatestOf(part)
      /\ LatestRecord(part) = hermesHooks[LatestOf(part)]
  BY <1>1, LatestExists
<1>3. /\ LatestOf(records) \in records
      /\ \A j \in records : j <= LatestOf(records)
      /\ LatestRecord(records) = hermesHooks[LatestOf(records)]
  BY <1>1, LatestExists
<1>4. DOMAIN hermesHooks \subseteq Nat
  BY DEF HermesTyped
<1>5. LatestOf(part) <= LatestOf(records) /\ LatestOf(records) <= LatestOf(part)
  BY <1>2, <1>3
<1>6. LatestOf(part) \in Nat /\ LatestOf(records) \in Nat
  BY <1>2, <1>3, <1>4
<1>7. LatestOf(part) = LatestOf(records)
  BY <1>5, <1>6
<1> QED
  BY <1>2, <1>3, <1>7

\* What hooks say goes on was said within the open window, and is of the time
\* of the latest record.
LEMMA HooksSaySo ==
  ASSUME HermesTyped, NEW records, LatestRecord(records) \in HermesRecords
  PROVE  /\ HooksSay(records).at = LatestRecord(records).at
         /\ HooksSay(records).ongoing \in BOOLEAN
         /\ HooksSay(records).ongoing => Within(LatestRecord(records).at, OpenTime)
         /\ HooksSay(records) # NotTold
<1> DEFINE last == LatestRecord(records)
           event == last.event
           open == Within(last.at, OpenTime)
           done == Within(last.at, DoneTime)
<1>1. /\ last.at \in Nat
      /\ open \in BOOLEAN
      /\ done \in BOOLEAN
      /\ done => open
  <2>1. last.at \in Nat
    BY DEF HermesRecords
  <2>2. /\ hermesClock \in Nat /\ OpenTime \in Nat /\ DoneTime \in Nat
        /\ DoneTime <= OpenTime
    BY HermesWindows DEF HermesTyped
  <2> HIDE DEF last
  <2> QED
    BY <2>1, <2>2 DEF Within
<1>2. /\ event \in ToolEvent => /\ event # "reply"
                                /\ event # "api"
                                /\ event \notin Closing
                                /\ event # "subagentFailed"
      /\ event \in Closing => /\ event \notin ToolEvent
                              /\ event # "reply"
                              /\ event # "api"
                              /\ event # "subagentFailed"
      /\ "reply" \notin ToolEvent /\ "reply" \notin Closing
      /\ "api" \notin ToolEvent /\ "api" \notin Closing
      /\ "subagentFailed" \notin ToolEvent /\ "subagentFailed" \notin Closing
  BY DEF ToolEvent, Closing
<1>3. CASE event \in ToolEvent
  <2>1. HooksSay(records)
          = Told(IF last.event = "toolFailed" THEN "blocked" ELSE "running",
                 open, last.at)
    BY <1>2, <1>3 DEF HooksSay
  <2> HIDE DEF last, open, done
  <2> QED
    BY <1>1, <2>1 DEF Told, NotTold, last, open
<1>4. CASE event = "reply"
  <2>1. HooksSay(records) = Told(IF done THEN "done" ELSE "idle", done, last.at)
    BY <1>2, <1>4 DEF HooksSay
  <2> HIDE DEF last, open, done
  <2> QED
    BY <1>1, <2>1 DEF Told, NotTold, last, open
<1>5. CASE event = "api"
  <2>1. HooksSay(records) = Told(IF open THEN "thinking" ELSE "idle", open, last.at)
    BY <1>2, <1>5 DEF HooksSay
  <2> HIDE DEF last, open, done
  <2> QED
    BY <1>1, <2>1 DEF Told, NotTold, last, open
<1>6. CASE event \in Closing
  <2>1. HooksSay(records) = Told("done", FALSE, last.at)
    BY <1>2, <1>6 DEF HooksSay
  <2> HIDE DEF last, open, done
  <2> QED
    BY <1>1, <2>1 DEF Told, NotTold, last, open
<1>7. CASE event = "subagentFailed"
  <2>1. HooksSay(records) = Told("blocked", open, last.at)
    BY <1>2, <1>7 DEF HooksSay
  <2> HIDE DEF last, open, done
  <2> QED
    BY <1>1, <2>1 DEF Told, NotTold, last, open
<1>8. CASE /\ event \notin ToolEvent
           /\ event # "reply"
           /\ event # "api"
           /\ event \notin Closing
           /\ event # "subagentFailed"
  <2>1. HooksSay(records) = Told("working", open, last.at)
    BY <1>8 DEF HooksSay
  <2> HIDE DEF last, open, done
  <2> QED
    BY <1>1, <2>1 DEF Told, NotTold, last, open
<1> QED
  BY <1>3, <1>4, <1>5, <1>6, <1>7, <1>8

\* What the store says goes on away from the process was active within the
\* open window and has not ended.
LEMMA StoreSaysSo ==
  ASSUME HermesTyped, NEW f
  PROVE  /\ StoreSays(f).at = stored.active
         /\ StoreSays(f).ongoing \in BOOLEAN
         /\ StoreSays(f).ongoing /\ process # f
              => stored.ended = -1 /\ Within(stored.active, OpenTime)
<1> DEFINE ended == stored.ended # -1
           fresh == ~ended /\ Within(stored.active, OpenTime)
           mine == IsTheProcess(f)
           ongoing == ~ended /\ (fresh \/ (stored.last \in {"open", "failure"}
                                           /\ mine))
<1>1. mine => process = f
  BY DEF IsTheProcess
<1>2. /\ ongoing \in BOOLEAN
      /\ ongoing /\ process # f
           => stored.ended = -1 /\ Within(stored.active, OpenTime)
  BY <1>1
<1>3. stored.last \in {"none", "open", "failure", "reply"}
  BY DEF HermesTyped
<1>4. CASE stored.last = "failure"
  <2>1. StoreSays(f) = Told("blocked", ongoing, stored.active)
    BY <1>4 DEF StoreSays
  <2> HIDE DEF ongoing
  <2> QED
    BY <1>2, <2>1 DEF Told
<1>5. CASE stored.last = "open" /\ ongoing
  <2>1. StoreSays(f) = Told("working", TRUE, stored.active)
    BY <1>5 DEF StoreSays
  <2> HIDE DEF ongoing
  <2> QED
    BY <1>2, <1>5, <2>1 DEF Told
<1>6. CASE stored.last = "none" /\ mine
  <2>1. StoreSays(f) = Told("thinking", TRUE, stored.active)
    BY <1>6 DEF StoreSays
  <2> QED
    BY <1>1, <1>6, <2>1 DEF Told
<1>7. CASE stored.last \in {"none", "reply"} /\ fresh /\ ~(stored.last = "none" /\ mine)
  <2>1. StoreSays(f) = Told("waiting", TRUE, stored.active)
    BY <1>7 DEF StoreSays
  <2> QED
    BY <1>7, <2>1 DEF Told
<1>8. CASE /\ stored.last # "failure"
           /\ ~(stored.last = "open" /\ ongoing)
           /\ ~(stored.last = "none" /\ mine)
           /\ ~(stored.last \in {"none", "reply"} /\ fresh
                /\ ~(stored.last = "none" /\ mine))
  <2>1. StoreSays(f) = Told(IF Within(stored.active, DoneTime) THEN "done"
                            ELSE "idle", FALSE, stored.active)
    BY <1>8 DEF StoreSays
  <2> QED
    BY <2>1 DEF Told
<1> QED
  BY <1>4, <1>5, <1>6, <1>7, <1>8

\* The records taken for a floor are records, and the latest is the latest of
\* a stream that is at that floor.
LEMMA HooksOnFloor ==
  ASSUME HermesTyped, NEW f, HooksOn(f) # {}
  PROVE  /\ LatestRecord(HooksOn(f)) \in HermesRecords
         /\ \E s \in Streams : /\ IsOfTheSession(s) /\ HookRoot(StreamOf(s)) = f
                               /\ StreamOf(s) # {}
                               /\ LatestRecord(StreamOf(s)) = LatestRecord(HooksOn(f))
<1> DEFINE records == HooksOn(f)
<1>1. records \in SUBSET DOMAIN hermesHooks
  BY DEF HooksOn, StreamOf
<1>2. records # {}
  OBVIOUS
<1> HIDE DEF records
<1>3. LatestOf(records) \in records /\ LatestRecord(records) \in HermesRecords
  BY <1>1, <1>2, LatestExists
<1>4. PICK s \in Streams : /\ IsOfTheSession(s) /\ HookRoot(StreamOf(s)) = f
                           /\ LatestOf(records) \in StreamOf(s)
  BY <1>3 DEF records, HooksOn
<1>5. StreamOf(s) \in SUBSET records
  BY <1>4 DEF records, HooksOn
<1>6. LatestRecord(StreamOf(s)) = LatestRecord(records)
  BY <1>1, <1>4, <1>5, LatestOfPart
<1> QED
  BY <1>3, <1>4, <1>6 DEF records

-----------------------------------------------------------------------------

LEMMA NobodyIsHiddenThen ==
  ASSUME HermesTyped
  PROVE  NobodyIsHidden
<1> SUFFICES ASSUME NEW f \in Floors, SessionRow(f).ongoing \/ ProcessRow(f)
             PROVE  f \in Discovered
  BY DEF NobodyIsHidden
<1>1. CASE process = f
  BY <1>1 DEF Discovered
<1>2. CASE process # f
  <2> DEFINE records == HooksOn(f)
             hooks == IF records = {} THEN NotTold ELSE HooksSay(records)
             store == StoreSays(f)
  <2>1. SessionRow(f).ongoing
    BY <1>2 DEF ProcessRow
  <2>2. ~ NotTold.ongoing
    BY DEF NotTold, Told
  <2>3. \/ hooks.ongoing
        \/ stored.is /\ StoredRoot(f) = f /\ store.ongoing
    BY <2>1, <2>2 DEF SessionRow
  <2>4. CASE hooks.ongoing
    <3>1. records # {} /\ HooksSay(records).ongoing
      BY <2>2, <2>4
    <3>2. PICK s \in Streams :
            /\ HookRoot(StreamOf(s)) = f
            /\ StreamOf(s) # {}
            /\ LatestRecord(StreamOf(s)) = LatestRecord(records)
      BY <3>1, HooksOnFloor
    <3>3. LatestRecord(records) \in HermesRecords
      BY <3>1, HooksOnFloor
    <3>4. HooksSay(StreamOf(s)) = HooksSay(records)
      BY <3>2 DEF HooksSay
    <3>5. Within(LatestRecord(records).at, OpenTime)
      BY <3>1, <3>3, HooksSaySo
    <3>6. Within(LatestRecord(records).at, DiscoveryTime)
      <4>1. LatestRecord(records).at \in Nat
        BY <3>3 DEF HermesRecords
      <4>2. /\ hermesClock \in Nat /\ OpenTime \in Nat /\ DiscoveryTime \in Nat
            /\ OpenTime <= DiscoveryTime
        BY HermesWindows DEF HermesTyped
      <4> HIDE DEF records
      <4> QED
        BY <3>5, <4>1, <4>2 DEF Within
    <3>7. ~HermesQuiet(HooksSay(StreamOf(s)))
      BY <3>1, <3>4 DEF HermesQuiet
    <3> HIDE DEF records, hooks, store
    <3> QED
      BY <3>2, <3>6, <3>7 DEF Discovered
  <2>5. CASE stored.is /\ StoredRoot(f) = f /\ store.ongoing
    <3>1. stored.ended = -1 /\ Within(stored.active, OpenTime)
      BY <1>2, <2>5, StoreSaysSo
    <3>2. stored.root = f
      BY <1>2, <2>5 DEF StoredRoot, IsTheProcess
    <3> QED
      BY <2>5, <3>1, <3>2 DEF Discovered, StoredCanBeFound
  <2> QED
    BY <2>3, <2>4, <2>5
<1> QED
  BY <1>1, <1>2

LEMMA SilenceEndsThen ==
  ASSUME HermesTyped
  PROVE  SilenceEnds
<1> SUFFICES ASSUME NEW f \in Floors \ {process},
                    \A i \in DOMAIN hermesHooks : ~Within(hermesHooks[i].at, OpenTime),
                    ~Within(stored.active, OpenTime),
                    SessionRow(f).ongoing
             PROVE  FALSE
  BY DEF SilenceEnds
<1> DEFINE records == HooksOn(f)
           hooks == IF records = {} THEN NotTold ELSE HooksSay(records)
           store == StoreSays(f)
<1>1. ~ NotTold.ongoing
  BY DEF NotTold, Told
<1>2. hooks.ongoing \/ store.ongoing
  BY <1>1 DEF SessionRow
<1>3. ~store.ongoing
  BY StoreSaysSo
<1>4. records # {} /\ HooksSay(records).ongoing
  BY <1>1, <1>2, <1>3
<1>5. records \in SUBSET DOMAIN hermesHooks
  BY DEF HooksOn, StreamOf
<1> HIDE DEF records, hooks, store
<1>6. /\ LatestOf(records) \in records
      /\ LatestRecord(records) = hermesHooks[LatestOf(records)]
      /\ LatestRecord(records) \in HermesRecords
  BY <1>4, <1>5, LatestExists
<1>7. Within(LatestRecord(records).at, OpenTime)
  BY <1>4, <1>6, HooksSaySo
<1> QED
  BY <1>5, <1>6, <1>7

LEMMA LaterDecidesThen ==
  ASSUME HermesTyped
  PROVE  LaterDecides
<1> SUFFICES ASSUME NEW f \in Floors, stored.is, StoredRoot(f) = f,
                    HooksOn(f) # {}
             PROVE  SessionRow(f).ongoing
                      = IF HooksSay(HooksOn(f)).at < stored.active
                          THEN StoreSays(f).ongoing
                        ELSE HooksSay(HooksOn(f)).ongoing
  BY DEF LaterDecides
<1> DEFINE hooks == HooksSay(HooksOn(f))
           store == StoreSays(f)
           told == IF Newer(hooks, store) THEN hooks ELSE store
<1>1. SessionRow(f) = IF HermesQuiet(told) THEN NotTold ELSE told
  BY DEF SessionRow
<1>2. LatestRecord(HooksOn(f)) \in HermesRecords
  BY HooksOnFloor
<1>3. /\ hooks # NotTold
      /\ hooks.at \in Nat
      /\ hooks.ongoing \in BOOLEAN
  BY <1>2, HooksSaySo DEF HermesRecords
<1>4. /\ store.at = stored.active
      /\ stored.active \in Nat
      /\ store.ongoing \in BOOLEAN
  BY StoreSaysSo DEF HermesTyped
<1> HIDE DEF hooks, store
<1>5. told = IF hooks.at < stored.active THEN store ELSE hooks
  BY <1>3, <1>4 DEF Newer
<1>6. told.ongoing \in BOOLEAN
  BY <1>3, <1>4
<1> HIDE DEF told
<1>7. SessionRow(f).ongoing = told.ongoing
  <2>1. NotTold.ongoing = FALSE
    BY DEF NotTold, Told
  <2>2. CASE HermesQuiet(told)
    BY <1>1, <1>6, <2>1, <2>2 DEF HermesQuiet
  <2>3. CASE ~HermesQuiet(told)
    BY <1>1, <2>3
  <2> QED
    BY <2>2, <2>3
<1> QED
  BY <1>5, <1>7 DEF hooks, store

\* HermesIsTold (hermes.ts, loadHermesProjectSnapshotData and
\* discoverHermesProjects): a session that a load shows at work on a floor, and
\* a process there, make discovery name that floor, though the two read by
\* rules of their own; a process in a project is seen there; what every source
\* has been silent of for the open window goes on no more; and of the store and
\* the hooks the later decides. For any floors, windows, streams of hooks and
\* moves of the process.
THEOREM HermesIsAlwaysTold == HermesSpec => []HermesIsTold
<1>1. ProcessIsSeen
  BY DEF ProcessIsSeen, ProcessRow
<1>2. HermesTyped => HermesIsTold
  BY <1>1, NobodyIsHiddenThen, SilenceEndsThen, LaterDecidesThen
     DEF HermesIsTold
<1> QED
  BY <1>2, HermesTypedHolds, PTL

-----------------------------------------------------------------------------
(* OpenClaw: the load its readers share.                                   *)

Requests == {"config", "sessions"}
Configured == {"p", "inside", "q", "elsewhere", "none"}
LoadStages == {"opening", "challenge", "connecting", "asking", "loaded", "failed"}
ClawLoads == [at : LoadStages, started : Nat, socket : BOOLEAN,
              waits : SUBSET Requests, got : Configured]

ClawTyped ==
  /\ gateway \in Workspaces
  /\ loads \in Seq(ClawLoads)
  /\ clawCache \in [load : Nat, at : Nat]
  /\ clawReader \in [ClawReaders -> [load : Nat, asked : Nat]]
  /\ clawClock \in 0..MaxClawClock

\* Only a load that asks waits for requests, over its socket; one that loaded
\* has closed it.
LoadInOrder(load) ==
  /\ load.at = "loaded" => ~load.socket /\ load.waits = {}
  /\ load.waits # {} => load.at = "asking" /\ load.socket

LoadsInOrder == \A n \in DOMAIN loads : LoadInOrder(loads[n])

\* What is cached has not failed and carries the time its load began.
CacheInOrder ==
  clawCache.load # 0 =>
    /\ clawCache.load \in DOMAIN loads
    /\ loads[clawCache.load].at # "failed"
    /\ loads[clawCache.load].started = clawCache.at

ReadersInOrder ==
  \A r \in ClawReaders : clawReader[r].load # 0 =>
    /\ clawReader[r].load \in DOMAIN loads
    /\ loads[clawReader[r].load].started >= clawReader[r].asked - DataTtl

ClawInv == ClawTyped /\ LoadsInOrder /\ CacheInOrder /\ ReadersInOrder

\* A load that goes on under the time it began, and leaves the cache alone or
\* empty if it has failed.
LEMMA LoadGoesOn ==
  ASSUME ClawInv, NEW n \in DOMAIN loads, NEW load \in ClawLoads,
         load.started = loads[n].started, LoadInOrder(load), Becomes(n, load),
         \/ clawCache' = clawCache /\ (load.at = "failed" => loads[n].at = "failed")
         \/ Forgets(n)
  PROVE  ClawInv'
<1>1. loads' = [loads EXCEPT ![n] = load] /\ UNCHANGED <<gateway, clawReader, clawClock>>
  BY DEF Becomes
<1>2. loads \in Seq(ClawLoads)
  BY DEF ClawInv, ClawTyped
<1>3. /\ loads' \in Seq(ClawLoads) /\ DOMAIN loads' = DOMAIN loads
      /\ loads'[n] = load
      /\ \A k \in DOMAIN loads : k # n => loads'[k] = loads[k]
  BY <1>1, <1>2
<1>4. clawCache' = clawCache \/ clawCache' = [load |-> 0, at |-> 0]
  BY DEF Forgets
<1>5. ClawTyped'
  BY <1>1, <1>3, <1>4 DEF ClawInv, ClawTyped
<1>6. LoadsInOrder'
  BY <1>3 DEF ClawInv, LoadsInOrder
<1>7. CacheInOrder'
  <2>1. CASE clawCache' = clawCache /\ (load.at = "failed" => loads[n].at = "failed")
    BY <1>3, <2>1 DEF ClawInv, CacheInOrder
  <2>2. CASE Forgets(n)
    BY <2>2 DEF Forgets, CacheInOrder
  <2> QED
    BY <2>1, <2>2
<1>8. ReadersInOrder'
  BY <1>1, <1>3 DEF ClawInv, ReadersInOrder
<1> QED
  BY <1>5, <1>6, <1>7, <1>8 DEF ClawInv

LEMMA WantsDataInOrder ==
  ASSUME ClawInv, NEW r \in ClawReaders, WantsData(r)
  PROVE  ClawInv'
<1> DEFINE n == IF MayShare THEN clawCache.load ELSE Len(loads) + 1
           taken == [load |-> n, asked |-> clawClock]
<1>1. /\ loads \in Seq(ClawLoads) /\ clawClock \in Nat
      /\ clawCache \in [load : Nat, at : Nat]
      /\ clawReader \in [ClawReaders -> [load : Nat, asked : Nat]]
      /\ DataTtl \in Nat /\ Len(loads) \in Nat
  BY ClawBounds DEF ClawInv, ClawTyped
<1>2. /\ clawReader' = [clawReader EXCEPT ![r] = taken]
      /\ gateway' = gateway /\ clawClock' = clawClock
  BY DEF WantsData
<1>3. n \in Nat /\ taken \in [load : Nat, asked : Nat]
      /\ taken.load = n /\ taken.asked = clawClock
  BY <1>1
<1>4. /\ clawReader' \in [ClawReaders -> [load : Nat, asked : Nat]]
      /\ clawReader'[r] = taken
      /\ \A s \in ClawReaders : s # r => clawReader'[s] = clawReader[s]
  BY <1>1, <1>2, <1>3
<1>5. CASE MayShare
  <2>1. loads' = loads /\ clawCache' = clawCache
    BY <1>5 DEF WantsData
  <2>2. /\ n \in DOMAIN loads /\ loads[n].started = clawCache.at
        /\ clawClock - clawCache.at <= DataTtl
    BY <1>5 DEF MayShare, ClawInv, CacheInOrder
  <2> HIDE DEF n, taken
  <2>3. ReadersInOrder'
    <3>0. loads[n] \in ClawLoads /\ clawCache.at \in Nat
      BY <1>1, <2>2
    <3>1. loads[n].started \in Nat /\ clawCache.at \in Nat
      BY <3>0 DEF ClawLoads
    <3>2. loads[n].started >= clawClock - DataTtl
      BY <1>1, <2>2, <3>1
    <3>3. ASSUME NEW s \in ClawReaders, clawReader'[s].load # 0
          PROVE  /\ clawReader'[s].load \in DOMAIN loads
                 /\ loads[clawReader'[s].load].started
                      >= clawReader'[s].asked - DataTtl
      <4>1. CASE s = r
        BY <1>3, <1>4, <2>2, <3>2, <4>1
      <4>2. CASE s # r
        BY <1>4, <3>3, <4>2 DEF ClawInv, ReadersInOrder
      <4> QED
        BY <4>1, <4>2
    <3> QED
      BY <2>1, <3>3 DEF ReadersInOrder
  <2> QED
    BY <1>2, <1>4, <2>1, <2>3
    DEF ClawInv, ClawTyped, LoadsInOrder, CacheInOrder
<1>6. CASE ~MayShare
  <2>1. /\ loads' = Append(loads, Opening)
        /\ clawCache' = [load |-> n, at |-> clawClock] /\ n = Len(loads) + 1
    BY <1>6 DEF WantsData
  <2>2. /\ Opening \in ClawLoads /\ Opening.started = clawClock
        /\ Opening.at # "failed" /\ LoadInOrder(Opening)
    BY <1>1 DEF Opening, ClawLoads, LoadStages, Configured, Requests, LoadInOrder
  <2>3. /\ loads' \in Seq(ClawLoads) /\ n \in DOMAIN loads' /\ loads'[n] = Opening
        /\ \A k \in DOMAIN loads' : k # n => k \in DOMAIN loads /\ loads'[k] = loads[k]
        /\ \A k \in DOMAIN loads : k \in DOMAIN loads' /\ loads'[k] = loads[k]
    BY <1>1, <2>1, <2>2
  <2>4. /\ clawCache' \in [load : Nat, at : Nat]
        /\ clawCache'.load = n /\ clawCache'.at = clawClock
    BY <1>1, <1>3, <2>1
  <2> HIDE DEF n, taken
  <2>5. ReadersInOrder'
    <3>1. clawClock >= clawClock - DataTtl
      BY <1>1
    <3> QED
      BY <1>3, <1>4, <2>2, <2>3, <3>1 DEF ClawInv, ReadersInOrder
  <2>6. LoadsInOrder'
    BY <2>2, <2>3 DEF ClawInv, LoadsInOrder
  <2>7. CacheInOrder'
    BY <2>2, <2>3, <2>4 DEF CacheInOrder
  <2> QED
    BY <1>2, <1>4, <2>3, <2>4, <2>5, <2>6, <2>7 DEF ClawInv, ClawTyped
<1> QED
  BY <1>5, <1>6

\* The socket, the gateway and the timers move one load.
LEMMA LoadStepInOrder ==
  ASSUME ClawInv, NEW n \in DOMAIN loads,
         Advances(n) \/ LoadFails(n) \/ GatewayCloses(n)
         \/ (\E request \in Requests : Answered(n, request))
  PROVE  ClawInv'
<1>1. /\ loads[n] \in ClawLoads /\ LoadInOrder(loads[n]) /\ gateway \in Configured
  BY ClawBounds DEF ClawInv, ClawTyped, LoadsInOrder, Configured
<1>2. CASE Advances(n)
  <2>1. CASE loads[n].at = "opening"
    <3> DEFINE next == [loads[n] EXCEPT !.at = "challenge"]
    <3>1. /\ next \in ClawLoads /\ next.started = loads[n].started
          /\ next.at = "challenge" /\ next.waits = loads[n].waits
      BY <1>1 DEF ClawLoads, LoadStages
    <3>2. Becomes(n, next) /\ clawCache' = clawCache
      BY <1>2, <2>1 DEF Advances
    <3> HIDE DEF next
    <3> QED
      BY <1>1, <2>1, <3>1, <3>2, LoadGoesOn DEF LoadInOrder
  <2>2. CASE loads[n].at = "challenge"
    <3> DEFINE next == [loads[n] EXCEPT !.at = "connecting"]
    <3>1. /\ next \in ClawLoads /\ next.started = loads[n].started
          /\ next.at = "connecting" /\ next.waits = loads[n].waits
      BY <1>1 DEF ClawLoads, LoadStages
    <3>2. Becomes(n, next) /\ clawCache' = clawCache
      BY <1>2, <2>2 DEF Advances
    <3> HIDE DEF next
    <3> QED
      BY <1>1, <2>2, <3>1, <3>2, LoadGoesOn DEF LoadInOrder
  <2>3. CASE loads[n].at = "connecting"
    <3> DEFINE next == [loads[n] EXCEPT !.at = "asking",
                                        !.waits = {"config", "sessions"}]
    <3>1. /\ next \in ClawLoads /\ next.started = loads[n].started
          /\ next.at = "asking" /\ next.socket = loads[n].socket
      BY <1>1 DEF ClawLoads, LoadStages, Requests
    <3>2. Becomes(n, next) /\ clawCache' = clawCache /\ loads[n].socket
      BY <1>2, <2>3 DEF Advances
    <3> HIDE DEF next
    <3> QED
      BY <1>1, <2>3, <3>1, <3>2, LoadGoesOn DEF LoadInOrder
  <2> QED
    BY <1>2, <2>1, <2>2, <2>3 DEF Advances
<1>3. CASE LoadFails(n)
  <2> DEFINE next == [loads[n] EXCEPT !.at = "failed", !.waits = {},
                                      !.socket = @ /\ loads[n].at # "asking"]
  <2>1. /\ next \in ClawLoads /\ next.started = loads[n].started
        /\ next.at = "failed" /\ next.waits = {}
    BY <1>1 DEF ClawLoads, LoadStages, Requests
  <2>2. Becomes(n, next) /\ Forgets(n)
    BY <1>3 DEF LoadFails
  <2> HIDE DEF next
  <2> QED
    BY <2>1, <2>2, LoadGoesOn DEF LoadInOrder
<1>4. CASE GatewayCloses(n)
  <2>1. CASE loads[n].at \in {"connecting", "asking"}
    <3> DEFINE next == [loads[n] EXCEPT !.at = "failed", !.waits = {},
                                        !.socket = FALSE]
    <3>1. /\ next \in ClawLoads /\ next.started = loads[n].started
          /\ next.at = "failed" /\ next.waits = {}
      BY <1>1 DEF ClawLoads, LoadStages, Requests
    <3>2. Becomes(n, next) /\ Forgets(n)
      BY <1>4, <2>1 DEF GatewayCloses
    <3> HIDE DEF next
    <3> QED
      BY <3>1, <3>2, LoadGoesOn DEF LoadInOrder
  <2>2. CASE loads[n].at \notin {"connecting", "asking"}
    <3> DEFINE next == [loads[n] EXCEPT !.socket = FALSE]
    <3>1. /\ next \in ClawLoads /\ next.started = loads[n].started
          /\ next.at = loads[n].at /\ next.waits = loads[n].waits /\ ~next.socket
      BY <1>1 DEF ClawLoads
    <3>2. Becomes(n, next) /\ clawCache' = clawCache
      BY <1>4, <2>2 DEF GatewayCloses
    <3> HIDE DEF next
    <3> QED
      BY <1>1, <2>2, <3>1, <3>2, LoadGoesOn DEF LoadInOrder
  <2> QED
    BY <2>1, <2>2
<1>5. ASSUME NEW request \in Requests, Answered(n, request)
      PROVE  ClawInv'
  <2> DEFINE left == loads[n].waits \ {request}
             got == IF request = "config" THEN gateway ELSE loads[n].got
             next == [loads[n] EXCEPT !.waits = left, !.got = got,
                        !.at = IF left = {} THEN "loaded" ELSE @,
                        !.socket = left # {}]
  <2>1. left \subseteq Requests /\ got \in Configured
    BY <1>1 DEF ClawLoads
  <2>2. Becomes(n, next) /\ clawCache' = clawCache /\ loads[n].at = "asking"
    BY <1>5 DEF Answered
  <2> HIDE DEF left, got
  <2>3. /\ next \in ClawLoads /\ next.started = loads[n].started
        /\ next.at = (IF left = {} THEN "loaded" ELSE loads[n].at)
        /\ next.waits = left /\ next.socket = (left # {})
    BY <1>1, <2>1 DEF ClawLoads, LoadStages
  <2> HIDE DEF next
  <2> QED
    BY <2>2, <2>3, LoadGoesOn DEF LoadInOrder
<1> QED
  BY <1>2, <1>3, <1>4, <1>5

LEMMA ClawStart == ClawInit => ClawInv
BY ClawBounds
DEF ClawInit, ClawInv, ClawTyped, LoadsInOrder, CacheInOrder, ReadersInOrder

LEMMA ClawStep == ClawInv /\ [ClawNext]_clawVars => ClawInv'
<1> SUFFICES ASSUME ClawInv, [ClawNext]_clawVars PROVE ClawInv'
  OBVIOUS
<1>1. ASSUME NEW r \in ClawReaders, GetsData(r) PROVE ClawInv'
  <2>1. /\ clawReader' = [clawReader EXCEPT ![r].load = 0]
        /\ UNCHANGED <<gateway, loads, clawCache, clawClock>>
    BY <1>1 DEF GetsData
  <2>2. /\ clawReader' \in [ClawReaders -> [load : Nat, asked : Nat]]
        /\ clawReader'[r].load = 0
        /\ \A s \in ClawReaders : s # r => clawReader'[s] = clawReader[s]
    BY <2>1 DEF ClawInv, ClawTyped
  <2>3. ReadersInOrder'
    BY <2>1, <2>2 DEF ClawInv, ReadersInOrder
  <2> QED
    BY <2>1, <2>2, <2>3 DEF ClawInv, ClawTyped, LoadsInOrder, CacheInOrder
<1>2. ASSUME NEW w \in Workspaces, GatewayChanges(w) PROVE ClawInv'
  BY <1>2 DEF GatewayChanges, ClawInv, ClawTyped, LoadsInOrder, CacheInOrder,
              ReadersInOrder
<1>3. CASE ClawTick
  BY <1>3, ClawBounds
  DEF ClawTick, ClawInv, ClawTyped, LoadsInOrder, CacheInOrder, ReadersInOrder
<1>4. CASE UNCHANGED clawVars
  BY <1>4 DEF clawVars, ClawInv, ClawTyped, LoadsInOrder, CacheInOrder,
              ReadersInOrder
<1> QED
  BY <1>1, <1>2, <1>3, <1>4, WantsDataInOrder, LoadStepInOrder
  DEF ClawNext, Requests

\* A workspace lies on one of the two floors or on none.
LEMMA FloorsOfWorkspaces ==
  ASSUME NEW w \in Configured
  PROVE  FloorOf[w] \in {{}, {"p"}, {"q"}}
BY DEF Configured, FloorOf

LEMMA OnOneFloor ==
  ASSUME NEW w \in Configured
  PROVE  LET floors == {f \in ClawFloors : OnFloor(w, f)} IN
         /\ Cardinality(floors) <= 1
         /\ floors = {} <=> RoamsInSky(w, ClawFloors)
<1> DEFINE floors == {f \in ClawFloors : OnFloor(w, f)}
<1>1. floors = FloorOf[w]
  BY FloorsOfWorkspaces DEF OnFloor, ClawFloors
<1>2. FloorOf[w] \cap ClawFloors = FloorOf[w]
  BY FloorsOfWorkspaces DEF ClawFloors
<1>3. Cardinality(FloorOf[w]) <= 1
  <2>1. Cardinality({}) = 0 /\ Cardinality({"p"}) = 1 /\ Cardinality({"q"}) = 1
    BY FS_EmptySet, FS_Singleton
  <2> QED
    BY <2>1, FloorsOfWorkspaces
<1> QED
  BY <1>1, <1>2, <1>3 DEF RoamsInSky

\* openclaw.ts, loadOpenClawWorkspaceData: however readers share loads that
\* fail, are refused or are cut off, nobody is given older data than the time
\* to live allows, no failed load is kept, no socket is left by a load that
\* loaded, and the session it found is on one floor or in the sky.
THEOREM OpenClawIsAlwaysTold == ClawSpec => []OpenClawIsTold
<1>1. ClawSpec => []ClawInv
  BY ClawStart, ClawStep, PTL DEF ClawSpec
<1>2. ClawInv => DataIsFresh
  BY DEF ClawInv, CacheInOrder, ReadersInOrder, DataIsFresh
<1>3. ClawInv => NoSocketLeft
  BY DEF ClawInv, LoadsInOrder, LoadInOrder, NoSocketLeft
<1>4. ClawInv => SeenOnce
  <2> SUFFICES ASSUME ClawInv, NEW n \in DOMAIN loads
               PROVE  LET floors == {f \in ClawFloors : OnFloor(loads[n].got, f)} IN
                      /\ Cardinality(floors) <= 1
                      /\ floors = {} <=> RoamsInSky(loads[n].got, ClawFloors)
    BY DEF SeenOnce
  <2>1. loads[n] \in ClawLoads
    BY DEF ClawInv, ClawTyped
  <2>2. loads[n].got \in Configured
    BY <2>1 DEF ClawLoads
  <2> QED
    BY <2>2, OnOneFloor
<1> QED
  BY <1>1, <1>2, <1>3, <1>4, PTL DEF OpenClawIsTold

-----------------------------------------------------------------------------
(* Cursor's hooks: the record that decides.                                *)

CursorRecords == [event : CursorEvents, stamp : Nat]

\* The file was last written at a time that has been.
CursorTyped ==
  /\ cursorFile \in Seq(CursorRecords)
  /\ cursorSaved \in Nat /\ cursorClock \in Nat /\ cursorSaved <= cursorClock

LEMMA CursorStart == CursorInit => CursorTyped
BY DEF CursorInit, CursorTyped

LEMMA CursorStep == CursorTyped /\ [CursorNext]_cursorVars => CursorTyped'
<1> SUFFICES ASSUME CursorTyped, [CursorNext]_cursorVars PROVE CursorTyped'
  OBVIOUS
<1>1. ASSUME NEW e \in CursorEvents, NEW s \in Skews, CursorHook(e, s)
      PROVE  CursorTyped'
  <2>1. cursorClock + s \in Nat
    BY CursorSpans DEF CursorTyped
  <2>2. [event |-> e, stamp |-> cursorClock + s] \in CursorRecords
    BY <2>1 DEF CursorRecords
  <2> QED
    BY <1>1, <2>2 DEF CursorHook, CursorTyped
<1>2. CASE CursorTick
  BY <1>2 DEF CursorTick, CursorTyped
<1>3. CASE UNCHANGED cursorVars
  BY <1>3 DEF cursorVars, CursorTyped
<1> QED
  BY <1>1, <1>2, <1>3 DEF CursorNext

\* A stamp the loader works with is at most a tolerance ahead of the file.
LEMMA StampIsNear ==
  ASSUME CursorTyped, NEW i \in DOMAIN cursorFile
  PROVE  /\ cursorFile[i].stamp \in Nat
         /\ Stamp(cursorFile[i]) \in Nat
         /\ Stamp(cursorFile[i]) <= cursorSaved + Tolerance
<1>1. cursorFile[i] \in CursorRecords
  BY DEF CursorTyped
<1>2. cursorFile[i].stamp \in Nat /\ cursorSaved \in Nat /\ Tolerance \in Nat
  BY <1>1, CursorSpans DEF CursorRecords, CursorTyped
<1> QED
  BY <1>2 DEF Stamp

Decides(i) ==
  \A j \in Summarised :
    \/ Stamp(cursorFile[j]) < Stamp(cursorFile[i])
    \/ Stamp(cursorFile[j]) = Stamp(cursorFile[i]) /\ j <= i

\* The order of stamps and places has a last element, and only one.
LEMMA OneDecides ==
  ASSUME CursorTyped, Summarised # {}
  PROVE  /\ Deciding \in Summarised
         /\ \A i \in Summarised : Decides(i) => i = Deciding
<1> DEFINE At(i) == Stamp(cursorFile[i])
           Stamps == {At(i) : i \in Summarised}
<1>1. cursorFile \in Seq(CursorRecords) /\ Len(cursorFile) \in Nat
      /\ cursorSaved + Tolerance \in Nat
  BY CursorSpans DEF CursorTyped
<1>2. \A i \in Summarised : At(i) \in Nat /\ At(i) <= cursorSaved + Tolerance
  BY StampIsNear DEF Summarised
<1>3. \A i \in Summarised : i \in Nat /\ i <= Len(cursorFile)
  BY <1>1 DEF Summarised
<1>4. PICK i \in Summarised : \A j \in Summarised : At(j) <= At(i)
  <2> HIDE DEF At
  <2>1. Stamps \in SUBSET Nat /\ Stamps # {}
        /\ \A t \in Stamps : t <= cursorSaved + Tolerance
    BY <1>2
  <2>2. PICK t \in Stamps : \A u \in Stamps : u <= t
    BY <1>1, <2>1, GreatestNumber
  <2> QED
    BY <2>2
<1> DEFINE Ties == {j \in Summarised : At(j) = At(i)}
<1>5. Ties \in SUBSET Nat /\ Ties # {} /\ \A j \in Ties : j <= Len(cursorFile)
  BY <1>3
<1>6. PICK k \in Ties : \A j \in Ties : j <= k
  BY <1>1, <1>5, GreatestNumber
<1>7. k \in Summarised /\ Decides(k)
  <2> SUFFICES ASSUME NEW j \in Summarised
               PROVE  At(j) < At(k) \/ (At(j) = At(k) /\ j <= k)
    BY DEF Decides
  <2>1. At(j) <= At(k) /\ At(j) \in Nat /\ At(k) \in Nat
    BY <1>2, <1>4
  <2>2. CASE At(j) = At(k)
    BY <1>6, <2>2
  <2>3. CASE At(j) # At(k)
    BY <2>1, <2>3
  <2> QED
    BY <2>2, <2>3
<1>8. Deciding \in Summarised /\ Decides(Deciding)
  BY <1>7 DEF Deciding, Decides
<1>9. ASSUME NEW j \in Summarised, Decides(j) PROVE j = Deciding
  <2>1. At(j) \in Nat /\ At(Deciding) \in Nat /\ j \in Nat /\ Deciding \in Nat
    BY <1>2, <1>3, <1>8
  <2>2. At(Deciding) < At(j) \/ (At(Deciding) = At(j) /\ Deciding <= j)
    BY <1>8, <1>9 DEF Decides
  <2>3. At(j) < At(Deciding) \/ (At(j) = At(Deciding) /\ j <= Deciding)
    BY <1>8 DEF Decides
  <2> HIDE DEF At
  <2> QED
    BY <2>1, <2>2, <2>3
<1> QED
  BY <1>8, <1>9

\* cursor.ts, loadCursorHookProjectSnapshotData: however far ahead of the file
\* its stamps are, a session that is no longer written stops looking busy and
\* is then no longer shown; and a last record with a right stamp decides unless
\* an earlier one is ahead by less than the tolerance.
THEOREM CursorIsAlwaysTold == CursorSpec => []CursorIsTold
<1>1. CursorSpec => []CursorTyped
  BY CursorStart, CursorStep, PTL DEF CursorSpec
<1>2. CursorTyped => GoesQuiet
  <2> SUFFICES ASSUME CursorTyped PROVE GoesQuiet
    OBVIOUS
  <2>1. /\ cursorSaved \in Nat /\ cursorClock \in Nat
        /\ Tolerance \in Nat /\ ActiveSpan \in Nat /\ DoneSpan \in Nat
        /\ ActiveSpan <= DoneSpan
    BY CursorSpans DEF CursorTyped
  <2>2. CASE Summarised = {}
    BY <2>2 DEF GoesQuiet, CursorAgent, NoPhase, Phase
  <2>3. CASE Summarised # {}
    <3> DEFINE at == Stamp(cursorFile[Deciding])
               phase == PhaseOf(cursorFile[Deciding].event)
               aged == AgedPhase(phase, at)
               age == cursorClock - at
    <3>1. at \in Nat /\ at <= cursorSaved + Tolerance
      BY <2>3, OneDecides, StampIsNear DEF Summarised
    <3>2. CursorAgent = IF aged = Phase("idle", FALSE) THEN NoPhase ELSE aged
      BY <2>3 DEF CursorAgent
    <3> HIDE DEF at, phase
    <3>3. ASSUME cursorClock - cursorSaved > ActiveSpan + Tolerance
          PROVE  ~CursorAgent.ongoing
      <4>1. age > ActiveSpan
        BY <2>1, <3>1, <3>3
      <4>2. ~aged.ongoing
        <5>1. CASE phase.ongoing
          BY <4>1, <2>1, <3>1, <5>1 DEF AgedPhase, Phase
        <5>2. CASE ~phase.ongoing
          BY <5>2 DEF AgedPhase, Phase
        <5> QED
          BY <5>1, <5>2
      <4> QED
        BY <3>2, <4>2 DEF NoPhase, Phase
    <3>4. ASSUME cursorClock - cursorSaved > DoneSpan + Tolerance
          PROVE  CursorAgent = NoPhase
      <4>1. age > DoneSpan /\ age > ActiveSpan
        BY <2>1, <3>1, <3>4
      <4>2. ~(age <= DoneSpan) /\ ~(age <= ActiveSpan)
        BY <2>1, <3>1, <4>1
      <4>3. aged = Phase("idle", FALSE)
        <5>1. CASE phase.ongoing
          BY <4>2, <5>1 DEF AgedPhase
        <5>2. CASE ~phase.ongoing
          BY <4>2, <5>2 DEF AgedPhase
        <5> QED
          BY <5>1, <5>2
      <4> QED
        BY <3>2, <4>3
    <3> QED
      BY <3>3, <3>4 DEF GoesQuiet
  <2> QED
    BY <2>2, <2>3
<1>3. CursorTyped => LastDecides
  <2> SUFFICES ASSUME CursorTyped, Len(cursorFile) \in Summarised,
                      cursorFile[Len(cursorFile)].stamp = cursorSaved,
                      \A i \in Summarised \ {Len(cursorFile)} :
                        cursorFile[i].stamp \notin cursorSaved + 1
                                                   .. cursorSaved + Tolerance
               PROVE  Deciding = Len(cursorFile)
    BY DEF LastDecides
  <2> DEFINE n == Len(cursorFile)
  <2>1. cursorSaved \in Nat /\ Tolerance \in Nat /\ n \in Nat
        /\ DOMAIN cursorFile = 1..n
    BY CursorSpans DEF CursorTyped
  <2>2. Stamp(cursorFile[n]) = cursorSaved
    BY <2>1 DEF Stamp
  <2>3. ASSUME NEW j \in Summarised
        PROVE  Stamp(cursorFile[j]) <= cursorSaved /\ j <= n /\ j \in Nat
               /\ Stamp(cursorFile[j]) \in Nat
    <3>1. j \in 1..n
      BY <2>1 DEF Summarised
    <3>4. j \in Nat /\ j <= n
      <4> HIDE DEF n
      <4> QED
        BY <2>1, <3>1
    <3>2. CASE j = n
      BY <2>1, <2>2, <3>2
    <3>3. CASE j # n
      <4>1. cursorFile[j].stamp \in Nat /\ Stamp(cursorFile[j]) \in Nat
        BY <2>1, <3>1, StampIsNear
      <4>2. cursorFile[j].stamp \notin cursorSaved + 1 .. cursorSaved + Tolerance
        BY <3>3
      <4>3. CASE cursorFile[j].stamp <= cursorSaved + Tolerance
        <5>1. Stamp(cursorFile[j]) = cursorFile[j].stamp
          BY <4>3 DEF Stamp
        <5>2. cursorFile[j].stamp <= cursorSaved
          BY <2>1, <4>1, <4>2, <4>3
        <5> QED
          BY <3>4, <4>1, <5>1, <5>2
      <4>4. CASE ~(cursorFile[j].stamp <= cursorSaved + Tolerance)
        <5>1. Stamp(cursorFile[j]) <= cursorSaved
          BY <2>1, <4>4 DEF Stamp
        <5> QED
          BY <3>4, <4>1, <5>1
      <4> QED
        BY <4>3, <4>4
    <3> QED
      BY <3>2, <3>3
  <2>4. Decides(n)
    BY <2>1, <2>2, <2>3 DEF Decides
  <2> QED
    BY <2>4, OneDecides
<1> QED
  BY <1>1, <1>2, <1>3, PTL DEF CursorIsTold

-----------------------------------------------------------------------------
(* Cursor's cloud agents: the messages that overlapping loads tell.        *)

CloudStages == {"checking", "listing", "reading", "building", "over"}
CloudLoads == [at : CloudStages, emit : BOOLEAN, got : Nat, events : SUBSET Nat,
               kept : BOOLEAN]

CloudTyped ==
  /\ cloudAgent \in [messages : Nat, ofInterest : BOOLEAN, key : BOOLEAN]
  /\ cloudLoads \in Seq(CloudLoads)
  /\ knownMessages \in Nat /\ emitEvents \in BOOLEAN

\* A load has read nothing before it reads, and what one that is over has read
\* is known.
ReadIsKnown ==
  \A n \in DOMAIN cloudLoads :
    /\ cloudLoads[n].at \in {"checking", "listing", "reading"}
         => cloudLoads[n].got = 0
    /\ cloudLoads[n].at = "over" => cloudLoads[n].got <= knownMessages

\* The load that made a message known has told it, unless it does not tell.
HasTold(n, m) ==
  /\ cloudLoads[n].at = "over" /\ m <= cloudLoads[n].got
  /\ cloudLoads[n].emit => m \in cloudLoads[n].events

KnownWasRead ==
  \A m \in 1..knownMessages : \E n \in DOMAIN cloudLoads : HasTold(n, m)

CloudInv == CloudTyped /\ ReadIsKnown /\ KnownWasRead

\* What one step may not do: tell again, or take back, what some load has read.
TellsNothingTwice ==
  \A m \in 1..MaxMessages : HaveRead(m) # {} => TellersOf(m)' = TellersOf(m)

\* Steps that leave the loads that are over as they are, and end none.
NoLoadEnds ==
  /\ DOMAIN cloudLoads \subseteq DOMAIN cloudLoads'
  /\ \A n \in DOMAIN cloudLoads' :
       \/ n \in DOMAIN cloudLoads /\ cloudLoads'[n] = cloudLoads[n]
       \/ /\ cloudLoads'[n].at # "over"
          /\ n \in DOMAIN cloudLoads => cloudLoads[n].at # "over"

LEMMA NothingIsTold ==
  ASSUME CloudInv, NoLoadEnds, knownMessages' = knownMessages
  PROVE  TellsNothingTwice /\ KnownWasRead'
<1>1. Finished' = Finished /\ \A n \in Finished : cloudLoads'[n] = cloudLoads[n]
  BY DEF NoLoadEnds, Finished
<1>2. TellsNothingTwice
  <2> SUFFICES ASSUME NEW m \in 1..MaxMessages
               PROVE  TellersOf(m)' = TellersOf(m)
    BY DEF TellsNothingTwice
  <2> QED
    BY <1>1 DEF TellersOf
<1>3. KnownWasRead'
  <2> SUFFICES ASSUME NEW m \in 1..knownMessages
               PROVE  \E n \in DOMAIN cloudLoads' : HasTold(n, m)'
    BY DEF KnownWasRead
  <2>1. PICK n \in DOMAIN cloudLoads : HasTold(n, m)
    BY DEF CloudInv, KnownWasRead
  <2>2. n \in Finished /\ n \in DOMAIN cloudLoads'
    BY <2>1 DEF HasTold, Finished, NoLoadEnds
  <2> QED
    BY <1>1, <2>1, <2>2 DEF HasTold
<1> QED
  BY <1>2, <1>3

\* One load goes on, to a stage before its end.
LEMMA LoadMoves ==
  ASSUME CloudInv, NEW n \in DOMAIN cloudLoads, NEW load \in CloudLoads,
         cloudLoads' = [cloudLoads EXCEPT ![n] = load],
         cloudLoads[n].at # "over", load.at # "over",
         load.at = "building" \/ load.got = 0,
         UNCHANGED <<cloudAgent, knownMessages, emitEvents>>
  PROVE  CloudInv' /\ TellsNothingTwice
<1>1. cloudLoads \in Seq(CloudLoads)
  BY DEF CloudInv, CloudTyped
<1>2. /\ cloudLoads' \in Seq(CloudLoads) /\ DOMAIN cloudLoads' = DOMAIN cloudLoads
      /\ cloudLoads'[n] = load
      /\ \A k \in DOMAIN cloudLoads : k # n => cloudLoads'[k] = cloudLoads[k]
  BY <1>1
<1>3. NoLoadEnds
  BY <1>2 DEF NoLoadEnds
<1>4. ReadIsKnown'
  BY <1>2 DEF CloudInv, ReadIsKnown
<1>5. CloudTyped'
  BY <1>2 DEF CloudInv, CloudTyped
<1> QED
  BY <1>3, <1>4, <1>5, NothingIsTold DEF CloudInv

\* One load ends, having told only what no load had read before.
LEMMA LoadEndsOnce ==
  ASSUME CloudInv, NEW n \in DOMAIN cloudLoads, NEW events \in SUBSET Nat,
         CloudLoadEnds(n, events), cloudLoads[n].at # "over",
         \A m \in events : knownMessages < m,
         knownMessages' \in Nat, emitEvents' \in BOOLEAN,
         knownMessages <= knownMessages', cloudLoads[n].got <= knownMessages',
         knownMessages < knownMessages' => knownMessages' = cloudLoads[n].got,
         cloudLoads[n].emit => events = knownMessages + 1 .. cloudLoads[n].got
                               \/ knownMessages' = knownMessages,
         cloudAgent' = cloudAgent
  PROVE  CloudInv' /\ TellsNothingTwice
<1> DEFINE over == [cloudLoads[n] EXCEPT !.at = "over", !.events = events,
                                         !.kept = n = Len(cloudLoads)]
<1>1. cloudLoads \in Seq(CloudLoads) /\ cloudLoads[n] \in CloudLoads
      /\ knownMessages \in Nat
  BY DEF CloudInv, CloudTyped
<1>2. /\ over \in CloudLoads /\ over.at = "over" /\ over.events = events
      /\ over.got = cloudLoads[n].got /\ over.emit = cloudLoads[n].emit
      /\ over.got \in Nat
  BY <1>1 DEF CloudLoads, CloudStages
<1>3. cloudLoads' = [cloudLoads EXCEPT ![n] = over]
  BY DEF CloudLoadEnds
<1> HIDE DEF over
<1>4. /\ cloudLoads' \in Seq(CloudLoads) /\ DOMAIN cloudLoads' = DOMAIN cloudLoads
      /\ cloudLoads'[n] = over
      /\ \A k \in DOMAIN cloudLoads : k # n => cloudLoads'[k] = cloudLoads[k]
  BY <1>1, <1>2, <1>3
<1>5. CloudTyped'
  BY <1>4 DEF CloudInv, CloudTyped
<1>6. ReadIsKnown'
  <2>1. ASSUME NEW k \in DOMAIN cloudLoads, k # n, cloudLoads[k].at = "over"
        PROVE  cloudLoads[k].got <= knownMessages'
    <3>1. cloudLoads[k] \in CloudLoads
      BY <1>1
    <3>2. cloudLoads[k].got \in Nat /\ cloudLoads[k].got <= knownMessages
      BY <2>1, <3>1 DEF CloudLoads, CloudInv, ReadIsKnown
    <3> QED
      BY <1>1, <3>2
  <2> QED
    BY <1>2, <1>4, <2>1 DEF CloudInv, ReadIsKnown
<1>7. KnownWasRead'
  <2> SUFFICES ASSUME NEW m \in 1..knownMessages'
               PROVE  \E k \in DOMAIN cloudLoads' : HasTold(k, m)'
    BY DEF KnownWasRead
  <2>1. CASE m <= knownMessages
    <3>1. m \in 1..knownMessages
      BY <1>1, <2>1
    <3>2. PICK k \in DOMAIN cloudLoads : HasTold(k, m)
      BY <3>1 DEF CloudInv, KnownWasRead
    <3>3. k # n
      BY <3>2 DEF HasTold
    <3> QED
      BY <1>4, <3>2, <3>3 DEF HasTold
  <2>2. CASE ~(m <= knownMessages)
    <3>1. knownMessages < m /\ m <= cloudLoads[n].got /\ m \in Nat
      BY <1>1, <2>2
    <3>2. cloudLoads[n].emit => m \in events
      BY <1>1, <1>2, <3>1
    <3> QED
      BY <1>2, <1>4, <3>1, <3>2 DEF HasTold
  <2> QED
    BY <2>1, <2>2
<1>8. TellsNothingTwice
  <2> SUFFICES ASSUME NEW m \in 1..MaxMessages, HaveRead(m) # {}
               PROVE  TellersOf(m)' = TellersOf(m)
    BY DEF TellsNothingTwice
  <2>1. PICK k \in Finished : m <= cloudLoads[k].got
    BY DEF HaveRead
  <2>2. k \in DOMAIN cloudLoads /\ cloudLoads[k].at = "over"
    BY DEF Finished
  <2>3. cloudLoads[k] \in CloudLoads
    BY <1>1, <2>2
  <2>4. cloudLoads[k].got \in Nat /\ cloudLoads[k].got <= knownMessages
    BY <2>2, <2>3 DEF CloudLoads, CloudInv, ReadIsKnown
  <2>5. m \notin events
    BY <1>1, <2>1, <2>4
  <2>6. Finished' = Finished \cup {n} /\ n \notin Finished
    BY <1>2, <1>4 DEF Finished
  <2> QED
    BY <1>2, <1>4, <2>5, <2>6 DEF TellersOf, Finished
<1> QED
  BY <1>5, <1>6, <1>7, <1>8 DEF CloudInv

LEMMA CloudStart == CloudInit => CloudInv
<1> SUFFICES ASSUME CloudInit PROVE CloudInv
  OBVIOUS
<1>1. cloudAgent \in [messages : 0..MaxMessages, ofInterest : BOOLEAN, key : BOOLEAN]
  BY DEF CloudInit
<1>2. cloudAgent \in [messages : Nat, ofInterest : BOOLEAN, key : BOOLEAN]
  BY <1>1, CloudBounds
<1>3. /\ cloudLoads = <<>> /\ knownMessages = 0 /\ emitEvents = FALSE
  BY DEF CloudInit
<1>4. cloudLoads \in Seq(CloudLoads) /\ DOMAIN cloudLoads = {} /\ 1..knownMessages = {}
  BY <1>3
<1>5. CloudTyped
  BY <1>2, <1>3, <1>4 DEF CloudTyped
<1>6. ReadIsKnown /\ KnownWasRead
  BY <1>4 DEF ReadIsKnown, KnownWasRead
<1> QED
  BY <1>5, <1>6 DEF CloudInv

LEMMA LoadStepTells ==
  ASSUME CloudInv, NEW n \in DOMAIN cloudLoads,
         Checked(n) \/ ListAnswers(n) \/ ListRefused(n) \/ Builds(n)
         \/ (\E fails \in BOOLEAN : ConversationRead(n, fails))
  PROVE  CloudInv' /\ TellsNothingTwice
<1>1. /\ cloudLoads[n] \in CloudLoads /\ knownMessages \in Nat
      /\ cloudLoads \in Seq(CloudLoads)
      /\ cloudAgent.messages \in Nat /\ emitEvents \in BOOLEAN
  BY DEF CloudInv, CloudTyped
<1>2. /\ cloudLoads[n].got \in Nat
      /\ cloudLoads[n].at \in {"checking", "listing", "reading"}
           => cloudLoads[n].got = 0
  BY <1>1 DEF CloudLoads, CloudInv, ReadIsKnown
<1>3. CASE Checked(n)
  <2>1. CASE cloudAgent.key
    <3> DEFINE next == [cloudLoads[n] EXCEPT !.at = "listing", !.emit = emitEvents]
    <3>1. /\ next \in CloudLoads /\ next.at = "listing" /\ next.got = cloudLoads[n].got
      BY <1>1 DEF CloudLoads, CloudStages
    <3>2. /\ cloudLoads' = [cloudLoads EXCEPT ![n] = next]
          /\ cloudLoads[n].at = "checking"
          /\ UNCHANGED <<cloudAgent, knownMessages, emitEvents>>
      BY <1>1, <1>3, <2>1 DEF Checked
    <3> HIDE DEF next
    <3> QED
      BY <1>2, <3>1, <3>2, LoadMoves
  <2>2. CASE ~cloudAgent.key
    BY <1>1, <1>2, <1>3, <2>2, LoadEndsOnce DEF Checked
  <2> QED
    BY <2>1, <2>2
<1>4. CASE ListAnswers(n)
  <2> DEFINE at == IF cloudAgent.ofInterest THEN "reading" ELSE "building"
             next == [cloudLoads[n] EXCEPT !.at = at]
  <2>1. /\ next \in CloudLoads /\ next.at = at /\ next.got = cloudLoads[n].got
    BY <1>1 DEF CloudLoads, CloudStages
  <2>2. /\ cloudLoads' = [cloudLoads EXCEPT ![n] = next]
        /\ cloudLoads[n].at = "listing"
        /\ UNCHANGED <<cloudAgent, knownMessages, emitEvents>>
    BY <1>1, <1>4 DEF ListAnswers
  <2>3. at # "over"
    OBVIOUS
  <2> HIDE DEF next, at
  <2> QED
    BY <1>2, <2>1, <2>2, <2>3, LoadMoves
<1>5. CASE ListRefused(n)
  BY <1>1, <1>2, <1>5, LoadEndsOnce DEF ListRefused
<1>6. CASE Builds(n)
  <2> DEFINE load == cloudLoads[n]
             events == IF load.emit THEN knownMessages + 1 .. load.got ELSE {}
  <2>1. /\ CloudLoadEnds(n, events) /\ load.at = "building"
        /\ knownMessages' = Remembered(load) /\ emitEvents' = TRUE
        /\ cloudAgent' = cloudAgent
    BY <1>6 DEF Builds
  <2>2. events \in SUBSET Nat /\ \A m \in events : knownMessages < m
    BY <1>1, <1>2
  <2>3. /\ knownMessages' \in Nat /\ knownMessages <= knownMessages'
        /\ load.got <= knownMessages'
        /\ knownMessages < knownMessages' => knownMessages' = load.got
    BY <1>1, <1>2, <2>1 DEF Remembered
  <2>4. load.emit => events = knownMessages + 1 .. load.got
    OBVIOUS
  <2> HIDE DEF events
  <2> QED
    BY <2>1, <2>2, <2>3, <2>4, LoadEndsOnce
<1>7. ASSUME NEW fails \in BOOLEAN, ConversationRead(n, fails)
      PROVE  CloudInv' /\ TellsNothingTwice
  <2> DEFINE got == IF fails THEN 0 ELSE cloudAgent.messages
             next == [cloudLoads[n] EXCEPT !.at = "building", !.got = got]
  <2>1. got \in Nat
    BY <1>1
  <2> HIDE DEF got
  <2>2. /\ next \in CloudLoads /\ next.at = "building"
    BY <1>1, <2>1 DEF CloudLoads, CloudStages
  <2>3. /\ cloudLoads' = [cloudLoads EXCEPT ![n] = next]
        /\ cloudLoads[n].at = "reading"
        /\ UNCHANGED <<cloudAgent, knownMessages, emitEvents>>
    BY <1>1, <1>7 DEF ConversationRead, got
  <2> HIDE DEF next
  <2> QED
    BY <2>2, <2>3, LoadMoves
<1> QED
  BY <1>3, <1>4, <1>5, <1>6, <1>7

LEMMA CloudStep == CloudInv /\ [CloudNext]_cloudVars => CloudInv' /\ TellsNothingTwice
<1> SUFFICES ASSUME CloudInv, [CloudNext]_cloudVars
             PROVE  CloudInv' /\ TellsNothingTwice
  OBVIOUS
<1>1. ASSUME cloudAgent' \in [messages : Nat, ofInterest : BOOLEAN, key : BOOLEAN],
             UNCHANGED <<cloudLoads, knownMessages, emitEvents>>
      PROVE  CloudInv' /\ TellsNothingTwice
  <2>1. NoLoadEnds
    BY <1>1 DEF NoLoadEnds
  <2> QED
    BY <1>1, <2>1, NothingIsTold DEF CloudInv, CloudTyped, ReadIsKnown
<1>2. cloudAgent \in [messages : Nat, ofInterest : BOOLEAN, key : BOOLEAN]
  BY DEF CloudInv, CloudTyped
<1>3. CASE MessageWritten \/ AgentGrowsOld \/ KeyChanges \/ UNCHANGED cloudVars
  <2>1. UNCHANGED <<cloudLoads, knownMessages, emitEvents>>
    BY <1>3 DEF MessageWritten, AgentGrowsOld, KeyChanges, cloudVars
  <2>2. CASE MessageWritten
    <3>1. cloudAgent.messages + 1 \in Nat
      BY <1>2
    <3>2. cloudAgent' = [cloudAgent EXCEPT !.messages = cloudAgent.messages + 1,
                                           !.ofInterest = TRUE]
      BY <2>2 DEF MessageWritten
    <3> QED
      BY <1>1, <1>2, <2>1, <3>1, <3>2
  <2>3. CASE AgentGrowsOld
    BY <1>1, <1>2, <2>1, <2>3 DEF AgentGrowsOld
  <2>4. CASE KeyChanges
    <3>1. /\ cloudAgent.key \in BOOLEAN
          /\ cloudAgent' = [cloudAgent EXCEPT !.key = ~cloudAgent.key]
      BY <1>2, <2>4 DEF KeyChanges
    <3> QED
      BY <1>1, <1>2, <2>1, <3>1
  <2>5. CASE UNCHANGED cloudVars
    BY <1>1, <1>2, <2>5 DEF cloudVars
  <2> QED
    BY <1>3, <2>2, <2>3, <2>4, <2>5
<1>4. CASE LoadBegins
  <2> DEFINE new == [at |-> "checking", emit |-> FALSE, got |-> 0, events |-> {},
                     kept |-> FALSE]
  <2>1. /\ cloudLoads' = Append(cloudLoads, new) /\ cloudLoads \in Seq(CloudLoads)
        /\ UNCHANGED <<cloudAgent, knownMessages, emitEvents>>
    BY <1>4 DEF LoadBegins, CloudInv, CloudTyped
  <2>2. new \in CloudLoads /\ new.at = "checking" /\ new.got = 0
    BY DEF CloudLoads, CloudStages
  <2> HIDE DEF new
  <2>3. /\ cloudLoads' \in Seq(CloudLoads)
        /\ DOMAIN cloudLoads \subseteq DOMAIN cloudLoads'
        /\ \A k \in DOMAIN cloudLoads : cloudLoads'[k] = cloudLoads[k]
        /\ \A k \in DOMAIN cloudLoads' :
             k \in DOMAIN cloudLoads \/ cloudLoads'[k] = new
        /\ \A k \in DOMAIN cloudLoads' :
             k \notin DOMAIN cloudLoads \/ cloudLoads'[k] = cloudLoads[k]
    BY <2>1, <2>2
  <2>4. NoLoadEnds
    BY <2>2, <2>3 DEF NoLoadEnds
  <2>5. ReadIsKnown'
    BY <2>1, <2>2, <2>3 DEF CloudInv, ReadIsKnown
  <2> QED
    BY <2>1, <2>3, <2>4, <2>5, NothingIsTold DEF CloudInv, CloudTyped
<1> QED
  BY <1>3, <1>4, LoadStepTells DEF CloudNext

\* cursor-cloud-data.ts and architecture.md:480: however loads overlap, a
\* message that any load has read is not told again, and one that was never
\* told is history to a load that does not tell, or went with a superseded load.
THEOREM CloudAlwaysTellsOnce == CloudSpec => CloudTellsOnce
<1>1. CloudSpec => []CloudInv
  BY CloudStart, CloudStep, PTL DEF CloudSpec
<1>2. CloudInv /\ [CloudNext]_cloudVars
        => [\A m \in 1..MaxMessages : HaveRead(m) # {}
              => TellersOf(m)' = TellersOf(m)]_cloudVars
  BY CloudStep DEF TellsNothingTwice
<1>3. CloudInv => LostOnlyWithItsLoad
  <2> SUFFICES ASSUME CloudInv, NEW m \in 1..MaxMessages,
                      HaveRead(m) # {}, TellersOf(m) = {}
               PROVE  \E n \in HaveRead(m) : ~cloudLoads[n].emit \/ ~cloudLoads[n].kept
    BY DEF LostOnlyWithItsLoad
  <2>1. PICK k \in Finished : m <= cloudLoads[k].got
    BY DEF HaveRead
  <2>2. k \in DOMAIN cloudLoads /\ cloudLoads[k].at = "over"
    BY DEF Finished
  <2>3. cloudLoads[k] \in CloudLoads /\ knownMessages \in Nat
    BY <2>2 DEF CloudInv, CloudTyped
  <2>4. cloudLoads[k].got \in Nat /\ cloudLoads[k].got <= knownMessages
    BY <2>2, <2>3 DEF CloudLoads, CloudInv, ReadIsKnown
  <2>5. m \in 1..knownMessages
    BY <2>1, <2>3, <2>4
  <2>6. PICK n \in DOMAIN cloudLoads : HasTold(n, m)
    BY <2>5 DEF CloudInv, KnownWasRead
  <2>7. n \in HaveRead(m)
    BY <2>6 DEF HasTold, HaveRead, Finished
  <2> QED
    BY <2>6, <2>7 DEF HasTold, HaveRead, TellersOf
<1> QED
  BY <1>1, <1>2, <1>3, PTL DEF CloudSpec, CloudTellsOnce, NewlySeenOnly
=============================================================================
