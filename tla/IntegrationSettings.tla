-------------------------- MODULE IntegrationSettings --------------------------
(***************************************************************************)
(* The settings kept on this machine (app-settings.ts): the Cursor API     *)
(* key, the hat, the shared room and the device id, all in one file that   *)
(* every save writes whole from a copy it took when it began.  And the     *)
(* settings popup of the page (layout-source.ts, ui-source.ts,             *)
(* multiplayer-source.ts), which posts one of them at a time and shows     *)
(* what the answer says of all.                                            *)
(*                                                                         *)
(* A value is the number of the post or text that brought it, 0 is none.   *)
(***************************************************************************)
EXTENDS Naturals, Sequences, FiniteSets

CONSTANTS
  MaxPosts,      \* requests of the page, its first GET included
  MaxTyped,      \* texts the user types
  MaxStarts,     \* restarts of the server
  MaxDevices     \* device ids made

ASSUME SettingsBounds == MaxPosts \in Nat /\ MaxTyped \in Nat

Defaults == [key |-> 0, hat |-> 0, room |-> 0, device |-> 0]
Missing == [Defaults EXCEPT !.key = MaxPosts + MaxTyped + 1]
Empty == [Missing EXCEPT !.hat = 1]
Torn == [Missing EXCEPT !.hat = 2]
NotRead == [Missing EXCEPT !.hat = 3]

VARIABLES
  file,          \* settings.json: settings, Missing, Empty or Torn
  cache,         \* cachedSettings, or NotRead
  devices,       \* device ids made so far
  starts,        \* restarts so far
  posts,         \* the page's requests, in the order they were made
  shown,         \* state.integrationSettings: what the popup shows of them
  draft,         \* state.multiplayerDraft: what the room's fields hold
  dirty,         \* state.multiplayerDraftDirty
  keyText,       \* what the field of the API key holds
  pending,       \* state.integrationSettingsPending
  texts,         \* texts typed so far
  roomText,      \* the text typed last into the room's fields (history)
  damaged,       \* saves overlapped, or the server died saving (history)
  told,          \* the device id the page was told first (history)
  latest         \* the turn of the answer the page has shown last (history)

storeVars == <<file, cache, devices, starts>>
popupVars == <<shown, draft, dirty, keyText, pending>>
historyVars == <<texts, roomText, damaged, told, latest>>
settingsVars == <<storeVars, posts, popupVars, historyVars>>

-----------------------------------------------------------------------------
\* readStoredAppSettingsSync(): the cache, or the file if it can be read.
Loaded ==
  IF cache # NotRead THEN cache
  ELSE IF file \in {Missing, Empty, Torn} THEN Defaults ELSE file

\* A write that reaches the file: whole if the file is empty by then, and else
\* perhaps with a rest of what another had written.
Written(s) == IF file = Empty THEN {s} ELSE {s, Torn}

\* A post is being saved by the server.
Saving(p) == p.server \in {"making", "opened", "written"}
SomeSaves == \E i \in DOMAIN posts : Saving(posts[i])

SettingsInit ==
  /\ file = Missing /\ cache = NotRead /\ devices = 0 /\ starts = 0
  /\ posts = <<>>
  /\ shown = Defaults /\ draft = 0 /\ dirty = FALSE /\ keyText = 0
  /\ pending = FALSE
  /\ texts = 0 /\ roomText = 0 /\ damaged = FALSE /\ told = 0 /\ latest = 0

Posted(field, value) ==
  /\ Len(posts) < MaxPosts
  /\ posts' = Append(posts, [field |-> field, value |-> value,
                             server |-> "sent", page |-> "waiting",
                             next |-> Defaults, body |-> NotRead,
                             before |-> shown.hat, turn |-> 0])

-----------------------------------------------------------------------------
\* The page.

\* The popup asks for the settings when the page is loaded.
Loads ==
  /\ posts = <<>> /\ Posted("none", 0)
  /\ UNCHANGED <<storeVars, popupVars, historyVars>>

\* saveHatSelection(): the hat is shown at once.
PicksHat ==
  /\ posts # <<>> /\ Posted("hat", Len(posts))
  /\ shown' = [shown EXCEPT !.hat = Len(posts)]
  /\ UNCHANGED <<storeVars, draft, dirty, keyText, pending, historyVars>>

\* The field of the key is disabled while settings are being saved.
TypesKey ==
  /\ texts < MaxTyped /\ ~pending
  /\ texts' = texts + 1 /\ keyText' = texts + 1
  /\ UNCHANGED <<storeVars, posts, shown, draft, dirty, pending, roomText,
                 damaged, told, latest>>

\* saveCursorApiKeyDraft(), by its timer or by Enter: an empty key is saved only
\* to clear another.
SavesKey ==
  /\ keyText # 0 \/ shown.key # 0
  /\ Posted("key", keyText) /\ pending' = TRUE
  /\ UNCHANGED <<storeVars, shown, draft, dirty, keyText, historyVars>>

\* commitMultiplayerSettings().
TypesRoom ==
  /\ texts < MaxTyped
  /\ texts' = texts + 1 /\ draft' = texts + 1 /\ roomText' = texts + 1
  /\ dirty' = TRUE
  /\ UNCHANGED <<storeVars, posts, shown, keyText, pending, damaged,
                 told, latest>>

\* saveMultiplayerDraft(), by its button, by Enter or by the toggle, and
\* clearMultiplayerDraft().
SavesRoom ==
  /\ \/ Posted("room", draft)
     \/ ~pending /\ shown.room # 0 /\ Posted("room", 0)
  /\ dirty' = FALSE /\ pending' = TRUE
  /\ UNCHANGED <<storeVars, shown, draft, keyText, historyVars>>

-----------------------------------------------------------------------------
\* The server.

ServerSays(i, s) == posts' = [posts EXCEPT ![i].server = s]

With_NoDevice(s, field, value) ==
  IF field = "room" THEN [s EXCEPT !.room = value, !.device = 0]
  ELSE [s EXCEPT ![field] = value]

\* setStoredCursorApiKey() and its like: everything else as it was loaded.
With(s, field, value) == [s EXCEPT ![field] = value]

\* handleIntegrationSettingsRoute(): the settings to be written are made at once.
Handles(i) ==
  /\ posts[i].server = "sent" /\ posts[i].field # "none"
  /\ cache' = Loaded
  /\ LET next == With(Loaded, posts[i].field, posts[i].value)
     IN posts' = [posts EXCEPT ![i] = [@ EXCEPT !.server = "making", !.next = next]]
  /\ damaged' = (damaged \/ SomeSaves)
  /\ UNCHANGED <<file, devices, starts, popupVars, texts, roomText,
                 told, latest>>

\* writeStoredAppSettings(): after mkdir the file is opened, and so emptied;
OpensFile(i) ==
  /\ posts[i].server = "making" /\ ServerSays(i, "opened")
  /\ file' = Empty
  /\ UNCHANGED <<cache, devices, starts, popupVars, historyVars>>

\* then written;
WritesFile(i) ==
  /\ posts[i].server = "opened" /\ ServerSays(i, "written")
  /\ file' \in Written(posts[i].next)
  /\ UNCHANGED <<cache, devices, starts, popupVars, historyVars>>

\* and then they are the cached settings.
Remembers(i) ==
  /\ posts[i].server = "written"
  /\ posts' = [posts EXCEPT ![i] = [@ EXCEPT !.server = "saved", !.next = Defaults]]
  /\ cache' = posts[i].next
  /\ UNCHANGED <<file, devices, starts, popupVars, historyVars>>

\* getIntegrationSettings(), and publish() for a room: a device id that is not
\* there yet is made and written at once, in between whatever is being saved.
Responds(i) ==
  /\ \/ posts[i].server = "saved"
     \/ posts[i].server = "sent" /\ posts[i].field = "none"
  /\ IF Loaded.device # 0
     THEN /\ cache' = Loaded /\ UNCHANGED <<file, devices, damaged>>
     ELSE /\ devices < MaxDevices /\ devices' = devices + 1
          /\ cache' = [Loaded EXCEPT !.device = devices + 1]
          /\ file' = cache'
          /\ damaged' = (damaged \/ SomeSaves)
  /\ LET turn == 1 + Cardinality({j \in DOMAIN posts : posts[j].turn > 0})
     IN posts' = [posts EXCEPT ![i] = [@ EXCEPT !.server = "answered",
                                                !.body = cache', !.turn = turn]]
  /\ UNCHANGED <<starts, popupVars, texts, roomText,
                 told, latest>>

\* Saved, but a monitor's refresh or the publish that follows failed.
Botches(i) ==
  /\ posts[i].server = "saved" /\ posts[i].field # "hat"
  /\ ServerSays(i, "failed")
  /\ UNCHANGED <<storeVars, popupVars, historyVars>>

\* The server dies and is started again: what it was doing is not answered.
Restarts ==
  /\ starts < MaxStarts /\ starts' = starts + 1
  /\ cache' = NotRead
  /\ posts' = [i \in DOMAIN posts |->
                 IF posts[i].server = "answered" THEN posts[i]
                 ELSE [posts[i] EXCEPT !.server = "failed"]]
  /\ damaged' = (damaged \/ SomeSaves)
  /\ UNCHANGED <<file, devices, popupVars, texts, roomText,
                 told, latest>>

-----------------------------------------------------------------------------
\* How the page goes on.

\* saveHatSelection() minds its own latest request only.
Superseded(i) ==
  posts[i].field = "hat"
  /\ \E j \in DOMAIN posts : j > i /\ posts[j].field = "hat"

\* syncStoredMultiplayerSettings().
Drafted(s) == IF dirty THEN draft ELSE s.room

\* applyIntegrationSettingsResponse().
Apply(s) == shown' = s /\ draft' = Drafted(s)

PageDone(i, end) ==
  posts' = [posts EXCEPT ![i] = [@ EXCEPT !.page = end, !.body = NotRead, !.before = 0]]

\* The answer comes.
Arrives(i) ==
  /\ posts[i].page = "waiting" /\ posts[i].server = "answered"
  /\ PageDone(i, "done")
  /\ latest' = IF Superseded(i) THEN latest ELSE posts[i].turn
  /\ IF Superseded(i) THEN UNCHANGED <<shown, draft>> ELSE Apply(posts[i].body)
  /\ told' = IF told = 0 THEN posts[i].body.device ELSE told
  /\ keyText' = IF posts[i].field = "key" THEN 0 ELSE keyText
  /\ pending' = IF posts[i].field = "hat" THEN pending ELSE FALSE
  /\ UNCHANGED <<storeVars, dirty, texts, roomText, damaged>>

\* An error comes, or nothing in time.  A page that has not been told anything
\* shows the defaults.
GivesUp(i) ==
  /\ posts[i].page = "waiting" /\ PageDone(i, "failed")
  /\ CASE posts[i].field = "none" -> Apply(Defaults) /\ dirty' = dirty
       [] posts[i].field = "hat" ->
            /\ shown' = IF Superseded(i) THEN shown
                        ELSE [shown EXCEPT !.hat = posts[i].before]
            /\ UNCHANGED <<draft, dirty>>
       [] posts[i].field = "key" -> UNCHANGED <<shown, draft, dirty>>
       [] posts[i].field = "room" -> dirty' = TRUE /\ UNCHANGED <<shown, draft>>
  /\ pending' = IF posts[i].field = "hat" THEN pending ELSE FALSE
  /\ UNCHANGED <<storeVars, keyText, historyVars>>

-----------------------------------------------------------------------------
PageEnds(i) == Arrives(i) \/ GivesUp(i)

SettingsNext ==
  \/ Loads \/ PicksHat \/ TypesKey \/ SavesKey \/ TypesRoom \/ SavesRoom
  \/ Restarts
  \/ \E i \in DOMAIN posts :
       \/ Handles(i) \/ OpensFile(i) \/ WritesFile(i) \/ Remembers(i)
       \/ Responds(i) \/ Botches(i) \/ PageEnds(i)

SettingsSpec == SettingsInit /\ [][SettingsNext]_settingsVars

\* A request is answered, refused or given up in time.
SettingsFairness ==
  \A i \in 1..MaxPosts : WF_settingsVars(i \in DOMAIN posts /\ PageEnds(i))

-----------------------------------------------------------------------------
\* Until saves overlap or the server dies saving, the file holds what the server
\* works with, and the device id that the page was told.
FileIsTrue ==
  ~damaged /\ ~SomeSaves =>
    /\ cache = NotRead \/ file = cache \/ (file = Missing /\ cache = Defaults)
    /\ told # 0 => Loaded.device = told

\* Until then a save changes what it was asked to change, and nothing else.
SavesOneThing ==
  cache' # cache /\ NotRead \notin {cache, cache'} /\ ~damaged' =>
    Cardinality({f \in DOMAIN cache : cache'[f] # cache[f]}) = 1

\* When every request was answered, and the page has shown the last answer last,
\* it shows what is stored.
ShowsWhatIsStored ==
  /\ posts # <<>> /\ cache # NotRead
  /\ \A i \in DOMAIN posts : posts[i].page = "done" /\ posts[i].turn <= latest
  => shown = cache

\* What the user has typed leaves the room's fields only after it was sent, and
\* what they show instead is stored.
FieldsAreKept ==
  LET Sent(v) == \E i \in DOMAIN posts : posts[i].field = "room" /\ posts[i].value = v
      Waits == \E i \in DOMAIN posts : posts[i].field = "room" /\ posts[i].page = "waiting"
  IN /\ draft = roomText \/ Sent(roomText) \/ Sent(0)
     /\ ~dirty /\ ~Waits => draft = shown.room

\* A key typed leaves its field only after it was sent, unless the end of another
\* request had unlocked the field while a key was being saved.
KeyIsKept ==
  keyText # 0 /\ keyText' = 0 =>
    \/ \E i \in DOMAIN posts : posts[i].field = "key" /\ posts[i].value = keyText
    \/ Cardinality({i \in DOMAIN posts : posts[i].field # "hat"}) > 1

\* The settings of this machine survive being saved, and the popup tells the
\* truth about them (app-settings.ts 107-283, ui-source.ts 1439-1552).
SettingsAreKept ==
  /\ [](FileIsTrue /\ ShowsWhatIsStored /\ FieldsAreKept)
  /\ [][SavesOneThing /\ KeyIsKept]_settingsVars
  /\ []<>~pending
===============================================================================
