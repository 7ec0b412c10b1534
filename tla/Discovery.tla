------------------------------- MODULE Discovery -------------------------------
(***************************************************************************)
(* Devices, lineups and the channels that Kodi shows.  The scheduler's     *)
(* worker finds the devices, reads the file that maps channels to radio    *)
(* and downloads the lineups of the tuners (src/src/addon.cpp,             *)
(* update_devices_task and update_lineups_task).  Kodi's threads change    *)
(* settings and the visibility of channels, and read the channels, their   *)
(* groups, the recordings and the timers again when the addon tells them   *)
(* to.                                                                     *)
(*                                                                         *)
(* Both tasks reschedule themselves and may also be asked for; here each   *)
(* runs again and again.  A request or a task that fails before it changed *)
(* anything leaves no trace and is left out, as are the authorization      *)
(* strings, which the rules and listings are discovered with.  Of the      *)
(* settings, the proxy and the intervals are in AddonTasks, those of       *)
(* streams in LiveStream.  Of the recordings only what they owe to the     *)
(* settings and mappings is here, and of the timers what they owe to the   *)
(* settings and lineups.  Which recordings there are is in Recordings; the *)
(* rules and episodes that are listed as timers are in RecordingRules; no  *)
(* module says that a timer of what was recorded before is not listed.     *)
(***************************************************************************)
EXTENDS ChannelMap, Sequences, FiniteSets

CONSTANTS
  Tuners,     \* devices that have a lineup
  Engines,    \* devices that only store recordings
  Channels,   \* channel numbers
  Carries,    \* the channels each tuner receives
  Protected,  \* the channels with DRM
  Video,      \* what a channel's entry says of its video: HD, HEVC
  Files,      \* the contents the mapping file may have, the one it has at first
  Unstable,   \* the devices that come and go
  Changing,   \* the channels whose visibility is changed
  Timed,      \* the channels of rules and timers
  Flags,      \* the flags the menu gives them: + favorite, - enabled, x disabled
  Chosen,     \* the settings whose value is changed
  MaxEdits,   \* bound on what Kodi's user and the world outside do
  MaxLost     \* bound on the requests that fail and the tasks that are cancelled

Devices == Tuners \cup Engines

Settings == {"names", "logos", "drm", "radio", "titles", "times"}

ASSUME DiscoveryAssumption ==
  /\ Tuners # {} /\ Tuners \cap Engines = {} /\ IsFiniteSet(Devices)
  /\ Carries \in [Tuners -> SUBSET Channels] /\ Protected \subseteq Channels
  /\ Video \in [Channels -> SUBSET {"HD", "HEVC"}]
  /\ Len(Files) > 0 /\ Unstable \subseteq Devices /\ Changing \subseteq Channels
  /\ Timed \subseteq Channels
  /\ Flags \subseteq {"-", "+", "x"} /\ Chosen \subseteq Settings
  /\ MaxEdits \in Nat /\ MaxLost \in Nat

VARIABLES
  online,    \* the devices that answer
  lineup,    \* per tuner the flag of each channel: - enabled, + favorite, x disabled
  file,      \* the content of the mapping file
  edits, lost, \* what was used of the bounds
  device,    \* table device
  table,     \* table lineup: per tuner the channels listed and their flags, {} for no row
  mappings,  \* m_radiomappings_cable and _ota
  read,      \* history: the file they were read from
  pc,        \* where the worker is
  found,     \* its temporary table of devices
  want,      \* the tuners whose lineup it still has to download
  list,      \* its temporary table of lineups
  changed,   \* the flags mappingschanged and lineupschanged that are set
  hook,      \* the menu hook under way: a channel, its new flag, the tuners to be told
  settings,  \* m_settings: the settings that are on
  due,       \* the updates that Kodi was told to make
  job,       \* the callbacks of the update it makes
  copy,      \* the copy of the settings of a callback that is under way
  shown,     \* what Kodi shows
  missed     \* history: what Kodi was not told of, for a task failed or was cancelled

worldVars == <<online, lineup, file>>
bounds == <<edits, lost>>
taskVars == <<pc, found, want, list, changed>>
tables == <<device, table, mappings, read>>
kodiVars == <<job, copy, shown>>
vars == <<worldVars, bounds, tables, taskVars, hook, settings, due, kodiVars, missed>>

\* A lineup lists the channels that are not disabled.
Row(d) == {e \in Carries[d] \X {"-", "+"} : lineup[d][e[1]] = e[2]}

NoRows == [d \in Tuners |-> {}]

NoHook == [channel |-> CHOOSE c \in Channels : TRUE, flag |-> "-", want |-> {}]

Loses(n) == lost + n <= MaxLost /\ lost' = lost + n

-----------------------------------------------------------------------------
(* What Kodi's callbacks return, of a copy s of the settings. *)

Views == {"tv", "radio", "groups", "recordings", "timers"}

Radio(s, c) == "radio" \in s /\ IsChannelRadio(mappings, Encode(c))

Entries(s) ==
  {e \in UNION {table[d] : d \in Tuners} : e[1] \notin Protected \/ "drm" \in s}

EnumerateChannels(s) == {e[1] : e \in Entries(s)}

GetChannels(s, radio) ==
  [channels |-> {c \in EnumerateChannels(s) : Radio(s, c) = radio},
   look |-> s \cap {"names", "logos"}]

Favorites(s) == {e[1] : e \in {x \in Entries(s) : x[2] = "+"}}

Hd(s) == {c \in EnumerateChannels(s) : "HD" \in Video[c]}

Hevc(s) == {c \in EnumerateChannels(s) : "HEVC" \in Video[c]}

Sd(s) == {c \in EnumerateChannels(s) : "HD" \notin Video[c]}

\* There are no groups of radio channels.
GetChannelGroupMembers(s) ==
  LET members == [favorite |-> Favorites(s), hevc |-> Hevc(s), hd |-> Hd(s), sd |-> Sd(s)]
  IN  [g \in DOMAIN members |-> {c \in members[g] : ~Radio(s, c)}]

\* Each recording is of a radio or a television channel.
GetRecordings(s) ==
  [radio |-> {c \in Channels : Radio(s, c)}, look |-> s \cap {"titles", "logos"}]

\* A rule or timer of a channel that no lineup lists, protected ones included, has the
\* channel -1.
GetTimers(s) ==
  [listed |-> Timed \cap {e[1] : e \in UNION {table[d] : d \in Tuners}},
   look |-> s \cap {"times"}]

Answer(v, s) ==
  CASE v = "tv" -> GetChannels(s, FALSE)
    [] v = "radio" -> GetChannels(s, TRUE)
    [] v = "groups" -> GetChannelGroupMembers(s)
    [] v = "recordings" -> GetRecordings(s)
    [] v = "timers" -> GetTimers(s)

-----------------------------------------------------------------------------

\* The startup discovery is over and Kodi has read everything.
Init ==
  /\ online = Devices /\ device = Devices
  /\ lineup = [d \in Tuners |-> [c \in Channels |-> "-"]]
  /\ table = [d \in Tuners |-> Carries[d] \X {"-"}]
  /\ file = Files[1] /\ read = file /\ mappings = Parse(file)
  /\ edits = 0 /\ lost = 0
  /\ pc = "idle" /\ found = {} /\ want = {} /\ list = NoRows /\ changed = {}
  /\ hook = NoHook
  /\ settings = {"radio"}
  /\ due = {} /\ job = <<>> /\ copy = {}
  /\ shown = [v \in Views |-> Answer(v, settings)]
  /\ missed = {}

Edits == edits < MaxEdits /\ edits' = edits + 1

-----------------------------------------------------------------------------
(* The world outside. *)

\* A device appears, disappears or is restarted.
DeviceEdit(d) ==
  /\ Edits
  /\ online' = IF d \in online THEN online \ {d} ELSE online \cup {d}
  /\ UNCHANGED <<lineup, file, lost, tables, taskVars, hook, settings, due, kodiVars,
                 missed>>

\* Another client disables a channel of a tuner, or enables it.
LineupEdit(d, c) ==
  /\ Edits /\ c \in Carries[d]
  /\ lineup' = [lineup EXCEPT ![d][c] = IF @ = "x" THEN "-" ELSE "x"]
  /\ UNCHANGED <<online, file, lost, tables, taskVars, hook, settings, due, kodiVars,
                 missed>>

FileEdit ==
  /\ Edits /\ \E i \in DOMAIN Files : Files[i] # file /\ file' = Files[i]
  /\ UNCHANGED <<online, lineup, lost, tables, taskVars, hook, settings, due, kodiVars,
                 missed>>

-----------------------------------------------------------------------------
(* Requests: S fail, of those that would not. *)

\* The document of a device, {} standing for null, unless there is an error.
JsonGet(d, document, S) == [error |-> d \notin online \ S, document |-> document]

\* The devices of which the request is answered; the others are skipped.
JsonGetAggregate(asked, S) == (asked \cap online) \ S

\* A device that answers the broadcast has to serve its discover.json too.
DiscoverDevicesBroadcast(S) == online \ S

\* The service lists all of the devices.
DiscoverDevicesHttp(S) == JsonGetAggregate(Devices, S)

-----------------------------------------------------------------------------
(* update_devices_task *)

\* Fault: a discovery that finds no tuner goes on.
DiscoverDevicesAnyhow ==
  /\ pc = "idle"
  /\ \E S \in SUBSET online :
       /\ Loses(Cardinality(S))
       /\ found' \in {DiscoverDevicesBroadcast(S), DiscoverDevicesHttp(S)}
       /\ pc' = "merge"
  /\ UNCHANGED <<worldVars, edits, tables, want, list, changed, hook, settings, due,
                 kodiVars, missed>>

\* Without a tuner the discovery throws.
DiscoverDevices ==
  /\ pc = "idle"
  /\ \E S \in SUBSET online :
       /\ Loses(Cardinality(S))
       /\ found' \in {DiscoverDevicesBroadcast(S), DiscoverDevicesHttp(S)}
       /\ found' \cap Tuners # {} /\ pc' = "merge"
  /\ UNCHANGED <<worldVars, edits, tables, want, list, changed, hook, settings, due,
                 kodiVars, missed>>

\* The transaction, and after it the time of the discovery is stored.  When devices came
\* or went the lineups are updated at once, unless the task throws or is cancelled.
MergeDevices ==
  /\ pc = "merge" /\ device' = found /\ found' = {}
  /\ \/ pc' = (IF found = device THEN "idle" ELSE "mappings") /\ UNCHANGED lost
     \/ pc' = "idle" /\ Loses(1)
  /\ UNCHANGED <<worldVars, edits, table, mappings, read, want, list, changed, hook,
                 settings, due, kodiVars, missed>>

-----------------------------------------------------------------------------
(* update_lineups_task *)

BeginLineups ==
  /\ pc = "idle" /\ pc' = "mappings"
  /\ UNCHANGED <<worldVars, bounds, tables, found, want, list, changed, hook, settings,
                 due, kodiVars, missed>>

\* Fault: the new mappings are not compared with the old ones.
DiscoverMappingsSilently ==
  /\ pc = "mappings" /\ pc' = "ask"
  /\ mappings' = Parse(file) /\ read' = file /\ changed' = {}
  /\ want' = device \cap Tuners
  /\ UNCHANGED <<worldVars, bounds, device, table, found, list, hook, settings, due,
                 kodiVars, missed>>

DiscoverMappings ==
  /\ pc = "mappings" /\ pc' = "ask"
  /\ mappings' = Parse(file) /\ read' = file
  /\ changed' = IF mappings' = mappings THEN {} ELSE {"mappings"}
  /\ want' = device \cap Tuners
  /\ UNCHANGED <<worldVars, bounds, device, table, found, list, hook, settings, due,
                 kodiVars, missed>>

\* What a task that throws or is cancelled at this point does not tell Kodi of.
Unannounced ==
  (IF changed # {} THEN {"tv", "radio", "groups"} ELSE {})
    \cup (IF "mappings" \in changed THEN {"recordings"} ELSE {})

Abandon ==
  /\ pc' = "idle" /\ want' = {} /\ list' = NoRows /\ changed' = {}
  /\ missed' = missed \cup Unannounced

\* One lineup after the other is downloaded, and one that cannot be had ends the task.
DownloadLineup(d) ==
  /\ pc = "ask" /\ d \in want
  /\ \E S \in {{}, {d} \cap online} :
       /\ Loses(Cardinality(S))
       /\ LET answer == JsonGet(d, Row(d), S)
          IN  IF answer.error THEN Abandon
              ELSE /\ list' = [list EXCEPT ![d] = answer.document] /\ want' = want \ {d}
                   /\ UNCHANGED <<pc, changed, missed>>
  /\ UNCHANGED <<worldVars, edits, tables, found, hook, settings, due, kodiVars>>

\* A lineup without channels always seems to be new, for no row is kept of it.
AnyEmpty == \E d \in device \cap Tuners : list[d] = {}

\* Fault: the rows of tuners that are gone are kept.
MergeLineupsKeeping ==
  /\ pc = "ask" /\ want = {} /\ pc' = "announce"
  /\ table' = [d \in Tuners |-> IF d \in device THEN list[d] ELSE table[d]]
  /\ changed' = changed \cup IF table' # table \/ AnyEmpty THEN {"lineups"} ELSE {}
  /\ list' = NoRows
  /\ UNCHANGED <<worldVars, bounds, device, mappings, read, found, want, hook, settings,
                 due, kodiVars, missed>>

\* The transaction: the rows of tuners that are gone are deleted, the others replaced,
\* and those without any channel are deleted too.
MergeLineups ==
  /\ pc = "ask" /\ want = {} /\ pc' = "announce"
  /\ table' = [d \in Tuners |-> IF d \in device THEN list[d] ELSE {}]
  /\ changed' = changed \cup IF table' # table \/ AnyEmpty THEN {"lineups"} ELSE {}
  /\ list' = NoRows
  /\ UNCHANGED <<worldVars, bounds, device, mappings, read, found, want, hook, settings,
                 due, kodiVars, missed>>

\* The groups are updated after any change and the recordings after one of the mappings.
\* The task may be cancelled in between.  The listings of new channels are asked for at
\* last, see module Listings.
TriggerUpdates ==
  /\ pc = "announce" /\ pc' = "idle" /\ changed' = {}
  /\ LET groups == IF changed = {} THEN {} ELSE {"groups"}
         recordings == IF "mappings" \in changed THEN {"recordings"} ELSE {}
     IN  \/ due' = due \cup groups \cup recordings /\ UNCHANGED <<lost, missed>>
         \/ recordings # {} /\ Loses(1)
            /\ due' = due \cup groups /\ missed' = missed \cup recordings
  /\ UNCHANGED <<worldVars, edits, tables, found, want, list, hook, settings, kodiVars>>

\* The database is busy for too long, or a stream or the end of the day cancels the task.
Throw ==
  /\ pc \in {"mappings", "ask", "announce"} /\ Loses(1) /\ Abandon
  /\ UNCHANGED <<worldVars, edits, tables, found, hook, settings, due, kodiVars>>

-----------------------------------------------------------------------------
(* Calls of Kodi's threads. *)

\* CallChannelMenuHook: all of the known tuners that list the channel are to be told.
CallChannelMenuHook(c, f) ==
  /\ hook = NoHook /\ c \in shown["tv"].channels \cup shown["radio"].channels
  /\ Edits
  /\ LET tuners == {d \in device \cap Tuners : \E e \in table[d] : e[1] = c}
     IN  hook' = IF tuners = {} THEN NoHook ELSE [channel |-> c, flag |-> f, want |-> tuners]
  /\ UNCHANGED <<worldVars, lost, tables, taskVars, settings, due, kodiVars, missed>>

\* One is told after the other, and one that cannot be told ends the call.
SetChannelVisibility(d) ==
  /\ d \in hook.want
  /\ \/ d \in online /\ lineup' = [lineup EXCEPT ![d][hook.channel] = hook.flag]
        /\ hook' = (IF hook.want = {d} THEN NoHook ELSE [hook EXCEPT !.want = @ \ {d}])
        /\ UNCHANGED lost
     \/ Loses(IF d \in online THEN 1 ELSE 0) /\ hook' = NoHook /\ UNCHANGED lineup
  /\ UNCHANGED <<online, file, edits, tables, taskVars, settings, due, kodiVars, missed>>

\* Fault: the recordings are not told of the radio channels.
TriggersOfChannels(s) ==
  CASE s = "names" -> {"channels"}
    [] s = "logos" -> {"channels", "recordings"}
    [] s \in {"drm", "radio"} -> {"groups"}
    [] s = "titles" -> {"recordings"}
    [] s = "times" -> {"timers"}

\* What Kodi is told to update when a setting changes.
TriggersOf(s) ==
  CASE s = "names" -> {"channels"}
    [] s = "logos" -> {"channels", "recordings"}
    [] s = "drm" -> {"groups"}
    [] s = "radio" -> {"groups", "recordings"}
    [] s = "titles" -> {"recordings"}
    [] s = "times" -> {"timers"}

SetSetting(s) ==
  /\ Edits
  /\ settings' = IF s \in settings THEN settings \ {s} ELSE settings \cup {s}
  /\ due' = due \cup TriggersOf(s)
  /\ UNCHANGED <<worldVars, lost, tables, taskVars, hook, kodiVars, missed>>

\* The callbacks that Kodi makes for an update.
Callbacks(t) ==
  CASE t = "channels" -> <<"tv", "radio">>
    [] t = "groups" -> <<"tv", "radio", "groups">>
    [] OTHER -> <<t>>

\* Each callback takes its copy of the settings as it begins, one right after the other.
BeginUpdate ==
  /\ job = <<>> /\ copy' = settings
  /\ \E t \in due : due' = due \ {t} /\ job' = Callbacks(t)
  /\ UNCHANGED <<worldVars, bounds, tables, taskVars, hook, settings, shown, missed>>

\* Then it reads the table, with the mappings locked.
EndCallback ==
  /\ job # <<>> /\ job' = Tail(job)
  /\ copy' = IF job' = <<>> THEN {} ELSE settings
  /\ shown' = [shown EXCEPT ![Head(job)] = Answer(Head(job), copy)]
  /\ missed' = missed \ {Head(job)}
  /\ UNCHANGED <<worldVars, bounds, tables, taskVars, hook, settings, due>>

-----------------------------------------------------------------------------

WorkerNext ==
  \/ MergeDevices \/ DiscoverMappings \/ MergeLineups \/ TriggerUpdates
  \/ \E d \in Tuners : DownloadLineup(d)

KodiNext == BeginUpdate \/ EndCallback

Next ==
  \/ \E d \in Unstable : DeviceEdit(d)
  \/ \E d \in Tuners, c \in Changing : LineupEdit(d, c)
  \/ FileEdit
  \/ DiscoverDevices \/ BeginLineups \/ WorkerNext \/ Throw
  \/ \E c \in Changing, f \in Flags : CallChannelMenuHook(c, f)
  \/ \E d \in Tuners : SetChannelVisibility(d)
  \/ \E s \in Chosen : SetSetting(s)
  \/ KodiNext

Spec == Init /\ [][Next]_vars

\* Both tasks reschedule themselves, so each begins again and again, and goes on.
FairSpec ==
  Spec /\ SF_vars(DiscoverDevices) /\ SF_vars(BeginLineups) /\ WF_vars(WorkerNext)

-----------------------------------------------------------------------------
(* Properties. *)

RowType == SUBSET (Channels \X {"-", "+"})

\* Types; and a transaction's temporary tables are only there while the worker needs them.
TypeOK ==
  /\ online \subseteq Devices /\ device \subseteq Devices /\ found \subseteq Devices
  /\ lineup \in [Tuners -> [Channels -> {"-", "+", "x"}]]
  /\ \E i, j \in DOMAIN Files : file = Files[i] /\ read = Files[j]
  /\ DOMAIN hook = {"channel", "flag", "want"}
  /\ hook.flag \in {"-", "+", "x"} /\ hook.want \subseteq Tuners
  /\ edits \in 0..MaxEdits /\ lost \in 0..MaxLost
  /\ table \in [Tuners -> RowType] /\ list \in [Tuners -> RowType]
  /\ pc \in {"idle", "merge", "mappings", "ask", "announce"}
  /\ changed \subseteq {"mappings", "lineups"} /\ want \subseteq device \cap Tuners
  /\ settings \subseteq Settings /\ copy \subseteq Settings
  /\ due \subseteq {"channels", "groups", "recordings", "timers"}
  /\ Len(job) <= 3 /\ DOMAIN shown = Views /\ missed \subseteq Views
  /\ (pc # "merge" => found = {}) /\ (pc # "ask" => want = {} /\ list = NoRows)

\* "The intention here is to prevent transient discovery problems from clearing out the
\* existing devices and channel lineups from Kodi" (src/src/database.cpp:451): whatever
\* discoveries, downloads and tasks fail, there always is a tuner of which the table lists
\* every channel that nobody disables.
ChannelsStay == \E d \in Tuners : (Carries[d] \ Changing) \X {"-"} \subseteq table[d]

Quiet == pc = "idle" /\ due = {} /\ job = <<>>

\* What of a view follows its source: update_lineups_task tells Kodi to update channels,
\* groups and recordings (src/src/addon.cpp:1449-1470), and nothing updates the timers
\* when a channel of theirs is listed no more, or is again.
Followed(v, answer) == IF v = "timers" THEN answer.look ELSE answer

\* Kodi shows what the tables, the mappings and the settings say: in a quiet state each
\* list is what its callback would return, although the settings, the mappings and the
\* tables changed while Kodi read them.  Two things may be stale: a list that a task
\* which threw or was cancelled had changed, and which of the timers have a channel.
KodiIsTold ==
  Quiet => \A v \in Views \ missed : Followed(v, shown[v]) = Followed(v, Answer(v, settings))

\* Kodi also shows which rules and timers have a channel.  Not so after a lineup changes.
TimersFollowLineups ==
  Quiet /\ "timers" \notin missed => shown["timers"] = Answer("timers", settings)

\* The ranges are those of the file: a channel is mapped to radio if, and only if, the
\* file that was read last lists it.  Ranges of over-the-air channels violate it.
MappedAsListed ==
  \A c \in Channels : IsChannelRadio(mappings, Encode(c)) <=> Listed(read, c)

\* The tables hold what the tuners list and the mappings what the file says, and stay
\* so, once nothing changes or fails any more: whatever was downloaded before it changed,
\* whatever a change of the visibility reached, whatever was abandoned.
Converges ==
  <>[](online \cap Tuners # {} =>
         /\ device = online /\ mappings = Parse(file)
         /\ \A d \in Tuners : table[d] = IF d \in online THEN Row(d) ELSE {})
=============================================================================
