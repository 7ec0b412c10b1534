---------------------------- MODULE DiscoveryProofs ----------------------------
(***************************************************************************)
(* Proofs about the discovery of devices and lineups, for any devices,     *)
(* channels and mapping files: there always is a tuner whose channels are  *)
(* in the table, and Kodi shows what the tables, the mappings and the      *)
(* settings say whenever everything is quiet.                              *)
(*                                                                         *)
(* The argument for the second: a list that differs from what its callback *)
(* would return now is one that a failed task has not announced, or will   *)
(* be read again: for an update that Kodi was told to make, by a callback  *)
(* that is still to come or under way, or because the worker's flags say   *)
(* so.  A callback that is under way may work with old settings, but only  *)
(* with such as do not matter to it, or another update is due.             *)
(***************************************************************************)
EXTENDS Discovery, SequenceTheorems, FiniteSetTheorems, TLAPS

Updates == {"channels", "groups", "recordings", "timers"}

\* The views that an update reads again.
Reads(t) ==
  CASE t = "channels" -> {"tv", "radio"}
    [] t = "groups" -> {"tv", "radio", "groups"}
    [] OTHER -> {t}

\* The settings on which a view depends.
Needs(v) ==
  CASE v \in {"tv", "radio"} -> {"names", "logos", "drm", "radio"}
    [] v = "groups" -> {"drm", "radio"}
    [] v = "recordings" -> {"radio", "titles", "logos"}
    [] v = "timers" -> {"times"}

Due(v) == \E t \in due : v \in Reads(t)

InJob(v) == \E i \in DOMAIN job : job[i] = v

\* What the flags of the worker make it announce.
Announced(v) ==
  \/ changed # {} /\ v \in {"tv", "radio", "groups"}
  \/ "mappings" \in changed /\ v = "recordings"

Types ==
  /\ job \in Seq(Views) /\ due \subseteq Updates /\ DOMAIN shown = Views
  /\ changed \subseteq {"mappings", "lineups"}
  /\ pc \in {"idle", "merge", "mappings"} => changed = {}

\* The callback under way reads with settings that are still good enough.
CopyGood ==
  job # <<>> =>
    \/ Due(Head(job))
    \/ copy \cap Needs(Head(job)) = settings \cap Needs(Head(job))

Told ==
  \A v \in Views :
    \/ Followed(v, shown[v]) = Followed(v, Answer(v, settings))
    \/ v \in missed \/ Due(v) \/ InJob(v) \/ Announced(v)

HasTuner == device \cap Tuners # {}

\* A discovery that is about to be merged has found a tuner.
Found == pc = "merge" => found \cap Tuners # {}

Inv == HasTuner /\ Found /\ Types /\ CopyGood /\ Told

-----------------------------------------------------------------------------

\* A view does not depend on the other settings.
LEMMA SameAnswer ==
  ASSUME NEW v \in Views, NEW s, NEW t, s \cap Needs(v) = t \cap Needs(v)
  PROVE  Answer(v, s) = Answer(v, t)
<1>1. CASE v \in {"tv", "radio"}
  <2>1. \A x \in {"names", "logos", "drm", "radio"} : x \in s <=> x \in t
    BY <1>1 DEF Needs
  <2>2. \A c : Radio(s, c) = Radio(t, c)
    BY <2>1 DEF Radio
  <2>3. Entries(s) = Entries(t) /\ s \cap {"names", "logos"} = t \cap {"names", "logos"}
    BY <2>1 DEF Entries
  <2>4. EnumerateChannels(s) = EnumerateChannels(t)
    BY <2>3 DEF EnumerateChannels
  <2>5. \A b \in BOOLEAN : GetChannels(s, b) = GetChannels(t, b)
    BY <2>2, <2>3, <2>4 DEF GetChannels
  <2> QED
    BY <1>1, <2>5 DEF Answer
<1>2. CASE v = "groups"
  <2>1. \A x \in {"drm", "radio"} : x \in s <=> x \in t
    BY <1>2 DEF Needs
  <2>2. \A c : Radio(s, c) = Radio(t, c)
    BY <2>1 DEF Radio
  <2>3. Entries(s) = Entries(t)
    BY <2>1 DEF Entries
  <2>4. EnumerateChannels(s) = EnumerateChannels(t)
    BY <2>3 DEF EnumerateChannels
  <2>5. /\ Favorites(s) = Favorites(t) /\ Hd(s) = Hd(t) /\ Hevc(s) = Hevc(t)
        /\ Sd(s) = Sd(t)
    BY <2>3, <2>4 DEF Favorites, Hd, Hevc, Sd
  <2>6. GetChannelGroupMembers(s) = GetChannelGroupMembers(t)
    BY <2>2, <2>5 DEF GetChannelGroupMembers
  <2> QED
    BY <1>2, <2>6 DEF Answer
<1>3. CASE v = "recordings"
  <2>1. \A x \in {"radio", "titles", "logos"} : x \in s <=> x \in t
    BY <1>3 DEF Needs
  <2>2. \A c : Radio(s, c) = Radio(t, c)
    BY <2>1 DEF Radio
  <2>3. GetRecordings(s) = GetRecordings(t)
    BY <2>1, <2>2 DEF GetRecordings
  <2> QED
    BY <1>3, <2>3 DEF Answer
<1>4. CASE v = "timers"
  BY <1>4 DEF Needs, Answer, GetTimers
<1> QED
  BY <1>1, <1>2, <1>3, <1>4 DEF Views

\* What a view shows changes with the table only if it is a list of channels or groups,
\* and with the mappings only if it is one of these or the recordings.  The timers change
\* with the table, but not what is followed of them.
LEMMA AnswerStays ==
  /\ UNCHANGED <<table, mappings>> => \A v \in Views : \A s : Answer(v, s)' = Answer(v, s)
  /\ UNCHANGED table => \A s : Answer("timers", s)' = Answer("timers", s)
  /\ UNCHANGED mappings =>
       /\ \A s : Answer("recordings", s)' = Answer("recordings", s)
       /\ \A s : Followed("timers", Answer("timers", s))' = Followed("timers", Answer("timers", s))
<1>1. ASSUME UNCHANGED mappings PROVE \A s, c : Radio(s, c)' = Radio(s, c)
  BY <1>1 DEF Radio, IsChannelRadio
<1>2. ASSUME UNCHANGED <<table, mappings>>, NEW s, NEW v \in Views
      PROVE  Answer(v, s)' = Answer(v, s)
  <2>1. Entries(s)' = Entries(s)
    BY <1>2 DEF Entries
  <2>2. EnumerateChannels(s)' = EnumerateChannels(s)
    BY <2>1 DEF EnumerateChannels
  <2>3. \A b : GetChannels(s, b)' = GetChannels(s, b)
    BY <1>1, <1>2, <2>2 DEF GetChannels
  <2>4. /\ Favorites(s)' = Favorites(s) /\ Hd(s)' = Hd(s) /\ Hevc(s)' = Hevc(s)
        /\ Sd(s)' = Sd(s)
    BY <2>1, <2>2 DEF Favorites, Hd, Hevc, Sd
  <2>5. GetChannelGroupMembers(s)' = GetChannelGroupMembers(s)
    BY <1>1, <1>2, <2>4 DEF GetChannelGroupMembers
  <2>6. GetRecordings(s)' = GetRecordings(s) /\ GetTimers(s)' = GetTimers(s)
    BY <1>1, <1>2 DEF GetRecordings, GetTimers
  <2> QED
    BY <2>3, <2>5, <2>6 DEF Answer, Views
<1>3. ASSUME UNCHANGED mappings PROVE \A s : Answer("recordings", s)' = Answer("recordings", s)
  BY <1>1, <1>3 DEF Answer, GetRecordings
<1>4. ASSUME UNCHANGED table PROVE \A s : Answer("timers", s)' = Answer("timers", s)
  BY <1>4 DEF Answer, GetTimers
<1>5. \A s : Followed("timers", Answer("timers", s))' = Followed("timers", Answer("timers", s))
  BY DEF Answer, GetTimers, Followed
<1> QED
  BY <1>2, <1>3, <1>4, <1>5

\* Kodi is told of every view that depends on a setting that changes.
LEMMA TriggersCover ==
  ASSUME NEW s \in Settings, NEW v \in Views, s \in Needs(v)
  PROVE  TriggersOf(s) \subseteq Updates /\ \E t \in TriggersOf(s) : v \in Reads(t)
BY DEF Settings, Views, Needs, TriggersOf, Reads, Updates

\* The callbacks of an update are those of the views that it reads.
LEMMA CallbacksRead ==
  ASSUME NEW t \in Updates
  PROVE  /\ Callbacks(t) \in Seq(Views) /\ Callbacks(t) # <<>>
         /\ \A v \in Reads(t) : \E i \in DOMAIN Callbacks(t) : Callbacks(t)[i] = v
<1>1. CASE t = "channels"
  BY <1>1 DEF Callbacks, Reads, Views
<1>2. CASE t = "groups"
  BY <1>2 DEF Callbacks, Reads, Views
<1>3. CASE t \in {"recordings", "timers"}
  BY <1>3 DEF Callbacks, Reads, Views
<1> QED
  BY <1>1, <1>2, <1>3 DEF Updates

\* A callback that is to come is the next one or among the rest.
LEMMA JobTail ==
  ASSUME job \in Seq(Views), job # <<>>
  PROVE  /\ Head(job) \in Views /\ Tail(job) \in Seq(Views)
         /\ \A v : InJob(v) => v = Head(job) \/ \E i \in DOMAIN Tail(job) : Tail(job)[i] = v
<1>1. /\ Head(job) \in Views /\ Tail(job) \in Seq(Views) /\ Len(Tail(job)) = Len(job) - 1
      /\ \A i \in 1 .. Len(Tail(job)) : Tail(job)[i] = job[i + 1]
  BY HeadTailProperties
<1>2. DOMAIN job = 1..Len(job) /\ DOMAIN Tail(job) = 1..Len(Tail(job)) /\ Len(job) \in Nat
  BY <1>1, LenProperties
<1>3. ASSUME NEW v, InJob(v), v # Head(job)
      PROVE  \E i \in DOMAIN Tail(job) : Tail(job)[i] = v
  <2>1. PICK i \in 1..Len(job) : job[i] = v
    BY <1>2, <1>3 DEF InJob
  <2>2. i # 1
    BY <1>3, <2>1
  <2>3. i - 1 \in DOMAIN Tail(job) /\ Tail(job)[i - 1] = v
    BY <1>1, <1>2, <2>1, <2>2
  <2> QED
    BY <2>3
<1> QED
  BY <1>1, <1>3

-----------------------------------------------------------------------------

LEMMA InitInv == Init => Inv
<1> SUFFICES ASSUME Init PROVE Inv
  OBVIOUS
<1>1. HasTuner
  BY DiscoveryAssumption DEF Init, HasTuner, Devices
<1>2. \A v \in Views : shown[v] = Answer(v, settings)
  BY DEF Init
<1> QED
  BY <1>1, <1>2 DEF Init, Inv, Found, Types, CopyGood, Told, Updates

\* A step that leaves alone what Kodi's lists depend on, and what is to be told of them.
LEMMA Untouched ==
  ASSUME Inv,
         UNCHANGED <<table, mappings, settings, due, job, copy, shown, missed, changed>>
  PROVE  CopyGood' /\ Told'
<1>1. \A v \in Views : Answer(v, settings)' = Answer(v, settings)
  BY AnswerStays
<1> QED
  BY <1>1 DEF Inv, CopyGood, Told, Due, InJob, Announced

\* The lists do not change, and what the worker's flags announced it has told Kodi, or it
\* has thrown.
LEMMA Settled ==
  ASSUME Inv, UNCHANGED <<table, mappings, settings, job, copy, shown>>,
         due \subseteq due',
         \A v \in Views : Announced(v) => Due(v)' \/ v \in missed' \/ Announced(v)',
         missed \subseteq missed'
  PROVE  CopyGood' /\ Told'
<1>1. \A v \in Views : Answer(v, settings)' = Answer(v, settings)
  BY AnswerStays
<1>2. \A v \in Views : Due(v) => Due(v)'
  BY DEF Due
<1>3. CopyGood'
  BY <1>2, HeadTailProperties DEF Inv, Types, CopyGood
<1>4. \A v \in Views : InJob(v) => InJob(v)'
  BY DEF InJob
<1> QED
  BY <1>1, <1>2, <1>3, <1>4 DEF Inv, Told

\* What was not announced by a task that is abandoned is noted.
LEMMA Abandoned ==
  ASSUME Inv, Abandon, UNCHANGED <<table, mappings, settings, due, job, copy, shown>>
  PROVE  CopyGood' /\ Told'
<1>1. \A v \in Views : Announced(v) => v \in missed'
  BY DEF Abandon, Unannounced, Announced
<1>2. missed \subseteq missed'
  BY DEF Abandon
<1> QED
  BY <1>1, <1>2, Settled

\* Every step keeps the invariant.
LEMMA NextInv == Inv /\ [Next]_vars => Inv'
<1> SUFFICES ASSUME Inv, [Next]_vars PROVE Inv'
  OBVIOUS
<1> USE DEF HasTuner, Found, Types
<1>1. CASE \/ \E d \in Unstable : DeviceEdit(d)
           \/ \E d \in Tuners, c \in Changing : LineupEdit(d, c)
           \/ FileEdit \/ UNCHANGED vars
           \/ \E c \in Changing, f \in Flags : CallChannelMenuHook(c, f)
           \/ \E d \in Tuners : SetChannelVisibility(d)
  <2>1. UNCHANGED <<tables, taskVars, settings, due, kodiVars, missed>>
    BY <1>1 DEF DeviceEdit, LineupEdit, FileEdit, CallChannelMenuHook,
                SetChannelVisibility, vars
  <2> QED
    BY <2>1, Untouched DEF Inv, tables, taskVars, kodiVars
<1>2. CASE DiscoverDevices \/ MergeDevices \/ BeginLineups
  <2>1. UNCHANGED <<table, mappings, settings, due, job, copy, shown, missed, changed>>
    BY <1>2 DEF DiscoverDevices, MergeDevices, BeginLineups, tables, kodiVars
  <2>2. HasTuner' /\ Found' /\ Types'
    BY <1>2, <2>1 DEF Inv, DiscoverDevices, MergeDevices, BeginLineups, tables
  <2> QED
    BY <2>1, <2>2, Untouched DEF Inv
<1>3. CASE DiscoverMappings
  <2>1. /\ UNCHANGED <<device, table, settings, due, job, copy, shown, missed>>
        /\ pc = "mappings" /\ pc' = "ask"
        /\ changed' = IF mappings' = mappings THEN {} ELSE {"mappings"}
    BY <1>3 DEF DiscoverMappings, kodiVars
  <2>2. HasTuner' /\ Found' /\ Types'
    BY <2>1 DEF Inv
  <2>3. CASE mappings' = mappings
    BY <2>1, <2>2, <2>3, Untouched DEF Inv
  <2>4. CASE mappings' # mappings
    <3>1. \A v \in Views : v = "timers" \/ Announced(v)'
      BY <2>1, <2>4 DEF Views, Announced
    <3>2. Answer("timers", settings)' = Answer("timers", settings)
      BY <2>1, AnswerStays
    <3>3. CopyGood'
      BY <2>1 DEF Inv, CopyGood, Due
    <3>4. Told'
      BY <2>1, <3>1, <3>2 DEF Inv, Told, Due, InJob, Announced
    <3> QED
      BY <2>2, <3>3, <3>4 DEF Inv
  <2> QED
    BY <2>3, <2>4
<1>4. CASE \E d \in Tuners : DownloadLineup(d)
  <2>1. UNCHANGED <<device, table, mappings, settings, due, job, copy, shown>>
    BY <1>4 DEF DownloadLineup, tables, kodiVars
  <2>2. CASE Abandon
    <3>1. HasTuner' /\ Found' /\ Types'
      BY <2>1, <2>2 DEF Inv, Abandon
    <3> QED
      BY <2>1, <2>2, <3>1, Abandoned DEF Inv
  <2>3. CASE UNCHANGED <<pc, changed, missed>>
    <3>1. HasTuner' /\ Found' /\ Types'
      BY <1>4, <2>1, <2>3 DEF Inv, DownloadLineup
    <3> QED
      BY <2>1, <2>3, <3>1, Untouched DEF Inv
  <2> QED
    BY <1>4, <2>2, <2>3 DEF DownloadLineup
<1>5. CASE MergeLineups
  <2>1. /\ UNCHANGED <<device, mappings, settings, due, job, copy, shown, missed>>
        /\ pc' = "announce" /\ changed \subseteq changed'
        /\ changed' \subseteq changed \cup {"lineups"}
        /\ table' # table => "lineups" \in changed'
    BY <1>5 DEF MergeLineups, kodiVars
  <2>2. HasTuner' /\ Found' /\ Types'
    BY <2>1 DEF Inv
  <2>3. CopyGood'
    BY <2>1 DEF Inv, CopyGood, Due
  <2>4. \A v \in Views : Announced(v) => Announced(v)'
    BY <2>1 DEF Announced
  <2>5. \A v \in Views :
          Followed(v, Answer(v, settings))' = Followed(v, Answer(v, settings)) \/ Announced(v)'
    <3>1. CASE table' = table
      BY <2>1, <3>1, AnswerStays DEF Followed
    <3>2. CASE table' # table
      BY <2>1, <3>2, AnswerStays DEF Announced, Views, Followed
    <3> QED
      BY <3>1, <3>2
  <2>6. Told'
    BY <2>1, <2>4, <2>5 DEF Inv, Told, Due, InJob
  <2> QED
    BY <2>2, <2>3, <2>6 DEF Inv
<1>6. CASE TriggerUpdates
  <2>1. UNCHANGED <<device, table, mappings, settings, job, copy, shown>>
    BY <1>6 DEF TriggerUpdates, tables, kodiVars
  <2>2. /\ due \subseteq due' /\ due' \subseteq Updates /\ missed \subseteq missed'
        /\ changed # {} => "groups" \in due'
        /\ "mappings" \in changed => "recordings" \in due' \cup missed'
    BY <1>6 DEF Inv, TriggerUpdates, Updates
  <2>3. \A v \in Views : Announced(v) => Due(v)' \/ v \in missed'
    BY <2>2 DEF Announced, Due, Reads
  <2>4. HasTuner' /\ Found' /\ Types'
    BY <1>6, <2>1, <2>2 DEF Inv, TriggerUpdates
  <2> QED
    BY <2>1, <2>2, <2>3, <2>4, Settled DEF Inv
<1>7. CASE Throw
  <2>1. UNCHANGED <<device, table, mappings, settings, due, job, copy, shown>> /\ Abandon
    BY <1>7 DEF Throw, tables, kodiVars
  <2>2. HasTuner' /\ Found' /\ Types'
    BY <2>1 DEF Inv, Abandon
  <2> QED
    BY <2>1, <2>2, Abandoned DEF Inv
<1>8. CASE \E s \in Chosen : SetSetting(s)
  <2>1. PICK s \in Settings : SetSetting(s)
    BY <1>8, DiscoveryAssumption
  <2>2. /\ UNCHANGED <<device, table, mappings, job, copy, shown, missed, changed, pc, found>>
        /\ due' = due \cup TriggersOf(s)
        /\ \A x : x # s => (x \in settings' <=> x \in settings)
    BY <2>1 DEF SetSetting, tables, taskVars, kodiVars
  <2>3. TriggersOf(s) \subseteq Updates
    BY DEF TriggersOf, Updates, Settings
  <2>4. ASSUME NEW v \in Views
        PROVE  Due(v)' \/ settings' \cap Needs(v) = settings \cap Needs(v)
    BY <2>2, TriggersCover DEF Due
  <2>5. \A v : Due(v) => Due(v)'
    BY <2>2 DEF Due
  <2>6. CopyGood'
    BY <2>2, <2>4, <2>5, HeadTailProperties DEF Inv, CopyGood
  <2>7. ASSUME NEW v \in Views
        PROVE  Due(v)' \/ Answer(v, settings)' = Answer(v, settings)
    <3>1. Answer(v, settings)' = Answer(v, settings')
      BY <2>2, AnswerStays
    <3> QED
      BY <2>4, <3>1, SameAnswer
  <2>8. Told'
    BY <2>2, <2>5, <2>7 DEF Inv, Told, InJob, Announced
  <2> QED
    BY <2>2, <2>3, <2>6, <2>8 DEF Inv
<1>9. CASE BeginUpdate
  <2>1. PICK t \in due : due' = due \ {t} /\ job' = Callbacks(t)
    BY <1>9 DEF BeginUpdate
  <2>2. /\ UNCHANGED <<device, table, mappings, settings, shown, missed, changed, pc, found>>
        /\ copy' = settings /\ job = <<>>
    BY <1>9 DEF BeginUpdate, tables, taskVars
  <2>3. t \in Updates
    BY <2>1 DEF Inv
  <2>4. HasTuner' /\ Found' /\ Types' /\ CopyGood'
    BY <2>1, <2>2, <2>3, CallbacksRead DEF Inv, CopyGood
  <2>5. \A v \in Views : Due(v) => Due(v)' \/ InJob(v)'
    BY <2>1, <2>3, CallbacksRead DEF Due, InJob
  <2>6. \A v \in Views : ~InJob(v)
    BY <2>2 DEF InJob
  <2>7. \A v \in Views : Answer(v, settings)' = Answer(v, settings)
    BY <2>2, AnswerStays
  <2>8. Told'
    BY <2>2, <2>5, <2>6, <2>7 DEF Inv, Told, Announced
  <2> QED
    BY <2>4, <2>8 DEF Inv
<1>10. CASE EndCallback
  <2>1. /\ UNCHANGED <<device, table, mappings, settings, due, changed, pc, found>>
        /\ job # <<>> /\ job' = Tail(job)
        /\ shown' = [shown EXCEPT ![Head(job)] = Answer(Head(job), copy)]
        /\ missed' = missed \ {Head(job)}
        /\ job' # <<>> => copy' = settings
    BY <1>10 DEF EndCallback, tables, taskVars
  <2>2. /\ Head(job) \in Views /\ job' \in Seq(Views)
        /\ \A v : InJob(v) => v = Head(job) \/ InJob(v)'
    BY <2>1, JobTail DEF Inv, InJob
  <2>3. HasTuner' /\ Found' /\ Types' /\ CopyGood'
    BY <2>1, <2>2 DEF Inv, CopyGood
  <2>4. \A v \in Views : Answer(v, settings)' = Answer(v, settings)
    BY <2>1, AnswerStays
  <2>5. Due(Head(job)) \/ Answer(Head(job), copy) = Answer(Head(job), settings)
    BY <2>1, <2>2, SameAnswer DEF Inv, CopyGood
  <2>6. \A v \in Views : Due(v) => Due(v)'
    BY <2>1 DEF Due
  <2>7. Told'
    BY <2>1, <2>2, <2>4, <2>5, <2>6 DEF Inv, Told, Announced
  <2> QED
    BY <2>3, <2>7 DEF Inv
<1> QED
  BY <1>1, <1>2, <1>3, <1>4, <1>5, <1>6, <1>7, <1>8, <1>9, <1>10
  DEF Next, WorkerNext, KodiNext

\* The inductive invariant.
LEMMA Invariance == Spec => []Inv
BY InitInv, NextInv, PTL DEF Spec

-----------------------------------------------------------------------------
(* Types. *)

WorldTypes ==
  /\ online \subseteq Devices
  /\ lineup \in [Tuners -> [Channels -> {"-", "+", "x"}]]
  /\ \E i, j \in DOMAIN Files : file = Files[i] /\ read = Files[j]
  /\ DOMAIN hook = {"channel", "flag", "want"}
  /\ hook.flag \in {"-", "+", "x"} /\ hook.want \subseteq Tuners
  /\ edits \in 0..MaxEdits /\ lost \in 0..MaxLost

WorkerTypes ==
  /\ device \subseteq Devices /\ found \subseteq Devices
  /\ table \in [Tuners -> RowType] /\ list \in [Tuners -> RowType]
  /\ pc \in {"idle", "merge", "mappings", "ask", "announce"}
  /\ changed \subseteq {"mappings", "lineups"} /\ want \subseteq device \cap Tuners
  /\ (pc # "merge" => found = {}) /\ (pc # "ask" => want = {} /\ list = NoRows)

KodiTypes ==
  /\ settings \subseteq Settings /\ copy \subseteq Settings /\ due \subseteq Updates
  /\ Len(job) <= 3 /\ DOMAIN shown = Views /\ missed \subseteq Views

LEMMA TypeParts == TypeOK <=> WorldTypes /\ WorkerTypes /\ KodiTypes
BY DEF TypeOK, WorldTypes, WorkerTypes, KodiTypes, Updates

LEMMA InitTypes == Init => TypeOK
<1> SUFFICES ASSUME Init PROVE TypeOK
  OBVIOUS
<1>1. WorldTypes
  <2>1. 1 \in DOMAIN Files
    BY DiscoveryAssumption
  <2> QED
    BY <2>1, DiscoveryAssumption DEF Init, WorldTypes, NoHook
<1>2. WorkerTypes
  BY DiscoveryAssumption DEF Init, WorkerTypes, RowType, NoRows
<1>3. KodiTypes
  BY DEF Init, KodiTypes, Settings
<1> QED
  BY <1>1, <1>2, <1>3, TypeParts

\* A bound is used, and kept.
LEMMA LosesFits ==
  ASSUME lost \in 0..MaxLost, NEW n \in Nat, Loses(n)
  PROVE  lost' \in 0..MaxLost
BY DiscoveryAssumption DEF Loses

LEMMA RequestsFit ==
  ASSUME online \subseteq Devices, lost \in 0..MaxLost, NEW S \in SUBSET online, Loses(Cardinality(S))
  PROVE  lost' \in 0..MaxLost
<1>1. Cardinality(S) \in Nat
  BY FS_Subset, FS_CardinalityType, DiscoveryAssumption
<1> QED
  BY <1>1, LosesFits

LEMMA NextTypes == Inv /\ TypeOK /\ [Next]_vars => TypeOK'
<1> SUFFICES ASSUME Inv, TypeOK, [Next]_vars PROVE TypeOK'
  OBVIOUS
<1>1. WorldTypes /\ WorkerTypes /\ KodiTypes
  BY TypeParts
<1>2. WorldTypes' /\ WorkerTypes' /\ KodiTypes' => TypeOK'
  BY TypeParts, PTL
<1>3. CASE UNCHANGED vars
  <2>1. WorldTypes'
    BY <1>1, <1>3 DEF vars, WorldTypes, worldVars, bounds, tables
  <2>2. WorkerTypes'
    BY <1>1, <1>3 DEF vars, WorkerTypes, tables, taskVars
  <2>3. KodiTypes'
    BY <1>1, <1>3 DEF vars, KodiTypes, kodiVars
  <2> QED BY <1>2, <2>1, <2>2, <2>3
<1>4. CASE \/ \E d \in Unstable : DeviceEdit(d)
           \/ \E d \in Tuners, c \in Changing : LineupEdit(d, c)
           \/ FileEdit
           \/ \E c \in Changing, f \in Flags : CallChannelMenuHook(c, f)
           \/ \E d \in Tuners : SetChannelVisibility(d)
  <2>1. UNCHANGED <<tables, taskVars, settings, due, kodiVars, missed>>
    BY <1>4 DEF DeviceEdit, LineupEdit, FileEdit, CallChannelMenuHook, SetChannelVisibility
  <2>2. WorkerTypes' /\ KodiTypes'
    BY <1>1, <2>1 DEF WorkerTypes, KodiTypes, tables, taskVars, kodiVars
  <2>3. WorldTypes'
    <3>1. CASE \E d \in Unstable : DeviceEdit(d)
      BY <1>1, <2>1, <3>1, DiscoveryAssumption DEF WorldTypes, DeviceEdit, Edits, tables
    <3>2. CASE \E d \in Tuners, c \in Changing : LineupEdit(d, c)
      BY <1>1, <2>1, <3>2, DiscoveryAssumption DEF WorldTypes, LineupEdit, Edits, tables
    <3>3. CASE FileEdit
      BY <1>1, <2>1, <3>3, DiscoveryAssumption DEF WorldTypes, FileEdit, Edits, tables
    <3>4. CASE \E c \in Changing, f \in Flags : CallChannelMenuHook(c, f)
      BY <1>1, <2>1, <3>4, DiscoveryAssumption DEF WorldTypes, CallChannelMenuHook, NoHook, Edits,
         tables, worldVars
    <3>5. CASE \E d \in Tuners : SetChannelVisibility(d)
      <4>1. PICK d \in Tuners : SetChannelVisibility(d)
        BY <3>5
      <4>2. lost' \in 0..MaxLost
        BY <1>1, <4>1, LosesFits DEF WorldTypes, SetChannelVisibility
      <4>3. lineup' \in [Tuners -> [Channels -> {"-", "+", "x"}]]
        BY <1>1, <4>1 DEF WorldTypes, SetChannelVisibility
      <4>4. /\ DOMAIN hook' = {"channel", "flag", "want"}
            /\ hook'.flag \in {"-", "+", "x"} /\ hook'.want \subseteq Tuners
        BY <1>1, <4>1 DEF WorldTypes, SetChannelVisibility, NoHook
      <4> QED BY <1>1, <2>1, <4>1, <4>2, <4>3, <4>4 DEF WorldTypes, SetChannelVisibility, tables
    <3> QED BY <1>4, <3>1, <3>2, <3>3, <3>4, <3>5
  <2> QED BY <1>2, <2>2, <2>3
<1>5. CASE DiscoverDevices \/ MergeDevices \/ BeginLineups \/ DiscoverMappings
           \/ (\E d \in Tuners : DownloadLineup(d)) \/ MergeLineups \/ TriggerUpdates \/ Throw
  <2>1. UNCHANGED <<worldVars, edits, hook, settings, kodiVars>>
    BY <1>5 DEF DiscoverDevices, MergeDevices, BeginLineups, DiscoverMappings, DownloadLineup,
       MergeLineups, TriggerUpdates, Throw, bounds
  <2>2. lost' \in 0..MaxLost
    <3>1. CASE DiscoverDevices
      BY <1>1, <3>1, RequestsFit DEF WorldTypes, DiscoverDevices
    <3>2. CASE \E d \in Tuners : DownloadLineup(d)
      <4>1. PICK d \in Tuners : DownloadLineup(d)
        BY <3>2
      <4>2. PICK S \in {{}, {d} \cap online} : Loses(Cardinality(S))
        BY <4>1 DEF DownloadLineup
      <4> QED BY <1>1, <4>2, RequestsFit DEF WorldTypes
    <3>3. CASE ~DiscoverDevices /\ ~(\E d \in Tuners : DownloadLineup(d))
      <4>1. UNCHANGED lost \/ Loses(1)
        BY <1>5, <3>3 DEF MergeDevices, BeginLineups, DiscoverMappings, MergeLineups,
           TriggerUpdates, Throw, bounds
      <4> QED BY <1>1, <4>1, LosesFits DEF WorldTypes
    <3> QED BY <3>1, <3>2, <3>3
  <2>3. read' \in {read, file}
    BY <1>5 DEF DiscoverDevices, MergeDevices, BeginLineups, DiscoverMappings, DownloadLineup,
       MergeLineups, TriggerUpdates, Throw, tables
  <2>4. WorldTypes'
    BY <1>1, <2>1, <2>2, <2>3 DEF WorldTypes, worldVars
  <2>5. due' \subseteq Updates /\ missed' \subseteq Views
    BY <1>1, <1>5 DEF KodiTypes, DiscoverDevices, MergeDevices, BeginLineups, DiscoverMappings,
       DownloadLineup, MergeLineups, TriggerUpdates, Throw, Abandon, Unannounced, Updates, Views
  <2>6. KodiTypes'
    BY <1>1, <2>1, <2>5 DEF KodiTypes, kodiVars
  <2>7. WorkerTypes'
    <3>1. CASE DiscoverDevices
      BY <1>1, <3>1 DEF WorldTypes, WorkerTypes, DiscoverDevices, DiscoverDevicesBroadcast,
         DiscoverDevicesHttp, JsonGetAggregate, tables
    <3>2. CASE MergeDevices
      BY <1>1, <3>2 DEF WorkerTypes, MergeDevices
    <3>3. CASE BeginLineups \/ DiscoverMappings
      BY <1>1, <3>3 DEF WorkerTypes, BeginLineups, DiscoverMappings, tables
    <3>4. CASE \E d \in Tuners : DownloadLineup(d)
      <4>1. PICK d \in Tuners : DownloadLineup(d)
        BY <3>4
      <4>2. Row(d) \in RowType
        BY DiscoveryAssumption DEF Row, RowType
      <4> QED BY <1>1, <4>1, <4>2 DEF WorkerTypes, DownloadLineup, JsonGet, Abandon, NoRows,
                 RowType, tables
    <3>5. CASE MergeLineups
      <4>1. table' \in [Tuners -> RowType] /\ list' \in [Tuners -> RowType]
        BY <1>1, <3>5 DEF WorkerTypes, MergeLineups, NoRows, RowType
      <4>2. changed' \subseteq {"mappings", "lineups"}
        BY <1>1, <3>5 DEF WorkerTypes, MergeLineups
      <4> QED BY <1>1, <3>5, <4>1, <4>2 DEF WorkerTypes, MergeLineups
    <3>6. CASE TriggerUpdates \/ Throw
      BY <1>1, <3>6 DEF WorkerTypes, TriggerUpdates, Throw, Abandon, NoRows, RowType, tables
    <3> QED BY <1>5, <3>1, <3>2, <3>3, <3>4, <3>5, <3>6
  <2> QED BY <1>2, <2>4, <2>6, <2>7
<1>6. CASE (\E s \in Chosen : SetSetting(s)) \/ BeginUpdate \/ EndCallback
  <2>1. UNCHANGED <<worldVars, lost, tables, taskVars, hook>> /\ edits' \in {edits, edits + 1}
        /\ (edits' = edits \/ edits < MaxEdits)
    BY <1>6 DEF SetSetting, BeginUpdate, EndCallback, Edits, bounds
  <2>2. WorldTypes' /\ WorkerTypes'
    <3>1. edits' \in 0..MaxEdits
      BY <1>1, <2>1, DiscoveryAssumption DEF WorldTypes
    <3> QED BY <1>1, <2>1, <3>1 DEF WorldTypes, WorkerTypes, worldVars, tables, taskVars
  <2>3. CASE \E s \in Chosen : SetSetting(s)
    <3>1. PICK s \in Settings : SetSetting(s)
      BY <2>3, DiscoveryAssumption
    <3>2. TriggersOf(s) \subseteq Updates
      BY DEF TriggersOf, Updates, Settings
    <3>3. KodiTypes'
      BY <1>1, <3>1, <3>2 DEF KodiTypes, SetSetting, kodiVars
    <3> QED BY <1>2, <2>2, <3>3
  <2>4. CASE BeginUpdate
    <3>1. PICK t \in due : due' = due \ {t} /\ job' = Callbacks(t)
      BY <2>4 DEF BeginUpdate
    <3>2. Len(job') <= 3
      BY <1>1, <3>1 DEF KodiTypes, Updates, Callbacks
    <3>3. KodiTypes'
      BY <1>1, <2>4, <3>1, <3>2 DEF KodiTypes, BeginUpdate
    <3> QED BY <1>2, <2>2, <3>3
  <2>5. CASE EndCallback
    <3>1. job \in Seq(Views) /\ job # <<>> /\ job' = Tail(job)
      BY <2>5 DEF Inv, Types, EndCallback
    <3>2. Len(job') <= 3
      BY <1>1, <3>1, HeadTailProperties, LenProperties DEF KodiTypes
    <3>3. KodiTypes'
      BY <1>1, <2>5, <3>2 DEF KodiTypes, EndCallback
    <3> QED BY <1>2, <2>2, <3>3
  <2> QED BY <1>6, <2>3, <2>4, <2>5
<1> QED
  BY <1>3, <1>4, <1>5, <1>6 DEF Next, WorkerNext, KodiNext

-----------------------------------------------------------------------------

\* When no update is due or under way each of Kodi's lists is what its callback would
\* return, whatever settings, mappings and tables changed while it read them: except for
\* the channels of the timers, of which Kodi is not told.
THEOREM KodiTold == Spec => []KodiIsTold
<1>1. ASSUME Inv, Quiet, NEW v \in Views \ missed
      PROVE  Followed(v, shown[v]) = Followed(v, Answer(v, settings))
  <2>1. changed = {} /\ job = <<>> /\ due = {}
    BY <1>1 DEF Inv, Types, Quiet
  <2>2. ~Due(v) /\ ~InJob(v) /\ ~Announced(v)
    BY <2>1 DEF Due, InJob, Announced
  <2> QED
    BY <1>1, <2>2 DEF Inv, Told
<1>2. Inv => KodiIsTold
  BY <1>1 DEF KodiIsTold
<1> QED
  BY <1>2, Invariance, PTL

\* Every variable keeps its type, and the worker's temporary tables are gone when it no
\* longer needs them.
THEOREM TypeCorrect == Spec => []TypeOK
BY InitTypes, NextTypes, Invariance, PTL DEF Spec

-----------------------------------------------------------------------------
(* The channels that nobody disables stay in the table of some tuner: there always is a *)
(* tuner, and before the table is replaced the lineups of all of them were downloaded.  *)

Lasting(d) == (Carries[d] \ Changing) \X {"-"}

\* Nobody disables the channels that do not change.
Steady ==
  /\ \A d \in Tuners : \A c \in Channels \ Changing : lineup[d][c] = "-"
  /\ hook.want # {} => hook.channel \in Changing

\* What was downloaded has them.
Downloaded == pc = "ask" => \A d \in (device \cap Tuners) \ want : Lasting(d) \subseteq list[d]

Lasts == Steady /\ Downloaded /\ ChannelsStay

LEMMA InitLasts == Init => Lasts
<1> SUFFICES ASSUME Init PROVE Lasts
  OBVIOUS
<1>1. Steady
  BY DEF Init, Steady, NoHook
<1>2. PICK d \in Tuners : TRUE
  BY DiscoveryAssumption
<1>3. Lasting(d) \subseteq table[d]
  BY DEF Init, Lasting
<1> QED
  BY <1>1, <1>3 DEF Init, Lasts, Downloaded, ChannelsStay, Lasting

LEMMA NextLasts == Inv /\ TypeOK /\ Lasts /\ [Next]_vars => Lasts'
<1> SUFFICES ASSUME Inv, TypeOK, Lasts, [Next]_vars PROVE Lasts'
  OBVIOUS
<1>1. lineup \in [Tuners -> [Channels -> {"-", "+", "x"}]] /\ list \in [Tuners -> RowType]
  BY DEF TypeOK
<1>2. ASSUME UNCHANGED <<lineup, hook>> PROVE Steady'
  BY <1>2 DEF Lasts, Steady
<1>3. ASSUME UNCHANGED table PROVE ChannelsStay'
  BY <1>3 DEF Lasts, ChannelsStay
<1>4. ASSUME UNCHANGED <<pc, device, want, list>> PROVE Downloaded'
  BY <1>4 DEF Lasts, Downloaded
<1>5. CASE \/ \E d \in Unstable : DeviceEdit(d)
           \/ FileEdit \/ UNCHANGED vars
           \/ \E s \in Chosen : SetSetting(s)
           \/ BeginUpdate \/ EndCallback
  BY <1>2, <1>3, <1>4, <1>5 DEF Lasts, DeviceEdit, FileEdit, SetSetting, BeginUpdate, EndCallback,
     vars, worldVars, tables, taskVars
<1>6. CASE \E d \in Tuners, c \in Changing : LineupEdit(d, c)
  <2>1. PICK d \in Tuners, c \in Changing : LineupEdit(d, c)
    BY <1>6
  <2>2. Steady'
    BY <1>1, <2>1 DEF Lasts, Steady, LineupEdit
  <2> QED
    BY <1>3, <1>4, <2>1, <2>2 DEF Lasts, LineupEdit, tables, taskVars
<1>7. CASE \E c \in Changing, f \in Flags : CallChannelMenuHook(c, f)
  <2>1. PICK c \in Changing, f \in Flags : CallChannelMenuHook(c, f)
    BY <1>7
  <2>2. Steady'
    BY <2>1 DEF Lasts, Steady, CallChannelMenuHook, NoHook, worldVars
  <2> QED
    BY <1>3, <1>4, <2>1, <2>2 DEF Lasts, CallChannelMenuHook, tables, taskVars
<1>8. CASE \E d \in Tuners : SetChannelVisibility(d)
  <2>1. PICK d \in Tuners : SetChannelVisibility(d)
    BY <1>8
  <2>2. hook.channel \in Changing
    BY <2>1 DEF Lasts, Steady, SetChannelVisibility
  <2>3. \A e \in Tuners : \A c \in Channels \ Changing : lineup'[e][c] = lineup[e][c]
    BY <1>1, <2>1, <2>2 DEF SetChannelVisibility
  <2>4. hook'.want # {} => hook'.channel = hook.channel
    BY <2>1 DEF TypeOK, SetChannelVisibility, NoHook
  <2>5. Steady'
    BY <2>2, <2>3, <2>4 DEF Lasts, Steady
  <2> QED
    BY <1>3, <1>4, <2>1, <2>5 DEF Lasts, SetChannelVisibility, tables, taskVars
<1>9. CASE DiscoverDevices \/ MergeDevices \/ BeginLineups
  <2>1. UNCHANGED <<lineup, hook, table>> /\ pc' # "ask"
    BY <1>9 DEF DiscoverDevices, MergeDevices, BeginLineups, worldVars, tables
  <2> QED
    BY <1>2, <1>3, <2>1 DEF Lasts, Downloaded
<1>10. CASE DiscoverMappings
  <2>1. UNCHANGED <<lineup, hook, table, device>> /\ want' = device \cap Tuners
    BY <1>10 DEF DiscoverMappings, worldVars
  <2> QED
    BY <1>2, <1>3, <2>1 DEF Lasts, Downloaded
<1>11. CASE \E d \in Tuners : DownloadLineup(d)
  <2>1. PICK d \in Tuners : DownloadLineup(d)
    BY <1>11
  <2>2. UNCHANGED <<lineup, hook, table, device>>
    BY <2>1 DEF DownloadLineup, worldVars, tables
  <2>3. Lasting(d) \subseteq Row(d)
    BY DiscoveryAssumption DEF Lasts, Steady, Lasting, Row
  <2>4. \/ pc' # "ask"
        \/ UNCHANGED pc /\ want' = want \ {d} /\ list' = [list EXCEPT ![d] = Row(d)]
    BY <2>1 DEF DownloadLineup, Abandon, JsonGet
  <2>5. Downloaded'
    BY <1>1, <2>2, <2>3, <2>4 DEF Lasts, Downloaded, Lasting
  <2> QED
    BY <1>2, <1>3, <2>2, <2>5 DEF Lasts
<1>12. CASE MergeLineups
  <2>1. /\ UNCHANGED <<lineup, hook, device>> /\ pc = "ask" /\ pc' # "ask" /\ want = {}
        /\ table' = [d \in Tuners |-> IF d \in device THEN list[d] ELSE {}]
    BY <1>12 DEF MergeLineups, worldVars
  <2>2. PICK d \in device \cap Tuners : TRUE
    BY DEF Inv, HasTuner
  <2>3. Lasting(d) \subseteq table'[d]
    BY <2>1, <2>2 DEF Lasts, Downloaded
  <2> QED
    BY <1>2, <2>1, <2>2, <2>3 DEF Lasts, Downloaded, ChannelsStay, Lasting
<1>13. CASE TriggerUpdates \/ Throw
  <2>1. UNCHANGED <<lineup, hook, table>> /\ pc' # "ask"
    BY <1>13 DEF TriggerUpdates, Throw, Abandon, worldVars, tables
  <2> QED
    BY <1>2, <1>3, <2>1 DEF Lasts, Downloaded
<1> QED
  BY <1>5, <1>6, <1>7, <1>8, <1>9, <1>10, <1>11, <1>12, <1>13 DEF Next, WorkerNext, KodiNext

\* Whatever discoveries, downloads and tasks fail, there is a tuner of which the table
\* lists every channel that nobody disables: a discovery that finds no tuner throws, and
\* so does an update of the lineups that does not get them all.
THEOREM ChannelsRemain == Spec => []ChannelsStay
<1>1. Lasts => ChannelsStay
  BY DEF Lasts
<1> QED
  BY <1>1, InitLasts, NextLasts, Invariance, TypeCorrect, PTL DEF Spec
=============================================================================
