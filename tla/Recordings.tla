------------------------------ MODULE Recordings ------------------------------
(***************************************************************************)
(* The recordings: the storage devices hold them, the table recording      *)
(* mirrors them, Kodi shows the table.  The scheduler's worker rediscovers *)
(* the table (src/src/addon.cpp, update_recordings_task) while callbacks   *)
(* on Kodi's threads delete recordings, set positions and, when they are   *)
(* asked for a position, reload a whole series.                            *)
(*                                                                         *)
(* A device lists its series with one or more UpdateIDs, and serves the    *)
(* recordings of each.  Both discoveries ask for the lists first and       *)
(* download the recordings inside of a transaction: the one write lock is  *)
(* held meanwhile, and a statement of another thread may wait for it       *)
(* longer than the busy timeout and throw.  A request that fails before    *)
(* anything was changed leaves no trace and is left out.                   *)
(***************************************************************************)
EXTENDS Integers, FiniteSets, FiniteSetsExt

CONSTANTS
  Devices,    \* storage devices
  Series,     \* series of recordings
  Recs,       \* recordings, by their recordingid; each is made once
  Home,       \* the device and the series of each recording
  Edited,     \* the recordings that the storage makes and erases
  Played,     \* the recordings that Kodi's user plays and deletes
  Positions,  \* the positions of Kodi's player, -1 meaning watched
  Watched,    \* the largest uint32_t, which stands for a watched recording
  Users,      \* threads of Kodi that call the addon
  Duplicates, \* a device may list a series under several UpdateIDs
  MaxEdits,   \* bound on what happens outside of the addon
  MaxLost,    \* bound on the requests that fail and the statements that find the database busy
  Worker,     \* the scheduler's worker thread
  Nobody      \* the owner of a free lock

Pairs == Devices \X Series

Threads == Users \cup {Worker}

ASSUME RecordingsAssumption ==
  /\ IsFiniteSet(Recs) /\ Recs # {} /\ Home \in [Recs -> Pairs]
  /\ Edited \subseteq Recs /\ Played \subseteq Recs
  /\ Positions \subseteq {-1} \cup 0..(Watched - 1) /\ Watched \in Nat
  /\ Worker \notin Users /\ Nobody \notin Threads
  /\ Duplicates \in BOOLEAN /\ MaxEdits \in Nat /\ MaxLost \in Nat

VARIABLES
  state,    \* the storage: a recording is not made yet, kept or gone
  ids,      \* the storage: the UpdateIDs under which each pair is listed
  resume,   \* the storage: the position of each recording
  known,    \* table device: the devices that have a storage URL
  edits,    \* the number of edits made, the next UpdateID
  table,    \* table recording: per recording its updateid, 0 if there is no row, and position
  writer,   \* the thread that holds the database's write lock
  draft,    \* the table as the transaction of the writer has it
  want,     \* the pairs whose recordings the transaction still has to download
  pc,       \* where each thread is
  list,     \* each thread's temporary table of the UpdateIDs listed
  rec,      \* the recording each thread was called for
  value,    \* the position it stores
  changed,  \* the worker's flag of that name
  lost,     \* the number of requests and statements that failed
  trigger,  \* Kodi has been told to read the recordings and has not done so
  shown,    \* the recordings Kodi shows
  missed,   \* history: Kodi was not told of a change: no, a reload, or a task that failed
  deleted,  \* history: the recordings whose deletion succeeded
  drift     \* history: recordings whose position was set by another client, by a
            \* call that failed, or by two calls at once

storageVars == <<state, ids, resume, known, edits>>
tables == <<table, writer, draft, want>>
callVars == <<list, rec, value>>
taskVars == <<changed, lost>>
kodiVars == <<trigger, shown, missed>>
vars == <<storageVars, tables, pc, callVars, taskVars, kodiVars, deleted, drift>>

Row(u, p) == [update |-> u, position |-> p]

NoRow == Row(0, 0)

Rows(t) == {r \in Recs : t[r] # NoRow}

RecsOf(p) == {r \in Recs : Home[r] = p}

\* The recordings a pair's EpisodesURL serves; a pair that has none is not listed.
Served(p) == {r \in RecsOf(p) : state[r] = "kept"}

\* The answers of all the storage URLs that the device table has.
Listed == [p \in Pairs |-> IF p[1] \in known /\ Served(p) # {} THEN ids[p] ELSE {}]

NoList == [p \in Pairs |-> {}]

NoTable == [r \in Recs |-> NoRow]

AnyRec == CHOOSE r \in Recs : TRUE

\* The startup discovery is over: the table is what the storage lists.
Init ==
  /\ known = Devices /\ edits = 1 /\ ids = [p \in Pairs |-> {1}]
  /\ \E S \in {Recs \ E : E \in SUBSET Edited} :
       /\ state = [r \in Recs |-> IF r \in S THEN "kept" ELSE "none"]
       /\ table = [r \in Recs |-> IF r \in S THEN Row(1, 0) ELSE NoRow]
       /\ shown = S
  /\ resume = [r \in Recs |-> 0]
  /\ writer = Nobody /\ draft = NoTable /\ want = {}
  /\ pc = [t \in Threads |-> "idle"]
  /\ list = [t \in Threads |-> NoList]
  /\ rec = [t \in Threads |-> AnyRec]
  /\ value = [t \in Threads |-> 0]
  /\ changed = FALSE /\ lost = 0
  /\ trigger = FALSE /\ missed = "no" /\ deleted = {} /\ drift = {}

Goto(t, l) == pc' = [pc EXCEPT ![t] = l]

Release == writer' = Nobody /\ draft' = NoTable /\ want' = {}

\* A call or a task ends.
Return(t) == Goto(t, "idle") /\ rec' = [rec EXCEPT ![t] = AnyRec]

-----------------------------------------------------------------------------
(* The world outside: storage devices, their other clients, the device table. *)

\* The pair of a recording is listed under a new UpdateID, or under one more.
Renumber(p) ==
  /\ edits' = edits + 1
  /\ \E old \in IF Duplicates THEN {{}, ids[p]} ELSE {{}} :
       ids' = [ids EXCEPT ![p] = old \cup {edits + 1}]

\* A recording is made, or erased by another client or for want of space.
StorageEdit(r) ==
  /\ edits < MaxEdits
  /\ \/ state[r] = "none" /\ state' = [state EXCEPT ![r] = "kept"]
     \/ state[r] = "kept" /\ state' = [state EXCEPT ![r] = "gone"]
  /\ Renumber(Home[r])
  /\ UNCHANGED <<resume, known, tables, pc, callVars, taskVars, kodiVars, deleted, drift>>

\* Another client watches a recording.
OtherPlayer(r) ==
  /\ edits < MaxEdits /\ state[r] = "kept"
  /\ \E p \in Positions \ {-1} : resume' = [resume EXCEPT ![r] = p]
  /\ edits' = edits + 1 /\ drift' = drift \cup {r}
  /\ UNCHANGED <<state, ids, known, tables, pc, callVars, taskVars, kodiVars, deleted>>

\* The device discovery finds a storage engine, or finds it gone.
DeviceEdit(d) ==
  /\ edits < MaxEdits /\ edits' = edits + 1
  /\ known' = IF d \in known THEN known \ {d} ELSE known \cup {d}
  /\ UNCHANGED <<state, ids, resume, tables, pc, callVars, taskVars, kodiVars, deleted,
                 drift>>

-----------------------------------------------------------------------------
(* What both discoveries do inside of their transactions. *)

\* The recordings of a pair are downloaded and inserted.
Download(t, p) ==
  /\ writer = t /\ p \in want
  /\ Cardinality(list[t][p]) = 1 \/ Served(p) = {}
  /\ draft' = [r \in Recs |-> IF r \in Served(p)
                              THEN Row(Max(list[t][p]), resume[r]) ELSE draft[r]]
  /\ want' = want \ {p}
  /\ changed' = IF t = Worker THEN changed \/ Served(p) # {} ELSE changed
  /\ UNCHANGED <<storageVars, table, writer, pc, callVars, lost, kodiVars, deleted,
                 drift>>

\* A download fails, or a pair with two UpdateIDs has its recordings inserted twice,
\* which the primary key forbids: the transaction is rolled back and the call throws.
Rollback(t) ==
  /\ writer = t /\ want # {}
  /\ \/ lost < MaxLost /\ lost' = lost + 1
     \/ /\ \E p \in want : Cardinality(list[t][p]) > 1 /\ Served(p) # {}
        /\ UNCHANGED lost
  /\ Release /\ Return(t) /\ list' = [list EXCEPT ![t] = NoList]
  /\ changed' = IF t = Worker THEN FALSE ELSE changed
  /\ UNCHANGED <<storageVars, table, value, kodiVars, deleted, drift>>

\* The write lock is not had within the busy timeout.  After the commit, that is in
\* set_discovered, the flag changed is lost with the exception.
Busy(t) ==
  /\ writer \notin {t, Nobody} /\ lost < MaxLost /\ lost' = lost + 1
  /\ pc[t] \in {"begin", "announce", "delete", "store"}
  /\ Return(t) /\ list' = [list EXCEPT ![t] = NoList]
  /\ value' = [value EXCEPT ![t] = 0]
  /\ changed' = IF t = Worker THEN FALSE ELSE changed
  /\ missed' = IF pc[t] = "announce" /\ changed THEN "failed" ELSE missed
  /\ drift' = drift \cup IF pc[t] = "store" THEN {rec[t]} ELSE {}
  /\ UNCHANGED <<storageVars, tables, trigger, shown, deleted>>

-----------------------------------------------------------------------------
(* The worker: update_recordings_task. *)

\* The temporary table is filled before the transaction begins.
AskRoot ==
  /\ pc[Worker] = "idle" /\ Goto(Worker, "begin") /\ changed' = FALSE
  /\ list' = [list EXCEPT ![Worker] =
                [p \in Pairs |-> IF Listed[p] = {} THEN {} ELSE {Max(Listed[p])}]]
  /\ UNCHANGED <<storageVars, tables, rec, value, lost, kodiVars, deleted, drift>>

\* Fault: the rows of an old UpdateID are kept.
CurrentAnyId(l) ==
  {r \in Rows(table) :
     /\ \E s \in Series : l[<<Home[r][1], s>>] # {}
     /\ \E d \in Devices : l[<<d, Home[r][2]>>] # {}}

\* Rows of devices or of series that are not listed any more are deleted, then those
\* with another UpdateID.  A pair that is not listed has no UpdateID to differ from.
Current(l) ==
  {r \in Rows(table) :
     /\ \E s \in Series : l[<<Home[r][1], s>>] # {}
     /\ \E d \in Devices : l[<<d, Home[r][2]>>] # {}
     /\ l[Home[r]] = {} \/ table[r].update \in l[Home[r]]}

\* The transaction begins and deletes; the pairs without a row are to be downloaded.
BeginMerge ==
  /\ pc[Worker] = "begin" /\ writer = Nobody
  /\ LET l == list[Worker]
         kept == Current(l)
     IN  /\ draft' = [r \in Recs |-> IF r \in kept THEN table[r] ELSE NoRow]
         /\ want' = {p \in Pairs : l[p] # {} /\ RecsOf(p) \cap kept = {}}
         /\ changed' = (kept # Rows(table))
  /\ writer' = Worker /\ Goto(Worker, "merge")
  /\ UNCHANGED <<storageVars, table, callVars, lost, kodiVars, deleted, drift>>

CommitMerge ==
  /\ writer = Worker /\ want = {}
  /\ table' = draft /\ Release /\ Goto(Worker, "announce")
  /\ list' = [list EXCEPT ![Worker] = NoList]
  /\ UNCHANGED <<storageVars, rec, value, taskVars, kodiVars, deleted, drift>>

SetDiscovered ==
  /\ pc[Worker] = "announce" /\ writer = Nobody
  /\ Goto(Worker, IF changed THEN "trigger" ELSE "idle")
  /\ UNCHANGED <<storageVars, tables, callVars, taskVars, kodiVars, deleted, drift>>

\* Fault: the task ends without telling Kodi of what it changed.
SilentTrigger ==
  /\ pc[Worker] = "trigger"
  /\ Goto(Worker, "idle") /\ changed' = FALSE
  /\ UNCHANGED <<storageVars, tables, callVars, lost, kodiVars, deleted, drift>>

\* Kodi is told, unless the task was cancelled meanwhile.
WorkerTrigger ==
  /\ pc[Worker] = "trigger"
  /\ \/ trigger' = TRUE /\ UNCHANGED missed
     \/ missed' = "failed" /\ UNCHANGED trigger
  /\ Goto(Worker, "idle") /\ changed' = FALSE
  /\ UNCHANGED <<storageVars, tables, callVars, lost, shown, deleted, drift>>

-----------------------------------------------------------------------------
(* Kodi's calls. *)

\* DeleteRecording and the menu's "delete and re-record": the storage is told first.
\* The answer may be lost after it has deleted the recording, and the call fails.
PostDelete(u, r) ==
  /\ pc[u] = "idle" /\ r \in shown /\ table[r] # NoRow /\ state[r] = "kept"
  /\ state' = [state EXCEPT ![r] = "gone"] /\ Renumber(Home[r])
  /\ \/ Goto(u, "delete") /\ rec' = [rec EXCEPT ![u] = r] /\ UNCHANGED lost
     \/ lost < MaxLost /\ lost' = lost + 1 /\ UNCHANGED <<pc, rec>>
  /\ UNCHANGED <<resume, known, tables, list, value, changed, kodiVars, deleted,
                 drift>>

\* Fault: the row is deleted while a transaction is under way.
DeleteUnlocked(u) ==
  /\ pc[u] = "delete"
  /\ table' = [table EXCEPT ![rec[u]] = NoRow] /\ deleted' = deleted \cup {rec[u]}
  /\ Goto(u, "trigger")
  /\ UNCHANGED <<storageVars, writer, draft, want, callVars, taskVars, kodiVars, drift>>

\* Then the row is deleted, whatever device it is of.
DeleteRow(u) ==
  /\ pc[u] = "delete" /\ writer = Nobody
  /\ table' = [table EXCEPT ![rec[u]] = NoRow] /\ deleted' = deleted \cup {rec[u]}
  /\ Goto(u, "trigger")
  /\ UNCHANGED <<storageVars, writer, draft, want, callVars, taskVars, kodiVars, drift>>

\* The menu hook triggers the update of the recordings, after DeleteRecording Kodi does.
UserTrigger(u) ==
  /\ pc[u] = "trigger" /\ trigger' = TRUE /\ Return(u)
  /\ UNCHANGED <<storageVars, tables, list, value, taskVars, shown, missed, deleted, drift>>

\* What SetRecordingLastPlayedPosition stores; SetRecordingPlayCount(0) stores 0.
Stored(p, count) == IF p < 0 \/ (p = 0 /\ count > 0) THEN Watched ELSE p

\* The storage is told first.  A recording that it does not have makes the call fail.
PostPosition(u, r) ==
  /\ pc[u] = "idle" /\ r \in shown /\ table[r] # NoRow /\ state[r] = "kept"
  /\ \E p \in Positions, count \in {0, 1} :
       LET v == Stored(p, count)
       IN  /\ resume' = [resume EXCEPT ![r] = v]
           /\ value' = [value EXCEPT ![u] = v]
  /\ rec' = [rec EXCEPT ![u] = r] /\ Goto(u, "store")
  /\ drift' = drift \cup {x \in {r} : \E t \in Users : pc[t] = "store" /\ rec[t] = r}
  /\ UNCHANGED <<state, ids, known, edits, tables, list, taskVars, kodiVars, deleted>>

\* Fault: the row is updated while a transaction is under way.
StoreUnlocked(u) ==
  /\ pc[u] = "store"
  /\ table' = [r \in Recs |-> IF r = rec[u] /\ table[r] # NoRow
                              THEN Row(table[r].update, value[u]) ELSE table[r]]
  /\ Return(u) /\ value' = [value EXCEPT ![u] = 0]
  /\ UNCHANGED <<storageVars, writer, draft, want, list, taskVars, kodiVars, deleted,
                 drift>>

\* Then the row, if it is still there.
StorePosition(u) ==
  /\ pc[u] = "store" /\ writer = Nobody
  /\ table' = [r \in Recs |-> IF r = rec[u] /\ table[r] # NoRow
                              THEN Row(table[r].update, value[u]) ELSE table[r]]
  /\ Return(u) /\ value' = [value EXCEPT ![u] = 0]
  /\ UNCHANGED <<storageVars, writer, draft, want, list, taskVars, kodiVars, deleted,
                 drift>>

\* GetRecordingLastPlayedPosition: a row that was discovered more than half a minute
\* ago has its whole series reloaded (once the startup is complete, as it is here).
AskSeries(u, r) ==
  /\ pc[u] = "idle" /\ r \in shown /\ table[r] # NoRow
  /\ rec' = [rec EXCEPT ![u] = r] /\ Goto(u, "begin")
  /\ list' = [list EXCEPT ![u] =
                [p \in Pairs |-> IF p[2] = Home[r][2] THEN Listed[p] ELSE {}]]
  /\ UNCHANGED <<storageVars, tables, value, taskVars, kodiVars, deleted, drift>>

BeginRefresh(u) ==
  /\ u \in Users /\ pc[u] = "begin" /\ writer = Nobody
  /\ draft' = [r \in Recs |-> IF Home[r][2] = Home[rec[u]][2] THEN NoRow ELSE table[r]]
  /\ want' = {p \in Pairs : list[u][p] # {}}
  /\ Goto(u, "merge") /\ writer' = u
  /\ UNCHANGED <<storageVars, table, callVars, taskVars, kodiVars, deleted, drift>>

\* No one tells Kodi of recordings that came or went with the reload.
CommitRefresh(u) ==
  /\ writer = u /\ want = {}
  /\ table' = draft /\ Release /\ Return(u)
  /\ list' = [list EXCEPT ![u] = NoList]
  /\ missed' = IF Rows(draft) # Rows(table) /\ missed = "no" THEN "reload" ELSE missed
  /\ UNCHANGED <<storageVars, value, taskVars, trigger, shown, deleted, drift>>

\* Kodi was told to read the recordings and calls GetRecordings.
GetRecordings ==
  /\ trigger /\ trigger' = FALSE /\ shown' = Rows(table) /\ missed' = "no"
  /\ UNCHANGED <<storageVars, tables, pc, callVars, taskVars, deleted, drift>>

-----------------------------------------------------------------------------

ThreadNext(t) ==
  \/ \E p \in Pairs : Download(t, p)
  \/ Rollback(t)
  \/ Busy(t)

WorkerNext == BeginMerge \/ CommitMerge \/ SetDiscovered \/ WorkerTrigger

CallNext(u) ==
  DeleteRow(u) \/ UserTrigger(u) \/ StorePosition(u) \/ BeginRefresh(u) \/ CommitRefresh(u)

CallBegins(u) ==
  \E r \in Played : PostDelete(u, r) \/ PostPosition(u, r) \/ AskSeries(u, r)

Next ==
  \/ \E r \in Edited : StorageEdit(r)
  \/ \E r \in Played : OtherPlayer(r)
  \/ \E d \in Devices : DeviceEdit(d)
  \/ \E t \in Threads : ThreadNext(t)
  \/ AskRoot \/ WorkerNext
  \/ \E u \in Users : CallBegins(u) \/ CallNext(u)
  \/ GetRecordings

Spec == Init /\ [][Next]_vars

\* The task reschedules itself, so it begins again and again, and a transaction that
\* may begin again and again does; what has begun goes on; Kodi reads when told to.
FairSpec ==
  /\ Spec
  /\ SF_vars(AskRoot) /\ SF_vars(BeginMerge) /\ SF_vars(SetDiscovered)
  /\ \A t \in Threads : WF_vars(ThreadNext(t))
  /\ WF_vars(WorkerNext) /\ WF_vars(GetRecordings)
  /\ \A u \in Users : WF_vars(CallNext(u))

-----------------------------------------------------------------------------
(* Properties. *)

Steps == {"idle", "begin", "merge", "announce", "trigger", "delete", "store"}

TableType == [Recs -> [update : 0..edits, position : 0..Watched]]

\* Types; and the write lock is held by the thread that is in a transaction.
TypeOK ==
  /\ state \in [Recs -> {"none", "kept", "gone"}]
  /\ edits \in Nat /\ ids \in [Pairs -> SUBSET (1..edits)]
  /\ resume \in [Recs -> 0..Watched] /\ known \subseteq Devices
  /\ table \in TableType /\ draft \in TableType
  /\ writer \in Threads \cup {Nobody} /\ want \subseteq Pairs
  /\ pc \in [Threads -> Steps] /\ list \in [Threads -> [Pairs -> SUBSET (1..edits)]]
  /\ rec \in [Threads -> Recs] /\ value \in [Threads -> 0..Watched]
  /\ {changed, trigger} \subseteq BOOLEAN /\ lost \in 0..MaxLost
  /\ shown \subseteq Recs /\ deleted \subseteq Recs /\ drift \subseteq Recs
  /\ missed \in {"no", "reload", "failed"}
  /\ \A t \in Threads : writer = t <=> pc[t] = "merge"

Quiet == ~trigger /\ \A t \in Threads : pc[t] = "idle"

\* Kodi shows the table: in a quiet state the recordings that Kodi shows are the rows
\* of the table, unless a task threw or was cancelled after its commit, or a reload of
\* a series changed the rows.
KodiIsTold == Quiet /\ missed = "no" => shown = Rows(table)

\* The same without the last exception: "Changes to the recordings affects the PVR
\* recording information" (src/src/addon.cpp:1620).
ReloadsAreAnnounced == Quiet /\ missed # "failed" => shown = Rows(table)

\* A recording whose deletion succeeded never comes back into the table, although the
\* discoveries read the storage before, during and after the deletion: they download
\* with the write lock held, and the row is deleted after the storage's copy.
DeletedStaysDeleted == \A r \in deleted : table[r] = NoRow

\* The position that the addon was last given is the one of the table and the one of
\* the storage, whatever was reloaded in between: the storage is told first, and the
\* reloads that read it before that have committed when the row is updated.
PositionsAgree ==
  \A r \in Recs \ drift :
    /\ table[r] # NoRow /\ state[r] = "kept"
    /\ \A u \in Users : ~(pc[u] = "store" /\ rec[u] = r)
    => table[r].position = resume[r]

\* A row that no statement of the discovery removes: its pair is not listed any more,
\* while its device lists other series and other devices list its series.
Forgotten(r) ==
  /\ Listed[Home[r]] = {}
  /\ \E s \in Series : Listed[<<Home[r][1], s>>] # {}
  /\ \E d \in Devices : Listed[<<d, Home[r][2]>>] # {}

\* Once nothing is recorded, deleted or lost any more the table comes to hold what the
\* storage serves and stays so, whatever stale lists were merged.  "Remove all stale
\* deviceids and/or stale seriesids" (src/src/database.cpp:1089) does not reach the rows
\* of a pair that is forgotten, the one exception.
Converges ==
  <>[](\A r \in Recs :
         LET here == state[r] = "kept" /\ Home[r][1] \in known
         IN  (here => table[r] # NoRow) /\ (table[r] # NoRow => here \/ Forgotten(r)))
=============================================================================
