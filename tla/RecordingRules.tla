---------------------------- MODULE RecordingRules ----------------------------
(***************************************************************************)
(* The recording rules: the service in the cloud owns them, the local      *)
(* database mirrors them and their episodes, Kodi shows the mirror.  The   *)
(* scheduler's worker rediscovers both tables (src/src/addon.cpp,          *)
(* update_recordingrules_task and update_episodes_task) while callbacks on *)
(* Kodi's threads add, change and delete rules and other clients of the    *)
(* service do the same.                                                    *)
(*                                                                         *)
(* A rule is a row whose content is the number of the edit that made it;   *)
(* the episodes of a series are those of the rules it has.  The database   *)
(* is in WAL mode with one writer at a time: a statement that cannot have  *)
(* the write lock within the busy timeout throws.  The lock shows between  *)
(* two steps only where it is held during a download.  A download that     *)
(* fails before anything was changed leaves no trace and is left out, as   *)
(* are the calls that are refused for want of an authorised tuner.         *)
(*                                                                         *)
(* What Kodi shows is the rows of the two tables.  The query of the timers *)
(* (src/src/database.cpp:2096-2118) takes more from elsewhere: their       *)
(* channel from table lineup, whether they were recorded from table        *)
(* recording, their rule from table recordingrule.  A change of the first  *)
(* two updates no timers, see Discovery, TimersFollowLineups.              *)
(***************************************************************************)
EXTENDS Integers, FiniteSets

CONSTANTS
  Rules,      \* identifiers of recording rules; the service uses each one once
  Series,     \* series that have rules
  SeriesOf,   \* the series of each rule
  Expirable,  \* the date/time rules that expire
  Shared,     \* the rules that other clients of the service edit
  Users,      \* threads of Kodi that call AddTimer, UpdateTimer, DeleteTimer
  MaxEdits,   \* bound on the additions and changes of rules
  MaxLost,    \* bound on the episode downloads that fail
  Worker,     \* the scheduler's worker thread
  Nobody      \* the owner of a free lock

ASSUME RecordingRulesAssumption ==
  /\ Rules # {} /\ IsFiniteSet(Series) /\ SeriesOf \in [Rules -> Series]
  /\ Expirable \subseteq Rules /\ Shared \subseteq Rules
  /\ Worker \notin Users /\ Nobody \notin Users \cup {Worker}
  /\ MaxEdits \in Nat /\ MaxLost \in Nat

VARIABLES
  cloud,         \* the service: 0 is not used yet, -1 deleted, else the edit
  edits,         \* the number of edits made
  rules,         \* table recordingrule: the content of each row, 0 if there is none
  episodes,      \* table episode: per series, the edits its episodes come from
  writer,        \* the thread that holds the database's write lock
  wpc,           \* where the worker is
  task,          \* the task it runs; "nested" is the episodes task inside the rules task
  answer,        \* temporary table discover_recordingrule
  guide,         \* temporary table discover_episode
  changed,       \* the task's flag of that name
  expiring,      \* the expired rule being deleted
  lost,          \* the number of episode downloads that failed
  upc,           \* where each of Kodi's threads is
  rule,          \* the rule it edits
  reply,         \* the row the service answered
  trigger,       \* Kodi has been told to read the timers and has not begun
  kpc,           \* where GetTimers is
  shownRules,    \* the rules Kodi shows
  shownEpisodes, \* the episodes Kodi shows as timers
  skipped        \* history: a task threw after it changed a table, no one told Kodi since

cloudVars == <<cloud, edits>>
tables == <<rules, episodes, writer>>
workerVars == <<wpc, task, answer, guide, changed, expiring, lost>>
userVars == <<upc, rule, reply>>
kodiVars == <<trigger, kpc, shownRules, shownEpisodes, skipped>>
vars == <<cloudVars, tables, workerVars, userVars, kodiVars>>

\* What the service answers when it is asked for the rules.
Present == [r \in Rules |-> IF cloud[r] > 0 THEN cloud[r] ELSE 0]

\* What it answers when it is asked for the episodes of a series.
EpisodesOf(s) == {cloud[r] : r \in {x \in Rules : SeriesOf[x] = s /\ cloud[x] > 0}}

NoRules == [r \in Rules |-> 0]

NoEpisodes == [s \in Series |-> {}]

AnyRule == CHOOSE r \in Rules : TRUE

Init ==
  /\ cloud = NoRules /\ edits = 0
  /\ rules = NoRules /\ episodes = NoEpisodes /\ writer = Nobody
  /\ wpc = "idle" /\ task = "rules" /\ answer = NoRules /\ guide = NoEpisodes
  /\ changed = FALSE /\ expiring = AnyRule /\ lost = 0
  /\ upc = [u \in Users |-> "idle"]
  /\ rule = [u \in Users |-> AnyRule]
  /\ reply = [u \in Users |-> 0]
  /\ trigger = FALSE /\ kpc = "idle" /\ skipped = FALSE
  /\ shownRules = NoRules /\ shownEpisodes = NoEpisodes

TriggerTimerUpdate == trigger' = TRUE /\ skipped' = FALSE

-----------------------------------------------------------------------------
(* The worker, which runs one task at a time. *)

\* The temporary table is filled before the transaction begins.
AskRules ==
  /\ wpc = "idle"
  /\ wpc' = "mergeRules" /\ task' = "rules" /\ answer' = Present /\ changed' = FALSE
  /\ UNCHANGED <<cloudVars, tables, guide, expiring, lost, userVars, kodiVars>>

\* Fault: rows that the answer no longer has are kept.
MergeKeepingRows ==
  /\ wpc = "mergeRules" /\ writer = Nobody
  /\ rules' = [r \in Rules |-> IF answer[r] = 0 THEN rules[r] ELSE answer[r]]
  /\ changed' = (rules' # rules) /\ wpc' = "expire"
  /\ answer' = NoRules
  /\ UNCHANGED <<cloudVars, episodes, writer, task, guide, expiring, lost,
                 userVars, kodiVars>>

\* The task ends; the one it was nested in goes on to tell Kodi.
EndTask ==
  /\ wpc' = IF task = "nested" THEN "trigger" ELSE "idle"
  /\ task' = "rules" /\ changed' = FALSE

\* Rows that are gone are deleted, rows that are new or differ are replaced.
MergeRules ==
  /\ wpc = "mergeRules" /\ writer = Nobody
  /\ rules' = answer /\ changed' = (rules # answer) /\ wpc' = "expire"
  /\ answer' = NoRules
  /\ UNCHANGED <<cloudVars, episodes, writer, task, guide, expiring, lost,
                 userVars, kodiVars>>

\* An expired rule is deleted by the service first; if it refuses, the rule is passed over.
ExpireRule(r) ==
  /\ wpc = "expire" /\ r \in Expirable /\ rules[r] # 0 /\ cloud[r] > 0
  /\ cloud' = [cloud EXCEPT ![r] = -1] /\ expiring' = r /\ wpc' = "deleteExpired"
  /\ UNCHANGED <<edits, tables, task, answer, guide, changed, lost, userVars, kodiVars>>

DeleteExpired ==
  /\ wpc = "deleteExpired" /\ writer = Nobody
  /\ rules' = [rules EXCEPT ![expiring] = 0] /\ changed' = TRUE /\ wpc' = "expire"
  /\ expiring' = AnyRule
  /\ UNCHANGED <<cloudVars, episodes, writer, task, answer, guide, lost, userVars,
                 kodiVars>>

\* Busy, or refused since the rules being enumerated are not the latest any more.
DeleteExpiredThrows ==
  /\ wpc = "deleteExpired" /\ wpc' = "expire" /\ expiring' = AnyRule
  /\ UNCHANGED <<cloudVars, tables, task, answer, guide, changed, lost, userVars,
                 kodiVars>>

\* The episodes task, on its own or run by the rules task when the rules changed.  Only
\* series of rules in the local table are asked for; downloads that fail are passed over.
AskEpisodes(failing) ==
  /\ \/ wpc = "idle" /\ task' = "episodes"
     \/ wpc = "announce" /\ task = "rules" /\ changed /\ task' = "nested"
  /\ lost + Cardinality(failing) <= MaxLost
  /\ lost' = lost + Cardinality(failing)
  /\ guide' = [s \in Series |->
       IF s \notin failing /\ \E r \in Rules : SeriesOf[r] = s /\ rules[r] # 0
       THEN EpisodesOf(s) ELSE {}]
  /\ wpc' = "mergeEpisodes" /\ changed' = FALSE
  /\ UNCHANGED <<cloudVars, tables, answer, expiring, userVars, kodiVars>>

MergeEpisodes ==
  /\ wpc = "mergeEpisodes" /\ writer = Nobody
  /\ episodes' = guide /\ changed' = (episodes # guide) /\ wpc' = "episodesMerged"
  /\ guide' = NoEpisodes
  /\ UNCHANGED <<cloudVars, rules, writer, task, answer, expiring, lost, userVars,
                 kodiVars>>

SetDiscovered ==
  /\ wpc \in {"expire", "episodesMerged"} /\ writer = Nobody
  /\ wpc' = "announce"
  /\ UNCHANGED <<cloudVars, tables, task, answer, guide, changed, expiring, lost,
                 userVars, kodiVars>>

\* The write lock is not to be had in time.  The exception leaves the discovery and is
\* caught by the task, past everything that follows from a change; the rules task
\* goes on when its nested task has failed.
WorkerBusy ==
  /\ wpc \in {"mergeRules", "mergeEpisodes", "expire", "episodesMerged"}
  /\ writer \notin {Nobody, Worker}
  /\ EndTask
  /\ skipped' = (skipped \/ (task # "nested" /\ changed))
  /\ answer' = NoRules /\ guide' = NoEpisodes
  /\ UNCHANGED <<cloudVars, tables, expiring, lost, userVars, trigger, kpc, shownRules, shownEpisodes>>

\* The episodes task tells Kodi of a change; when it was nested, the rules task goes on.
Announce ==
  /\ wpc = "announce" /\ (task = "rules" => ~changed)
  /\ IF changed THEN TriggerTimerUpdate ELSE UNCHANGED <<trigger, skipped>>
  /\ EndTask
  /\ UNCHANGED <<cloudVars, tables, answer, guide, expiring, lost, userVars, kpc, shownRules, shownEpisodes>>

WorkerTrigger ==
  /\ wpc = "trigger" /\ TriggerTimerUpdate
  /\ wpc' = "idle"
  /\ UNCHANGED <<cloudVars, tables, task, answer, guide, changed, expiring, lost,
                 userVars, kpc, shownRules, shownEpisodes>>

\* The listings and the recordings are downloaded inside of their transactions.
DownloadLocked ==
  /\ wpc = "idle" /\ writer = Nobody
  /\ writer' = Worker /\ wpc' = "download"
  /\ UNCHANGED <<cloudVars, rules, episodes, task, answer, guide, changed, expiring,
                 lost, userVars, kodiVars>>

Downloaded ==
  /\ wpc = "download"
  /\ writer' = Nobody /\ wpc' = "idle"
  /\ UNCHANGED <<cloudVars, rules, episodes, task, answer, guide, changed, expiring,
                 lost, userVars, kodiVars>>

WorkerNext ==
  \/ AskRules \/ MergeRules \/ DeleteExpired \/ DeleteExpiredThrows
  \/ \E r \in Rules : ExpireRule(r)
  \/ \E failing \in SUBSET Series : AskEpisodes(failing)
  \/ MergeEpisodes \/ SetDiscovered \/ WorkerBusy \/ Announce \/ WorkerTrigger
  \/ DownloadLocked \/ Downloaded

-----------------------------------------------------------------------------
(* AddTimer, UpdateTimer and DeleteTimer. *)

EndCall(u) ==
  /\ upc' = [upc EXCEPT ![u] = "idle"]
  /\ rule' = [rule EXCEPT ![u] = AnyRule] /\ reply' = [reply EXCEPT ![u] = 0]

\* One statement posts the edit and stores the answer: it has the write lock first.
\* A rule is added under a new identifier, or one that Kodi shows is changed.
PostEdit(u, r) ==
  /\ upc[u] = "idle" /\ writer = Nobody /\ edits < MaxEdits
  /\ cloud[r] = 0 \/ (shownRules[r] # 0 /\ cloud[r] > 0)
  /\ writer' = u /\ edits' = edits + 1 /\ cloud' = [cloud EXCEPT ![r] = edits']
  /\ upc' = [upc EXCEPT ![u] = "store"] /\ rule' = [rule EXCEPT ![u] = r]
  /\ reply' = [reply EXCEPT ![u] = edits']
  /\ UNCHANGED <<rules, episodes, workerVars, kodiVars>>

\* Fault: the lock outlives the statement.
StoreLocked(u) ==
  /\ upc[u] = "store"
  /\ rules' = [rules EXCEPT ![rule[u]] = reply[u]]
  /\ upc' = [upc EXCEPT ![u] = "rediscover"]
  /\ UNCHANGED <<cloudVars, episodes, writer, workerVars, rule, reply, kodiVars>>

Store(u) ==
  /\ upc[u] = "store"
  /\ rules' = [rules EXCEPT ![rule[u]] = reply[u]] /\ writer' = Nobody
  /\ upc' = [upc EXCEPT ![u] = "rediscover"] /\ reply' = [reply EXCEPT ![u] = 0]
  /\ UNCHANGED <<cloudVars, episodes, workerVars, rule, kodiVars>>

\* The service made the edit but its answer does not arrive: the call fails.
LoseReply(u) ==
  /\ upc[u] = "store"
  /\ writer' = Nobody /\ EndCall(u)
  /\ UNCHANGED <<cloudVars, rules, episodes, workerVars, kodiVars>>

\* A deletion is posted first, then it is made in the table.
PostDelete(u, r) ==
  /\ upc[u] = "idle" /\ shownRules[r] # 0 /\ cloud[r] > 0
  /\ cloud' = [cloud EXCEPT ![r] = -1]
  /\ upc' = [upc EXCEPT ![u] = "delete"] /\ rule' = [rule EXCEPT ![u] = r]
  /\ UNCHANGED <<edits, tables, workerVars, reply, kodiVars>>

Delete(u) ==
  /\ upc[u] = "delete" /\ writer = Nobody
  /\ rules' = [rules EXCEPT ![rule[u]] = 0]
  /\ upc' = [upc EXCEPT ![u] = "rediscover"]
  /\ UNCHANGED <<cloudVars, episodes, writer, workerVars, rule, reply, kodiVars>>

\* The call fails and leaves the row to the next discovery.
DeleteBusy(u) ==
  /\ upc[u] = "delete" /\ writer # Nobody
  /\ EndCall(u)
  /\ UNCHANGED <<cloudVars, tables, workerVars, kodiVars>>

\* discover_episodes_seriesid: the download is inside of the transaction.
Rediscover(u) ==
  /\ upc[u] = "rediscover" /\ writer = Nobody
  /\ writer' = u /\ upc' = [upc EXCEPT ![u] = "download"]
  /\ UNCHANGED <<cloudVars, rules, episodes, workerVars, rule, reply, kodiVars>>

Commit(u) ==
  /\ upc[u] = "download"
  /\ LET s == SeriesOf[rule[u]] IN episodes' = [episodes EXCEPT ![s] = EpisodesOf(s)]
  /\ writer' = Nobody /\ upc' = [upc EXCEPT ![u] = "trigger"]
  /\ UNCHANGED <<cloudVars, rules, workerVars, rule, reply, kodiVars>>

Rollback(u) ==
  /\ upc[u] = "download"
  /\ writer' = Nobody /\ upc' = [upc EXCEPT ![u] = "trigger"]
  /\ UNCHANGED <<cloudVars, rules, episodes, workerVars, rule, reply, kodiVars>>

\* Fault: a failure to rediscover fails the call.
RediscoverThrows(u) ==
  /\ upc[u] = "rediscover" /\ writer # Nobody
  /\ EndCall(u)
  /\ UNCHANGED <<cloudVars, tables, workerVars, kodiVars>>

\* A failure to rediscover is logged; the call goes on.
RediscoverBusy(u) ==
  /\ upc[u] = "rediscover" /\ writer # Nobody
  /\ upc' = [upc EXCEPT ![u] = "trigger"]
  /\ UNCHANGED <<cloudVars, tables, workerVars, rule, reply, kodiVars>>

UserTrigger(u) ==
  /\ upc[u] = "trigger" /\ TriggerTimerUpdate
  /\ EndCall(u)
  /\ UNCHANGED <<cloudVars, tables, workerVars, kpc, shownRules, shownEpisodes>>

CallNext(u) ==
  \/ Store(u) \/ LoseReply(u) \/ Delete(u) \/ DeleteBusy(u) \/ Rediscover(u)
  \/ Commit(u) \/ Rollback(u) \/ RediscoverBusy(u) \/ UserTrigger(u)

UserNext(u) == CallNext(u) \/ \E r \in Rules : PostEdit(u, r) \/ PostDelete(u, r)

-----------------------------------------------------------------------------
(* The service's other clients, and Kodi reading the timers. *)

OtherClient(r) ==
  /\ \/ /\ cloud[r] >= 0 /\ edits < MaxEdits /\ edits' = edits + 1
        /\ cloud' = [cloud EXCEPT ![r] = edits']
     \/ cloud[r] > 0 /\ cloud' = [cloud EXCEPT ![r] = -1] /\ UNCHANGED edits
  /\ UNCHANGED <<tables, workerVars, userVars, kodiVars>>

\* GetTimers reads the rules and the timers with two statements, without the lock.
ReadRules ==
  /\ kpc = "idle" /\ trigger
  /\ trigger' = FALSE /\ kpc' = "episodes" /\ shownRules' = rules
  /\ UNCHANGED <<cloudVars, tables, workerVars, userVars, shownEpisodes, skipped>>

ReadEpisodes ==
  /\ kpc = "episodes"
  /\ kpc' = "idle" /\ shownEpisodes' = episodes
  /\ UNCHANGED <<cloudVars, tables, workerVars, userVars, trigger, shownRules, skipped>>

Next ==
  \/ WorkerNext
  \/ \E u \in Users : UserNext(u)
  \/ \E r \in Shared : OtherClient(r)
  \/ ReadRules \/ ReadEpisodes

Spec == Init /\ [][Next]_vars

\* The tasks reschedule themselves, so each begins again and again; what has begun
\* goes on; Kodi reads when it was told to.  Nothing forces a user or another client.
FairSpec ==
  /\ Spec
  /\ WF_vars(wpc # "idle" /\ WorkerNext)
  /\ SF_vars(AskRules) /\ SF_vars(wpc = "idle" /\ AskEpisodes({}))
  /\ \A u \in Users : WF_vars(CallNext(u))
  /\ WF_vars(ReadRules \/ ReadEpisodes)

-----------------------------------------------------------------------------
(* Properties. *)

Versions == 0..MaxEdits

WorkerSteps == {"idle", "mergeRules", "expire", "deleteExpired",
                "mergeEpisodes", "episodesMerged", "announce", "trigger", "download"}

UserSteps == {"idle", "store", "delete", "rediscover", "download", "trigger"}

\* Types; and the write lock is held by exactly the thread that is in a transaction
\* or a statement that waits for the network, so there is never more than one.
TypeOK ==
  /\ cloud \in [Rules -> Versions \cup {-1}] /\ edits \in Versions
  /\ rules \in [Rules -> Versions] /\ episodes \in [Series -> SUBSET Versions]
  /\ wpc \in WorkerSteps /\ task \in {"rules", "episodes", "nested"}
  /\ answer \in [Rules -> Versions] /\ guide \in [Series -> SUBSET Versions]
  /\ changed \in BOOLEAN /\ expiring \in Rules /\ lost \in 0..MaxLost
  /\ upc \in [Users -> UserSteps] /\ rule \in [Users -> Rules]
  /\ reply \in [Users -> Versions]
  /\ trigger \in BOOLEAN /\ skipped \in BOOLEAN /\ kpc \in {"idle", "episodes"}
  /\ shownRules \in [Rules -> Versions] /\ shownEpisodes \in [Series -> SUBSET Versions]
  /\ writer \in Users \cup {Worker, Nobody}
  /\ writer = Worker <=> wpc = "download"
  /\ \A u \in Users : writer = u <=> upc[u] \in {"store", "download"}

Quiet == wpc = "idle" /\ (\A u \in Users : upc[u] = "idle") /\ kpc = "idle" /\ ~trigger

\* Kodi shows the tables: when no task and no call is under way and Kodi has read what
\* it was told to read, what it shows is what the tables hold, unless a task threw
\* after its discovery had been committed.  Every path of the tasks, of AddTimer, of
\* UpdateTimer and of DeleteTimer that changes a table ends in TriggerTimerUpdate,
\* after the change, failed rediscoveries and failed nested tasks included.
KodiIsTold == Quiet /\ ~skipped => shownRules = rules /\ shownEpisodes = episodes

\* The same without the exception: "Changes to the recording rules affects the episode
\* information and PVR timers" (src/src/addon.cpp:1572).
ChangesAreAnnounced == Quiet => shownRules = rules /\ shownEpisodes = episodes

Mirrored == rules = Present /\ \A s \in Series : episodes[s] = EpisodesOf(s)

\* Once the edits stop, the tables come to mirror the service and stay so, whatever
\* stale answers were merged, calls failed and downloads were lost on the way; and
\* Kodi comes to show them, unless a task threw after its discovery had been committed.
Converges ==
  <>[](Mirrored /\ (skipped \/ (shownRules = rules /\ shownEpisodes = episodes)))
=============================================================================
