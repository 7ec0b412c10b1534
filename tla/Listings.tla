-------------------------------- MODULE Listings --------------------------------
(***************************************************************************)
(* The program guide: a service publishes a document of channels and       *)
(* programmes, the tables guide and listing mirror it, and Kodi's EPG is   *)
(* told of the rows (src/src/addon.cpp, update_listings_task and           *)
(* push_listings_task).  The scheduler's worker downloads the document     *)
(* with XmlStream while it holds the write lock, and replaces both tables  *)
(* in one transaction; Kodi's threads read them, change how far the EPG    *)
(* reaches, ask for a discovery and put the system to sleep.               *)
(*                                                                         *)
(* A task takes no time, but anything may happen between its steps.  The   *)
(* lineup, and so the channels that are asked for, does not change.  Reads *)
(* of the database do not fail, and the update of the channels that the    *)
(* task triggers in Kodi is left out.                                      *)
(***************************************************************************)
EXTENDS XmlStream, FiniteSets

CONSTANTS
  Docs,        \* the documents the service publishes, one after the other
  Lineup,      \* the channel numbers of the lineup
  Viewed,      \* the channels whose guide Kodi asks for
  ForceAge,    \* 18 hours: older listings are discovered whatever the reason to look
  Period,      \* 24 hours, the time between two discoveries
  Jitter,      \* 2 hours, by which that time varies
  Days,        \* the values Kodi's setting may have, -1 meaning unlimited
  FirstDays,   \* the value it has at first
  Month,       \* 31 days, for unlimited
  Pages,       \* the server may answer with an error whose body is well-formed XML
  MaxClock,    \* bound on time
  MaxEdits,    \* bound on the publications, settings, requests and sleeps
  MaxLost      \* bound on the requests and the statements that fail

ASSUME ListingsAssumption ==
  /\ Len(Docs) \in Nat \ {0} /\ \A d \in 1..Len(Docs) : Len(Docs[d]) \in Nat
  /\ Days \subseteq {-1} \cup Nat /\ FirstDays \in Days /\ Month \in Nat
  /\ {Period, Jitter} \subseteq Nat /\ Jitter < Period
  /\ Pages \in BOOLEAN /\ {MaxClock, MaxEdits, MaxLost} \subseteq Nat
  /\ ForceAge \in 1..MaxClock

VARIABLES
  clock,       \* the system's time
  published,   \* the document the service has
  authorized,  \* a tuner of the table device is authorized to download it
  edits, lost, \* what was used of the bounds
  discovered,  \* when set_discovered was called last
  table,       \* tables guide and listing
  job,         \* the queued update: when it is due, and its arguments
  pushdue,     \* the push task is queued
  asleep,      \* the scheduler is stopped, or is being stopped: tasks are cancelled
  pc,          \* where the worker is
  answer,      \* what the server is sending: a document, an empty page or garbage
  next,        \* nextdiscovery, when the update is to run again
  left,        \* the rows that push_listings still has to push
  maxdays,     \* m_epgmaxtime
  epg,         \* the entries of Kodi's EPG
  pushed,      \* history: when the rows were pushed last
  missed,      \* history: rows were not pushed: the task failed or was cancelled
  failing,     \* history: the last discovery failed
  owed         \* history: a discovery was asked for and none has begun since

worldVars == <<published, authorized, edits>>
taskVars == <<pc, answer, next, left>>
queueVars == <<job, pushdue, asleep, owed>>
kodiVars == <<maxdays, epg, pushed, missed>>
dataVars == <<discovered, table, failing>>
vars == <<streamVars, clock, worldVars, lost, taskVars, queueVars, kodiVars, dataVars>>

NoJob == [due |-> 0, force |-> FALSE, check |-> FALSE, queued |-> FALSE]

Job(t, f, c) == [due |-> t, force |-> f, check |-> c, queued |-> TRUE]

Empty == 0

Garbage == -1

\* xmltv_next: the elements among the first n bytes of the document d, each one byte.
Elements(d, n, kind) ==
  {e \in {Docs[d][k] : k \in 1..(IF n < Len(Docs[d]) THEN n ELSE Len(Docs[d]))} :
     e.kind = kind}

\* The callback for a channel: its identifier and its number, which is its <lcn>.
GuideRow(e) == [id |-> e.id, number |-> e.lcn]

\* xmltv_column and the conversions of the insert statement.
ListingRow(e) == [channel |-> e.id, end |-> e.stop, title |-> e.titled]

RowsOf(d, n) ==
  [guide   |-> {GuideRow(e) : e \in Elements(d, n, "channel")},
   listing |-> {ListingRow(e) : e \in Elements(d, n, "programme")}]

NoRows == [guide |-> {}, listing |-> {}]

Table(d) == IF d = Empty THEN NoRows ELSE RowsOf(d, Len(Docs[d]))

\* The body ends with the closing tag.
LengthOf(a) == IF a > 0 THEN Len(Docs[a]) + 1 ELSE 1

Horizon(t, days) == t + IF days < 0 THEN Month ELSE days

\* The rows that are joined with a channel of the guide that the lineup has too, each
\* with its number; those without a title are not told to Kodi.
Shown(tab) ==
  {[number |-> x[1].number, end |-> x[2].end] : x \in
     {y \in tab.guide \X tab.listing :
        y[1].id = y[2].channel /\ y[1].number \in Lineup /\ y[2].title}}

\* The two forms of enumerate_listings: all rows within the reach, and those of a
\* channel that lie in a period, here from now on.
Window(tab, t, days) == {e \in Shown(tab) : e.end < Horizon(t, days)}

Within(tab, channel, until) == {e \in Shown(tab) : e.number = channel /\ e.end <= until}

has_missing_guide_channels == ~(Lineup \subseteq {g.number : g \in table.guide})

\* The addon has just started, with the tables of an earlier run.
Init ==
  /\ Closed
  /\ clock = ForceAge /\ published = 1 /\ authorized = TRUE /\ edits = 0 /\ lost = 0
  /\ discovered \in {0, ForceAge - 1} /\ table = Table(1)
  /\ job = Job(clock, FALSE, TRUE) /\ pushdue = FALSE /\ asleep = FALSE /\ owed = FALSE
  /\ pc = "idle" /\ answer = Empty /\ next = 0 /\ left = {}
  /\ maxdays = FirstDays /\ epg = {} /\ pushed = 0 /\ missed = TRUE /\ failing = TRUE

-----------------------------------------------------------------------------
(* The worker: update_listings_task. *)

\* Fault: the next discovery is a day from now, even when this one was skipped.
StartUpdateFromNow ==
  /\ pc = "idle" /\ ~asleep /\ job.queued /\ job.due <= clock
  /\ LET force == \/ job.force \/ discovered <= clock - ForceAge
                  \/ job.check /\ has_missing_guide_channels
     IN  /\ pc' = IF force THEN "discover" ELSE "reschedule"
         /\ \E delta \in -Jitter..Jitter : next' = clock + Period + delta
  /\ job' = NoJob /\ owed' = FALSE
  /\ UNCHANGED <<streamVars, clock, worldVars, lost, answer, left, pushdue, asleep,
                 kodiVars, dataVars>>

StartUpdate ==
  /\ pc = "idle" /\ ~asleep /\ job.queued /\ job.due <= clock
  /\ LET force == \/ job.force \/ discovered <= clock - ForceAge
                  \/ job.check /\ has_missing_guide_channels
     IN  /\ pc' = IF force THEN "discover" ELSE "reschedule"
         /\ \E delta \in -Jitter..Jitter :
              next' = (IF force THEN clock ELSE discovered) + Period + delta
  /\ job' = NoJob /\ owed' = FALSE
  /\ UNCHANGED <<streamVars, clock, worldVars, lost, answer, left, pushdue, asleep,
                 kodiVars, dataVars>>

\* A task that was cancelled before the discovery skips it.
Cancelled ==
  /\ pc = "discover" /\ asleep /\ pc' = "reschedule"
  /\ UNCHANGED <<streamVars, clock, worldVars, lost, answer, next, left, queueVars,
                 kodiVars, dataVars>>

\* Without an authorized tuner nothing is downloaded, and the rows are still pushed.
Unauthorized ==
  /\ pc = "discover" /\ ~authorized /\ pc' = "stamp"
  /\ UNCHANGED <<streamVars, clock, worldVars, lost, answer, next, left, queueVars,
                 kodiVars, dataVars>>

\* The transaction begins, the tables are emptied in it and the download is begun.
BeginDownload ==
  /\ pc = "discover" /\ authorized /\ pc' = "download"
  /\ \/ /\ answer' = published /\ Construct(LengthOf(published), TRUE)
        /\ UNCHANGED lost
     \/ /\ lost < MaxLost /\ lost' = lost + 1
        /\ answer' \in {Garbage} \cup IF Pages THEN {Empty} ELSE {}
        /\ \E n \in {0, 1}, ok \in BOOLEAN :
             /\ answer' = Empty => n = 1 /\ ~ok
             /\ Construct(n, ok)
  /\ UNCHANGED <<clock, worldVars, next, left, queueVars, kodiVars, dataVars>>

Download ==
  /\ pc = "download" /\ StreamNext
  /\ UNCHANGED <<clock, worldVars, lost, taskVars, queueVars, kodiVars, dataVars>>

\* The rollback leaves the tables as they were.
Failed == pc' = "reschedule" /\ failing' = TRUE /\ Close /\ answer' = Empty

\* The parser meets an error: the stream threw, the document ends too early, or is
\* none.
ParserFails ==
  /\ pc = "download"
  /\ \/ at = "throw"
     \/ at = "end" /\ Len(read) < length
     \/ at = "idle" /\ answer = Garbage /\ Len(read) > 0
  /\ Failed
  /\ UNCHANGED <<clock, worldVars, lost, next, left, queueVars, kodiVars, discovered, table>>

\* The write lock is not had within the busy timeout.
BeginFails ==
  /\ pc = "discover" /\ authorized /\ lost < MaxLost /\ lost' = lost + 1 /\ Failed
  /\ UNCHANGED <<clock, worldVars, next, left, queueVars, kodiVars, discovered, table>>

\* Fault: the end of the data is taken for the end of the document.
CommitAnyEnd ==
  /\ pc = "download" /\ at = "end" /\ answer # Garbage
  /\ table' = IF answer = Empty THEN NoRows ELSE RowsOf(answer, Len(read))
  /\ pc' = "stamp" /\ Close /\ answer' = Empty
  /\ UNCHANGED <<clock, worldVars, lost, next, left, queueVars, kodiVars, discovered, failing>>

\* The document was read to its end: its rows are committed.
Commit ==
  /\ pc = "download" /\ at = "end" /\ answer # Garbage /\ Len(read) = length
  /\ table' = IF answer = Empty THEN NoRows ELSE RowsOf(answer, Len(read))
  /\ pc' = "stamp" /\ Close /\ answer' = Empty
  /\ UNCHANGED <<clock, worldVars, lost, next, left, queueVars, kodiVars, discovered, failing>>

\* set_discovered, which may throw: then the rows are not pushed.
Stamp ==
  /\ pc = "stamp"
  /\ \/ pc' = "push" /\ discovered' = clock /\ failing' = FALSE /\ UNCHANGED <<lost, missed>>
     \/ /\ lost < MaxLost /\ lost' = lost + 1
        /\ pc' = "reschedule" /\ failing' = TRUE /\ missed' = TRUE /\ UNCHANGED discovered
  /\ UNCHANGED <<streamVars, clock, worldVars, answer, next, left, queueVars, maxdays, epg,
                 pushed, table>>

AfterPush == IF pc \in {"push", "pushing"} THEN "reschedule" ELSE "idle"

\* push_listings reads the rows with the reach that the EPG has now.
BeginPush ==
  /\ pc \in {"push", "pushtask"} /\ ~asleep
  /\ left' = Window(table, clock, maxdays) /\ pushed' = clock
  /\ pc' = IF pc = "push" THEN "pushing" ELSE "pushingtask"
  /\ missed' = FALSE
  /\ UNCHANGED <<streamVars, clock, worldVars, lost, answer, next, queueVars, maxdays, epg,
                 dataVars>>

\* Kodi is told of one row.
Push ==
  /\ pc \in {"pushing", "pushingtask"} /\ ~asleep
  /\ \E e \in left : epg' = epg \cup {e} /\ left' = left \ {e}
  /\ UNCHANGED <<streamVars, clock, worldVars, lost, pc, answer, next, queueVars, maxdays,
                 pushed, missed, dataVars>>

\* The push ends, or it was cancelled.
EndPush ==
  /\ \/ pc \in {"pushing", "pushingtask"} /\ left = {} /\ UNCHANGED missed
     \/ pc \in {"push", "pushtask", "pushing", "pushingtask"} /\ asleep /\ missed' = TRUE
  /\ left' = {} /\ pc' = AfterPush
  /\ UNCHANGED <<streamVars, clock, worldVars, lost, answer, next, queueVars, maxdays, epg,
                 pushed, dataVars>>

\* The task schedules itself, in the place of an update that was queued meanwhile.
Reschedule ==
  /\ pc = "reschedule" /\ pc' = "idle"
  /\ job' = IF asleep THEN job ELSE Job(next, FALSE, FALSE)
  /\ UNCHANGED <<streamVars, clock, worldVars, lost, answer, next, left, pushdue, asleep, owed,
                 kodiVars, dataVars>>

\* push_listings_task; the update of the timers that it triggers changes nothing here.
StartPush ==
  /\ pc = "idle" /\ ~asleep /\ pushdue
  /\ pushdue' = FALSE /\ pc' = "pushtask"
  /\ UNCHANGED <<streamVars, clock, worldVars, lost, answer, next, left, job, asleep, owed,
                 kodiVars, dataVars>>

-----------------------------------------------------------------------------
(* Time, the service, Kodi and the other tasks. *)

\* The worker is never late.
Tick ==
  /\ clock < MaxClock /\ pc = "idle"
  /\ asleep \/ (~pushdue /\ (job.queued => job.due > clock))
  /\ clock' = clock + 1
  /\ UNCHANGED <<streamVars, worldVars, lost, taskVars, queueVars, kodiVars, dataVars>>

Edit == edits < MaxEdits /\ edits' = edits + 1

Publish ==
  /\ Edit /\ published < Len(Docs) /\ published' = published + 1
  /\ UNCHANGED <<streamVars, clock, authorized, lost, taskVars, queueVars, kodiVars, dataVars>>

Authorize ==
  /\ Edit /\ pc = "idle" /\ authorized' = ~authorized
  /\ UNCHANGED <<streamVars, clock, published, lost, taskVars, queueVars, kodiVars, dataVars>>

\* Fault: no push is queued while one is running.
SetEPGMaxFutureDaysOnce(days) ==
  /\ Edit /\ days # maxdays /\ maxdays' = days
  /\ IF pc \in {"pushing", "pushingtask"} THEN UNCHANGED pushdue ELSE pushdue' = TRUE
  /\ UNCHANGED <<streamVars, clock, published, authorized, lost, taskVars, job, asleep, owed,
                 epg, pushed, missed, dataVars>>

\* SetEPGMaxFutureDays queues a push of the rows, five seconds later.
SetEPGMaxFutureDays(days) ==
  /\ Edit /\ days # maxdays /\ maxdays' = days
  /\ pushdue' = TRUE
  /\ UNCHANGED <<streamVars, clock, published, authorized, lost, taskVars, job, asleep, owed,
                 epg, pushed, missed, dataVars>>

\* The menu's "Trigger guide listing discovery", on a thread of Kodi.
Request ==
  /\ Edit /\ job' = Job(clock, TRUE, TRUE) /\ owed' = ~asleep
  /\ UNCHANGED <<streamVars, clock, published, authorized, lost, taskVars, pushdue, asleep,
                 kodiVars, dataVars>>

\* Another task queues an update that looks for missing channels: the one of the
\* lineups, or the one that follows a change of the network's address.
Recheck ==
  /\ Edit /\ pc = "idle" /\ ~asleep /\ job' = Job(clock, FALSE, TRUE)
  /\ UNCHANGED <<streamVars, clock, published, authorized, lost, taskVars, pushdue, asleep,
                 owed, kodiVars, dataVars>>

OnSystemSleep ==
  /\ Edit /\ ~asleep
  /\ asleep' = TRUE /\ job' = NoJob /\ pushdue' = FALSE /\ owed' = FALSE
  /\ missed' = (missed \/ pushdue)
  /\ UNCHANGED <<streamVars, clock, published, authorized, lost, taskVars, maxdays, epg, pushed,
                 dataVars>>

\* The scheduler was stopped first: no task is running.
OnSystemWake ==
  /\ asleep /\ pc = "idle"
  /\ asleep' = FALSE /\ job' = Job(clock, FALSE, TRUE) /\ pushdue' = FALSE
  /\ missed' = (missed \/ pushdue)
  /\ UNCHANGED <<streamVars, clock, worldVars, lost, taskVars, owed, maxdays, epg, pushed,
                 dataVars>>

\* GetEPGForChannel, on a thread of Kodi, for some time from now on: only programmes
\* that lie in it are found.
GetEPGForChannel(channel) ==
  /\ \E until \in Days \ {-1} :
       epg' = epg \cup Within(table, channel, clock + until)
  /\ UNCHANGED <<streamVars, clock, worldVars, lost, taskVars, queueVars, maxdays, pushed,
                 missed, dataVars>>

-----------------------------------------------------------------------------

WorkerNext ==
  \/ StartUpdate \/ Cancelled \/ Unauthorized \/ BeginDownload \/ BeginFails
  \/ Download \/ ParserFails \/ Commit \/ Stamp
  \/ BeginPush \/ Push \/ EndPush \/ Reschedule \/ StartPush

\* A call of the stream depends on nothing that the other threads do, nor they on it:
\* their steps come between its calls.
OtherNext ==
  /\ at \in {"closed", "idle"}
  /\ \/ Tick \/ Publish \/ Authorize \/ Request \/ Recheck
     \/ \E days \in Days : SetEPGMaxFutureDays(days)
     \/ OnSystemSleep \/ OnSystemWake
     \/ \E channel \in Viewed : GetEPGForChannel(channel)

Next == WorkerNext \/ OtherNext

Spec == Init /\ [][Next]_vars

-----------------------------------------------------------------------------
(* Properties. *)

TypeOK ==
  /\ StreamTypeOK
  /\ clock \in 0..MaxClock /\ discovered \in 0..clock /\ pushed \in 0..clock
  /\ published \in 1..Len(Docs) /\ edits \in 0..MaxEdits /\ lost \in 0..MaxLost
  /\ {authorized, pushdue, asleep, missed, failing, owed} \subseteq BOOLEAN
  /\ job \in [due : Nat, force : BOOLEAN, check : BOOLEAN, queued : BOOLEAN]
  /\ pc \in {"idle", "discover", "download", "stamp", "push", "pushing", "pushtask",
             "pushingtask", "reschedule"}
  /\ answer \in {Empty, Garbage} \cup 1..Len(Docs) /\ next \in Nat /\ maxdays \in Days
  /\ left \subseteq Shown(table)
  /\ (pc = "download") <=> (at # "closed")

\* The tables hold all the rows of one document that the service had, whatever happens to
\* the downloads: one that is cut short, or whose end comes without an error, leaves
\* them as they were, although they are emptied before it begins.
WholeDocument == \E d \in 1..published : table = Table(d)

\* Once nothing is queued to be pushed, Kodi's EPG has every row that the reach it was
\* last given takes in, unless the last push failed or was cancelled.  The reach may
\* change while the rows are pushed.
EpgComplete ==
  pc = "idle" /\ ~pushdue /\ ~missed => Window(table, pushed, maxdays) \subseteq epg

\* While the system is awake and the discoveries succeed, the listings are never older
\* than a day and the jitter, and an update is always queued: skipping a discovery
\* because the data is recent does not put off the next one.
Fresh ==
  pc = "idle" /\ ~asleep /\ ~failing =>
    /\ job.queued
    /\ job.due > clock => job.due <= discovered + Period + Jitter

\* A discovery that was asked for with "Trigger guide listing discovery"
\* (pvr.hdhomerundvr/changelog.txt:186) stays queued until it begins.
RequestIsServed == owed => job.queued /\ job.force
=============================================================================
