# A verification project for pvr.hdhomerundvr

pvr.hdhomerundvr is a Kodi add-on that shows the live channels, the guide, the
recordings and the recording rules of HDHomeRun devices.  This directory models
the parts of it in which order, concurrency and failure matter, checks them
with TLC on small instances, and proves what matters most about them with
TLAPS for every value of the constants.

## 1. The system

All of the program is under `src/src`; there are no tests.  It is one shared
library.  Kodi calls it from several threads; it has one thread of its own.

| Component | Source | State | Operations |
|---|---|---|---|
| Task scheduler | `scheduler.*`, `scalar_condition.h` | the queue, the paused and stop flags, four locks, the worker thread | add, clear, now, pause, remove, resume, start, stop |
| Background tasks | `addon.cpp` 137-1770, 1985-2015, 4354-4418 | what is scheduled, the `m_discovered_*` flags, `m_startup_complete` | the startup discovery, the update tasks, the proxy task, sleep, wake, destroy, the waiting callbacks |
| Startup and shutdown | `addon.cpp` 1784-1974; `database.cpp` 3150-3434 | the database file and its schema | Create, open_database, Destroy |
| Connection pool | `database.cpp` 97-183, `database.h` | the connections, the idle queue | acquire, release, handles that share the pool |
| Device and lineup discovery | `addon.cpp` 294-470, 1237-1470; `database.cpp` 432-880 | tables `device` and `lineup`, the radio mappings | two update tasks and the triggers they send to Kodi |
| Guide listings | `addon.cpp` 1475-1560, 1660-1770; `database.cpp` 880-990 | tables `guide` and `listing`, Kodi's EPG | the update and the push task, GetEPGForChannel |
| Recordings | `addon.cpp` 1600-1660, 3036-3960; `database.cpp` 1040-1176, 2160-2300 | table `recording` | two discoveries, DeleteRecording, positions, reload of a series |
| Recording rules and timers | `addon.cpp` 189-218, 430-473, 1394-1424, 1560-1598, 2574-2712, 3055-3112, 4032-4153, 4827-4897; `database.cpp` 196-247, 389-403, 631-738, 990-1040, 3103-3153 | tables `recordingrule` and `episode`, mirrors of the service | two discoveries, AddTimer, UpdateTimer, DeleteTimer, GetTimers |
| Stream callbacks, tuner selection | `addon.cpp` 870-978, 2990-3012, 4429-4726 | `m_pvrstream`, the paused scheduler | open, read, seek and close a live or a recorded stream |
| Device stream | `devicestream.*` | a libhdhomerun device with a tuner lock | create, read, close |
| Radio filter | `radiofilter.*` | the program tables seen so far | read (an in-place MPEG-TS filter) |
| HTTP stream | `httpstream.*`, `align.h` | the ring buffer (head, tail, stream positions), paused/finished transfer | create, read, seek, close, libcurl's write and header callbacks |
| XML stream | `xmlstream.*` | a ring buffer with a head and a tail | create, read, libcurl's write callback |
| SQLite extension | `dbextension.cpp` | the shared cURL handles, the proxy strings | json_get, json_get_aggregate, http_request, the xmltv virtual table, channel identifiers |
| PVR callbacks, settings, menus | `addon.cpp` 2025-2940 ... | `m_settings` | the rest of Kodi's interface |
| cURL share | `curlshare.*` | one lock per kind of shared data | lock, unlock, reset |

**Interactions.**  A callback that needs data calls `start_discovery()`, which
schedules a fixed batch of tasks the first time, and waits for a flag that a
discovery sets.  The scheduler's worker runs the tasks; a task runs follow-ups
inside itself with `now()`, schedules itself again when it ends, and uses pooled
database connections, whose SQL functions perform the HTTP requests.  A task that
changed a table triggers an update in Kodi, which reads the table again.  Opening
a stream may pause the scheduler, closing it resumes it.  Kodi's power events
stop, clear, refill and start it from a thread of their own.  A stream is read, on
Kodi's player thread, by driving libcurl until its callback has filled the
stream's buffer; the guide is parsed on the worker in the same manner, in the
middle of a database transaction.

**What is hard.**  The locks between the worker, `now()` and `stop()`; tasks
that replace, run and reschedule one another by name while settings, menus and
power events do the same; sleeping in the middle of the startup; failures inside
and outside of try blocks; transactions that download with the write lock held
while callbacks change the service and then the table; flags that say what
changed and are lost with an exception; other clients racing for tuners; the
arithmetic of two ring buffers at their limits, with a writer that pauses; a
database file that any crash may leave half made.  `PROJECT.json` lists each
hazard at its line with the properties about it.

**What makes each component correct.**  The scheduler: no two tasks at once, one
entry per name, nothing runs after `stop()`, no deadlock, no lost task.  The
background tasks: every update recurs, waiting callbacks are released, startup
is in order, discovery is paused only by streams.  The database: a connection has
one user and is closed in the end; a loaded addon has a complete schema and one
client identifier; a damaged file is replaced.  The discoveries: a table is
replaced entirely or not at all, it comes to hold what the service has, and Kodi
is told exactly of what changed; what a user did is not undone.  The streams:
what is read is what was sent for that position, a full or empty buffer never
wedges the transfer, a tuner that was locked is released, a channel with a free
tuner can be opened, the filter passes the sound and nothing that is video.


## 2. The modules

| Module | Models | Rests on |
|---|---|---|
| `TaskBoard` | what the scheduler promises: the abstract specification | - |
| `Scheduler` | `scheduler.cpp`: threads, four locks, queue, worker | refines `TaskBoard` |
| `AddonTasks` | the addon's tasks and who schedules, pauses and stops them | the scheduler as `TaskBoard` describes it |
| `ConnectionPool` | what the pool promises: the second abstract specification | - |
| `Database` | Create, the database file, the pool, handles and statements, Destroy, crashes | refines `ConnectionPool`; SQLite, external |
| `ChannelMap` | channel identifiers and the radio mapping file (operators) | - |
| `Discovery` | devices, lineups and mappings, the settings and what Kodi shows | `ChannelMap`; devices and service, external |
| `Recordings` | the recordings between storage, table and Kodi | the worker's one task at a time; SQLite and devices, external |
| `RecordingRules` | the rules and timers between service, tables and Kodi | the same |
| `XmlStream` | `xmlstream.cpp` with libcurl's callback | libcurl and the server, external |
| `Listings` | the guide: download, tables, push to the EPG, requests, sleep | `XmlStream`, whose actions are its download |
| `RadioFilter` | `radiofilter.cpp` (operators on packets) | - |
| `LiveStream` | Kodi's stream: routes, tuners, device stream, filter, pause | `RadioFilter`; `HttpStream` for the transfer below |
| `SeekableStream` | what a reader of the HTTP stream is promised: the third abstract specification | - |
| `HttpStream` | `httpstream.cpp` with libcurl's callbacks | refines `SeekableStream`; libcurl and the server, external |
| `MC*` | symmetry and the constants a cfg cannot write | - |
| `*Proofs` | the theorems of the module each is named after; `AddonProofs` those of `AddonTasks` and of `Database` | the module |

In every module a definition whose comment begins with "Fault:" is a plausible
mistake in the code.  No specification uses it: it shows that the property beside
it can fail (`PROJECT.json`, "mutants").

**Scheduler.**  A thread has a control state `pc`; a call is first requested and
then performed when its lock is free, so threads that wait are visible.  A task's
body is itself a client: it may add, remove and run other tasks (`BodyRequest`).
`now()` takes the queue lock and then the task lock (`NowLockQueue`,
`NowLockTask`); the worker takes them the other way round (`WorkerLockTask`,
`WorkerRelock`).  `stop()` keeps the worker lock while it joins (`StopSignal`,
`StopJoin`).  `ImplementsBoard` is the refinement: a pending task is one in the
queue or one that was taken off it and whose body has not begun.

**AddonTasks.**  A task is a name (`UPDATE_DEVICES_TASK` is `Update("devices")`);
`pending` says how soon it is due, `step` where it is.  `Discover`, `RunNow` and
`Finish` are the body of every update task: discover, run the follow-ups with
`now()`, reschedule.  Sleep, wake and destroy each stop the scheduler first, in
two steps, since the running task goes on until it looks at the cancel flag.
start_discovery adds its tasks one by one (`StartDiscovery`, `AddStartup`), so that
the worker, and the clear of a sleep or wake, come between any two of them; the
updates of the wake and of the proxy task are added in one step, for nothing runs
or clears the queue meanwhile (the module's header says what is lost by it).  `Data`
are the kinds of data, all six or a part of them that holds their follow-ups.

**Database.**  `file` is what is durable, the rest is lost in a `Crash`.  Create
is one action per statement group (`OpenFirst`, `CreateObject` per table or index,
`DeleteClient`, `InsertClient`, `FillGenres`, `OpenMore`), so that it may fail or
the process may end between any two.  `again` is the second of the two attempts
of Create.  A handle first shares the pool and then takes a connection
(`CopyPool`, `Acquire` or `AcquireNew`), returns it and then drops its share
(`Release`, `DropPool`): between the two the addon may be destroyed.  `prepared`
are the statements that are not finalized, which would keep SQLite from closing a
connection.  `ImplementsPool` is the refinement: the pool is there from the moment
Create begins to make it, and its users are the threads that share it.  The abstract
pool lends a connection to one user at a time, lets it go with its last user, and
knows nothing of attempts, files or statements.

**Discovery.**  `online` and `lineup` are the world, `device`, `table` and
`mappings` the addon's copies.  The devices are found by broadcast or by the
service, the requests of any subset failing (`DiscoverDevices`), and merged in one
transaction (`MergeDevices`), which starts the lineups.  These re-read the mapping
file before they download (`DiscoverMappings`, `DownloadLineup`, `MergeLineups`,
`TriggerUpdates`).  `changed` are the flags by which the task knows what to tell
Kodi, `due` what Kodi was told, `job` the callbacks it makes for it, each with its
own `copy` of the settings.  The menu hook tells the tuners of a channel's
visibility one by one.  `Answer` is what each callback returns: which channels,
which are radio, which belong to which group, which rules and timers have a channel.
`KodiIsTold` is about these, but for the channels of the timers, which change with
the lineups and which nothing updates (section 5).

**Recordings.**  `state`, `ids` and `resume` are the storage, with the UpdateIDs
under which a device lists a series; `table` is the addon's.  The worker asks for
the lists before its transaction (`AskRoot`), deletes what is stale in it
(`BeginMerge`), downloads with the write lock held (`Download`) and commits.
GetRecordingLastPlayedPosition does the same for one series (`AskSeries`,
`BeginRefresh`, `CommitRefresh`).  A deletion and a position go to the storage
first (`PostDelete`, `PostPosition`) and to the table when the lock is free
(`DeleteRow`, `StorePosition`).

**RecordingRules.**  `cloud` is the service, `rules` and `episodes` the tables,
`shownRules` and `shownEpisodes` what Kodi last read.  A row is the number of the
edit that made it.  The worker asks before its transaction (`AskRules`) and merges
in it (`MergeRules`), which is one step, as nothing waits inside; a callback holds
the write lock while it waits for the service (`PostEdit` to `Store`, `Rediscover`
to `Commit`), and so does the worker in the listings and recordings discoveries
(`DownloadLocked`).  A thread that does not get the lock may throw (`WorkerBusy`,
`DeleteBusy`, `RediscoverBusy`).  The model begins after the startup discovery.
Left out: a task that is cancelled between its commit and its announcement, which
has the same effect as `WorkerBusy`; a download that fails before anything has
changed; the other triggers, which only tell Kodi more often; what the expired
rules are: any rule in `Expirable` may be; and what the query of the timers joins to
the episodes, their channel, whether they were recorded and their rule
(`database.cpp:2096-2118`).

**XmlStream and Listings.**  A byte is its place in the body, as in `HttpStream`;
here an element of the guide is one byte and the closing tag another, so a reply
that is cut off lacks elements.  `BeginDownload` opens the stream in the
transaction, `Download` is `StreamNext`, `Commit` needs the end of the document,
`ParserFails` rolls back.  `job` is the queued update with the arguments `force`
and `checkchannels`, `next` the time computed by the running one, which
`Reschedule` puts in the place of whatever was queued meanwhile.  The rows are
pushed one by one with the reach that the EPG had when the push began (`BeginPush`,
`Push`), while Kodi may change that reach and queue another push.

**RadioFilter and LiveStream.**  A packet is a PAT, a PMT or part of a stream;
`FilterChunk` applies the filter to the packets between two positions, beginning
and ending inside of packets where the stream does.  The routes of OpenLiveStream
are states of `pc` (`storage`, `tuners`, `http`, `device`), each of which falls
through to the next; libhdhomerun's lock is the `owner` of a tuner; other clients
take free tuners at any time, in particular between the release of a selected
tuner and the request that uses it.  `ReadLength` is the alignment of the two
kinds of stream.

**HttpStream.**  A byte is its place in what the server streams, so that the
contents of the ring buffer can be compared with the positions.  Calls run in
`transfer_until()` (`FirstPerformed`, `LoopPerformed`, `Resumed`); the server and
libcurl answer, deliver chunks of any size and end in any order (`Respond`,
`Receive`, `End`).  A seek stays, moves in the buffer, or restarts the transfer
and perhaps repeats it after HTTP 416 (`SeekAgain`).  `ImplementsReader` is the
refinement: the unread cells of the ring are the sequence of bytes that a reader
takes next.  The abstract stream appends what arrives, takes from the front, and moves
back to what it keeps; it has neither indexes nor pauses, and shares one flaw with the
code, that the oldest byte of a full buffer cannot be found (section 5).

## 3. What is checked

| Run | Shows | Bounds, and why they are enough |
|---|---|---|
| `scheduler` | types, `OneEntryPerName`, `MutualExclusion`, `StoppedMeansGone`, `ImplementsBoard` | two interchangeable clients that may also call `now()`, two names and unnamed tasks, three tasks, two instants: a task running, one replaced and one waiting, on three threads |
| `scheduler_live` | every call returns, queued tasks leave, no deadlock | two clients, two tasks; `now()` only inside tasks, as the addon has it |
| `addon_waiters` | types, `PeriodicScheduled`, `StartupInOrder`, `WaitersReleased` | devices, lineups, recordings and listings: every kind of follow-up but that of the rules, which is like the devices' second one; sleep and wake any number of times, at any add of the startup; failing discoveries |
| `addon_streams` | `PausedOnlyWhileStreaming` | rules, episodes, recordings and listings; every way to open, fail and close; one datum that is requested and another that settings postpone, database failures, proxy changes, destroy |
| `addon_startup_order` | violated `CompleteIsLastTask` | all six kinds of data, sleep and wake |
| `database` | `ImplementsPool`, `NothingLeaks`, `ReadyWhenLoaded`, `Loads`, no deadlock | a pool of two and three users, so that the pool grows; four faults: both attempts of Create fail, the file is damaged by a crash and cannot be deleted |
| `discovery` | `ChannelsStay`, `KodiIsTold`, `Converges` | two tuners that share a channel, a storage engine, cable, over-the-air and protected channels, two mapping files, the settings of radio channels and of the times of a timer, which between them change every list that Kodi shows; two edits and one failure: a change, and another or a failure while the task is between two steps |
| `recordings` | `KodiIsTold`, `DeletedStaysDeleted`, `PositionsAgree`, `Converges` | two devices and two series in three of the four pairs, two edits outside of the addon, two failures, one user against the worker; a series may have two UpdateIDs |
| `rules` | types, `KodiIsTold`, `Converges` | one rule that is edited three times and deleted, by a user, by another client and by its expiry; one failed download.  The merges treat rows independently of one another, and the theorem covers more rules and users |
| `listings` | `InOrder`, `EndMeansOver`, `WholeDocument`, `EpgComplete`, `Fresh` | a buffer of 4 bytes, chunks of 1 and 3: it wraps, fills and refuses; two documents of four and five bytes; hours are scaled so that an update, a skipped one and the next fit in the clock; two edits, one failure |
| `streams` | `TunersReturned`, `PausedForTheStream`, `SpareTunerIsFound`, `FilterStaysOn`, `OnlySound` | a device with two tuners and a legacy device with one, one storage engine, two edits, one failure; packets of two units, reads of four, seeks to both halves; a program that moves its video to another pid |
| `http_stream` | `ImplementsReader`, `UnreadMatches`, `EndMeansEnd`, `CallsReturn` | a buffer of 4 bytes, chunks of 2 and 3, a stream of 6: the buffer wraps, fills, pauses and refuses chunks; seeks before, in and past the stream; servers with and without ranges, with errors and 416 |

Every module of the code that has variables has a type invariant, which is
proved. It is also a property of the runs of `Scheduler`, `AddonTasks` and
`RecordingRules`; the other runs have no need to check it once more. The runs
that turn deadlock checking off are of systems that may rightly stop: all calls
allowed by a bound were made, the addon is destroyed, or the stream failed.

**Fairness.**  *Scheduler*: mutexes are granted and the clock goes on, so a
thread whose step is possible again and again makes it (SF for each thread; a
`std::mutex` promises less, every implementation in use this); task bodies
return.  Clients need not call anything.  *AddonTasks*: the running task goes on
(WF), and a pending task whose turn comes again and again is taken (SF), which is
`QueuedTaskLeaves` of the scheduler and is assumed here of all updates but the
listings', for which no callback waits; start_discovery, which waits for nothing but
the queue's lock, adds all of its tasks (WF); the power callbacks return (WF).
`WaitersReleased` assumes that the system does not go to sleep for good.
*HttpStream*: libcurl performs and the server goes on sending, ends or fails;
the loop has no timeout of its own.  *RecordingRules, Recordings, Discovery*: the
tasks reschedule themselves, so each begins again and again (SF; this includes
that a request succeeds sometimes), a task and a call that have begun go on, Kodi
reads when it was told to (WF); a transaction that may begin again and again does,
as the busy timeout retries.  Nothing forces edits.  *Database*: Create runs to its
end (WF), a thread that waits for the pool is served (SF).  *Listings* and
*LiveStream* need none: only safety is stated.

## 4. What is proved

For every value of the constants that satisfies the named `ASSUME`s:

- `SchedulerProofs`: `TypeCorrect`, `TasksExcludeEachOther`, `NamesAreUnique`,
  `StopIsFinal`, `Refinement`.  `MutualExclusion` is not inductive: it needs
  `Locks` and `Places` (which control states own which lock), `Claim` (what is
  known of the task between its removal from the queue and its start) and `Budget`
  (the bound on task numbers is kept for the threads that were promised one).
- `AddonProofs`, of `AddonTasks`: `TypeCorrect`; `UpdatesKeepGoing` assuming that the
  database does not fail outside of a try block, with `GoingInv`: an update that is
  neither pending nor running is still to be added; `StreamsResume` with `PlayerInv`;
  `StartupKeepsOrder` assuming the proxy does not change, with `StartupInv`: unless the
  queue was cut, what was not discovered yet is running, or pending before the end of
  the startup in its batch, or still to be added before it.
- `AddonProofs`, of `Database`: `DatabaseTypeCorrect`, `ConnectionsAreExclusive`,
  `ConnectionsAreClosed`, `SchemaIsComplete` and `PoolIsImplemented`, the refinement,
  for any finite set of threads.  `Lending` says that the connections that are open
  are the idle ones and the ones that are held, `Phases` at which control states a
  thread shares the pool or holds one of its connections.  That a thread that finds no
  idle connection has one left to open is an argument about cardinality
  (`ConnectionLeft`): each other thread holds one at most.  `SchemaInv` follows the
  schema through the two attempts of Create and any number of crashes.
- `HttpStreamProofs`: `TypeCorrect`, `PositionIsRead`, `EndIsEnd` and
  `ReaderIsServed`, the refinement, for all buffer, chunk and packet sizes.  `HeadInv` ties the head to the bytes written since the
  start, `TailInv` the distance of the two indexes to that of the two positions,
  `CellsInv` says which byte each cell holds, read cells included, since a seek may
  go back to them; `WaitInv` says why a paused call can go on.  For the refinement the
  unread cells are shown to be the last bytes that were written (`UnreadIs`), so that
  every step is an equation between runs of consecutive bytes (`RunGrows`,
  `RunShrinks`) and the indexes are not seen any more.
- `RecordingRulesProofs`: `TypeCorrect` with the owner of the write lock, and
  `KodiTold`.  Whenever a table differs from what Kodi shows someone is `Owed` a
  notification; `WorkerInv` says when the flag `changed` means anything.
- `RecordingsProofs`: `DeletionIsFinal`, `PositionsAreTheStorages`, `KodiTold`,
  `TypeCorrect`.
  `Types` says who holds the write lock, `Erased` that a recording whose row was
  deleted is neither served nor in the table nor in a draft (a draft that had it was
  committed or given up before, as the row is deleted under the lock), `Agree` that a
  position is the storage's unless a call is about to store it, and `Told` that rows
  which differ from Kodi's are `Owed` a trigger.
- `DiscoveryProofs`: `ChannelsRemain`, `KodiTold`, and `TypeCorrect` for a finite set of
  devices.  `Lasts` says that nobody disables the channels that do not change
  (`Steady`), and that the lineups which were downloaded have them (`Downloaded`).  `Told` says that a list that is
  out of date is `missed`, due, in Kodi's job or announced by the worker's flags;
  `CopyGood` that a callback's old copy of the settings does not matter to its list,
  or that an update which reads the list again is due; `HasTuner` and `Found` that there
  always is a tuner, as devices are stored only if there is one among them.
- `ListingsProofs`: `BytesInOrder`, `EndIsEnd`, `TablesAreADocument` (assuming that no
  error page is well-formed XML), `EpgHasTheRows`, `ListingsStayFresh`, `TypeCorrect` (with
  `StreamTypes`: what was sent and the chunk held back are within the body).  `RingOrder` is
  `InOrder` without the remainders; `RingWait` says that a call is paused only by a
  buffer that is not empty, so that a read that returns nothing has nothing to wait
  for; `Downloading` ties the length of the reply to the document that is read;
  `Complete` and `Timely` follow what is to be pushed, and the time of the next
  update, from the queue through the task and back.
- `LiveStreamProofs`: `LocksReturned`, `PausedWhileStreaming`, `SpareTunerFound`,
  `FilterIsNeverDisabled`, `SoundAndNoVideo`, `TypeCorrect`.
  `Streams` says at which steps of a call there is a stream, `Paused` at which the
  scheduler is paused, and `Spared` that until the last route has been tried a tuner
  that was never taken is free or the one selected.  The two theorems of the filter
  have hypotheses about what is broadcast, which `MCLiveStream` states as an `ASSUME`
  of its instance: `WholePackets`, that a stream ends with a packet, without which the
  filter can be disabled (section 5), and `ProperBroadcast`, that the tables of a
  program name the pids of its streams before these are sent.  They rest on
  arithmetic, that every read ends with a packet (`Division`,
  `ReadEndsAligned`, `ChunkIsAligned`), and on what the filter does with one packet,
  carried over the packets of a chunk by `SetInduction`, in the form of a least
  counterexample: the library's induction theorems take an operator, which the
  installed provers cannot instantiate.

**Only model-checked**: liveness (`CallsReturn` of both modules,
`QueuedTaskLeaves`, `WaitersReleased`, `Loads` and the three `Converges`), because
neither fairness nor ENABLED is within the prover's reach.  Every safety property
that a passing run checks is proved.

## 5. Where the code does not do what it says

`addon_startup_order` is a run that TLC refutes, quoted in `PROJECT.json`.
start_discovery adds its tasks one by one while OnSystemWake, on another thread,
stops the scheduler, clears the queue, adds the updates and starts it again.  When
the clear falls between the initial discoveries (`addon.cpp:1257-1262`) and what is
to come after them, the listings update and `startup_complete_task` (`1266-1267`) are
due before the updates of the wake: `m_startup_complete` is set although nothing was
discovered.

The following are counterexamples as well.  Each has a configuration here,
`tlc -config <cfg> <module>`, with the one property it refutes:

1. `SchedulerNowDeadlock.cfg` (`MCScheduler`, `CallsReturn`): `now()` from outside
   of a task can deadlock with the worker.  Latent: the addon calls it from tasks.
2. `AddonStartup.cfg` (`AddonTasks`, `StartupCompletes`): a sleep during the
   startup loses the task that sets `m_startup_complete`.
3. `HttpStreamOldest.cfg` (`MCHttpStream`, `PositionsAgree`): a seek to the oldest
   byte of a full buffer makes the tail equal to the head: an empty buffer.
4. `HttpStreamErrors.cfg` (`MCHttpStream`, `ErrorsReported`): an error reply with a
   body is opened and read as the stream.
5. `RecordingRulesUnannounced.cfg` (`MCRecordingRules`, `ChangesAreAnnounced`):
   when `set_discovered` throws after the commit, the change is never announced.
   The same holds of the recordings and of the devices and lineups.
6. `RecordingsReload.cfg` (`MCRecordings`, `ReloadsAreAnnounced`): the reload of a
   series changes the rows and does not tell Kodi.
7. `ListingsRequest.cfg` (`MCListings`, `RequestIsServed`): a listings update that
   the menu asks for while one runs is replaced by that one's reschedule.
8. `ListingsErrorPage.cfg` (`MCListings`, `WholeDocument`): the first perform of a
   transfer does not look at its result, so that a small error page that is
   well-formed XML empties the guide.
9. `DiscoveryRanges.cfg` (`MCDiscovery`, `MappedAsListed`): a range of over-the-air
   channels such as `4.1-4.3` in the mapping file is read with its last *channel* in
   the place of its last *subchannel* (`addon.cpp:360`), against `strings.po:556` of the
   resources: "a range of channel numbers ("4.1-4.3", "1800-1899") to be moved from TV
   to Radio in Kodi".
10. `DiscoveryTimers.cfg` (`MCDiscovery`, `TimersFollowLineups`): a rule or timer shows
   the channel that it had when Kodi last read the timers, for GetTimers takes it
   from table `lineup` (`database.cpp:1936`, `2102`; -1 if no lineup lists it) and a
   lineup update tells Kodi of channels, groups and recordings only
   (`addon.cpp:1449-1470`).  No failure is needed.

What modelling showed without a run of its own:

- *Tasks.*  A database failure before the try block of `update_listings_task` ends
  the listings updates (`DbMayFail`).  A task uses the copy of the settings it took
  when it began and reschedules itself with the old interval.
- *Recordings.*  `discover_series_recordings` does not group by device and series,
  so that a series with two UpdateIDs makes the reload fail on the primary key
  every time, while the full discovery copes (`changelog.txt:125`).  Rows of a
  device and series that are not listed together any more stay for as long as the
  device and the series are listed at all (`database.cpp:1089`; `Forgotten`).
- *Rules.*  A merge reverts an edit that was stored after its download, until the
  next discovery.
- *Lineups.*  Mappings are replaced before the lineups are downloaded: when that
  fails, the change of the mappings is never announced (`addon.cpp:1439`).  One
  tuner that does not answer ends the update of all lineups.
- *Listings.*  After a failed discovery the next attempt is a day later; a push
  that was cancelled is not resumed before the next discovery; rows that have gone
  from the service are not deleted from Kodi's EPG; a transfer has no time limit
  and holds the write lock (`xmlstream.cpp:400`).
- *Streams.*  A tuning command that fails is not retried on another free tuner.  A
  channel that any legacy device has is treated as if only legacy devices had it
  (`is_channel_legacy_only`, `database.cpp:3086`).  A stream whose end is inside of
  a packet may lead to a read that begins and ends inside of packets after a seek,
  and disables the filter (`radiofilter.cpp:299`).  So may a transfer that breaks: the
  second read (`addon.cpp:4616-4622`) then returns what is left in the buffer
  (`httpstream.cpp:433-439`).  `LiveStream` has no such read, and `FilterStaysOn` is
  about transfers that go on.  The filter's loop over a PAT
  counts sections where the entries are meant (`radiofilter.cpp:352`), and the
  length of an adaptation field is one too small (`radiofilter.cpp:333`).
  GetSignalStatus has no handler for a query that throws (`addon.cpp:3922`).
- *Database.*  Any error of SQLite in Create deletes the file, a transient one too.
  A handle that `sqlite3_open_v2` returns with an error is not closed
  (`database.cpp:3190`).  `sqlite3_shutdown` may run while a call that outlives
  Destroy still has a connection.  The proxy strings are replaced while requests on
  other threads read them (`dbextension.cpp:290`), and a proxy that cannot be
  parsed clears the one that was set.

Hazards that no property is about, beyond those: `pause()` does not stop the task
that is running, which goes on starting others with `now()` (`scheduler.cpp:197`);
an update that is requested while it runs waits for the next interval
(`addon.cpp:1381`).

## 6. What is not modelled, and the plan

Left out, with the reason:

- Names, icons, titles, artwork, genres and the fields of Kodi's types: their data
  is copied from a row to a structure, and no property tells it apart.
- The edit decision list, the signal status, the stream times and the chunk size:
  each reads one thing and returns it.
- In `dbextension.cpp`: hashes, dates, file names, URL encoding and the proxy
  strings, which are functions of strings; the cURL share, whose three mutexes
  guard libcurl's own data.
- In `HttpStream`: close and the destructor, the media type.
- The intervals of the periodic tasks other than the listings, authorization
  strings in `Discovery`.
- Vendored code (`sqlext`, `compat`) and logging.

Next: an abstract specification of a mirrored table (it holds a past answer of the
service, and who shows it is told) that `RecordingRules`, `Recordings` and `Discovery`
implement.
