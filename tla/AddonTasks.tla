------------------------------ MODULE AddonTasks ------------------------------
(***************************************************************************)
(* The addon's background work (src/src/addon.cpp): the one-time startup   *)
(* discovery, the update tasks that reschedule themselves and run one      *)
(* another with now(), the calls from Kodi's threads that schedule, pause, *)
(* stop and restart them, and the discovery flags the callbacks wait for.  *)
(*                                                                         *)
(* The scheduler is the task board of module TaskBoard: one task runs at a *)
(* time, a named task is pending at most once.  Of a due time only what    *)
(* matters here is kept: it is a place in a batch of tasks scheduled a     *)
(* millisecond apart, it is now, or it comes later; tasks that are not in  *)
(* one batch may come due, and be taken, in any order.  start_discovery    *)
(* adds its tasks one by one, each under the lock of the queue: the worker *)
(* and the clear() of another call come between any two of them.  The      *)
(* batches of OnSystemWake and of the proxy task are added in one step:    *)
(* no task runs meanwhile, nothing clears the queue, and a single task     *)
(* that another thread adds in between is either replaced, as if it had    *)
(* come before, or stays, as if it had come after.  Only start_discovery   *)
(* adds several: when an update of its own and, before that, an initial    *)
(* discovery come between the clear of a wake and the wake's add of this   *)
(* update, the one of the wake stays in the code, and here the one of the  *)
(* startup does.  The update is pending either way.  The tasks that wait   *)
(* for the network, read the mapping file and show startup alerts change   *)
(* nothing that is modelled and are left out.                              *)
(***************************************************************************)
EXTENDS Naturals, FiniteSets

CONSTANTS
  Data,       \* the kinds of data: the addon's six, or fewer in a smaller instance
  Requested,  \* the data whose update Kodi's threads ask for, due at once
  Postponed,  \* the data whose update Kodi's threads reschedule for later
  PowerCalls, \* the calls made of OnSystemSleep, OnSystemWake and Destroy
  MayStream,  \* streams are opened and closed
  MayProxy,   \* the proxy settings are changed
  DbMayFail   \* the database may fail outside of a task's own try block

\* With a kind of data come those whose update a change of it runs or schedules.
ASSUME AddonTasksAssumption ==
  /\ Data \subseteq {"devices", "lineups", "recordings", "rules", "episodes", "listings"}
  /\ {"recordings", "listings"} \subseteq Data
  /\ "devices" \in Data => "lineups" \in Data
  /\ "rules" \in Data => "episodes" \in Data
  /\ Requested \subseteq Data \ {"episodes"}
  /\ Postponed \subseteq Data \ {"listings"}
  /\ PowerCalls \subseteq {"sleep", "wake", "destroy"}
  /\ {MayStream, MayProxy, DbMayFail} \subseteq BOOLEAN

Update(d) == <<"update", d>>

Initial(d) == <<"initial", d>>

\* Two tasks without a name set m_startup_complete: the startup's and the proxy's.
Complete == <<"startup", "complete">>

Rediscovered == <<"proxy", "complete">>

Completes == {Complete, Rediscovered}

Proxy == <<"proxy", "changed">>

Updates == {Update(d) : d \in Data}

Initials == {Initial(d) : d \in Data \ {"listings"}}

Tasks == Updates \cup Initials \cup Completes \cup {Proxy}

\* Fault: the tasks of a batch are all due at the same time.
OffsetTied == [t \in Tasks |-> 0]

\* The millisecond offsets of the tasks of a batch, which are the same in all of them.
Offset ==
  [t \in Tasks |->
    LET rank == [devices |-> 1, lineups |-> 2, recordings |-> 3, rules |-> 4,
                 episodes |-> 5, listings |-> 6]
    IN  IF t \in Initials THEN rank[t[2]]
        ELSE IF t \in Updates THEN 6 + rank[t[2]]
        ELSE 13]

\* The tasks that start_discovery adds to run as soon as possible, in one batch; the
\* other updates it adds to run at their intervals.
StartupBatch == Initials \cup {Update("listings"), Complete}

\* The order in which it adds them.
Place ==
  [t \in Tasks |->
    LET rank == [devices |-> 1, lineups |-> 2, rules |-> 3, episodes |-> 4, recordings |-> 5]
    IN  IF t \in Updates \ StartupBatch THEN 13 + rank[t[2]] ELSE Offset[t]]

Batches == {"startup", "wake", "proxy"}

Steps == {"idle", "discover", "lineups", "inLineups", "recordings", "inRecordings",
          "episodes", "inEpisodes", "listings", "finish"}

VARIABLES
  pending,     \* per task: not pending, in which batch, due at once, or due later
  adding,      \* the tasks that start_discovery has still to add
  forced,      \* the force flag of the pending listings update
  step,        \* where each task is; "in..." waits for the task it runs with now()
  discovered,  \* the data whose m_discovered_ flag is set
  started,     \* m_discovery_started has been used
  complete,    \* m_startup_complete
  power,       \* the system is awake, asleep, or the addon has been destroyed
  stopping,    \* the call that is inside m_scheduler.stop()
  woken,       \* OnSystemWake has run
  stream,      \* m_pvrstream is set
  paused,      \* the scheduler is paused
  player,      \* where Kodi's player thread is in a stream call
  cut          \* history: the queue was cleared after start_discovery had begun to add
               \* the initial discoveries, and before it added their completion

vars == <<pending, adding, forced, step, discovered, started, complete, power, stopping,
          woken, stream, paused, player, cut>>

taskVars == <<pending, adding, forced, step, cut>>
flagVars == <<discovered, started, complete>>
powerVars == <<power, stopping, woken>>
streamVars == <<stream, paused, player>>

Init ==
  /\ pending = [t \in Tasks |-> "none"]
  /\ adding = {}
  /\ forced = FALSE
  /\ cut = FALSE
  /\ step = [t \in Tasks |-> "idle"]
  /\ discovered = {}
  /\ started = FALSE
  /\ complete = FALSE
  /\ power = "awake"
  /\ stopping = "no"
  /\ woken = FALSE
  /\ stream = FALSE
  /\ paused = FALSE
  /\ player = "idle"

-----------------------------------------------------------------------------
(***************************************************************************)
(* The worker thread takes a task.                                         *)
(***************************************************************************)

\* What the condition variable passed to every task says.
Cancelled == stopping # "no"

Idle == \A t \in Tasks : step[t] = "idle"

\* The queue p after the updates were added to it in one batch.
WithBatch(p, batch) == [t \in Tasks |-> IF t \in Updates THEN batch ELSE p[t]]

\* scheduler::clear().
Clear ==
  /\ forced' = FALSE
  /\ cut' = (cut \/ (Complete \in adding /\ ~(Initials \subseteq adding)))

\* Task t is the next to run: it is due, its time has come by now, or it is the
\* next of its batch.
Takes(t) ==
  /\ power = "awake" /\ ~Cancelled /\ ~paused /\ Idle
  /\ \/ pending[t] \in {"now", "later"}
     \/ /\ pending[t] \in Batches
        /\ \A u \in Tasks : pending[u] = pending[t] => Offset[t] <= Offset[u]

Begin(t) ==
  /\ Takes(t)
  /\ t \notin Completes \cup {Proxy, Update("listings")}
  /\ pending' = [pending EXCEPT ![t] = "none"]
  /\ step' = [step EXCEPT ![t] = "discover"]
  /\ UNCHANGED <<adding, cut, forced, flagVars, powerVars, streamVars>>

\* update_listings_task decides first whether to discover: if forced, or as
\* the age of the listings and the channels without any have it.
BeginListings ==
  /\ Takes(Update("listings"))
  /\ pending' = [pending EXCEPT ![Update("listings")] = "none"]
  /\ \E s \in {"discover", "finish"} :
       /\ forced => s = "discover"
       /\ step' = [step EXCEPT ![Update("listings")] = s]
  /\ forced' = FALSE
  /\ UNCHANGED <<adding, cut, flagVars, powerVars, streamVars>>

\* It gets no database connection, or cannot query the missing channels; the
\* exception ends up in the worker's handler.
ListingsThrows ==
  /\ DbMayFail
  /\ Takes(Update("listings"))
  /\ pending' = [pending EXCEPT ![Update("listings")] = "none"]
  /\ forced' = FALSE
  /\ UNCHANGED <<adding, cut, step, flagVars, powerVars, streamVars>>

RunComplete(t) ==
  /\ Takes(t)
  /\ pending' = [pending EXCEPT ![t] = "none"]
  /\ complete' = TRUE
  /\ UNCHANGED <<adding, cut, forced, step, discovered, started, powerVars, streamVars>>

\* The proxy is switched on, off or over to another, and everything that can
\* be discovered through it is discovered anew.  (A second change while the
\* first rediscovery has not ended has the two end as one.)
RunProxy ==
  /\ Takes(Proxy)
  /\ complete' = FALSE
  /\ pending' = [WithBatch(pending, "proxy") EXCEPT ![Proxy] = "none",
                                                   ![Rediscovered] = "proxy"]
  /\ forced' = FALSE
  /\ UNCHANGED <<adding, cut, step, discovered, started, powerVars, streamVars>>

\* No proxy was or is to be used, or it cannot be set.
RunProxyInVain ==
  /\ Takes(Proxy)
  /\ pending' = [pending EXCEPT ![Proxy] = "none"]
  /\ UNCHANGED <<adding, cut, forced, step, flagVars, powerVars, streamVars>>

-----------------------------------------------------------------------------
(***************************************************************************)
(* The update tasks.                                                       *)
(***************************************************************************)

\* What a change of the data discovered by t leads to.
FollowUp(t) ==
  CASE t = Update("devices") -> "lineups"
    [] t = Update("lineups") -> "listings"
    [] t = Update("rules")   -> "episodes"
    [] OTHER                 -> "finish"

\* Fault: the startup discoveries end as the updates do.
DiscoverFinishing(t) ==
  /\ step[t] = "discover"
  /\ \E changed \in BOOLEAN :
       IF Cancelled
         THEN /\ step' = [step EXCEPT ![t] = "finish"]
              /\ UNCHANGED discovered
         ELSE /\ step' = [step EXCEPT ![t] = IF changed THEN FollowUp(t) ELSE "finish"]
              /\ discovered' = discovered \cup {t[2]}
  /\ UNCHANGED <<pending, adding, cut, forced, started, complete, powerVars, streamVars>>

\* Fault: only the startup discoveries set the flags.
DiscoverUnflagged(t) ==
  /\ step[t] = "discover"
  /\ \E changed \in BOOLEAN :
       IF Cancelled /\ t \in Updates
         THEN /\ step' = [step EXCEPT ![t] = "finish"]
              /\ UNCHANGED discovered
         ELSE /\ step' = [step EXCEPT ![t] = IF t \in Initials THEN "idle"
                                             ELSE IF changed THEN FollowUp(t)
                                             ELSE "finish"]
              /\ discovered' = IF t \in Initials THEN discovered \cup {t[2]} ELSE discovered
  /\ UNCHANGED <<pending, adding, cut, forced, started, complete, powerVars, streamVars>>

\* A discovery finds changes, finds none, or fails: its flag is set whatever
\* the outcome.  The startup discoveries take no notice of a cancellation.
Discover(t) ==
  /\ step[t] = "discover"
  /\ \E changed \in BOOLEAN :
       IF Cancelled /\ t \in Updates
         THEN /\ step' = [step EXCEPT ![t] = "finish"]
              /\ UNCHANGED discovered
         ELSE /\ step' = [step EXCEPT ![t] = IF t \in Initials THEN "idle"
                                             ELSE IF changed THEN FollowUp(t)
                                             ELSE "finish"]
              /\ discovered' = discovered \cup {t[2]}
  /\ UNCHANGED <<pending, adding, cut, forced, started, complete, powerVars, streamVars>>

\* Task t at step s runs the update of d with now(), and goes on to step next.
RunNow(t, s, d, waiting, next) ==
  /\ t \in Tasks
  /\ step[t] = s
  /\ IF Cancelled
       THEN /\ step' = [step EXCEPT ![t] = next]
            /\ UNCHANGED pending
       ELSE /\ step' = [step EXCEPT ![t] = waiting, ![Update(d)] = "discover"]
            /\ pending' = [pending EXCEPT ![Update(d)] = "none"]
  /\ UNCHANGED <<adding, cut, forced, flagVars, powerVars, streamVars>>

DevicesChanged ==
  \/ RunNow(Update("devices"), "lineups", "lineups", "inLineups", "recordings")
  \/ RunNow(Update("devices"), "recordings", "recordings", "inRecordings", "finish")

RulesChanged == RunNow(Update("rules"), "episodes", "episodes", "inEpisodes", "finish")

\* New channels may lack listings: update them at once, checking for that.
LineupsChanged ==
  /\ "lineups" \in Data
  /\ step[Update("lineups")] = "listings"
  /\ step' = [step EXCEPT ![Update("lineups")] = "finish"]
  /\ IF Cancelled
       THEN UNCHANGED <<pending, forced>>
       ELSE /\ pending' = [pending EXCEPT ![Update("listings")] = "now"]
            /\ forced' = FALSE
  /\ UNCHANGED <<adding, cut, flagVars, powerVars, streamVars>>

\* Where a task goes on when the one it ran with now() ends.
Resumed(s) ==
  CASE s = "inLineups" -> "recordings"
    [] s \in {"inRecordings", "inEpisodes"} -> "finish"
    [] OTHER -> s

\* Fault: a task that has run with now() is left to its caller to reschedule.
FinishNested(t) ==
  /\ step[t] = "finish"
  /\ step' = [u \in Tasks |-> IF u = t THEN "idle" ELSE Resumed(step[u])]
  /\ IF Cancelled \/ \E u \in Tasks \ {t} : step[u] # "idle"
       THEN UNCHANGED <<pending, forced>>
       ELSE /\ pending' = [pending EXCEPT ![t] = "later"]
            /\ forced' = (forced /\ t # Update("listings"))
  /\ UNCHANGED <<adding, cut, flagVars, powerVars, streamVars>>

\* A task ends by scheduling itself at its interval, unless it is cancelled.
Finish(t) ==
  /\ step[t] = "finish"
  /\ step' = [u \in Tasks |-> IF u = t THEN "idle" ELSE Resumed(step[u])]
  /\ IF Cancelled
       THEN UNCHANGED <<pending, forced>>
       ELSE /\ pending' = [pending EXCEPT ![t] = "later"]
            /\ forced' = (forced /\ t # Update("listings"))
  /\ UNCHANGED <<adding, cut, flagVars, powerVars, streamVars>>

-----------------------------------------------------------------------------
(***************************************************************************)
(* Kodi's threads, and time.                                               *)
(***************************************************************************)

\* start_discovery(), once, by the first callback that waits for data.
StartDiscovery ==
  /\ ~started
  /\ power # "gone"
  /\ started' = TRUE
  /\ adding' = StartupBatch \cup Updates
  /\ UNCHANGED <<pending, forced, cut, step, discovered, complete, powerVars, streamVars>>

\* It adds the next task, which replaces one of the same name.
AddStartup(t) ==
  /\ t \in adding
  /\ \A u \in adding : Place[t] <= Place[u]
  /\ adding' = adding \ {t}
  /\ pending' = [pending EXCEPT ![t] = IF t \in StartupBatch THEN "startup" ELSE "later"]
  /\ forced' = (forced /\ t # Update("listings"))
  /\ UNCHANGED <<cut, step, flagVars, powerVars, streamVars>>

\* A setting changed or a menu item chosen: the update is to run at once.
RequestUpdate(d) ==
  /\ power # "gone"
  /\ d \in Requested
  /\ pending' = [pending EXCEPT ![Update(d)] = "now"]
  /\ forced' = (forced \/ d = "listings")
  /\ UNCHANGED <<adding, cut, step, flagVars, powerVars, streamVars>>

\* A new interval, or a timer added: the update is to run some time from now.
PostponeUpdate(d) ==
  /\ power # "gone"
  /\ d \in Postponed
  /\ pending' = [pending EXCEPT ![Update(d)] = "later"]
  /\ UNCHANGED <<adding, cut, forced, step, flagVars, powerVars, streamVars>>

ChangeProxy ==
  /\ power # "gone"
  /\ MayProxy
  /\ pending' = [pending EXCEPT ![Proxy] = "later"]
  /\ UNCHANGED <<adding, cut, forced, step, flagVars, powerVars, streamVars>>

\* OnSystemSleep, OnSystemWake and Destroy signal the worker to stop.
StopScheduler(call) ==
  /\ stopping = "no"
  /\ power = "awake" \/ (power = "asleep" /\ call = "wake")
  /\ stopping' = call
  /\ stream' = (stream /\ call # "destroy")
  /\ call = "destroy" => player = "idle"
  /\ UNCHANGED <<taskVars, flagVars, power, woken, paused, player>>

\* The running task has ended; the queue is cleared.
Sleep ==
  /\ stopping = "sleep"
  /\ Idle
  /\ Clear
  /\ pending' = [t \in Tasks |-> "none"]
  /\ power' = "asleep"
  /\ stopping' = "no"
  /\ UNCHANGED <<adding, step, flagVars, woken, streamVars>>

\* The scheduler starts again with the updates.
Wake ==
  /\ stopping = "wake"
  /\ Idle
  /\ Clear
  /\ pending' = WithBatch([t \in Tasks |-> "none"], "wake")
  /\ power' = "awake"
  /\ stopping' = "no"
  /\ woken' = TRUE
  /\ UNCHANGED <<adding, step, flagVars, streamVars>>

Destroy ==
  /\ stopping = "destroy"
  /\ Idle
  /\ Clear
  /\ pending' = [t \in Tasks |-> "none"]
  /\ power' = "gone"
  /\ stopping' = "no"
  /\ UNCHANGED <<adding, step, flagVars, woken, streamVars>>

-----------------------------------------------------------------------------
(***************************************************************************)
(* Streams: Kodi opens one at a time and closes it before the next.        *)
(***************************************************************************)

\* The setting pause_discovery_while_streaming is read by each call anew.
Pauses(next) ==
  /\ \E pauses \in BOOLEAN : paused' = (paused \/ pauses)
  /\ player' = next
  /\ UNCHANGED stream

\* Fault: the stream is created after the scheduler was paused, and a failure
\* to create it leaves the scheduler paused.
CreateLivePausing ==
  /\ player = "idle" /\ ~stream
  /\ paused' \in {paused, TRUE}
  /\ stream' \in BOOLEAN
  /\ player' = IF stream' THEN "live" ELSE "idle"

\* A live stream that cannot be created changes nothing.
CreateLive ==
  /\ player = "idle" /\ ~stream
  /\ stream' = TRUE
  /\ player' = "live"
  /\ UNCHANGED paused

PauseLive == player = "live" /\ Pauses("opened")

PauseRecorded == player = "idle" /\ ~stream /\ Pauses("creating")

\* The stream is there, or an exception destroys it and resumes the scheduler.
Opened ==
  /\ player \in {"opened", "creating"}
  /\ \E ok \in BOOLEAN :
       /\ stream' = ok
       /\ player' = IF ok THEN "idle" ELSE "resuming"
  /\ UNCHANGED paused

CloseStream ==
  /\ player = "idle" /\ stream
  /\ stream' = FALSE
  /\ player' = "closing"
  /\ UNCHANGED paused

ResumeScheduler ==
  /\ player \in {"resuming", "closing"}
  /\ paused' = FALSE
  /\ player' = IF player = "closing" THEN "closed" ELSE "idle"
  /\ UNCHANGED stream

PlayerStep ==
  /\ MayStream
  /\ power # "gone" /\ stopping # "destroy"
  /\ CreateLive \/ PauseLive \/ PauseRecorded \/ Opened \/ CloseStream \/ ResumeScheduler
  /\ UNCHANGED <<taskVars, flagVars, powerVars>>

\* With discover_recordings_after_playback, closing reschedules that update.
Closed ==
  /\ player = "closed"
  /\ \/ pending' = [pending EXCEPT ![Update("recordings")] = "later"]
     \/ UNCHANGED pending
  /\ player' = "idle"
  /\ UNCHANGED <<adding, cut, forced, step, flagVars, powerVars, stream, paused>>

-----------------------------------------------------------------------------
BeginUpdate(d) ==
  \/ Begin(Update(d))
  \/ d = "listings" /\ (BeginListings \/ ListingsThrows)

BeginStartup ==
  \/ \E t \in Completes : RunComplete(t)
  \/ \E t \in Initials : Begin(t)

RunningStep ==
  \/ \E t \in Tasks : Discover(t) \/ Finish(t)
  \/ DevicesChanged
  \/ RulesChanged
  \/ LineupsChanged

WorkerStep ==
  \/ \E d \in Data : BeginUpdate(d)
  \/ BeginStartup
  \/ RunProxy
  \/ RunProxyInVain
  \/ RunningStep

StoppedStep == Sleep \/ Wake \/ Destroy

PowerStep == StoppedStep \/ \E call \in PowerCalls : StopScheduler(call)

Next ==
  \/ WorkerStep
  \/ PowerStep
  \/ StartDiscovery
  \/ \E t \in Tasks : AddStartup(t)
  \/ \E d \in Data : RequestUpdate(d) \/ PostponeUpdate(d)
  \/ ChangeProxy
  \/ PlayerStep
  \/ Closed

Spec == Init /\ [][Next]_vars

(***************************************************************************)
(* A task that runs goes on and ends; a pending task comes due, and is not *)
(* passed over for ever then, the tasks due before it being finitely many  *)
(* (the callbacks do not wait for the listings: it need not hold of them); *)
(* stop() returns once the worker has; start_discovery adds all its tasks. *)
(***************************************************************************)
Fairness ==
  /\ \A d \in Data \ {"listings"} : SF_vars(BeginUpdate(d))
  /\ SF_vars(BeginStartup)
  /\ WF_vars(RunningStep)
  /\ WF_vars(StoppedStep)
  /\ WF_vars(\E t \in Tasks : AddStartup(t))

FairSpec == Spec /\ Fairness

-----------------------------------------------------------------------------
(***************************************************************************)
(* Properties.                                                             *)
(***************************************************************************)

\* Every task is pending in one way and at one step, and only the updates are
\* ever between their discovery and their end.
TypeOK ==
  /\ pending \in [Tasks -> Batches \cup {"none", "now", "later"}]
  /\ adding \subseteq StartupBatch \cup Updates
  /\ forced \in BOOLEAN /\ cut \in BOOLEAN
  /\ step \in [Tasks -> Steps]
  /\ \A t \in Initials : step[t] \in {"idle", "discover"}
  /\ \A t \in Completes \cup {Proxy} : step[t] = "idle"
  /\ discovered \subseteq Data
  /\ started \in BOOLEAN /\ complete \in BOOLEAN /\ woken \in BOOLEAN
  /\ stream \in BOOLEAN /\ paused \in BOOLEAN
  /\ power \in {"awake", "asleep", "gone"}
  /\ stopping \in {"no", "sleep", "wake", "destroy"}
  /\ player \in {"idle", "live", "opened", "creating", "resuming", "closing", "closed"}

\* The updates keep themselves going: after start_discovery has added them, or
\* the system woke up, each is pending or running, whatever ran it last, failed
\* in it, replaced it or stopped it meanwhile.
PeriodicScheduled ==
  ((started /\ adding = {}) \/ woken) /\ power = "awake" /\ stopping = "no" =>
    \A d \in Data : pending[Update(d)] # "none" \/ step[Update(d)] # "idle"

\* Discovery is paused by streams only: not one that could not be opened, nor
\* one that is closed, leaves it paused.
PausedOnlyWhileStreaming ==
  paused => \/ stream
            \/ player \in {"creating", "resuming", "closing"}
            \/ stopping = "destroy"
            \/ power = "gone"

\* m_startup_complete is set only once everything the callbacks wait for has
\* been discovered, or has at least failed to be, wherever the worker, a sleep
\* and a wake fall between the adds of the startup, unless the queue was cleared
\* after some of the discoveries were added and before the task that sets it was.
\* GetRecordingLastPlayedPosition relies on it to keep away from the database
\* until then.
StartupInOrder == complete /\ ~cut => Data \ {"listings"} \subseteq discovered

\* The same without the exception: "Schedule the startup alert and listing update tasks
\* to occur after the initial discovery tasks have completed" (src/src/addon.cpp:1264),
\* the task that completes the startup being the last of these.
CompleteIsLastTask == complete => Data \ {"listings"} \subseteq discovered

\* The scheduler is left alone from some time on.
InTheEndAwake == <>[](power = "awake" /\ stopping = "no" /\ ~paused)

\* What the callbacks wait for in wait_for_devices, wait_for_channels,
\* wait_for_recordings and wait_for_timers is discovered after they started
\* the discovery, if the scheduler is in the end neither paused nor stopped:
\* also when a sleep has wiped out the startup tasks, or discoveries fail.
WaitersReleased ==
  InTheEndAwake => (started ~> Data \ {"listings"} \subseteq discovered)

\* The startup ends: once start_discovery has added its tasks, and unless the
\* scheduler is stopped at this moment, m_startup_complete is set or the task that
\* sets it is pending.  GetRecordingLastPlayedPosition refreshes nothing without it.
StartupCompletes ==
  started /\ adding = {} /\ power = "awake" /\ stopping = "no" =>
    complete \/ pending[Complete] # "none"
=============================================================================
