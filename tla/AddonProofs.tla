----------------------------- MODULE AddonProofs -----------------------------
(***************************************************************************)
(* Proofs about the addon: its tasks (module AddonTasks), for any choice   *)
(* of what Kodi's threads call, and its database from Create to Destroy    *)
(* (module Database), for any number of users, any size of the pool and    *)
(* any number of failures.  The two are specifications of their own, which *)
(* share no variable.                                                      *)
(*                                                                         *)
(* That the updates keep themselves going, and that the startup completes  *)
(* in order, hold only without the database failures and the proxy changes *)
(* that break them: the assumptions of the theorems.                       *)
(***************************************************************************)
EXTENDS AddonTasks, Database, FiniteSetTheorems, TLAPS

\* The kinds of tasks are disjoint, and make up all tasks.
LEMMA TaskSets ==
  /\ Updates \subseteq Tasks /\ Initials \subseteq Tasks
  /\ Completes \subseteq Tasks /\ Proxy \in Tasks
  /\ Complete \in Completes /\ Rediscovered \in Completes /\ Complete # Rediscovered
  /\ \A t \in Tasks : t \in Updates \/ t \in Initials \/ t \in Completes \/ t = Proxy
  /\ \A t \in Updates : t \notin Initials /\ t \notin Completes /\ t # Proxy
  /\ \A t \in Initials : t \notin Updates /\ t \notin Completes /\ t # Proxy
  /\ \A t \in Completes : t \notin Updates /\ t \notin Initials /\ t # Proxy
  /\ Proxy \notin Updates /\ Proxy \notin Initials /\ Proxy \notin Completes
BY DEF Update, Initial, Complete, Rediscovered, Completes, Proxy, Updates, Initials, Tasks

\* The tasks of a kind are told apart by their data.
LEMMA TaskNames ==
  /\ \A d \in Data : Update(d) \in Updates
  /\ \A d \in Data \ {"listings"} : Initial(d) \in Initials
  /\ \A d, e \in Data : Update(d) = Update(e) => d = e
  /\ \A d, e \in Data : Initial(d) = Initial(e) => d = e
  /\ \A t \in Updates \cup Initials : t[2] \in Data
  /\ \A d \in Data : Update(d)[2] = d /\ Initial(d)[2] = d
BY DEF Update, Initial, Updates, Initials

\* What a change of the data of an update leads to is there, too.
LEMMA Followers ==
  /\ Update("listings") \in Updates /\ Update("recordings") \in Updates
  /\ {"recordings", "listings"} \subseteq Data
  /\ Update("devices") \in Tasks => Update("devices") \in Updates /\ "lineups" \in Data
  /\ Update("rules") \in Tasks => Update("rules") \in Updates /\ "episodes" \in Data
<1>1. \A d : Update(d) \in Tasks => d \in Data
  BY DEF Update, Initial, Complete, Rediscovered, Completes, Proxy, Updates, Initials, Tasks
<1> QED
  BY <1>1, TaskNames, AddonTasksAssumption

\* In a batch the initial discoveries come before the end of the startup, and they are
\* added before it.
LEMMA CompleteIsLast ==
  \A d \in Data \ {"listings"} : /\ ~(Offset[Complete] <= Offset[Initial(d)])
                               /\ ~(Place[Complete] <= Place[Initial(d)])
<1> SUFFICES ASSUME NEW d \in Data \ {"listings"}
             PROVE  /\ ~(Offset[Complete] <= Offset[Initial(d)])
                    /\ ~(Place[Complete] <= Place[Initial(d)])
    OBVIOUS
<1>1. Offset[Complete] = 13
  BY TaskSets DEF Offset
<1>2. Offset[Initial(d)] \in 1 .. 6
  BY TaskSets, TaskNames, AddonTasksAssumption DEF Offset
<1>3. Place[Complete] = Offset[Complete] /\ Place[Initial(d)] = Offset[Initial(d)]
  BY TaskSets, TaskNames DEF Place
<1> QED
  BY <1>1, <1>2, <1>3

LEMMA StepNames ==
  /\ {"idle", "discover", "finish"} \subseteq Steps
  /\ \A t \in Tasks : FollowUp(t) \in Steps \ {"idle"}
  /\ \A s \in Steps : Resumed(s) \in Steps /\ (Resumed(s) = "idle" <=> s = "idle")
  /\ \A s \in {"idle", "discover"} : Resumed(s) = s
BY DEF Steps, FollowUp, Resumed

LEMMA InitType == Init => TypeOK
BY TaskSets, StepNames DEF Init, TypeOK

\* Every step keeps the types.
LEMMA TypeNext == TypeOK /\ [Next]_vars => TypeOK'
<1> SUFFICES ASSUME TypeOK, [Next]_vars
             PROVE  TypeOK'
    OBVIOUS
<1> USE TaskSets, StepNames DEF TypeOK, taskVars, flagVars, powerVars, streamVars
<1>1. ASSUME NEW t \in Updates \cup Initials, Begin(t) PROVE TypeOK'
  BY <1>1 DEF Begin
<1>2. ASSUME BeginListings PROVE TypeOK'
  <2>1. Update("listings") \in Updates
    BY Followers
  <2>2. PICK s \in {"discover", "finish"} : step' = [step EXCEPT ![Update("listings")] = s]
    BY <1>2 DEF BeginListings
  <2>3. step' \in [Tasks -> Steps]
    BY <2>1, <2>2
  <2>4. \A u \in Initials \cup Completes \cup {Proxy} : step'[u] = step[u]
    BY <2>1, <2>2
  <2>5. pending' \in [Tasks -> Batches \cup {"none", "now", "later"}]
    BY <1>2, <2>1 DEF BeginListings
  <2>6. forced' \in BOOLEAN
    BY <1>2 DEF BeginListings
  <2> QED BY <1>2, <2>3, <2>4, <2>5, <2>6 DEF BeginListings
<1>3. ASSUME ListingsThrows PROVE TypeOK'
  <2>1. pending' \in [Tasks -> Batches \cup {"none", "now", "later"}]
    BY <1>3 DEF ListingsThrows
  <2>2. forced' \in BOOLEAN
    BY <1>3 DEF ListingsThrows
  <2> QED BY <1>3, <2>1, <2>2 DEF ListingsThrows
<1>4. ASSUME NEW t \in Completes, RunComplete(t) PROVE TypeOK'
  <2>1. pending' \in [Tasks -> Batches \cup {"none", "now", "later"}]
    BY <1>4 DEF RunComplete
  <2> QED BY <1>4, <2>1 DEF RunComplete
<1>5. ASSUME RunProxy PROVE TypeOK'
  <2>1. pending' \in [Tasks -> Batches \cup {"none", "now", "later"}]
    BY <1>5 DEF RunProxy, WithBatch, Batches
  <2> QED BY <1>5, <2>1 DEF RunProxy
<1>6. ASSUME RunProxyInVain PROVE TypeOK'
  <2>1. pending' \in [Tasks -> Batches \cup {"none", "now", "later"}]
    BY <1>6 DEF RunProxyInVain
  <2> QED BY <1>6, <2>1 DEF RunProxyInVain
<1>7. ASSUME NEW t \in Tasks, Discover(t) PROVE TypeOK'
  <2>1. t \in Updates \/ t \in Initials
    BY <1>7 DEF Discover
  <2>2. t[2] \in Data
    BY <2>1, TaskNames
  <2>3. step' \in [Tasks -> Steps]
    BY <1>7 DEF Discover
  <2>4. \A u \in Initials \cup Completes \cup {Proxy} : step'[u] = step[u] \/ (u = t /\ step'[u] = "idle")
    BY <1>7, <2>1 DEF Discover
  <2>5. step'[Complete] = "idle" /\ step'[Proxy] = "idle"
    BY <2>1, <2>4
  <2>6. discovered' \subseteq Data
    BY <1>7, <2>2 DEF Discover
  <2> QED BY <1>7, <2>3, <2>4, <2>5, <2>6 DEF Discover
<1>8. ASSUME NEW t \in Tasks, Finish(t) PROVE TypeOK'
  <2>1. step' \in [Tasks -> Steps]
    BY <1>8 DEF Finish
  <2>2. \A u \in Initials \cup Completes \cup {Proxy} : step'[u] \in {"idle", step[u]}
    BY <1>8 DEF Finish
  <2>3. pending' \in [Tasks -> Batches \cup {"none", "now", "later"}] /\ forced' \in BOOLEAN
    BY <1>8 DEF Finish
  <2> QED BY <1>8, <2>1, <2>2, <2>3 DEF Finish
<1>9. ASSUME NEW t \in Updates, NEW d \in Data, NEW s \in Steps, NEW w \in Steps, NEW n \in Steps,
             RunNow(t, s, d, w, n) PROVE TypeOK'
  <2>1. Update(d) \in Updates
    BY TaskNames
  <2> QED BY <1>9, <2>1 DEF RunNow
<1>10. ASSUME DevicesChanged \/ RulesChanged PROVE TypeOK'
  <2>1. \A q, w, n : \A d : RunNow(Update("devices"), q, d, w, n) =>
                             Update("devices") \in Updates /\ "lineups" \in Data
    BY Followers DEF RunNow
  <2>2. {"lineups", "inLineups", "recordings", "inRecordings", "episodes", "inEpisodes",
         "finish"} \subseteq Steps /\ "recordings" \in Data
    BY Followers DEF Steps
  <2>3. \A q, w, n : \A d : RunNow(Update("rules"), q, d, w, n) =>
                             Update("rules") \in Updates /\ "episodes" \in Data
    BY Followers DEF RunNow
  <2>4. RunNow(Update("devices"), "lineups", "lineups", "inLineups", "recordings") => TypeOK'
    BY <1>9, <2>1, <2>2
  <2>5. RunNow(Update("devices"), "recordings", "recordings", "inRecordings", "finish") => TypeOK'
    BY <1>9, <2>1, <2>2
  <2>6. RunNow(Update("rules"), "episodes", "episodes", "inEpisodes", "finish") => TypeOK'
    BY <1>9, <2>2, <2>3
  <2> QED BY <1>10, <2>4, <2>5, <2>6 DEF DevicesChanged, RulesChanged
<1>11. ASSUME LineupsChanged PROVE TypeOK'
  <2>1. Update("lineups") \in Updates /\ Update("listings") \in Updates
    BY <1>11, TaskNames, Followers DEF LineupsChanged
  <2>2. step' \in [Tasks -> Steps] /\ \A u \in Initials \cup Completes \cup {Proxy} : step'[u] = step[u]
    BY <1>11, <2>1 DEF LineupsChanged
  <2>3. pending' \in [Tasks -> Batches \cup {"none", "now", "later"}] /\ forced' \in BOOLEAN
    BY <1>11 DEF LineupsChanged
  <2> QED BY <1>11, <2>2, <2>3 DEF LineupsChanged
<1>12. ASSUME NEW call \in PowerCalls, StopScheduler(call) PROVE TypeOK'
  BY <1>12, AddonTasksAssumption DEF StopScheduler
<1>13. ASSUME Sleep PROVE TypeOK'
  BY <1>13 DEF Sleep, Clear
<1>14. ASSUME Destroy PROVE TypeOK'
  BY <1>14 DEF Destroy, Clear
<1>15. ASSUME Wake PROVE TypeOK'
  BY <1>15 DEF Wake, WithBatch, Clear, Batches
<1>16. ASSUME StartDiscovery PROVE TypeOK'
  BY <1>16 DEF StartDiscovery
<1>24. ASSUME NEW t \in Tasks, AddStartup(t) PROVE TypeOK'
  <2>1. forced' \in BOOLEAN
    BY <1>24 DEF AddStartup
  <2>2. pending' \in [Tasks -> Batches \cup {"none", "now", "later"}]
    BY <1>24 DEF AddStartup, Batches
  <2> QED BY <1>24, <2>1, <2>2 DEF AddStartup
<1>17. ASSUME NEW d \in Data, RequestUpdate(d) PROVE TypeOK'
  <2>1. forced' \in BOOLEAN
    BY <1>17 DEF RequestUpdate
  <2>2. pending' \in [Tasks -> Batches \cup {"none", "now", "later"}]
    BY <1>17 DEF RequestUpdate
  <2> QED BY <1>17, <2>1, <2>2 DEF RequestUpdate
<1>18. ASSUME NEW d \in Data, PostponeUpdate(d) PROVE TypeOK'
  <2>1. pending' \in [Tasks -> Batches \cup {"none", "now", "later"}]
    BY <1>18 DEF PostponeUpdate
  <2> QED BY <1>18, <2>1 DEF PostponeUpdate
<1>19. ASSUME ChangeProxy PROVE TypeOK'
  BY <1>19 DEF ChangeProxy
<1>20. ASSUME PlayerStep PROVE TypeOK'
  <2>1. paused' \in BOOLEAN /\ stream' \in BOOLEAN
    BY <1>20 DEF PlayerStep, CreateLive, PauseLive, PauseRecorded, Pauses, Opened,
                 CloseStream, ResumeScheduler
  <2>2. player' \in {"idle", "live", "opened", "creating", "resuming", "closing", "closed"}
    BY <1>20 DEF PlayerStep, CreateLive, PauseLive, PauseRecorded, Pauses, Opened,
                 CloseStream, ResumeScheduler
  <2> QED BY <1>20, <2>1, <2>2 DEF PlayerStep
<1>21. ASSUME Closed PROVE TypeOK'
  BY <1>21 DEF Closed
<1>22. ASSUME UNCHANGED vars PROVE TypeOK'
  BY <1>22 DEF vars
<1>23. \A d \in Data : Update(d) \in Updates
  BY TaskNames
<1> QED
  BY <1>1, <1>2, <1>3, <1>4, <1>5, <1>6, <1>7, <1>8, <1>10, <1>11, <1>12, <1>13,
     <1>14, <1>15, <1>16, <1>17, <1>18, <1>19, <1>20, <1>21, <1>22, <1>23, <1>24, TaskSets
  DEF Next, WorkerStep, BeginUpdate, BeginStartup, RunningStep, PowerStep, StoppedStep

(***************************************************************************)
(* The updates keep themselves going.                                      *)
(***************************************************************************)

\* The update of d will run: it is pending, or running and will end.
Goes(d) == pending[Update(d)] # "none" \/ step[Update(d)] # "idle"

\* An uncancelled step of the worker leaves every update pending or running.
LEMMA WorkerKeepsGoing ==
  ASSUME TypeOK, TypeOK', DbMayFail = FALSE, WorkerStep, ~Cancelled,
         NEW d \in Data, Goes(d)
  PROVE  Goes(d)'
<1> USE TaskSets, StepNames DEF Goes, TypeOK
<1>0. Update(d) \in Updates
  BY TaskNames
<1>1. ASSUME NEW t \in Updates \cup Initials, Begin(t) PROVE Goes(d)'
  BY <1>0, <1>1 DEF Begin
<1>2. ASSUME BeginListings PROVE Goes(d)'
  <2>1. PICK s \in {"discover", "finish"} : step' = [step EXCEPT ![Update("listings")] = s]
    BY <1>2 DEF BeginListings
  <2> QED BY <1>0, <1>2, <2>1 DEF BeginListings
<1>3. ASSUME NEW t \in Completes, RunComplete(t) PROVE Goes(d)'
  BY <1>0, <1>3 DEF RunComplete
<1>4. ASSUME RunProxy PROVE Goes(d)'
  BY <1>0, <1>4 DEF RunProxy, WithBatch
<1>5. ASSUME RunProxyInVain PROVE Goes(d)'
  BY <1>0, <1>5 DEF RunProxyInVain
<1>6. ASSUME NEW t \in Tasks, Discover(t) PROVE Goes(d)'
  BY <1>0, <1>6 DEF Discover
<1>7. ASSUME NEW t \in Tasks, Finish(t) PROVE Goes(d)'
  <2>1. pending' = [pending EXCEPT ![t] = "later"]
    BY <1>7 DEF Finish
  <2>2. Update(d) # t => (step'[Update(d)] = "idle" <=> step[Update(d)] = "idle")
    BY <1>0, <1>7 DEF Finish
  <2> QED BY <1>0, <2>1, <2>2
<1>8. ASSUME NEW t \in Updates, NEW s, NEW e \in Data, NEW w \in Steps \ {"idle"}, NEW n \in Steps \ {"idle"},
             RunNow(t, s, e, w, n) PROVE Goes(d)'
  <2>1. Update(e) \in Updates
    BY TaskNames
  <2> QED BY <1>0, <1>8, <2>1 DEF RunNow
<1>9. ASSUME DevicesChanged \/ RulesChanged PROVE Goes(d)'
  <2>2. {"lineups", "inLineups", "recordings", "inRecordings", "episodes", "inEpisodes",
         "finish"} \subseteq Steps \ {"idle"}
    BY DEF Steps
  <2>3. RunNow(Update("devices"), "lineups", "lineups", "inLineups", "recordings") => Goes(d)'
    BY <1>8, <2>2, Followers DEF RunNow
  <2>4. RunNow(Update("devices"), "recordings", "recordings", "inRecordings", "finish") => Goes(d)'
    BY <1>8, <2>2, Followers DEF RunNow
  <2>5. RunNow(Update("rules"), "episodes", "episodes", "inEpisodes", "finish") => Goes(d)'
    BY <1>8, <2>2, Followers DEF RunNow
  <2> QED BY <1>9, <2>3, <2>4, <2>5 DEF DevicesChanged, RulesChanged
<1>10. ASSUME LineupsChanged PROVE Goes(d)'
  BY <1>0, <1>10 DEF LineupsChanged
<1>11. ~ListingsThrows
  BY DEF ListingsThrows
<1> QED
  BY <1>1, <1>2, <1>3, <1>4, <1>5, <1>6, <1>7, <1>9, <1>10, <1>11, TaskNames
  DEF WorkerStep, BeginUpdate, BeginStartup, RunningStep

\* Until the system wakes up for the first time nothing is lost, and start_discovery
\* may still have to add the updates; a wake adds them all.
GoingInv ==
  (started \/ woken) /\ power = "awake" /\ stopping = "no" =>
    \A d \in Data : Goes(d) \/ (~woken /\ Update(d) \in adding)

LEMMA KeepsGoing ==
  ASSUME TypeOK, TypeOK', DbMayFail = FALSE, GoingInv, [Next]_vars
  PROVE  GoingInv'
<1> SUFFICES ASSUME (started \/ woken)', power' = "awake", stopping' = "no", NEW d \in Data
             PROVE  (Goes(d) \/ (~woken /\ Update(d) \in adding))'
    BY DEF GoingInv, Goes
<1> USE TaskSets DEF TypeOK, taskVars, flagVars, powerVars, streamVars
<1>0. Update(d) \in Updates
  BY TaskNames
<1>1. (started \/ woken) /\ power = "awake" /\ stopping = "no" =>
        Goes(d) \/ (~woken /\ Update(d) \in adding)
  BY DEF GoingInv
<1>2. CASE WorkerStep
  <2>1. UNCHANGED <<started, woken, power, stopping, adding>>
    BY <1>2 DEF WorkerStep, BeginUpdate, BeginStartup, RunningStep, Begin, BeginListings,
       ListingsThrows, RunComplete, RunProxy, RunProxyInVain, Discover, Finish,
       DevicesChanged, RulesChanged, LineupsChanged, RunNow
  <2> QED BY <1>1, <1>2, <2>1, WorkerKeepsGoing DEF Cancelled
<1>3. CASE Wake
  BY <1>0, <1>3 DEF Wake, WithBatch, Goes
<1>4. CASE Sleep \/ Destroy
  BY <1>4 DEF Sleep, Destroy
<1>5. ASSUME NEW call \in PowerCalls, StopScheduler(call) PROVE FALSE
  BY <1>5, AddonTasksAssumption DEF StopScheduler
<1>6. CASE StartDiscovery
  BY <1>0, <1>1, <1>6 DEF StartDiscovery, Goes
<1>12. ASSUME NEW t \in Tasks, AddStartup(t) PROVE (Goes(d) \/ (~woken /\ Update(d) \in adding))'
  <2>1. pending'[t] \in {"startup", "later"} /\ \A u \in Tasks : u # t => pending'[u] = pending[u]
    BY <1>12 DEF AddStartup
  <2>2. adding' = adding \ {t} /\ UNCHANGED <<step, started, woken, power, stopping>>
    BY <1>12 DEF AddStartup
  <2> QED BY <1>0, <1>1, <2>1, <2>2 DEF Goes
<1>7. ASSUME NEW e \in Data, RequestUpdate(e) \/ PostponeUpdate(e)
      PROVE (Goes(d) \/ (~woken /\ Update(d) \in adding))'
  BY <1>0, <1>1, <1>7 DEF RequestUpdate, PostponeUpdate, Goes
<1>8. CASE ChangeProxy
  BY <1>0, <1>1, <1>8 DEF ChangeProxy, Goes
<1>9. CASE PlayerStep
  BY <1>1, <1>9 DEF PlayerStep, Goes
<1>10. CASE Closed
  BY <1>0, <1>1, <1>10 DEF Closed, Goes
<1>11. CASE UNCHANGED vars
  BY <1>1, <1>11 DEF vars, Goes
<1> QED
  BY <1>2, <1>3, <1>4, <1>5, <1>6, <1>7, <1>8, <1>9, <1>10, <1>11, <1>12
  DEF Next, PowerStep, StoppedStep

(***************************************************************************)
(* Streams pause the scheduler, and resume it.                             *)
(***************************************************************************)

\* A stream exists while it is being opened; the scheduler has been resumed
\* before the recordings are rescheduled; Destroy is the last call.
PlayerInv ==
  /\ PausedOnlyWhileStreaming
  /\ player \in {"live", "opened"} => stream
  /\ player = "closed" => ~paused
  /\ stopping # "no" => power # "gone"

LEMMA PlayerNext == TypeOK /\ PlayerInv /\ [Next]_vars => PlayerInv'
<1> SUFFICES ASSUME TypeOK, PlayerInv, [Next]_vars
             PROVE  PlayerInv'
    OBVIOUS
<1> USE DEF TypeOK, PlayerInv, PausedOnlyWhileStreaming, taskVars, flagVars, powerVars, streamVars
<1>1. CASE WorkerStep
  <2>1. UNCHANGED <<stream, paused, player, power, stopping>>
    BY <1>1 DEF WorkerStep, BeginUpdate, BeginStartup, RunningStep, Begin, BeginListings,
       ListingsThrows, RunComplete, RunProxy, RunProxyInVain, Discover, Finish,
       DevicesChanged, RulesChanged, LineupsChanged, RunNow
  <2> QED BY <2>1
<1>2. CASE PowerStep
  <2>1. ASSUME NEW call \in PowerCalls, StopScheduler(call) PROVE PlayerInv'
    BY <2>1, AddonTasksAssumption DEF StopScheduler
  <2>2. CASE Sleep
    BY <2>2 DEF Sleep
  <2>3. CASE Wake
    BY <2>3 DEF Wake
  <2>4. CASE Destroy
    BY <2>4 DEF Destroy
  <2> QED BY <1>2, <2>1, <2>2, <2>3, <2>4 DEF PowerStep, StoppedStep
<1>3. CASE PlayerStep
  BY <1>3 DEF PlayerStep, CreateLive, PauseLive, PauseRecorded, Pauses, Opened,
     CloseStream, ResumeScheduler
<1>4. CASE Closed
  BY <1>4 DEF Closed
<1>5. ASSUME StartDiscovery \/ (\E t \in Tasks : AddStartup(t)) \/ ChangeProxy
             \/ \E d \in Data : RequestUpdate(d) \/ PostponeUpdate(d)
      PROVE PlayerInv'
  BY <1>5 DEF StartDiscovery, AddStartup, ChangeProxy, RequestUpdate, PostponeUpdate
<1>6. CASE UNCHANGED vars
  BY <1>6 DEF vars
<1> QED
  BY <1>1, <1>2, <1>3, <1>4, <1>5, <1>6 DEF Next

(***************************************************************************)
(* The startup completes in order.                                         *)
(***************************************************************************)

\* The startup has made sure of the data d.
Ensured(d) ==
  d \in discovered \/ pending[Initial(d)] = "startup" \/ step[Initial(d)] = "discover"

\* As long as the end of the startup is pending, or still to be added, what has not
\* been discovered yet is being discovered, is before it in the batch, or before it
\* among the tasks to add.
StartupInv ==
  /\ StartupInOrder
  /\ pending[Proxy] = "none" /\ pending[Rediscovered] = "none"
  /\ pending[Complete] \in {"none", "startup"}
  /\ ~cut =>
       \A d \in Data \ {"listings"} :
         pending[Complete] = "startup" \/ (Complete \in adding /\ Initial(d) \notin adding) =>
           Ensured(d)

\* What a step that takes no initial task and discovers nothing preserves.
LEMMA StartupUntouched ==
  ASSUME TypeOK, TypeOK', StartupInv, complete' = complete, UNCHANGED <<adding, cut>>,
         discovered \subseteq discovered',
         \A t \in Completes \cup {Proxy} : pending'[t] = pending[t],
         \A t \in Initials : pending'[t] = pending[t] /\ step'[t] = step[t]
  PROVE  StartupInv'
BY TaskNames, TaskSets DEF StartupInv, StartupInOrder, Ensured

LEMMA StartupNext ==
  ASSUME MayProxy = FALSE, TypeOK, TypeOK', StartupInv, [Next]_vars
  PROVE  StartupInv'
<1> USE TaskSets DEF taskVars, flagVars, powerVars, streamVars
<1>t. pending \in [Tasks -> Batches \cup {"none", "now", "later"}] /\ step \in [Tasks -> Steps]
  BY DEF TypeOK
<1>1. ASSUME NEW t \in Updates, Begin(t) PROVE StartupInv'
  BY <1>t, <1>1, StartupUntouched DEF Begin
<1>2. ASSUME NEW t \in Initials, Begin(t) PROVE StartupInv'
  <2>1. \A u \in Initials : \/ pending'[u] = pending[u] /\ step'[u] = step[u]
                            \/ step'[u] = "discover"
    BY <1>t, <1>2 DEF Begin
  <2>2. \A u \in Completes \cup {Proxy} : pending'[u] = pending[u]
    BY <1>t, <1>2 DEF Begin
  <2>3. UNCHANGED <<complete, discovered, adding, cut>>
    BY <1>2 DEF Begin
  <2> QED BY <2>1, <2>2, <2>3, TaskNames DEF StartupInv, StartupInOrder, Ensured
<1>3. ASSUME BeginListings PROVE StartupInv'
  <2>1. Update("listings") \in Updates
    BY Followers
  <2>2. PICK s \in {"discover", "finish"} : step' = [step EXCEPT ![Update("listings")] = s]
    BY <1>3 DEF BeginListings
  <2> QED BY <1>t, <1>3, <2>1, <2>2, StartupUntouched DEF BeginListings
<1>4. ASSUME ListingsThrows PROVE StartupInv'
  <2>1. Update("listings") \in Updates
    BY Followers
  <2> QED BY <1>t, <1>4, <2>1, StartupUntouched DEF ListingsThrows
<1>5. ASSUME NEW t \in Completes, RunComplete(t) PROVE StartupInv'
  <2>1. t = Complete /\ pending[Complete] = "startup"
    BY <1>5 DEF RunComplete, Takes, StartupInv, Completes, Batches
  <2>2. ASSUME ~cut, NEW d \in Data \ {"listings"} PROVE d \in discovered
    <3>1. Initial(d) \in Tasks
      BY TaskNames
    <3>2. pending[Initial(d)] # "startup"
      BY <1>5, <2>1, <3>1, CompleteIsLast DEF RunComplete, Takes
    <3>3. step[Initial(d)] # "discover"
      BY <1>5, <3>1 DEF RunComplete, Takes, Idle
    <3> QED BY <2>1, <2>2, <3>2, <3>3 DEF StartupInv, Ensured
  <2>3. /\ pending' = [pending EXCEPT ![Complete] = "none"]
        /\ UNCHANGED <<adding, cut, step, discovered>>
    BY <1>5, <2>1 DEF RunComplete
  <2> QED BY <1>t, <2>2, <2>3, TaskNames DEF StartupInv, StartupInOrder, Ensured
<1>6. ASSUME RunProxy \/ RunProxyInVain PROVE FALSE
  BY <1>6 DEF RunProxy, RunProxyInVain, Takes, StartupInv, Batches
<1>7. ASSUME NEW t \in Tasks, Discover(t) PROVE StartupInv'
  <2>1. t \in Updates \/ t \in Initials
    BY <1>7 DEF Discover, TypeOK
  <2>2. CASE t \in Updates
    BY <1>t, <1>7, <2>2, StartupUntouched DEF Discover
  <2>3. CASE t \in Initials
    <3>1. step' = [step EXCEPT ![t] = "idle"] /\ discovered' = discovered \cup {t[2]}
      BY <1>7, <2>3 DEF Discover
    <3>2. \A d \in Data \ {"listings"} : Initial(d) = t => d \in discovered'
      BY <3>1, TaskNames
    <3>3. \A d \in Data \ {"listings"} : Initial(d) # t => step'[Initial(d)] = step[Initial(d)]
      BY <1>t, <3>1, TaskNames
    <3>4. UNCHANGED <<pending, complete, adding, cut>>
      BY <1>7 DEF Discover
    <3> QED BY <3>1, <3>2, <3>3, <3>4 DEF StartupInv, StartupInOrder, Ensured
  <2> QED BY <2>1, <2>2, <2>3
<1>8. ASSUME NEW t \in Tasks, Finish(t) PROVE StartupInv'
  <2>1. t \in Updates
    BY <1>8 DEF Finish, TypeOK
  <2>2. \A u \in Initials : step'[u] = step[u]
    BY <1>8, <2>1, StepNames DEF Finish, TypeOK
  <2>3. \A u \in Initials \cup Completes \cup {Proxy} : pending'[u] = pending[u]
    BY <1>t, <1>8, <2>1 DEF Finish
  <2> QED BY <1>8, <2>2, <2>3, StartupUntouched DEF Finish
<1>9. ASSUME NEW t \in Updates, NEW s, NEW d \in Data, NEW w, NEW n, RunNow(t, s, d, w, n)
      PROVE StartupInv'
  <2>1. Update(d) \in Updates
    BY TaskNames
  <2>2. \A u \in Initials \cup Completes \cup {Proxy} : pending'[u] = pending[u] /\ step'[u] = step[u]
    BY <1>t, <1>9, <2>1 DEF RunNow
  <2> QED BY <1>9, <2>2, StartupUntouched DEF RunNow
<1>10. ASSUME DevicesChanged \/ RulesChanged PROVE StartupInv'
  <2>1. /\ Update("devices") \in Tasks => StartupInv'
        /\ Update("rules") \in Tasks => StartupInv'
    BY <1>9, <1>10, Followers DEF DevicesChanged, RulesChanged, RunNow
  <2> QED BY <1>10, <2>1 DEF DevicesChanged, RulesChanged, RunNow
<1>11. ASSUME LineupsChanged PROVE StartupInv'
  <2>1. Update("lineups") \in Updates /\ Update("listings") \in Updates
    BY <1>11, TaskNames, Followers DEF LineupsChanged
  <2>2. \A u \in Initials \cup Completes \cup {Proxy} : pending'[u] = pending[u] /\ step'[u] = step[u]
    BY <1>t, <1>11, <2>1 DEF LineupsChanged
  <2> QED BY <1>11, <2>2, StartupUntouched DEF LineupsChanged
<1>12. ASSUME PowerStep PROVE StartupInv'
  <2>1. ASSUME NEW call \in PowerCalls, StopScheduler(call) PROVE StartupInv'
    BY <2>1, StartupUntouched DEF StopScheduler
  <2>2. CASE Sleep \/ Wake \/ Destroy
    <3>1. \A t \in Completes \cup {Proxy} : pending'[t] = "none"
      BY <2>2 DEF Sleep, Wake, Destroy, WithBatch
    <3>2. UNCHANGED <<complete, discovered, adding>>
      BY <2>2 DEF Sleep, Wake, Destroy
    <3>3. cut' = (cut \/ (Complete \in adding /\ ~(Initials \subseteq adding)))
      BY <2>2 DEF Sleep, Wake, Destroy, Clear
    <3>4. ~cut' => ~cut /\ (Complete \in adding' =>
                            \A d \in Data \ {"listings"} : Initial(d) \in adding')
      BY <3>2, <3>3, TaskNames
    <3> QED BY <3>1, <3>2, <3>4 DEF StartupInv, StartupInOrder
  <2> QED BY <1>12, <2>1, <2>2 DEF PowerStep, StoppedStep
<1>13. ASSUME StartDiscovery PROVE StartupInv'
  <2>1. adding' = StartupBatch \cup Updates /\ UNCHANGED <<pending, step, discovered, complete, cut>>
    BY <1>13 DEF StartDiscovery
  <2>2. \A d \in Data \ {"listings"} : Initial(d) \in adding'
    BY <2>1, TaskNames DEF StartupBatch
  <2> QED BY <2>1, <2>2 DEF StartupInv, StartupInOrder, Ensured
<1>19. ASSUME NEW t \in Tasks, AddStartup(t) PROVE StartupInv'
  <2>1. /\ t \in adding /\ adding' = adding \ {t} /\ \A u \in adding : Place[t] <= Place[u]
        /\ pending' = [pending EXCEPT ![t] = IF t \in StartupBatch THEN "startup" ELSE "later"]
        /\ UNCHANGED <<step, discovered, complete, cut>>
    BY <1>19 DEF AddStartup
  <2>2. t \in Updates \/ t \in Initials \/ t = Complete
    BY <2>1, Followers DEF TypeOK, StartupBatch
  <2>3. CASE t \in Updates
    <3>1. \A u \in Initials \cup Completes \cup {Proxy} : pending'[u] = pending[u]
      BY <1>t, <2>1, <2>3
    <3>2. \A u \in Initials \cup Completes : u \in adding' <=> u \in adding
      BY <2>1, <2>3
    <3> QED BY <2>1, <3>1, <3>2, TaskNames DEF StartupInv, StartupInOrder, Ensured
  <2>4. CASE t \in Initials
    <3>1. pending'[t] = "startup" /\ \A u \in Tasks : u # t => pending'[u] = pending[u]
      BY <1>t, <2>1, <2>4 DEF StartupBatch
    <3>2. Complete \in adding' <=> Complete \in adding
      BY <2>1, <2>4
    <3>3. \A u \in Completes \cup {Proxy} : pending'[u] = pending[u]
      BY <2>4, <3>1
    <3>4. ASSUME NEW d \in Data \ {"listings"}, ~cut,
                 pending[Complete] = "startup" \/ (Complete \in adding /\ Initial(d) \notin adding')
          PROVE Ensured(d)'
      <4>1. Initial(d) \in Tasks
        BY TaskNames
      <4>2. CASE Initial(d) = t
        BY <3>1, <4>2 DEF Ensured
      <4>3. CASE Initial(d) # t
        <5>1. Ensured(d)
          BY <2>1, <3>4, <4>3 DEF StartupInv
        <5> QED BY <2>1, <3>1, <4>1, <4>3, <5>1 DEF Ensured
      <4> QED BY <4>2, <4>3
    <3> QED BY <2>1, <3>2, <3>3, <3>4 DEF StartupInv, StartupInOrder
  <2>5. CASE t = Complete
    <3>1. pending'[Complete] = "startup" /\ \A u \in Tasks : u # Complete => pending'[u] = pending[u]
      BY <1>t, <2>1, <2>5 DEF StartupBatch
    <3>2. \A d \in Data \ {"listings"} : Initial(d) \in Tasks /\ Initial(d) # Complete
      BY TaskNames
    <3>3. \A d \in Data \ {"listings"} : Initial(d) \notin adding
      BY <2>1, <2>5, CompleteIsLast
    <3>4. ~cut => \A d \in Data \ {"listings"} : Ensured(d)
      BY <2>1, <2>5, <3>3 DEF StartupInv
    <3>5. ~cut' => \A d \in Data \ {"listings"} : Ensured(d)'
      BY <2>1, <3>1, <3>2, <3>4 DEF Ensured
    <3>6. pending'[Proxy] = pending[Proxy] /\ pending'[Rediscovered] = pending[Rediscovered]
      BY <3>1
    <3> QED BY <2>1, <3>1, <3>5, <3>6 DEF StartupInv, StartupInOrder
  <2> QED BY <2>2, <2>3, <2>4, <2>5
<1>14. ASSUME NEW d \in Data, RequestUpdate(d) \/ PostponeUpdate(d) PROVE StartupInv'
  <2>1. Update(d) \in Updates
    BY TaskNames
  <2>2. \A u \in Initials \cup Completes \cup {Proxy} : pending'[u] = pending[u]
    BY <1>t, <1>14, <2>1 DEF RequestUpdate, PostponeUpdate
  <2> QED BY <1>14, <2>2, StartupUntouched DEF RequestUpdate, PostponeUpdate
<1>15. ~ChangeProxy
  BY DEF ChangeProxy
<1>16. ASSUME PlayerStep PROVE StartupInv'
  BY <1>16, StartupUntouched DEF PlayerStep
<1>17. ASSUME Closed PROVE StartupInv'
  <2>1. Update("recordings") \in Updates
    BY Followers
  <2>2. \A u \in Initials \cup Completes \cup {Proxy} : pending'[u] = pending[u]
    BY <1>t, <1>17, <2>1 DEF Closed
  <2> QED BY <1>17, <2>2, StartupUntouched DEF Closed
<1>18. ASSUME UNCHANGED vars PROVE StartupInv'
  BY <1>18, StartupUntouched DEF vars
<1> QED
  BY <1>1, <1>2, <1>3, <1>4, <1>5, <1>6, <1>7, <1>8, <1>10, <1>11, <1>12, <1>13,
     <1>14, <1>15, <1>16, <1>17, <1>18, <1>19, TaskNames
  DEF Next, WorkerStep, BeginUpdate, BeginStartup, RunningStep

-----------------------------------------------------------------------------
\* Every variable keeps its type.
THEOREM TypeCorrect == Spec => []TypeOK
BY InitType, TypeNext, PTL DEF Spec

\* Without database failures outside of its own try block, every update task
\* stays pending or running for as long as the scheduler is started.
THEOREM UpdatesKeepGoing ==
  ASSUME DbMayFail = FALSE
  PROVE  Spec => []PeriodicScheduled
<1>1. Init => GoingInv
  BY DEF Init, GoingInv
<1>2. TypeOK /\ TypeOK' /\ GoingInv /\ [Next]_vars => GoingInv'
  BY KeepsGoing
<1>3. GoingInv => PeriodicScheduled
  BY DEF GoingInv, PeriodicScheduled, Goes
<1> QED
  BY <1>1, <1>2, <1>3, TypeCorrect, PTL DEF Spec

\* The scheduler is paused only while a stream is open or being opened or closed.
THEOREM StreamsResume == Spec => []PausedOnlyWhileStreaming
<1>1. Init => PlayerInv
  BY DEF Init, PlayerInv, PausedOnlyWhileStreaming
<1>2. PlayerInv => PausedOnlyWhileStreaming
  BY DEF PlayerInv
<1> QED
  BY <1>1, <1>2, PlayerNext, TypeCorrect, PTL DEF Spec

\* Unless a change of the proxy starts everything over, and wherever the worker, a
\* sleep and a wake come between the adds of start_discovery, the startup is complete
\* only after everything the callbacks wait for has been discovered, or the queue was
\* cleared between the adds of the discoveries and that of the completion.
THEOREM StartupKeepsOrder ==
  ASSUME MayProxy = FALSE
  PROVE  Spec => []StartupInOrder
<1>1. Init => StartupInv
  BY TaskSets, TaskNames DEF Init, StartupInv, StartupInOrder
<1>2. TypeOK /\ TypeOK' /\ StartupInv /\ [Next]_vars => StartupInv'
  BY StartupNext
<1>3. StartupInv => StartupInOrder
  BY DEF StartupInv
<1> QED
  BY <1>1, <1>2, <1>3, TypeCorrect, PTL DEF Spec

-----------------------------------------------------------------------------
(* The database. *)

Elements(s) == {s[i] : i \in DOMAIN s}

Distinct(s) == \A i, j \in DOMAIN s : i # j => s[i] # s[j]

-----------------------------------------------------------------------------
(* The queue of free connections. *)

LEMMA AppendFree ==
  ASSUME NEW S, NEW s \in Seq(S), NEW e \in S
  PROVE  /\ Append(s, e) \in Seq(S) /\ Append(s, e) # <<>>
         /\ Elements(Append(s, e)) = Elements(s) \cup {e}
         /\ Distinct(s) /\ e \notin Elements(s) => Distinct(Append(s, e))
<1>1. Append(s, e) \in Seq(S) /\ Len(Append(s, e)) = Len(s) + 1
      /\ DOMAIN Append(s, e) = 1 .. Len(s) + 1 /\ DOMAIN s = 1 .. Len(s) /\ Len(s) \in Nat
      /\ Append(s, e)[Len(s) + 1] = e /\ \A i \in 1 .. Len(s) : Append(s, e)[i] = s[i]
  OBVIOUS
<1>2. Elements(Append(s, e)) = Elements(s) \cup {e}
  BY <1>1 DEF Elements
<1>3. Distinct(s) /\ e \notin Elements(s) => Distinct(Append(s, e))
  BY <1>1 DEF Elements, Distinct
<1> QED
  BY <1>1, <1>2, <1>3

LEMMA TakeFree ==
  ASSUME NEW S, NEW s \in Seq(S), s # <<>>
  PROVE  /\ Head(s) \in S /\ Head(s) \in Elements(s) /\ Tail(s) \in Seq(S)
         /\ Elements(s) = Elements(Tail(s)) \cup {Head(s)}
         /\ Distinct(s) => Distinct(Tail(s)) /\ Head(s) \notin Elements(Tail(s))
<1>1. Len(s) \in Nat \ {0} /\ DOMAIN s = 1 .. Len(s) /\ Head(s) = s[1] /\ Head(s) \in S
      /\ Tail(s) \in Seq(S) /\ DOMAIN Tail(s) = 1 .. Len(s) - 1
      /\ \A i \in 1 .. Len(s) - 1 : Tail(s)[i] = s[i + 1]
  OBVIOUS
<1>2. \A c : c \in Elements(s) => c \in Elements(Tail(s)) \cup {Head(s)}
  <2> SUFFICES ASSUME NEW i \in DOMAIN s, i # 1 PROVE s[i] \in Elements(Tail(s))
    BY <1>1 DEF Elements
  <2>1. i - 1 \in DOMAIN Tail(s) /\ Tail(s)[i - 1] = s[i]
    BY <1>1
  <2> QED
    BY <2>1 DEF Elements
<1>3. Elements(Tail(s)) \cup {Head(s)} \subseteq Elements(s)
  BY <1>1 DEF Elements
<1>4. Distinct(s) => Distinct(Tail(s)) /\ Head(s) \notin Elements(Tail(s))
  BY <1>1 DEF Elements, Distinct
<1> QED
  BY <1>1, <1>2, <1>3, <1>4 DEF Elements

-----------------------------------------------------------------------------
(* The invariant. *)

\* The types of the connections.
PoolType ==
  /\ queue \in Seq(Conns) /\ Queued \subseteq pool /\ pool \subseteq open
  /\ open \subseteq Conns /\ prepared \subseteq open
  /\ user \in [Users -> {"idle", "sharing", "holding", "released"}]
  /\ holds \in [Users -> {0} \cup Conns]

\* Connections are lent: a user has one exactly while it holds a handle, and only such
\* a connection has a statement that is not finalized.
Lending ==
  /\ \A u \in Users : holds[u] # 0 <=> user[u] = "holding"
  /\ open = pool /\ open = Queued \cup Lent
  /\ prepared \subseteq Lent

\* At which steps of Create the pool is owned, has no connection, or is not shared.
Phases ==
  /\ pc \notin {"down", "loaded"} => Sharing = {}
  /\ owned => pc \in {"proxy", "start", "loaded", "failed"}
  /\ pc \in {"proxy", "start", "loaded"} => owned
  /\ pc \in {"open", "delete"} => open = {}
  /\ pc = "proxy" => queue # <<>>

PoolInv == PoolType /\ Lending /\ Exclusive /\ Phases /\ NothingLeaks

\* There is a connection for one more where one is opened.
LEMMA ConnectionLeft ==
  ASSUME PoolInv,
         \/ pc = "open"
         \/ pc = "more" /\ Cardinality(pool) < PoolSize
         \/ queue = <<>> /\ \E u \in Users : user[u] = "sharing"
  PROVE  NewConn \in Conns /\ NewConn \notin open
<1> DEFINE M == Cardinality(Users)
<1>1. M \in Nat /\ PoolSize + M \in Nat /\ Conns = 1 .. PoolSize + M
  BY DatabaseAssumption, FS_CardinalityType
<1>2. IsFiniteSet(Conns) /\ Cardinality(Conns) = PoolSize + M /\ 1 \in Conns
  <2> DEFINE N == PoolSize + M
  <2>1. 1 \in Int /\ N \in Int /\ N >= 1 /\ Conns = 1 .. N
    BY <1>1, DatabaseAssumption
  <2> HIDE DEF N
  <2>2. IsFiniteSet(1 .. N) /\ Cardinality(1 .. N) = IF 1 > N THEN 0 ELSE N - 1 + 1
    BY <2>1, FS_Interval
  <2>3. IsFiniteSet(Conns) /\ Cardinality(Conns) = N /\ 1 \in Conns
    BY <2>1, <2>2
  <2> QED
    BY <2>3 DEF N
<1>3. open \subseteq Conns
  BY DEF PoolInv, PoolType
<1>4. open # Conns
  <2>1. CASE pc = "open"
    BY <2>1, <1>2 DEF PoolInv, Phases
  <2>2. CASE pc = "more" /\ Cardinality(pool) < PoolSize
    <3>1. open = pool /\ PoolSize \in Nat
      BY DatabaseAssumption DEF PoolInv, Lending
    <3> HIDE DEF M
    <3> QED
      BY <2>2, <3>1, <1>1, <1>2
  <2>3. ASSUME queue = <<>>, NEW u \in Users, user[u] = "sharing" PROVE open # Conns
    <3>1. open = {holds[v] : v \in Holding}
      BY <2>3 DEF PoolInv, Lending, Queued, Lent
    <3>2. Holding \subseteq Users \ {u}
      BY <2>3 DEF PoolInv, Lending, Holding
    <3>3. IsFiniteSet(Users \ {u}) /\ Cardinality(Users \ {u}) = M - 1
      BY DatabaseAssumption, FS_RemoveElement
    <3>4. IsFiniteSet(Holding) /\ Cardinality(Holding) <= M - 1
      BY <3>2, <3>3, FS_Subset
    <3>5. Cardinality(open) <= Cardinality(Holding)
      <4>1. [v \in Holding |-> holds[v]] \in Surjection(Holding, open)
        BY <3>1 DEF Surjection
      <4> QED
        BY <4>1, <3>4, FS_Surjection
    <3>6. Cardinality(Holding) \in Nat
      BY <3>4, FS_CardinalityType
    <3> QED
      BY <3>4, <3>5, <3>6, <1>1, <1>2, DatabaseAssumption
  <2> QED
    BY <2>1, <2>2, <2>3
<1>5. \E c \in Conns : c \notin open
  BY <1>3, <1>4
<1> QED
  BY <1>5 DEF NewConn

-----------------------------------------------------------------------------
(* Every step keeps it. *)

LEMMA SchemaSize ==
  /\ Len(Schema) = 13 /\ DOMAIN Schema = 1 .. 13
  /\ \A i \in 1 .. 13 : Schema[i] \in Objects
  /\ \A o \in Objects : \E i \in 1 .. 13 : o = Schema[i]
<1>1. Len(Schema) = 13 /\ DOMAIN Schema = 1 .. 13
  BY DEF Schema
<1> QED
  BY <1>1 DEF Objects

FileType ==
  /\ file \in [objects : SUBSET Objects, clients : 0..1, genres : BOOLEAN,
               damaged : BOOLEAN]
  /\ again \in BOOLEAN /\ owned \in BOOLEAN
  /\ pc \in Making \cup {"down", "delete", "proxy", "start", "loaded", "failed"}
  /\ object \in 1 .. Len(Schema) + 1 /\ faults \in 0..MaxFaults

LEMMA DatabaseTypes == (DbTypeOK <=> FileType /\ PoolType) /\ (DbTypeOK' <=> FileType' /\ PoolType')
BY DEF DbTypeOK, FileType, PoolType

LEMMA PoolInit == DbInit => PoolInv
<1> SUFFICES ASSUME DbInit PROVE PoolInv
    OBVIOUS
<1>1. Holding = {} /\ Lent = {} /\ Queued = {} /\ Sharing = {}
  BY DEF DbInit, Holding, Lent, Queued, Sharing
<1>2. PoolType
  BY <1>1 DEF DbInit, PoolType
<1> QED
  BY <1>1, <1>2 DEF DbInit, PoolInv, Lending, Phases, Exclusive, NothingLeaks

\* Who holds a connection depends on the handles only.
LEMMA Untouched ==
  ASSUME Lending, Exclusive, UNCHANGED <<queue, pool, open, prepared, user, holds>>
  PROVE  Lending' /\ Exclusive'
<1>1. Holding' = Holding /\ Lent' = Lent /\ Queued' = Queued
  BY DEF Holding, Lent, Queued
<1> QED
  BY <1>1 DEF Lending, Exclusive

LEMMA Added ==
  ASSUME PoolType, Lending, Exclusive, AddConn, NewConn \in Conns, NewConn \notin open,
         UNCHANGED <<prepared, user, holds>>
  PROVE  Lending' /\ Exclusive' /\ queue' \in Seq(Conns) /\ Queued' \subseteq pool'
<1> DEFINE c == NewConn
<1>1. queue \in Seq(Conns) /\ queue' = Append(queue, c) /\ open' = open \cup {c}
      /\ pool' = pool \cup {c} /\ c \in Conns /\ c \notin open
  BY DEF AddConn, PoolType
<1> HIDE DEF c
<1>2. Queued' = Queued \cup {c} /\ Distinct(queue') /\ queue' \in Seq(Conns)
  BY <1>1, AppendFree DEF Queued, Elements, Distinct, Exclusive, Lending
<1>3. Holding' = Holding /\ Lent' = Lent
  BY DEF Holding, Lent
<1>4. Lending'
  BY <1>1, <1>2, <1>3 DEF Lending
<1>5. \A u \in Holding : holds[u] \in open /\ holds[u] # c
  BY <1>1 DEF Exclusive
<1>6. Exclusive'
  BY <1>1, <1>2, <1>3, <1>5 DEF Exclusive, Distinct
<1> QED
  BY <1>1, <1>2, <1>4, <1>6 DEF Lending

\* Nobody holds a connection when the pool is closed.
LEMMA PoolClosed ==
  ASSUME PoolType, Lending, CloseAll(pool), Holding = {}, UNCHANGED <<prepared, holds>>,
         user' \in [Users -> {"idle", "sharing", "released"}]
  PROVE  Lending' /\ Exclusive' /\ PoolType' /\ open' = {}
<1>1. open' = {} /\ pool' = {} /\ queue' = <<>> /\ prepared' = {}
  BY DEF Lending, CloseAll, Lent
<1>2. Queued' = {} /\ Holding' = {} /\ Lent' = {} /\ queue' \in Seq(Conns)
  BY <1>1 DEF Queued, Holding, Lent
<1>3. PoolType'
  BY <1>1, <1>2 DEF PoolType
<1>4. \A u \in Users : holds'[u] = 0 /\ user'[u] # "holding"
  BY DEF Holding
<1> QED
  BY <1>1, <1>2, <1>3, <1>4 DEF Lending, Exclusive

\* A connection is taken and returned, for the proxy.
LEMMA Rotated ==
  ASSUME PoolType, Lending, Exclusive, queue # <<>>,
         queue' = Append(Tail(queue), Head(queue)),
         UNCHANGED <<pool, open, prepared, user, holds>>
  PROVE  Lending' /\ Exclusive' /\ PoolType'
<1> DEFINE rest == Tail(queue)
           first == Head(queue)
<1>1. first \in Conns /\ rest \in Seq(Conns) /\ Distinct(rest) /\ first \notin Elements(rest)
      /\ Queued = Elements(rest) \cup {first}
  <2>1. queue \in Seq(Conns) /\ Distinct(queue) /\ Queued = Elements(queue)
    BY DEF PoolType, Exclusive, Distinct, Queued, Elements
  <2> QED
    BY <2>1, TakeFree
<1> HIDE DEF rest, first
<1>2. queue' = Append(rest, first)
  BY DEF rest, first
<1>3. queue' \in Seq(Conns) /\ Queued' = Queued /\ Distinct(queue')
  <2> DEFINE back == Append(rest, first)
  <2>1. back \in Seq(Conns) /\ Elements(back) = Elements(rest) \cup {first} /\ Distinct(back)
    BY <1>1, AppendFree
  <2>2. queue' = back
    BY <1>2
  <2> HIDE DEF back
  <2> QED
    BY <1>1, <2>1, <2>2 DEF Queued, Elements
<1>4. PoolType' /\ Lending'
  BY <1>3 DEF Lending, PoolType, Holding, Lent
<1>5. Exclusive'
  BY <1>3 DEF Exclusive, Distinct, Holding
<1> QED
  BY <1>4, <1>5

LEMMA PoolCreate == PoolInv /\ (BeginCreate \/ CreateNext) => PoolInv'
<1> SUFFICES ASSUME PoolInv, BeginCreate \/ CreateNext
             PROVE  PoolInv'
    OBVIOUS
<1> USE DEF fileVars, poolVars, userVars, Goto, PoolInv
<1>1. Sharing = {} /\ UNCHANGED <<prepared, user, holds>>
  BY DEF Phases, BeginCreate, CreateNext, OpenFirst, CreateObject, DeleteClient,
    InsertClient, FillGenres, OpenMore, PoolMade, SqliteError, Making, DeleteFile,
    SetProxy, StartScheduler
<1>2. Sharing' = {} /\ Holding = {}
  BY <1>1 DEF Sharing, Lending, Holding
<1>3. user' \in [Users -> {"idle", "sharing", "released"}]
  BY <1>1 DEF Sharing, PoolType
<1>4. CASE BeginCreate \/ PoolMade \/ CreateObject \/ DeleteClient \/ InsertClient \/ FillGenres
           \/ DeleteFile
  <2>1. UNCHANGED <<queue, pool, open>>
    BY <1>4 DEF BeginCreate, PoolMade, CreateObject, DeleteClient, InsertClient, FillGenres,
      DeleteFile
  <2>2. PoolType' /\ Lending' /\ Exclusive'
    BY <1>1, <2>1, Untouched DEF PoolType, Queued
  <2>3. NothingLeaks'
    BY <1>1, <1>2, <1>4, <2>1, <2>2 DEF Phases, NothingLeaks, Lending, Making, BeginCreate,
      PoolMade, CreateObject, DeleteClient, InsertClient, FillGenres, DeleteFile
  <2>4. ASSUME PoolMade PROVE Phases'
    <3>1. pool # {}
      BY <2>4, FS_EmptySet, DatabaseAssumption DEF PoolMade
    <3>2. queue' # <<>>
      BY <1>2, <2>1, <3>1 DEF Lending, Queued, Lent
    <3> QED
      BY <1>2, <2>4, <3>2 DEF Phases, PoolMade
  <2>5. ASSUME ~PoolMade PROVE Phases'
    BY <1>1, <1>2, <1>4, <2>1, <2>5 DEF Phases, NothingLeaks, Lending, Making, BeginCreate,
      CreateObject, DeleteClient, InsertClient, FillGenres, DeleteFile
  <2> QED
    BY <2>2, <2>3, <2>4, <2>5
<1>5. CASE OpenFirst \/ OpenMore
  <2>1. NewConn \in Conns /\ NewConn \notin open /\ AddConn
    BY <1>5, ConnectionLeft DEF OpenFirst, OpenMore
  <2>2. Lending' /\ Exclusive' /\ queue' \in Seq(Conns) /\ Queued' \subseteq pool'
    BY <1>1, <2>1, Added
  <2>3. PoolType'
    BY <1>1, <2>1, <2>2 DEF PoolType, AddConn
  <2>4. Phases' /\ NothingLeaks'
    BY <1>1, <1>2, <1>5, <2>2 DEF Phases, NothingLeaks, Lending, Making, OpenFirst, OpenMore
  <2> QED
    BY <2>2, <2>3, <2>4
<1>6. CASE SqliteError
  <2>1. Lending' /\ Exclusive' /\ open' = {} /\ PoolType'
    BY <1>1, <1>2, <1>3, <1>6, PoolClosed DEF SqliteError
  <2>2. Phases' /\ NothingLeaks'
    BY <1>1, <1>2, <1>6, <2>1 DEF Phases, NothingLeaks, Lending, Making, SqliteError
  <2> QED
    BY <2>1, <2>2
<1>7. CASE SetProxy
  <2>1. queue # <<>> /\ open' = open
    BY <1>7 DEF SetProxy, Phases
  <2>2. Lending' /\ Exclusive' /\ PoolType'
    BY <1>1, <1>7, <2>1, Rotated DEF SetProxy
  <2>3. Phases' /\ NothingLeaks'
    BY <1>1, <1>2, <1>7, <2>1, <2>2 DEF Phases, NothingLeaks, Lending, Making, SetProxy
  <2> QED
    BY <2>2, <2>3
<1>8. CASE StartScheduler
  <2>1. CASE Goto("loaded") /\ UNCHANGED <<poolVars, faults>>
    <3>1. PoolType' /\ Lending' /\ Exclusive'
      BY <1>1, <2>1, Untouched DEF PoolType, Queued
    <3>2. Phases' /\ NothingLeaks'
      BY <1>1, <1>2, <1>8, <2>1, <3>1 DEF Phases, NothingLeaks, Lending, StartScheduler
    <3> QED
      BY <3>1, <3>2
  <2>2. CASE Goto("failed") /\ Fault /\ owned' = FALSE /\ CloseAll(pool)
    <3>1. Lending' /\ Exclusive' /\ open' = {} /\ PoolType'
      BY <1>1, <1>2, <1>3, <2>2, PoolClosed
    <3>2. Phases' /\ NothingLeaks'
      BY <1>1, <1>2, <2>2, <3>1 DEF Phases, NothingLeaks, Lending
    <3> QED
      BY <3>1, <3>2
  <2> QED
    BY <1>8, <2>1, <2>2 DEF StartScheduler
<1> QED
  BY <1>4, <1>5, <1>6, <1>7, <1>8 DEF CreateNext

\* What the users hold after one has taken or returned a connection.
LEMMA Lends ==
  ASSUME PoolType, NEW u \in Users, NEW c, c # 0, holds[u] = 0,
         holds' = [holds EXCEPT ![u] = c]
  PROVE  /\ Holding' = Holding \cup {u} /\ Lent' = Lent \cup {c}
         /\ Lending /\ Exclusive /\ c \notin Lent =>
              \A v, w \in Holding' : v # w => holds'[v] # holds'[w]
<1>1. holds' \in [Users -> {0, c} \cup Conns] /\ holds'[u] = c
      /\ \A v \in Users : v # u => holds'[v] = holds[v]
  BY DEF PoolType
<1>2. Holding' = Holding \cup {u} /\ u \notin Holding
  BY <1>1 DEF Holding
<1>3. Lent' = Lent \cup {c}
  BY <1>1, <1>2 DEF Lent, Holding
<1> QED
  BY <1>1, <1>2, <1>3 DEF Lent, Exclusive, Holding

LEMMA Returns ==
  ASSUME PoolType, Exclusive, NEW u \in Users, holds[u] # 0,
         holds' = [holds EXCEPT ![u] = 0]
  PROVE  /\ Holding' = Holding \ {u} /\ Lent' = Lent \ {holds[u]} /\ holds[u] \in Lent
         /\ \A v, w \in Holding' : v # w => holds'[v] # holds'[w]
<1>1. holds' \in [Users -> {0} \cup Conns] /\ holds'[u] = 0
      /\ \A v \in Users : v # u => holds'[v] = holds[v]
  BY DEF PoolType
<1>2. Holding' = Holding \ {u} /\ u \in Holding
  BY <1>1 DEF Holding
<1>3. Lent' = Lent \ {holds[u]} /\ holds[u] \in Lent
  BY <1>1, <1>2 DEF Lent, Holding, Exclusive
<1> QED
  BY <1>1, <1>2, <1>3 DEF Exclusive, Holding

\* Exclusive, without the users.
LEMMA ExclusiveLent ==
  /\ Exclusive => Lent \subseteq open \ Queued /\ Distinct(queue)
  /\ Exclusive' <=>
       /\ Lent' \subseteq open' \ Queued' /\ Distinct(queue')
       /\ \A v, w \in Holding' : v # w => holds'[v] # holds'[w]
BY DEF Exclusive, Lent, Distinct

\* A connection whose statement is finalized is given back.
LEMMA GivenBack ==
  ASSUME PoolType, Lending, Exclusive, NEW u \in Users, user[u] = "holding",
         prepared' = prepared \ {holds[u]}, UNCHANGED <<pool, open>>,
         queue' = Append(queue, holds[u]), holds' = [holds EXCEPT ![u] = 0],
         user' = [user EXCEPT ![u] = "released"]
  PROVE  Lending' /\ Exclusive' /\ PoolType' /\ Sharing' = Sharing
<1> DEFINE c == holds[u]
<1>1. c # 0 /\ c \in Conns /\ c \in Lent
  BY DEF Lending, PoolType, Lent, Holding
<1>2. c \notin Queued /\ queue \in Seq(Conns) /\ Distinct(queue) /\ Queued = Elements(queue)
  BY <1>1, ExclusiveLent DEF PoolType, Elements, Queued
<1>3. queue' = Append(queue, c) /\ prepared' = prepared \ {c}
  OBVIOUS
<1>4. /\ Holding' = Holding \ {u} /\ Lent' = Lent \ {c}
      /\ \A v, w \in Holding' : v # w => holds'[v] # holds'[w]
  BY <1>1, Returns
<1> HIDE DEF c
<1>5. queue' \in Seq(Conns) /\ Queued' = Queued \cup {c} /\ Distinct(queue')
  <2> DEFINE back == Append(queue, c)
  <2>1. back \in Seq(Conns) /\ Elements(back) = Elements(queue) \cup {c} /\ Distinct(back)
    BY <1>1, <1>2, AppendFree
  <2>2. queue' = back
    BY <1>3
  <2> HIDE DEF back
  <2> QED
    BY <1>2, <2>1, <2>2 DEF Queued, Elements
<1>6. \A v \in Users : holds'[v] # 0 <=> user'[v] = "holding"
  BY DEF Lending, PoolType
<1>7. PoolType'
  BY <1>1, <1>3, <1>5 DEF PoolType, Lending
<1>8. Lending'
  BY <1>1, <1>3, <1>4, <1>5, <1>6 DEF Lending
<1>9. Exclusive'
  BY <1>1, <1>4, <1>5, ExclusiveLent DEF Lending
<1>10. Sharing' = Sharing
  BY DEF Sharing, PoolType
<1> QED
  BY <1>7, <1>8, <1>9, <1>10

\* The steps of the users.
LEMMA PoolUse ==
  ASSUME PoolInv, NEW u \in Users, CopyPool(u) \/ Prepare(u) \/ UserNext(u)
  PROVE  PoolInv'
<1> USE DEF fileVars, poolVars, userVars, Goto, PoolInv
<1>1. UNCHANGED <<pc, owned>> /\ \A v \in Users \ {u} : user'[v] = user[v] /\ holds'[v] = holds[v]
  BY DEF CopyPool, Prepare, UserNext, Acquire, AcquireNew, Release, DropPool, Execute, PoolType
<1>2. pc \in {"down", "loaded"}
  <2>1. CASE user[u] # "idle"
    BY <2>1 DEF Phases, Sharing
  <2>2. CASE user[u] = "idle"
    BY <2>2 DEF CopyPool, Prepare, UserNext, Acquire, AcquireNew, Release, DropPool, Execute
  <2> QED
    BY <2>1, <2>2
<1>3. NothingLeaks' => Phases' 
  BY <1>1, <1>2 DEF Phases
<1>4. CASE CopyPool(u)
  <2>1. UNCHANGED <<queue, pool, open, prepared, holds>> /\ user[u] = "idle"
        /\ user' = [user EXCEPT ![u] = "sharing"]
    BY <1>4 DEF CopyPool
  <2>2. Holding' = Holding /\ Lent' = Lent /\ Queued' = Queued
    BY <2>1 DEF Holding, Lent, Queued
  <2>3. PoolType' /\ Lending' /\ Exclusive'
    BY <2>1, <2>2 DEF PoolType, Lending, Exclusive
  <2>4. NothingLeaks'
    BY <1>1, <2>1, <2>3 DEF NothingLeaks, Lending, Sharing, PoolType
  <2> QED
    BY <1>3, <2>3, <2>4
<1>5. CASE Acquire(u)
  <2> DEFINE c == Head(queue)
             rest == Tail(queue)
  <2>1. queue \in Seq(Conns) /\ queue # <<>> /\ Distinct(queue) /\ Queued = Elements(queue)
    BY <1>5 DEF Acquire, PoolType, Exclusive, Distinct, Queued, Elements
  <2>2. c \in Conns /\ rest \in Seq(Conns) /\ Distinct(rest) /\ c \notin Elements(rest)
        /\ Queued = Elements(rest) \cup {c}
    BY <2>1, TakeFree
  <2>3. queue' = rest /\ holds' = [holds EXCEPT ![u] = c]
        /\ user[u] = "sharing" /\ user' = [user EXCEPT ![u] = "holding"]
        /\ UNCHANGED <<pool, open, prepared>>
    BY <1>5 DEF Acquire
  <2> HIDE DEF c, rest
  <2>4. Queued' = Elements(rest)
    BY <2>3 DEF Queued, Elements
  <2>5. c # 0 /\ holds[u] = 0 /\ c \notin Lent
    BY <2>2, <2>3, DatabaseAssumption DEF Lending, Exclusive, Lent, Holding
  <2>6. /\ Holding' = Holding \cup {u} /\ Lent' = Lent \cup {c}
        /\ \A v, w \in Holding' : v # w => holds'[v] # holds'[w]
    BY <2>3, <2>5, Lends
  <2>7. PoolType'
    BY <2>2, <2>3, <2>4 DEF PoolType
  <2>8. \A v \in Users : holds'[v] # 0 <=> user'[v] = "holding"
    BY <1>1, <2>3, <2>5 DEF Lending, PoolType
  <2>9. Lending'
    BY <2>2, <2>3, <2>4, <2>6, <2>8 DEF Lending
  <2>10. Exclusive'
    BY <2>2, <2>3, <2>4, <2>6, ExclusiveLent DEF Lending
  <2>11. NothingLeaks'
    BY <1>1, <2>3, <2>9 DEF NothingLeaks, Lending, Sharing, PoolType
  <2> QED
    BY <1>3, <2>7, <2>9, <2>10, <2>11
<1>6. CASE AcquireNew(u)
  <2> DEFINE c == NewConn
  <2>1. user[u] = "sharing" /\ queue = <<>> /\ UNCHANGED <<queue, prepared>>
    BY <1>6 DEF AcquireNew
  <2>2. c \in Conns /\ c \notin open
    BY <2>1, ConnectionLeft
  <2>3. Queued' = Queued
    BY <2>1 DEF Queued
  <2>4. CASE holds' # holds
    <3>1. open' = open \cup {c} /\ pool' = pool \cup {c} /\ holds' = [holds EXCEPT ![u] = c]
          /\ user' = [user EXCEPT ![u] = "holding"]
      BY <1>6, <2>4 DEF AcquireNew
    <3> HIDE DEF c
    <3>2. c # 0 /\ holds[u] = 0 /\ c \notin Lent /\ c \notin Queued
      BY <2>1, <2>2, DatabaseAssumption DEF Lending
    <3>3. /\ Holding' = Holding \cup {u} /\ Lent' = Lent \cup {c}
          /\ \A v, w \in Holding' : v # w => holds'[v] # holds'[w]
      BY <3>1, <3>2, Lends
    <3>4. \A v \in Users : holds'[v] # 0 <=> user'[v] = "holding"
      BY <1>1, <3>1, <3>2 DEF Lending, PoolType
    <3>5. PoolType'
      BY <2>1, <2>2, <2>3, <3>1 DEF PoolType
    <3>6. Lending'
      BY <2>1, <2>3, <3>1, <3>3, <3>4 DEF Lending
    <3>7. Exclusive'
      BY <2>1, <2>3, <3>1, <3>2, <3>3, ExclusiveLent DEF Lending
    <3>8. NothingLeaks'
      BY <1>1, <3>1, <3>6 DEF NothingLeaks, Lending, Sharing, PoolType
    <3> QED
      BY <1>3, <3>5, <3>6, <3>7, <3>8
  <2>5. CASE holds' = holds
    <3>1. holds' # [holds EXCEPT ![u] = c]
      BY <2>1, <2>2, <2>5, DatabaseAssumption DEF PoolType, Lending
    <3>2. UNCHANGED <<open, pool>> /\ user' = [user EXCEPT ![u] = "released"]
      BY <1>6, <3>1 DEF AcquireNew
    <3> HIDE DEF c
    <3>3. Holding' = Holding /\ Lent' = Lent
      BY <2>5 DEF Holding, Lent
    <3>4. PoolType'
      BY <2>1, <2>3, <2>5, <3>2 DEF PoolType
    <3>5. \A v \in Users : user'[v] = "holding" <=> user[v] = "holding"
      BY <2>1, <3>2 DEF PoolType
    <3>6. Lending'
      BY <2>1, <2>3, <2>5, <3>2, <3>3, <3>5 DEF Lending
    <3>7. Exclusive'
      BY <2>1, <2>3, <2>5, <3>2, <3>3 DEF Exclusive
    <3>8. NothingLeaks'
      BY <1>1, <2>1, <3>2, <3>6 DEF NothingLeaks, Lending, Sharing, PoolType
    <3> QED
      BY <1>3, <3>4, <3>6, <3>7, <3>8
  <2> QED
    BY <2>4, <2>5
<1>7. CASE Release(u)
  <2>1. Lending' /\ Exclusive' /\ PoolType' /\ UNCHANGED open /\ Sharing' = Sharing
    BY <1>7, GivenBack DEF Release
  <2> QED
    BY <1>1, <1>3, <2>1 DEF NothingLeaks, Lending
<1>8. CASE Prepare(u)
  <2>1. UNCHANGED <<queue, pool, open, user, holds>> /\ holds[u] \in Lent
        /\ prepared' = prepared \cup {holds[u]}
    BY <1>8 DEF Prepare, Lending, Lent, Holding
  <2>2. Holding' = Holding /\ Lent' = Lent /\ Queued' = Queued /\ Sharing' = Sharing
    BY <2>1 DEF Holding, Lent, Queued, Sharing
  <2> QED
    BY <1>1, <1>3, <2>1, <2>2 DEF PoolType, Lending, Exclusive, NothingLeaks
<1>9. CASE Execute(u)
  <2>1. CASE UNCHANGED <<queue, userVars>>
    <3>1. Holding' = Holding /\ Lent' = Lent /\ Queued' = Queued /\ Sharing' = Sharing
      BY <2>1 DEF Holding, Lent, Queued, Sharing
    <3>2. UNCHANGED <<pool, open, queue, user, holds>> /\ prepared' \subseteq prepared
      BY <1>9, <2>1 DEF Execute
    <3> QED
      BY <1>1, <1>3, <3>1, <3>2 DEF PoolType, Lending, Exclusive, NothingLeaks
  <2>2. CASE ~UNCHANGED <<queue, userVars>>
    <3>1. Lending' /\ Exclusive' /\ PoolType' /\ UNCHANGED open /\ Sharing' = Sharing
      BY <1>9, <2>2, GivenBack DEF Execute
    <3> QED
      BY <1>1, <1>3, <3>1 DEF NothingLeaks, Lending
  <2> QED
    BY <2>1, <2>2
<1>10. CASE DropPool(u)
  <2>1. user[u] = "released" /\ user' = [user EXCEPT ![u] = "idle"] /\ UNCHANGED <<prepared, holds>>
    BY <1>10 DEF DropPool
  <2>2. Holding' = Holding /\ Lent' = Lent /\ Sharing' = Sharing \ {u}
    BY <2>1 DEF Holding, Lent, Sharing, PoolType
  <2>3. CASE owned \/ Sharing # {u}
    <3>1. UNCHANGED <<queue, pool, open>> /\ Queued' = Queued
      BY <1>10, <2>3 DEF DropPool, Queued
    <3>2. PoolType' /\ Lending' /\ Exclusive'
      BY <2>1, <2>2, <3>1 DEF PoolType, Lending, Exclusive
    <3>3. NothingLeaks'
      BY <1>1, <2>2, <2>3, <3>1, <3>2 DEF NothingLeaks, Lending, Sharing
    <3> QED
      BY <1>3, <3>2, <3>3
  <2>4. CASE ~(owned \/ Sharing # {u})
    <3>1. Holding = {} /\ user' \in [Users -> {"idle", "sharing", "released"}]
      BY <2>1, <2>4 DEF Sharing, Holding, Lending, PoolType
    <3>2. Lending' /\ Exclusive' /\ PoolType' /\ open' = {}
      BY <1>10, <2>1, <2>4, <3>1, PoolClosed DEF DropPool
    <3> QED
      BY <1>1, <1>3, <3>2 DEF NothingLeaks, Lending
  <2> QED
    BY <2>3, <2>4
<1> QED
  BY <1>4, <1>5, <1>6, <1>7, <1>8, <1>9, <1>10 DEF UserNext

LEMMA PoolNext == PoolInv /\ [DbNext]_dbVars => PoolInv'
<1> SUFFICES ASSUME PoolInv, [DbNext]_dbVars
             PROVE  PoolInv'
    OBVIOUS
<1> USE DEF PoolInv
<1>1. CASE BeginCreate \/ CreateNext
  BY <1>1, PoolCreate
<1>2. ASSUME NEW u \in Users, CopyPool(u) \/ Prepare(u) \/ UserNext(u) PROVE PoolInv'
  BY <1>2, PoolUse
<1>3. CASE DbDestroy
  <2>1. pc' = "down" /\ ~owned' /\ UNCHANGED <<prepared, user, holds>>
    BY <1>3 DEF DbDestroy, Goto, userVars
  <2>2. Phases'
    BY <2>1 DEF Phases
  <2>3. CASE owned /\ Sharing = {}
    <3>1. Holding = {} /\ user' \in [Users -> {"idle", "sharing", "released"}]
      BY <2>1, <2>3 DEF Sharing, Holding, Lending, PoolType
    <3>2. Lending' /\ Exclusive' /\ PoolType' /\ open' = {}
      BY <1>3, <2>1, <2>3, <3>1, PoolClosed DEF DbDestroy
    <3> QED
      BY <2>2, <3>2 DEF NothingLeaks, Lending
  <2>4. CASE ~(owned /\ Sharing = {})
    <3>1. UNCHANGED <<queue, pool, open>>
      BY <1>3, <2>4 DEF DbDestroy
    <3>2. Holding' = Holding /\ Lent' = Lent /\ Queued' = Queued /\ Sharing' = Sharing
      BY <2>1, <3>1 DEF Holding, Lent, Queued, Sharing
    <3>3. open # {} => Sharing # {}
      BY <1>3, <2>4 DEF DbDestroy, NothingLeaks, Phases, Making
    <3> QED
      BY <2>1, <2>2, <3>1, <3>2, <3>3 DEF PoolType, Lending, Exclusive, NothingLeaks
  <2> QED
    BY <2>3, <2>4
<1>4. CASE Crash
  <2>1. /\ pc' = "down" /\ ~owned' /\ queue' = <<>> /\ pool' = {} /\ open' = {}
        /\ prepared' = {} /\ user' = [u \in Users |-> "idle"] /\ holds' = [u \in Users |-> 0]
    BY <1>4 DEF Crash, Goto
  <2>2. Holding' = {} /\ Lent' = {} /\ Queued' = {} /\ queue' \in Seq(Conns)
    BY <2>1 DEF Holding, Lent, Queued
  <2>3. PoolType'
    BY <2>1, <2>2 DEF PoolType
  <2> QED
    BY <2>1, <2>2, <2>3 DEF Lending, Exclusive, NothingLeaks, Phases
<1>5. CASE UNCHANGED dbVars
  <2>1. UNCHANGED <<pc, owned, queue, pool, open, prepared, user, holds>>
    BY <1>5 DEF dbVars, poolVars, userVars
  <2>2. Holding' = Holding /\ Lent' = Lent /\ Queued' = Queued /\ Sharing' = Sharing
    BY <2>1 DEF Holding, Lent, Queued, Sharing
  <2> QED
    BY <2>1, <2>2 DEF PoolType, Lending, Exclusive, Phases, NothingLeaks
<1> QED
  BY <1>1, <1>2, <1>3, <1>4, <1>5 DEF DbNext

\* connectionpool::acquire and its handles: however connections are acquired, released and
\* closed, by whichever of any number of users comes last, the connection of a handle is
\* open and its own.
THEOREM ConnectionsAreExclusive == DbSpec => []Exclusive
<1>1. PoolInv => Exclusive
  BY DEF PoolInv
<1> QED
  BY <1>1, PoolInit, PoolNext, PTL DEF DbSpec

\* ~connectionpool and the statements that are finalized on every way out: no connection is
\* lost, and none outlives the pool.
THEOREM ConnectionsAreClosed == DbSpec => []NothingLeaks
<1>1. PoolInv => NothingLeaks
  BY DEF PoolInv
<1> QED
  BY <1>1, PoolInit, PoolNext, PTL DEF DbSpec

-----------------------------------------------------------------------------
(* The pool as it is promised: every step of the code is one of the promise, or none. *)

LEMMA InitPool == DbInit => Pool!Init
BY DEF DbInit, Pool!Init, Sharing, Making

LEMMA SameLent == Pool!Lent = Lent
BY DEF Pool!Lent, Lent, Holding

\* A step that changes neither who shares the pool nor its connections.
LEMMA PoolStutters ==
  ASSUME UNCHANGED <<open, user, holds>>, owned' \/ pc' \in Making <=> owned \/ pc \in Making
  PROVE  UNCHANGED Pool!vars
BY DEF Pool!vars, Sharing

LEMMA NextPool == PoolInv /\ [DbNext]_dbVars => [Pool!Next]_(Pool!vars)
<1> SUFFICES ASSUME PoolInv, [DbNext]_dbVars PROVE Pool!Next \/ UNCHANGED Pool!vars
  OBVIOUS
<1> USE DEF fileVars, poolVars, userVars, Goto
<1>a. /\ queue \in Seq(Conns) /\ Queued \subseteq pool /\ open \subseteq Conns
      /\ user \in [Users -> {"idle", "sharing", "holding", "released"}]
      /\ holds \in [Users -> {0} \cup Conns]
      /\ \A u \in Users : holds[u] # 0 <=> user[u] = "holding"
      /\ open = pool /\ open = Queued \cup Lent /\ prepared \subseteq Lent
  BY DEF PoolInv, PoolType, Lending
<1>b. /\ pc \notin {"down", "loaded"} => Sharing = {}
      /\ owned => pc \in {"proxy", "start", "loaded", "failed"}
      /\ pc \in {"proxy", "start", "loaded"} => owned
      /\ pc \in {"open", "delete"} => open = {}
      /\ open # {} => owned \/ Sharing # {} \/ pc \in Making
  BY DEF PoolInv, Phases, NothingLeaks
<1>c. Sharing = {} => Lent = {} /\ prepared = {}
  BY <1>a DEF Sharing, Lent, Holding
<1>d. UNCHANGED user => UNCHANGED Sharing
  BY DEF Sharing
<1>1. CASE BeginCreate \/ DeleteFile
  <2>1. Pool!Make
    BY <1>1, <1>b, <1>d DEF BeginCreate, DeleteFile, Pool!Make, Making
  <2> QED
    BY <2>1 DEF Pool!Next
<1>2. CASE OpenFirst \/ OpenMore
  <2>1. NewConn \in Conns /\ NewConn \notin open
    BY <1>2, ConnectionLeft DEF OpenFirst, OpenMore
  <2>2. Pool!Fill(NewConn)
    BY <1>2, <1>b, <1>d, <2>1 DEF OpenFirst, OpenMore, AddConn, Pool!Fill, Making
  <2> QED
    BY <2>1, <2>2 DEF Pool!Next
<1>3. CASE CreateObject \/ DeleteClient \/ InsertClient \/ FillGenres \/ PoolMade \/ SetProxy
  BY <1>3, <1>b, PoolStutters
  DEF CreateObject, DeleteClient, InsertClient, FillGenres, PoolMade, SetProxy, Making
<1>4. CASE SqliteError
  <2>1. open' = {} /\ ~owned /\ ~owned' /\ pc \in Making /\ pc' \notin Making /\ Sharing = {}
    BY <1>4, <1>a, <1>b, <1>c DEF SqliteError, CloseAll, Making
  <2>2. Pool!Reset
    BY <1>4, <1>d, <2>1 DEF SqliteError, Pool!Reset, Pool!Close
  <2> QED
    BY <2>2 DEF Pool!Next
<1>5. CASE StartScheduler
  <2>1. CASE owned'
    BY <1>5, <1>b, <2>1, PoolStutters DEF StartScheduler, CloseAll, Making
  <2>2. CASE ~owned'
    <3>1. open' = {} /\ owned /\ Sharing = {} /\ pc' = "failed"
      BY <1>5, <1>a, <1>b, <1>c, <2>2 DEF StartScheduler, CloseAll
    <3>2. Pool!Reset
      BY <1>5, <1>d, <2>2, <3>1 DEF StartScheduler, Making, Pool!Reset, Pool!Close
    <3> QED
      BY <3>2 DEF Pool!Next
  <2> QED
    BY <2>1, <2>2
<1>6. ASSUME NEW u \in Users, CopyPool(u) PROVE Pool!Next
  <2>1. Sharing' = Sharing \cup {u} /\ u \notin Sharing /\ owned /\ pc' \notin Making
    BY <1>6, <1>a, <1>b DEF CopyPool, Sharing, Making
  <2>2. Pool!Join(u)
    BY <1>6, <2>1 DEF CopyPool, Pool!Join, Making
  <2> QED
    BY <2>2 DEF Pool!Next
<1>7. ASSUME NEW u \in Users, Acquire(u) PROVE Pool!Next
  <2> DEFINE c == Head(queue)
  <2>1. c \in Queued /\ c \in Conns /\ c \in open /\ c \notin Lent
    BY <1>7, <1>a DEF Acquire, Queued, PoolInv, Exclusive, Lent
  <2>2. Sharing' = Sharing /\ u \in Sharing /\ holds[u] = 0
    BY <1>7, <1>a DEF Acquire, Sharing
  <2>3. Pool!Borrow(u, c)
    BY <1>7, <2>1, <2>2, SameLent DEF Acquire, Pool!Borrow, Making
  <2> QED
    BY <2>1, <2>3 DEF Pool!Next
<1>8. ASSUME NEW u \in Users, AcquireNew(u) PROVE Pool!Next \/ UNCHANGED Pool!vars
  <2> DEFINE c == NewConn
  <2>1. c \in Conns /\ c \notin open
    BY <1>8, ConnectionLeft DEF AcquireNew
  <2>2. Sharing' = Sharing /\ u \in Sharing /\ holds[u] = 0
    BY <1>8, <1>a DEF AcquireNew, Sharing
  <2>3. open = Lent /\ c \notin Lent
    BY <1>8, <1>a, <2>1 DEF AcquireNew, Queued
  <2>4. CASE UNCHANGED <<open, pool, holds>>
    BY <1>8, <2>2, <2>4 DEF AcquireNew, Pool!vars
  <2>5. CASE open' = open \cup {NewConn} /\ holds' = [holds EXCEPT ![u] = NewConn]
    <3>1. Pool!Borrow(u, c)
      BY <1>8, <2>1, <2>2, <2>3, <2>5, SameLent DEF AcquireNew, Pool!Borrow
    <3> QED
      BY <2>1, <3>1 DEF Pool!Next
  <2> QED
    BY <1>8, <2>4, <2>5 DEF AcquireNew
<1>9. ASSUME NEW u \in Users, Release(u) \/ Execute(u) \/ Prepare(u)
      PROVE  Pool!Next \/ UNCHANGED Pool!vars
  <2>1. CASE UNCHANGED <<open, user, holds, owned, pc>>
    BY <2>1, PoolStutters
  <2>2. CASE /\ holds' = [holds EXCEPT ![u] = 0] /\ user' = [user EXCEPT ![u] = "released"]
             /\ UNCHANGED <<open, owned, pc>>
    <3>1. holds[u] # 0 /\ Sharing' = Sharing
      BY <1>9, <1>a, <2>2 DEF Release, Execute, Prepare, Sharing
    <3>2. Pool!GiveBack(u)
      BY <2>2, <3>1 DEF Pool!GiveBack
    <3> QED
      BY <3>2 DEF Pool!Next
  <2> QED
    BY <1>9, <2>1, <2>2 DEF Release, Execute, Prepare
<1>10. ASSUME NEW u \in Users, DropPool(u) PROVE Pool!Next
  <2>1. u \in Sharing /\ Sharing' = Sharing \ {u} /\ holds[u] = 0 /\ UNCHANGED <<owned, pc, holds>>
    BY <1>10, <1>a DEF DropPool, Sharing
  <2>2. pc \notin Making
    BY <1>b, <2>1 DEF Making
  <2>3. open' = IF owned \/ Sharing' # {} THEN open ELSE {}
    <3>1. CASE owned \/ Sharing # {u}
      BY <1>10, <2>1, <3>1 DEF DropPool
    <3>2. CASE ~(owned \/ Sharing # {u})
      <4>1. prepared = {}
        BY <1>a, <2>1, <3>2 DEF Lent, Holding, Sharing
      <4> QED
        BY <1>10, <1>a, <2>1, <3>2, <4>1 DEF DropPool, CloseAll
    <3> QED
      BY <3>1, <3>2
  <2>4. Pool!Leave(u)
    BY <2>1, <2>2, <2>3 DEF Pool!Leave, Pool!Close
  <2> QED
    BY <2>4 DEF Pool!Next
<1>11. CASE DbDestroy
  <2>1. Sharing' = Sharing /\ ~owned' /\ pc \notin Making /\ pc' \notin Making /\ UNCHANGED holds
    BY <1>11, <1>d DEF DbDestroy, Making
  <2>2. CASE owned
    <3>1. open' = IF Sharing' # {} THEN open ELSE {}
      BY <1>11, <1>a, <1>c, <2>1, <2>2 DEF DbDestroy, CloseAll
    <3>2. Pool!Reset
      BY <2>1, <2>2, <3>1 DEF Pool!Reset, Pool!Close
    <3> QED
      BY <3>2 DEF Pool!Next
  <2>3. CASE ~owned
    BY <1>11, <2>1, <2>3, PoolStutters DEF DbDestroy
  <2> QED
    BY <2>2, <2>3
<1>12. CASE Crash
  <2>1. Pool!Crash
    BY <1>12 DEF Crash, Pool!Crash, Sharing, Making
  <2> QED
    BY <2>1 DEF Pool!Next
<1>13. CASE UNCHANGED dbVars
  BY <1>13, PoolStutters DEF dbVars
<1> QED
  BY <1>1, <1>2, <1>3, <1>4, <1>5, <1>6, <1>7, <1>8, <1>9, <1>10, <1>11, <1>12, <1>13
  DEF DbNext, CreateNext, UserNext

\* connectionpool and its handles, with their queue, lock and shared ownership, keep the
\* promise of the abstract pool: connections of one's own, new ones only if all are in use,
\* all closed by whoever shares the pool last.
THEOREM PoolIsImplemented == DbSpec => ImplementsPool
<1> QED
  BY InitPool, NextPool, PoolInit, PoolNext, PTL DEF DbSpec, ImplementsPool, Pool!Spec

-----------------------------------------------------------------------------
(* What is durable. *)

\* How far the schema has been made, and the types of the file.
SchemaInv ==
  /\ FileType
  /\ pc = "schema" => \A i \in DOMAIN Schema : i < object => Schema[i] \in file.objects
  /\ pc \in {"client", "genres", "more", "proxy", "start", "loaded"} => Objects \subseteq file.objects
  /\ pc = "client" => file.clients = 0
  /\ pc \in {"genres", "more", "proxy", "start", "loaded"} => file.clients = 1
  /\ pc \in {"more", "proxy", "start", "loaded"} => file.genres

LEMMA SchemaNext == SchemaInv /\ [DbNext]_dbVars => SchemaInv'
<1> SUFFICES ASSUME SchemaInv, [DbNext]_dbVars
             PROVE  SchemaInv'
    OBVIOUS
<1> USE DEF fileVars, poolVars, userVars, Goto, SchemaInv, FileType
<1>1. Fault => faults' \in 0..MaxFaults
  BY DatabaseAssumption DEF Fault
<1>2. CASE BeginCreate \/ OpenFirst
  <2>1. object' = 1 /\ object' \in 1 .. Len(Schema) + 1
    BY <1>2, SchemaSize DEF BeginCreate, OpenFirst
  <2>2. \A i \in DOMAIN Schema : ~(i < object')
    BY <2>1, SchemaSize
  <2>3. UNCHANGED <<file, owned, faults>> /\ again' \in BOOLEAN /\ pc' \in {"open", "schema"}
    BY <1>2 DEF BeginCreate, OpenFirst
  <2> QED
    BY <2>1, <2>2, <2>3 DEF Making
<1>3. CASE CreateObject
  BY <1>3, SchemaSize DEF CreateObject
<1>4. CASE DeleteClient
  BY <1>4, SchemaSize DEF DeleteClient, Making
<1>5. CASE InsertClient
  BY <1>5 DEF InsertClient, Making
<1>6. CASE FillGenres
  BY <1>6 DEF FillGenres, Making
<1>7. CASE OpenMore \/ PoolMade
  BY <1>7 DEF OpenMore, PoolMade, Making
<1>8. CASE SqliteError
  BY <1>1, <1>8 DEF SqliteError, Making
<1>9. CASE DeleteFile
  <2>1. NoFile \in [objects : SUBSET Objects, clients : 0..1, genres : BOOLEAN, damaged : BOOLEAN]
    BY DEF NoFile
  <2>2. file' \in {file, NoFile} /\ pc' = "open" /\ again' /\ UNCHANGED <<object, owned>>
        /\ (faults' = faults \/ Fault)
    BY <1>9 DEF DeleteFile
  <2> QED
    BY <1>1, <2>1, <2>2 DEF Making
<1>10. CASE SetProxy \/ StartScheduler
  BY <1>1, <1>10 DEF SetProxy, StartScheduler, Making
<1>11. ASSUME NEW u \in Users, CopyPool(u) \/ Prepare(u) \/ UserNext(u) PROVE SchemaInv'
  BY <1>1, <1>11 DEF CopyPool, Prepare, UserNext, Acquire, AcquireNew, Release, DropPool, Execute
<1>12. CASE DbDestroy \/ Crash
  BY <1>1, <1>12 DEF DbDestroy, Crash
<1>13. CASE UNCHANGED dbVars
  BY <1>13 DEF dbVars
<1> QED
  BY <1>2, <1>3, <1>4, <1>5, <1>6, <1>7, <1>8, <1>9, <1>10, <1>11, <1>12, <1>13 DEF DbNext, CreateNext

LEMMA SchemaInit == DbInit => SchemaInv
<1> SUFFICES ASSUME DbInit PROVE SchemaInv
    OBVIOUS
<1>1. file \in [objects : SUBSET Objects, clients : 0..1, genres : BOOLEAN, damaged : BOOLEAN]
  BY DEF DbInit, NoFile
<1>2. object \in 1 .. Len(Schema) + 1 /\ faults \in 0..MaxFaults
  BY DatabaseAssumption, SchemaSize DEF DbInit
<1> QED
  BY <1>1, <1>2 DEF DbInit, SchemaInv, FileType, Making

\* Types.
THEOREM DatabaseTypeCorrect == DbSpec => []DbTypeOK
<1>1. SchemaInv /\ PoolInv => DbTypeOK
  BY DatabaseTypes DEF SchemaInv, PoolInv
<1> QED
  BY <1>1, SchemaInit, SchemaNext, PoolInit, PoolNext, PTL DEF DbSpec

\* addon::Create and open_database: wherever the process ended and whatever failed before,
\* an addon that is loaded has the whole schema, one client identifier and the genres.
THEOREM SchemaIsComplete == DbSpec => []ReadyWhenLoaded
<1>1. SchemaInv => ReadyWhenLoaded
  BY DEF SchemaInv, FileType, ReadyWhenLoaded
<1> QED
  BY <1>1, SchemaInit, SchemaNext, PTL DEF DbSpec
==============================================================================
