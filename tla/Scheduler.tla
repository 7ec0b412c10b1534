------------------------------ MODULE Scheduler ------------------------------
(***************************************************************************)
(* Class scheduler (src/src/scheduler.cpp, scheduler.h): a priority queue  *)
(* of tasks ordered by due time, a worker thread that runs them, and the   *)
(* four locks between them - m_queue_lock, the recursive m_task_lock,      *)
(* m_worker_lock and the m_stop condition.                                 *)
(*                                                                         *)
(* A client thread first requests an operation and performs it when it     *)
(* gets the lock the operation takes, so a thread that waits for a lock is *)
(* visible as one.  Critical sections that touch only what their lock      *)
(* guards are single steps.  A poll of the queue (every 250 ms) that finds *)
(* nothing to run changes nothing and is not a step.                       *)
(***************************************************************************)
EXTENDS Naturals, FiniteSets

CONSTANTS
  Clients,     \* the threads that call the scheduler
  Worker,      \* the thread started by start()
  Nobody,      \* the owner of a free lock
  NowCallers,  \* the clients that call now() outside of a task
  Names,       \* the names given to tasks
  Unnamed,     \* the name of a task added without one
  MaxTasks,    \* bound: add() and now() are called this many times in all
  MaxTime      \* bound: the clock stops here

ASSUME SchedulerAssumption ==
  /\ IsFiniteSet(Clients)
  /\ Worker \notin Clients
  /\ Nobody \notin Clients \cup {Worker}
  /\ NowCallers \subseteq Clients
  /\ Unnamed \notin Names
  /\ MaxTasks \in Nat
  /\ MaxTime \in Nat

VARIABLES
  queue,       \* m_queue, each task numbered by the call that added it
  issued,      \* how many add() and now() calls have numbered a task
  clock,       \* system_clock::now()
  paused,      \* m_paused
  queueLock,   \* the thread that holds m_queue_lock
  taskLock,    \* the thread that holds m_task_lock, and how many times
  workerLock,  \* the thread that holds m_worker_lock
  joinable,    \* m_worker.joinable()
  stop,        \* m_stop
  functor,     \* the worker's copy of the task it took off the queue
  pc           \* where each thread is

vars == <<queue, issued, clock, paused, queueLock, taskLock, workerLock,
          joinable, stop, functor, pc>>

Threads == Clients \cup {Worker}

Task == [id : 1 .. MaxTasks, name : Names \cup {Unnamed}, due : 0 .. MaxTime]

NoTask == [id |-> 0, name |-> Unnamed, due |-> 0]

\* The operations a client waits to perform.
Operations == {"add", "clear", "now", "pause", "remove", "resume", "start", "stop"}

\* In a task: running it, or waiting to call add() or now() from it.
BodyStates == {"body", "bodyAdd", "bodyNow"}

ClientStates == {"idle", "nowHolding", "joining"} \cup Operations \cup BodyStates

WorkerStates == {"off", "waiting", "checking", "popped", "returned", "exited"}
                  \cup BodyStates

InBody(p) == pc[p] \in BodyStates

FreeTaskLock == [owner |-> Nobody, depth |-> 0]

Init ==
  /\ queue = {}
  /\ issued = 0
  /\ clock = 0
  /\ paused = FALSE
  /\ queueLock = Nobody
  /\ taskLock = FreeTaskLock
  /\ workerLock = Nobody
  /\ joinable = FALSE
  /\ stop = FALSE
  /\ functor = NoTask
  /\ pc = [p \in Threads |-> IF p = Worker THEN "off" ELSE "idle"]

-----------------------------------------------------------------------------
(***************************************************************************)
(* Calls.                                                                  *)
(***************************************************************************)

\* A thread moves on to state s; its locks are dealt with by the caller.
Goto(p, s) == pc' = [pc EXCEPT ![p] = s]

\* Room for one more add() or now(), counting those that wait for the lock.
MayIssue ==
  issued + Cardinality({p \in Threads : pc[p] \in {"add", "now", "bodyAdd", "bodyNow"}})
    < MaxTasks

\* A client calls op; it performs it once it has the lock op takes.
Request(c, op) ==
  /\ pc[c] = "idle"
  /\ op \in {"add", "now"} => MayIssue
  /\ op = "now" => c \in NowCallers
  /\ Goto(c, op)
  /\ UNCHANGED <<queue, issued, clock, paused, queueLock, taskLock, workerLock,
                 joinable, stop, functor>>

\* A task calls add() or now().
BodyRequest(p, op) ==
  /\ pc[p] = "body"
  /\ MayIssue
  /\ Goto(p, op)
  /\ UNCHANGED <<queue, issued, clock, paused, queueLock, taskLock, workerLock,
                 joinable, stop, functor>>

\* Fault: the tasks of the same name are left in the queue.
WithoutRemoval(n) == queue

\* remove(lock, name): the queue without the tasks named n; an unnamed task
\* replaces nothing.
Without(n) == {e \in queue : n = Unnamed \/ e.name # n}

\* What a critical section on the queue lock alone leaves unchanged.
QueueSection(p, next) ==
  /\ queueLock = Nobody
  /\ Goto(p, next)
  /\ UNCHANGED <<clock, queueLock, taskLock, workerLock, joinable, stop, functor>>

After(p) == IF pc[p] \in {"bodyAdd", "bodyNow"} THEN "body" ELSE "idle"

Add(p, name, due) ==
  /\ pc[p] \in {"add", "bodyAdd"}
  /\ queue' = Without(name) \cup {[id |-> issued + 1, name |-> name, due |-> due]}
  /\ issued' = issued + 1
  /\ QueueSection(p, After(p))
  /\ UNCHANGED paused

Remove(c, name) ==
  /\ pc[c] = "remove"
  /\ queue' = Without(name)
  /\ QueueSection(c, "idle")
  /\ UNCHANGED <<issued, paused>>

Clear(c) ==
  /\ pc[c] = "clear"
  /\ queue' = {}
  /\ QueueSection(c, "idle")
  /\ UNCHANGED <<issued, paused>>

Pause(c) ==
  /\ pc[c] = "pause"
  /\ paused' = TRUE
  /\ QueueSection(c, "idle")
  /\ UNCHANGED <<queue, issued>>

Resume(c) ==
  /\ pc[c] = "resume"
  /\ paused' = FALSE
  /\ QueueSection(c, "idle")
  /\ UNCHANGED <<queue, issued>>

-----------------------------------------------------------------------------
(***************************************************************************)
(* now(): the queue lock is held until the task lock is taken.             *)
(***************************************************************************)

NowLockQueue(c, name) ==
  /\ pc[c] = "now"
  /\ queueLock = Nobody
  /\ queueLock' = c
  /\ queue' = Without(name)
  /\ issued' = issued + 1
  /\ Goto(c, "nowHolding")
  /\ UNCHANGED <<clock, paused, taskLock, workerLock, joinable, stop, functor>>

\* Fault: now() runs the task without taking the task lock first.
NowUnguarded(c) ==
  /\ pc[c] = "nowHolding"
  /\ taskLock' = [owner |-> c, depth |-> 1]
  /\ queueLock' = Nobody
  /\ Goto(c, "body")
  /\ UNCHANGED <<queue, issued, clock, paused, workerLock, joinable, stop, functor>>

NowLockTask(c) ==
  /\ pc[c] = "nowHolding"
  /\ taskLock.owner = Nobody
  /\ taskLock' = [owner |-> c, depth |-> 1]
  /\ queueLock' = Nobody
  /\ Goto(c, "body")
  /\ UNCHANGED <<queue, issued, clock, paused, workerLock, joinable, stop, functor>>

\* now() called from a task: its thread has the recursive task lock already.
NowNested(p, name) ==
  /\ pc[p] = "bodyNow"
  /\ queueLock = Nobody
  /\ queue' = Without(name)
  /\ issued' = issued + 1
  /\ taskLock' = [taskLock EXCEPT !.depth = @ + 1]
  /\ Goto(p, "body")
  /\ UNCHANGED <<clock, paused, queueLock, workerLock, joinable, stop, functor>>

\* Fault: the end of every task unlocks the task lock, the worker's own included.
BodyReturnUnlocks(p) ==
  /\ pc[p] = "body"
  /\ taskLock' = [taskLock EXCEPT !.depth = @ - 1]
  /\ IF taskLock.depth > 1
       THEN UNCHANGED pc
       ELSE Goto(p, IF p = Worker THEN "returned" ELSE "idle")
  /\ UNCHANGED <<queue, issued, clock, paused, queueLock, workerLock, joinable,
                 stop, functor>>

\* Fault: a nested task never gives back its level of the task lock.
BodyReturnLeaks(p) ==
  /\ pc[p] = "body"
  /\ IF taskLock.depth > 1
       THEN UNCHANGED <<taskLock, pc>>
       ELSE IF p = Worker
              THEN Goto(p, "returned") /\ UNCHANGED taskLock
              ELSE Goto(p, "idle") /\ taskLock' = FreeTaskLock
  /\ UNCHANGED <<queue, issued, clock, paused, queueLock, workerLock, joinable,
                 stop, functor>>

\* A task returns or throws; the outermost one of a now() gives up the lock,
\* the outermost one of the worker keeps it until the queue is locked again.
BodyReturn(p) ==
  /\ pc[p] = "body"
  /\ IF taskLock.depth > 1
       THEN taskLock' = [taskLock EXCEPT !.depth = @ - 1] /\ UNCHANGED pc
       ELSE IF p = Worker
              THEN Goto(p, "returned") /\ UNCHANGED taskLock
              ELSE Goto(p, "idle") /\ taskLock' = FreeTaskLock
  /\ UNCHANGED <<queue, issued, clock, paused, queueLock, workerLock, joinable,
                 stop, functor>>

-----------------------------------------------------------------------------
(***************************************************************************)
(* The worker thread, start() and stop().                                  *)
(***************************************************************************)

\* The tasks the worker may run next: due, and none due earlier.  The
\* priority queue does not order tasks due at the same time.
Runnable ==
  IF paused THEN {}
  ELSE {e \in queue : e.due <= clock /\ \A f \in queue : e.due <= f.due}

WorkerLockQueue ==
  /\ pc[Worker] = "waiting"
  /\ ~stop
  /\ Runnable # {}
  /\ queueLock = Nobody
  /\ queueLock' = Worker
  /\ Goto(Worker, "checking")
  /\ UNCHANGED <<queue, issued, clock, paused, taskLock, workerLock, joinable,
                 stop, functor>>

\* Fault: the queue is unlocked before the task lock is taken.
WorkerPopUnlocking(e) ==
  /\ pc[Worker] = "checking"
  /\ ~stop
  /\ e \in Runnable
  /\ functor' = e
  /\ queue' = queue \ {e}
  /\ queueLock' = Nobody
  /\ Goto(Worker, "popped")
  /\ UNCHANGED <<issued, clock, paused, taskLock, workerLock, joinable, stop>>

WorkerPop(e) ==
  /\ pc[Worker] = "checking"
  /\ ~stop
  /\ e \in Runnable
  /\ functor' = e
  /\ queue' = queue \ {e}
  /\ Goto(Worker, "popped")
  /\ UNCHANGED <<issued, clock, paused, queueLock, taskLock, workerLock,
                 joinable, stop>>

WorkerLockTask ==
  /\ pc[Worker] = "popped"
  /\ taskLock.owner = Nobody
  /\ taskLock' = [owner |-> Worker, depth |-> 1]
  /\ queueLock' = Nobody
  /\ Goto(Worker, "body")
  /\ UNCHANGED <<queue, issued, clock, paused, workerLock, joinable, stop, functor>>

WorkerRelock ==
  /\ pc[Worker] = "returned"
  /\ queueLock = Nobody
  /\ queueLock' = Worker
  /\ taskLock' = FreeTaskLock
  /\ functor' = NoTask
  /\ Goto(Worker, "checking")
  /\ UNCHANGED <<queue, issued, clock, paused, workerLock, joinable, stop>>

WorkerUnlock ==
  /\ pc[Worker] = "checking"
  /\ stop \/ Runnable = {}
  /\ queueLock' = Nobody
  /\ Goto(Worker, "waiting")
  /\ UNCHANGED <<queue, issued, clock, paused, taskLock, workerLock, joinable,
                 stop, functor>>

WorkerExit ==
  /\ pc[Worker] = "waiting"
  /\ stop
  /\ Goto(Worker, "exited")
  /\ UNCHANGED <<queue, issued, clock, paused, queueLock, taskLock, workerLock,
                 joinable, stop, functor>>

\* Fault: m_stop keeps the value the last stop() gave it.
StartStopped(c) ==
  /\ pc[c] = "start"
  /\ workerLock = Nobody
  /\ IF joinable
       THEN Goto(c, "idle") /\ UNCHANGED joinable
       ELSE /\ joinable' = TRUE
            /\ pc' = [pc EXCEPT ![c] = "idle", ![Worker] = "waiting"]
  /\ UNCHANGED <<queue, issued, clock, paused, queueLock, taskLock, workerLock,
                 stop, functor>>

Start(c) ==
  /\ pc[c] = "start"
  /\ workerLock = Nobody
  /\ IF joinable
       THEN Goto(c, "idle") /\ UNCHANGED <<stop, joinable>>
       ELSE /\ stop' = FALSE
            /\ joinable' = TRUE
            /\ pc' = [pc EXCEPT ![c] = "idle", ![Worker] = "waiting"]
  /\ UNCHANGED <<queue, issued, clock, paused, queueLock, taskLock, workerLock,
                 functor>>

StopSignal(c) ==
  /\ pc[c] = "stop"
  /\ workerLock = Nobody
  /\ IF joinable
       THEN stop' = TRUE /\ workerLock' = c /\ Goto(c, "joining")
       ELSE Goto(c, "idle") /\ UNCHANGED <<stop, workerLock>>
  /\ UNCHANGED <<queue, issued, clock, paused, queueLock, taskLock, joinable,
                 functor>>

\* Fault: stop() returns without waiting for the worker.
StopDetach(c) ==
  /\ pc[c] = "joining"
  /\ joinable' = FALSE
  /\ workerLock' = Nobody
  /\ Goto(c, "idle")
  /\ UNCHANGED <<queue, issued, clock, paused, queueLock, taskLock, stop, functor>>

StopJoin(c) ==
  /\ pc[c] = "joining"
  /\ pc[Worker] = "exited"
  /\ joinable' = FALSE
  /\ workerLock' = Nobody
  /\ pc' = [pc EXCEPT ![c] = "idle", ![Worker] = "off"]
  /\ UNCHANGED <<queue, issued, clock, paused, queueLock, taskLock, stop, functor>>

Tick ==
  /\ clock < MaxTime
  /\ clock' = clock + 1
  /\ UNCHANGED <<queue, issued, paused, queueLock, taskLock, workerLock,
                 joinable, stop, functor, pc>>

-----------------------------------------------------------------------------
\* What thread p does by itself once it has made a call or entered a task.
CallStep(p) ==
  \/ \E n \in Names \cup {Unnamed}, t \in 0 .. MaxTime : Add(p, n, t)
  \/ \E n \in Names \cup {Unnamed} : NowNested(p, n)
  \/ BodyReturn(p)

ClientStep(c) ==
  \/ CallStep(c)
  \/ \E n \in Names : Remove(c, n)
  \/ Clear(c)
  \/ Pause(c)
  \/ Resume(c)
  \/ \E n \in Names \cup {Unnamed} : NowLockQueue(c, n)
  \/ NowLockTask(c)
  \/ Start(c)
  \/ StopSignal(c)
  \/ StopJoin(c)

WorkerStep ==
  \/ CallStep(Worker)
  \/ WorkerLockQueue
  \/ \E e \in queue : WorkerPop(e)
  \/ WorkerLockTask
  \/ WorkerRelock
  \/ WorkerUnlock
  \/ WorkerExit

Next ==
  \/ \E c \in Clients, op \in Operations : Request(c, op)
  \/ \E p \in Threads, op \in {"bodyAdd", "bodyNow"} : BodyRequest(p, op)
  \/ \E c \in Clients : ClientStep(c)
  \/ WorkerStep
  \/ Tick

Spec == Init /\ [][Next]_vars

(***************************************************************************)
(* A thread that has called the scheduler gets to run, a task returns, the *)
(* clock advances.  Fairness is strong for the threads: a mutex released   *)
(* again and again is not withheld for ever from one that waits for it.    *)
(***************************************************************************)
Fairness ==
  /\ \A c \in Clients : SF_vars(ClientStep(c))
  /\ SF_vars(WorkerStep)
  /\ WF_vars(Tick)

FairSpec == Spec /\ Fairness

-----------------------------------------------------------------------------
(***************************************************************************)
(* Properties.                                                             *)
(***************************************************************************)

\* The lock variables, the queue and the threads' control states have their
\* types; a held task lock is held at least once (m_task_lock is recursive).
TypeOK ==
  /\ queue \subseteq Task
  /\ issued \in 0 .. MaxTasks
  /\ clock \in 0 .. MaxTime
  /\ paused \in BOOLEAN
  /\ queueLock \in Threads \cup {Nobody}
  /\ taskLock \in {FreeTaskLock} \cup [owner : Threads, depth : Nat \ {0}]
  /\ workerLock \in Clients \cup {Nobody}
  /\ joinable \in BOOLEAN
  /\ stop \in BOOLEAN
  /\ functor \in Task \cup {NoTask}
  /\ pc \in [Threads -> ClientStates \cup WorkerStates]

\* At most one thread is inside a task, whichever of the worker loop, now()
\* and now() nested in a task got it there: the addon's tasks share the
\* database and their discovery flags without a lock of their own.
MutualExclusion ==
  \A p, q \in Threads : InBody(p) /\ InBody(q) => p = q

\* add() of a named task leaves it in the queue once, however add(), now()
\* and remove() of several threads and of running tasks interleave.
OneEntryPerName ==
  \A e, f \in queue : e.name = f.name /\ e.name # Unnamed => e = f

\* Once stop() has returned, the worker is in no task and holds no lock, so
\* the clear() that Destroy and OnSystemSleep make next really is the last
\* word on the queue.
StoppedMeansGone ==
  ~joinable => /\ pc[Worker] = "off"
               /\ functor = NoTask
               /\ Worker \notin {queueLock, taskLock.owner}

\* Every call of the scheduler by a client returns, stop() included.
CallsReturn == \A c \in Clients : pc[c] # "idle" ~> pc[c] = "idle"

\* A queued task leaves the queue - it is run, replaced or removed - unless
\* the scheduler is paused or stopped in the meantime.
QueuedTaskLeaves ==
  \A i \in 1 .. MaxTasks :
    (\E e \in queue : e.id = i)
      ~> \/ \A e \in queue : e.id # i
         \/ paused
         \/ ~joinable
         \/ \E c \in Clients : pc[c] = "joining"

\* The locks make a task leave the queue and start in one indivisible step:
\* the scheduler implements the task board, the popped task being pending
\* until the worker has the task lock.
Board == INSTANCE TaskBoard WITH
  Callers <- Clients,
  pending <- queue \cup (IF pc[Worker] = "popped" THEN {functor} ELSE {}),
  runner  <- taskLock.owner,
  depth   <- taskLock.depth,
  live    <- joinable

ImplementsBoard == Board!Spec
=============================================================================
