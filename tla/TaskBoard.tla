------------------------------ MODULE TaskBoard ------------------------------
(***************************************************************************)
(* What class scheduler (scheduler.h) promises to the addon, without its   *)
(* locks and its thread: a board of pending tasks from which at most one   *)
(* thread at a time runs a task.  A named task replaces a pending task of  *)
(* the same name; a pending task starts only once it is due, in order of   *)
(* due time, while the scheduler is live and not paused; a thread may also *)
(* run a task directly, nested in the task it is already running.          *)
(***************************************************************************)
EXTENDS Naturals

CONSTANTS
  Worker,   \* the scheduler's own thread
  Callers,  \* the threads that call the scheduler
  Nobody,   \* the runner when no task runs
  Names,    \* the names tasks are given
  Unnamed,  \* the name of a task added without one
  MaxTasks, \* tasks are numbered 1 .. MaxTasks
  MaxTime   \* the clock stops here

VARIABLES
  pending,  \* the tasks waiting to be run
  runner,   \* the thread that runs a task, or Nobody
  depth,    \* how many tasks the runner is inside of
  paused,   \* no pending task starts
  live,     \* the scheduler has been started and not yet stopped
  clock     \* the system clock

vars == <<pending, runner, depth, paused, live, clock>>

Task == [id : 1 .. MaxTasks, name : Names \cup {Unnamed}, due : 0 .. MaxTime]

\* The tasks of S that a call naming n leaves alone.
Keep(S, n) == {e \in S : n = Unnamed \/ e.name # n}

Init ==
  /\ pending = {}
  /\ runner = Nobody
  /\ depth = 0
  /\ paused = FALSE
  /\ live = FALSE
  /\ clock = 0

Submit(e) ==
  /\ pending' = Keep(pending, e.name) \cup {e}
  /\ UNCHANGED <<runner, depth, paused, live, clock>>

Withdraw(n) ==
  /\ pending' = Keep(pending, n)
  /\ UNCHANGED <<runner, depth, paused, live, clock>>

WithdrawAll ==
  /\ pending' = {}
  /\ UNCHANGED <<runner, depth, paused, live, clock>>

\* The worker starts the pending task that has been due for longest.
Begin(e) ==
  /\ live /\ ~paused
  /\ runner = Nobody
  /\ e \in pending
  /\ e.due <= clock
  /\ \A f \in pending : e.due <= f.due
  /\ pending' = pending \ {e}
  /\ runner' = Worker
  /\ depth' = 1
  /\ UNCHANGED <<paused, live, clock>>

\* A thread runs a task that was never pending.
RunDirectly(p, n) ==
  /\ runner \in {Nobody, p}
  /\ runner' = p
  /\ depth' = depth + 1
  /\ pending' = Keep(pending, n)
  /\ UNCHANGED <<paused, live, clock>>

Finish ==
  /\ runner # Nobody
  /\ depth' = depth - 1
  /\ runner' = IF depth = 1 THEN Nobody ELSE runner
  /\ UNCHANGED <<pending, paused, live, clock>>

SetPaused(b) ==
  /\ paused' = b
  /\ UNCHANGED <<pending, runner, depth, live, clock>>

GoLive ==
  /\ ~live
  /\ live' = TRUE
  /\ UNCHANGED <<pending, runner, depth, paused, clock>>

\* The scheduler is never reported stopped while its thread is in a task.
GoQuiet ==
  /\ live
  /\ runner # Worker
  /\ live' = FALSE
  /\ UNCHANGED <<pending, runner, depth, paused, clock>>

Tick ==
  /\ clock < MaxTime
  /\ clock' = clock + 1
  /\ UNCHANGED <<pending, runner, depth, paused, live>>

Next ==
  \/ \E e \in Task : Submit(e)
  \/ \E e \in pending : Begin(e)
  \/ \E n \in Names \cup {Unnamed} : Withdraw(n)
  \/ WithdrawAll
  \/ \E p \in Callers \cup {Worker}, n \in Names \cup {Unnamed} : RunDirectly(p, n)
  \/ Finish
  \/ \E b \in BOOLEAN : SetPaused(b)
  \/ GoLive
  \/ GoQuiet
  \/ Tick

Spec == Init /\ [][Next]_vars
=============================================================================
