--------------------------- MODULE SchedulerProofs ---------------------------
(***************************************************************************)
(* Theorems about module Scheduler for every set of clients, of names and  *)
(* of clients that call now() outside of a task, and for every bound.      *)
(***************************************************************************)
EXTENDS Scheduler, FiniteSetTheorems, TLAPS

\* The threads that have asked for a task number and not yet got it.
Issuing == {p \in Threads : pc[p] \in {"add", "now", "bodyAdd", "bodyNow"}}

\* Task numbers do not run out under a thread that was promised one.
Budget == issued + Cardinality(Issuing) <= MaxTasks

\* Which control states hold which lock.
Locks ==
  /\ queueLock = Worker <=> pc[Worker] \in {"checking", "popped"}
  /\ \A c \in Clients : queueLock = c <=> pc[c] = "nowHolding"
  /\ taskLock.owner = Worker <=> pc[Worker] \in BodyStates \cup {"returned"}
  /\ \A c \in Clients : taskLock.owner = c <=> pc[c] \in BodyStates
  /\ pc[Worker] = "returned" => taskLock.depth = 1
  /\ \A c \in Clients : workerLock = c <=> pc[c] = "joining"

\* Threads are in the states that belong to them, and the worker exists
\* exactly while it is joinable.
Places ==
  /\ \A c \in Clients : pc[c] \in ClientStates
  /\ pc[Worker] \in WorkerStates
  /\ joinable <=> pc[Worker] # "off"
  /\ pc[Worker] \in {"off", "waiting", "checking", "exited"} => functor = NoTask

\* Tasks in the queue are numbered by calls already made, each once.
Numbers ==
  /\ \A e \in queue : e.id <= issued
  /\ \A e, f \in queue : e.id = f.id => e = f

\* What the worker relies on between taking a task off the queue and having
\* the task lock: the queue lock it still holds keeps all of this true.
Claim ==
  pc[Worker] = "popped" =>
    /\ ~paused
    /\ functor \in Task
    /\ functor \notin queue
    /\ functor.due <= clock
    /\ \A e \in queue : functor.due <= e.due

IInv == TypeOK /\ Budget /\ Locks /\ Places /\ Numbers /\ Claim /\ OneEntryPerName

-----------------------------------------------------------------------------
LEMMA FiniteIssuing == IsFiniteSet(Issuing) /\ Cardinality(Issuing) \in Nat
<1>1. IsFiniteSet(Threads)
  BY SchedulerAssumption, FS_AddElement DEF Threads
<1>2. Issuing \subseteq Threads
  BY DEF Issuing
<1> QED
  BY <1>1, <1>2, FS_Subset, FS_CardinalityType

\* A thread that asks for a number is counted, unless none is left.
LEMMA IssuingGrows ==
  ASSUME NEW p \in Threads, TypeOK, Budget, MayIssue, issued' = issued,
         NEW s \in {"add", "now", "bodyAdd", "bodyNow"},
         p \notin Issuing, Goto(p, s)
  PROVE  Budget'
<1>1. Issuing' = Issuing \cup {p}
  BY DEF Issuing, Goto, TypeOK
<1>2. Cardinality(Issuing') = Cardinality(Issuing) + 1
  BY <1>1, FiniteIssuing, FS_AddElement
<1>3. issued + Cardinality(Issuing) < MaxTasks
  BY DEF MayIssue, Issuing
<1> QED
  BY <1>2, <1>3, FiniteIssuing, SchedulerAssumption DEF Budget, TypeOK

\* A thread that gets its number is no longer counted.
LEMMA IssuingShrinks ==
  ASSUME NEW p \in Threads, TypeOK, Budget, issued' = issued + 1,
         NEW s \in {"body", "idle", "nowHolding"},
         p \in Issuing, Goto(p, s)
  PROVE  Budget' /\ issued' \in 1 .. MaxTasks
<1>1. Issuing' = Issuing \ {p}
  BY DEF Issuing, Goto, TypeOK
<1>2. Cardinality(Issuing') = Cardinality(Issuing) - 1 /\ Cardinality(Issuing') \in Nat
  BY <1>1, FiniteIssuing, FS_RemoveElement, FS_CardinalityType
<1> QED
  BY <1>2, FiniteIssuing, SchedulerAssumption DEF Budget, TypeOK

\* Every other step leaves the count alone.
LEMMA IssuingStays ==
  ASSUME NEW p \in Threads, TypeOK, Budget, issued' = issued,
         NEW s, s \notin {"add", "now", "bodyAdd", "bodyNow"},
         p \notin Issuing, Goto(p, s)
  PROVE  Budget'
<1>1. Issuing' = Issuing
  BY DEF Issuing, Goto, TypeOK
<1> QED
  BY <1>1 DEF Budget

-----------------------------------------------------------------------------
\* The invariant without the budget, which the lemmas above deal with.
Rest == TypeOK /\ Locks /\ Places /\ Numbers /\ Claim /\ OneEntryPerName

LEMMA InitIInv == Init => IInv
<1> SUFFICES ASSUME Init PROVE IInv
  OBVIOUS
<1> USE SchedulerAssumption DEF Init, Threads
<1>1. TypeOK
  <2>1. pc \in [Threads -> ClientStates \cup WorkerStates]
    BY DEF ClientStates, WorkerStates
  <2>2. paused \in BOOLEAN /\ joinable \in BOOLEAN /\ stop \in BOOLEAN
    BY Zenon
  <2> QED
    BY <2>1, <2>2 DEF TypeOK
<1>2. Issuing = {}
  BY DEF Issuing
<1>3. Budget
  BY <1>2, FS_EmptySet DEF Budget
<1>4. Locks /\ Places /\ Numbers /\ Claim /\ OneEntryPerName
  BY DEF Locks, Places, Numbers, Claim, OneEntryPerName, FreeTaskLock,
         ClientStates, WorkerStates, BodyStates, Operations
<1> QED
  BY <1>1, <1>3, <1>4 DEF IInv

\* Each step, and each stutter, keeps the invariant: first the parts that the
\* step's own assignments settle, then the count of promised task numbers.
LEMMA NextIInv == IInv /\ [Next]_vars => IInv'
<1> SUFFICES ASSUME IInv, [Next]_vars
             PROVE  IInv'
  OBVIOUS
<1> USE SchedulerAssumption
    DEF IInv, Rest, TypeOK, Locks, Places, Numbers, Claim, OneEntryPerName,
        Threads, Goto, FreeTaskLock, Task, NoTask, ClientStates, WorkerStates,
        BodyStates, Operations
<1>1. ASSUME NEW c \in Clients, NEW op \in Operations, Request(c, op)
     PROVE  IInv'
  <2>1. Rest'
    BY <1>1 DEF Request
  <2>2. Budget'
    <3>1. CASE op \in {"add", "now"}
      BY <1>1, <3>1, IssuingGrows DEF Request, Issuing
    <3>2. CASE op \notin {"add", "now"}
      BY <1>1, <3>2, IssuingStays DEF Request, Issuing
    <3> QED
      BY <3>1, <3>2
  <2> QED
    BY <2>1, <2>2
<1>2. ASSUME NEW p \in Threads, NEW op \in {"bodyAdd", "bodyNow"}, BodyRequest(p, op)
     PROVE  IInv'
  <2>1. Rest'
    BY <1>2 DEF BodyRequest
  <2>2. Budget'
    BY <1>2, IssuingGrows DEF BodyRequest, Issuing
  <2> QED
    BY <2>1, <2>2
<1>3. ASSUME NEW p \in Threads, NEW n \in Names \cup {Unnamed}, NEW t \in 0 .. MaxTime, Add(p, n, t)
     PROVE  IInv'
  <2>1. Budget' /\ issued' \in 1 .. MaxTasks
    BY <1>3, IssuingShrinks DEF Add, QueueSection, Without, After, Issuing
  <2>2. Rest'
    BY <1>3, <2>1 DEF Add, QueueSection, Without, After
  <2> QED
    BY <2>1, <2>2
<1>4. ASSUME NEW p \in Threads, NEW n \in Names \cup {Unnamed}, NowNested(p, n)
     PROVE  IInv'
  <2>1. Budget' /\ issued' \in 1 .. MaxTasks
    BY <1>4, IssuingShrinks DEF NowNested, Without, Issuing
  <2>2. Rest'
    BY <1>4, <2>1 DEF NowNested, Without
  <2> QED
    BY <2>1, <2>2
<1>5. ASSUME NEW p \in Threads, BodyReturn(p)
     PROVE  IInv'
  <2>1. Rest'
    BY <1>5 DEF BodyReturn
  <2>2. Budget'
    <3>1. Issuing' = Issuing
      BY <1>5 DEF BodyReturn, Issuing
    <3> QED
      BY <1>5, <3>1 DEF BodyReturn, Budget
  <2> QED
    BY <2>1, <2>2
<1>6. ASSUME NEW c \in Clients, NEW n \in Names, Remove(c, n)
     PROVE  IInv'
  <2>1. Rest'
    BY <1>6 DEF Remove, QueueSection, Without
  <2>2. Budget'
    BY <1>6, IssuingStays DEF Remove, QueueSection, Without, Issuing
  <2> QED
    BY <2>1, <2>2
<1>7. ASSUME NEW c \in Clients, Clear(c)
     PROVE  IInv'
  <2>1. Rest'
    BY <1>7 DEF Clear, QueueSection
  <2>2. Budget'
    BY <1>7, IssuingStays DEF Clear, QueueSection, Issuing
  <2> QED
    BY <2>1, <2>2
<1>8. ASSUME NEW c \in Clients, Pause(c)
     PROVE  IInv'
  <2>1. Rest'
    BY <1>8 DEF Pause, QueueSection
  <2>2. Budget'
    BY <1>8, IssuingStays DEF Pause, QueueSection, Issuing
  <2> QED
    BY <2>1, <2>2
<1>9. ASSUME NEW c \in Clients, Resume(c)
     PROVE  IInv'
  <2> paused' \in BOOLEAN
    BY <1>9 DEF Resume
  <2>1. Rest'
    BY <1>9 DEF Resume, QueueSection
  <2>2. Budget'
    BY <1>9, IssuingStays DEF Resume, QueueSection, Issuing
  <2> QED
    BY <2>1, <2>2
<1>10. ASSUME NEW c \in Clients, NEW n \in Names \cup {Unnamed}, NowLockQueue(c, n)
     PROVE  IInv'
  <2>1. Budget' /\ issued' \in 1 .. MaxTasks
    BY <1>10, IssuingShrinks DEF NowLockQueue, Without, Issuing
  <2>2. Rest'
    BY <1>10, <2>1 DEF NowLockQueue, Without
  <2> QED
    BY <2>1, <2>2
<1>11. ASSUME NEW c \in Clients, NowLockTask(c)
     PROVE  IInv'
  <2>1. Rest'
    BY <1>11 DEF NowLockTask
  <2>2. Budget'
    BY <1>11, IssuingStays DEF NowLockTask, Issuing
  <2> QED
    BY <2>1, <2>2
<1>12. ASSUME WorkerLockQueue PROVE IInv'
  <2>1. Rest'
    BY <1>12 DEF WorkerLockQueue
  <2>2. Budget'
    BY <1>12, IssuingStays DEF WorkerLockQueue, Issuing
  <2> QED
    BY <2>1, <2>2
<1>13. ASSUME NEW e \in queue, WorkerPop(e)
     PROVE  IInv'
  <2>1. Rest'
    BY <1>13 DEF WorkerPop, Runnable
  <2>2. Budget'
    BY <1>13, IssuingStays DEF WorkerPop, Runnable, Issuing
  <2> QED
    BY <2>1, <2>2
<1>14. ASSUME WorkerLockTask PROVE IInv'
  <2>1. Rest'
    BY <1>14 DEF WorkerLockTask
  <2>2. Budget'
    BY <1>14, IssuingStays DEF WorkerLockTask, Issuing
  <2> QED
    BY <2>1, <2>2
<1>15. ASSUME WorkerRelock PROVE IInv'
  <2>1. Rest'
    BY <1>15 DEF WorkerRelock
  <2>2. Budget'
    BY <1>15, IssuingStays DEF WorkerRelock, Issuing
  <2> QED
    BY <2>1, <2>2
<1>16. ASSUME WorkerUnlock PROVE IInv'
  <2>1. Rest'
    BY <1>16 DEF WorkerUnlock
  <2>2. Budget'
    BY <1>16, IssuingStays DEF WorkerUnlock, Issuing
  <2> QED
    BY <2>1, <2>2
<1>17. ASSUME WorkerExit PROVE IInv'
  <2>1. Rest'
    BY <1>17 DEF WorkerExit
  <2>2. Budget'
    BY <1>17, IssuingStays DEF WorkerExit, Issuing
  <2> QED
    BY <2>1, <2>2
<1>18. ASSUME NEW c \in Clients, Start(c)
     PROVE  IInv'
  <2>1. Rest'
    <3>1. TypeOK'
      <4>1. joinable' \in BOOLEAN /\ stop' \in BOOLEAN
        BY <1>18, Zenon DEF Start
      <4>2. pc' \in [Threads -> ClientStates \cup WorkerStates]
        BY <1>18 DEF Start
      <4> QED
        BY <1>18, <4>1, <4>2 DEF Start
    <3>2. Locks'
      BY <1>18 DEF Start
    <3>3. Places'
      BY <1>18 DEF Start
    <3>4. Numbers'
      BY <1>18 DEF Start
    <3>5. Claim'
      BY <1>18 DEF Start
    <3>6. OneEntryPerName'
      BY <1>18 DEF Start
    <3> QED
      BY <3>1, <3>2, <3>3, <3>4, <3>5, <3>6
  <2>2. Budget'
    <3>1. Issuing' = Issuing
      BY <1>18 DEF Start, Issuing
    <3> QED
      BY <1>18, <3>1 DEF Start, Budget
  <2> QED
    BY <2>1, <2>2
<1>19. ASSUME NEW c \in Clients, StopSignal(c)
     PROVE  IInv'
  <2>1. Rest'
    <3>1. TypeOK'
      <4>1. joinable' \in BOOLEAN /\ stop' \in BOOLEAN
        BY <1>19, Zenon DEF StopSignal
      <4>2. pc' \in [Threads -> ClientStates \cup WorkerStates]
        BY <1>19 DEF StopSignal
      <4> QED
        BY <1>19, <4>1, <4>2 DEF StopSignal
    <3>2. Locks'
      BY <1>19 DEF StopSignal
    <3>3. Places'
      BY <1>19 DEF StopSignal
    <3>4. Numbers'
      BY <1>19 DEF StopSignal
    <3>5. Claim'
      BY <1>19 DEF StopSignal
    <3>6. OneEntryPerName'
      BY <1>19 DEF StopSignal
    <3> QED
      BY <3>1, <3>2, <3>3, <3>4, <3>5, <3>6
  <2>2. Budget'
    <3>1. Issuing' = Issuing
      BY <1>19 DEF StopSignal, Issuing
    <3> QED
      BY <1>19, <3>1 DEF StopSignal, Budget
  <2> QED
    BY <2>1, <2>2
<1>20. ASSUME NEW c \in Clients, StopJoin(c)
     PROVE  IInv'
  <2>1. Rest'
    <3>1. TypeOK'
      BY <1>20 DEF StopJoin
    <3>2. Locks'
      BY <1>20 DEF StopJoin
    <3>3. Places'
      BY <1>20 DEF StopJoin
    <3>4. Numbers'
      BY <1>20 DEF StopJoin
    <3>5. Claim'
      BY <1>20 DEF StopJoin
    <3>6. OneEntryPerName'
      BY <1>20 DEF StopJoin
    <3> QED
      BY <3>1, <3>2, <3>3, <3>4, <3>5, <3>6
  <2>2. Budget'
    <3>1. Issuing' = Issuing
      BY <1>20 DEF StopJoin, Issuing
    <3> QED
      BY <1>20, <3>1 DEF StopJoin, Budget
  <2> QED
    BY <2>1, <2>2
<1>21. ASSUME Tick PROVE IInv'
  <2>1. Rest'
    BY <1>21 DEF Tick
  <2>2. Budget'
    <3>1. Issuing' = Issuing
      BY <1>21 DEF Tick, Issuing
    <3> QED
      BY <1>21, <3>1 DEF Tick, Budget
  <2> QED
    BY <2>1, <2>2
<1>22. CASE UNCHANGED vars
  <2>1. Issuing' = Issuing
    BY <1>22 DEF vars, Issuing
  <2>2. Budget'
    BY <1>22, <2>1 DEF vars, Budget
  <2>3. TypeOK' /\ Numbers' /\ Claim' /\ OneEntryPerName'
    BY <1>22 DEF vars
  <2>4. Locks' /\ Places'
    BY <1>22 DEF vars
  <2> QED
    BY <2>2, <2>3, <2>4
<1> HIDE DEF IInv, Rest, TypeOK, Locks, Places, Numbers, Claim, OneEntryPerName,
             Threads, Goto, FreeTaskLock, Task, NoTask, ClientStates, WorkerStates,
             BodyStates, Operations
<1>23. ASSUME NEW p \in Threads, CallStep(p) PROVE IInv'
  BY <1>3, <1>4, <1>5, <1>23 DEF CallStep
<1>24. ASSUME NEW c \in Clients, ClientStep(c) PROVE IInv'
  <2>1. c \in Threads
    BY DEF Threads
  <2> QED
    BY <2>1, <1>6, <1>7, <1>8, <1>9, <1>10, <1>11, <1>18, <1>19, <1>20, <1>23,
       <1>24 DEF ClientStep
<1>25. ASSUME WorkerStep PROVE IInv'
  <2>1. Worker \in Threads
    BY DEF Threads
  <2> QED
    BY <2>1, <1>12, <1>13, <1>14, <1>15, <1>16, <1>17, <1>23, <1>25 DEF WorkerStep
<1> QED
  BY <1>1, <1>2, <1>21, <1>22, <1>24, <1>25 DEF Next

THEOREM Invariance == Spec => []IInv
<1> QED
  BY InitIInv, NextIInv, PTL DEF Spec
\* The types of the queue, the locks and the control states are kept by every
\* operation, whatever the threads do.
THEOREM TypeCorrect == Spec => []TypeOK
<1>1. IInv => TypeOK
  BY DEF IInv
<1> QED
  BY <1>1, Invariance, PTL

\* No two threads are ever inside tasks at once: the worker and every caller of
\* now() are in a task only while they own the one task lock.
THEOREM TasksExcludeEachOther == Spec => []MutualExclusion
<1>1. IInv => MutualExclusion
  <2> SUFFICES ASSUME IInv, NEW p \in Threads, NEW q \in Threads,
                      pc[p] \in BodyStates, pc[q] \in BodyStates
               PROVE  p = q
    BY DEF MutualExclusion, InBody
  <2>1. taskLock.owner = p
    BY DEF IInv, Locks, Threads
  <2>2. taskLock.owner = q
    BY DEF IInv, Locks, Threads
  <2> QED
    BY <2>1, <2>2
<1> QED
  BY <1>1, Invariance, PTL

\* However calls interleave, a name is in the queue at most once.
THEOREM NamesAreUnique == Spec => []OneEntryPerName
<1>1. IInv => OneEntryPerName
  BY DEF IInv
<1> QED
  BY <1>1, Invariance, PTL

\* When stop() has returned the worker is gone and has left no lock behind.
THEOREM StopIsFinal == Spec => []StoppedMeansGone
<1>1. IInv => StoppedMeansGone
  BY SchedulerAssumption
  DEF IInv, TypeOK, Locks, Places, StoppedMeansGone, BodyStates
<1> QED
  BY <1>1, Invariance, PTL

-----------------------------------------------------------------------------
(***************************************************************************)
(* The scheduler implements the task board.                                *)
(***************************************************************************)

\* The board's pending tasks: the queue, and the task the worker has popped.
Pending == queue \cup (IF pc[Worker] = "popped" THEN {functor} ELSE {})

\* A step of a client other than by now(): the worker's place is untouched, and
\* with the queue unlocked the worker has no popped task.
LEMMA PendingIsQueue ==
  ASSUME IInv, queueLock # Worker
  PROVE  Pending = queue /\ pc[Worker] # "popped"
<1> QED
  BY DEF Pending, IInv, Locks

LEMMA InitBoard == Init => Board!Init
<1> QED
  BY DEF Init, Board!Init, FreeTaskLock, Threads

LEMMA NextBoard == IInv /\ [Next]_vars => [Board!Next]_(Board!vars)
<1> SUFFICES ASSUME IInv, [Next]_vars
             PROVE  [Board!Next]_(Board!vars)
  OBVIOUS
<1> USE SchedulerAssumption
<1>a. /\ Worker \notin Clients /\ Nobody \notin Threads
      /\ pc \in [Threads -> ClientStates \cup WorkerStates]
  BY DEF Threads, IInv, TypeOK
<1>1. ASSUME NEW c \in Clients, NEW op \in Operations, Request(c, op)
     PROVE  UNCHANGED Board!vars
  BY <1>1, <1>a DEF Request, Goto, Board!vars, Threads
<1>2. ASSUME NEW p \in Threads, NEW op \in {"bodyAdd", "bodyNow"}, BodyRequest(p, op)
     PROVE  UNCHANGED Board!vars
  BY <1>2, <1>a DEF BodyRequest, Goto, Board!vars, Threads
<1>3. ASSUME NEW p \in Threads, NEW n \in Names \cup {Unnamed}, NEW t \in 0 .. MaxTime,
            Add(p, n, t)
     PROVE  Board!Next
  <2> DEFINE e == [id |-> issued + 1, name |-> n, due |-> t]
  <2>1. Budget' /\ issued' \in 1 .. MaxTasks
    BY <1>3, IssuingShrinks DEF Add, QueueSection, After, Issuing, IInv
  <2>2. e \in Board!Task
    BY <1>3, <2>1 DEF Add, Board!Task
  <2>3. pc[Worker] # "popped" /\ pc'[Worker] # "popped"
    BY <1>3, <1>a, PendingIsQueue DEF Add, QueueSection, Goto, After, Threads
  <2>4. Board!Submit(e)
    BY <1>3, <2>3 DEF Add, QueueSection, Without, Board!Submit, Board!Keep
  <2> QED
    BY <2>2, <2>4 DEF Board!Next
<1>4. ASSUME NEW p \in Threads, NEW n \in Names \cup {Unnamed}, NowNested(p, n)
     PROVE  Board!Next
  <2>1. pc[Worker] # "popped" /\ pc'[Worker] # "popped"
    BY <1>4, <1>a, PendingIsQueue DEF NowNested, Goto, Threads
  <2>2. taskLock.owner = p /\ taskLock'.owner = p /\ taskLock'.depth = taskLock.depth + 1
    BY <1>4, <1>a DEF NowNested, IInv, Locks, TypeOK, Threads, BodyStates, FreeTaskLock
  <2>3. Board!RunDirectly(p, n)
    BY <1>4, <2>1, <2>2 DEF NowNested, Without, Board!RunDirectly, Board!Keep
  <2> QED
    BY <2>3 DEF Board!Next, Threads
<1>5. ASSUME NEW p \in Threads, BodyReturn(p)
     PROVE  [Board!Next]_(Board!vars)
  <2>1. taskLock.owner = p /\ taskLock \in [owner : Threads, depth : Nat \ {0}]
    BY <1>5, <1>a DEF BodyReturn, IInv, Locks, TypeOK, Threads, BodyStates, FreeTaskLock
  <2>2. CASE taskLock.depth > 1
    <3>1. Board!Finish
      BY <1>5, <1>a, <2>1, <2>2 DEF BodyReturn, Board!Finish
    <3> QED
      BY <3>1 DEF Board!Next
  <2>3. CASE ~(taskLock.depth > 1) /\ p = Worker
    BY <1>5, <1>a, <2>1, <2>3 DEF BodyReturn, Goto, Board!vars, Threads
  <2>4. CASE ~(taskLock.depth > 1) /\ p # Worker
    <3>1. pc'[Worker] = pc[Worker] /\ taskLock.depth = 1
      BY <1>5, <1>a, <2>1, <2>4 DEF BodyReturn, Goto, Threads
    <3>2. Board!Finish
      BY <1>5, <1>a, <2>1, <2>4, <3>1 DEF BodyReturn, Board!Finish, FreeTaskLock
    <3> QED
      BY <3>2 DEF Board!Next
  <2> QED
    BY <2>2, <2>3, <2>4
<1>6. ASSUME NEW c \in Clients, NEW n \in Names, Remove(c, n)
     PROVE  Board!Next
  <2>1. pc[Worker] # "popped" /\ pc'[Worker] # "popped"
    BY <1>6, <1>a, PendingIsQueue DEF Remove, QueueSection, Goto, Threads
  <2>2. Board!Withdraw(n)
    BY <1>6, <2>1 DEF Remove, QueueSection, Without, Board!Withdraw, Board!Keep
  <2> QED
    BY <2>2 DEF Board!Next
<1>7. ASSUME NEW c \in Clients, Clear(c)
     PROVE  Board!Next
  <2>1. pc[Worker] # "popped" /\ pc'[Worker] # "popped"
    BY <1>7, <1>a, PendingIsQueue DEF Clear, QueueSection, Goto, Threads
  <2>2. Board!WithdrawAll
    BY <1>7, <2>1 DEF Clear, QueueSection, Board!WithdrawAll
  <2> QED
    BY <2>2 DEF Board!Next
<1>8. ASSUME NEW c \in Clients, Pause(c) \/ Resume(c)
     PROVE  Board!Next
  <2>1. pc[Worker] # "popped" /\ pc'[Worker] # "popped"
    BY <1>8, <1>a, PendingIsQueue DEF Pause, Resume, QueueSection, Goto, Threads
  <2>2. Board!SetPaused(TRUE) \/ Board!SetPaused(FALSE)
    BY <1>8, <2>1 DEF Pause, Resume, QueueSection, Board!SetPaused
  <2> QED
    BY <2>2 DEF Board!Next
<1>9. ASSUME NEW c \in Clients, NEW n \in Names \cup {Unnamed}, NowLockQueue(c, n)
     PROVE  Board!Next
  <2>1. pc[Worker] # "popped" /\ pc'[Worker] # "popped"
    BY <1>9, <1>a, PendingIsQueue DEF NowLockQueue, Goto, Threads
  <2>2. Board!Withdraw(n)
    BY <1>9, <2>1 DEF NowLockQueue, Without, Board!Withdraw, Board!Keep
  <2> QED
    BY <2>2 DEF Board!Next
<1>10. ASSUME NEW c \in Clients, NowLockTask(c)
      PROVE  Board!Next
  <2>1. queueLock = c
    BY <1>10 DEF NowLockTask, IInv, Locks
  <2>2. pc[Worker] # "popped" /\ pc'[Worker] # "popped"
    BY <1>10, <1>a, <2>1, PendingIsQueue DEF NowLockTask, Goto, Threads
  <2>3. taskLock = FreeTaskLock
    BY <1>10, <1>a DEF NowLockTask, IInv, TypeOK
  <2>4. Board!RunDirectly(c, Unnamed)
    BY <1>10, <2>2, <2>3 DEF NowLockTask, FreeTaskLock, Board!RunDirectly, Board!Keep
  <2> QED
    BY <2>4 DEF Board!Next
<1>11. ASSUME WorkerLockQueue \/ WorkerUnlock \/ WorkerExit
      PROVE  UNCHANGED Board!vars
  BY <1>11, <1>a DEF WorkerLockQueue, WorkerUnlock, WorkerExit, Goto, Board!vars, Threads
<1>12. ASSUME NEW e \in queue, WorkerPop(e)
      PROVE  UNCHANGED Board!vars
  BY <1>12, <1>a DEF WorkerPop, Goto, Board!vars, Threads
<1>13. ASSUME WorkerLockTask
      PROVE  Board!Next
  <2>1. taskLock'.owner = Worker /\ taskLock'.depth = 1 /\ taskLock.owner = Nobody
    BY <1>13 DEF WorkerLockTask
  <2>2. pc[Worker] = "popped" /\ pc'[Worker] = "body"
    BY <1>13, <1>a DEF WorkerLockTask, Goto, Threads
  <2>3. /\ joinable /\ ~paused /\ functor \notin queue /\ functor.due <= clock
        /\ \A f \in queue : functor.due <= f.due
        /\ functor.due <= functor.due
    BY <2>2 DEF IInv, Claim, Places, Task
  <2>4. Board!Begin(functor)
    BY <1>13, <2>1, <2>2, <2>3 DEF WorkerLockTask, Board!Begin
  <2> QED
    BY <2>2, <2>4 DEF Board!Next
<1>14. ASSUME WorkerRelock
      PROVE  Board!Next
  <2>1. pc[Worker] = "returned" /\ pc'[Worker] = "checking"
    BY <1>14, <1>a DEF WorkerRelock, Goto, Threads
  <2>2. taskLock.owner = Worker /\ taskLock.depth = 1
    BY <2>1 DEF IInv, Locks
  <2>3. Board!Finish
    BY <1>14, <1>a, <2>1, <2>2 DEF WorkerRelock, FreeTaskLock, Board!Finish, Threads
  <2> QED
    BY <2>3 DEF Board!Next
<1>15. ASSUME NEW c \in Clients, Start(c)
      PROVE  [Board!Next]_(Board!vars)
  <2>1. CASE joinable
    BY <1>15, <1>a, <2>1 DEF Start, Goto, Board!vars, Threads
  <2>2. CASE ~joinable
    <3>1. pc[Worker] # "popped" /\ pc'[Worker] # "popped"
      BY <1>15, <1>a, <2>2 DEF Start, IInv, Places, Threads
    <3>2. Board!GoLive
      BY <1>15, <2>2, <3>1 DEF Start, Board!GoLive
    <3> QED
      BY <3>2 DEF Board!Next
  <2> QED
    BY <2>1, <2>2
<1>16. ASSUME NEW c \in Clients, StopSignal(c)
      PROVE  UNCHANGED Board!vars
  BY <1>16, <1>a DEF StopSignal, Goto, Board!vars, Threads
<1>17. ASSUME NEW c \in Clients, StopJoin(c)
      PROVE  Board!Next
  <2>1. pc[Worker] = "exited" /\ pc'[Worker] = "off"
    BY <1>17, <1>a DEF StopJoin, Threads
  <2>2. joinable /\ taskLock.owner # Worker
    BY <2>1 DEF IInv, Locks, Places, BodyStates
  <2>3. Board!GoQuiet
    BY <1>17, <2>1, <2>2 DEF StopJoin, Board!GoQuiet
  <2> QED
    BY <2>3 DEF Board!Next
<1>18. CASE Tick
  BY <1>18 DEF Tick, Board!Tick, Board!Next
<1>19. CASE UNCHANGED vars
  BY <1>19 DEF vars, Board!vars
<1>20. ASSUME NEW p \in Threads, CallStep(p)
      PROVE  [Board!Next]_(Board!vars)
  BY <1>3, <1>4, <1>5, <1>20 DEF CallStep
<1>21. ASSUME NEW c \in Clients, ClientStep(c)
      PROVE  [Board!Next]_(Board!vars)
  <2>1. c \in Threads
    BY DEF Threads
  <2> QED
    BY <2>1, <1>6, <1>7, <1>8, <1>9, <1>10, <1>15, <1>16, <1>17, <1>20, <1>21
    DEF ClientStep
<1>22. ASSUME WorkerStep
      PROVE  [Board!Next]_(Board!vars)
  <2>1. Worker \in Threads
    BY DEF Threads
  <2> QED
    BY <2>1, <1>11, <1>12, <1>13, <1>14, <1>20, <1>22 DEF WorkerStep
<1> QED
  BY <1>1, <1>2, <1>18, <1>19, <1>21, <1>22 DEF Next

\* The lock protocol of the worker and of now() makes taking a task off the
\* queue and starting it one step of the abstract scheduler.
THEOREM Refinement == Spec => ImplementsBoard
<1> QED
  BY InitBoard, NextBoard, Invariance, PTL DEF Spec, ImplementsBoard, Board!Spec
=============================================================================
