------------------------------- MODULE Database -------------------------------
(***************************************************************************)
(* The database file and the connections to it, from addon::Create to      *)
(* addon::Destroy (src/src/addon.cpp) and over restarts of the process.    *)
(*                                                                         *)
(* Create makes a connection pool, whose first connection initializes the  *)
(* file one statement after the other; if SQLite reports an error the file *)
(* is deleted and the pool made once more.  Every task and callback then   *)
(* takes a connection through an object connectionpool::handle, which also *)
(* shares the ownership of the pool, and executes statements with it.  A   *)
(* statement may fail, the process may end anywhere, and so may damage the *)
(* file.  Kodi makes no call of an addon that is not loaded, but calls may *)
(* still be under way when it destroys it.                                 *)
(***************************************************************************)
EXTENDS Naturals, FiniteSets, Sequences

CONSTANTS
  Users,      \* the threads with a task or a callback that uses the database
  PoolSize,   \* DATABASE_CONNECTIONPOOL_SIZE
  Conns,      \* connections; one that was closed may stand for another later
  MaxFaults   \* bound on the failures and the ends of the process

ASSUME DatabaseAssumption ==
  /\ PoolSize \in Nat \ {0} /\ MaxFaults \in Nat /\ IsFiniteSet(Users)
  /\ Conns = 1 .. PoolSize + Cardinality(Users)

\* The tables and indexes of the schema, in the order in which they are created.
Schema ==
  <<"client", "device", "discovered", "episode", "genremap", "guide", "guide index",
    "lineup", "listing", "listing index", "recording", "recording index",
    "recordingrule">>

Objects == {Schema[i] : i \in DOMAIN Schema}

VARIABLES
  file,      \* what is durable: objects, rows of client, genremap is filled, damaged
  pc,        \* where Create or Destroy is
  object,    \* the next object of the schema to create
  again,     \* the file has been deleted already
  owned,     \* m_connpool is set
  queue,     \* m_queue
  pool,      \* m_connections
  open,      \* the connections that are open
  prepared,  \* those with a statement that is not finalized
  user,      \* where each user is with its handle
  holds,     \* the connection of each user's handle, 0 for none
  faults     \* what was used of the bound

fileVars == <<file, object, again>>
poolVars == <<owned, queue, pool, open>>
userVars == <<user, holds>>
dbVars == <<fileVars, pc, poolVars, prepared, userVars, faults>>

NoFile == [objects |-> {}, clients |-> 0, genres |-> FALSE, damaged |-> FALSE]

DbInit ==
  /\ file = NoFile /\ pc = "down" /\ object = 1 /\ again = FALSE
  /\ owned = FALSE /\ queue = <<>> /\ pool = {} /\ open = {} /\ prepared = {}
  /\ user = [u \in Users |-> "idle"] /\ holds = [u \in Users |-> 0]
  /\ faults = 0

Fault == faults < MaxFaults /\ faults' = faults + 1

Goto(s) == pc' = s

-----------------------------------------------------------------------------
(* Connections and their pool. *)

\* sqlite3_close refuses a connection with a statement that is not finalized.
CloseAll(S) == open' = open \ (S \ prepared) /\ pool' = {} /\ queue' = <<>>

\* One that is not open yet.
NewConn == CHOOSE c \in Conns : c \notin open

\* Another connection is opened, and waits in the queue.
AddConn ==
  /\ open' = open \cup {NewConn} /\ pool' = pool \cup {NewConn}
  /\ queue' = Append(queue, NewConn)

\* The users that share the pool.
Sharing == {u \in Users : user[u] # "idle"}

-----------------------------------------------------------------------------
(* addon::Create *)

BeginCreate ==
  /\ pc = "down" /\ Sharing = {} /\ Goto("open")
  /\ object' = 1 /\ again' = FALSE
  /\ UNCHANGED <<file, poolVars, prepared, userVars, faults>>

\* The first connection of the pool, which is to initialize the database.
OpenFirst ==
  /\ pc = "open" /\ ~file.damaged /\ Goto("schema") /\ object' = 1 /\ AddConn
  /\ UNCHANGED <<file, again, owned, prepared, userVars, faults>>

\* Fault: the schema is only created in a new file.
CreateObjectOfNewFile ==
  /\ pc = "schema" /\ object <= Len(Schema)
  /\ IF object = 1 /\ file.objects # {}
       THEN object' = Len(Schema) + 1 /\ UNCHANGED file
       ELSE /\ file' = [file EXCEPT !.objects = @ \cup {Schema[object]}]
            /\ object' = object + 1
  /\ UNCHANGED <<pc, again, poolVars, prepared, userVars, faults>>

\* Each is created only if it does not exist.
CreateObject ==
  /\ pc = "schema" /\ object <= Len(Schema)
  /\ file' = [file EXCEPT !.objects = @ \cup {Schema[object]}] /\ object' = object + 1
  /\ UNCHANGED <<pc, again, poolVars, prepared, userVars, faults>>

DeleteClient ==
  /\ pc = "schema" /\ object > Len(Schema) /\ Goto("client")
  /\ file' = [file EXCEPT !.clients = 0]
  /\ UNCHANGED <<object, again, poolVars, prepared, userVars, faults>>

InsertClient ==
  /\ pc = "client" /\ Goto("genres")
  /\ file' = [file EXCEPT !.clients = @ + 1]
  /\ UNCHANGED <<object, again, poolVars, prepared, userVars, faults>>

\* One transaction, which is rolled back when it fails.
FillGenres ==
  /\ pc = "genres" /\ Goto("more")
  /\ file' = [file EXCEPT !.genres = TRUE]
  /\ UNCHANGED <<object, again, poolVars, prepared, userVars, faults>>

OpenMore ==
  /\ pc = "more" /\ Cardinality(pool) < PoolSize /\ AddConn
  /\ UNCHANGED <<fileVars, pc, owned, prepared, userVars, faults>>

PoolMade ==
  /\ pc = "more" /\ Cardinality(pool) = PoolSize /\ owned' = TRUE /\ Goto("proxy")
  /\ UNCHANGED <<fileVars, queue, pool, open, prepared, userVars, faults>>

Making == {"open", "schema", "client", "genres", "more"}

\* Any statement may fail; those on a damaged file do.
SqliteError ==
  /\ pc \in Making /\ IF pc = "open" /\ file.damaged THEN UNCHANGED faults ELSE Fault
  /\ CloseAll(pool) /\ Goto(IF again THEN "failed" ELSE "delete")
  /\ UNCHANGED <<fileVars, owned, prepared, userVars>>

\* Fault: the pool is made again with the old file.
DeleteFileNot ==
  /\ pc = "delete" /\ Goto("open") /\ again' = TRUE
  /\ UNCHANGED <<file, object, poolVars, prepared, userVars, faults>>

\* Whether the file could be deleted is not looked at.
DeleteFile ==
  /\ pc = "delete" /\ Goto("open") /\ again' = TRUE
  /\ \/ file' = NoFile /\ UNCHANGED faults
     \/ Fault /\ UNCHANGED file
  /\ UNCHANGED <<object, poolVars, prepared, userVars>>

\* The proxy is set with a connection of the pool, which is free as nobody uses it yet.
SetProxy ==
  /\ pc = "proxy" /\ queue' = Append(Tail(queue), Head(queue))
  /\ \/ Goto("start") /\ UNCHANGED faults
     \/ Goto("failed") /\ Fault
  /\ UNCHANGED <<fileVars, owned, pool, open, prepared, userVars>>

StartScheduler ==
  /\ pc = "start"
  /\ \/ Goto("loaded") /\ UNCHANGED <<poolVars, faults>>
     \/ Goto("failed") /\ Fault /\ owned' = FALSE /\ CloseAll(pool)
  /\ UNCHANGED <<fileVars, prepared, userVars>>

-----------------------------------------------------------------------------
(* connectionpool::handle and the statements executed with it. *)

\* The handle copies m_connpool first,
CopyPool(u) ==
  /\ pc = "loaded" /\ user[u] = "idle" /\ user' = [user EXCEPT ![u] = "sharing"]
  /\ UNCHANGED <<fileVars, pc, poolVars, prepared, holds, faults>>

\* then takes the connection at the front of the queue,
Acquire(u) ==
  /\ user[u] = "sharing" /\ queue # <<>>
  /\ holds' = [holds EXCEPT ![u] = Head(queue)] /\ queue' = Tail(queue)
  /\ user' = [user EXCEPT ![u] = "holding"]
  /\ UNCHANGED <<fileVars, pc, owned, pool, open, prepared, faults>>

\* or a new one if there is none, which may fail.
AcquireNew(u) ==
  /\ user[u] = "sharing" /\ queue = <<>>
  /\ \/ /\ open' = open \cup {NewConn} /\ pool' = pool \cup {NewConn}
        /\ holds' = [holds EXCEPT ![u] = NewConn]
        /\ user' = [user EXCEPT ![u] = "holding"] /\ UNCHANGED faults
     \/ Fault /\ user' = [user EXCEPT ![u] = "released"] /\ UNCHANGED <<open, pool, holds>>
  /\ UNCHANGED <<fileVars, pc, owned, queue, prepared>>

\* By then its statements are finalized.
Release(u) ==
  /\ user[u] = "holding" /\ holds[u] \notin prepared
  /\ queue' = Append(queue, holds[u]) /\ holds' = [holds EXCEPT ![u] = 0]
  /\ user' = [user EXCEPT ![u] = "released"]
  /\ UNCHANGED <<fileVars, pc, owned, pool, open, prepared, faults>>

\* The last one that shares the pool destroys it.
DropPool(u) ==
  /\ user[u] = "released" /\ user' = [user EXCEPT ![u] = "idle"]
  /\ IF owned \/ Sharing # {u} THEN UNCHANGED <<queue, pool, open>> ELSE CloseAll(pool)
  /\ UNCHANGED <<fileVars, pc, owned, prepared, holds, faults>>

Prepare(u) ==
  /\ user[u] = "holding" /\ holds[u] \notin prepared
  /\ prepared' = prepared \cup {holds[u]}
  /\ UNCHANGED <<fileVars, pc, poolVars, userVars, faults>>

\* Fault: a statement that fails is not finalized.
ExecuteLeaking(u) ==
  /\ holds[u] \in prepared /\ user[u] = "holding"
  /\ \/ prepared' = prepared \ {holds[u]} /\ UNCHANGED <<queue, userVars, faults>>
     \/ /\ Fault /\ queue' = Append(queue, holds[u])
        /\ holds' = [holds EXCEPT ![u] = 0] /\ user' = [user EXCEPT ![u] = "released"]
        /\ UNCHANGED prepared
  /\ UNCHANGED <<fileVars, pc, owned, pool, open>>

\* The statement is finalized whether it fails or not; the exception of one that fails
\* unwinds the stack, and with it the handle.
Execute(u) ==
  /\ holds[u] \in prepared /\ user[u] = "holding"
  /\ prepared' = prepared \ {holds[u]}
  /\ \/ UNCHANGED <<queue, userVars, faults>>
     \/ /\ Fault /\ queue' = Append(queue, holds[u])
        /\ holds' = [holds EXCEPT ![u] = 0] /\ user' = [user EXCEPT ![u] = "released"]
  /\ UNCHANGED <<fileVars, pc, owned, pool, open>>

-----------------------------------------------------------------------------
(* The end. *)

\* Fault: the connections are closed whoever uses them.
DestroyAtOnce ==
  /\ pc \in {"loaded", "failed"} /\ Goto("down")
  /\ owned' = FALSE /\ open' = open \ pool /\ pool' = {} /\ queue' = <<>>
  /\ UNCHANGED <<fileVars, prepared, userVars, faults>>

\* The scheduler has stopped; m_connpool is reset.
DbDestroy ==
  /\ pc \in {"loaded", "failed"} /\ Goto("down") /\ owned' = FALSE
  /\ IF owned /\ Sharing = {} THEN CloseAll(pool) ELSE UNCHANGED <<queue, pool, open>>
  /\ UNCHANGED <<fileVars, prepared, userVars, faults>>

\* The process ends, and the file may be damaged by it.
Crash ==
  /\ Fault /\ Goto("down")
  /\ file' \in {file, [file EXCEPT !.damaged = TRUE]}
  /\ owned' = FALSE /\ queue' = <<>> /\ pool' = {} /\ open' = {} /\ prepared' = {}
  /\ user' = [u \in Users |-> "idle"] /\ holds' = [u \in Users |-> 0]
  /\ UNCHANGED <<object, again>>

CreateNext ==
  \/ OpenFirst \/ CreateObject \/ DeleteClient \/ InsertClient \/ FillGenres
  \/ OpenMore \/ PoolMade \/ SqliteError \/ DeleteFile \/ SetProxy \/ StartScheduler

UserNext(u) ==
  Acquire(u) \/ AcquireNew(u) \/ Release(u) \/ DropPool(u) \/ Execute(u)

DbNext ==
  \/ BeginCreate \/ CreateNext
  \/ \E u \in Users : CopyPool(u) \/ Prepare(u) \/ UserNext(u)
  \/ DbDestroy \/ Crash

DbSpec == DbInit /\ [][DbNext]_dbVars

\* Create runs to its end, and so does every call.
DbFairSpec == DbSpec /\ WF_dbVars(CreateNext) /\ \A u \in Users : SF_dbVars(UserNext(u))

-----------------------------------------------------------------------------
(* Properties. *)

Holding == {u \in Users : holds[u] # 0}

Lent == {holds[u] : u \in Holding}

Queued == {queue[i] : i \in DOMAIN queue}

\* Types; no connection is in the pool or the queue that is not open.
DbTypeOK ==
  /\ file \in [objects : SUBSET Objects, clients : 0..1, genres : BOOLEAN,
               damaged : BOOLEAN]
  /\ again \in BOOLEAN /\ owned \in BOOLEAN
  /\ pc \in Making \cup {"down", "delete", "proxy", "start", "loaded", "failed"}
  /\ object \in 1 .. Len(Schema) + 1 /\ faults \in 0..MaxFaults /\ queue \in Seq(Conns)
  /\ Queued \subseteq pool /\ pool \subseteq open /\ open \subseteq Conns
  /\ prepared \subseteq open
  /\ user \in [Users -> {"idle", "sharing", "holding", "released"}]
  /\ holds \in [Users -> {0} \cup Conns]

\* "connectionpool::acquire: Acquires a database connection": it is open, and its user's
\* alone for as long as the user has it, whether or not the addon is destroyed meanwhile.
Exclusive ==
  /\ \A u \in Holding : holds[u] \in open \ Queued
  /\ \A u, v \in Holding : u # v => holds[u] # holds[v]
  /\ \A i, j \in DOMAIN queue : i # j => queue[i] # queue[j]

\* A connection that is open is in the pool, and free or in use; none is open any more
\* when there is no pool, as after a failed attempt to make it, after Destroy and the
\* last handle; sqlite3_shutdown and the deletion of the file rely on it.
NothingLeaks ==
  /\ open = Queued \cup Lent
  /\ open # {} => owned \/ Sharing # {} \/ pc \in Making

\* A loaded addon works with the whole schema, one client identifier and all genres,
\* wherever an earlier start failed or the process ended.
ReadyWhenLoaded ==
  pc \in {"proxy", "start", "loaded"} =>
    /\ file.objects = Objects
    /\ file.clients = 1 /\ file.genres

\* A file that is damaged or half made does not keep the addon from loading: once
\* nothing fails any more, a start that has just begun ends with the addon loaded.
Loads == (pc = "open" /\ ~again /\ faults = MaxFaults) ~> pc = "loaded"

\* The users get what connectionpool and its handles promise: a connection of their own
\* for as long as they have it, a new one only if every other is in use, and a pool that
\* is closed as a whole by whoever shares it last, be it Destroy or a call that is still
\* under way.  While the pool is being made its maker is the one who keeps it.
Pool == INSTANCE ConnectionPool WITH
  owned <- owned \/ pc \in Making,
  users <- Sharing

ImplementsPool == Pool!Spec
=============================================================================
