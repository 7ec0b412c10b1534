---------------------------- MODULE ConnectionPool ----------------------------
(***************************************************************************)
(* What class connectionpool and its handles (database.h) promise to those *)
(* who use the database, without queue, reference counts and file: a pool  *)
(* that the addon and every handle keep alive, whose connections are lent  *)
(* to one user at a time, opened only when all the others are lent, and    *)
(* closed together, once nobody is left who could use them.                *)
(***************************************************************************)
EXTENDS Naturals

CONSTANTS
  Users,  \* the threads that use the database
  Conns   \* connections; zero is none

VARIABLES
  owned,  \* the addon keeps the pool
  users,  \* the users whose handle keeps it
  open,   \* the connections that are open
  holds   \* the one that is lent to each user

vars == <<owned, users, open, holds>>

Lent == {holds[u] : u \in Users} \ {0}

Init ==
  /\ owned = FALSE /\ users = {} /\ open = {}
  /\ holds = [u \in Users |-> 0]

Make ==
  /\ ~owned /\ users = {} /\ owned' = TRUE
  /\ UNCHANGED <<users, open, holds>>

\* The first connections are opened before the pool is used.
Fill(c) ==
  /\ owned /\ users = {} /\ c \notin open /\ open' = open \cup {c}
  /\ UNCHANGED <<owned, users, holds>>

Join(u) ==
  /\ owned /\ u \notin users /\ users' = users \cup {u}
  /\ UNCHANGED <<owned, open, holds>>

Borrow(u, c) ==
  /\ u \in users /\ holds[u] = 0
  /\ c \notin Lent /\ (c \in open \/ open = Lent)
  /\ holds' = [holds EXCEPT ![u] = c] /\ open' = open \cup {c}
  /\ UNCHANGED <<owned, users>>

GiveBack(u) ==
  /\ holds[u] # 0 /\ holds' = [holds EXCEPT ![u] = 0]
  /\ UNCHANGED <<owned, users, open>>

\* Whoever leaves last takes the connections along.
Close == open' = IF owned' \/ users' # {} THEN open ELSE {}

Leave(u) ==
  /\ u \in users /\ holds[u] = 0 /\ users' = users \ {u} /\ Close
  /\ UNCHANGED <<owned, holds>>

Reset ==
  /\ owned /\ owned' = FALSE /\ Close
  /\ UNCHANGED <<users, holds>>

\* The process ends.
Crash ==
  /\ owned' = FALSE /\ users' = {} /\ open' = {}
  /\ holds' = [u \in Users |-> 0]

Next ==
  \/ Make \/ Reset \/ Crash
  \/ \E c \in Conns : Fill(c)
  \/ \E u \in Users : Join(u) \/ GiveBack(u) \/ Leave(u)
  \/ \E u \in Users, c \in Conns : Borrow(u, c)

Spec == Init /\ [][Next]_vars
=============================================================================
