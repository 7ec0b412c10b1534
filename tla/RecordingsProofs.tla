--------------------------- MODULE RecordingsProofs ---------------------------
(***************************************************************************)
(* Proofs about the recordings, for any devices, series, recordings and    *)
(* threads: a deleted recording stays deleted, the positions of the table  *)
(* and of the storage agree, and Kodi shows the table whenever everything  *)
(* is quiet.                                                               *)
(*                                                                         *)
(* The arguments.  What the storage has erased it does not serve again.  A *)
(* transaction may have downloaded it before, but a row is deleted only    *)
(* while there is no transaction, so that no draft that is committed later *)
(* has it.  In the same way a draft may have the position of before a      *)
(* call, but has replaced the table before the call stores the new one.    *)
(* And whenever the rows differ from what Kodi shows, some thread is still *)
(* going to tell it; the worker knows by its flag whether its draft        *)
(* differs from the table.                                                 *)
(***************************************************************************)
EXTENDS Recordings, FiniteSetTheorems, WellFoundedInduction, TLAPS

\* The types that matter below, and who holds the write lock.
Types ==
  /\ DOMAIN state = Recs /\ DOMAIN table = Recs /\ DOMAIN draft = Recs
  /\ DOMAIN resume = Recs
  /\ edits \in Nat /\ ids \in [Pairs -> SUBSET (1..edits)]
  /\ list \in [Threads -> [Pairs -> SUBSET (1..edits)]]
  /\ pc \in [Threads -> Steps] /\ DOMAIN rec = Threads /\ DOMAIN value = Threads
  /\ changed \in BOOLEAN
  /\ writer \in Threads \cup {Nobody}
  /\ \A t \in Threads : writer = t <=> pc[t] = "merge"
  /\ writer = Nobody => draft = NoTable

\* A row always has an UpdateID, so that no change of its position makes it NoRow.
Numbered(t) == \A r \in Recs : t[r] # NoRow => t[r].update \in Nat \ {0}

\* A call works on a recording; the one that is going to delete a row has had the
\* storage erase it.
Called ==
  \A u \in Threads :
    /\ pc[u] \in {"delete", "store"} => rec[u] \in Recs
    /\ pc[u] = "delete" => state[rec[u]] = "gone"

\* What was deleted is neither kept by the storage nor drafted nor in the table.
Erased ==
  \A r \in deleted :
    r \in Recs /\ state[r] = "gone" /\ draft[r] = NoRow /\ table[r] = NoRow

Storing(u, r) == pc[u] = "store" /\ rec[u] = r

\* Where no position is on its way to the table, the table and the draft have that of
\* the storage; there is at most one on its way, and it is the storage's.
Agree ==
  \A r \in Recs \ drift :
    /\ (\A u \in Users : ~Storing(u, r)) =>
         /\ table[r] # NoRow => table[r].position = resume[r]
         /\ draft[r] # NoRow => draft[r].position = resume[r]
    /\ \A u \in Users : Storing(u, r) =>
         /\ value[u] = resume[r]
         /\ \A v \in Users : Storing(v, r) => u = v

\* Kodi has been told and has not read yet, it is going to be told, or the property
\* excepts that it is not.
Owed ==
  \/ trigger \/ missed # "no" \/ \E t \in Threads : pc[t] = "trigger"
  \/ pc[Worker] = "announce" /\ changed

Told ==
  /\ shown = Rows(table) \/ Owed
  /\ pc[Worker] = "merge" /\ ~changed => Rows(draft) = Rows(table)

Base == Types /\ Numbered(table) /\ Numbered(draft) /\ Called

Inv == Base /\ Erased /\ Agree /\ Told

-----------------------------------------------------------------------------

\* The largest number of a non-empty set of bounded numbers is one of them.
LEMMA MaxIsMember ==
  ASSUME NEW n \in Nat, NEW S \in SUBSET (1..n), S # {}
  PROVE  Max(S) \in S
<1> DEFINE T == {n - x : x \in S}
<1>1. T \subseteq Nat /\ T # {}
  <2>1. \A x \in S : n - x \in Nat
    OBVIOUS
  <2>2. PICK x \in S : TRUE
    OBVIOUS
  <2>3. n - x \in T
    BY <2>2
  <2> QED
    BY <2>1, <2>3
<1>2. PICK m \in T : \A y \in T : <<y, m>> \notin OpToRel(<, Nat)
  BY <1>1, NatLessThanWellFounded, WFMin, Zenon
<1>3. PICK x \in S : m = n - x
  OBVIOUS
<1>4. ASSUME NEW y \in S PROVE x >= y
  <2>1. n - y \in T
    OBVIOUS
  <2>2. ~(n - y < m)
    BY <2>1, <1>1, <1>2 DEF OpToRel
  <2> QED
    BY <2>2, <1>3
<1> QED
  BY <1>4 DEF Max

LEMMA Constants ==
  /\ Played \subseteq Recs /\ Edited \subseteq Recs
  /\ Worker \in Threads /\ Users \subseteq Threads /\ Nobody \notin Threads
  /\ Worker \notin Users /\ Home \in [Recs -> Pairs]
BY RecordingsAssumption DEF Threads

\* What the devices list is numbered by edits, and so is what a thread remembers of it.
LEMMA ListedFits ==
  ASSUME Types
  PROVE  /\ Listed \in [Pairs -> SUBSET (1..edits)]
         /\ NoList \in [Pairs -> SUBSET (1..edits)]
         /\ \A p \in Pairs : Listed[p] # {} => Max(Listed[p]) \in 1..edits
<1>1. Listed \in [Pairs -> SUBSET (1..edits)]
  BY DEF Listed, Types
<1>2. NoList \in [Pairs -> SUBSET (1..edits)]
  BY DEF NoList
<1>3. ASSUME NEW p \in Pairs, Listed[p] # {} PROVE Max(Listed[p]) \in 1..edits
  <2>1. Listed[p] \in SUBSET (1..edits)
    BY <1>1
  <2>2. Max(Listed[p]) \in Listed[p]
    BY <1>3, <2>1, MaxIsMember DEF Types
  <2> QED
    BY <2>1, <2>2
<1> QED
  BY <1>1, <1>2, <1>3

\* A device's answer has one UpdateID, or no recordings are downloaded.
LEMMA DownloadNumbered ==
  ASSUME Types, NEW t \in Threads, NEW p \in Pairs, Cardinality(list[t][p]) = 1
  PROVE  Max(list[t][p]) \in Nat \ {0}
<1>1. list[t][p] \in SUBSET (1..edits) /\ edits \in Nat
  BY DEF Types
<1>2. list[t][p] # {}
  BY FS_EmptySet
<1>3. Max(list[t][p]) \in list[t][p]
  BY <1>1, <1>2, MaxIsMember
<1> QED
  BY <1>1, <1>3

LEMMA InitInv == Init => Inv
<1> SUFFICES ASSUME Init PROVE Inv
  OBVIOUS
<1> USE Constants
<1>1. Types
  <2>1. ids \in [Pairs -> SUBSET (1..edits)] /\ NoList \in [Pairs -> SUBSET (1..edits)]
    BY DEF Init, NoList
  <2> QED
    BY <2>1 DEF Init, Types, Steps, NoTable
<1>2. Numbered(table) /\ Numbered(draft) /\ Called
  BY DEF Init, Numbered, NoTable, Row, NoRow, Called
<1>3. Erased
  BY DEF Init, Erased
<1>4. Agree
  BY DEF Init, Agree, Storing, Row, NoRow, NoTable
<1>5. Told
  <2>1. PICK S \in {Recs \ E : E \in SUBSET Edited} :
          table = [r \in Recs |-> IF r \in S THEN Row(1, 0) ELSE NoRow] /\ shown = S
    BY DEF Init
  <2>2. Rows(table) = S
    BY <2>1 DEF Rows, Row, NoRow
  <2> QED
    BY <2>1, <2>2 DEF Init, Told
<1> QED
  BY <1>1, <1>2, <1>3, <1>4, <1>5 DEF Inv, Base

-----------------------------------------------------------------------------

\* The storage makes or erases a recording.
LEMMA StorageEditStep ==
  ASSUME Inv, NEW r \in Edited, StorageEdit(r)
  PROVE  Inv'
BY Constants
DEF StorageEdit, Renumber, tables, callVars, taskVars, kodiVars, Inv, Base, Types,
    Numbered, Called, Erased, Agree, Storing, Told, Owed, Rows, NoTable, Steps

\* Another client sets a position.
LEMMA OtherPlayerStep ==
  ASSUME Inv, NEW r \in Played, OtherPlayer(r)
  PROVE  Inv'
BY Constants
DEF OtherPlayer, tables, callVars, taskVars, kodiVars, Inv, Base, Types, Numbered,
    Called, Erased, Agree, Storing, Told, Owed, Rows, NoTable, Steps

\* A device comes or goes.
LEMMA DeviceEditStep ==
  ASSUME Inv, NEW d \in Devices, DeviceEdit(d)
  PROVE  Inv'
BY Constants
DEF DeviceEdit, tables, callVars, taskVars, kodiVars, Inv, Base, Types, Numbered,
    Called, Erased, Agree, Storing, Told, Owed, Rows, NoTable, Steps

\* The recordings of a pair are drafted.
LEMMA DownloadStep ==
  ASSUME Inv, NEW t \in Threads, NEW p \in Pairs, Download(t, p)
  PROVE  Inv'
<1> USE Constants DEF Inv, Base
<1>1. Numbered(table)' /\ Numbered(draft)'
  <2>1. Served(p) = {} \/ Max(list[t][p]) \in Nat \ {0}
    BY DownloadNumbered DEF Download
  <2>2. \A r \in Recs : draft'[r] # NoRow => draft'[r].update \in Nat \ {0}
    BY <2>1 DEF Download, Numbered, Row, Types
  <2> QED
    BY <2>2 DEF Download, Numbered
<1>2. Erased'
  <2>1. \A r \in deleted : draft'[r] = draft[r]
    BY DEF Download, Erased, Served
  <2> QED
    BY <2>1 DEF Download, storageVars, Erased
<1>3. Agree'
  <2>1. \A r \in Recs : draft'[r] = draft[r] \/ draft'[r].position = resume[r]
    BY DEF Download, Row
  <2> QED
    BY <2>1 DEF Download, storageVars, callVars, Agree, Storing
<1>4. Types' /\ Called' /\ Told'
  BY DEF Download, storageVars, callVars, kodiVars, Types, Steps, NoTable, Called, Told,
         Owed, Rows
<1> QED
  BY <1>1, <1>2, <1>3, <1>4

\* A transaction is rolled back.
LEMMA RollbackStep ==
  ASSUME Inv, NEW t \in Threads, Rollback(t)
  PROVE  Inv'
<1> USE Constants DEF Inv, Base
<1>1. Types'
  <2>1. list' \in [Threads -> [Pairs -> SUBSET (1..edits')]]
    BY ListedFits DEF Rollback, Release, Return, Goto, storageVars, Types
  <2> QED
    BY <2>1 DEF Rollback, Release, Return, Goto, storageVars, Types, Steps, NoTable
<1>2. Numbered(table)' /\ Numbered(draft)' /\ Called' /\ Erased' /\ Agree' /\ Told'
  BY DEF Rollback, Release, Return, Goto, storageVars, kodiVars, Numbered, NoTable,
         Types, Called, Erased, Agree, Storing, Told, Owed, Rows
<1> QED
  BY <1>1, <1>2

\* A statement waits in vain.
LEMMA BusyStep ==
  ASSUME Inv, NEW t \in Threads, Busy(t)
  PROVE  Inv'
<1> USE Constants DEF Inv, Base
<1>1. Types'
  <2>1. list' \in [Threads -> [Pairs -> SUBSET (1..edits')]]
    BY ListedFits DEF Busy, Return, Goto, storageVars, tables, Types
  <2> QED
    BY <2>1 DEF Busy, Return, Goto, storageVars, tables, Types, Steps, NoTable
<1>2. Numbered(table)' /\ Numbered(draft)' /\ Called' /\ Erased' /\ Agree' /\ Told'
  BY DEF Busy, Return, Goto, storageVars, tables, Numbered, NoTable, Types, Called,
         Erased, Agree, Storing, Told, Owed, Rows
<1> QED
  BY <1>1, <1>2

\* The worker asks for the lists.
LEMMA AskRootStep ==
  ASSUME Inv, AskRoot
  PROVE  Inv'
<1> USE Constants DEF Inv, Base
<1>1. Types'
  <2>1. list' \in [Threads -> [Pairs -> SUBSET (1..edits')]]
    BY ListedFits DEF AskRoot, Goto, storageVars, tables, Types
  <2> QED
    BY <2>1 DEF AskRoot, Goto, storageVars, tables, Types, Steps, NoTable
<1>2. Numbered(table)' /\ Numbered(draft)' /\ Called' /\ Erased' /\ Agree' /\ Told'
  BY DEF AskRoot, Goto, storageVars, tables, kodiVars, Numbered, NoTable, Types, Called,
         Erased, Agree, Storing, Told, Owed, Rows
<1> QED
  BY <1>1, <1>2

\* The worker's transaction begins.
LEMMA BeginMergeStep ==
  ASSUME Inv, BeginMerge
  PROVE  Inv'
<1> USE Constants DEF Inv, Base
<1>1. Types'
  BY DEF BeginMerge, Goto, storageVars, callVars, kodiVars, Types, Steps, NoTable
<1>2. Numbered(table)' /\ Numbered(draft)'
  BY DEF BeginMerge, Goto, storageVars, callVars, kodiVars, Numbered, NoTable, Types
<1>3. Called'
  BY DEF BeginMerge, Goto, storageVars, callVars, kodiVars, Called, Types
<1>4. Erased'
  BY DEF BeginMerge, Goto, storageVars, callVars, kodiVars, Erased, NoTable, Types
<1>5. Agree'
  BY DEF BeginMerge, Goto, storageVars, callVars, kodiVars, Agree, Storing, NoTable, Types
<1>6. Told'
  BY DEF BeginMerge, Goto, storageVars, callVars, kodiVars, Told, Owed, Rows, Types
<1> QED
  BY <1>1, <1>2, <1>3, <1>4, <1>5, <1>6

\* The worker's transaction is committed.
LEMMA CommitMergeStep ==
  ASSUME Inv, CommitMerge
  PROVE  Inv'
<1> USE Constants DEF Inv, Base
<1>1. Types'
  <2>1. list' \in [Threads -> [Pairs -> SUBSET (1..edits')]]
    BY ListedFits DEF CommitMerge, Release, Goto, storageVars, taskVars, Types
  <2> QED
    BY <2>1 DEF CommitMerge, Release, Goto, storageVars, taskVars, Types, Steps, NoTable
<1>2. Numbered(table)' /\ Numbered(draft)' /\ Called' /\ Erased' /\ Agree' /\ Told'
  BY DEF CommitMerge, Release, Goto, storageVars, taskVars, kodiVars, Numbered, NoTable,
         Types, Called, Erased, Agree, Storing, Told, Owed, Rows
<1> QED
  BY <1>1, <1>2

\* The worker looks at its flag.
LEMMA SetDiscoveredStep ==
  ASSUME Inv, SetDiscovered
  PROVE  Inv'
BY Constants
DEF SetDiscovered, Goto, storageVars, tables, callVars, taskVars, kodiVars, Inv,
    Base, Types, Numbered, Called, Erased, Agree, Storing, Told, Owed, Rows,
    NoTable, Steps

\* The worker tells Kodi.
LEMMA WorkerTriggerStep ==
  ASSUME Inv, WorkerTrigger
  PROVE  Inv'
<1> USE Constants DEF Inv, Base
<1>1. Types'
  BY DEF WorkerTrigger, Goto, storageVars, tables, callVars, Types, Steps, NoTable
<1>2. Numbered(table)' /\ Numbered(draft)'
  BY DEF WorkerTrigger, Goto, storageVars, tables, callVars, Numbered, NoTable, Types
<1>3. Called'
  BY DEF WorkerTrigger, Goto, storageVars, tables, callVars, Called, Types
<1>4. Erased'
  BY DEF WorkerTrigger, Goto, storageVars, tables, callVars, Erased, NoTable, Types
<1>5. Agree'
  BY DEF WorkerTrigger, Goto, storageVars, tables, callVars, Agree, Storing, NoTable,
         Types
<1>6. Told'
  BY DEF WorkerTrigger, Goto, storageVars, tables, callVars, Told, Owed, Rows, Types
<1> QED
  BY <1>1, <1>2, <1>3, <1>4, <1>5, <1>6

\* The storage erases a recording for a call.
LEMMA PostDeleteStep ==
  ASSUME Inv, NEW u \in Users, NEW r \in Played, PostDelete(u, r)
  PROVE  Inv'
<1> USE Constants DEF Inv, Base
<1>1. Types'
  <2>1. edits' = edits + 1 /\ ids' \in [Pairs -> SUBSET (1..edits')]
    <3>1. PICK old \in {{}, ids[Home[r]]} :
            ids' = [ids EXCEPT ![Home[r]] = old \cup {edits + 1}]
      BY DEF PostDelete, Renumber
    <3>2. old \cup {edits + 1} \in SUBSET (1..edits + 1)
      BY DEF Types
    <3>3. \A p \in Pairs : ids[p] \in SUBSET (1..edits + 1)
      BY DEF Types
    <3> QED
      BY <3>1, <3>2, <3>3 DEF PostDelete, Renumber, Types
  <2>2. list' \in [Threads -> [Pairs -> SUBSET (1..edits')]]
    BY <2>1 DEF PostDelete, Types
  <2> QED
    BY <2>1, <2>2 DEF PostDelete, Goto, tables, Types, Steps
<1>2. Agree'
  <2>1. \A x \in Users, y \in Recs : Storing(x, y)' => Storing(x, y)
    BY DEF PostDelete, Goto, Storing, Types
  <2>2. \A x \in Users, y \in Recs : Storing(x, y) => Storing(x, y)'
    BY DEF PostDelete, Goto, Storing, Types
  <2> QED
    BY <2>1, <2>2 DEF PostDelete, tables, Agree
<1>3. Numbered(table)' /\ Numbered(draft)' /\ Called' /\ Erased' /\ Told'
  BY DEF PostDelete, Renumber, Goto, tables, kodiVars, Numbered, NoTable, Types, Called,
         Erased, Told, Owed, Rows
<1> QED
  BY <1>1, <1>2, <1>3

\* The call deletes the row.
LEMMA DeleteRowStep ==
  ASSUME Inv, NEW u \in Users, DeleteRow(u)
  PROVE  Inv'
<1> USE Constants DEF Inv, Base
<1>1. Erased'
  <2>1. rec[u] \in Recs /\ state[rec[u]] = "gone" /\ draft[rec[u]] = NoRow
    BY DEF DeleteRow, Called, Types, NoTable
  <2>2. \A r \in deleted' : table'[r] = NoRow
    BY <2>1 DEF DeleteRow, Erased, Types
  <2> QED
    BY <2>1, <2>2 DEF DeleteRow, storageVars, Erased
<1>2. Types' /\ Numbered(table)' /\ Numbered(draft)' /\ Called' /\ Agree' /\ Told'
  BY DEF DeleteRow, Goto, storageVars, callVars, taskVars, kodiVars, Types, Steps,
         NoTable, Numbered, Called, Agree, Storing, Told, Owed, Rows
<1> QED
  BY <1>1, <1>2

\* The call tells Kodi.
LEMMA UserTriggerStep ==
  ASSUME Inv, NEW u \in Users, UserTrigger(u)
  PROVE  Inv'
BY Constants
DEF UserTrigger, Return, Goto, storageVars, tables, taskVars, Inv, Base, Types,
    Numbered, Called, Erased, Agree, Storing, Told, Owed, Rows, NoTable, Steps

\* The storage is given a position.
LEMMA PostPositionStep ==
  ASSUME Inv, NEW u \in Users, NEW r \in Played, PostPosition(u, r)
  PROVE  Inv'
<1> USE Constants DEF Inv, Base
<1>1. Agree'
  <2>1. \A y \in Recs : Storing(u, y)' <=> y = r
    BY DEF PostPosition, Goto, Storing, Types
  <2>2. \A x \in Users \ {u}, y \in Recs : Storing(x, y)' <=> Storing(x, y)
    BY DEF PostPosition, Goto, Storing, Types
  <2>3. ~\E y \in Recs : Storing(u, y)
    BY DEF PostPosition, Storing
  <2>4. PICK v : /\ resume' = [resume EXCEPT ![r] = v]
                 /\ value' = [value EXCEPT ![u] = v]
    BY DEF PostPosition
  <2>5. r \in drift' \/ \A x \in Users : ~Storing(x, r)
    BY DEF PostPosition, Storing
  <2>6. ASSUME NEW y \in Recs \ drift', y # r
        PROVE  /\ resume'[y] = resume[y]
               /\ \A x \in Users : Storing(x, y)' <=> Storing(x, y)
               /\ \A x \in Users : Storing(x, y) => value'[x] = value[x]
    BY <2>1, <2>2, <2>3, <2>4, <2>6
  <2>7. ASSUME r \notin drift'
        PROVE  /\ Storing(u, r)' /\ \A x \in Users : Storing(x, r)' => x = u
               /\ value'[u] = resume'[r]
    <3>1. Storing(u, r)' /\ \A x \in Users : Storing(x, r)' => x = u
      BY <2>1, <2>2, <2>5, <2>7
    <3>2. r \in DOMAIN resume /\ u \in DOMAIN value
      BY DEF Types
    <3> QED
      BY <2>4, <3>1, <3>2
  <2> QED
    BY <2>6, <2>7 DEF PostPosition, tables, Agree
<1>2. Types' /\ Numbered(table)' /\ Numbered(draft)' /\ Called' /\ Erased' /\ Told'
  BY DEF PostPosition, Goto, tables, taskVars, kodiVars, Types, Steps, NoTable, Numbered,
         Called, Erased, Told, Owed, Rows
<1> QED
  BY <1>1, <1>2

\* The table is given the position.
LEMMA StorePositionStep ==
  ASSUME Inv, NEW u \in Users, StorePosition(u)
  PROVE  Inv'
<1> USE Constants DEF Inv, Base
<1>1. Numbered(table)' /\ Numbered(draft)'
  <2>1. \A r \in Recs : table'[r] # NoRow => table'[r].update \in Nat \ {0}
    BY DEF StorePosition, Numbered, Row, NoRow
  <2> QED
    BY <2>1 DEF StorePosition, Numbered
<1>2. Agree'
  <2>1. \A y \in Recs : ~Storing(u, y)'
    BY DEF StorePosition, Return, Goto, Storing, Types
  <2>2. \A x \in Users \ {u}, y \in Recs : Storing(x, y)' <=> Storing(x, y)
    BY DEF StorePosition, Return, Goto, Storing, Types
  <2>3. \A x \in Users \ {u} : value'[x] = value[x]
    BY DEF StorePosition, Types
  <2>4. \A y \in Recs : ~Storing(u, y) => table'[y] = table[y]
    BY DEF StorePosition, Storing, Row
  <2>5. \A y \in Recs : draft'[y] = NoRow
    BY DEF StorePosition, Types, NoTable
  <2>6. resume' = resume /\ drift' = drift
    BY DEF StorePosition, storageVars
  <2>7. \A y \in Recs : Storing(u, y) => table'[y] = NoRow \/ table'[y].position = value[u]
    BY DEF StorePosition, Storing, Row
  <2>8. ASSUME NEW y \in Recs \ drift, \A x \in Users : ~Storing(x, y)', table'[y] # NoRow
        PROVE  table'[y].position = resume[y]
    <3>1. CASE Storing(u, y)
      BY <3>1, <2>7, <2>8 DEF Agree
    <3>2. CASE ~Storing(u, y)
      BY <3>2, <2>2, <2>4, <2>8 DEF Agree
    <3> QED
      BY <3>1, <3>2
  <2>9. ASSUME NEW y \in Recs \ drift, NEW x \in Users, Storing(x, y)'
        PROVE  value'[x] = resume[y] /\ \A v \in Users : Storing(v, y)' => x = v
    BY <2>1, <2>2, <2>3, <2>9 DEF Agree
  <2> QED
    BY <2>5, <2>6, <2>8, <2>9 DEF Agree
<1>3. Told'
  <2>1. \A r \in Recs : table'[r] = NoRow <=> table[r] = NoRow
    BY DEF StorePosition, Numbered, Row, NoRow
  <2>2. Rows(table)' = Rows(table)
    BY <2>1 DEF Rows
  <2>3. \A t \in Threads : pc[t] \in {"trigger", "announce"} => pc'[t] = pc[t]
    BY DEF StorePosition, Return, Goto, Types
  <2>4. pc'[Worker] = pc[Worker] /\ pc[Worker] # "merge"
    BY DEF StorePosition, Return, Goto, Types
  <2> QED
    BY <2>2, <2>3, <2>4 DEF StorePosition, taskVars, kodiVars, Told, Owed
<1>4. Types' /\ Called' /\ Erased'
  BY DEF StorePosition, Return, Goto, storageVars, taskVars, kodiVars, Types, Steps,
         NoTable, Called, Erased
<1> QED
  BY <1>1, <1>2, <1>3, <1>4

\* A call asks for the lists of a series.
LEMMA AskSeriesStep ==
  ASSUME Inv, NEW u \in Users, NEW r \in Played, AskSeries(u, r)
  PROVE  Inv'
<1> USE Constants DEF Inv, Base
<1>1. Types'
  <2>1. list' \in [Threads -> [Pairs -> SUBSET (1..edits')]]
    BY ListedFits DEF AskSeries, Goto, storageVars, tables, taskVars, Types
  <2> QED
    BY <2>1 DEF AskSeries, Goto, storageVars, tables, taskVars, Types, Steps, NoTable
<1>2. Numbered(table)' /\ Numbered(draft)' /\ Called' /\ Erased' /\ Agree' /\ Told'
  BY DEF AskSeries, Goto, storageVars, tables, taskVars, kodiVars, Numbered, NoTable,
         Types, Called, Erased, Agree, Storing, Told, Owed, Rows
<1> QED
  BY <1>1, <1>2

\* A call's transaction begins.
LEMMA BeginRefreshStep ==
  ASSUME Inv, NEW u \in Users, BeginRefresh(u)
  PROVE  Inv'
BY Constants
DEF BeginRefresh, Goto, storageVars, callVars, taskVars, kodiVars, Inv, Base,
    Types, Numbered, Called, Erased, Agree, Storing, Told, Owed, Rows, NoTable,
    Steps

\* A call's transaction is committed.
LEMMA CommitRefreshStep ==
  ASSUME Inv, NEW u \in Users, CommitRefresh(u)
  PROVE  Inv'
<1> USE Constants DEF Inv, Base
<1>1. Types'
  <2>1. list' \in [Threads -> [Pairs -> SUBSET (1..edits')]]
    BY ListedFits DEF CommitRefresh, Release, Return, Goto, storageVars, taskVars, Types
  <2> QED
    BY <2>1
    DEF CommitRefresh, Release, Return, Goto, storageVars, taskVars, Types, Steps,
        NoTable
<1>2. Numbered(table)' /\ Numbered(draft)' /\ Called' /\ Erased' /\ Agree' /\ Told'
  BY DEF CommitRefresh, Release, Return, Goto, storageVars, taskVars, Numbered, NoTable,
         Types, Called, Erased, Agree, Storing, Told, Owed, Rows
<1> QED
  BY <1>1, <1>2

\* Kodi reads the recordings.
LEMMA GetRecordingsStep ==
  ASSUME Inv, GetRecordings
  PROVE  Inv'
BY Constants
DEF GetRecordings, tables, storageVars, callVars, taskVars, Inv, Base, Types,
    Numbered, Called, Erased, Agree, Storing, Told, Owed, Rows, NoTable, Steps

\* Nothing happens.
LEMMA StutterStep ==
  ASSUME Inv, UNCHANGED vars
  PROVE  Inv'
BY Constants
DEF Inv, DeletedStaysDeleted, PositionsAgree, vars, storageVars, tables, callVars,
    taskVars, kodiVars, Inv, Base, Types, Numbered, Called, Erased, Agree,
    Storing, Told, Owed, Rows, NoTable, Steps

LEMMA NextInv == Inv /\ [Next]_vars => Inv'
BY StorageEditStep, OtherPlayerStep, DeviceEditStep, DownloadStep, RollbackStep, BusyStep,
   AskRootStep, BeginMergeStep, CommitMergeStep, SetDiscoveredStep, WorkerTriggerStep,
   PostDeleteStep, DeleteRowStep, UserTriggerStep, PostPositionStep, StorePositionStep,
   AskSeriesStep, BeginRefreshStep, CommitRefreshStep, GetRecordingsStep, StutterStep
DEF Next, ThreadNext, WorkerNext, CallNext, CallBegins

\* The inductive invariant.
LEMMA Invariance == Spec => []Inv
BY InitInv, NextInv, PTL DEF Spec

\* A recording whose deletion succeeded (DeleteRecording and "delete and re-record") does
\* not come back into the table, whatever transactions were under way or begin later.
THEOREM DeletionIsFinal == Spec => []DeletedStaysDeleted
<1>1. Inv => DeletedStaysDeleted
  BY DEF Inv, Erased, DeletedStaysDeleted
<1> QED
  BY <1>1, Invariance, PTL

\* The position that SetRecordingLastPlayedPosition stored last is the one of the table
\* and of the storage, in spite of the discoveries and reloads that read it before.
THEOREM PositionsAreTheStorages == Spec => []PositionsAgree
<1>1. Inv => PositionsAgree
  BY DEF Inv, Agree, Storing, PositionsAgree
<1> QED
  BY <1>1, Invariance, PTL

\* Kodi shows the rows of the table when nothing is under way and no task threw or was
\* cancelled after its commit.
THEOREM KodiTold == Spec => []KodiIsTold
<1>1. Inv => KodiIsTold
  BY Constants DEF Inv, Told, Owed, KodiIsTold, Quiet
<1> QED
  BY <1>1, Invariance, PTL
-----------------------------------------------------------------------------
(* Types. *)

\* The types that the invariant above does not need.
DataTypes ==
  /\ state \in [Recs -> {"none", "kept", "gone"}]
  /\ resume \in [Recs -> 0..Watched] /\ known \subseteq Devices
  /\ table \in TableType /\ draft \in TableType /\ want \subseteq Pairs
  /\ rec \in [Threads -> Recs] /\ value \in [Threads -> 0..Watched]
  /\ trigger \in BOOLEAN /\ lost \in 0..MaxLost
  /\ shown \subseteq Recs /\ deleted \subseteq Recs /\ drift \subseteq Recs
  /\ missed \in {"no", "reload", "failed"}

LEMMA AnyRecFits == AnyRec \in Recs
BY RecordingsAssumption DEF AnyRec

\* A table with an UpdateID for each row stays one when UpdateIDs are added.
LEMMA TableFits ==
  ASSUME NEW n \in Nat, NEW m \in Nat, n <= m,
         NEW T \in [Recs -> [update : 0..n, position : 0..Watched]]
  PROVE  T \in [Recs -> [update : 0..m, position : 0..Watched]]
OBVIOUS

\* The empty table, and a row that is not there.
LEMMA NoTableFits ==
  edits \in Nat =>
    NoTable \in TableType /\ NoRow \in [update : 0..edits, position : 0..Watched]
BY RecordingsAssumption DEF NoTable, TableType, NoRow, Row

LEMMA StoredFits ==
  ASSUME NEW p \in Positions, NEW count \in {0, 1}
  PROVE  Stored(p, count) \in 0..Watched
BY RecordingsAssumption DEF Stored

LEMMA InitTypes == Init => DataTypes
<1> SUFFICES ASSUME Init PROVE DataTypes
  OBVIOUS
<1>1. 0 \in 0..Watched /\ 0 \in 0..MaxLost
  BY RecordingsAssumption
<1>2. table \in TableType /\ draft \in TableType
  BY <1>1, NoTableFits DEF Init, TableType, NoRow, Row
<1> QED
  BY <1>1, <1>2, AnyRecFits DEF Init, DataTypes

\* What happens outside of the addon.
LEMMA WorldTypes ==
  ASSUME Inv, DataTypes,
         \/ \E r \in Edited : StorageEdit(r)
         \/ \E r \in Played : OtherPlayer(r)
         \/ \E d \in Devices : DeviceEdit(d)
  PROVE  DataTypes'
<1>1. edits \in Nat /\ edits' = edits + 1
  BY DEF Inv, Base, Types, StorageEdit, OtherPlayer, DeviceEdit, Renumber
<1>2. table' \in TableType' /\ draft' \in TableType'
  BY <1>1, TableFits DEF DataTypes, TableType, StorageEdit, OtherPlayer, DeviceEdit, tables
<1>3. Positions \ {-1} \subseteq 0..Watched
  BY RecordingsAssumption
<1> QED
  BY <1>2, <1>3, Constants
  DEF DataTypes, StorageEdit, OtherPlayer, DeviceEdit, tables, callVars, taskVars, kodiVars

\* What both discoveries do.
LEMMA ThreadTypes ==
  ASSUME Inv, DataTypes, NEW t \in Threads, ThreadNext(t)
  PROVE  DataTypes'
<1> USE DEF Inv, Base
<1>1. ASSUME NEW p \in Pairs, Download(t, p) PROVE DataTypes'
  <2>1. Served(p) = {} \/ Max(list[t][p]) \in 0..edits
    <3>1. CASE Cardinality(list[t][p]) = 1
      <4>1. list[t][p] \in SUBSET (1..edits) /\ edits \in Nat
        BY DEF Types
      <4>2. list[t][p] # {}
        BY <3>1, FS_EmptySet
      <4>3. Max(list[t][p]) \in list[t][p]
        BY <4>1, <4>2, MaxIsMember
      <4> QED BY <4>1, <4>3
    <3> QED BY <3>1, <1>1 DEF Download
  <2>2. draft' \in TableType
    BY <1>1, <2>1 DEF Download, DataTypes, TableType, Row
  <2> QED
    BY <1>1, <2>2 DEF Download, DataTypes, TableType, storageVars, callVars, kodiVars
<1>2. CASE Rollback(t)
  <2>1. lost' \in 0..MaxLost
    BY <1>2, RecordingsAssumption DEF Rollback, DataTypes
  <2>2. rec' \in [Threads -> Recs]
    BY <1>2, AnyRecFits DEF Rollback, Return, DataTypes
  <2> QED
    BY <1>2, <2>1, <2>2, NoTableFits
    DEF Rollback, Release, Types, DataTypes, TableType, storageVars, kodiVars
<1>3. CASE Busy(t)
  <2>1. lost' \in 0..MaxLost /\ 0 \in 0..Watched
    BY <1>3, RecordingsAssumption DEF Busy, DataTypes
  <2>2. rec' \in [Threads -> Recs] /\ rec[t] \in Recs
    BY <1>3, AnyRecFits DEF Busy, Return, DataTypes
  <2>3. value' \in [Threads -> 0..Watched] /\ drift' \subseteq Recs
    BY <1>3, <2>1, <2>2 DEF Busy, DataTypes
  <2>4. missed' \in {"no", "reload", "failed"}
    BY <1>3 DEF Busy, DataTypes
  <2> QED
    BY <1>3, <2>1, <2>2, <2>3, <2>4 DEF Busy, DataTypes, TableType, storageVars, tables
<1> QED
  BY <1>1, <1>2, <1>3 DEF ThreadNext

\* The worker's steps of its own.
LEMMA WorkerTypes ==
  ASSUME Inv, DataTypes, AskRoot \/ WorkerNext
  PROVE  DataTypes'
<1> USE DEF Inv, Base
<1>1. CASE AskRoot
  BY <1>1 DEF AskRoot, DataTypes, TableType, storageVars, tables, kodiVars
<1>2. CASE BeginMerge
  <2>1. draft' \in TableType
    BY <1>2, NoTableFits DEF BeginMerge, DataTypes, Types, TableType
  <2> QED
    BY <1>2, <2>1 DEF BeginMerge, DataTypes, TableType, storageVars, callVars, kodiVars
<1>3. CASE CommitMerge
  BY <1>3, NoTableFits
  DEF CommitMerge, Release, DataTypes, Types, TableType, storageVars, taskVars, kodiVars
<1>4. CASE SetDiscovered \/ WorkerTrigger
  BY <1>4
  DEF SetDiscovered, WorkerTrigger, DataTypes, TableType, storageVars, tables, callVars,
      taskVars, kodiVars
<1> QED
  BY <1>1, <1>2, <1>3, <1>4 DEF WorkerNext

\* Kodi's calls begin.
LEMMA BeginTypes ==
  ASSUME Inv, DataTypes, NEW u \in Users, CallBegins(u)
  PROVE  DataTypes'
<1> USE Constants DEF Inv, Base
<1>0. PICK r \in Played : PostDelete(u, r) \/ PostPosition(u, r) \/ AskSeries(u, r)
  BY DEF CallBegins
<1>1. CASE PostDelete(u, r)
  <2>1. edits \in Nat /\ edits' = edits + 1
    BY <1>1 DEF PostDelete, Renumber, Types
  <2>2. table' \in TableType' /\ draft' \in TableType'
    BY <1>1, <2>1, TableFits DEF PostDelete, DataTypes, TableType, tables
  <2>3. lost' \in 0..MaxLost /\ rec' \in [Threads -> Recs]
    BY <1>1, RecordingsAssumption DEF PostDelete, DataTypes
  <2> QED
    BY <1>1, <2>2, <2>3 DEF PostDelete, DataTypes, tables, kodiVars
<1>2. CASE PostPosition(u, r)
  <2>1. PICK p \in Positions, count \in {0, 1} :
          /\ resume' = [resume EXCEPT ![r] = Stored(p, count)]
          /\ value' = [value EXCEPT ![u] = Stored(p, count)]
    BY <1>2 DEF PostPosition
  <2>2. resume' \in [Recs -> 0..Watched] /\ value' \in [Threads -> 0..Watched]
    BY <2>1, StoredFits DEF DataTypes
  <2> QED
    BY <1>2, <2>2 DEF PostPosition, DataTypes, TableType, tables, taskVars, kodiVars
<1>3. CASE AskSeries(u, r)
  BY <1>3 DEF AskSeries, DataTypes, TableType, storageVars, tables, taskVars, kodiVars
<1> QED
  BY <1>0, <1>1, <1>2, <1>3

\* Kodi's calls go on.
LEMMA CallTypes ==
  ASSUME Inv, DataTypes, NEW u \in Users, CallNext(u)
  PROVE  DataTypes'
<1> USE Constants DEF Inv, Base
<1>1. CASE DeleteRow(u)
  BY <1>1, NoTableFits
  DEF DeleteRow, Types, DataTypes, TableType, storageVars, callVars, taskVars, kodiVars
<1>2. CASE UserTrigger(u)
  BY <1>2, AnyRecFits
  DEF UserTrigger, Return, DataTypes, TableType, storageVars, tables, taskVars
<1>3. CASE StorePosition(u)
  <2>1. value[u] \in 0..Watched /\ 0 \in 0..Watched
    BY RecordingsAssumption DEF DataTypes
  <2>2. table' \in TableType
    BY <1>3, <2>1 DEF StorePosition, DataTypes, TableType, Row
  <2>3. rec' \in [Threads -> Recs] /\ value' \in [Threads -> 0..Watched]
    BY <1>3, <2>1, AnyRecFits DEF StorePosition, Return, DataTypes
  <2> QED
    BY <1>3, <2>2, <2>3
    DEF StorePosition, DataTypes, TableType, storageVars, taskVars, kodiVars
<1>4. CASE BeginRefresh(u)
  <2>1. draft' \in TableType
    BY <1>4, NoTableFits DEF BeginRefresh, DataTypes, Types, TableType
  <2> QED
    BY <1>4, <2>1
    DEF BeginRefresh, DataTypes, TableType, storageVars, callVars, taskVars, kodiVars
<1>5. CASE CommitRefresh(u)
  BY <1>5, NoTableFits, AnyRecFits
  DEF CommitRefresh, Release, Return, Types, DataTypes, TableType, storageVars, taskVars
<1> QED
  BY <1>1, <1>2, <1>3, <1>4, <1>5 DEF CallNext

LEMMA NextTypes == Inv /\ DataTypes /\ [Next]_vars => DataTypes'
<1>1. ASSUME DataTypes, GetRecordings PROVE DataTypes'
  BY <1>1 DEF GetRecordings, DataTypes, TableType, Rows, storageVars, tables, callVars, taskVars
<1>2. ASSUME DataTypes, UNCHANGED vars PROVE DataTypes'
  BY <1>2
  DEF DataTypes, TableType, vars, storageVars, tables, callVars, taskVars, kodiVars
<1> QED
  BY <1>1, <1>2, WorldTypes, ThreadTypes, WorkerTypes, BeginTypes, CallTypes DEF Next

\* Every variable keeps its type, whatever fails; in particular a row always has an
\* UpdateID that the storage has used, and the thread in a transaction holds the lock.
THEOREM TypeCorrect == Spec => []TypeOK
<1>1. Inv /\ DataTypes => TypeOK
  BY DEF Inv, Base, Types, DataTypes, TypeOK
<1>2. Spec => []DataTypes
  BY InitTypes, NextTypes, Invariance, PTL DEF Spec
<1> QED
  BY <1>1, <1>2, Invariance, PTL
=============================================================================
