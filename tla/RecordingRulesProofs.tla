------------------------- MODULE RecordingRulesProofs -------------------------
(***************************************************************************)
(* Proofs about the recording rules, for any rules, series and threads:    *)
(* the write lock is held by whom it should be, and Kodi shows the tables  *)
(* whenever everything is quiet and no task threw after a commit.          *)
(*                                                                         *)
(* The argument for the second: whenever what Kodi shows differs from a    *)
(* table, someone still owes it a notification.  A change of a table makes *)
(* its author owe one; an author stops owing only by giving it, or, in a   *)
(* task that throws, by leaving the trace the property excepts; Kodi takes *)
(* it back only by reading the table.                                      *)
(***************************************************************************)
EXTENDS RecordingRules, FiniteSetTheorems, TLAPS

\* Someone is still going to tell Kodi, has told it, or has thrown.
Owed ==
  \/ trigger \/ skipped \/ changed \/ task = "nested" \/ wpc = "trigger"
  \/ \E u \in Users : upc[u] \in {"rediscover", "download", "trigger"}

\* The flag is meaningful only between a merge and the end of the task; a nested task
\* is in its merge or after it.
WorkerInv ==
  /\ changed => wpc \in {"expire", "deleteExpired", "episodesMerged", "announce"}
  /\ task = "nested" => wpc \in {"mergeEpisodes", "episodesMerged", "announce"}

ToldInv ==
  /\ shownRules = rules \/ Owed
  /\ kpc = "episodes" \/ shownEpisodes = episodes \/ Owed

Inv == TypeOK /\ WorkerInv /\ ToldInv

LEMMA InitInv == Init => Inv
<1> SUFFICES ASSUME Init PROVE Inv
  OBVIOUS
<1>1. AnyRule \in Rules
  BY RecordingRulesAssumption DEF AnyRule
<1>2. MaxEdits \in Nat /\ MaxLost \in Nat /\ Worker \notin Users /\ Nobody \notin Users
      /\ Nobody # Worker
  BY RecordingRulesAssumption
<1>3. TypeOK
  <2>1. 0 \in Versions /\ lost \in 0..MaxLost
    BY <1>2 DEF Init, Versions
  <2>2. NoRules \in [Rules -> Versions] /\ NoEpisodes \in [Series -> SUBSET Versions]
    BY <2>1 DEF NoRules, NoEpisodes
  <2>3. cloud \in [Rules -> Versions \cup {-1}]
    BY <2>1 DEF Init, NoRules
  <2> QED
    BY <1>1, <1>2, <2>1, <2>2, <2>3 DEF Init, TypeOK, WorkerSteps, UserSteps
<1>4. WorkerInv /\ ToldInv
  BY DEF Init, WorkerInv, ToldInv, Owed
<1> QED
  BY <1>3, <1>4 DEF Inv

\* The answers of the service are well typed.
LEMMA AnswerTypes ==
  ASSUME TypeOK
  PROVE  /\ Present \in [Rules -> Versions]
         /\ \A s \in Series : EpisodesOf(s) \in SUBSET Versions
         /\ NoRules \in [Rules -> Versions] /\ NoEpisodes \in [Series -> SUBSET Versions]
         /\ AnyRule \in Rules
<1>1. MaxEdits \in Nat /\ Rules # {}
  BY RecordingRulesAssumption
<1>2. \A r \in Rules : cloud[r] \in Versions \cup {-1}
  BY DEF TypeOK
<1>3. 0 \in Versions /\ \A n \in Versions \cup {-1} : n > 0 => n \in Versions
  BY <1>1 DEF Versions
<1> QED
  BY <1>1, <1>2, <1>3 DEF Present, EpisodesOf, NoRules, NoEpisodes, AnyRule

LEMMA WorkerTypes ==
  ASSUME TypeOK, WorkerNext
  PROVE  TypeOK'
<1>0. /\ Worker \notin Users /\ Nobody \notin Users /\ Nobody # Worker
      /\ MaxEdits \in Nat /\ MaxLost \in Nat
  BY RecordingRulesAssumption
<1>a. /\ Present \in [Rules -> Versions]
      /\ \A s \in Series : EpisodesOf(s) \in SUBSET Versions
      /\ NoRules \in [Rules -> Versions] /\ NoEpisodes \in [Series -> SUBSET Versions]
      /\ AnyRule \in Rules
  BY AnswerTypes
<1> USE DEF TypeOK, WorkerSteps, UserSteps, cloudVars, tables, workerVars, userVars,
            kodiVars
<1>1. CASE AskRules
  BY <1>0, <1>1, <1>a DEF AskRules
<1>2. CASE MergeRules
  BY <1>0, <1>2, <1>a DEF MergeRules
<1>3. ASSUME NEW r \in Rules, ExpireRule(r) PROVE TypeOK'
  BY <1>0, <1>3 DEF ExpireRule
<1>4. CASE DeleteExpired
  <2>1. 0 \in Versions
    BY <1>0 DEF Versions
  <2> QED
    BY <2>1, <1>0, <1>4, <1>a DEF DeleteExpired
<1>5. CASE DeleteExpiredThrows
  BY <1>0, <1>5, <1>a DEF DeleteExpiredThrows
<1>6. ASSUME NEW failing \in SUBSET Series, AskEpisodes(failing) PROVE TypeOK'
  <2>1. Cardinality(failing) \in Nat
    BY RecordingRulesAssumption, FS_Subset, FS_CardinalityType
  <2>2. lost' \in 0..MaxLost
    BY <2>1, <1>0, <1>6 DEF AskEpisodes
  <2>3. guide' \in [Series -> SUBSET Versions]
    BY <1>a, <1>6 DEF AskEpisodes
  <2>4. wpc' = "mergeEpisodes" /\ wpc # "download" /\ task' \in {"rules", "episodes", "nested"}
        /\ changed' \in BOOLEAN
    BY <1>6 DEF AskEpisodes
  <2>5. UNCHANGED <<cloudVars, tables, answer, expiring, userVars, kodiVars>>
    BY <1>6 DEF AskEpisodes
  <2> QED
    BY <2>2, <2>3, <2>4, <2>5
<1>7. CASE MergeEpisodes
  BY <1>0, <1>7, <1>a DEF MergeEpisodes
<1>8. CASE SetDiscovered
  BY <1>0, <1>8 DEF SetDiscovered
<1>9. CASE WorkerBusy
  BY <1>0, <1>9, <1>a DEF WorkerBusy, EndTask
<1>10. CASE Announce
  BY <1>0, <1>10 DEF Announce, EndTask, TriggerTimerUpdate
<1>11. CASE WorkerTrigger
  BY <1>0, <1>11 DEF WorkerTrigger, TriggerTimerUpdate
<1>12. CASE DownloadLocked
  BY <1>0, <1>12 DEF DownloadLocked
<1>13. CASE Downloaded
  BY <1>0, <1>13 DEF Downloaded
<1> QED
  BY <1>1, <1>2, <1>3, <1>4, <1>5, <1>6, <1>7, <1>8, <1>9, <1>10, <1>11, <1>12, <1>13
  DEF WorkerNext

LEMMA UserTypes ==
  ASSUME TypeOK, NEW u \in Users, UserNext(u)
  PROVE  TypeOK'
<1>0. /\ Worker \notin Users /\ Nobody \notin Users /\ Nobody # Worker
      /\ MaxEdits \in Nat /\ SeriesOf \in [Rules -> Series]
  BY RecordingRulesAssumption
<1>a. /\ \A s \in Series : EpisodesOf(s) \in SUBSET Versions
      /\ AnyRule \in Rules
  BY AnswerTypes
<1>b. 0 \in Versions
  BY <1>0 DEF Versions
<1> USE DEF TypeOK, WorkerSteps, UserSteps, cloudVars, tables, workerVars, userVars,
            kodiVars
<1>1. ASSUME NEW r \in Rules, PostEdit(u, r) PROVE TypeOK'
  <2>1. edits' \in Versions
    BY <1>0, <1>1 DEF PostEdit, Versions
  <2> QED
    BY <2>1, <1>0, <1>1 DEF PostEdit
<1>2. ASSUME NEW r \in Rules, PostDelete(u, r) PROVE TypeOK'
  BY <1>0, <1>2 DEF PostDelete
<1>3. CASE Store(u)
  BY <1>0, <1>b, <1>3 DEF Store
<1>4. CASE LoseReply(u)
  BY <1>0, <1>a, <1>b, <1>4 DEF LoseReply, EndCall
<1>5. CASE Delete(u)
  BY <1>0, <1>b, <1>5 DEF Delete
<1>6. CASE DeleteBusy(u)
  BY <1>0, <1>a, <1>b, <1>6 DEF DeleteBusy, EndCall
<1>7. CASE Rediscover(u)
  BY <1>0, <1>7 DEF Rediscover
<1>8. CASE Commit(u)
  BY <1>0, <1>a, <1>8 DEF Commit
<1>9. CASE Rollback(u)
  BY <1>0, <1>9 DEF Rollback
<1>10. CASE RediscoverBusy(u)
  BY <1>0, <1>10 DEF RediscoverBusy
<1>11. CASE UserTrigger(u)
  BY <1>0, <1>a, <1>b, <1>11 DEF UserTrigger, EndCall, TriggerTimerUpdate
<1> QED
  BY <1>1, <1>2, <1>3, <1>4, <1>5, <1>6, <1>7, <1>8, <1>9, <1>10, <1>11
  DEF UserNext, CallNext

LEMMA OtherTypes ==
  ASSUME TypeOK, (\E r \in Shared : OtherClient(r)) \/ ReadRules \/ ReadEpisodes
  PROVE  TypeOK'
<1>0. MaxEdits \in Nat /\ Shared \subseteq Rules
  BY RecordingRulesAssumption
<1> USE DEF TypeOK, cloudVars, tables, workerVars, userVars, kodiVars
<1>1. ASSUME NEW r \in Shared, OtherClient(r) PROVE TypeOK'
  <2>1. edits' \in Versions
    BY <1>0, <1>1 DEF OtherClient, Versions
  <2> QED
    BY <2>1, <1>0, <1>1 DEF OtherClient
<1>2. CASE ReadRules
  BY <1>2 DEF ReadRules
<1>3. CASE ReadEpisodes
  BY <1>3 DEF ReadEpisodes
<1> QED
  BY <1>1, <1>2, <1>3

LEMMA WorkerKeepsInv ==
  ASSUME Inv, WorkerNext
  PROVE  WorkerInv' /\ ToldInv'
<1> USE DEF Inv, WorkerInv, ToldInv, Owed, cloudVars, tables, workerVars, userVars,
            kodiVars
<1>0. changed \in BOOLEAN /\ trigger \in BOOLEAN /\ skipped \in BOOLEAN
  BY DEF TypeOK
<1>1. CASE AskRules
  BY <1>0, <1>1 DEF AskRules
<1>2. CASE MergeRules
  BY <1>0, <1>2 DEF MergeRules
<1>3. ASSUME NEW r \in Rules, ExpireRule(r) PROVE WorkerInv' /\ ToldInv'
  BY <1>0, <1>3 DEF ExpireRule
<1>4. CASE DeleteExpired
  BY <1>0, <1>4 DEF DeleteExpired
<1>5. CASE DeleteExpiredThrows
  BY <1>0, <1>5 DEF DeleteExpiredThrows
<1>6. ASSUME NEW failing \in SUBSET Series, AskEpisodes(failing)
      PROVE  WorkerInv' /\ ToldInv'
  BY <1>0, <1>6 DEF AskEpisodes
<1>7. CASE MergeEpisodes
  BY <1>0, <1>7 DEF MergeEpisodes
<1>8. CASE SetDiscovered
  BY <1>0, <1>8 DEF SetDiscovered
<1>9. CASE WorkerBusy
  BY <1>0, <1>9 DEF WorkerBusy, EndTask
<1>10. CASE Announce
  BY <1>0, <1>10 DEF Announce, EndTask, TriggerTimerUpdate
<1>11. CASE WorkerTrigger
  BY <1>0, <1>11 DEF WorkerTrigger, TriggerTimerUpdate
<1>12. CASE DownloadLocked
  BY <1>0, <1>12 DEF DownloadLocked
<1>13. CASE Downloaded
  BY <1>0, <1>13 DEF Downloaded
<1> QED
  BY <1>1, <1>2, <1>3, <1>4, <1>5, <1>6, <1>7, <1>8, <1>9, <1>10, <1>11, <1>12, <1>13
  DEF WorkerNext

LEMMA UserKeepsInv ==
  ASSUME Inv, NEW u \in Users, UserNext(u)
  PROVE  WorkerInv' /\ ToldInv'
<1>0. upc \in [Users -> UserSteps]
  BY DEF Inv, TypeOK
<1> USE DEF Inv, WorkerInv, ToldInv, Owed, cloudVars, tables, workerVars, userVars,
            kodiVars
<1>1. ASSUME NEW r \in Rules, PostEdit(u, r) PROVE WorkerInv' /\ ToldInv'
  BY <1>0, <1>1 DEF PostEdit
<1>2. ASSUME NEW r \in Rules, PostDelete(u, r) PROVE WorkerInv' /\ ToldInv'
  BY <1>0, <1>2 DEF PostDelete
<1>3. CASE Store(u)
  BY <1>0, <1>3 DEF Store
<1>4. CASE LoseReply(u)
  BY <1>0, <1>4 DEF LoseReply, EndCall
<1>5. CASE Delete(u)
  BY <1>0, <1>5 DEF Delete
<1>6. CASE DeleteBusy(u)
  BY <1>0, <1>6 DEF DeleteBusy, EndCall
<1>7. CASE Rediscover(u)
  BY <1>0, <1>7 DEF Rediscover
<1>8. CASE Commit(u)
  BY <1>0, <1>8 DEF Commit
<1>9. CASE Rollback(u)
  BY <1>0, <1>9 DEF Rollback
<1>10. CASE RediscoverBusy(u)
  BY <1>0, <1>10 DEF RediscoverBusy
<1>11. CASE UserTrigger(u)
  BY <1>0, <1>11 DEF UserTrigger, EndCall, TriggerTimerUpdate
<1> QED
  BY <1>1, <1>2, <1>3, <1>4, <1>5, <1>6, <1>7, <1>8, <1>9, <1>10, <1>11
  DEF UserNext, CallNext

LEMMA OthersKeepInv ==
  ASSUME Inv, (\E r \in Shared : OtherClient(r)) \/ ReadRules \/ ReadEpisodes
  PROVE  WorkerInv' /\ ToldInv'
<1> USE DEF Inv, WorkerInv, ToldInv, Owed, tables, workerVars, userVars, kodiVars
<1>1. ASSUME NEW r \in Shared, OtherClient(r) PROVE WorkerInv' /\ ToldInv'
  BY <1>1 DEF OtherClient
<1>2. CASE ReadRules
  BY <1>2 DEF ReadRules
<1>3. CASE ReadEpisodes
  BY <1>3 DEF ReadEpisodes
<1> QED
  BY <1>1, <1>2, <1>3

\* The inductive invariant of update_recordingrules_task, update_episodes_task and the
\* timer callbacks together: types, the owner of the write lock, and who still owes
\* Kodi a notification.
THEOREM Invariance == Spec => []Inv
<1>1. Init => Inv
  BY InitInv
<1>2. ASSUME Inv, [Next]_vars PROVE Inv'
  <2>1. CASE WorkerNext
    BY <1>2, <2>1, WorkerTypes, WorkerKeepsInv DEF Inv
  <2>2. ASSUME NEW u \in Users, UserNext(u) PROVE Inv'
    BY <1>2, <2>2, UserTypes, UserKeepsInv DEF Inv
  <2>3. CASE (\E r \in Shared : OtherClient(r)) \/ ReadRules \/ ReadEpisodes
    BY <1>2, <2>3, OtherTypes, OthersKeepInv DEF Inv
  <2>4. CASE UNCHANGED vars
    BY <1>2, <2>4 DEF Inv, TypeOK, WorkerInv, ToldInv, Owed, vars, cloudVars, tables,
                      workerVars, userVars, kodiVars
  <2> QED
    BY <1>2, <2>1, <2>2, <2>3, <2>4 DEF Next
<1> QED
  BY <1>1, <1>2, PTL DEF Spec

\* Types, and the write lock of the database (src/src/database.cpp, begin immediate
\* transaction) is held by exactly the thread that is between its begin and its commit.
THEOREM TypeCorrect == Spec => []TypeOK
<1>1. Inv => TypeOK
  BY DEF Inv
<1> QED
  BY <1>1, Invariance, PTL

\* Whenever everything is quiet and no task threw after a commit, Kodi shows the tables:
\* no interleaving of the tasks and of AddTimer, UpdateTimer and DeleteTimer, for any
\* number of threads, leaves a change that TriggerTimerUpdate does not follow.
THEOREM KodiTold == Spec => []KodiIsTold
<1>1. Inv => KodiIsTold
  <2> SUFFICES ASSUME Inv, Quiet, ~skipped
               PROVE  shownRules = rules /\ shownEpisodes = episodes
    BY DEF KodiIsTold
  <2>1. ~Owed
    BY DEF Inv, WorkerInv, Owed, Quiet
  <2> QED
    BY <2>1 DEF Inv, ToldInv, Quiet
<1> QED
  BY <1>1, Invariance, PTL
=============================================================================
