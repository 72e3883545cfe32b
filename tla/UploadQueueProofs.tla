--------------------------- MODULE UploadQueueProofs ---------------------------
(* Proofs about UploadQueue, for every set of events, versions and         *)
(* accounts, and every limit.                                              *)
EXTENDS UploadQueue, TLAPS

-----------------------------------------------------------------------------
(* The operators that build task records.                                  *)

LEMMA IdleTaskType == IdleTask \in Task
  BY QueueAssumption DEF IdleTask, Task, Answers

LEMMA HoldingType ==
  ASSUME NEW k \in {"submit", "drain"}, NEW b \in SUBSET Events
  PROVE  Holding(k, b) \in Task
  BY IdleTaskType DEF Holding, IdleTask, Task, Answers

LEMMA SendingType ==
  ASSUME NEW g \in BOOLEAN, NEW S \in SUBSET Batches
  PROVE  Sending(g, S) \in Task
  BY IdleTaskType DEF Sending, IdleTask, Task, Answers

(* What one task becomes is all that a step on it can change.              *)
LEMMA TaskUpdate ==
  ASSUME TypeOK, NEW p \in Tasks, NEW t \in Task
  PROVE  [task EXCEPT ![p] = t] \in [Tasks -> Task]
  BY DEF TypeOK

LEMMA AnswerType ==
  ASSUME TypeOK, NEW p \in Tasks, NEW x \in Answers
  PROVE  [task EXCEPT ![p].pc = "answered", ![p].answer = x] \in [Tasks -> Task]
<1>1. task[p] \in Task
  BY DEF TypeOK
<1>2. [task[p] EXCEPT !.pc = "answered", !.answer = x] \in Task
  BY <1>1 DEF Task
<1>3. [task EXCEPT ![p].pc = "answered", ![p].answer = x]
        = [task EXCEPT ![p] = [task[p] EXCEPT !.pc = "answered", !.answer = x]]
  BY DEF TypeOK
<1> QED BY <1>2, <1>3, TaskUpdate

LEMMA FrontsType ==
  ASSUME NEW S \in SUBSET Events
  PROVE  Fronts(S) \subseteq Versions \cup {NoVersion}
  BY QueueAssumption DEF Fronts

LEMMA TakeBatchType ==
  ASSUME TypeOK, TakeBatch
  PROVE  /\ buffer' \in SUBSET Events
         /\ front' \in Versions \cup {NoVersion}
         /\ opened' \in BOOLEAN
  BY FrontsType DEF TypeOK, TakeBatch, OfVersion, OpenedAfterTake

LEMMA PushType ==
  ASSUME TypeOK, NEW e \in Events, push(e)
  PROVE  /\ buffer' \in SUBSET Events
         /\ front' \in Versions \cup {NoVersion}
         /\ opened' \in BOOLEAN
         /\ PushTakes(e) \in SUBSET Events
<1>1. PushTakes(e) \in SUBSET Events
  BY DEF TypeOK, PushTakes, OfVersion
<1> QED
  BY <1>1, FrontsType, QueueAssumption DEF TypeOK, push, OpenedAfterTake

LEMMA RequeueType ==
  ASSUME TypeOK, NEW b \in SUBSET Events, requeue(b)
  PROVE  /\ buffer' \in SUBSET Events
         /\ front' \in Versions \cup {NoVersion}
         /\ opened' \in BOOLEAN
  BY FrontsType DEF TypeOK, requeue

LEMMA AbortType ==
  ASSUME TypeOK, NEW p \in Tasks, Abort(p)
  PROVE  task' \in [Tasks -> Task] /\ recovering' \in SUBSET Events
  BY IdleTaskType, TaskUpdate DEF TypeOK, Abort

LEMMA MarkType ==
  ASSUME TypeOK, NEW p \in Tasks, NEW b \in Batches,
         NEW s \in {"pending", "failed", "sent", "rejected"},
         MarkRetry(p, b, s) \/ MarkFinal(p, b, s)
  PROVE  /\ status' \in [Batches -> Statuses]
         /\ attempts' \in [Batches -> Nat]
         /\ waiting' \in SUBSET Batches
         /\ task' \in [Tasks -> Task]
         /\ recovering' \in SUBSET Events
<1>1. Sending(task[p].gated, task[p].todo \ {b}) \in Task
  BY SendingType DEF TypeOK, Task
<1>2. CASE ~HasRow(b)
  BY <1>2, AbortType DEF MarkRetry, MarkFinal, TypeOK, rows
<1>3. CASE HasRow(b)
  <2>1. task' \in [Tasks -> Task] /\ recovering' \in SUBSET Events
    BY <1>1, <1>3, TaskUpdate DEF MarkRetry, MarkFinal, Done, TypeOK
  <2>2. /\ status' \in [Batches -> Statuses]
        /\ attempts' \in [Batches -> Nat]
        /\ waiting' \in SUBSET Batches
    BY <1>3 DEF MarkRetry, MarkFinal, RetryStatus, TypeOK, Statuses
  <2> QED BY <2>1, <2>2
<1> QED BY <1>2, <1>3

-----------------------------------------------------------------------------
(* Type correctness.                                                       *)

LEMMA TypeInit == Init => TypeOK
<1> SUFFICES ASSUME Init PROVE TypeOK
  OBVIOUS
<1>1. task \in [Tasks -> Task]
  BY IdleTaskType DEF Init
<1>2. status \in [Batches -> Statuses] /\ attempts \in [Batches -> Nat]
  BY DEF Init, Statuses
<1> QED BY <1>1, <1>2 DEF Init, TypeOK

LEMMA TypeStep == TypeOK /\ [Next]_vars => TypeOK'
<1> SUFFICES ASSUME TypeOK, [Next]_vars PROVE TypeOK'
  OBVIOUS
<1> USE DEF assembler, rows, running, process, world
<1>1. ASSUME NEW e \in Events, RawEvent(e) PROVE TypeOK'
  <2>1. CASE session = NoAccount /\ UNCHANGED <<assembler, task>>
    BY <1>1, <2>1 DEF RawEvent, TypeOK
  <2>2. CASE push(e)
    <3>1. /\ buffer' \in SUBSET Events /\ front' \in Versions \cup {NoVersion}
          /\ opened' \in BOOLEAN /\ PushTakes(e) \in SUBSET Events
      BY <2>2, PushType
    <3>2. Holding("submit", PushTakes(e)) \in Task
      BY <3>1, HoldingType
    <3> QED BY <1>1, <3>1, <3>2, TaskUpdate DEF RawEvent, TypeOK, Tasks
  <2> QED BY <1>1, <2>1, <2>2 DEF RawEvent
<1>2. CASE FlushDue \/ FlushNow \/ Shutdown
  <2>1. OfVersion(buffer, front) \in SUBSET Events
    BY DEF TypeOK, OfVersion
  <2>2. /\ Holding("submit", OfVersion(buffer, front)) \in Task
        /\ Holding("drain", OfVersion(buffer, front)) \in Task
    BY <2>1, HoldingType
  <2>3. Sending(FALSE, pending_batches) \in Task
    BY SendingType DEF pending_batches
  <2>4. CASE FlushDue
    BY <2>4, <2>2, TakeBatchType, TaskUpdate DEF FlushDue, TypeOK, Tasks
  <2>5. CASE FlushNow
    BY <2>5, <2>2, <2>3, TakeBatchType, TaskUpdate DEF FlushNow, TypeOK, Tasks
  <2>6. CASE Shutdown
    BY <2>6, <2>2, TakeBatchType, TaskUpdate DEF Shutdown, TypeOK, Tasks
  <2> QED BY <1>2, <2>4, <2>5, <2>6
<1>3. CASE ResumePending
  <2>1. Sending(TRUE, resumable_batches) \in Task
    BY SendingType DEF resumable_batches
  <2> QED BY <1>3, <2>1, TaskUpdate DEF ResumePending, TypeOK, Tasks
<1>4. ASSUME NEW p \in Tasks,
             \/ TaskStep(p) \/ PersistFails(p) \/ CloudBusy(p) \/ TransportFails(p)
      PROVE  TypeOK'
  <2>0. /\ task[p].batch \in SUBSET Events /\ task[p].todo \in SUBSET Batches
        /\ task[p] \in Task
    BY DEF TypeOK, Task
  <2>1. CASE PersistBatch(p)
    <3>1. /\ status' \in [Batches -> Statuses] /\ attempts' \in [Batches -> Nat]
          /\ waiting' \in SUBSET Batches
      BY <2>0, <2>1 DEF PersistBatch, TypeOK, Statuses, Batches
    <3>2. Sending(TRUE, {task[p].batch}) \in Task
      BY <2>0, SendingType DEF Batches
    <3>3. [IdleTask EXCEPT !.pc = "list"] \in Task
      BY IdleTaskType DEF IdleTask, Task, Answers
    <3>4. task' \in [Tasks -> Task]
      BY <2>1, <3>2, <3>3, TaskUpdate DEF PersistBatch
    <3> QED BY <2>1, <3>1, <3>4 DEF PersistBatch, TypeOK
  <2>2. CASE ListPending(p)
    <3>1. Sending(FALSE, pending_batches) \in Task
      BY SendingType DEF pending_batches
    <3> QED BY <2>2, <3>1, TaskUpdate DEF ListPending, TypeOK
  <2>3. CASE DeferForBackoff(p) \/ NoSession(p)
    <3>1. PICK b \in task[p].todo : MarkRetry(p, b, "failed")
      BY <2>3 DEF DeferForBackoff, NoSession
    <3>2. b \in Batches
      BY <2>0
    <3> QED BY <2>3, <3>1, <3>2, MarkType DEF DeferForBackoff, NoSession, TypeOK
  <2>4. CASE Post(p)
    <3>1. PICK b \in task[p].todo :
             task' = [task EXCEPT ![p].pc = "flight", ![p].batch = b,
                                  ![p].todo = @ \ {b}, ![p].acct = session]
      BY <2>4 DEF Post
    <3>2. task' \in [Tasks -> Task]
      BY <2>0, <3>1 DEF TypeOK, Task, Batches
    <3> QED BY <2>4, <3>2 DEF Post, TypeOK
  <2>5. CASE CloudAnswers(p)
    <3>1. task' \in [Tasks -> Task]
      BY <2>5, AnswerType DEF CloudAnswers, Answers
    <3>2. cloud' \in SUBSET ((Accounts \cup {NoAccount}) \X Batches)
      BY <2>0, <2>5 DEF CloudAnswers, TypeOK, Task, Batches
    <3> QED BY <2>5, <3>1, <3>2 DEF CloudAnswers, TypeOK
  <2>6. CASE CloudBusy(p)
    <3>1. task' \in [Tasks -> Task]
      BY <2>6, AnswerType DEF CloudBusy, Answers
    <3> QED BY <2>6, <3>1 DEF CloudBusy, TypeOK, Fault
  <2>7. CASE TransportFails(p)
    <3>1. MarkRetry(p, task[p].batch, "pending") /\ task[p].batch \in Batches
      BY <2>0, <2>7 DEF TransportFails, Batches
    <3> QED BY <2>7, <3>1, MarkType DEF TransportFails, TypeOK, Fault
  <2>8. CASE UploadAccepted(p) \/ UploadRejected(p)
    <3>1. /\ \/ MarkFinal(p, task[p].batch, "sent")
             \/ MarkFinal(p, task[p].batch, "rejected")
          /\ task[p].batch \in Batches
      BY <2>0, <2>8 DEF UploadAccepted, UploadRejected, Batches
    <3> QED BY <2>8, <3>1, MarkType DEF UploadAccepted, UploadRejected, TypeOK
  <2>9. CASE UploadUnauthorized(p) \/ UploadPutOff(p)
    <3>1. MarkRetry(p, task[p].batch, "failed") /\ task[p].batch \in Batches
      BY <2>0, <2>9 DEF UploadUnauthorized, UploadPutOff, Batches
    <3> QED BY <2>9, <3>1, MarkType DEF UploadUnauthorized, UploadPutOff, TypeOK
  <2>10. CASE PersistFails(p)
    BY <2>0, <2>10, RequeueType, AbortType DEF PersistFails, TypeOK, Fault
  <2> QED
    BY <1>4, <2>1, <2>2, <2>3, <2>4, <2>5, <2>6, <2>7, <2>8, <2>9, <2>10 DEF TaskStep
<1>5. ASSUME NEW b \in Batches, RowComesDue(b) PROVE TypeOK'
  BY <1>5 DEF RowComesDue, TypeOK
<1>6. CASE HostBackoffEnds
  BY <1>6 DEF HostBackoffEnds, TypeOK
<1>7. ASSUME NEW a \in Accounts, SignIn(a) PROVE TypeOK'
  BY <1>7 DEF SignIn, TypeOK
<1>8. CASE SessionEnds \/ DeleteAnswerLost
  BY <1>8 DEF SessionEnds, DeleteAnswerLost, TypeOK, Fault
<1>9. CASE DeleteAccount
  <2>1. task' \in [Tasks -> Task]
    BY <1>9 DEF DeleteAccount, TypeOK, Task, Tasks
  <2> QED BY <1>9, <2>1 DEF DeleteAccount, TypeOK
<1>10. CASE ListForPurge
  <2>1. [IdleTask EXCEPT !.pc = "discard", !.todo = pending_batches] \in Task
    BY DEF IdleTask, Task, Answers, pending_batches
  <2> QED BY <1>10, <2>1, IdleTaskType, TaskUpdate DEF ListForPurge, TypeOK, Tasks
<1>11. CASE DiscardBatch
  <2>1. PICK b \in task["router"].todo :
           /\ status' = [status EXCEPT ![b] = "none"]
           /\ attempts' = [attempts EXCEPT ![b] = 0]
           /\ waiting' = waiting \ {b}
           /\ task' = [task EXCEPT !["router"] =
                  IF task["router"].todo \ {b} = {} THEN IdleTask
                  ELSE [IdleTask EXCEPT !.pc = "discard", !.todo = task["router"].todo \ {b}]]
    BY <1>11 DEF DiscardBatch
  <2>2. task["router"].todo \in SUBSET Batches
    BY DEF TypeOK, Task, Tasks
  <2>3. [IdleTask EXCEPT !.pc = "discard", !.todo = task["router"].todo \ {b}] \in Task
    BY <2>2, IdleTaskType DEF IdleTask, Task, Answers
  <2>4. task' \in [Tasks -> Task]
    BY <2>1, <2>3, IdleTaskType, TaskUpdate DEF Tasks
  <2>5. status' \in [Batches -> Statuses] /\ attempts' \in [Batches -> Nat]
    BY <2>1, <2>2 DEF TypeOK, Statuses
  <2> QED BY <1>11, <2>1, <2>4, <2>5 DEF DiscardBatch, TypeOK
<1>12. CASE Stop
  BY <1>12, IdleTaskType, QueueAssumption DEF Stop, TypeOK
<1>13. CASE Start
  BY <1>13 DEF Start, TypeOK, unbatched_events
<1>14. CASE RecoverPush
  <2>1. PICK e \in recovering :
           /\ recovering' = recovering \ {e}
           /\ push(e)
           /\ task' = IF PushTakes(e) = {} THEN task
                      ELSE [task EXCEPT !["router"] = Holding("submit", PushTakes(e))]
    BY <1>14 DEF RecoverPush
  <2>2. e \in Events
    BY DEF TypeOK
  <2>3. /\ buffer' \in SUBSET Events /\ front' \in Versions \cup {NoVersion}
        /\ opened' \in BOOLEAN /\ PushTakes(e) \in SUBSET Events
    BY <2>1, <2>2, PushType
  <2>4. Holding("submit", PushTakes(e)) \in Task
    BY <2>3, HoldingType
  <2> QED BY <1>14, <2>1, <2>3, <2>4, TaskUpdate DEF RecoverPush, TypeOK, Tasks
<1>15. CASE RecoverDone
  BY <1>15 DEF RecoverDone, TypeOK
<1>16. CASE UNCHANGED vars
  BY <1>16 DEF vars, TypeOK
<1> QED
  BY <1>1, <1>2, <1>3, <1>4, <1>5, <1>6, <1>7, <1>8, <1>9, <1>10, <1>11, <1>12,
     <1>13, <1>14, <1>15, <1>16 DEF Next

(* Every variable keeps its type in every run of the pipeline: the rows,   *)
(* the tasks and the assembler are always in a state the code can hold.    *)
THEOREM TypeCorrect == Spec => []TypeOK
  BY TypeInit, TypeStep, PTL DEF Spec

-----------------------------------------------------------------------------
(* What a status update does to the rows and to the task that makes it.    *)

LEMMA MarkEffect ==
  ASSUME TypeOK, NEW p \in Tasks, NEW b \in Batches,
         NEW s \in {"pending", "failed", "sent", "rejected"},
         MarkRetry(p, b, s) \/ MarkFinal(p, b, s)
  PROVE  /\ \A c \in Batches : HasRow(c)' <=> HasRow(c)
         /\ recovering' \subseteq recovering
         /\ \E t \in Task :
               /\ task' = [task EXCEPT ![p] = t]
               /\ t.pc \in {"idle", "each"} /\ t.batch = {}
               /\ t.todo \subseteq task[p].todo
<1> DEFINE t == IF HasRow(b) THEN Sending(task[p].gated, task[p].todo \ {b}) ELSE IdleTask
<1>1. task[p].gated \in BOOLEAN /\ task[p].todo \in SUBSET Batches
  BY DEF TypeOK, Task
<1>2. t \in Task /\ task' = [task EXCEPT ![p] = t]
  BY <1>1, SendingType, IdleTaskType DEF MarkRetry, MarkFinal, Done, Abort
<1>3. t.pc \in {"idle", "each"} /\ t.batch = {} /\ t.todo \subseteq task[p].todo
  BY <1>1 DEF Sending, IdleTask
<1>4. \A c \in Batches : HasRow(c)' <=> HasRow(c)
  BY DEF MarkRetry, MarkFinal, RetryStatus, HasRow, TypeOK, rows
<1>5. recovering' \subseteq recovering
  BY DEF MarkRetry, MarkFinal, Abort
<1> QED BY <1>2, <1>3, <1>4, <1>5

(* Only these steps write status updates, each for a batch the task had.   *)
MarkStep(p) ==
    \/ DeferForBackoff(p) \/ NoSession(p) \/ TransportFails(p)
    \/ UploadAccepted(p) \/ UploadRejected(p)
    \/ UploadUnauthorized(p) \/ UploadPutOff(p)

LEMMA MarkStepMarks ==
  ASSUME TypeOK, NEW p \in Tasks, MarkStep(p)
  PROVE  \E b \in Batches : \E s \in {"pending", "failed", "sent", "rejected"} :
            MarkRetry(p, b, s) \/ MarkFinal(p, b, s)
<1>1. task[p].batch \in Batches /\ task[p].todo \subseteq Batches
  BY DEF TypeOK, Task, Batches
<1>2. CASE DeferForBackoff(p) \/ NoSession(p)
  BY <1>1, <1>2 DEF DeferForBackoff, NoSession
<1>3. CASE TransportFails(p)
  BY <1>1, <1>3 DEF TransportFails
<1>4. CASE UploadAccepted(p) \/ UploadRejected(p)
  BY <1>1, <1>4 DEF UploadAccepted, UploadRejected
<1>5. CASE UploadUnauthorized(p) \/ UploadPutOff(p)
  BY <1>1, <1>5 DEF UploadUnauthorized, UploadPutOff
<1> QED BY <1>2, <1>3, <1>4, <1>5 DEF MarkStep

LEMMA MarkStepFrame ==
  ASSUME NEW p \in Tasks, MarkStep(p)
  PROVE  UNCHANGED <<raw, buffer, front, opened, phase, session, deleted, cloud>>
<1> USE DEF assembler, process, running, world
<1>1. CASE DeferForBackoff(p) \/ NoSession(p)
  BY <1>1 DEF DeferForBackoff, NoSession
<1>2. CASE TransportFails(p)
  BY <1>2 DEF TransportFails
<1>3. CASE UploadAccepted(p) \/ UploadRejected(p)
  BY <1>3 DEF UploadAccepted, UploadRejected
<1>4. CASE UploadUnauthorized(p) \/ UploadPutOff(p)
  BY <1>4 DEF UploadUnauthorized, UploadPutOff
<1> QED BY <1>1, <1>2, <1>3, <1>4 DEF MarkStep

-----------------------------------------------------------------------------
(* The attempt ceiling and the age of the buffer need no strengthening.    *)

LEMMA CeilingMark ==
  ASSUME TypeOK, CeilingHolds, NEW p \in Tasks, NEW b \in Batches,
         NEW s \in {"pending", "failed", "sent", "rejected"},
         \/ MarkRetry(p, b, s)
         \/ MarkFinal(p, b, s) /\ s \in {"sent", "rejected"}
  PROVE  CeilingHolds'
<1>1. CASE ~HasRow(b)
  BY <1>1 DEF MarkRetry, MarkFinal, CeilingHolds, Resumable, rows
<1>2. CASE HasRow(b) /\ MarkRetry(p, b, s)
  <2> SUFFICES ASSUME NEW c \in Batches, Resumable(c)'
               PROVE  attempts'[c] < AttemptCeiling
    BY DEF CeilingHolds
  <2>1. CASE c = b
    BY <1>2, <2>1, QueueAssumption DEF MarkRetry, RetryStatus, Resumable, TypeOK
  <2>2. CASE c # b
    BY <1>2, <2>2 DEF MarkRetry, Resumable, CeilingHolds, TypeOK
  <2> QED BY <2>1, <2>2
<1>3. CASE HasRow(b) /\ MarkFinal(p, b, s) /\ s \in {"sent", "rejected"}
  BY <1>3 DEF MarkFinal, Resumable, CeilingHolds, TypeOK
<1> QED BY <1>1, <1>2, <1>3

LEMMA CeilingStep == TypeOK /\ CeilingHolds /\ [Next]_vars => CeilingHolds'
<1> SUFFICES ASSUME TypeOK, CeilingHolds, [Next]_vars PROVE CeilingHolds'
  OBVIOUS
<1>1. CASE UNCHANGED <<status, attempts>>
  BY <1>1 DEF CeilingHolds, Resumable
<1>2. ASSUME NEW p \in Tasks, PersistBatch(p) PROVE CeilingHolds'
  <2>1. task[p].batch \in Batches
    BY DEF TypeOK, Task, Batches
  <2> QED BY <1>2, <2>1, QueueAssumption DEF PersistBatch, CeilingHolds, Resumable, TypeOK
<1>3. CASE DiscardBatch
  <2>1. PICK b \in task["router"].todo : /\ status' = [status EXCEPT ![b] = "none"]
                                         /\ attempts' = [attempts EXCEPT ![b] = 0]
    BY <1>3 DEF DiscardBatch
  <2> QED BY <2>1, QueueAssumption DEF CeilingHolds, Resumable, TypeOK
<1>4. ASSUME NEW p \in Tasks, MarkStep(p) PROVE CeilingHolds'
  <2>1. task[p].batch \in Batches /\ task[p].todo \subseteq Batches
    BY DEF TypeOK, Task, Batches
  <2>2. CASE DeferForBackoff(p) \/ NoSession(p)
    BY <2>1, <2>2, CeilingMark DEF DeferForBackoff, NoSession
  <2>3. CASE TransportFails(p)
    BY <2>1, <2>3, CeilingMark DEF TransportFails
  <2>4. CASE UploadAccepted(p) \/ UploadRejected(p)
    BY <2>1, <2>4, CeilingMark DEF UploadAccepted, UploadRejected
  <2>5. CASE UploadUnauthorized(p) \/ UploadPutOff(p)
    BY <2>1, <2>5, CeilingMark DEF UploadUnauthorized, UploadPutOff
  <2> QED BY <1>4, <2>2, <2>3, <2>4, <2>5 DEF MarkStep
<1> QED
  BY <1>1, <1>2, <1>3, <1>4
  DEF Next, TaskStep, MarkStep, vars, rows, RawEvent, FlushDue, FlushNow, Shutdown,
      ResumePending, ListPending, Post, CloudAnswers, PersistFails, CloudBusy,
      RowComesDue, HostBackoffEnds, SignIn, SessionEnds, DeleteAccount,
      DeleteAnswerLost, ListForPurge, Stop, Start, RecoverPush, RecoverDone

(* No run reaches a batch that is still resumable at or past the attempt   *)
(* ceiling, whichever of the senders counted the attempts.                 *)
THEOREM CeilingAlwaysHolds == Spec => []CeilingHolds
<1>1. Init => CeilingHolds
  BY DEF Init, CeilingHolds, Resumable
<1> QED BY <1>1, TypeCorrect, CeilingStep, PTL DEF Spec

-----------------------------------------------------------------------------
(* Where the assembler's events go: a take moves one version out, a push   *)
(* adds its event to the buffer or to what it gives up.                    *)

LEMMA TakeMoves ==
  ASSUME TypeOK, TakeBatch
  PROVE  /\ OfVersion(buffer, front) \subseteq buffer
         /\ buffer' = buffer \ OfVersion(buffer, front)
  BY DEF TakeBatch, OfVersion

LEMMA PushMoves ==
  ASSUME TypeOK, NEW e \in Events, push(e)
  PROVE  /\ PushTakes(e) \subseteq buffer \cup {e}
         /\ buffer' = (buffer \cup {e}) \ PushTakes(e)
  BY DEF push, PushTakes, OfVersion, TypeOK

LEMMA OfVersionHomogeneous ==
  ASSUME NEW S, NEW v, NEW e \in OfVersion(S, v), NEW f \in OfVersion(S, v)
  PROVE  VersionOf[e] = VersionOf[f]
  BY DEF OfVersion

LEMMA PushTakesHomogeneous ==
  ASSUME NEW x, NEW e \in PushTakes(x), NEW f \in PushTakes(x)
  PROVE  VersionOf[e] = VersionOf[f]
  BY OfVersionHomogeneous DEF PushTakes

(* A step that takes a batch puts it into the hands of one task.           *)
TakeStep(p, k) ==
    /\ k \in {"submit", "drain"}
    /\ TakeBatch
    /\ task' = [task EXCEPT ![p] = Holding(k, OfVersion(buffer, front))]
    /\ UNCHANGED <<raw, status, attempts, waiting, recovering, session, deleted, cloud>>

(* A step that pushes event e, fresh or recovered.                         *)
PushStep(e) ==
    /\ Idle("router") /\ push(e)
    /\ task' = IF PushTakes(e) = {} THEN task
               ELSE [task EXCEPT !["router"] = Holding("submit", PushTakes(e))]
    /\ UNCHANGED <<status, attempts, waiting, session, deleted, cloud>>

(* A step that gives one task new work and leaves the data alone.          *)
AssignStep(p, S) ==
    /\ \E g \in BOOLEAN : task' = [task EXCEPT ![p] = Sending(g, S)]
    /\ S \in SUBSET pending_batches
    /\ UNCHANGED <<raw, buffer, front, opened, status, attempts, waiting, recovering,
                   session, deleted, cloud>>

(* A step that touches no batch, no event and no task.                     *)
QuietStep ==
    /\ UNCHANGED <<raw, buffer, front, opened, status, attempts, task, recovering, cloud>>
    /\ deleted \subseteq deleted'

(* An event seen signed out.                                               *)
LocalStep(e) ==
    /\ raw[e] = "absent" /\ raw' = [raw EXCEPT ![e] = "local"]
    /\ UNCHANGED <<buffer, front, opened, status, attempts, task, recovering,
                   deleted, cloud>>

(* An event seen signed in.                                                *)
IngestStep(e) ==
    /\ raw[e] = "absent" /\ raw' = [raw EXCEPT ![e] = "eligible"]
    /\ PushStep(e) /\ UNCHANGED recovering

(* The kinds of step the invariants below distinguish.                     *)
LEMMA StepKinds ==
  ASSUME TypeOK, [Next]_vars
  PROVE  \/ \E e \in Events : LocalStep(e) \/ IngestStep(e)
         \/ \E p \in Tasks : \E k : TakeStep(p, k)
         \/ \E p \in Tasks : \E S : AssignStep(p, S)
         \/ \E p \in Tasks :
               \/ PersistBatch(p) \/ PersistFails(p) \/ Post(p)
               \/ CloudAnswers(p) \/ CloudBusy(p) \/ MarkStep(p)
         \/ QuietStep \/ DeleteAccount \/ ListForPurge \/ DiscardBatch
         \/ Stop \/ Start \/ RecoverPush
<1> USE DEF assembler, rows, running, process, world
<1>1. ASSUME NEW e \in Events, RawEvent(e) PROVE LocalStep(e) \/ IngestStep(e)
  BY <1>1 DEF RawEvent, LocalStep, IngestStep, PushStep
<1>2. CASE FlushDue
  BY <1>2 DEF FlushDue, TakeStep, Tasks
<1>3. CASE FlushNow
  <2>1. CASE buffer # {}
    BY <1>3, <2>1 DEF FlushNow, TakeStep, Tasks
  <2>2. CASE buffer = {}
    <3>1. AssignStep("router", pending_batches)
      BY <1>3, <2>2 DEF FlushNow, AssignStep
    <3> QED BY <3>1 DEF Tasks
  <2> QED BY <2>1, <2>2
<1>4. CASE Shutdown
  BY <1>4 DEF Shutdown, TakeStep, QuietStep, Tasks
<1>5. CASE ResumePending
  <2>1. AssignStep("retry", resumable_batches)
    BY <1>5 DEF ResumePending, AssignStep, resumable_batches, pending_batches
  <2> QED BY <2>1 DEF Tasks
<1>6. ASSUME NEW p \in Tasks, ListPending(p) PROVE AssignStep(p, pending_batches)
  BY <1>6 DEF ListPending, AssignStep
<1>7. ASSUME NEW b \in Batches, RowComesDue(b) PROVE QuietStep
  BY <1>7 DEF RowComesDue, QuietStep
<1>8. ASSUME NEW a \in Accounts, SignIn(a) PROVE QuietStep
  BY <1>8 DEF SignIn, QuietStep
<1>9. CASE HostBackoffEnds \/ SessionEnds \/ DeleteAnswerLost \/ RecoverDone
  BY <1>9 DEF HostBackoffEnds, SessionEnds, DeleteAnswerLost, RecoverDone, QuietStep
<1>10. CASE UNCHANGED vars
  BY <1>10 DEF vars, QuietStep
<1> QED
  BY <1>1, <1>2, <1>3, <1>4, <1>5, <1>6, <1>7, <1>8, <1>9, <1>10
  DEF Next, TaskStep, MarkStep

-----------------------------------------------------------------------------
(* EligibleOnly.                                                           *)

(* eligible and local are final, so the eligible events only grow.         *)
LEMMA EligibleGrows ==
  ASSUME TypeOK, [Next]_vars, NEW e \in Events, raw[e] = "eligible"
  PROVE  raw'[e] = "eligible"
<1>1. CASE UNCHANGED raw
  BY <1>1
<1>2. ASSUME NEW f \in Events, RawEvent(f) PROVE raw'[e] = "eligible"
  BY <1>2 DEF RawEvent, TypeOK
<1> QED
  BY <1>1, <1>2
  DEF Next, TaskStep, vars, rows, world, running, process, FlushDue, FlushNow, Shutdown,
      ResumePending, ListPending, Post, CloudAnswers, PersistBatch, PersistFails,
      CloudBusy, DeferForBackoff, NoSession, TransportFails, UploadAccepted,
      UploadRejected, UploadUnauthorized, UploadPutOff, RowComesDue, HostBackoffEnds,
      SignIn, SessionEnds, DeleteAccount, DeleteAnswerLost, ListForPurge, DiscardBatch,
      Stop, Start, RecoverPush, RecoverDone

LEMMA HoldingFields ==
  ASSUME NEW k, NEW b
  PROVE  /\ Holding(k, b).pc = "persist" /\ Holding(k, b).batch = b
         /\ Holding(k, b).todo = {} /\ Holding(k, b).answer = "none"
  BY DEF Holding, IdleTask

LEMMA SendingFields ==
  ASSUME NEW g, NEW S
  PROVE  /\ Sending(g, S).pc \in {"idle", "each"} /\ Sending(g, S).batch = {}
         /\ Sending(g, S).todo = S /\ Sending(g, S).answer = "none"
  BY DEF Sending, IdleTask

(* What persisting a batch leaves behind: its row, and a task without it.  *)
LEMMA PersistEffect ==
  ASSUME TypeOK, NEW p \in Tasks, PersistBatch(p)
  PROVE  /\ task[p].batch \in Batches
         /\ \A b \in Batches : HasRow(b)' <=> b = task[p].batch \/ HasRow(b)
         /\ \E t \in Task : /\ task' = [task EXCEPT ![p] = t]
                            /\ t.pc \in {"idle", "each", "list"} /\ t.batch = {}
                            /\ t.todo \subseteq {task[p].batch}
<1>1. task[p].batch \in Batches
  BY DEF TypeOK, Task, Batches
<1>2. \A b \in Batches : HasRow(b)' <=> b = task[p].batch \/ HasRow(b)
  BY <1>1 DEF PersistBatch, HasRow, TypeOK
<1>3. CASE task[p].kind = "submit"
  <2>1. Sending(TRUE, {task[p].batch}) \in Task
    BY <1>1, SendingType
  <2>2. task' = [task EXCEPT ![p] = Sending(TRUE, {task[p].batch})]
    BY <1>3 DEF PersistBatch
  <2>3. /\ Sending(TRUE, {task[p].batch}).pc \in {"idle", "each"}
        /\ Sending(TRUE, {task[p].batch}).batch = {}
        /\ Sending(TRUE, {task[p].batch}).todo = {task[p].batch}
    BY DEF Sending, IdleTask
  <2> QED BY <1>1, <1>2, <2>1, <2>2, <2>3
<1>4. CASE task[p].kind # "submit"
  <2>1. [IdleTask EXCEPT !.pc = "list"] \in Task
    BY IdleTaskType DEF IdleTask, Task, Answers
  <2> QED BY <1>1, <1>2, <1>4, <2>1 DEF PersistBatch, IdleTask
<1> QED BY <1>3, <1>4

(* What the two steps of the purge leave in the router's hands.            *)
LEMMA PurgeEffect ==
  ASSUME TypeOK, ListForPurge \/ DiscardBatch
  PROVE  /\ \A b \in Batches : HasRow(b)' => HasRow(b)
         /\ \E t \in Task : /\ task' = [task EXCEPT !["router"] = t]
                            /\ t.pc \in {"idle", "discard"} /\ t.batch = {}
                            /\ t.todo \subseteq pending_batches \cup task["router"].todo
<1>1. task["router"].todo \subseteq Batches
  BY DEF TypeOK, Task, Tasks
<1>2. CASE ListForPurge
  <2>1. [IdleTask EXCEPT !.pc = "discard", !.todo = pending_batches] \in Task
    BY IdleTaskType DEF IdleTask, Task, Answers, pending_batches
  <2>2. \E t \in Task : /\ task' = [task EXCEPT !["router"] = t]
                        /\ t.pc \in {"idle", "discard"} /\ t.batch = {}
                        /\ t.todo \subseteq pending_batches
    BY <1>2, <2>1, IdleTaskType DEF ListForPurge, IdleTask
  <2> QED BY <1>2, <2>2 DEF ListForPurge, HasRow, rows
<1>3. CASE DiscardBatch
  <2>1. PICK b \in task["router"].todo :
           /\ status' = [status EXCEPT ![b] = "none"]
           /\ task' = [task EXCEPT !["router"] =
                  IF task["router"].todo \ {b} = {} THEN IdleTask
                  ELSE [IdleTask EXCEPT !.pc = "discard", !.todo = task["router"].todo \ {b}]]
    BY <1>3 DEF DiscardBatch
  <2>2. [IdleTask EXCEPT !.pc = "discard", !.todo = task["router"].todo \ {b}] \in Task
    BY <1>1, IdleTaskType DEF IdleTask, Task, Answers
  <2>3. \E t \in Task : /\ task' = [task EXCEPT !["router"] = t]
                        /\ t.pc \in {"idle", "discard"} /\ t.batch = {}
                        /\ t.todo \subseteq task["router"].todo
    BY <2>1, <2>2, IdleTaskType DEF IdleTask
  <2>4. \A c \in Batches : HasRow(c)' => HasRow(c)
    BY <1>1, <2>1 DEF HasRow, TypeOK
  <2> QED BY <2>3, <2>4
<1> QED BY <1>2, <1>3

LEMMA EligibleStep == TypeOK /\ EligibleOnly /\ [Next]_vars => EligibleOnly'
<1> SUFFICES ASSUME TypeOK, EligibleOnly, [Next]_vars PROVE EligibleOnly'
  OBVIOUS
<1>1. Eligible \subseteq Eligible'
  BY EligibleGrows DEF Eligible
<1> USE DEF EligibleOnly
(* The task function is all that is left to see once a step keeps rows and *)
(* cloud and gives task p the record t.                                    *)
<1>2. ASSUME NEW p \in Tasks, NEW t \in Task, task' = [task EXCEPT ![p] = t],
             t.batch \subseteq Eligible', \A b \in t.todo : b \subseteq Eligible'
      PROVE  \A q \in Tasks : /\ task'[q].batch \subseteq Eligible'
                              /\ \A b \in task'[q].todo : b \subseteq Eligible'
  BY <1>1, <1>2 DEF TypeOK
<1>3. CASE QuietStep
  BY <1>1, <1>3 DEF QuietStep, HasRow
<1>4. ASSUME NEW e \in Events, LocalStep(e) PROVE EligibleOnly'
  BY <1>1, <1>4 DEF LocalStep, HasRow
<1>5. ASSUME NEW e \in Events, PushStep(e), raw'[e] = "eligible",
             recovering' \subseteq recovering
      PROVE  EligibleOnly'
  <2>1. /\ PushTakes(e) \subseteq buffer \cup {e}
        /\ buffer' = (buffer \cup {e}) \ PushTakes(e)
    BY <1>5, PushMoves DEF PushStep
  <2>2. e \in Eligible'
    BY <1>5 DEF Eligible
  <2>3. Holding("submit", PushTakes(e)) \in Task
    BY <2>1, HoldingType DEF TypeOK
  <2>4. \A q \in Tasks : /\ task'[q].batch \subseteq Eligible'
                         /\ \A b \in task'[q].todo : b \subseteq Eligible'
    <3>1. CASE task' = task
      BY <1>1, <3>1
    <3>2. CASE task' = [task EXCEPT !["router"] = Holding("submit", PushTakes(e))]
      BY <1>1, <1>2, <2>1, <2>2, <2>3, <3>2, HoldingFields DEF Tasks
    <3> QED BY <1>5, <3>1, <3>2 DEF PushStep
  <2> QED BY <1>1, <1>5, <2>1, <2>2, <2>4 DEF PushStep, HasRow
<1>6. ASSUME NEW p \in Tasks, NEW k, TakeStep(p, k) PROVE EligibleOnly'
  <2>1. /\ OfVersion(buffer, front) \subseteq buffer
        /\ buffer' = buffer \ OfVersion(buffer, front)
    BY <1>6, TakeMoves DEF TakeStep
  <2>2. Holding(k, OfVersion(buffer, front)) \in Task
    BY <1>6, <2>1, HoldingType DEF TypeOK, TakeStep
  <2>3. \A q \in Tasks : /\ task'[q].batch \subseteq Eligible'
                         /\ \A b \in task'[q].todo : b \subseteq Eligible'
    BY <1>1, <1>2, <1>6, <2>1, <2>2, HoldingFields DEF TakeStep
  <2> QED BY <1>1, <1>6, <2>1, <2>3 DEF TakeStep, HasRow
<1>7. ASSUME NEW p \in Tasks, NEW S, AssignStep(p, S) PROVE EligibleOnly'
  <2>1. PICK g \in BOOLEAN : task' = [task EXCEPT ![p] = Sending(g, S)]
    BY <1>7 DEF AssignStep
  <2>2. S \in SUBSET Batches /\ \A b \in S : b \subseteq Eligible
    BY <1>7 DEF AssignStep, pending_batches, Resumable, HasRow
  <2>3. Sending(g, S) \in Task
    BY <2>2, SendingType
  <2>4. \A q \in Tasks : /\ task'[q].batch \subseteq Eligible'
                         /\ \A b \in task'[q].todo : b \subseteq Eligible'
    BY <1>1, <1>2, <2>1, <2>2, <2>3, SendingFields
  <2> QED BY <1>1, <1>7, <2>4 DEF AssignStep, HasRow
<1>8. ASSUME NEW p \in Tasks, PersistBatch(p) PROVE EligibleOnly'
  <2>1. \A q \in Tasks : /\ task'[q].batch \subseteq Eligible'
                         /\ \A b \in task'[q].todo : b \subseteq Eligible'
    BY <1>1, <1>2, <1>8, PersistEffect
  <2> QED BY <1>1, <1>8, <2>1, PersistEffect DEF PersistBatch, assembler, world
<1>9. ASSUME NEW p \in Tasks, PersistFails(p) PROVE EligibleOnly'
  <2>1. \A q \in Tasks : /\ task'[q].batch \subseteq Eligible'
                         /\ \A b \in task'[q].todo : b \subseteq Eligible'
    BY <1>1, <1>2, <1>9, IdleTaskType DEF PersistFails, Abort, IdleTask
  <2>2. buffer' = buffer \cup task[p].batch /\ recovering' \subseteq recovering
    BY <1>9 DEF PersistFails, Abort, requeue
  <2> QED BY <1>1, <1>9, <2>1, <2>2 DEF PersistFails, HasRow, rows, world
<1>10. ASSUME NEW p \in Tasks, Post(p) PROVE EligibleOnly'
  <2>1. PICK b \in task[p].todo :
           task' = [task EXCEPT ![p].pc = "flight", ![p].batch = b,
                                ![p].todo = @ \ {b}, ![p].acct = session]
    BY <1>10 DEF Post
  <2>2. \A q \in Tasks : /\ task'[q].batch \subseteq Eligible'
                         /\ \A c \in task'[q].todo : c \subseteq Eligible'
    BY <1>1, <2>1 DEF TypeOK, Task
  <2> QED BY <1>1, <1>10, <2>2 DEF Post, HasRow, assembler, rows, world
<1>11. ASSUME NEW p \in Tasks, CloudAnswers(p) \/ CloudBusy(p) PROVE EligibleOnly'
  <2>1. \A q \in Tasks : task'[q].batch = task[q].batch /\ task'[q].todo = task[q].todo
    BY <1>11 DEF CloudAnswers, CloudBusy, TypeOK, Task
  <2>2. cloud' \subseteq cloud \cup {<<task[p].acct, task[p].batch>>}
    BY <1>11 DEF CloudAnswers, CloudBusy, world
  <2> QED
    BY <1>1, <1>11, <2>1, <2>2
    DEF CloudAnswers, CloudBusy, HasRow, assembler, rows
<1>12. ASSUME NEW p \in Tasks, MarkStep(p) PROVE EligibleOnly'
  <2>1. PICK b \in Batches, s \in {"pending", "failed", "sent", "rejected"} :
           MarkRetry(p, b, s) \/ MarkFinal(p, b, s)
    BY <1>12, MarkStepMarks
  <2>2. /\ \A c \in Batches : HasRow(c)' <=> HasRow(c)
        /\ recovering' \subseteq recovering
        /\ \E t \in Task :
              /\ task' = [task EXCEPT ![p] = t]
              /\ t.pc \in {"idle", "each"} /\ t.batch = {}
              /\ t.todo \subseteq task[p].todo
    BY <2>1, MarkEffect
  <2>3. \A q \in Tasks : /\ task'[q].batch \subseteq Eligible'
                         /\ \A c \in task'[q].todo : c \subseteq Eligible'
    BY <1>1, <1>2, <2>2
  <2> QED BY <1>1, <1>12, <2>2, <2>3, MarkStepFrame
<1>13. CASE DeleteAccount
  <2>1. \A q \in Tasks : task'[q].batch = task[q].batch /\ task'[q].todo = task[q].todo
    BY <1>13 DEF DeleteAccount, TypeOK, Task, Tasks
  <2> QED BY <1>1, <1>13, <2>1 DEF DeleteAccount, HasRow, assembler, rows
<1>14. CASE ListForPurge \/ DiscardBatch
  <2>1. \A b \in pending_batches : b \subseteq Eligible
    BY DEF pending_batches, Resumable, HasRow
  <2>2. \A q \in Tasks : /\ task'[q].batch \subseteq Eligible'
                         /\ \A c \in task'[q].todo : c \subseteq Eligible'
    BY <1>1, <1>2, <1>14, <2>1, PurgeEffect DEF Tasks
  <2> QED
    BY <1>1, <1>14, <2>2, PurgeEffect DEF ListForPurge, DiscardBatch, assembler, world
<1>16. CASE Stop
  BY <1>1, <1>16 DEF Stop, IdleTask, HasRow, rows
<1>17. CASE Start
  BY <1>1, <1>17 DEF Start, HasRow, assembler, rows, world, unbatched_events, Eligible
<1>18. CASE RecoverPush
  <2>1. PICK e \in recovering : recovering' = recovering \ {e} /\ PushStep(e)
    BY <1>18 DEF RecoverPush, PushStep, rows, process, world
  <2>2. e \in Events /\ raw'[e] = "eligible"
    BY <1>18 DEF RecoverPush, Eligible
  <2> QED BY <1>5, <2>1, <2>2
<1>19. ASSUME NEW e \in Events, IngestStep(e) PROVE EligibleOnly'
  BY <1>5, <1>19 DEF IngestStep, TypeOK
<1> QED
  BY StepKinds, <1>3, <1>4, <1>6, <1>7, <1>8, <1>9, <1>10, <1>11, <1>12, <1>13, <1>14,
     <1>16, <1>17, <1>18, <1>19

-----------------------------------------------------------------------------
(* DownIsEmpty: nothing runs in a process that is down.                    *)

LEMMA DownStep == TypeOK /\ DownIsEmpty /\ [Next]_vars => DownIsEmpty'
<1> SUFFICES ASSUME TypeOK, DownIsEmpty, [Next]_vars, phase' = "down"
             PROVE  buffer' = {} /\ recovering' = {} /\ \A p \in Tasks : task'[p] = IdleTask
  BY DEF DownIsEmpty
<1> USE DEF assembler, rows, running, process, world
<1>1. CASE Stop
  BY <1>1 DEF Stop
<1>2. CASE phase # "down"
  BY <1>1, <1>2
  DEF Next, TaskStep, vars, RawEvent, FlushDue, FlushNow, Shutdown, ResumePending,
      ListPending, Post, CloudAnswers, PersistBatch, PersistFails, CloudBusy,
      DeferForBackoff, NoSession, TransportFails, UploadAccepted, UploadRejected,
      UploadUnauthorized, UploadPutOff, RowComesDue, HostBackoffEnds, SignIn,
      SessionEnds, DeleteAccount, DeleteAnswerLost, ListForPurge, DiscardBatch, Start,
      RecoverPush, RecoverDone
<1>3. CASE phase = "down"
  <2>1. /\ buffer = {} /\ recovering = {}
        /\ \A p \in Tasks : task[p] = IdleTask /\ task[p].pc = "idle"
    <3>1. IdleTask.pc = "idle"
      BY DEF IdleTask
    <3> QED BY <1>3, <3>1 DEF DownIsEmpty
  <2>2. \A p \in Tasks : ~(TaskStep(p) \/ PersistFails(p) \/ CloudBusy(p) \/ TransportFails(p))
    BY <2>1
    DEF TaskStep, ListPending, Post, CloudAnswers, PersistBatch, PersistFails, CloudBusy,
        DeferForBackoff, NoSession, TransportFails, UploadAccepted, UploadRejected,
        UploadUnauthorized, UploadPutOff
  <2>3. ~(ListForPurge \/ DiscardBatch)
    BY <2>1 DEF ListForPurge, DiscardBatch, Tasks
  <2>4. UNCHANGED <<buffer, recovering, task>>
    BY <1>3, <2>2, <2>3
    DEF Next, vars, RawEvent, FlushDue, FlushNow, Shutdown, ResumePending, RowComesDue,
        HostBackoffEnds, SignIn, SessionEnds, DeleteAccount, DeleteAnswerLost, Stop, Start,
        RecoverPush, RecoverDone
  <2> QED BY <2>1, <2>4
<1> QED BY <1>2, <1>3

-----------------------------------------------------------------------------
(* SingleHome.                                                             *)

LEMMA HeldUpdate ==
  ASSUME TypeOK, NEW p \in Tasks, NEW t \in Task, task' = [task EXCEPT ![p] = t]
  PROVE  /\ \A q \in Tasks \ {p} : Held(q)' = Held(q)
         /\ Held(p)' = IF t.pc = "persist" THEN t.batch ELSE {}
  BY DEF Held, TypeOK

LEMMA HeldHolding ==
  ASSUME TypeOK, NEW p \in Tasks, NEW k \in {"submit", "drain"}, NEW b \in SUBSET Events,
         task' = [task EXCEPT ![p] = Holding(k, b)]
  PROVE  /\ \A q \in Tasks \ {p} : Held(q)' = Held(q)
         /\ Held(p)' = b
<1>1. Holding(k, b) \in Task
  BY HoldingType
<1>2. Holding(k, b).pc = "persist" /\ Holding(k, b).batch = b
  BY DEF Holding, IdleTask
<1> QED BY <1>1, <1>2, HeldUpdate

LEMMA HeldSending ==
  ASSUME TypeOK, NEW p \in Tasks, NEW g \in BOOLEAN, NEW S \in SUBSET Batches,
         task' = [task EXCEPT ![p] = Sending(g, S)]
  PROVE  \A q \in Tasks : Held(q)' \subseteq Held(q)
<1>1. Sending(g, S) \in Task
  BY SendingType
<1>2. Sending(g, S).pc # "persist"
  BY DEF Sending, IdleTask
<1> QED BY <1>1, <1>2, HeldUpdate

(* Rows that survive, events that leave the buffer or the recovery list    *)
(* and tasks that let go of a batch cannot break SingleHome.               *)
LEMMA HomeShrinks ==
  ASSUME TypeOK, SingleHome,
         buffer' \subseteq buffer, recovering' \subseteq recovering,
         \A q \in Tasks : Held(q)' \subseteq Held(q),
         \A b \in Batches : HasRow(b)' => HasRow(b)
  PROVE  SingleHome'
<1>1. \A e \in Events : Batched(e)' => Batched(e)
  BY DEF Batched
<1>2. \A q \in Tasks : Held(q) \subseteq Events
  BY DEF Held, TypeOK, Task
<1> QED BY <1>1, <1>2 DEF SingleHome, TypeOK

LEMMA HomeStep ==
  TypeOK /\ EligibleOnly /\ DownIsEmpty /\ SingleHome /\ [Next]_vars => SingleHome'
<1> SUFFICES ASSUME TypeOK, EligibleOnly, DownIsEmpty, SingleHome, [Next]_vars
             PROVE  SingleHome'
  OBVIOUS
<1>0. \A q \in Tasks : Held(q) \subseteq Events
  BY DEF Held, TypeOK, Task
<1>1. CASE QuietStep \/ \E e \in Events : LocalStep(e)
  BY <1>1, HomeShrinks DEF QuietStep, LocalStep, HasRow, Held
<1>2. ASSUME NEW e \in Events, PushStep(e), recovering' \subseteq recovering \ {e},
             e \notin buffer, ~Batched(e), \A q \in Tasks : e \notin Held(q)
      PROVE  SingleHome'
  <2>1. /\ PushTakes(e) \subseteq buffer \cup {e}
        /\ buffer' = (buffer \cup {e}) \ PushTakes(e)
    BY <1>2, PushMoves DEF PushStep
  <2>2. \A b \in Batches : HasRow(b)' <=> HasRow(b)
    BY <1>2 DEF PushStep, HasRow
  <2>3. \A f \in Events : Batched(f)' <=> Batched(f)
    BY <2>2 DEF Batched
  <2>4. /\ \A q \in Tasks \ {"router"} : Held(q)' = Held(q)
        /\ Held("router")' = PushTakes(e)
    <3>1. Held("router") = {}
      BY <1>2 DEF PushStep, Idle, Held
    <3>2. CASE PushTakes(e) = {}
      BY <1>2, <3>1, <3>2 DEF PushStep, Held
    <3>3. CASE PushTakes(e) # {}
      <4>1. PushTakes(e) \in SUBSET Events
        BY <2>1 DEF TypeOK
      <4>2. task' = [task EXCEPT !["router"] = Holding("submit", PushTakes(e))]
        BY <1>2, <3>3 DEF PushStep
      <4> QED BY <4>1, <4>2, HeldHolding DEF Tasks
    <3> QED BY <3>2, <3>3
  <2> QED BY <1>0, <1>2, <2>1, <2>2, <2>3, <2>4 DEF SingleHome, TypeOK
<1>3. ASSUME NEW p \in Tasks, NEW k, TakeStep(p, k) PROVE SingleHome'
  <2>1. /\ OfVersion(buffer, front) \subseteq buffer
        /\ buffer' = buffer \ OfVersion(buffer, front)
    BY <1>3, TakeMoves DEF TakeStep
  <2>2. OfVersion(buffer, front) \in SUBSET Events
    BY <2>1 DEF TypeOK
  <2>3. /\ \A q \in Tasks \ {p} : Held(q)' = Held(q)
        /\ Held(p)' = OfVersion(buffer, front)
    BY <1>3, <2>2, HeldHolding DEF TakeStep
  <2>4. \A b \in Batches : HasRow(b)' <=> HasRow(b)
    BY <1>3 DEF TakeStep, HasRow
  <2>5. \A f \in Events : Batched(f)' <=> Batched(f)
    BY <2>4 DEF Batched
  <2> QED BY <1>0, <1>3, <2>1, <2>3, <2>4, <2>5 DEF SingleHome, TypeOK, TakeStep
<1>4. ASSUME NEW p \in Tasks, NEW S, AssignStep(p, S) PROVE SingleHome'
  <2>1. PICK g \in BOOLEAN : task' = [task EXCEPT ![p] = Sending(g, S)]
    BY <1>4 DEF AssignStep
  <2>2. S \in SUBSET Batches
    BY <1>4 DEF AssignStep, pending_batches
  <2>3. \A q \in Tasks : Held(q)' \subseteq Held(q)
    BY <2>1, <2>2, HeldSending
  <2> QED BY <1>4, <2>3, HomeShrinks DEF AssignStep, HasRow
<1>5. ASSUME NEW p \in Tasks, PersistBatch(p) PROVE SingleHome'
  <2> DEFINE c == task[p].batch
  <2>1. /\ c \in Batches /\ Held(p) = c
        /\ \A b \in Batches : HasRow(b)' <=> b = c \/ HasRow(b)
    BY <1>5, PersistEffect DEF PersistBatch, Held
  <2>2. \A q \in Tasks \ {p} : Held(q)' = Held(q)
    BY <1>5, PersistEffect, HeldUpdate
  <2>3. Held(p)' = {}
    BY <1>5, PersistEffect, HeldUpdate
  <2>4. \A e \in Events : Batched(e)' => e \in c \/ Batched(e)
    BY <2>1 DEF Batched
  <2>5. \A b \in Batches : HasRow(b) /\ b # c => b \cap c = {}
    BY <1>5, <2>1 DEF PersistBatch, Batched
  <2>6. UNCHANGED <<buffer, recovering>>
    BY <1>5 DEF PersistBatch, assembler
  <2>7. \A b, d \in Batches : (HasRow(b) /\ HasRow(d))' /\ b # d => b \cap d = {}
    BY <2>1, <2>5 DEF SingleHome
  <2>8. \A q \in Tasks : \A e \in Held(q)' :
           ~Batched(e)' /\ e \notin buffer' /\ e \notin recovering'
    BY <1>0, <2>1, <2>2, <2>3, <2>4, <2>6 DEF SingleHome
  <2>9. \A q, r \in Tasks : q # r => (Held(q) \cap Held(r) = {})'
    BY <2>2, <2>3 DEF SingleHome
  <2> QED BY <2>1, <2>4, <2>6, <2>7, <2>8, <2>9 DEF SingleHome, TypeOK
<1>6. ASSUME NEW p \in Tasks, PersistFails(p) PROVE SingleHome'
  <2>1. /\ \A q \in Tasks \ {p} : Held(q)' = Held(q)
        /\ Held(p)' = {}
    BY <1>6, IdleTaskType, HeldUpdate DEF PersistFails, Abort, IdleTask
  <2>2. /\ buffer' = buffer \cup Held(p) /\ recovering' \subseteq recovering
        /\ \A b \in Batches : HasRow(b)' <=> HasRow(b)
    BY <1>6 DEF PersistFails, Abort, requeue, Held, HasRow, rows
  <2>3. \A e \in Events : Batched(e)' <=> Batched(e)
    BY <2>2 DEF Batched
  <2> QED BY <1>0, <2>1, <2>2, <2>3 DEF SingleHome, TypeOK
<1>7. ASSUME NEW p \in Tasks, Post(p) \/ CloudAnswers(p) \/ CloudBusy(p) PROVE SingleHome'
  <2>1. \A q \in Tasks : Held(q)' \subseteq Held(q)
    <3>1. \A q \in Tasks : q # p => task'[q] = task[q]
      BY <1>7 DEF Post, CloudAnswers, CloudBusy, TypeOK
    <3>2. task'[p].pc \in {"flight", "answered"}
      <4>1. CASE Post(p)
        BY <4>1 DEF Post, TypeOK, Task
      <4>2. CASE CloudAnswers(p)
        BY <4>2 DEF CloudAnswers, TypeOK, Task
      <4>3. CASE CloudBusy(p)
        BY <4>3 DEF CloudBusy, TypeOK, Task
      <4> QED BY <1>7, <4>1, <4>2, <4>3
    <3> QED BY <3>1, <3>2 DEF Held
  <2> QED
    BY <1>7, <2>1, HomeShrinks DEF Post, CloudAnswers, CloudBusy, HasRow, assembler, rows
<1>8. ASSUME NEW p \in Tasks, MarkStep(p) PROVE SingleHome'
  <2>1. PICK b \in Batches, s \in {"pending", "failed", "sent", "rejected"} :
           MarkRetry(p, b, s) \/ MarkFinal(p, b, s)
    BY <1>8, MarkStepMarks
  <2>2. /\ \A c \in Batches : HasRow(c)' <=> HasRow(c)
        /\ recovering' \subseteq recovering
        /\ \E t \in Task : task' = [task EXCEPT ![p] = t] /\ t.pc \in {"idle", "each"}
    BY <2>1, MarkEffect
  <2>3. \A q \in Tasks : Held(q)' \subseteq Held(q)
    BY <2>2, HeldUpdate
  <2> QED BY <1>8, <2>2, <2>3, MarkStepFrame, HomeShrinks
<1>9. CASE DeleteAccount
  <2>1. \A q \in Tasks : Held(q)' \subseteq Held(q)
    BY <1>9 DEF DeleteAccount, Held, TypeOK, Task, Tasks
  <2> QED BY <1>9, <2>1, HomeShrinks DEF DeleteAccount, HasRow, assembler, rows
<1>10. CASE ListForPurge \/ DiscardBatch
  <2>1. \A q \in Tasks : Held(q)' \subseteq Held(q)
    BY <1>10, PurgeEffect, HeldUpdate DEF Tasks
  <2> QED
    BY <1>10, <2>1, PurgeEffect, HomeShrinks DEF ListForPurge, DiscardBatch, assembler
<1>11. CASE Stop
  <2>1. \A q \in Tasks : Held(q)' \subseteq Held(q)
    BY <1>11 DEF Stop, Held, IdleTask
  <2> QED BY <1>11, <2>1, HomeShrinks DEF Stop, HasRow, rows
<1>12. CASE Start
  <2>1. buffer = {} /\ \A q \in Tasks : Held(q) = {}
    BY <1>12 DEF Start, DownIsEmpty, Held, IdleTask
  <2>2. /\ \A b \in Batches : HasRow(b)' <=> HasRow(b)
        /\ buffer' = buffer /\ \A q \in Tasks : Held(q)' = Held(q)
        /\ \A e \in recovering' : ~Batched(e)
        /\ recovering' \subseteq Events
    BY <1>12 DEF Start, HasRow, Held, rows, assembler, unbatched_events
  <2>3. \A e \in Events : Batched(e)' <=> Batched(e)
    BY <2>2 DEF Batched
  <2> QED BY <2>1, <2>2, <2>3 DEF SingleHome
<1>13. CASE RecoverPush
  <2>1. PICK e \in recovering : recovering' = recovering \ {e} /\ PushStep(e)
    BY <1>13 DEF RecoverPush, PushStep, rows, process, world
  <2>2. e \in Events /\ e \notin buffer /\ ~Batched(e) /\ \A q \in Tasks : e \notin Held(q)
    BY DEF SingleHome, TypeOK
  <2> QED BY <1>2, <2>1, <2>2
<1>14. ASSUME NEW e \in Events, IngestStep(e) PROVE SingleHome'
  <2>1. e \notin Eligible
    BY <1>14 DEF IngestStep, Eligible
  <2>2. /\ e \notin buffer /\ e \notin recovering /\ ~Batched(e)
        /\ \A q \in Tasks : e \notin Held(q)
    BY <2>1 DEF EligibleOnly, Batched, Held
  <2> QED BY <1>2, <1>14, <2>2 DEF IngestStep
<1> QED
  BY StepKinds, <1>1, <1>3, <1>4, <1>5, <1>6, <1>7, <1>8, <1>9, <1>10, <1>11, <1>12,
     <1>13, <1>14

-----------------------------------------------------------------------------
(* RowsOutliveSenders: until an account is deleted, every batch a sender   *)
(* has or the cloud stored still has its row.                              *)

LEMMA RowsStep == TypeOK /\ RowsOutliveSenders /\ [Next]_vars => RowsOutliveSenders'
<1> SUFFICES ASSUME TypeOK, RowsOutliveSenders, [Next]_vars, deleted' = {}
             PROVE  RowsOutliveSenders'
  BY DEF RowsOutliveSenders
(* A step that keeps the rows, the cloud and all tasks but one.            *)
<1>1. ASSUME deleted = {}, \A b \in Batches : HasRow(b) => HasRow(b)', cloud' = cloud,
             NEW p \in Tasks, NEW t \in Task, task' = [task EXCEPT ![p] = t],
             t.pc \notin {"flight", "answered", "purge", "discard"},
             \A b \in t.todo : HasRow(b)'
      PROVE  RowsOutliveSenders'
  <2>1. \A q \in Tasks : task[q].todo \subseteq Batches /\ task[q].batch \in Batches
    BY DEF TypeOK, Task, Batches
  <2>2. \A s \in cloud : s[2] \in Batches
    BY DEF TypeOK
  <2> QED BY <1>1, <2>1, <2>2 DEF RowsOutliveSenders, TypeOK, Tasks
<1>2. CASE QuietStep \/ \E e \in Events : LocalStep(e)
  BY <1>2 DEF QuietStep, LocalStep, RowsOutliveSenders, HasRow
<1>3. ASSUME NEW e \in Events, PushStep(e) PROVE RowsOutliveSenders'
  <2>1. PushTakes(e) \in SUBSET Events
    BY <1>3, PushMoves DEF PushStep, TypeOK
  <2>2. deleted = {} /\ cloud' = cloud /\ \A b \in Batches : HasRow(b) <=> HasRow(b)'
    BY <1>3 DEF PushStep, HasRow
  <2>3. CASE task' = task
    BY <1>3, <2>2, <2>3 DEF PushStep, RowsOutliveSenders, HasRow
  <2>4. CASE task' = [task EXCEPT !["router"] = Holding("submit", PushTakes(e))]
    <3>1. Holding("submit", PushTakes(e)) \in Task
      BY <2>1, HoldingType
    <3>2. /\ Holding("submit", PushTakes(e)).pc = "persist"
          /\ Holding("submit", PushTakes(e)).todo = {}
      BY DEF Holding, IdleTask
    <3> QED BY <1>1, <2>2, <2>4, <3>1, <3>2 DEF Tasks
  <2> QED BY <1>3, <2>3, <2>4 DEF PushStep
<1>4. ASSUME NEW p \in Tasks, NEW k, TakeStep(p, k) PROVE RowsOutliveSenders'
  <2>1. Holding(k, OfVersion(buffer, front)) \in Task
    BY <1>4, HoldingType DEF TakeStep, OfVersion, TypeOK
  <2>2. /\ Holding(k, OfVersion(buffer, front)).pc = "persist"
        /\ Holding(k, OfVersion(buffer, front)).todo = {}
    BY DEF Holding, IdleTask
  <2> QED BY <1>1, <1>4, <2>1, <2>2 DEF TakeStep, HasRow
<1>5. ASSUME NEW p \in Tasks, NEW S, AssignStep(p, S) PROVE RowsOutliveSenders'
  <2>1. PICK g \in BOOLEAN : task' = [task EXCEPT ![p] = Sending(g, S)]
    BY <1>5 DEF AssignStep
  <2>2. S \in SUBSET Batches /\ \A b \in S : HasRow(b)'
    BY <1>5 DEF AssignStep, pending_batches, Resumable, HasRow
  <2>3. Sending(g, S) \in Task
    BY <2>2, SendingType
  <2>4. Sending(g, S).pc \in {"idle", "each"} /\ Sending(g, S).todo = S
    BY DEF Sending, IdleTask
  <2> QED BY <1>1, <1>5, <2>1, <2>2, <2>3, <2>4 DEF AssignStep, HasRow
<1>6. ASSUME NEW p \in Tasks, PersistBatch(p) PROVE RowsOutliveSenders'
  <2>1. deleted = {} /\ cloud' = cloud
    BY <1>6 DEF PersistBatch, world
  <2> QED BY <1>1, <1>6, <2>1, PersistEffect
<1>7. ASSUME NEW p \in Tasks, PersistFails(p) PROVE RowsOutliveSenders'
  <2>1. IdleTask.pc = "idle" /\ IdleTask.todo = {}
    BY DEF IdleTask
  <2> QED BY <1>1, <1>7, <2>1, IdleTaskType DEF PersistFails, Abort, rows, world, HasRow
<1>8. ASSUME NEW p \in Tasks, Post(p) PROVE RowsOutliveSenders'
  <2>1. PICK b \in task[p].todo :
           task' = [task EXCEPT ![p].pc = "flight", ![p].batch = b,
                                ![p].todo = @ \ {b}, ![p].acct = session]
    BY <1>8 DEF Post
  <2>2. /\ \A q \in Tasks : q # p => task'[q] = task[q]
        /\ task'[p].pc = "flight" /\ task'[p].batch = b
        /\ task'[p].todo = task[p].todo \ {b}
    BY <2>1 DEF TypeOK, Task
  <2> QED BY <1>8, <2>2 DEF Post, RowsOutliveSenders, HasRow, rows, world, Tasks
<1>9. ASSUME NEW p \in Tasks, CloudAnswers(p) \/ CloudBusy(p) PROVE RowsOutliveSenders'
  <2>1. task[p].pc = "flight"
    BY <1>9 DEF CloudAnswers, CloudBusy
  <2>2. /\ \A q \in Tasks : q # p => task'[q] = task[q]
        /\ task'[p].pc = "answered" /\ task'[p].batch = task[p].batch
        /\ task'[p].todo = task[p].todo
    BY <1>9 DEF CloudAnswers, CloudBusy, TypeOK, Task
  <2>3. cloud' \subseteq cloud \cup {<<task[p].acct, task[p].batch>>}
    BY <1>9 DEF CloudAnswers, CloudBusy, world
  <2>4. deleted = {} /\ status' = status
    BY <1>9 DEF CloudAnswers, CloudBusy, world, rows
  <2> QED BY <2>1, <2>2, <2>3, <2>4 DEF RowsOutliveSenders, HasRow, Tasks
<1>10. ASSUME NEW p \in Tasks, MarkStep(p) PROVE RowsOutliveSenders'
  <2>1. PICK b \in Batches, s \in {"pending", "failed", "sent", "rejected"} :
           MarkRetry(p, b, s) \/ MarkFinal(p, b, s)
    BY <1>10, MarkStepMarks
  <2>2. deleted = {} /\ cloud' = cloud
    BY <1>10, MarkStepFrame
  <2>3. /\ \A c \in Batches : HasRow(c)' <=> HasRow(c)
        /\ \E t \in Task :
              /\ task' = [task EXCEPT ![p] = t]
              /\ t.pc \in {"idle", "each"} /\ t.todo \subseteq task[p].todo
    BY <2>1, MarkEffect
  <2>4. \A c \in task[p].todo : c \in Batches /\ HasRow(c)
    BY <2>2 DEF RowsOutliveSenders, TypeOK, Task
  <2> QED BY <1>1, <2>2, <2>3, <2>4
<1>11. ~DeleteAccount
  BY DEF DeleteAccount
<1>12. ~(ListForPurge \/ DiscardBatch)
  <2> SUFFICES ASSUME ListForPurge \/ DiscardBatch PROVE FALSE
    OBVIOUS
  <2>1. deleted = {}
    BY DEF ListForPurge, DiscardBatch, world
  <2> QED BY <2>1 DEF RowsOutliveSenders, ListForPurge, DiscardBatch
<1>13. CASE Stop
  <2>1. IdleTask.pc = "idle" /\ IdleTask.todo = {}
    BY DEF IdleTask
  <2> QED BY <1>13, <2>1 DEF Stop, RowsOutliveSenders, HasRow, rows, Tasks
<1>14. CASE Start
  BY <1>14 DEF Start, RowsOutliveSenders, HasRow, rows, world
<1>15. CASE RecoverPush
  <2>1. PICK e \in recovering : PushStep(e)
    BY <1>15 DEF RecoverPush, PushStep, rows, process, world
  <2> QED BY <1>3, <2>1 DEF TypeOK
<1> QED
  BY StepKinds, <1>2, <1>3, <1>4, <1>5, <1>6, <1>7, <1>8, <1>9, <1>10, <1>11, <1>12,
     <1>13, <1>14, <1>15 DEF IngestStep

-----------------------------------------------------------------------------
(* SentMeansStored, with AnswersAreTrue.                                   *)

LEMMA StoredStays == ASSUME TypeOK, [Next]_vars PROVE cloud \subseteq cloud'
<1>1. ASSUME NEW p \in Tasks, MarkStep(p) PROVE cloud' = cloud
  BY <1>1, MarkStepFrame
<1>2. ASSUME NEW p \in Tasks, \/ PersistBatch(p) \/ PersistFails(p) \/ Post(p)
                              \/ CloudAnswers(p) \/ CloudBusy(p)
      PROVE  cloud \subseteq cloud'
  BY <1>2 DEF PersistBatch, PersistFails, Post, CloudAnswers, CloudBusy, world
<1>3. CASE QuietStep \/ DeleteAccount \/ ListForPurge \/ DiscardBatch \/ Stop \/ Start \/ RecoverPush
  BY <1>3 DEF QuietStep, DeleteAccount, ListForPurge, DiscardBatch, Stop, Start, RecoverPush,
              world
<1> QED
  BY StepKinds, <1>1, <1>2, <1>3 DEF LocalStep, IngestStep, PushStep, TakeStep, AssignStep

(* A row newly marked "sent" is marked by a task that holds the answer.    *)
LEMMA NewlySent ==
  ASSUME TypeOK, [Next]_vars, NEW b \in Batches, status'[b] = "sent", status[b] # "sent"
  PROVE  \E p \in Tasks : UploadAccepted(p) /\ task[p].batch = b
<1>1. ASSUME NEW p \in Tasks, MarkStep(p), ~UploadAccepted(p) PROVE FALSE
  <2>0. task[p].batch \in Batches /\ task[p].todo \subseteq Batches
    BY DEF TypeOK, Task, Batches
  <2>1. PICK c \in Batches, s \in {"pending", "failed", "rejected"} :
           MarkRetry(p, c, s) \/ MarkFinal(p, c, s)
    BY <1>1, <2>0 DEF MarkStep, DeferForBackoff, NoSession, TransportFails, UploadRejected,
                      UploadUnauthorized, UploadPutOff
  <2> QED BY <2>1 DEF MarkRetry, MarkFinal, RetryStatus, TypeOK, rows
<1>2. ASSUME NEW p \in Tasks, UploadAccepted(p) PROVE task[p].batch = b
  <2>1. MarkFinal(p, task[p].batch, "sent")
    BY <1>2 DEF UploadAccepted
  <2> QED BY <2>1 DEF MarkFinal, TypeOK, rows
<1>3. ASSUME NEW p \in Tasks, \/ PersistBatch(p) \/ PersistFails(p) \/ Post(p)
                              \/ CloudAnswers(p) \/ CloudBusy(p)
      PROVE  FALSE
  <2>1. CASE PersistBatch(p)
    BY <2>1 DEF PersistBatch, TypeOK
  <2>2. CASE ~PersistBatch(p)
    BY <1>3, <2>2 DEF PersistFails, Post, CloudAnswers, CloudBusy, rows
  <2> QED BY <2>1, <2>2
<1>4. ~DiscardBatch
  BY DEF DiscardBatch, TypeOK
<1>5. ~(QuietStep \/ DeleteAccount \/ ListForPurge \/ Stop \/ Start \/ RecoverPush)
  BY DEF QuietStep, DeleteAccount, ListForPurge, Stop, Start, RecoverPush, rows
<1> QED
  BY StepKinds, <1>1, <1>2, <1>3, <1>4, <1>5
  DEF LocalStep, IngestStep, PushStep, TakeStep, AssignStep

(* Only the cloud's answer brings a task to "answered".                    *)
LEMMA NewlyAnswered ==
  ASSUME TypeOK, [Next]_vars, NEW p \in Tasks, task'[p].pc = "answered",
         task'[p] # task[p]
  PROVE  CloudAnswers(p) \/ CloudBusy(p)
<1>1. ASSUME NEW q \in Tasks, NEW t \in Task, t.pc # "answered",
             task' = [task EXCEPT ![q] = t]
      PROVE  FALSE
  BY <1>1 DEF TypeOK
<1>2. ASSUME NEW q \in Tasks, MarkStep(q) PROVE FALSE
  <2>1. PICK b \in Batches, s \in {"pending", "failed", "sent", "rejected"} :
           MarkRetry(q, b, s) \/ MarkFinal(q, b, s)
    BY <1>2, MarkStepMarks
  <2> QED BY <1>1, <2>1, MarkEffect
<1>3. ASSUME NEW q \in Tasks, PersistBatch(q) PROVE FALSE
  BY <1>1, <1>3, PersistEffect
<1>4. ASSUME NEW q \in Tasks, PersistFails(q) PROVE FALSE
  <2>1. IdleTask.pc # "answered"
    BY DEF IdleTask
  <2> QED BY <1>1, <1>4, <2>1, IdleTaskType DEF PersistFails, Abort
<1>5. ASSUME NEW q \in Tasks, Post(q) PROVE FALSE
  BY <1>5 DEF Post, TypeOK, Task
<1>6. ASSUME NEW q \in Tasks, CloudAnswers(q) \/ CloudBusy(q) PROVE q = p
  BY <1>6 DEF CloudAnswers, CloudBusy, TypeOK
<1>7. ~(ListForPurge \/ DiscardBatch)
  BY <1>1, PurgeEffect DEF Tasks
<1>8. ~DeleteAccount
  BY DEF DeleteAccount, TypeOK, Task
<1>9. ~Stop
  <2>1. IdleTask.pc # "answered"
    BY DEF IdleTask
  <2> QED BY <2>1 DEF Stop
<1>10. ASSUME NEW e \in Events, PushStep(e) PROVE FALSE
  <2>1. PushTakes(e) \in SUBSET Events
    BY <1>10, PushMoves DEF PushStep, TypeOK
  <2>2. Holding("submit", PushTakes(e)) \in Task
    BY <2>1, HoldingType
  <2>3. Holding("submit", PushTakes(e)).pc = "persist"
    BY DEF Holding, IdleTask
  <2> QED BY <1>1, <1>10, <2>2, <2>3 DEF PushStep, Tasks
<1>11. ASSUME NEW q \in Tasks, NEW k, TakeStep(q, k) PROVE FALSE
  <2>1. Holding(k, OfVersion(buffer, front)) \in Task
    BY <1>11, HoldingType DEF TakeStep, OfVersion, TypeOK
  <2>2. Holding(k, OfVersion(buffer, front)).pc = "persist"
    BY DEF Holding, IdleTask
  <2> QED BY <1>1, <1>11, <2>1, <2>2 DEF TakeStep
<1>12. ASSUME NEW q \in Tasks, NEW S, AssignStep(q, S) PROVE FALSE
  <2>1. PICK g \in BOOLEAN : task' = [task EXCEPT ![q] = Sending(g, S)]
    BY <1>12 DEF AssignStep
  <2>2. Sending(g, S) \in Task
    BY <1>12, SendingType DEF AssignStep, pending_batches
  <2>3. Sending(g, S).pc # "answered"
    BY DEF Sending, IdleTask
  <2> QED BY <1>1, <2>1, <2>2, <2>3
<1>13. ~(QuietStep \/ Start \/ \E e \in Events : LocalStep(e))
  BY DEF QuietStep, Start, LocalStep
<1>14. ~RecoverPush
  <2> SUFFICES ASSUME RecoverPush PROVE FALSE
    OBVIOUS
  <2>1. PICK e \in recovering : PushStep(e)
    BY DEF RecoverPush, PushStep, rows, process, world
  <2> QED BY <1>10, <2>1 DEF TypeOK
<1> QED
  BY StepKinds, <1>2, <1>3, <1>4, <1>5, <1>6, <1>7, <1>8, <1>9, <1>10, <1>11, <1>12,
     <1>13, <1>14 DEF IngestStep

LEMMA AnswersStep == TypeOK /\ AnswersAreTrue /\ [Next]_vars => AnswersAreTrue'
<1> SUFFICES ASSUME TypeOK, AnswersAreTrue, [Next]_vars, NEW p \in Tasks,
                    task'[p].pc = "answered", task'[p].answer = "stored"
             PROVE  \E s \in cloud' : s[2] = task'[p].batch
  BY DEF AnswersAreTrue
<1>1. CASE task'[p] = task[p]
  BY <1>1, StoredStays DEF AnswersAreTrue
<1>2. CASE CloudAnswers(p)
  <2>1. task'[p].batch = task[p].batch
    BY <1>2 DEF CloudAnswers, TypeOK, Task
  <2>2. <<task[p].acct, task[p].batch>> \in cloud'
    BY <1>2 DEF CloudAnswers, TypeOK, Task
  <2> QED BY <2>1, <2>2
<1>3. CASE CloudBusy(p)
  BY <1>3 DEF CloudBusy, TypeOK, Task
<1> QED BY <1>1, <1>2, <1>3, NewlyAnswered

LEMMA SentStep ==
  TypeOK /\ AnswersAreTrue /\ SentMeansStored /\ [Next]_vars => SentMeansStored'
<1> SUFFICES ASSUME TypeOK, AnswersAreTrue, SentMeansStored, [Next]_vars,
                    NEW b \in Batches, status'[b] = "sent"
             PROVE  \E s \in cloud' : s[2] = b
  BY DEF SentMeansStored
<1>1. CASE status[b] = "sent"
  BY <1>1, StoredStays DEF SentMeansStored
<1>2. CASE status[b] # "sent"
  <2>1. PICK p \in Tasks : UploadAccepted(p) /\ task[p].batch = b
    BY <1>2, NewlySent
  <2> QED BY <2>1, StoredStays DEF UploadAccepted, AnswersAreTrue
<1> QED BY <1>1, <1>2

-----------------------------------------------------------------------------
(* OneVersionPerBatch, with HeldIsHomogeneous.                             *)

LEMMA HeldStep == TypeOK /\ HeldIsHomogeneous /\ [Next]_vars => HeldIsHomogeneous'
<1> SUFFICES ASSUME TypeOK, HeldIsHomogeneous, [Next]_vars PROVE HeldIsHomogeneous'
  OBVIOUS
<1>1. ASSUME \A q \in Tasks : Held(q)' \subseteq Held(q) PROVE HeldIsHomogeneous'
  BY <1>1 DEF HeldIsHomogeneous
<1>2. ASSUME NEW e \in Events, PushStep(e) PROVE HeldIsHomogeneous'
  <2>1. PushTakes(e) \in SUBSET Events
    BY <1>2, PushMoves DEF PushStep, TypeOK
  <2>2. CASE task' = task
    BY <1>1, <2>2 DEF Held
  <2>3. CASE task' = [task EXCEPT !["router"] = Holding("submit", PushTakes(e))]
    <3>1. /\ \A q \in Tasks \ {"router"} : Held(q)' = Held(q)
          /\ Held("router")' = PushTakes(e)
      BY <2>1, <2>3, HeldHolding DEF Tasks
    <3> QED BY <3>1, PushTakesHomogeneous DEF HeldIsHomogeneous
  <2> QED BY <1>2, <2>2, <2>3 DEF PushStep
<1>3. ASSUME NEW p \in Tasks, NEW k, TakeStep(p, k) PROVE HeldIsHomogeneous'
  <2>1. OfVersion(buffer, front) \in SUBSET Events
    BY DEF OfVersion, TypeOK
  <2>2. /\ \A q \in Tasks \ {p} : Held(q)' = Held(q)
        /\ Held(p)' = OfVersion(buffer, front)
    BY <1>3, <2>1, HeldHolding DEF TakeStep
  <2> QED BY <2>2, OfVersionHomogeneous DEF HeldIsHomogeneous
<1>4. ASSUME NEW p \in Tasks, NEW S, AssignStep(p, S) PROVE HeldIsHomogeneous'
  <2>1. PICK g \in BOOLEAN : task' = [task EXCEPT ![p] = Sending(g, S)]
    BY <1>4 DEF AssignStep
  <2>2. S \in SUBSET Batches
    BY <1>4 DEF AssignStep, pending_batches
  <2> QED BY <1>1, <2>1, <2>2, HeldSending
<1>5. ASSUME NEW p \in Tasks, PersistBatch(p) PROVE HeldIsHomogeneous'
  BY <1>1, <1>5, PersistEffect, HeldUpdate
<1>6. ASSUME NEW p \in Tasks, PersistFails(p) PROVE HeldIsHomogeneous'
  <2>1. IdleTask.pc # "persist"
    BY DEF IdleTask
  <2> QED BY <1>1, <1>6, <2>1, IdleTaskType, HeldUpdate DEF PersistFails, Abort
<1>7. ASSUME NEW p \in Tasks, Post(p) \/ CloudAnswers(p) \/ CloudBusy(p)
      PROVE  HeldIsHomogeneous'
  <2>1. \A q \in Tasks : q # p => task'[q] = task[q]
    BY <1>7 DEF Post, CloudAnswers, CloudBusy, TypeOK
  <2>2. task'[p].pc \in {"flight", "answered"}
    <3>1. CASE Post(p)
      BY <3>1 DEF Post, TypeOK, Task
    <3>2. CASE CloudAnswers(p)
      BY <3>2 DEF CloudAnswers, TypeOK, Task
    <3>3. CASE CloudBusy(p)
      BY <3>3 DEF CloudBusy, TypeOK, Task
    <3> QED BY <1>7, <3>1, <3>2, <3>3
  <2> QED BY <1>1, <2>1, <2>2 DEF Held
<1>8. ASSUME NEW p \in Tasks, MarkStep(p) PROVE HeldIsHomogeneous'
  <2>1. PICK b \in Batches, s \in {"pending", "failed", "sent", "rejected"} :
           MarkRetry(p, b, s) \/ MarkFinal(p, b, s)
    BY <1>8, MarkStepMarks
  <2> QED BY <1>1, <2>1, MarkEffect, HeldUpdate
<1>9. CASE DeleteAccount
  <2>1. \A q \in Tasks : Held(q)' \subseteq Held(q)
    BY <1>9 DEF DeleteAccount, Held, TypeOK, Task, Tasks
  <2> QED BY <1>1, <2>1
<1>10. CASE ListForPurge \/ DiscardBatch
  BY <1>1, <1>10, PurgeEffect, HeldUpdate DEF Tasks
<1>11. CASE Stop
  BY <1>1, <1>11 DEF Stop, Held, IdleTask
<1>12. CASE QuietStep \/ Start \/ \E e \in Events : LocalStep(e)
  BY <1>1, <1>12 DEF QuietStep, Start, LocalStep, Held
<1>13. CASE RecoverPush
  <2>1. PICK e \in recovering : PushStep(e)
    BY <1>13 DEF RecoverPush, PushStep, rows, process, world
  <2> QED BY <1>2, <2>1 DEF TypeOK
<1> QED
  BY StepKinds, <1>2, <1>3, <1>4, <1>5, <1>6, <1>7, <1>8, <1>9, <1>10, <1>11, <1>12,
     <1>13 DEF IngestStep

(* Only persisting makes a row.                                            *)
LEMMA NewRow ==
  ASSUME TypeOK, [Next]_vars, NEW b \in Batches, HasRow(b)', ~HasRow(b)
  PROVE  \E p \in Tasks : PersistBatch(p) /\ b = task[p].batch
<1>1. ASSUME NEW p \in Tasks, PersistBatch(p) PROVE b = task[p].batch
  BY <1>1, PersistEffect
<1>2. ASSUME NEW p \in Tasks, MarkStep(p) PROVE FALSE
  <2>1. PICK c \in Batches, s \in {"pending", "failed", "sent", "rejected"} :
           MarkRetry(p, c, s) \/ MarkFinal(p, c, s)
    BY <1>2, MarkStepMarks
  <2> QED BY <2>1, MarkEffect
<1>3. ASSUME NEW p \in Tasks, \/ PersistFails(p) \/ Post(p) \/ CloudAnswers(p) \/ CloudBusy(p)
      PROVE  FALSE
  BY <1>3 DEF PersistFails, Post, CloudAnswers, CloudBusy, rows, HasRow
<1>4. ~(ListForPurge \/ DiscardBatch)
  BY PurgeEffect
<1>5. ~(QuietStep \/ DeleteAccount \/ Stop \/ Start \/ RecoverPush)
  BY DEF QuietStep, DeleteAccount, Stop, Start, RecoverPush, rows, HasRow
<1> QED
  BY StepKinds, <1>1, <1>2, <1>3, <1>4, <1>5
  DEF LocalStep, IngestStep, PushStep, TakeStep, AssignStep, HasRow

LEMMA VersionStep ==
  TypeOK /\ HeldIsHomogeneous /\ OneVersionPerBatch /\ [Next]_vars => OneVersionPerBatch'
<1> SUFFICES ASSUME TypeOK, HeldIsHomogeneous, OneVersionPerBatch, [Next]_vars,
                    NEW b \in Batches, HasRow(b)', NEW e \in b, NEW f \in b
             PROVE  VersionOf[e] = VersionOf[f]
  BY DEF OneVersionPerBatch
<1>1. CASE HasRow(b)
  BY <1>1 DEF OneVersionPerBatch
<1>2. CASE ~HasRow(b)
  <2>1. PICK p \in Tasks : PersistBatch(p) /\ b = task[p].batch
    BY <1>2, NewRow
  <2>2. b = Held(p)
    BY <2>1 DEF PersistBatch, Held
  <2> QED BY <2>2 DEF HeldIsHomogeneous
<1> QED BY <1>1, <1>2

-----------------------------------------------------------------------------
(* BufferAges: whatever fills the buffer starts its age, and only an empty *)
(* buffer loses it.                                                        *)

LEMMA AssemblerKeepsAge ==
  ASSUME BufferAges, NEW e, NEW b,
         TakeBatch \/ push(e) \/ requeue(b) \/ UNCHANGED <<buffer, opened>>
  PROVE  BufferAges'
<1>1. CASE TakeBatch
  BY <1>1 DEF TakeBatch, OpenedAfterTake, BufferAges
<1>2. CASE push(e)
  BY <1>2 DEF push, OpenedAfterTake, BufferAges
<1>3. CASE requeue(b) \/ UNCHANGED <<buffer, opened>>
  BY <1>3 DEF requeue, BufferAges
<1> QED BY <1>1, <1>2, <1>3

LEMMA AgesStep == BufferAges /\ [Next]_vars => BufferAges'
<1> SUFFICES ASSUME BufferAges, [Next]_vars PROVE BufferAges'
  OBVIOUS
<1>1. CASE Stop
  BY <1>1 DEF Stop, BufferAges
<1>2. CASE ~Stop
  <2>1. \/ TakeBatch \/ (\E e : push(e)) \/ (\E b : requeue(b))
        \/ UNCHANGED <<buffer, opened>>
    BY <1>2
    DEF Next, TaskStep, vars, assembler, rows, running, process, world,
        RawEvent, FlushDue, FlushNow, Shutdown, ResumePending, ListPending, Post,
        CloudAnswers, PersistBatch, PersistFails, CloudBusy, DeferForBackoff, NoSession,
        TransportFails, UploadAccepted, UploadRejected, UploadUnauthorized, UploadPutOff,
        RowComesDue, HostBackoffEnds, SignIn, SessionEnds, DeleteAccount,
        DeleteAnswerLost, ListForPurge, DiscardBatch, Start, RecoverPush, RecoverDone
  <2> QED BY <2>1, AssemblerKeepsAge
<1> QED BY <1>1, <1>2

-----------------------------------------------------------------------------
(* The queue's safety.                                                     *)

QueueInvariant ==
    /\ TypeOK /\ EligibleOnly /\ DownIsEmpty /\ SingleHome
    /\ RowsOutliveSenders /\ AnswersAreTrue /\ SentMeansStored
    /\ HeldIsHomogeneous /\ OneVersionPerBatch

LEMMA QueueInit == Init => QueueInvariant
<1> SUFFICES ASSUME Init PROVE QueueInvariant
  OBVIOUS
<1>1. IdleTask.pc = "idle" /\ IdleTask.batch = {} /\ IdleTask.todo = {}
  BY DEF IdleTask
<1>2. \A p \in Tasks : task[p] = IdleTask /\ Held(p) = {}
  BY <1>1 DEF Init, Held
<1>3. \A b \in Batches : ~HasRow(b) /\ status[b] = "none"
  BY DEF Init, HasRow
<1>4. TypeOK
  BY TypeInit
<1>5. EligibleOnly /\ DownIsEmpty /\ SingleHome
  BY <1>1, <1>2, <1>3 DEF Init, EligibleOnly, DownIsEmpty, SingleHome
<1>6. RowsOutliveSenders /\ AnswersAreTrue /\ SentMeansStored
  BY <1>1, <1>2, <1>3 DEF Init, RowsOutliveSenders, AnswersAreTrue, SentMeansStored, Tasks
<1>7. HeldIsHomogeneous /\ OneVersionPerBatch
  BY <1>2, <1>3 DEF HeldIsHomogeneous, OneVersionPerBatch
<1> QED BY <1>4, <1>5, <1>6, <1>7 DEF QueueInvariant

(* The strengthening holds in every run: it is inductive.                  *)
LEMMA QueueInductive == Spec => []QueueInvariant
<1>1. QueueInvariant /\ [Next]_vars => QueueInvariant'
  BY TypeStep, EligibleStep, DownStep, HomeStep, RowsStep, AnswersStep, SentStep, HeldStep,
     VersionStep
  DEF QueueInvariant
<1> QED BY <1>1, QueueInit, PTL DEF Spec

(* An event waits in one place only, in every run: persist_batch never     *)
(* trips over batch_event's UNIQUE index.                                  *)
THEOREM EventsHaveOneHome == Spec => []SingleHome
<1>1. QueueInvariant => SingleHome
  BY DEF QueueInvariant
<1> QED BY <1>1, QueueInductive, PTL

(* Activity seen while signed out never reaches the cloud.                 *)
THEOREM SignedOutActivityStaysLocal == Spec => []SignedOutStaysLocal
<1>1. QueueInvariant => SignedOutStaysLocal
  BY DEF QueueInvariant, EligibleOnly, Eligible, SignedOutStaysLocal
<1> QED BY <1>1, QueueInductive, PTL

(* A row says "sent" only when the cloud stored the batch.                 *)
THEOREM SentIsStored == Spec => []SentMeansStored
<1>1. QueueInvariant => SentMeansStored
  BY DEF QueueInvariant
<1> QED BY <1>1, QueueInductive, PTL

(* Until an account is deleted, the cloud never counts an event twice      *)
(* under one account: stored batches have rows, and rows are disjoint.     *)
THEOREM NeverCountedTwice == Spec => []NoDoubleCount
<1>1. QueueInvariant => NoDoubleCount
  <2> SUFFICES ASSUME QueueInvariant, deleted = {}, NEW s \in cloud, NEW t \in cloud,
                      s[2] # t[2]
               PROVE  s[2] \cap t[2] = {}
    BY DEF NoDoubleCount
  <2>1. s[2] \in Batches /\ t[2] \in Batches
    BY DEF QueueInvariant, TypeOK
  <2>2. HasRow(s[2]) /\ HasRow(t[2])
    BY DEF QueueInvariant, RowsOutliveSenders
  <2> QED BY <2>1, <2>2 DEF QueueInvariant, SingleHome
<1> QED BY <1>1, QueueInductive, PTL

(* A batch row never mixes taxonomy versions.                              *)
THEOREM BatchesAreHomogeneous == Spec => []OneVersionPerBatch
<1>1. QueueInvariant => OneVersionPerBatch
  BY DEF QueueInvariant
<1> QED BY <1>1, QueueInductive, PTL

(* A buffered event always has an age: no order of takes, boundaries and   *)
(* requeues leaves flush_due with something it would never release.        *)
THEOREM BufferAlwaysAges == Spec => []BufferAges
<1>1. Init => BufferAges
  BY DEF Init, BufferAges
<1> QED BY <1>1, AgesStep, PTL DEF Spec

(* What the queue owes to the events it holds, together.                   *)
THEOREM QueueStaysHonest == Spec => []QueueIsHonest
  BY EventsHaveOneHome, BufferAlwaysAges, CeilingAlwaysHolds, SentIsStored,
     SignedOutActivityStaysLocal, PTL
  DEF QueueIsHonest

=============================================================================
