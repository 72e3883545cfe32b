------------------------------ MODULE UploadQueue ------------------------------
(***************************************************************************)
(* The upload pipeline of velvt-service: from an acknowledged raw event to *)
(* a batch row that is sent, rejected or abandoned.                        *)
(*                                                                         *)
(*   upload/assembly.rs     BatchAssembler: buffer, front, opened          *)
(*   upload/runtime.rs      SharedUploadBatcher: who may take a batch      *)
(*   upload/coordinator.rs  UploadCoordinator: one POST and its outcome    *)
(*   persistence/sqlite.rs  upload_batch, batch_event, raw_event_buffer    *)
(*   ipc/router.rs          RawEvent, FlushUploadQueue, DeleteAccount      *)
(*   main.rs                start-up order, flush task, shutdown           *)
(*                                                                         *)
(* Four tasks send batches and share nothing but SQLite and the assembler: *)
(* the router (ingest, "send all now", and start-up recovery, which runs   *)
(* before the router is wired up), the periodic flusher, the retry loop    *)
(* and, during shutdown, main itself.                                      *)
(*                                                                         *)
(* Abstractions.  A batch id is a hash of the batch's events, so a batch   *)
(* is the set of its events.  The order of the buffer matters only through *)
(* the taxonomy version of its first event, which is kept in `front'; with *)
(* at most two versions in the buffer that is exact.  Clock readings are   *)
(* replaced by "the deadline has not passed yet": `waiting' for a row's    *)
(* next_attempt_at, `hostBackoff' for the host's.                          *)
(***************************************************************************)
EXTENDS Integers, FiniteSets

CONSTANTS
    Events,         \* event ids
    Versions,       \* taxonomy versions a build can carry
    Accounts,       \* accounts that can sign in on this Mac
    VersionOf,      \* the taxonomy version each event is classified under
    OwnerOf,        \* the account signed in when the event arrives
    Tainted,        \* events whose fields the cloud refuses as raw data
    BatchLimit,     \* upload_batch_event_limit: the count threshold
    RecoverLimit,   \* retention_batch_size: rows recovered per start
    AttemptCeiling, \* UPLOAD_BATCH_ATTEMPT_CEILING
    MaxRestarts,    \* bound: how often the process comes back
    MaxFaults,      \* bound: disk errors, lost or busy answers, lost sessions
    NoVersion,
    NoAccount

ASSUME QueueAssumption ==
    /\ VersionOf \in [Events -> Versions]
    /\ OwnerOf \in [Events -> Accounts]
    /\ Tainted \subseteq Events
    /\ BatchLimit \in Nat \ {0}
    /\ RecoverLimit \in Nat \ {0}
    /\ AttemptCeiling \in Nat \ {0}
    /\ MaxRestarts \in Nat
    /\ MaxFaults \in Nat
    /\ NoVersion \notin Versions
    /\ NoAccount \notin Accounts

VARIABLES
    raw,          \* raw_event_buffer: "absent", "local" or "eligible" per event
    buffer,       \* BatchAssembler.events, as a set
    front,        \* taxonomy version of the buffer's first event
    opened,       \* BatchAssembler.opened_at.is_some()
    status,       \* upload_batch.status per batch, "none" when there is no row
    attempts,     \* upload_batch.attempt_count
    waiting,      \* batches whose next_attempt_at is still ahead
    hostBackoff,  \* upload_host_backoff.next_attempt_at is still ahead
    task,         \* what each sending task is doing
    recovering,   \* rows recover_unbatched has read and not pushed yet
    phase,        \* "down", "recovering", "serving" or "stopping"
    build,        \* taxonomy version of the running build
    restarts,     \* how often the process was started again
    faults,       \* how many faults have happened
    session,      \* the account whose tokens the token store holds
    deleted,      \* accounts the cloud has deleted
    cloud         \* what the cloud stored: <<account, batch>>

vars == <<raw, buffer, front, opened, status, attempts, waiting, hostBackoff,
          task, recovering, phase, build, restarts, faults, session, deleted,
          cloud>>

assembler == <<buffer, front, opened>>
rows      == <<status, attempts, waiting>>
running   == <<phase, build, restarts>>
process   == <<phase, build, restarts, faults>>
world     == <<session, deleted, cloud>>

Tasks    == {"router", "flusher", "retry", "main"}
Batches  == SUBSET Events
Statuses == {"none", "pending", "failed", "sent", "rejected", "abandoned"}
Answers  == {"none", "stored", "raw_field", "auth", "busy"}

Task == [pc     : {"idle", "persist", "list", "each", "flight", "answered",
                   "purge", "discard"},
         kind   : {"submit", "drain"},
         gated  : BOOLEAN,
         batch  : SUBSET Events,
         todo   : SUBSET Batches,
         acct   : Accounts \cup {NoAccount},
         answer : Answers]

IdleTask == [pc |-> "idle", kind |-> "submit", gated |-> TRUE, batch |-> {},
             todo |-> {}, acct |-> NoAccount, answer |-> "none"]

TypeOK ==
    /\ raw \in [Events -> {"absent", "local", "eligible"}]
    /\ buffer \in SUBSET Events
    /\ front \in Versions \cup {NoVersion}
    /\ opened \in BOOLEAN
    /\ status \in [Batches -> Statuses]
    /\ attempts \in [Batches -> Nat]
    /\ waiting \in SUBSET Batches
    /\ hostBackoff \in BOOLEAN
    /\ task \in [Tasks -> Task]
    /\ recovering \in SUBSET Events
    /\ phase \in {"down", "recovering", "serving", "stopping"}
    /\ build \in Versions
    /\ restarts \in Nat
    /\ faults \in Nat
    /\ session \in Accounts \cup {NoAccount}
    /\ deleted \in SUBSET Accounts
    /\ cloud \in SUBSET ((Accounts \cup {NoAccount}) \X Batches)

Init ==
    /\ raw = [e \in Events |-> "absent"]
    /\ buffer = {} /\ front = NoVersion /\ opened = FALSE
    /\ status = [b \in Batches |-> "none"]
    /\ attempts = [b \in Batches |-> 0]
    /\ waiting = {} /\ hostBackoff = FALSE
    /\ task = [p \in Tasks |-> IdleTask]
    /\ recovering = {}
    /\ phase = "serving" /\ build \in Versions /\ restarts = 0 /\ faults = 0
    /\ session = NoAccount /\ deleted = {} /\ cloud = {}

-----------------------------------------------------------------------------
(* Reading the database.                                                   *)

HasRow(b)  == status[b] # "none"
Batched(e) == \E b \in Batches : e \in b /\ HasRow(b)
Resumable(b) == status[b] \in {"pending", "failed"}

(* Mutant of unbatched_events: without its NOT EXISTS.                     *)
UnbatchedIgnoresBatches == {e \in Events : raw[e] = "eligible"}

unbatched_events == {e \in Events : raw[e] = "eligible" /\ ~Batched(e)}

(* pending_batches is resumable_batches at an unbounded horizon.           *)
pending_batches   == {b \in Batches : Resumable(b)}
(* Mutant of resumable_batches: rows marked failed are not resumed.        *)
ResumableSkipsFailed == {b \in Batches : status[b] = "pending" /\ b \notin waiting}

resumable_batches == {b \in Batches : Resumable(b) /\ b \notin waiting}

-----------------------------------------------------------------------------
(* BatchAssembler.                                                         *)

OfVersion(S, v) == {e \in S : VersionOf[e] = v}

(* The versions the first event of what is left can have.                  *)
Fronts(S) == IF S = {} THEN {NoVersion} ELSE {VersionOf[e] : e \in S}

(* take_batch clears opened_at only when it drained the buffer.            *)
OpenedAfterTake(rest, was) == IF rest = {} THEN FALSE ELSE was

(* take_batch: the batch of the first event's version leaves the buffer.   *)
TakeBatch ==
    LET rest == buffer \ OfVersion(buffer, front)
    IN  /\ buffer' = rest
        /\ front' \in Fronts(rest)
        /\ opened' = OpenedAfterTake(rest, opened)

(* What push gives up: the open batch at a taxonomy boundary, or the whole *)
(* version once the count threshold is reached.                            *)
PushTakes(e) ==
    IF buffer # {} /\ front # VersionOf[e]
    THEN OfVersion(buffer, front)
    ELSE IF Cardinality(buffer \cup {e}) >= BatchLimit
         THEN OfVersion(buffer \cup {e}, VersionOf[e])
         ELSE {}

push(e) ==
    LET rest == (buffer \cup {e}) \ PushTakes(e)
    IN  /\ buffer' = rest
        /\ front' \in (IF PushTakes(e) = {} THEN {VersionOf[e]} ELSE Fronts(rest))
        /\ opened' = (IF e \in PushTakes(e) THEN OpenedAfterTake(rest, TRUE) ELSE TRUE)

(* requeue: the batch goes back in front of what arrived meanwhile.        *)
requeue(b) ==
    /\ buffer' = buffer \cup b
    /\ front' \in Fronts(b)
    /\ opened' = TRUE

-----------------------------------------------------------------------------
(* Task bookkeeping.                                                       *)

(* What goes wrong outside the service's control, at most MaxFaults times. *)
Fault == faults < MaxFaults /\ faults' = faults + 1

Idle(p) == task[p].pc = "idle"

(* A task that owns a batch the assembler has given up.                    *)
Holding(kind, b) == [IdleTask EXCEPT !.pc = "persist", !.kind = kind, !.batch = b]

(* Batches still to be uploaded, one after the other: a snapshot of the    *)
(* queue, or the one batch just persisted.  gated: upload_batch respects   *)
(* the host backoff, "send all now" does not.                              *)
Sending(gated, S) ==
    IF S = {} THEN IdleTask
    ELSE [IdleTask EXCEPT !.pc = "each", !.gated = gated, !.todo = S]

(* Batch b is dealt with: on to the rest.                                  *)
Done(p, b) == task' = [task EXCEPT ![p] = Sending(task[p].gated, task[p].todo \ {b})]

(* `?': an error abandons the rest of the snapshot, or of the recovery.    *)
Abort(p) ==
    /\ task' = [task EXCEPT ![p] = IdleTask]
    /\ recovering' = IF p = "router" THEN {} ELSE recovering

-----------------------------------------------------------------------------
(* Status updates of one row.  None of them looks at the old status; each  *)
(* fails with NotFound when the row is gone.  A final row's next_attempt_at *)
(* is never read again, so MarkFinal drops it from waiting.                *)

(* update_batch_retry_state: count the attempt, give up at the ceiling.    *)
RetryStatus(b, s) == IF attempts[b] + 1 >= AttemptCeiling THEN "abandoned" ELSE s

MarkRetry(p, b, s) ==
    IF HasRow(b)
    THEN /\ status' = [status EXCEPT ![b] = RetryStatus(b, s)]
         /\ attempts' = [attempts EXCEPT ![b] = @ + 1]
         /\ waiting' = waiting \cup {b}
         /\ Done(p, b) /\ UNCHANGED recovering
    ELSE Abort(p) /\ UNCHANGED rows

MarkFinal(p, b, s) ==
    IF HasRow(b)
    THEN /\ status' = [status EXCEPT ![b] = s]
         /\ waiting' = waiting \ {b}
         /\ UNCHANGED attempts
         /\ Done(p, b) /\ UNCHANGED recovering
    ELSE Abort(p) /\ UNCHANGED rows

-----------------------------------------------------------------------------
(* Taking a batch out of the assembler.                                    *)

(* RawEvent: the row is written, then an eligible event is ingested.  The  *)
(* event is eligible exactly while a session is held.                      *)
RawEvent(e) ==
    /\ phase = "serving" /\ Idle("router")
    /\ raw[e] = "absent" /\ VersionOf[e] = build
    /\ \/ /\ session = NoAccount
          /\ raw' = [raw EXCEPT ![e] = "local"]
          /\ UNCHANGED <<assembler, task>>
       \/ /\ session = OwnerOf[e]
          /\ raw' = [raw EXCEPT ![e] = "eligible"]
          /\ push(e)
          /\ task' = IF PushTakes(e) = {} THEN task
                     ELSE [task EXCEPT !["router"] = Holding("submit", PushTakes(e))]
    /\ UNCHANGED <<rows, hostBackoff, recovering, process, world>>

(* The flush task's timer found the open batch past its age.               *)
FlushDue ==
    /\ phase = "serving" /\ Idle("flusher") /\ opened /\ buffer # {}
    /\ TakeBatch
    /\ task' = [task EXCEPT !["flusher"] = Holding("submit", OfVersion(buffer, front))]
    /\ UNCHANGED <<raw, rows, hostBackoff, recovering, process, world>>

(* FlushUploadQueue ("send all now"): the open batch first, if there is    *)
(* one, then everything that is queued.                                    *)
FlushNow ==
    /\ phase = "serving" /\ Idle("router")
    /\ \/ /\ buffer # {}
          /\ TakeBatch
          /\ task' = [task EXCEPT !["router"] = Holding("drain", OfVersion(buffer, front))]
       \/ /\ buffer = {}
          /\ task' = [task EXCEPT !["router"] = Sending(FALSE, pending_batches)]
          /\ UNCHANGED assembler
    /\ UNCHANGED <<raw, rows, hostBackoff, recovering, process, world>>

(* SIGTERM: the shutdown token is cancelled and main flushes the buffer.   *)
Shutdown ==
    /\ phase = "serving"
    /\ phase' = "stopping"
    /\ IF buffer = {}
       THEN UNCHANGED <<assembler, task>>
       ELSE /\ TakeBatch
            /\ task' = [task EXCEPT !["main"] = Holding("submit", OfVersion(buffer, front))]
    /\ UNCHANGED <<raw, rows, hostBackoff, recovering, build, restarts, faults, world>>

(* persist_batch: the batch row and its batch_event rows in one            *)
(* transaction; batch_event.event_id is UNIQUE.                            *)
PersistBatch(p) ==
    LET b == task[p].batch
    IN  /\ task[p].pc = "persist"
        /\ \A e \in b : ~Batched(e)
        /\ status' = [status EXCEPT ![b] = "pending"]
        /\ attempts' = [attempts EXCEPT ![b] = 0]
        /\ waiting' = waiting \ {b}
        /\ task' = [task EXCEPT ![p] = IF task[p].kind = "submit" THEN Sending(TRUE, {b})
                                       ELSE [IdleTask EXCEPT !.pc = "list"]]
        /\ UNCHANGED <<raw, assembler, hostBackoff, recovering, process, world>>

(* The transaction failed: the events go back to the assembler.            *)
PersistFails(p) ==
    /\ Fault
    /\ task[p].pc = "persist"
    /\ requeue(task[p].batch)
    /\ Abort(p)
    /\ UNCHANGED <<raw, rows, hostBackoff, running, world>>

-----------------------------------------------------------------------------
(* Draining the queue and one upload.                                      *)

(* One pass of the retry loop: resume_pending's snapshot.                  *)
ResumePending ==
    /\ phase \in {"recovering", "serving"} /\ Idle("retry")
    /\ resumable_batches # {}
    /\ task' = [task EXCEPT !["retry"] = Sending(TRUE, resumable_batches)]
    /\ UNCHANGED <<raw, assembler, rows, hostBackoff, recovering, process, world>>

(* flush_all_pending's snapshot, after its own batch was persisted.        *)
ListPending(p) ==
    /\ task[p].pc = "list"
    /\ task' = [task EXCEPT ![p] = Sending(FALSE, pending_batches)]
    /\ UNCHANGED <<raw, assembler, rows, hostBackoff, recovering, process, world>>

(* The host backoff defers the batch without a POST.                       *)
DeferForBackoff(p) ==
    /\ task[p].pc = "each" /\ task[p].gated /\ hostBackoff
    /\ \E b \in task[p].todo : MarkRetry(p, b, "failed")
    /\ UNCHANGED <<raw, assembler, hostBackoff, process, world>>

(* The token store holds nothing to authenticate with.                     *)
NoSession(p) ==
    /\ task[p].pc = "each" /\ ~(task[p].gated /\ hostBackoff)
    /\ session = NoAccount
    /\ \E b \in task[p].todo : MarkRetry(p, b, "failed")
    /\ UNCHANGED <<raw, assembler, hostBackoff, process, world>>

Post(p) ==
    /\ task[p].pc = "each" /\ ~(task[p].gated /\ hostBackoff)
    /\ session # NoAccount
    /\ \E b \in task[p].todo :
          task' = [task EXCEPT ![p].pc = "flight", ![p].batch = b,
                               ![p].todo = @ \ {b}, ![p].acct = session]
    /\ UNCHANGED <<raw, assembler, rows, hostBackoff, recovering, process, world>>

(* External: the cloud handles the request.  It stores a batch under the   *)
(* account of the bearer token, or knows it already; it refuses one with a *)
(* raw field and a token of a deleted account.                             *)
CloudAnswers(p) ==
    LET b == task[p].batch
        a == task[p].acct
        Answer(x) == task' = [task EXCEPT ![p].pc = "answered", ![p].answer = x]
    IN  /\ task[p].pc = "flight"
        /\ \/ a \in deleted /\ Answer("auth") /\ UNCHANGED cloud
           \/ /\ a \notin deleted /\ b \cap Tainted # {}
              /\ Answer("raw_field") /\ UNCHANGED cloud
           \/ /\ a \notin deleted /\ b \cap Tainted = {}
              /\ Answer("stored") /\ cloud' = cloud \cup {<<a, b>>}
        /\ UNCHANGED <<raw, assembler, rows, hostBackoff, recovering, process,
                       session, deleted>>

(* External: rate limiting, or any status the uploader calls retryable.    *)
CloudBusy(p) ==
    /\ Fault
    /\ task[p].pc = "flight"
    /\ task' = [task EXCEPT ![p].pc = "answered", ![p].answer = "busy"]
    /\ UNCHANGED <<raw, assembler, rows, hostBackoff, recovering, running, world>>

(* Mutant of TransportFails: the events go back to the assembler and the   *)
(* row is dropped, as if the cloud could not have stored the batch.        *)
TransportFailsRequeues(p) ==
    /\ Fault
    /\ task[p].pc \in {"flight", "answered"}
    /\ hostBackoff' = TRUE
    /\ status' = [status EXCEPT ![task[p].batch] = "none"]
    /\ requeue(task[p].batch)
    /\ Abort(p)
    /\ UNCHANGED <<raw, attempts, waiting, running, world>>

(* No usable answer: the request or its answer was lost.                   *)
TransportFails(p) ==
    /\ Fault
    /\ task[p].pc \in {"flight", "answered"}
    /\ hostBackoff' = TRUE
    /\ MarkRetry(p, task[p].batch, "pending")
    /\ UNCHANGED <<raw, assembler, running, world>>

(* Accepted or Duplicate.                                                  *)
UploadAccepted(p) ==
    /\ task[p].pc = "answered" /\ task[p].answer = "stored"
    /\ MarkFinal(p, task[p].batch, "sent")
    /\ hostBackoff' = IF HasRow(task[p].batch) THEN FALSE ELSE hostBackoff
    /\ UNCHANGED <<raw, assembler, process, world>>

(* RawFieldRejected.                                                       *)
UploadRejected(p) ==
    /\ task[p].pc = "answered" /\ task[p].answer = "raw_field"
    /\ MarkFinal(p, task[p].batch, "rejected")
    /\ UNCHANGED <<raw, assembler, hostBackoff, process, world>>

(* AuthenticationRequired; the host is not backed off.                     *)
UploadUnauthorized(p) ==
    /\ task[p].pc = "answered" /\ task[p].answer = "auth"
    /\ MarkRetry(p, task[p].batch, "failed")
    /\ UNCHANGED <<raw, assembler, hostBackoff, process, world>>

(* RateLimited or Retryable.                                               *)
UploadPutOff(p) ==
    /\ task[p].pc = "answered" /\ task[p].answer = "busy"
    /\ hostBackoff' = TRUE
    /\ MarkRetry(p, task[p].batch, "failed")
    /\ UNCHANGED <<raw, assembler, process, world>>

(* Deadlines pass.                                                         *)
RowComesDue(b) ==
    /\ b \in waiting
    /\ waiting' = waiting \ {b}
    /\ UNCHANGED <<raw, assembler, status, attempts, hostBackoff, task, recovering,
                   process, world>>

HostBackoffEnds ==
    /\ hostBackoff /\ hostBackoff' = FALSE
    /\ UNCHANGED <<raw, assembler, rows, task, recovering, process, world>>

-----------------------------------------------------------------------------
(* Sessions and account deletion.                                          *)

(* Sign-up, log-in, or the session Swift restores from the keychain.       *)
SignIn(a) ==
    /\ phase = "serving" /\ Idle("router")
    /\ session = NoAccount /\ a \notin deleted
    /\ session' = a
    /\ UNCHANGED <<raw, assembler, rows, hostBackoff, task, recovering, process,
                   deleted, cloud>>

(* Log-out, or a refresh that ended the session.                           *)
SessionEnds ==
    /\ Fault
    /\ session # NoAccount
    /\ session' = NoAccount
    /\ UNCHANGED <<raw, assembler, rows, hostBackoff, task, recovering, running,
                   deleted, cloud>>

(* DeleteAccount: the cloud accepts, the service clears the session and    *)
(* goes on to the purge.                                                   *)
DeleteAccount ==
    /\ phase = "serving" /\ Idle("router") /\ session # NoAccount
    /\ deleted' = deleted \cup {session}
    /\ session' = NoAccount
    /\ task' = [task EXCEPT !["router"].pc = "purge"]
    /\ UNCHANGED <<raw, assembler, rows, hostBackoff, recovering, process, cloud>>

(* The cloud accepts and its answer is lost: nothing is cleared locally.   *)
DeleteAnswerLost ==
    /\ Fault
    /\ phase = "serving" /\ Idle("router") /\ session \in Accounts \ deleted
    /\ deleted' = deleted \cup {session}
    /\ UNCHANGED <<raw, assembler, rows, hostBackoff, task, recovering, running,
                   session, cloud>>

(* destroy_resumable_upload_queue: read the queue, then delete row by row. *)
ListForPurge ==
    /\ task["router"].pc = "purge"
    /\ task' = [task EXCEPT !["router"] =
                   IF pending_batches = {} THEN IdleTask
                   ELSE [IdleTask EXCEPT !.pc = "discard", !.todo = pending_batches]]
    /\ UNCHANGED <<raw, assembler, rows, hostBackoff, recovering, process, world>>

DiscardBatch ==
    /\ task["router"].pc = "discard"
    /\ \E b \in task["router"].todo :
          LET left == task["router"].todo \ {b}
          IN  /\ status' = [status EXCEPT ![b] = "none"]
              /\ attempts' = [attempts EXCEPT ![b] = 0]
              /\ waiting' = waiting \ {b}
              /\ task' = [task EXCEPT !["router"] =
                             IF left = {} THEN IdleTask
                             ELSE [IdleTask EXCEPT !.pc = "discard", !.todo = left]]
    /\ UNCHANGED <<raw, assembler, hostBackoff, recovering, process, world>>

-----------------------------------------------------------------------------
(* Crash, exit and start.                                                  *)

(* The process is killed, or shutdown finishes or passes its deadline.     *)
Stop ==
    /\ phase # "down"
    /\ phase' = "down"
    /\ buffer' = {} /\ front' = NoVersion /\ opened' = FALSE
    /\ task' = [p \in Tasks |-> IdleTask]
    /\ recovering' = {} /\ session' = NoAccount
    /\ UNCHANGED <<raw, rows, hostBackoff, build, restarts, faults, deleted, cloud>>

(* The retry loop starts, then recover_unbatched reads its rows; the flush *)
(* task and the router come after it.                                      *)
Start ==
    /\ phase = "down" /\ restarts < MaxRestarts
    /\ phase' = "recovering" /\ restarts' = restarts + 1
    /\ build' \in Versions
    /\ \E S \in SUBSET unbatched_events :
          /\ Cardinality(S) <= RecoverLimit
          /\ S # unbatched_events => Cardinality(S) = RecoverLimit
          /\ recovering' = S
    /\ UNCHANGED <<raw, assembler, rows, hostBackoff, task, faults, world>>

RecoverPush ==
    /\ phase = "recovering" /\ Idle("router")
    /\ \E e \in recovering :
          /\ recovering' = recovering \ {e}
          /\ push(e)
          /\ task' = IF PushTakes(e) = {} THEN task
                     ELSE [task EXCEPT !["router"] = Holding("submit", PushTakes(e))]
    /\ UNCHANGED <<raw, rows, hostBackoff, process, world>>

RecoverDone ==
    /\ phase = "recovering" /\ Idle("router") /\ recovering = {}
    /\ phase' = "serving"
    /\ UNCHANGED <<raw, assembler, rows, hostBackoff, task, recovering, build,
                   restarts, faults, world>>

-----------------------------------------------------------------------------
(* What one sending task does by itself or with the cloud's answer.        *)
TaskStep(p) ==
    \/ PersistBatch(p) \/ ListPending(p)
    \/ DeferForBackoff(p) \/ NoSession(p) \/ Post(p) \/ CloudAnswers(p)
    \/ UploadAccepted(p) \/ UploadRejected(p) \/ UploadUnauthorized(p)
    \/ UploadPutOff(p)

Next ==
    \/ \E e \in Events : RawEvent(e)
    \/ FlushDue \/ FlushNow \/ Shutdown \/ ResumePending
    \/ \E p \in Tasks :
          TaskStep(p) \/ PersistFails(p) \/ CloudBusy(p) \/ TransportFails(p)
    \/ \E b \in Batches : RowComesDue(b)
    \/ HostBackoffEnds
    \/ \E a \in Accounts : SignIn(a)
    \/ SessionEnds \/ DeleteAccount \/ DeleteAnswerLost \/ ListForPurge \/ DiscardBatch
    \/ Stop \/ Start \/ RecoverPush \/ RecoverDone

Spec == Init /\ [][Next]_vars

-----------------------------------------------------------------------------
(* Safety.                                                                 *)

(* Events a task has taken out of the assembler and not persisted yet.     *)
Held(p) == IF task[p].pc = "persist" THEN task[p].batch ELSE {}

(* An event waits in one place only: the buffer, one taken batch, the      *)
(* recovery list or one row.  Otherwise persisting it trips the UNIQUE     *)
(* index on batch_event.event_id, and the whole batch is requeued forever. *)
SingleHome ==
    /\ \A e \in buffer : ~Batched(e) /\ e \notin recovering
    /\ \A e \in recovering : ~Batched(e)
    /\ \A p \in Tasks : \A e \in Held(p) :
          ~Batched(e) /\ e \notin buffer /\ e \notin recovering
    /\ \A p, q \in Tasks : p # q => Held(p) \cap Held(q) = {}
    /\ \A b, c \in Batches : HasRow(b) /\ HasRow(c) /\ b # c => b \cap c = {}

(* A buffered event always has an age, so flush_due can release it.        *)
BufferAges == buffer # {} => opened

(* category_taxonomy_version is one field for the whole batch, so a batch  *)
(* never mixes versions, however requeue filled the buffer.                *)
OneVersionPerBatch ==
    \A b \in Batches : HasRow(b) => \A e, f \in b : VersionOf[e] = VersionOf[f]

(* No batch past the attempt ceiling is still resumable.                   *)
CeilingHolds ==
    \A b \in Batches : Resumable(b) => attempts[b] < AttemptCeiling

(* A row says "sent" only when the cloud stored the batch, whichever of    *)
(* the overlapping senders wrote it.                                       *)
SentMeansStored ==
    \A b \in Batches : status[b] = "sent" => \E s \in cloud : s[2] = b

(* Activity seen while signed out never reaches the cloud.                 *)
SignedOutStaysLocal ==
    \A s \in cloud : \A e \in s[2] : raw[e] = "eligible"

(* While no account was deleted, the cloud holds an event once per         *)
(* account: retries, overlapping senders, crashes and recovery repeat a    *)
(* batch under its own id and never put its events into another batch.     *)
NoDoubleCount ==
    deleted = {} =>
        \A s, t \in cloud : s[1] = t[1] /\ s[2] # t[2] => s[2] \cap t[2] = {}

(* What the queue owes to the events it holds, in every state a crash, a   *)
(* restart or another sender can meet: each waits in one place, whatever   *)
(* waits can be released, no attempt is made past the ceiling, "sent" is   *)
(* never claimed for the cloud, and nothing seen signed out is uploaded.   *)
QueueIsHonest ==
    SingleHome /\ BufferAges /\ CeilingHolds /\ SentMeansStored /\ SignedOutStaysLocal

(* What makes the properties above inductive.                              *)

Eligible == {e \in Events : raw[e] = "eligible"}

(* Nothing that is queued, taken, sent or stored was seen signed out.      *)
EligibleOnly ==
    /\ buffer \cup recovering \subseteq Eligible
    /\ \A p \in Tasks : /\ task[p].batch \subseteq Eligible
                        /\ \A b \in task[p].todo : b \subseteq Eligible
    /\ \A b \in Batches : HasRow(b) => b \subseteq Eligible
    /\ \A s \in cloud : s[2] \subseteq Eligible

(* A stopped process holds nothing in memory.                              *)
DownIsEmpty ==
    phase = "down" =>
        buffer = {} /\ recovering = {} /\ \A p \in Tasks : task[p] = IdleTask

(* Only a purge takes a row from under a sender or from a stored batch.    *)
RowsOutliveSenders ==
    deleted = {} =>
        /\ task["router"].pc \notin {"purge", "discard"}
        /\ \A p \in Tasks :
              /\ \A b \in task[p].todo : HasRow(b)
              /\ task[p].pc \in {"flight", "answered"} => HasRow(task[p].batch)
        /\ \A s \in cloud : HasRow(s[2])

(* The answer "stored" is never invented.                                  *)
AnswersAreTrue ==
    \A p \in Tasks :
        task[p].pc = "answered" /\ task[p].answer = "stored"
            => \E s \in cloud : s[2] = task[p].batch

(* A batch on its way to the database is of one version already.           *)
HeldIsHomogeneous ==
    \A p \in Tasks : \A e, f \in Held(p) : VersionOf[e] = VersionOf[f]

(* account_deletion.rs: the deleted account's activity must not be POSTed  *)
(* under the next account's token.                                         *)
DeletedActivityStaysDeleted ==
    \A s \in cloud : \A e \in s[2] : OwnerOf[e] \in deleted => s[1] = OwnerOf[e]

-----------------------------------------------------------------------------
(* Liveness.  Tasks run, timers fire, a request is answered or times out.  *)

FairSpec ==
    /\ Spec
    /\ \A p \in Tasks : WF_vars(TaskStep(p))
    /\ WF_vars(ResumePending) /\ WF_vars(FlushDue)
    /\ \A b \in Batches : WF_vars(RowComesDue(b))
    /\ WF_vars(ListForPurge) /\ WF_vars(DiscardBatch)
    /\ WF_vars(RecoverPush) /\ WF_vars(RecoverDone)

(* A queued batch does not retry for as long as the service runs: it is    *)
(* sent, rejected, abandoned or discarded, unless the service stays down.  *)
QueueDrains ==
    \A b \in Batches :
        Resumable(b) ~> (~Resumable(b) \/ phase \in {"down", "stopping"})
=============================================================================
