----------------------------- MODULE Retention -----------------------------
(***************************************************************************)
(* The retention scheduler and its targets.  Once a cycle each target runs *)
(* one delete of at most BatchSize rows, while the rest of the service     *)
(* accepts events, batches and delivers them, restarts, or is not running  *)
(* for a while (the Mac asleep, the helper quit).                          *)
(*                                                                         *)
(* A row is owed while the upload pipeline would re-queue it at the next   *)
(* start: eligible, and in no batch.  The tables that expire on their own  *)
(* stamp alone are one function from the table to its rows.                *)
(***************************************************************************)
EXTENDS Integers, FiniteSets, Sequences

CONSTANTS
    Events,       \* events
    MaxTime,      \* bound: the clock, in days
    MaxTroubles,  \* bound: days the service does not run, and targets that fail
    MaxRestarts,  \* bound: restarts
    RawTtl,       \* raw_event_ttl (14 days)
    SentKeep,     \* sent_batch_retention (30 days)
    RejectedKeep, \* rejected_batch_audit_period (7 days)
    RunKeep,      \* OUT_OF_BLOCK_RUN_RETENTION_DAYS (90 days)
    CacheGrace,   \* cache_expiry_grace, past the row's own ttl
    IntentionDays,\* how long a block's intention is kept
    BatchSize     \* retention_batch_size

ASSUME RetentionAssumption ==
    /\ {MaxTime, MaxTroubles, MaxRestarts, RawTtl, SentKeep, RejectedKeep, RunKeep, CacheGrace, IntentionDays,
        BatchSize} \subseteq Nat
    /\ RawTtl < SentKeep /\ RejectedKeep < RawTtl /\ BatchSize > 0

VARIABLES
    today,     \* the clock
    turn,      \* the target that is next; 0 before and -1 after the day's cycle
    raw,       \* raw_event_buffer: event -> [at, eligible] of the rows it holds
    memory,    \* the assembler's buffer: events acked and not yet in a batch
    batches,   \* upload_batch with its batch_event rows
    mapped,    \* abstraction_map: event -> when its window was last observed
    rows,      \* the tables of their own horizon: table -> [row -> stamp]
    \* history
    fate,      \* what became of an event: "new", "local" (not for upload), "owed",
               \* "sent", "rejected", "stale"
    sends,     \* how often it was delivered
    troubles,  \* days missed and targets failed so far
    restarts

retentionvars == <<today, turn, raw, memory, batches, mapped, rows, fate, sends, troubles, restarts>>

Tables == {"cache", "intention", "run", "embedding", "site", "entry", "reminder"}

RetentionInit ==
    /\ today = 0 /\ turn = 0 /\ raw = <<>> /\ memory = {} /\ batches = {}
    /\ mapped = <<>> /\ rows = [t \in Tables |-> <<>>]
    /\ fate = [e \in Events |-> "new"] /\ sends = [e \in Events |-> 0] /\ troubles = 0 /\ restarts = 0

Batched(e) == \E b \in batches : e \in b.events
\* unbatched_events: what recover_unbatched would re-queue.
Owed == {e \in DOMAIN raw : raw[e].eligible /\ ~Batched(e)}

Without(f, S) == [x \in DOMAIN f \ S |-> f[x]]

\* A delete with a LIMIT: any BatchSize of the rows, or all of them.
Swept(S) ==
    IF Cardinality(S) <= BatchSize THEN {S}
    ELSE {T \in SUBSET S : Cardinality(T) = BatchSize}

-----------------------------------------------------------------------------
(* The service around the sweeps.                                          *)

\* An event is accepted and acked; only a signed-in service owes it.
Accept(e) ==
    /\ fate[e] = "new" /\ \A t \in Tables : rows[t] = <<>>
    /\ \E eligible \in BOOLEAN :
          /\ raw' = [x \in DOMAIN raw \cup {e} |->
                        IF x = e THEN [at |-> today, eligible |-> eligible] ELSE raw[x]]
          /\ mapped' = [x \in DOMAIN mapped \cup {e} |-> IF x = e THEN today ELSE mapped[x]]
          /\ memory' = IF eligible THEN memory \cup {e} ELSE memory
          /\ fate' = [fate EXCEPT ![e] = IF eligible THEN "owed" ELSE "local"]
    /\ UNCHANGED <<today, turn, batches, rows, sends, troubles, restarts>>

\* A flush writes the buffer as one batch.
Flush ==
    /\ memory # {} /\ memory' = {}
    /\ batches' = batches \cup {[events |-> memory, status |-> "pending", created |-> today,
                                 sentAt |-> 0]}
    /\ UNCHANGED <<today, turn, raw, mapped, rows, fate, sends, troubles, restarts>>

\* The backend takes the batch, or refuses it for good.
Deliver(b) ==
    /\ b.status = "pending"
    /\ batches' = (batches \ {b}) \cup {[b EXCEPT !.status = "sent", !.sentAt = today]}
    /\ sends' = [e \in Events |-> IF e \in b.events THEN sends[e] + 1 ELSE sends[e]]
    /\ fate' = [e \in Events |-> IF e \in b.events THEN "sent" ELSE fate[e]]
    /\ UNCHANGED <<today, turn, raw, memory, mapped, rows, troubles, restarts>>
Reject(b) ==
    /\ b.status = "pending"
    /\ batches' = (batches \ {b}) \cup {[b EXCEPT !.status = "rejected"]}
    /\ fate' = [e \in Events |-> IF e \in b.events THEN "rejected" ELSE fate[e]]
    /\ UNCHANGED <<today, turn, raw, memory, mapped, rows, sends, troubles, restarts>>

\* The process dies, in a cycle or out of one, and starts again: what was in
\* memory only is found by recover_unbatched.
Restart ==
    /\ restarts < MaxRestarts /\ restarts' = restarts + 1
    /\ turn' = 0 /\ memory' = Owed
    /\ UNCHANGED <<today, raw, batches, mapped, rows, fate, sends, troubles>>

\* One of the other tables gets a row, or a row it has is seen again.  Bound:
\* one such row at a time, and no events beside it, as no target but the
\* first two reads another's rows.
Touch(t) ==
    /\ \A u \in Tables \ {t} : rows[u] = <<>>
    /\ \A e \in Events : fate[e] = "new"
    /\ rows' = [rows EXCEPT ![t] = <<today>>]
    /\ UNCHANGED <<today, turn, raw, memory, batches, mapped, fate, sends, troubles, restarts>>

-----------------------------------------------------------------------------
(* The targets, in the order of their registration.                        *)

\* Mutant: every row past the horizon goes.
ExpiredEveryRow == {e \in DOMAIN raw : raw[e].at < today - RawTtl}
\* RawEventRetentionTarget: the rows past the horizon that are not owed.
ExpiredRaw == {e \in DOMAIN raw : raw[e].at < today - RawTtl} \ Owed
SweepRaw ==
    /\ \E S \in Swept(ExpiredRaw) : raw' = Without(raw, S)
    /\ UNCHANGED <<memory, batches, mapped, rows, fate, sends, troubles, restarts>>

SentExpired(B) == {b \in B : b.status = "sent" /\ b.sentAt < today - SentKeep}
RejectedExpired(B) == {b \in B : b.status = "rejected" /\ b.created < today - RejectedKeep}
\* Whatever its status.
Stale(B) == {b \in B : b.created < today - SentKeep}

\* UploadBatchRetentionTarget: three deletes, each with its own LIMIT; the
\* batch_event rows go with their batch.
SweepBatches ==
    /\ \E S \in Swept(SentExpired(batches)) :
       \E R \in Swept(RejectedExpired(batches \ S)) :
       \E Q \in Swept(Stale((batches \ S) \ R)) :
          /\ batches' = batches \ (S \cup R \cup Q)
          /\ fate' = [e \in Events |->
                        IF fate[e] = "owed" /\ \E b \in Q : e \in b.events THEN "stale" ELSE fate[e]]
    /\ UNCHANGED <<raw, memory, mapped, rows, sends, troubles, restarts>>

\* A target that deletes the rows of t stamped before the cutoff.
Sweep(t, cutoff) ==
    /\ rows' = [rows EXCEPT ![t] = SelectSeq(@, LAMBDA at : at >= cutoff)]
    /\ UNCHANGED <<raw, memory, batches, mapped, fate, sends, troubles, restarts>>

SweepCaches == Sweep("cache", today - CacheGrace)
\* expire_intentions: the deadline is stored with the block.
SweepIntentions == Sweep("intention", today - IntentionDays + 1)
SweepRuns == Sweep("run", today - RunKeep)
SweepEmbeddings == Sweep("embedding", today - RawTtl)
\* delete_expired_mappings: a window that a buffered event points at is spared.
ExpiredMappings == {e \in DOMAIN mapped : mapped[e] < today - RawTtl} \ DOMAIN raw
SweepMappings ==
    /\ \E S \in Swept(ExpiredMappings) : mapped' = Without(mapped, S)
    /\ UNCHANGED <<raw, memory, batches, rows, fate, sends, troubles, restarts>>

SweepSiteNames == Sweep("site", today - RawTtl)
SweepPromptEntries == Sweep("entry", today - RawTtl)
SweepReminders == Sweep("reminder", today - SentKeep)

\* Mutant: the targets after the sixth are not registered.
FirstTargets == 6
Targets == 10
RunTarget(n) ==
    /\ CASE n = 1 -> SweepRaw
         [] n = 2 -> SweepBatches
         [] n = 3 -> SweepCaches
         [] n = 4 -> SweepIntentions
         [] n = 5 -> SweepRuns
         [] n = 6 -> SweepEmbeddings
         [] n = 7 -> SweepMappings
         [] n = 8 -> SweepSiteNames
         [] n = 9 -> SweepPromptEntries
         [] n = 10 -> SweepReminders

\* One target after the other; one that fails is tried again next cycle.
RunNext ==
    /\ turn > 0 /\ RunTarget(turn)
    /\ turn' = IF turn = Targets THEN -1 ELSE turn + 1
    /\ UNCHANGED <<today, troubles, restarts>>
TargetFails ==
    /\ turn > 0 /\ turn' = IF turn = Targets THEN -1 ELSE turn + 1
    /\ troubles < MaxTroubles /\ troubles' = troubles + 1
    /\ UNCHANGED <<today, raw, memory, batches, mapped, rows, fate, sends, restarts>>

\* The ticker.  On the last day of the bound the cycles go on.
BeginCycle ==
    /\ turn = 0 \/ (turn = -1 /\ today = MaxTime)
    /\ turn' = 1
    /\ UNCHANGED <<today, raw, memory, batches, mapped, rows, fate, sends, troubles, restarts>>

\* The next day on which the service runs.
NextDay ==
    /\ turn = -1 /\ turn' = 0
    /\ \E missed \in 0..(MaxTroubles - troubles) :
          /\ today + 1 + missed <= MaxTime /\ today' = today + 1 + missed
          /\ troubles' = troubles + missed
          /\ memory' = IF missed > 0 THEN Owed ELSE memory
    /\ UNCHANGED <<raw, batches, mapped, rows, fate, sends, restarts>>

RetentionTask == RunNext \/ BeginCycle \/ NextDay
RetentionStep ==
    \/ \E e \in Events : Accept(e)
    \/ \E b \in batches : Deliver(b) \/ Reject(b)
    \/ \E t \in Tables : Touch(t)
    \/ Flush \/ Restart \/ TargetFails \/ RetentionTask

RetentionSpec == RetentionInit /\ [][RetentionStep]_retentionvars

-----------------------------------------------------------------------------
(* Properties.                                                             *)

\* An event that was acked and is owed to the backend is on disk, as a row or
\* in a batch: no sweep takes it before it is delivered, refused, or has
\* waited in its batch past the horizon (delete_expired_batch,
\* delete_stale_queued_batch).
OwedIsOnDisk ==
    \A e \in Events : fate[e] = "owed" => e \in DOMAIN raw \/ Batched(e)

\* No event is delivered twice: its row is swept before the batch that marks
\* it as delivered, so that a start does not find the row unbatched and queue
\* it again (the ordering of horizons delete_expired_batch rests on).
DeliveredOnce == \A e \in Events : sends[e] <= 1

\* What is buffered can be shown: no sweep takes the window of an event that is
\* still there, however long a delivery keeps it (delete_expired_mappings).
BufferedIsMapped == DOMAIN raw \subseteq DOMAIN mapped

\* The sweeps and the uploads agree: an event owed to the backend stays on
\* disk until it is dealt with, with its window, and a swept one is not sent
\* again (RawEventRetentionTarget, UploadBatchRetentionTarget,
\* AbstractionMapRetentionTarget, recover_unbatched).
SweepsSpareUploads == OwedIsOnDisk /\ DeliveredOnce /\ BufferedIsMapped

\* What is past its horizon leaves the disk in the end, however many rows
\* share a cycle and whichever targets failed before (RetentionScheduler).
EverythingExpires ==
    <>[](/\ {e \in DOMAIN raw : raw[e].at < today - RawTtl} \subseteq Owed
         /\ \A b \in batches : b.created >= today - SentKeep
         /\ \A e \in DOMAIN mapped : mapped[e] >= today - RawTtl \/ e \in Owed
         /\ rows["site"] \in {<<>>} \cup {<<d>> : d \in (today - RawTtl)..today}
         /\ rows["run"] \in {<<>>} \cup {<<d>> : d \in (today - RunKeep)..today})
=============================================================================
