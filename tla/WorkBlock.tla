------------------------------ MODULE WorkBlock ------------------------------
(* The work-block state machine: WorkBlockManager over the SQLite           *)
(* WorkBlockRepo, run_deadline_scheduler, and the router's commands.        *)
(*                                                                          *)
(* The manager has no lock of its own.  Every repository call is atomic     *)
(* (one mutex around the connection) and every command is a chain of them,  *)
(* so a connection task, a second one and the deadline scheduler interleave *)
(* between any two calls.  A task writes what it computed from a record it  *)
(* read some calls ago.                                                     *)
(*                                                                          *)
(* Times are in ticks of the wall clock, which may be set back.  What an    *)
(* observation shows is abstracted to how it compares with the last one,    *)
(* and the drift gate's evidence to the verdict it reaches.                 *)
EXTENDS Naturals

CONSTANTS
    Conns,          \* connection tasks, each serving one command at a time
    Scheduler,      \* the task of run_deadline_scheduler
    Main,           \* the start-up code, which recovers before the others run
    Planned,        \* planned_duration_seconds of every block, in ticks
    MaxBlocks,      \* blocks created
    MaxClock,       \* the last tick of the clock
    MaxSetbacks,    \* times the clock is set back
    MaxCrashes,     \* times the process dies and is started again
    None            \* no deadline

ASSUME WorkBlockAssumption ==
    /\ Planned \in Nat \ {0} /\ MaxBlocks \in Nat /\ MaxClock \in Nat
    /\ MaxSetbacks \in Nat /\ MaxCrashes \in Nat
    /\ None \notin Nat
    /\ Scheduler \notin Conns /\ Main \notin Conns /\ Scheduler # Main

VARIABLES
    clock,      \* Utc::now()
    created,    \* blocks created so far; block ids grow with the rowid
    rows,       \* work_block
    results,    \* work_block_result: None or the elapsed time it froze
    offers,     \* work_block_intervention: "none" or the outcome column
    obs,        \* work_block_observation: the latest row of each block
    deadline,   \* the value in the watch channel
    unseen,     \* the scheduler has not yet looked at that value
    armed,      \* the deadline the scheduler sleeps towards
    task,       \* what each task is doing
    up,         \* recovery is over and the tasks run
    lateNone,   \* history: "no deadline" was published for an older block
    setbacks, crashes

vars == <<clock, created, rows, results, offers, obs, deadline, unseen, armed,
          task, up, lateNone, setbacks, crashes>>

store == <<created, rows, results, offers, obs>>
channel == <<deadline, unseen, armed>>
env == <<clock, up, lateNone, setbacks, crashes>>

Blocks == 1..MaxBlocks
Tasks == Conns \cup {Scheduler, Main}
Terminal == {"Completed", "Abandoned", "Expired"}
Outcomes == {"none", "offered", "returned", "no_response", "replied", "held"}
\* What the drift gate records: an offer, or one held back by a demotion or by
\* Do Not Disturb, which is terminal at once.
Verdicts == {"offered", "held"}

\* A row; phase "none" stands for no row.
Row == [phase: {"none", "Active", "Paused"} \cup Terminal,
        started: Nat, paused: Nat, total: Nat, ended: Nat, updated: Nat]
NoRow == [phase |-> "none", started |-> 0, paused |-> 0, total |-> 0,
          ended |-> 0, updated |-> 0]

\* pc names the next repository call, or the publication of the deadline due.
\* The rest is what the task computed from the record it read: the instant and
\* the phase it will write, the record's total_paused_seconds or the new one,
\* and the elapsed time for the result.
Task == [pc: {"idle", "create", "pause", "pause_close", "set_paused",
              "set_active", "get", "publish", "finish", "finish_close",
              "resolve", "finalize", "close", "append", "gate",
              "recover", "recover_close", "mark"},
         block: Nat, at: Nat, to: Terminal \cup {"none", "decided"},
         total: Nat, elapsed: Nat, due: Nat \cup {None}]
Idle == [pc |-> "idle", block |-> 0, at |-> 0, to |-> "none", total |-> 0,
         elapsed |-> 0, due |-> None]

Init ==
    /\ clock = 0 /\ created = 0
    /\ rows = [b \in Blocks |-> NoRow]
    /\ results = [b \in Blocks |-> None]
    /\ offers = [b \in Blocks |-> "none"]
    /\ obs = [b \in Blocks |-> "none"]
    /\ deadline = None /\ unseen = FALSE /\ armed = None
    /\ task = [p \in Tasks |-> Idle]
    /\ up = TRUE /\ lateNone = FALSE /\ setbacks = 0 /\ crashes = 0

-----------------------------------------------------------------------------
(* Time arithmetic *)

Larger(a, b) == IF a > b THEN a ELSE b
Smaller(a, b) == IF a < b THEN a ELSE b

\* Of the duration a - b.
positive_seconds(a, b) == IF a > b THEN a - b ELSE 0

effective_now(r, now) == Larger(now, r.updated)

\* Mutant: pauses do not move the deadline.
DeadlineFromStart(r) == r.started + Planned
planned_deadline(r) == r.started + Planned + r.total

elapsed_seconds(r, now) ==
    LET end == IF r.phase = "Paused" THEN r.paused
               ELSE IF r.phase \in Terminal THEN r.ended
               ELSE effective_now(r, now)
    IN  positive_seconds(positive_seconds(end, r.started), r.total)

Overdue(r, now) == r.phase = "Active" /\ elapsed_seconds(r, now) >= Planned

-----------------------------------------------------------------------------
(* The repository *)

Exists(b) == b \in Blocks /\ rows[b].phase # "none"
Live(b) == b \in Blocks /\ rows[b].phase \in {"Active", "Paused"}

\* ORDER BY rowid DESC LIMIT 1
latest == {b \in Blocks : Exists(b) /\ \A c \in Blocks : Exists(c) => c <= b}

CloseObservation(b) ==
    obs' = [obs EXCEPT ![b] = IF @ = "open" THEN "closed" ELSE @]

\* UPDATE ... WHERE outcome = 'offered'
resolve_intervention(b, outcome) ==
    offers' = [offers EXCEPT ![b] = IF @ = "offered" THEN outcome ELSE @]

\* finalize's transaction, when the block has no result yet.
FinalRow(r, phase, at) ==
    [r EXCEPT !.phase = phase, !.ended = at, !.paused = 0, !.updated = at]

-----------------------------------------------------------------------------
(* Steps of a task *)

Begin(p) == up /\ p \in Conns /\ task[p].pc = "idle"
At(p, pc) == task[p].pc = pc
Goes(p, t) == task' = [task EXCEPT ![p] = t]
GoOn(p, pc) == task' = [task EXCEPT ![p].pc = pc]
Publishes(p, b, due) == Goes(p, [Idle EXCEPT !.pc = "publish", !.block = b, !.due = due])
\* The command returns, with its answer or an error.
Returns(p) == Goes(p, Idle)

\* Call finish with the record just read.
Finishes(p, b, phase, at) ==
    Goes(p, [Idle EXCEPT !.pc = "finish", !.block = b, !.at = at, !.to = phase,
                         !.total = rows[b].total,
                         !.elapsed = elapsed_seconds(rows[b], at)])

\* send_replace marks the channel changed whatever the value was.
publish_deadline(p) ==
    /\ At(p, "publish")
    /\ deadline' = task[p].due /\ unseen' = TRUE
    /\ Returns(p)
    /\ up' = TRUE
    /\ lateNone' = \/ lateNone
                   \/ /\ task[p].due = None
                      /\ \E b \in latest : b # task[p].block /\ rows[b].phase = "Active"
    /\ UNCHANGED <<store, armed, clock, setbacks, crashes>>

\* Mutant: a paused block does not stand in the way of a new one.
NoneActive == \A b \in latest : rows[b].phase # "Active"
NoneLive == \A b \in latest : ~Live(b)

\* start_with_origin, and accept_recovery of the block src, up to the insert.
StartWorkBlock(p) ==
    /\ Begin(p) /\ NoneLive /\ created < MaxBlocks
    /\ Goes(p, [Idle EXCEPT !.pc = "create", !.at = clock])
    /\ UNCHANGED <<store, channel, env>>

AcceptRecovery(p, src) ==
    /\ Begin(p) /\ NoneLive /\ created < MaxBlocks
    /\ results[src] # None /\ rows[src].phase \in Terminal
    /\ Goes(p, [Idle EXCEPT !.pc = "create", !.block = src, !.at = clock])
    /\ UNCHANGED <<store, channel, env>>

\* The insert fails when recovery_of names a block that has been cleared.
Create(p) ==
    /\ At(p, "create") /\ created < MaxBlocks
    /\ IF task[p].block = 0 \/ Exists(task[p].block)
       THEN /\ created' = created + 1
            /\ rows' = [rows EXCEPT ![created + 1] =
                           [NoRow EXCEPT !.phase = "Active", !.started = task[p].at,
                                         !.updated = task[p].at]]
            /\ Publishes(p, created + 1, task[p].at + Planned)
       ELSE Returns(p) /\ UNCHANGED <<created, rows>>
    /\ UNCHANGED <<results, offers, obs, channel, env>>

\* pause, from the record it requires to be Active.
PauseReads(p, b, now) ==
    \/ Overdue(rows[b], now) /\ Finishes(p, b, "Completed", planned_deadline(rows[b]))
    \/ /\ ~Overdue(rows[b], now)
       /\ Goes(p, [Idle EXCEPT !.pc = "pause_close", !.block = b,
                     !.at = Smaller(effective_now(rows[b], now), planned_deadline(rows[b]))])

PauseWorkBlock(p, b) ==
    /\ Begin(p) /\ rows[b].phase = "Active"
    /\ PauseReads(p, b, clock)
    /\ UNCHANGED <<store, channel, env>>

\* lifecycle(Sleep) reads the latest block and then calls pause, which reads
\* it again.
Sleep(p) ==
    /\ Begin(p)
    /\ \E b \in latest :
          /\ rows[b].phase = "Active"
          /\ Goes(p, [Idle EXCEPT !.pc = "pause", !.block = b, !.at = clock])
    /\ UNCHANGED <<store, channel, env>>

SleepPauses(p) ==
    /\ At(p, "pause")
    /\ IF rows[task[p].block].phase = "Active"
       THEN PauseReads(p, task[p].block, task[p].at)
       ELSE Returns(p)
    /\ UNCHANGED <<store, channel, env>>

PauseCloses(p) ==
    /\ At(p, "pause_close")
    /\ CloseObservation(task[p].block)
    /\ GoOn(p, "set_paused")
    /\ UNCHANGED <<created, rows, results, offers, channel, env>>

\* UPDATE ... WHERE phase = 'active'; an update of no row is an error.
SetPaused(p) ==
    LET b == task[p].block IN
    /\ At(p, "set_paused")
    /\ IF rows[b].phase = "Active"
       THEN /\ rows' = [rows EXCEPT ![b].phase = "Paused", ![b].paused = task[p].at,
                                    ![b].updated = task[p].at]
            /\ Publishes(p, b, None)
       ELSE Returns(p) /\ UNCHANGED rows
    /\ UNCHANGED <<created, results, offers, obs, channel, env>>

TotalPaused(r, at) == r.total + positive_seconds(at, r.paused)

ResumeWorkBlock(p, b) ==
    /\ Begin(p) /\ rows[b].phase = "Paused"
    /\ Goes(p, [Idle EXCEPT !.pc = "set_active", !.block = b,
                            !.at = effective_now(rows[b], clock),
                            !.total = TotalPaused(rows[b], effective_now(rows[b], clock))])
    /\ UNCHANGED <<store, channel, env>>

SetActive(p) ==
    LET b == task[p].block IN
    /\ At(p, "set_active")
    /\ IF rows[b].phase = "Paused"
       THEN /\ rows' = [rows EXCEPT ![b].phase = "Active", ![b].paused = 0,
                                    ![b].total = task[p].total,
                                    ![b].updated = task[p].at]
            /\ Goes(p, [Idle EXCEPT !.pc = "get", !.block = b])
       ELSE Returns(p) /\ UNCHANGED rows
    /\ UNCHANGED <<created, results, offers, obs, channel, env>>

ResumeGets(p) ==
    LET b == task[p].block IN
    /\ At(p, "get")
    /\ IF Exists(b) THEN Publishes(p, b, planned_deadline(rows[b])) ELSE Returns(p)
    /\ UNCHANGED <<store, channel, env>>

\* Mutant: a paused block ends when the command arrives.
EndedNow(r, now) == effective_now(r, now)

\* A paused block ended when the pause began.
EndedAt(r, now) == IF r.phase = "Paused" THEN r.paused ELSE effective_now(r, now)

EndWorkBlock(p, b) ==
    /\ Begin(p) /\ Live(b)
    /\ IF Overdue(rows[b], clock)
       THEN Finishes(p, b, "Completed", planned_deadline(rows[b]))
       ELSE Finishes(p, b, "Abandoned", EndedAt(rows[b], clock))
    /\ UNCHANGED <<store, channel, env>>

\* request_state, also behind Wake and TimeZoneChanged.
RequestState(p) ==
    /\ \E b \in latest :
          /\ Overdue(rows[b], clock)
          /\ Finishes(p, b, "Completed", planned_deadline(rows[b]))
    /\ UNCHANGED <<store, channel, env>>

\* lifecycle(ClockChanged) calls the same lateness an expiry.
ClockChanged(p) ==
    /\ Begin(p)
    /\ \E b \in latest :
          /\ Overdue(rows[b], clock)
          /\ Finishes(p, b, "Expired", planned_deadline(rows[b]))
    /\ UNCHANGED <<store, channel, env>>

\* clear_all: observations, results and offers go with their block.
ClearData(p) ==
    /\ Begin(p)
    /\ rows' = [b \in Blocks |-> NoRow]
    /\ results' = [b \in Blocks |-> None]
    /\ offers' = [b \in Blocks |-> "none"]
    /\ obs' = [b \in Blocks |-> "none"]
    /\ Publishes(p, 0, None)
    /\ UNCHANGED <<created, channel, env>>

\* report_intervention_outcome: only an unanswered offer takes a reply.
ReportOutcome(p, b) ==
    /\ Begin(p) /\ offers[b] = "offered"
    /\ resolve_intervention(b, "replied")
    /\ UNCHANGED <<created, rows, results, obs, task, channel, env>>

-----------------------------------------------------------------------------
(* finish *)

FinishChecks(p) ==
    /\ At(p, "finish")
    /\ IF results[task[p].block] # None
       THEN Publishes(p, task[p].block, None) ELSE GoOn(p, "finish_close")
    /\ UNCHANGED <<store, channel, env>>

FinishCloses(p) ==
    /\ At(p, "finish_close")
    /\ CloseObservation(task[p].block)
    /\ GoOn(p, "resolve")
    /\ UNCHANGED <<created, rows, results, offers, channel, env>>

\* Silence is an outcome.
FinishResolves(p) ==
    /\ At(p, "resolve")
    /\ resolve_intervention(task[p].block, "no_response")
    /\ GoOn(p, "finalize")
    /\ UNCHANGED <<created, rows, results, obs, channel, env>>

\* Mutant: a second finisher writes its own result.
FinalizeAgain(p) ==
    LET b == task[p].block IN
    /\ At(p, "finalize")
    /\ IF Exists(b)
       THEN /\ rows' = [rows EXCEPT ![b] = FinalRow(@, task[p].to, task[p].at)]
            /\ results' = [results EXCEPT ![b] = task[p].elapsed]
            /\ Publishes(p, b, None)
       ELSE Returns(p) /\ UNCHANGED <<rows, results>>
    /\ UNCHANGED <<created, offers, obs, channel, env>>

\* The transaction returns a result that is already there, closes a live
\* block, and fails when neither exists.
Finalize(p) ==
    LET b == task[p].block IN
    /\ At(p, "finalize")
    /\ \/ results[b] # None /\ Publishes(p, b, None) /\ UNCHANGED <<rows, results>>
       \/ /\ results[b] = None /\ Live(b)
          /\ rows' = [rows EXCEPT ![b] = FinalRow(@, task[p].to, task[p].at)]
          /\ results' = [results EXCEPT ![b] = task[p].elapsed]
          /\ Publishes(p, b, None)
       \/ results[b] = None /\ ~Live(b) /\ Returns(p) /\ UNCHANGED <<rows, results>>
    /\ UNCHANGED <<created, offers, obs, channel, env>>

-----------------------------------------------------------------------------
(* observe_safe_category *)

\* occurred is when the dwell began, which may be long ago.  A second report
\* of the dwell whose row is still open changes nothing; the second report of
\* one that a boundary closed reopens the ledger and is not decided again.
Observe(p, occurred) ==
    /\ Begin(p) /\ occurred <= clock
    /\ \E b \in latest :
          /\ rows[b].phase = "Active"
          /\ \/ /\ Overdue(rows[b], occurred)
                /\ Finishes(p, b, "Completed", planned_deadline(rows[b]))
             \/ /\ ~Overdue(rows[b], occurred)
                /\ \E to \in IF obs[b] = "closed" THEN {"none", "decided"} ELSE {"none"} :
                      Goes(p, [Idle EXCEPT !.pc = "close", !.block = b, !.to = to,
                            !.at = Smaller(effective_now(rows[b], occurred),
                                           planned_deadline(rows[b]))])
    /\ UNCHANGED <<store, channel, env>>

ObserveCloses(p) ==
    /\ At(p, "close")
    /\ CloseObservation(task[p].block)
    /\ GoOn(p, "append")
    /\ UNCHANGED <<created, rows, results, offers, channel, env>>

\* Refused without the block's row (foreign key) and with a second open row
\* (idx_work_block_observation_one_open); the phase is not looked at.
MayAppend(b) == Exists(b) /\ obs[b] # "open"

AppendObservation(p) ==
    LET b == task[p].block IN
    /\ At(p, "append")
    /\ IF MayAppend(b)
       THEN /\ obs' = [obs EXCEPT ![b] = "open"]
            /\ rows' = [rows EXCEPT ![b].updated = Larger(@, task[p].at)]
            /\ IF task[p].to = "decided" THEN Returns(p)
               ELSE Goes(p, [Idle EXCEPT !.pc = "gate", !.block = b])
       ELSE Returns(p) /\ UNCHANGED <<obs, rows>>
    /\ UNCHANGED <<created, results, offers, channel, env>>

\* record_return_if_pending, then evaluate_drift: an insert that does nothing
\* when the block already had its offer, and needs the block's row.
MayOffer(b) == Exists(b) /\ offers[b] = "none"

GateDecides(p) ==
    LET b == task[p].block IN
    /\ At(p, "gate")
    /\ \/ resolve_intervention(b, "returned")
       \/ MayOffer(b) /\ \E v \in Verdicts : offers' = [offers EXCEPT ![b] = v]
       \/ UNCHANGED offers
    /\ Returns(p)
    /\ UNCHANGED <<created, rows, results, obs, channel, env>>

-----------------------------------------------------------------------------
(* run_deadline_scheduler *)

SchedulerLooks ==
    /\ up /\ At(Scheduler, "idle") /\ unseen
    /\ armed' = deadline /\ unseen' = FALSE
    /\ UNCHANGED <<store, deadline, task, env>>

\* The sleep ends: request_state, and back to the top of the loop.
SchedulerFires ==
    /\ up /\ At(Scheduler, "idle")
    /\ armed # None /\ clock >= armed
    /\ RequestState(Scheduler)

-----------------------------------------------------------------------------
(* The clock, crashes and recovery *)

Tick ==
    /\ clock < MaxClock
    /\ clock' = clock + 1
    /\ UNCHANGED <<store, channel, task, up, lateNone, setbacks, crashes>>

SetBack ==
    /\ setbacks < MaxSetbacks
    /\ \E t \in 0..MaxClock : t < clock /\ clock' = t
    /\ setbacks' = setbacks + 1
    /\ UNCHANGED <<store, channel, task, up, lateNone, crashes>>

\* The process dies between any two calls; the next one starts with an empty
\* channel and recovers before it serves anybody.
Crash ==
    /\ crashes < MaxCrashes
    /\ crashes' = crashes + 1
    /\ up' = FALSE /\ lateNone' = FALSE
    /\ task' = [p \in Tasks |-> IF p = Main THEN [Idle EXCEPT !.pc = "recover"] ELSE Idle]
    /\ deadline' = None /\ unseen' = FALSE /\ armed' = None
    /\ UNCHANGED <<store, clock, setbacks>>

\* recover_after_restart
Recover ==
    /\ At(Main, "recover")
    /\ \/ /\ \E b \in latest : Live(b)
          /\ \E b \in latest :
                IF Overdue(rows[b], clock)
                THEN Finishes(Main, b, "Expired", planned_deadline(rows[b]))
                ELSE Goes(Main, [Idle EXCEPT
                        !.pc = IF rows[b].phase = "Active" THEN "recover_close" ELSE "mark",
                        !.block = b, !.at = clock])
          /\ UNCHANGED up
       \/ NoneLive /\ Returns(Main) /\ up' = TRUE
    /\ UNCHANGED <<store, channel, clock, lateNone, setbacks, crashes>>

RecoverCloses ==
    /\ At(Main, "recover_close")
    /\ CloseObservation(task[Main].block)
    /\ GoOn(Main, "mark")
    /\ UNCHANGED <<created, rows, results, offers, channel, env>>

\* mark_recovered
MarkRecovered ==
    LET b == task[Main].block IN
    /\ At(Main, "mark")
    /\ rows' = [rows EXCEPT ![b].updated = task[Main].at]
    /\ Publishes(Main, b, IF rows[b].phase = "Active" THEN planned_deadline(rows[b]) ELSE None)
    /\ UNCHANGED <<created, results, offers, obs, channel, env>>

-----------------------------------------------------------------------------

Command(p) ==
    \/ StartWorkBlock(p) \/ Sleep(p) \/ ClockChanged(p) \/ ClearData(p)
    \/ Begin(p) /\ RequestState(p)
    \/ \E b \in Blocks : \/ AcceptRecovery(p, b) \/ PauseWorkBlock(p, b)
                         \/ ResumeWorkBlock(p, b) \/ EndWorkBlock(p, b)
                         \/ ReportOutcome(p, b)
    \/ \E t \in 0..MaxClock : Observe(p, t)

Step(p) ==
    \/ publish_deadline(p) \/ Create(p) \/ SleepPauses(p) \/ PauseCloses(p)
    \/ SetPaused(p) \/ SetActive(p) \/ ResumeGets(p)
    \/ FinishChecks(p) \/ FinishCloses(p) \/ FinishResolves(p) \/ Finalize(p)
    \/ ObserveCloses(p) \/ AppendObservation(p) \/ GateDecides(p)

Next ==
    \/ \E p \in Conns : Command(p)
    \/ \E p \in Tasks : Step(p)
    \/ SchedulerLooks \/ SchedulerFires
    \/ Tick \/ SetBack \/ Crash
    \/ Recover \/ RecoverCloses \/ MarkRecovered

Spec == Init /\ [][Next]_vars

-----------------------------------------------------------------------------
(* Properties *)

\* Every variable has its type.
TypeOK ==
    /\ clock \in 0..MaxClock /\ created \in 0..MaxBlocks
    /\ rows \in [Blocks -> Row]
    /\ results \in [Blocks -> Nat \cup {None}]
    /\ offers \in [Blocks -> Outcomes]
    /\ obs \in [Blocks -> {"none", "open", "closed"}]
    /\ deadline \in Nat \cup {None} /\ armed \in Nat \cup {None} /\ unseen \in BOOLEAN
    /\ task \in [Tasks -> Task]
    /\ up \in BOOLEAN
    /\ lateNone \in BOOLEAN
    /\ setbacks \in 0..MaxSetbacks /\ crashes \in 0..MaxCrashes

\* While one connection sends commands, no order of starts, recoveries,
\* pauses, deadlines and restarts leaves two blocks open: the manager checks
\* the latest block in one call and inserts the new one in another.
OneLiveBlock == \A b, c \in Blocks : Live(b) /\ Live(c) => b = c

\* A block has a result exactly when its phase is terminal, in every state a
\* crash or another task can see.
ResultIffTerminal ==
    \A b \in Blocks : results[b] # None <=> rows[b].phase \in Terminal

\* A completed or expired block counts exactly its planned time, an abandoned
\* one never more: pauses, late deadlines, old observations, outages and a
\* clock set back neither add to it nor take from it.
FullTime ==
    \A b \in Blocks :
        /\ rows[b].phase \in {"Completed", "Expired"} => results[b] = Planned
        /\ rows[b].phase = "Abandoned" => results[b] <= Planned

\* The user's end, the deadline, an observation and a restart may all finish
\* the same block; the first result stays, and nothing reopens the block.
ResultsAreFinal ==
    [][\A b \in Blocks : results[b] # None /\ rows'[b].phase # "none" =>
          /\ results'[b] = results[b]
          /\ rows'[b].phase = rows[b].phase /\ rows'[b].ended = rows[b].ended]_vars

\* One offer per block, with one outcome: a reply, a return and the silence
\* at the end of the block never replace each other.
OutcomesAreFinal ==
    [][\A b \in Blocks : offers[b] \notin {"none", "offered"} /\ rows'[b].phase # "none" =>
          offers'[b] = offers[b]]_vars

\* The elapsed time frozen in the result is the one that every later reading
\* of the finished row computes, unless a resume changed the row's pause total
\* between the finisher's read and its write.
FrozenElapsed ==
    [][\A b \in Blocks : results[b] = None /\ results'[b] # None =>
          \/ results'[b] = elapsed_seconds(rows'[b], clock)
          \/ \E p \in Tasks : At(p, "finalize") /\ task[p].total # rows[b].total]_vars

\* No command lets a clock that was set back take back persisted time; only
\* mark_recovered writes the wall clock as it finds it.
UpdatesGoForward ==
    [][\A b \in Blocks : Live(b) /\ Live(b)' /\ rows'[b].updated < rows[b].updated =>
          At(Main, "mark")]_vars

\* A block ends with the time it really had: its result appears with its
\* terminal phase and counts neither pauses nor outages nor time past the plan.
EndsHonestly == ResultIffTerminal /\ FullTime

\* Whoever finishes a block or answers its offer first has the last word.
EndingsAreFinal == ResultsAreFinal /\ OutcomesAreFinal

\* Neither a racing command nor a clock set back rewrites time already kept.
TimeIsKept == FrozenElapsed /\ UpdatesGoForward

\* No command is under way.
Quiet == up /\ \A p \in Tasks : task[p] = Idle

\* Between commands the scheduler is told the deadline of the active block,
\* whatever started, resumed or recovered it.  The exception is a finish that
\* publishes "no deadline" after the next block has been started.
ActiveIsArmed ==
    Quiet /\ ~lateNone =>
        \A b \in latest : rows[b].phase = "Active" => deadline = planned_deadline(rows[b])

\* One block at a time, and the scheduler knows it: no two blocks are open,
\* and between commands the active one's deadline is the published one
\* (WorkBlockManager::start, publish_deadline, recover_after_restart).
BlocksAreKept == OneLiveBlock /\ ActiveIsArmed

-----------------------------------------------------------------------------
(* What makes ResultIffTerminal and the two action properties inductive.    *)

\* Block ids that have not been given out have no row, result or offer.
FreshIsEmpty ==
    \A b \in Blocks : b > created =>
        rows[b].phase = "none" /\ results[b] = None /\ offers[b] = "none"

\* A task between its first and its last call names the block it is about, and
\* a finishing one the phase it will write.
Finishing == {"finish", "finish_close", "resolve", "finalize"}
Naming == Finishing \cup {"pause", "pause_close", "set_paused", "set_active", "get",
                          "close", "append", "gate", "recover_close", "mark"}
TasksNameBlocks ==
    \A p \in Tasks :
        /\ task[p].pc \in Naming => task[p].block \in Blocks
        /\ task[p].pc \in Finishing => task[p].to \in Terminal

WorkBlockInvariant == TypeOK /\ FreshIsEmpty /\ TasksNameBlocks /\ ResultIffTerminal
-----------------------------------------------------------------------------
(* What makes EndsHonestly, TimeIsKept and BlocksAreKept inductive while one  *)
(* connection sends commands.                                                 *)

\* Start-up recovers before anybody else runs, and then never again.
RecoveryRunsAlone ==
    /\ up => task[Main] = Idle
    /\ ~up => \A p \in Tasks \ {Main} : task[p] = Idle

\* Which calls each kind of task makes.
Roles ==
    /\ task[Scheduler].pc \in {"idle", "publish"} \cup Finishing
    /\ task[Main].pc \in {"idle", "recover", "recover_close", "mark", "publish"} \cup Finishing
    /\ \A p \in Conns : task[p].pc \notin {"recover", "recover_close", "mark"}

\* A live block is the latest one.
LiveIsLatest == \A b, c \in Blocks : Live(b) /\ Exists(c) => c <= b

\* The last instant a live row knows of lies within its plan.
RowsWithinPlan ==
    \A b \in Blocks :
        /\ rows[b].phase = "Active" => rows[b].updated <= planned_deadline(rows[b])
        /\ rows[b].phase = "Paused" => rows[b].paused <= planned_deadline(rows[b])

\* What a task t carries between two calls still fits the row it is about.
PauseFits(t) ==
    t.pc \in {"pause_close", "set_paused"} /\ rows[t.block].phase = "Active" =>
        rows[t.block].updated <= t.at /\ t.at <= planned_deadline(rows[t.block])
ResumeFits(t) ==
    t.pc = "set_active" /\ rows[t.block].phase = "Paused" =>
        rows[t.block].updated <= t.at /\ t.at <= rows[t.block].started + Planned + t.total
LaterFits(t) ==
    t.pc \in {"close", "append", "recover_close", "mark"} /\ rows[t.block].phase = "Active" =>
        t.at <= planned_deadline(rows[t.block])
FinishFits(t) ==
    t.pc \in Finishing =>
        /\ t.to \in {"Completed", "Expired"} => t.elapsed = Planned
        /\ t.elapsed <= Planned
        /\ Exists(t.block) =>
              t.elapsed = positive_seconds(positive_seconds(t.at, rows[t.block].started), t.total)

\* What is about to be inserted, read again or published is right for every
\* block that is then active.
CreateFits(t) == t.pc = "create" => \A b \in Blocks : ~Live(b)
GetFits(t) == t.pc = "get" => \A b \in Blocks : Live(b) => b = t.block
NoDeadlineFits(t) ==
    t.pc = "publish" /\ t.due = None =>
        ~(t.block \in Blocks /\ rows[t.block].phase = "Active")
DeadlineFits(t) ==
    t.pc = "publish" /\ t.due # None =>
        \A b \in Blocks : rows[b].phase = "Active" =>
            b = t.block /\ t.due = planned_deadline(rows[b])

Fits(t) ==
    /\ t.block <= created
    /\ PauseFits(t) /\ ResumeFits(t) /\ LaterFits(t) /\ FinishFits(t)
    /\ CreateFits(t) /\ GetFits(t) /\ NoDeadlineFits(t) /\ DeadlineFits(t)

\* The scheduler only ever says that a block is over.
SchedulerFits ==
    At(Scheduler, "publish") =>
        task[Scheduler].due = None /\ ~Live(task[Scheduler].block)

\* The active block's deadline is published, or some task is about to.
Armed ==
    up /\ ~lateNone =>
        \A b \in Blocks : rows[b].phase = "Active" =>
            \/ deadline = planned_deadline(rows[b])
            \/ \E p \in Tasks :
                  /\ task[p].block = b
                  /\ At(p, "get") \/ (At(p, "publish") /\ task[p].due # None)

OneConnectionInvariant ==
    /\ WorkBlockInvariant /\ RecoveryRunsAlone /\ Roles
    /\ LiveIsLatest /\ RowsWithinPlan /\ FullTime
    /\ \A p \in Tasks : Fits(task[p])
    /\ SchedulerFits /\ Armed
=============================================================================
