--------------------------- MODULE WorkBlockProofs ---------------------------
(* For any set of connections and any bounds: the types of WorkBlock, that a *)
(* block has a result exactly when it is over, and that results and offer    *)
(* outcomes are written once.  For one connection, which is what Swift       *)
(* opens: that blocks end with the time they really had, one at a time, with *)
(* their deadline published, and that kept time is never rewritten.          *)
EXTENDS WorkBlock, TLAPS

(* The inductive invariant, by the parts of the state it is about.           *)

StoreOK ==
    /\ created \in 0..MaxBlocks
    /\ rows \in [Blocks -> Row]
    /\ results \in [Blocks -> Nat \cup {None}]
    /\ offers \in [Blocks -> Outcomes]
    /\ obs \in [Blocks -> {"none", "open", "closed"}]
    /\ FreshIsEmpty /\ ResultIffTerminal

TasksOK == task \in [Tasks -> Task] /\ TasksNameBlocks

ChannelOK ==
    deadline \in Nat \cup {None} /\ armed \in Nat \cup {None} /\ unseen \in BOOLEAN

EnvOK ==
    /\ clock \in 0..MaxClock /\ up \in BOOLEAN /\ lateNone \in BOOLEAN
    /\ setbacks \in 0..MaxSetbacks /\ crashes \in 0..MaxCrashes

LEMMA Parts == WorkBlockInvariant <=> StoreOK /\ TasksOK /\ ChannelOK /\ EnvOK
  BY DEF WorkBlockInvariant, TypeOK, StoreOK, TasksOK, ChannelOK, EnvOK

LEMMA PartsNext ==
    StoreOK' /\ TasksOK' /\ ChannelOK' /\ EnvOK' => WorkBlockInvariant'
  BY DEF WorkBlockInvariant, TypeOK, StoreOK, TasksOK, ChannelOK, EnvOK

LEMMA StoreKept == StoreOK /\ UNCHANGED store => StoreOK'
  BY DEF StoreOK, store, FreshIsEmpty, ResultIffTerminal

LEMMA ChannelKept == ChannelOK /\ UNCHANGED channel => ChannelOK'
  BY DEF ChannelOK, channel

LEMMA EnvKept == EnvOK /\ UNCHANGED env => EnvOK'
  BY DEF EnvOK, env

(* A task value that fits the invariant.                                     *)
WellFormed(t) ==
    /\ t \in Task
    /\ t.pc \in Naming => t.block \in Blocks
    /\ t.pc \in Finishing => t.to \in Terminal

LEMMA TasksAreWellFormed ==
    ASSUME TasksOK, NEW p \in Tasks
    PROVE  WellFormed(task[p])
  BY DEF TasksOK, TasksNameBlocks, WellFormed

LEMMA TaskGoes ==
    ASSUME TasksOK, NEW p \in Tasks, NEW t, WellFormed(t), Goes(p, t)
    PROVE  TasksOK'
  <1>1. task' \in [Tasks -> Task]
    BY DEF TasksOK, Goes, WellFormed
  <1>2. ASSUME NEW q \in Tasks
        PROVE  /\ task'[q].pc \in Naming => task'[q].block \in Blocks
               /\ task'[q].pc \in Finishing => task'[q].to \in Terminal
    <2>1. CASE q = p
      <3>1. task'[q] = t
        BY <2>1 DEF TasksOK, Goes
      <3>2. QED
        BY <3>1 DEF WellFormed
    <2>2. CASE q # p
      <3>1. task'[q] = task[q]
        BY <2>2 DEF TasksOK, Goes
      <3>2. QED
        BY <3>1, TasksAreWellFormed DEF WellFormed
    <2>3. QED
      BY <2>1, <2>2
  <1>3. QED
    BY <1>1, <1>2 DEF TasksOK, TasksNameBlocks

LEMMA IdleIsWellFormed == WellFormed(Idle)
  BY WorkBlockAssumption DEF WellFormed, Idle, Task, Naming, Finishing, Terminal

LEMMA TaskReturns ==
    ASSUME TasksOK, NEW p \in Tasks, Returns(p)
    PROVE  TasksOK'
  BY IdleIsWellFormed, TaskGoes DEF Returns

LEMMA TaskPublishes ==
    ASSUME TasksOK, NEW p \in Tasks, NEW b \in Nat, NEW due \in Nat \cup {None},
           Publishes(p, b, due)
    PROVE  TasksOK'
  <1> DEFINE t == [Idle EXCEPT !.pc = "publish", !.block = b, !.due = due]
  <1>1. WellFormed(t)
    BY DEF WellFormed, Idle, Task, Naming, Finishing, Terminal
  <1>2. QED
    BY <1>1, TaskGoes DEF Publishes

(* GoOn to a call that needs no more than the one before it.                 *)
LEMMA TaskGoesOn ==
    ASSUME TasksOK, NEW p \in Tasks, task[p].pc \in Naming,
           NEW pc \in Naming \ Finishing, GoOn(p, pc)
    PROVE  TasksOK'
  <1> DEFINE t == [task[p] EXCEPT !.pc = pc]
  <1>1. task[p] \in Task /\ task[p].block \in Blocks
    BY TasksAreWellFormed DEF WellFormed
  <1>2. WellFormed(t)
    BY <1>1 DEF WellFormed, Task, Naming, Finishing
  <1>3. Goes(p, t)
    BY DEF GoOn, Goes, TasksOK
  <1>4. QED
    BY <1>2, <1>3, TaskGoes

LEMMA FinishGoesOn ==
    ASSUME TasksOK, NEW p \in Tasks, task[p].pc \in Finishing,
           NEW pc \in Finishing, GoOn(p, pc)
    PROVE  TasksOK'
  <1> DEFINE t == [task[p] EXCEPT !.pc = pc]
  <1>1. task[p] \in Task /\ task[p].block \in Blocks /\ task[p].to \in Terminal
    BY TasksAreWellFormed DEF WellFormed, Naming
  <1>2. WellFormed(t)
    BY <1>1 DEF WellFormed, Task, Naming, Finishing
  <1>3. Goes(p, t)
    BY DEF GoOn, Goes, TasksOK
  <1>4. QED
    BY <1>2, <1>3, TaskGoes

(* Times are natural numbers.                                                *)
LEMMA Arithmetic ==
    ASSUME NEW r \in Row, NEW now \in Nat
    PROVE  /\ effective_now(r, now) \in Nat
           /\ planned_deadline(r) \in Nat
           /\ elapsed_seconds(r, now) \in Nat
           /\ TotalPaused(r, now) \in Nat
           /\ EndedAt(r, now) \in Nat
           /\ Smaller(effective_now(r, now), planned_deadline(r)) \in Nat
  <1>1. /\ r.started \in Nat /\ r.paused \in Nat /\ r.total \in Nat
        /\ r.ended \in Nat /\ r.updated \in Nat
    BY DEF Row
  <1>2. \A a, b \in Nat : positive_seconds(a, b) \in Nat
    BY DEF positive_seconds
  <1>3. effective_now(r, now) \in Nat
    BY <1>1 DEF effective_now, Larger
  <1>4. planned_deadline(r) \in Nat
    BY <1>1, WorkBlockAssumption DEF planned_deadline
  <1>5. elapsed_seconds(r, now) \in Nat
    BY <1>1, <1>2, <1>3 DEF elapsed_seconds
  <1>6. TotalPaused(r, now) \in Nat
    <2>1. positive_seconds(now, r.paused) \in Nat
      BY <1>1, <1>2
    <2>2. QED
      BY <1>1, <2>1 DEF TotalPaused
  <1>7. EndedAt(r, now) \in Nat
    BY <1>1, <1>3 DEF EndedAt
  <1>8. QED
    BY <1>3, <1>4, <1>5, <1>6, <1>7 DEF Smaller

LEMMA TaskFinishes ==
    ASSUME StoreOK, TasksOK, NEW p \in Tasks, NEW b \in Blocks,
           NEW phase \in Terminal, NEW at \in Nat, Finishes(p, b, phase, at)
    PROVE  TasksOK'
  <1> DEFINE t == [Idle EXCEPT !.pc = "finish", !.block = b, !.at = at, !.to = phase,
                               !.total = rows[b].total,
                               !.elapsed = elapsed_seconds(rows[b], at)]
  <1>1. rows[b] \in Row /\ rows[b].total \in Nat
    BY DEF StoreOK, Row
  <1>2. elapsed_seconds(rows[b], at) \in Nat
    BY <1>1, Arithmetic
  <1>3. b \in Nat
    BY WorkBlockAssumption DEF Blocks
  <1>4. WellFormed(t)
    BY <1>1, <1>2, <1>3 DEF WellFormed, Idle, Task, Naming, Finishing, Terminal
  <1>5. QED
    BY <1>4, TaskGoes DEF Finishes

-----------------------------------------------------------------------------
(* Steps that change only what a task is doing.                              *)

LEMMA TaskOnly ==
    ASSUME WorkBlockInvariant, TasksOK', UNCHANGED <<store, channel, env>>
    PROVE  WorkBlockInvariant'
  <1>1. UNCHANGED store /\ UNCHANGED channel /\ UNCHANGED env
    OBVIOUS
  <1>2. QED
    BY <1>1, Parts, PartsNext, StoreKept, ChannelKept, EnvKept

(* The clock and the columns of a row, as natural numbers.                   *)
LEMMA Readings ==
    ASSUME WorkBlockInvariant
    PROVE  /\ clock \in Nat
           /\ latest \subseteq Blocks
           /\ Blocks \subseteq Nat
           /\ Conns \subseteq Tasks /\ Scheduler \in Tasks /\ Main \in Tasks
           /\ \A b \in Blocks : /\ rows[b] \in Row
                                /\ rows[b].started \in Nat /\ rows[b].paused \in Nat
                                /\ rows[b].total \in Nat /\ rows[b].updated \in Nat
                                /\ planned_deadline(rows[b]) \in Nat
  <1>1. clock \in Nat
    BY WorkBlockAssumption DEF WorkBlockInvariant, TypeOK
  <1>2. latest \subseteq Blocks
    BY DEF latest
  <1>3. Blocks \subseteq Nat
    BY WorkBlockAssumption DEF Blocks
  <1>4. Conns \subseteq Tasks /\ Scheduler \in Tasks /\ Main \in Tasks
    BY DEF Tasks
  <1>5. ASSUME NEW b \in Blocks PROVE rows[b] \in Row
    BY DEF WorkBlockInvariant, TypeOK
  <1>6. \A r \in Row : /\ r.started \in Nat /\ r.paused \in Nat
                       /\ r.total \in Nat /\ r.updated \in Nat
    BY DEF Row
  <1>7. ASSUME NEW r \in Row PROVE planned_deadline(r) \in Nat
    BY <1>6, WorkBlockAssumption DEF planned_deadline
  <1>8. QED
    BY <1>1, <1>2, <1>3, <1>4, <1>5, <1>6, <1>7

(* A task that has just read a block's row.                                  *)
LEMMA TaskReads ==
    ASSUME WorkBlockInvariant, NEW p \in Tasks, NEW t, t \in Task,
           t.pc \in Naming \ Finishing, t.block \in Blocks, Goes(p, t)
    PROVE  TasksOK'
  <1>1. WellFormed(t)
    BY DEF WellFormed
  <1>2. QED
    BY <1>1, Parts, TaskGoes

LEMMA StartSteps ==
    ASSUME WorkBlockInvariant, NEW p \in Tasks,
           StartWorkBlock(p) \/ \E src \in Blocks : AcceptRecovery(p, src)
    PROVE  WorkBlockInvariant'
  <1>1. UNCHANGED <<store, channel, env>>
    BY DEF StartWorkBlock, AcceptRecovery
  <1>2. clock \in Nat /\ Blocks \subseteq Nat
    BY Readings
  <1>3. WellFormed([Idle EXCEPT !.pc = "create", !.at = clock])
    BY <1>2 DEF WellFormed, Idle, Task, Naming, Finishing, Terminal
  <1>4. ASSUME NEW src \in Blocks
        PROVE  WellFormed([Idle EXCEPT !.pc = "create", !.block = src, !.at = clock])
    BY <1>2 DEF WellFormed, Idle, Task, Naming, Finishing, Terminal
  <1>5. CASE StartWorkBlock(p)
    BY <1>1, <1>3, <1>5, Parts, TaskGoes, TaskOnly DEF StartWorkBlock
  <1>6. CASE \E src \in Blocks : AcceptRecovery(p, src)
    BY <1>1, <1>4, <1>6, Parts, TaskGoes, TaskOnly DEF AcceptRecovery
  <1>7. QED
    BY <1>5, <1>6

LEMMA PauseReading ==
    ASSUME WorkBlockInvariant, NEW p \in Tasks, NEW b \in Blocks, NEW now \in Nat,
           PauseReads(p, b, now)
    PROVE  TasksOK'
  <1>1. rows[b] \in Row /\ planned_deadline(rows[b]) \in Nat
    BY Readings
  <1>2. CASE Finishes(p, b, "Completed", planned_deadline(rows[b]))
    BY <1>1, <1>2, Parts, TaskFinishes DEF Terminal
  <1>3. CASE Goes(p, [Idle EXCEPT !.pc = "pause_close", !.block = b,
                 !.at = Smaller(effective_now(rows[b], now), planned_deadline(rows[b]))])
    <2> DEFINE at == Smaller(effective_now(rows[b], now), planned_deadline(rows[b]))
               t == [Idle EXCEPT !.pc = "pause_close", !.block = b, !.at = at]
    <2>1. at \in Nat /\ b \in Nat
      BY <1>1, Arithmetic, Readings
    <2> HIDE DEF at
    <2>2. t \in Task /\ t.pc = "pause_close" /\ t.block = b
      BY <2>1 DEF Idle, Task
    <2>3. "pause_close" \in Naming \ Finishing
      BY DEF Naming, Finishing
    <2>4. Goes(p, t)
      BY <1>3 DEF at
    <2> HIDE DEF t
    <2>5. QED
      BY <2>2, <2>3, <2>4, TaskReads
  <1>4. QED
    BY <1>2, <1>3 DEF PauseReads

LEMMA PauseSteps ==
    ASSUME WorkBlockInvariant, NEW p \in Tasks,
           (\E b \in Blocks : PauseWorkBlock(p, b)) \/ Sleep(p) \/ SleepPauses(p)
    PROVE  WorkBlockInvariant'
  <1>1. clock \in Nat
    BY Readings
  <1>2. UNCHANGED <<store, channel, env>>
    BY DEF PauseWorkBlock, Sleep, SleepPauses
  <1>3. CASE \E b \in Blocks : PauseWorkBlock(p, b)
    BY <1>1, <1>2, <1>3, PauseReading, TaskOnly DEF PauseWorkBlock
  <1>4. CASE Sleep(p)
    <2>1. PICK b \in latest : Goes(p, [Idle EXCEPT !.pc = "pause", !.block = b, !.at = clock])
      BY <1>4 DEF Sleep
    <2> DEFINE t == [Idle EXCEPT !.pc = "pause", !.block = b, !.at = clock]
    <2>2. b \in Blocks /\ b \in Nat
      BY Readings
    <2>3. t \in Task /\ t.pc \in Naming \ Finishing /\ t.block = b
      BY <1>1, <2>2 DEF Idle, Task, Naming, Finishing
    <2>4. TasksOK'
      BY <2>1, <2>2, <2>3, TaskReads
    <2>5. QED
      BY <1>2, <2>4, TaskOnly
  <1>5. CASE SleepPauses(p)
    <2>1. WellFormed(task[p]) /\ task[p].pc = "pause"
      BY <1>5, Parts, TasksAreWellFormed DEF SleepPauses, At
    <2>2. task[p].block \in Blocks /\ task[p].at \in Nat
      BY <2>1 DEF WellFormed, Task, Naming
    <2>3. PauseReads(p, task[p].block, task[p].at) \/ Returns(p)
      BY <1>5 DEF SleepPauses
    <2>4. TasksOK'
      BY <2>2, <2>3, PauseReading, TaskReturns, Parts
    <2>5. QED
      BY <1>2, <2>4, TaskOnly
  <1>6. QED
    BY <1>3, <1>4, <1>5

LEMMA ResumeSteps ==
    ASSUME WorkBlockInvariant, NEW p \in Tasks,
           (\E b \in Blocks : ResumeWorkBlock(p, b)) \/ ResumeGets(p)
    PROVE  WorkBlockInvariant'
  <1>1. UNCHANGED <<store, channel, env>>
    BY DEF ResumeWorkBlock, ResumeGets
  <1>2. CASE \E b \in Blocks : ResumeWorkBlock(p, b)
    <2>1. PICK b \in Blocks : ResumeWorkBlock(p, b)
      BY <1>2
    <2> DEFINE at == effective_now(rows[b], clock)
               total == TotalPaused(rows[b], at)
               t == [Idle EXCEPT !.pc = "set_active", !.block = b, !.at = at,
                                 !.total = total]
    <2>2. at \in Nat
      BY Readings, Arithmetic
    <2>3. total \in Nat /\ b \in Nat
      BY <2>2, Readings, Arithmetic
    <2>4. Goes(p, t)
      BY <2>1 DEF ResumeWorkBlock
    <2> HIDE DEF at, total
    <2>5. t \in Task /\ t.pc \in Naming \ Finishing /\ t.block = b
      BY <2>2, <2>3 DEF Idle, Task, Naming, Finishing
    <2>6. TasksOK'
      BY <2>4, <2>5, TaskReads
    <2>7. QED
      BY <1>1, <2>6, TaskOnly
  <1>3. CASE ResumeGets(p)
    <2>1. WellFormed(task[p]) /\ task[p].pc = "get"
      BY <1>3, Parts, TasksAreWellFormed DEF ResumeGets, At
    <2>2. task[p].block \in Blocks
      BY <2>1 DEF WellFormed, Naming
    <2>3. task[p].block \in Nat /\ planned_deadline(rows[task[p].block]) \in Nat
      BY <2>2, Readings
    <2>4. \/ Publishes(p, task[p].block, planned_deadline(rows[task[p].block]))
          \/ Returns(p)
      BY <1>3 DEF ResumeGets
    <2>5. TasksOK'
      BY <2>3, <2>4, Parts, TaskPublishes, TaskReturns
    <2>6. QED
      BY <1>1, <2>5, TaskOnly
  <1>4. QED
    BY <1>2, <1>3

LEMMA FinishSteps ==
    ASSUME WorkBlockInvariant, NEW p \in Tasks,
           \/ \E b \in Blocks : EndWorkBlock(p, b)
           \/ RequestState(p) \/ ClockChanged(p)
    PROVE  WorkBlockInvariant'
  <1>1. UNCHANGED <<store, channel, env>>
    BY DEF EndWorkBlock, RequestState, ClockChanged
  <1>2. PICK b \in Blocks, phase \in Terminal, at \in Nat : Finishes(p, b, phase, at)
    <2>1. CASE \E b \in Blocks : EndWorkBlock(p, b)
      <3>1. PICK b \in Blocks : EndWorkBlock(p, b)
        BY <2>1
      <3>2. planned_deadline(rows[b]) \in Nat /\ EndedAt(rows[b], clock) \in Nat
        BY Readings, Arithmetic
      <3>3. QED
        BY <3>1, <3>2 DEF EndWorkBlock, Terminal
    <2>2. CASE RequestState(p)
      <3>1. PICK b \in latest : Finishes(p, b, "Completed", planned_deadline(rows[b]))
        BY <2>2 DEF RequestState
      <3>2. b \in Blocks /\ planned_deadline(rows[b]) \in Nat
        BY Readings
      <3>3. QED
        BY <3>1, <3>2 DEF Terminal
    <2>3. CASE ClockChanged(p)
      <3>1. PICK b \in latest : Finishes(p, b, "Expired", planned_deadline(rows[b]))
        BY <2>3 DEF ClockChanged
      <3>2. b \in Blocks /\ planned_deadline(rows[b]) \in Nat
        BY Readings
      <3>3. QED
        BY <3>1, <3>2 DEF Terminal
    <2>4. QED
      BY <2>1, <2>2, <2>3
  <1>3. QED
    BY <1>1, <1>2, Parts, TaskFinishes, TaskOnly

LEMMA CheckStep ==
    ASSUME WorkBlockInvariant, NEW p \in Tasks, FinishChecks(p)
    PROVE  WorkBlockInvariant'
  <1>1. UNCHANGED <<store, channel, env>>
    BY DEF FinishChecks
  <1>2. WellFormed(task[p]) /\ task[p].pc \in Finishing
    BY Parts, TasksAreWellFormed DEF FinishChecks, At, Finishing
  <1>3. task[p].block \in Nat
    BY <1>2 DEF WellFormed, Task
  <1>4. Publishes(p, task[p].block, None) \/ GoOn(p, "finish_close")
    BY DEF FinishChecks
  <1>5. "finish_close" \in Finishing
    BY DEF Finishing
  <1>6. TasksOK'
    BY <1>2, <1>3, <1>4, <1>5, Parts, TaskPublishes, FinishGoesOn
  <1>7. QED
    BY <1>1, <1>6, TaskOnly

LEMMA ObserveStep ==
    ASSUME WorkBlockInvariant, NEW p \in Tasks, NEW occurred \in Nat,
           Observe(p, occurred)
    PROVE  WorkBlockInvariant'
  <1>1. UNCHANGED <<store, channel, env>>
    BY DEF Observe
  <1> DEFINE at(b) == Smaller(effective_now(rows[b], occurred), planned_deadline(rows[b]))
             t(b, to) == [Idle EXCEPT !.pc = "close", !.block = b, !.to = to, !.at = at(b)]
  <1>2. PICK b \in latest :
           \/ Finishes(p, b, "Completed", planned_deadline(rows[b]))
           \/ \E to \in {"none", "decided"} : Goes(p, t(b, to))
    BY DEF Observe
  <1>3. b \in Blocks /\ b \in Nat /\ planned_deadline(rows[b]) \in Nat /\ at(b) \in Nat
    BY Readings, Arithmetic
  <1>4. CASE Finishes(p, b, "Completed", planned_deadline(rows[b]))
    BY <1>1, <1>3, <1>4, Parts, TaskFinishes, TaskOnly DEF Terminal
  <1>5. CASE \E to \in {"none", "decided"} : Goes(p, t(b, to))
    <2>1. PICK to \in {"none", "decided"} : Goes(p, t(b, to))
      BY <1>5
    <2> HIDE DEF at
    <2>2. t(b, to) \in Task /\ t(b, to).pc \in Naming \ Finishing /\ t(b, to).block = b
      BY <1>3 DEF Idle, Task, Naming, Finishing
    <2> HIDE DEF t
    <2>3. TasksOK'
      BY <1>3, <2>1, <2>2, TaskReads
    <2>4. QED
      BY <1>1, <2>3, TaskOnly
  <1>6. QED
    BY <1>2, <1>4, <1>5

-----------------------------------------------------------------------------
(* Steps that write the store.                                               *)

LEMMA RestKept ==
    ASSUME WorkBlockInvariant, StoreOK', TasksOK', UNCHANGED <<channel, env>>
    PROVE  WorkBlockInvariant'
  <1>1. UNCHANGED channel /\ UNCHANGED env
    OBVIOUS
  <1>2. QED
    BY <1>1, Parts, PartsNext, ChannelKept, EnvKept

LEMMA ObservationCloses ==
    ASSUME WorkBlockInvariant, NEW b \in Blocks, CloseObservation(b),
           UNCHANGED <<created, rows, results, offers>>
    PROVE  StoreOK'
  <1>1. obs' \in [Blocks -> {"none", "open", "closed"}]
    BY DEF WorkBlockInvariant, TypeOK, CloseObservation
  <1>2. QED
    BY <1>1 DEF WorkBlockInvariant, TypeOK, StoreOK, FreshIsEmpty, ResultIffTerminal

LEMMA ClosingSteps ==
    ASSUME WorkBlockInvariant, NEW p \in Tasks,
           \/ PauseCloses(p) \/ FinishCloses(p) \/ ObserveCloses(p)
           \/ p = Main /\ RecoverCloses
    PROVE  WorkBlockInvariant'
  <1>1. /\ UNCHANGED <<created, rows, results, offers>> /\ UNCHANGED <<channel, env>>
        /\ CloseObservation(task[p].block)
    BY DEF PauseCloses, FinishCloses, ObserveCloses, RecoverCloses
  <1>2. WellFormed(task[p])
    BY Parts, TasksAreWellFormed
  <1>3. task[p].pc \in Naming /\ task[p].block \in Blocks
    BY <1>2 DEF WellFormed, Naming, Finishing, PauseCloses, FinishCloses,
                ObserveCloses, RecoverCloses, At
  <1>4. StoreOK'
    BY <1>1, <1>3, ObservationCloses
  <1>5. CASE FinishCloses(p)
    <2>1. task[p].pc \in Finishing /\ "resolve" \in Finishing /\ GoOn(p, "resolve")
      BY <1>5 DEF FinishCloses, At, Finishing
    <2>2. TasksOK'
      BY <2>1, Parts, FinishGoesOn
    <2>3. QED
      BY <1>1, <1>4, <2>2, RestKept
  <1>6. CASE ~FinishCloses(p)
    <2>1. PICK pc \in Naming \ Finishing : GoOn(p, pc)
      BY <1>6 DEF PauseCloses, ObserveCloses, RecoverCloses, Naming, Finishing
    <2>2. TasksOK'
      BY <1>3, <2>1, Parts, TaskGoesOn
    <2>3. QED
      BY <1>1, <1>4, <2>2, RestKept
  <1>7. QED
    BY <1>5, <1>6

(* A write of the offers that leaves ids not yet given out alone.            *)
LEMMA OffersWritten ==
    ASSUME WorkBlockInvariant, NEW b \in Blocks, NEW o \in Outcomes,
           offers' = [offers EXCEPT ![b] = o] \/ UNCHANGED offers,
           offers[b] # "none" \/ Exists(b) \/ o = "none",
           UNCHANGED <<created, rows, results, obs>>
    PROVE  StoreOK'
  <1>1. offers' \in [Blocks -> Outcomes]
    BY DEF WorkBlockInvariant, TypeOK
  <1>2. ASSUME NEW c \in Blocks, c > created PROVE offers'[c] = "none"
    <2>1. offers[c] = "none" /\ rows[c].phase = "none"
      BY <1>2 DEF WorkBlockInvariant, FreshIsEmpty
    <2>2. QED
      BY <2>1 DEF WorkBlockInvariant, TypeOK, Exists
  <1>3. QED
    BY <1>1, <1>2 DEF WorkBlockInvariant, TypeOK, StoreOK, FreshIsEmpty, ResultIffTerminal

(* resolve_intervention as a write of one outcome.                           *)
LEMMA Resolving ==
    ASSUME WorkBlockInvariant, NEW b \in Blocks, NEW o \in Outcomes,
           resolve_intervention(b, o), UNCHANGED <<created, rows, results, obs>>
    PROVE  StoreOK'
  <1>1. CASE offers[b] = "offered"
    <2>1. offers' = [offers EXCEPT ![b] = o]
      BY <1>1 DEF resolve_intervention
    <2>2. QED
      BY <1>1, <2>1, OffersWritten
  <1>2. CASE offers[b] # "offered"
    <2>1. offers' = [offers EXCEPT ![b] = offers[b]]
      BY <1>2 DEF resolve_intervention
    <2>2. offers' = offers
      BY <2>1 DEF WorkBlockInvariant, TypeOK
    <2>3. "none" \in Outcomes
      BY DEF Outcomes
    <2>4. QED
      BY <2>2, <2>3, OffersWritten
  <1>3. QED
    BY <1>1, <1>2

LEMMA OutcomeSteps ==
    ASSUME WorkBlockInvariant, NEW p \in Tasks,
           (\E b \in Blocks : ReportOutcome(p, b)) \/ FinishResolves(p) \/ GateDecides(p)
    PROVE  WorkBlockInvariant'
  <1>1. UNCHANGED <<created, rows, results, obs>> /\ UNCHANGED <<channel, env>>
    BY DEF ReportOutcome, FinishResolves, GateDecides
  <1>2. {"none", "offered", "held", "returned", "replied", "no_response"} \subseteq Outcomes
    BY DEF Outcomes
  <1>3. CASE \E b \in Blocks : ReportOutcome(p, b)
    <2>1. StoreOK'
      BY <1>1, <1>2, <1>3, Resolving DEF ReportOutcome
    <2>2. TasksOK'
      BY <1>3, Parts DEF ReportOutcome, TasksOK, TasksNameBlocks
    <2>3. QED
      BY <1>1, <2>1, <2>2, RestKept
  <1>4. CASE FinishResolves(p)
    <2>1. /\ task[p].pc \in Finishing /\ "finalize" \in Finishing /\ GoOn(p, "finalize")
          /\ task[p].pc \in Naming
      BY <1>4 DEF FinishResolves, At, Finishing, Naming
    <2>2. task[p].block \in Blocks
      BY <2>1, Parts, TasksAreWellFormed DEF WellFormed
    <2>3. StoreOK'
      BY <1>1, <1>2, <1>4, <2>2, Resolving DEF FinishResolves
    <2>4. TasksOK'
      BY <2>1, Parts, FinishGoesOn
    <2>5. QED
      BY <1>1, <2>3, <2>4, RestKept
  <1>5. CASE GateDecides(p)
    <2>1. task[p].pc \in Naming
      BY <1>5 DEF GateDecides, At, Naming
    <2>2. task[p].block \in Blocks
      BY <2>1, Parts, TasksAreWellFormed DEF WellFormed
    <2>3. StoreOK'
      <3>1. CASE resolve_intervention(task[p].block, "returned")
        BY <1>1, <1>2, <2>2, <3>1, Resolving
      <3>2. CASE MayOffer(task[p].block)
                 /\ \E v \in Verdicts : offers' = [offers EXCEPT ![task[p].block] = v]
        <4>1. Verdicts \subseteq Outcomes
          BY DEF Verdicts, Outcomes
        <4>2. QED
          BY <1>1, <2>2, <3>2, <4>1, OffersWritten DEF MayOffer
      <3>3. CASE UNCHANGED offers
        BY <1>1, <1>2, <2>2, <3>3, OffersWritten
      <3>4. QED
        BY <1>5, <3>1, <3>2, <3>3 DEF GateDecides
    <2>4. TasksOK'
      BY <1>5, Parts, TaskReturns DEF GateDecides
    <2>5. QED
      BY <1>1, <2>3, <2>4, RestKept
  <1>6. QED
    BY <1>3, <1>4, <1>5

(* A write of one row that exists and stays on its side of the end.          *)
LEMMA RowWritten ==
    ASSUME WorkBlockInvariant, NEW b \in Blocks, NEW r \in Row,
           rows' = [rows EXCEPT ![b] = r],
           r.phase = "none" <=> rows[b].phase = "none",
           r.phase \in Terminal <=> rows[b].phase \in Terminal,
           UNCHANGED <<created, results, offers>>,
           obs' \in [Blocks -> {"none", "open", "closed"}]
    PROVE  StoreOK'
  <1>1. rows' \in [Blocks -> Row]
    BY DEF WorkBlockInvariant, TypeOK
  <1>2. ASSUME NEW c \in Blocks
        PROVE  /\ rows'[c].phase = "none" <=> rows[c].phase = "none"
               /\ rows'[c].phase \in Terminal <=> rows[c].phase \in Terminal
    <2>1. CASE c = b
      BY <2>1 DEF WorkBlockInvariant, TypeOK
    <2>2. CASE c # b
      BY <2>2 DEF WorkBlockInvariant, TypeOK
    <2>3. QED
      BY <2>1, <2>2
  <1>3. FreshIsEmpty'
    BY <1>2 DEF WorkBlockInvariant, FreshIsEmpty
  <1>4. ResultIffTerminal'
    BY <1>2 DEF WorkBlockInvariant, ResultIffTerminal
  <1>5. QED
    BY <1>1, <1>3, <1>4 DEF WorkBlockInvariant, TypeOK, StoreOK

LEMMA PhaseSteps ==
    ASSUME WorkBlockInvariant, NEW p \in Tasks, SetPaused(p) \/ SetActive(p)
    PROVE  WorkBlockInvariant'
  <1> DEFINE b == task[p].block
  <1>1. /\ UNCHANGED <<created, results, offers>> /\ UNCHANGED obs
        /\ UNCHANGED <<channel, env>>
    BY DEF SetPaused, SetActive
  <1>2. WellFormed(task[p]) /\ task[p].pc \in Naming
    BY Parts, TasksAreWellFormed DEF SetPaused, SetActive, At, Naming
  <1>3. b \in Blocks /\ b \in Nat /\ task[p].at \in Nat /\ task[p].total \in Nat
    BY <1>2, Readings DEF WellFormed, Task
  <1>4. rows[b] \in Row /\ obs' \in [Blocks -> {"none", "open", "closed"}]
    BY <1>1, <1>3, Readings DEF WorkBlockInvariant, TypeOK
  <1>5. CASE UNCHANGED rows /\ Returns(p)
    <2>1. StoreOK'
      BY <1>1, <1>5, Parts, StoreKept DEF store
    <2>2. QED
      BY <1>1, <1>5, <2>1, Parts, TaskReturns, RestKept
  <1>6. CASE SetPaused(p) /\ rows[b].phase = "Active"
    <2> DEFINE r == [rows[b] EXCEPT !.phase = "Paused", !.paused = task[p].at,
                                    !.updated = task[p].at]
    <2>1. r \in Row /\ r.phase = "Paused"
      BY <1>3, <1>4 DEF Row
    <2>2. rows' = [rows EXCEPT ![b] = r]
      BY <1>6 DEF SetPaused
    <2> HIDE DEF r, b
    <2>3. StoreOK'
      BY <1>1, <1>3, <1>4, <1>6, <2>1, <2>2, RowWritten DEF Terminal
    <2>4. TasksOK'
      BY <1>3, <1>6, Parts, TaskPublishes DEF SetPaused, b
    <2>5. QED
      BY <1>1, <2>3, <2>4, RestKept
  <1>7. CASE SetActive(p) /\ rows[b].phase = "Paused"
    <2> DEFINE r == [rows[b] EXCEPT !.phase = "Active", !.paused = 0,
                                    !.total = task[p].total, !.updated = task[p].at]
               t == [Idle EXCEPT !.pc = "get", !.block = b]
    <2>1. r \in Row /\ r.phase = "Active"
      BY <1>3, <1>4 DEF Row
    <2>2. rows' = [rows EXCEPT ![b] = r] /\ Goes(p, t)
      BY <1>7 DEF SetActive
    <2>3. t \in Task /\ t.pc \in Naming \ Finishing /\ t.block = b
      BY <1>3 DEF Idle, Task, Naming, Finishing
    <2> HIDE DEF r, b, t
    <2>4. StoreOK'
      BY <1>1, <1>3, <1>4, <1>7, <2>1, <2>2, RowWritten DEF Terminal
    <2>5. TasksOK'
      BY <1>3, <2>2, <2>3, TaskReads
    <2>6. QED
      BY <1>1, <2>4, <2>5, RestKept
  <1>8. QED
    BY <1>5, <1>6, <1>7 DEF SetPaused, SetActive

LEMMA AppendStep ==
    ASSUME WorkBlockInvariant, NEW p \in Tasks, AppendObservation(p)
    PROVE  WorkBlockInvariant'
  <1> DEFINE b == task[p].block
  <1>1. UNCHANGED <<created, results, offers>> /\ UNCHANGED <<channel, env>>
    BY DEF AppendObservation
  <1>2. WellFormed(task[p]) /\ task[p].pc \in Naming
    BY Parts, TasksAreWellFormed DEF AppendObservation, At, Naming
  <1>3. b \in Blocks /\ b \in Nat /\ task[p].at \in Nat
    BY <1>2, Readings DEF WellFormed, Task
  <1>4. rows[b] \in Row
    BY <1>3, Readings
  <1>5. CASE UNCHANGED <<obs, rows>> /\ Returns(p)
    <2>1. StoreOK'
      BY <1>1, <1>5, Parts, StoreKept DEF store
    <2>2. QED
      BY <1>1, <1>5, <2>1, Parts, TaskReturns, RestKept
  <1>6. CASE MayAppend(b)
    <2> DEFINE r == [rows[b] EXCEPT !.updated = Larger(@, task[p].at)]
               t == [Idle EXCEPT !.pc = "gate", !.block = b]
    <2>1. Larger(rows[b].updated, task[p].at) \in Nat
      BY <1>3, <1>4 DEF Row, Larger
    <2>2. r \in Row /\ r.phase = rows[b].phase
      BY <1>4, <2>1 DEF Row
    <2>3. rows' = [rows EXCEPT ![b] = r] /\ obs' = [obs EXCEPT ![b] = "open"]
      BY <1>6 DEF AppendObservation
    <2>4. obs' \in [Blocks -> {"none", "open", "closed"}]
      BY <1>3, <2>3 DEF WorkBlockInvariant, TypeOK
    <2>5. Returns(p) \/ Goes(p, t)
      BY <1>6 DEF AppendObservation
    <2>6. t \in Task /\ t.pc \in Naming \ Finishing /\ t.block = b
      BY <1>3 DEF Idle, Task, Naming, Finishing
    <2> HIDE DEF r, b, t
    <2>7. StoreOK'
      BY <1>1, <1>3, <2>2, <2>3, <2>4, RowWritten
    <2>8. TasksOK'
      BY <1>3, <2>5, <2>6, Parts, TaskReads, TaskReturns
    <2>9. QED
      BY <1>1, <2>7, <2>8, RestKept
  <1>7. QED
    BY <1>5, <1>6 DEF AppendObservation

LEMMA MarkStep ==
    ASSUME WorkBlockInvariant, MarkRecovered
    PROVE  WorkBlockInvariant'
  <1> DEFINE b == task[Main].block
             r == [rows[b] EXCEPT !.updated = task[Main].at]
             due == IF rows[b].phase = "Active" THEN planned_deadline(rows[b]) ELSE None
  <1>1. /\ UNCHANGED <<created, results, offers>> /\ UNCHANGED obs
        /\ UNCHANGED <<channel, env>>
    BY DEF MarkRecovered
  <1>2. Main \in Tasks
    BY Readings
  <1>3. WellFormed(task[Main]) /\ task[Main].pc \in Naming
    BY <1>2, Parts, TasksAreWellFormed DEF MarkRecovered, At, Naming
  <1>4. b \in Blocks /\ b \in Nat /\ task[Main].at \in Nat
    BY <1>3, Readings DEF WellFormed, Task
  <1>5. rows[b] \in Row /\ due \in Nat \cup {None}
    BY <1>4, Readings
  <1>6. r \in Row /\ r.phase = rows[b].phase
    BY <1>4, <1>5 DEF Row
  <1>7. rows' = [rows EXCEPT ![b] = r] /\ Publishes(Main, b, due)
    BY DEF MarkRecovered
  <1>8. obs' \in [Blocks -> {"none", "open", "closed"}]
    BY <1>1 DEF WorkBlockInvariant, TypeOK
  <1> HIDE DEF r, b, due
  <1>9. StoreOK'
    BY <1>1, <1>4, <1>6, <1>7, <1>8, RowWritten
  <1>10. TasksOK'
    BY <1>2, <1>4, <1>5, <1>7, Parts, TaskPublishes
  <1>11. QED
    BY <1>1, <1>9, <1>10, RestKept

LEMMA CreateStep ==
    ASSUME WorkBlockInvariant, NEW p \in Tasks, Create(p)
    PROVE  WorkBlockInvariant'
  <1> DEFINE n == created + 1
             r == [NoRow EXCEPT !.phase = "Active", !.started = task[p].at,
                                !.updated = task[p].at]
  <1>1. UNCHANGED <<results, offers, obs>> /\ UNCHANGED <<channel, env>>
    BY DEF Create
  <1>2. CASE UNCHANGED <<created, rows>> /\ Returns(p)
    <2>1. StoreOK'
      BY <1>1, <1>2, Parts, StoreKept DEF store
    <2>2. QED
      BY <1>1, <1>2, <2>1, Parts, TaskReturns, RestKept
  <1>3. CASE created' = n /\ rows' = [rows EXCEPT ![n] = r]
             /\ Publishes(p, n, task[p].at + Planned)
    <2>1. created \in Nat /\ n \in Blocks /\ n \in Nat /\ n \in 0..MaxBlocks
      BY WorkBlockAssumption DEF Create, WorkBlockInvariant, TypeOK, Blocks
    <2>2. task[p].at \in Nat /\ task[p].at + Planned \in Nat
      BY Parts, TasksAreWellFormed, WorkBlockAssumption DEF WellFormed, Task
    <2>3. r \in Row /\ r.phase = "Active"
      BY <2>2 DEF NoRow, Row
    <2> HIDE DEF r
    <2>4. rows' \in [Blocks -> Row]
      BY <1>3, <2>3 DEF WorkBlockInvariant, TypeOK
    <2>5. results[n] = None
      BY <2>1 DEF WorkBlockInvariant, FreshIsEmpty
    <2>6. ASSUME NEW c \in Blocks, c > created'
          PROVE  c > created /\ rows'[c] = rows[c]
      <3>1. c \in Nat
        BY Readings
      <3>2. c > created /\ c # n
        BY <1>3, <2>1, <2>6, <3>1
      <3>3. QED
        BY <1>3, <3>2 DEF WorkBlockInvariant, TypeOK
    <2>7. FreshIsEmpty'
      BY <1>1, <2>6 DEF WorkBlockInvariant, FreshIsEmpty
    <2>8. ASSUME NEW c \in Blocks
          PROVE  results'[c] # None <=> rows'[c].phase \in Terminal
      <3>1. CASE c = n
        BY <1>1, <1>3, <2>3, <2>5, <3>1 DEF WorkBlockInvariant, TypeOK, Terminal
      <3>2. CASE c # n
        BY <1>1, <1>3, <3>2 DEF WorkBlockInvariant, TypeOK, ResultIffTerminal
      <3>3. QED
        BY <3>1, <3>2
    <2>9. StoreOK'
      BY <1>1, <1>3, <2>1, <2>4, <2>7, <2>8
      DEF WorkBlockInvariant, TypeOK, StoreOK, ResultIffTerminal
    <2>10. TasksOK'
      BY <1>3, <2>1, <2>2, Parts, TaskPublishes
    <2>11. QED
      BY <1>1, <2>9, <2>10, RestKept
  <1>4. QED
    BY <1>2, <1>3 DEF Create

LEMMA FinalizeStep ==
    ASSUME WorkBlockInvariant, NEW p \in Tasks, Finalize(p)
    PROVE  WorkBlockInvariant'
  <1> DEFINE b == task[p].block
             r == FinalRow(rows[b], task[p].to, task[p].at)
  <1>1. UNCHANGED <<created, offers, obs>> /\ UNCHANGED <<channel, env>>
    BY DEF Finalize
  <1>2. WellFormed(task[p]) /\ task[p].pc \in Finishing
    BY Parts, TasksAreWellFormed DEF Finalize, At, Finishing
  <1>3. /\ b \in Blocks /\ b \in Nat /\ task[p].at \in Nat /\ task[p].elapsed \in Nat
        /\ task[p].to \in Terminal
    BY <1>2, Readings DEF WellFormed, Task, Naming
  <1>4. rows[b] \in Row
    BY <1>3, Readings
  <1>5. Publishes(p, b, None) \/ Returns(p)
    BY DEF Finalize
  <1>6. TasksOK'
    BY <1>3, <1>5, Parts, TaskPublishes, TaskReturns
  <1>7. CASE UNCHANGED <<rows, results>>
    <2>1. StoreOK'
      BY <1>1, <1>7, Parts, StoreKept DEF store
    <2>2. QED
      BY <1>1, <1>6, <2>1, RestKept
  <1>8. CASE Live(b) /\ rows' = [rows EXCEPT ![b] = r]
             /\ results' = [results EXCEPT ![b] = task[p].elapsed]
    <2>1. r \in Row /\ r.phase = task[p].to
      BY <1>3, <1>4 DEF FinalRow, Row
    <2> HIDE DEF r
    <2>2. rows' \in [Blocks -> Row] /\ results' \in [Blocks -> Nat \cup {None}]
      BY <1>3, <1>8, <2>1 DEF WorkBlockInvariant, TypeOK
    <2>3. task[p].elapsed # None
      BY <1>3, WorkBlockAssumption
    <2> HIDE DEF b
    <2>4. ASSUME NEW c \in Blocks, c # b
          PROVE  rows'[c] = rows[c] /\ results'[c] = results[c]
      BY <1>8, <2>4 DEF WorkBlockInvariant, TypeOK
    <2>5. rows'[b] = r /\ results'[b] = task[p].elapsed
      BY <1>3, <1>8 DEF WorkBlockInvariant, TypeOK
    <2>6. ~(b > created)
      BY <1>3, <1>8 DEF WorkBlockInvariant, FreshIsEmpty, Live
    <2>7. FreshIsEmpty'
      BY <1>1, <1>3, <2>4, <2>6 DEF WorkBlockInvariant, FreshIsEmpty
    <2>8. ResultIffTerminal'
      BY <1>3, <2>1, <2>3, <2>4, <2>5 DEF WorkBlockInvariant, ResultIffTerminal
    <2>9. StoreOK'
      BY <1>1, <2>2, <2>7, <2>8 DEF WorkBlockInvariant, TypeOK, StoreOK
    <2>10. QED
      BY <1>1, <1>6, <2>9, RestKept
  <1>9. QED
    BY <1>7, <1>8 DEF Finalize

LEMMA ClearStep ==
    ASSUME WorkBlockInvariant, NEW p \in Tasks, ClearData(p)
    PROVE  WorkBlockInvariant'
  <1>1. created' = created /\ UNCHANGED <<channel, env>> /\ Publishes(p, 0, None)
    BY DEF ClearData
  <1>2. /\ rows' = [b \in Blocks |-> NoRow] /\ results' = [b \in Blocks |-> None]
        /\ offers' = [b \in Blocks |-> "none"] /\ obs' = [b \in Blocks |-> "none"]
    BY DEF ClearData
  <1>3. NoRow \in Row /\ NoRow.phase = "none"
    BY DEF NoRow, Row
  <1>4. /\ rows' \in [Blocks -> Row] /\ results' \in [Blocks -> Nat \cup {None}]
        /\ offers' \in [Blocks -> Outcomes] /\ obs' \in [Blocks -> {"none", "open", "closed"}]
    BY <1>2, <1>3 DEF Outcomes
  <1>5. FreshIsEmpty' /\ ResultIffTerminal'
    BY <1>2, <1>3 DEF FreshIsEmpty, ResultIffTerminal, Terminal
  <1>6. StoreOK'
    BY <1>1, <1>4, <1>5 DEF WorkBlockInvariant, TypeOK, StoreOK
  <1>7. TasksOK'
    BY <1>1, Parts, TaskPublishes
  <1>8. QED
    BY <1>1, <1>6, <1>7, RestKept

-----------------------------------------------------------------------------
(* Steps of the channel, the clock and the process.                          *)

LEMMA PublishStep ==
    ASSUME WorkBlockInvariant, NEW p \in Tasks, publish_deadline(p)
    PROVE  WorkBlockInvariant'
  <1>1. task[p].due \in Nat \cup {None}
    BY Parts, TasksAreWellFormed DEF WellFormed, Task
  <1>2. UNCHANGED store
    BY DEF publish_deadline
  <1>3. lateNone' \in BOOLEAN
    <2> DEFINE late == /\ task[p].due = None
                       /\ \E b \in latest : b # task[p].block /\ rows[b].phase = "Active"
    <2>1. lateNone' = (lateNone \/ late) /\ lateNone \in BOOLEAN
      BY Zenon DEF publish_deadline, WorkBlockInvariant, TypeOK
    <2>2. QED
      BY <2>1, Zenon
  <1>4. ChannelOK'
    BY <1>1 DEF publish_deadline, WorkBlockInvariant, TypeOK, ChannelOK
  <1>5. EnvOK'
    BY <1>3 DEF publish_deadline, WorkBlockInvariant, TypeOK, EnvOK
  <1>6. TasksOK'
    BY Parts, TaskReturns DEF publish_deadline
  <1>7. QED
    BY <1>2, <1>4, <1>5, <1>6, Parts, PartsNext, StoreKept

LEMMA TasksKept == TasksOK /\ UNCHANGED task => TasksOK'
  BY DEF TasksOK, TasksNameBlocks

LEMMA SchedulerStep ==
    ASSUME WorkBlockInvariant, SchedulerLooks \/ SchedulerFires
    PROVE  WorkBlockInvariant'
  <1>1. CASE SchedulerLooks
    <2>1. UNCHANGED store /\ UNCHANGED task /\ UNCHANGED env
      BY <1>1 DEF SchedulerLooks
    <2>2. ChannelOK'
      BY <1>1 DEF SchedulerLooks, WorkBlockInvariant, TypeOK, ChannelOK
    <2>3. QED
      BY <2>1, <2>2, Parts, PartsNext, StoreKept, TasksKept, EnvKept
  <1>2. CASE SchedulerFires
    BY <1>2, Readings, FinishSteps DEF SchedulerFires
  <1>3. QED
    BY <1>1, <1>2

LEMMA ClockStep ==
    ASSUME WorkBlockInvariant, Tick \/ SetBack
    PROVE  WorkBlockInvariant'
  <1>1. UNCHANGED store /\ UNCHANGED task /\ UNCHANGED channel
    BY DEF Tick, SetBack
  <1>2. EnvOK'
    BY WorkBlockAssumption DEF Tick, SetBack, WorkBlockInvariant, TypeOK, EnvOK
  <1>3. QED
    BY <1>1, <1>2, Parts, PartsNext, StoreKept, TasksKept, ChannelKept

LEMMA CrashStep ==
    ASSUME WorkBlockInvariant, Crash
    PROVE  WorkBlockInvariant'
  <1>1. UNCHANGED store
    BY DEF Crash
  <1>2. ChannelOK'
    BY DEF Crash, ChannelOK
  <1>3. EnvOK'
    <2>1. up' \in BOOLEAN /\ lateNone' \in BOOLEAN
      BY Zenon DEF Crash
    <2>2. QED
      BY <2>1, WorkBlockAssumption DEF Crash, WorkBlockInvariant, TypeOK, EnvOK
  <1> DEFINE t == [Idle EXCEPT !.pc = "recover"]
  <1>4. WellFormed(t)
    BY DEF WellFormed, Idle, Task, Naming, Finishing, Terminal
  <1> HIDE DEF t
  <1>5. task' = [p \in Tasks |-> IF p = Main THEN t ELSE Idle]
    BY DEF Crash, t
  <1>6. \A p \in Tasks : WellFormed(task'[p])
    BY <1>4, <1>5, IdleIsWellFormed
  <1>7. TasksOK'
    BY <1>5, <1>6 DEF TasksOK, TasksNameBlocks, WellFormed
  <1>8. QED
    BY <1>1, <1>2, <1>3, <1>7, Parts, PartsNext, StoreKept

LEMMA RecoverStep ==
    ASSUME WorkBlockInvariant, Recover
    PROVE  WorkBlockInvariant'
  <1>1. UNCHANGED store /\ UNCHANGED channel
    BY DEF Recover
  <1>2. EnvOK'
    BY DEF Recover, WorkBlockInvariant, TypeOK, EnvOK
  <1>3. Main \in Tasks /\ clock \in Nat
    BY Readings
  <1> DEFINE t(b) == [Idle EXCEPT
                        !.pc = IF rows[b].phase = "Active" THEN "recover_close" ELSE "mark",
                        !.block = b, !.at = clock]
  <1>4. TasksOK'
    <2>1. CASE Returns(Main)
      BY <1>3, <2>1, Parts, TaskReturns
    <2>2. ASSUME NEW b \in latest, Finishes(Main, b, "Expired", planned_deadline(rows[b]))
          PROVE  TasksOK'
      <3>1. b \in Blocks /\ planned_deadline(rows[b]) \in Nat
        BY Readings
      <3>2. QED
        BY <1>3, <2>2, <3>1, Parts, TaskFinishes DEF Terminal
    <2>3. ASSUME NEW b \in latest, Goes(Main, t(b)) PROVE TasksOK'
      <3>1. b \in Blocks /\ b \in Nat
        BY Readings
      <3>2. t(b) \in Task /\ t(b).pc \in Naming \ Finishing /\ t(b).block = b
        BY <1>3, <3>1 DEF Idle, Task, Naming, Finishing
      <3> HIDE DEF t
      <3>3. QED
        BY <1>3, <2>3, <3>1, <3>2, TaskReads
    <2>4. \/ Returns(Main)
          \/ \E b \in latest : \/ Finishes(Main, b, "Expired", planned_deadline(rows[b]))
                               \/ Goes(Main, t(b))
      BY DEF Recover
    <2>5. QED
      BY <2>1, <2>2, <2>3, <2>4
  <1>5. QED
    BY <1>1, <1>2, <1>4, Parts, PartsNext, StoreKept, ChannelKept

-----------------------------------------------------------------------------

LEMMA InvariantStep == WorkBlockInvariant /\ [Next]_vars => WorkBlockInvariant'
  <1> SUFFICES ASSUME WorkBlockInvariant, [Next]_vars PROVE WorkBlockInvariant'
    OBVIOUS
  <1>1. CASE UNCHANGED vars
    <2>1. UNCHANGED store /\ UNCHANGED task /\ UNCHANGED channel /\ UNCHANGED env
      BY <1>1 DEF vars, store, channel, env
    <2>2. QED
      BY <2>1, Parts, PartsNext, StoreKept, TasksKept, ChannelKept, EnvKept
  <1>2. ASSUME NEW p \in Conns, Command(p) PROVE WorkBlockInvariant'
    <2>1. p \in Tasks
      BY Readings
    <2>2. ASSUME NEW b \in 0..MaxClock, Observe(p, b) PROVE WorkBlockInvariant'
      BY <2>1, <2>2, ObserveStep
    <2>3. QED
      BY <1>2, <2>1, <2>2, StartSteps, PauseSteps, ResumeSteps, FinishSteps, ClearStep,
         OutcomeSteps DEF Command
  <1>3. ASSUME NEW p \in Tasks, Step(p) PROVE WorkBlockInvariant'
    BY <1>3, PublishStep, CreateStep, PauseSteps, ClosingSteps, PhaseSteps, ResumeSteps,
       CheckStep, OutcomeSteps, FinalizeStep, AppendStep DEF Step
  <1>4. CASE RecoverCloses
    BY <1>4, Readings, ClosingSteps
  <1>5. QED
    BY <1>1, <1>2, <1>3, <1>4, SchedulerStep, ClockStep, CrashStep, RecoverStep, MarkStep
    DEF Next

LEMMA InvariantStarts == Init => WorkBlockInvariant
  <1> SUFFICES ASSUME Init PROVE WorkBlockInvariant
    OBVIOUS
  <1>1. NoRow \in Row /\ NoRow.phase = "none"
    BY DEF NoRow, Row
  <1>2. StoreOK
    BY <1>1, WorkBlockAssumption
    DEF Init, StoreOK, FreshIsEmpty, ResultIffTerminal, Outcomes, Terminal
  <1>3. TasksOK
    BY IdleIsWellFormed DEF Init, TasksOK, TasksNameBlocks, WellFormed
  <1>4. ChannelOK
    BY DEF Init, ChannelOK
  <1>5. up \in BOOLEAN /\ lateNone \in BOOLEAN
    BY Zenon DEF Init
  <1>6. EnvOK
    BY <1>5, WorkBlockAssumption DEF Init, EnvOK
  <1>7. QED
    BY <1>2, <1>3, <1>4, <1>6, Parts

LEMMA InvariantHolds == Spec => []WorkBlockInvariant
  BY InvariantStarts, InvariantStep, PTL DEF Spec

(* Every variable keeps its type, for any set of connections and any bounds: *)
(* no task of the manager or the scheduler computes a time, a phase or an    *)
(* outcome outside the columns' domains.                                     *)
THEOREM WorkBlockTypeCorrect == Spec => []TypeOK
  <1>1. WorkBlockInvariant => TypeOK
    BY DEF WorkBlockInvariant
  <1>2. QED
    BY <1>1, InvariantHolds, PTL

(* However the commands of any number of connections, the deadline and a     *)
(* restart interleave between repository calls, a block has a result exactly *)
(* when its phase is terminal: finalize writes both or neither.              *)
THEOREM ResultsMatchPhases == Spec => []ResultIffTerminal
  <1>1. WorkBlockInvariant => ResultIffTerminal
    BY DEF WorkBlockInvariant
  <1>2. QED
    BY <1>1, InvariantHolds, PTL

-----------------------------------------------------------------------------
(* What is written once.  Both proofs look only at the steps that write.     *)

LEMMA RowWriters ==
    ASSUME Next
    PROVE  \/ UNCHANGED <<rows, results>>
           \/ MarkRecovered
           \/ \E p \in Conns : ClearData(p)
           \/ \E p \in Tasks : \/ Create(p) \/ SetPaused(p) \/ SetActive(p)
                               \/ AppendObservation(p) \/ Finalize(p)
  <1>1. ASSUME NEW p \in Conns, Command(p), ~ClearData(p)
        PROVE  UNCHANGED <<rows, results>>
    BY <1>1 DEF Command, StartWorkBlock, Sleep, ClockChanged, RequestState, AcceptRecovery,
                PauseWorkBlock, ResumeWorkBlock, EndWorkBlock, ReportOutcome, Observe, store
  <1>2. ASSUME NEW p \in Tasks, Step(p),
               ~(\/ Create(p) \/ SetPaused(p) \/ SetActive(p)
                 \/ AppendObservation(p) \/ Finalize(p))
        PROVE  UNCHANGED <<rows, results>>
    BY <1>2 DEF Step, publish_deadline, SleepPauses, PauseCloses, ResumeGets, FinishChecks,
                FinishCloses, FinishResolves, ObserveCloses, GateDecides, store
  <1>3. CASE SchedulerLooks \/ SchedulerFires \/ Tick \/ SetBack \/ Crash
             \/ Recover \/ RecoverCloses
    BY <1>3 DEF SchedulerLooks, SchedulerFires, RequestState, Tick, SetBack, Crash,
                Recover, RecoverCloses, store
  <1>4. QED
    BY <1>1, <1>2, <1>3 DEF Next

LEMMA OfferWriters ==
    ASSUME Next
    PROVE  \/ UNCHANGED offers
           \/ \E p \in Conns : ClearData(p) \/ \E b \in Blocks : ReportOutcome(p, b)
           \/ \E p \in Tasks : FinishResolves(p) \/ GateDecides(p)
  <1>1. ASSUME NEW p \in Conns, Command(p), ~ClearData(p),
               ~ \E b \in Blocks : ReportOutcome(p, b)
        PROVE  UNCHANGED offers
    BY <1>1 DEF Command, StartWorkBlock, Sleep, ClockChanged, RequestState, AcceptRecovery,
                PauseWorkBlock, ResumeWorkBlock, EndWorkBlock, Observe, store
  <1>2. ASSUME NEW p \in Tasks, Step(p), ~(FinishResolves(p) \/ GateDecides(p))
        PROVE  UNCHANGED offers
    BY <1>2 DEF Step, publish_deadline, Create, SleepPauses, PauseCloses, SetPaused,
                SetActive, ResumeGets, FinishChecks, FinishCloses, Finalize, ObserveCloses,
                AppendObservation, store
  <1>3. CASE SchedulerLooks \/ SchedulerFires \/ Tick \/ SetBack \/ Crash
             \/ Recover \/ RecoverCloses \/ MarkRecovered
    BY <1>3 DEF SchedulerLooks, SchedulerFires, RequestState, Tick, SetBack, Crash,
                Recover, RecoverCloses, MarkRecovered, store
  <1>4. QED
    BY <1>1, <1>2, <1>3 DEF Next

(* The step part of ResultsAreFinal, for one block.                          *)
Finished(b) ==
    results[b] # None /\ rows'[b].phase # "none" =>
        /\ results'[b] = results[b]
        /\ rows'[b].phase = rows[b].phase /\ rows'[b].ended = rows[b].ended

LEMMA FinishedStays ==
    ASSUME WorkBlockInvariant, [Next]_vars, NEW b \in Blocks
    PROVE  Finished(b)
  <1>1. results[b] # None => rows[b].phase \in Terminal
    BY DEF WorkBlockInvariant, ResultIffTerminal
  <1>2. rows[b] \in Row /\ rows \in [Blocks -> Row]
    BY DEF WorkBlockInvariant, TypeOK
  <1>3. CASE UNCHANGED <<rows, results>>
    BY <1>3 DEF Finished
  <1>4. CASE MarkRecovered
    <2>1. results' = results
      BY <1>4 DEF MarkRecovered
    <2>2. rows'[b].phase = rows[b].phase /\ rows'[b].ended = rows[b].ended
      BY <1>2, <1>4 DEF MarkRecovered, Row
    <2>3. QED
      BY <2>1, <2>2 DEF Finished
  <1>5. ASSUME NEW p \in Conns, ClearData(p) PROVE Finished(b)
    BY <1>5 DEF ClearData, Finished, NoRow
  <1>6. ASSUME NEW p \in Tasks, Create(p) PROVE Finished(b)
    <2>1. results' = results
      BY <1>6 DEF Create
    <2>2. CASE b = created + 1
      <3>1. results[b] = None
        BY <2>2, WorkBlockAssumption DEF WorkBlockInvariant, FreshIsEmpty, TypeOK
      <3>2. QED
        BY <3>1 DEF Finished
    <2>3. CASE b # created + 1
      <3>1. rows'[b] = rows[b]
        BY <1>2, <1>6, <2>3 DEF Create
      <3>2. QED
        BY <2>1, <3>1 DEF Finished
    <2>4. QED
      BY <2>2, <2>3
  <1>7. ASSUME NEW p \in Tasks, SetPaused(p) \/ SetActive(p) PROVE Finished(b)
    <2>1. results' = results
      BY <1>7 DEF SetPaused, SetActive
    <2>2. CASE results[b] = None
      BY <2>2 DEF Finished
    <2>3. CASE results[b] # None
      <3>1. rows[b].phase \notin {"Active", "Paused"}
        BY <1>1, <2>3 DEF Terminal
      <3>2. rows'[b] = rows[b]
        BY <1>2, <1>7, <3>1 DEF SetPaused, SetActive
      <3>3. QED
        BY <2>1, <3>2 DEF Finished
    <2>4. QED
      BY <2>2, <2>3
  <1>8. ASSUME NEW p \in Tasks, AppendObservation(p) PROVE Finished(b)
    <2>1. results' = results
      BY <1>8 DEF AppendObservation
    <2>2. rows'[b].phase = rows[b].phase /\ rows'[b].ended = rows[b].ended
      BY <1>2, <1>8 DEF AppendObservation, Row
    <2>3. QED
      BY <2>1, <2>2 DEF Finished
  <1>9. ASSUME NEW p \in Tasks, Finalize(p) PROVE Finished(b)
    <2>1. CASE UNCHANGED <<rows, results>>
      BY <1>3, <2>1
    <2>2. CASE b # task[p].block
      BY <1>2, <1>9, <2>2 DEF Finalize, Finished, WorkBlockInvariant, TypeOK
    <2>3. CASE b = task[p].block /\ ~UNCHANGED <<rows, results>>
      BY <1>9, <2>3 DEF Finalize, Finished
    <2>4. QED
      BY <2>1, <2>2, <2>3
  <1>10. CASE UNCHANGED vars
    BY <1>3, <1>10 DEF vars
  <1>11. QED
    BY <1>3, <1>4, <1>5, <1>6, <1>7, <1>8, <1>9, <1>10, RowWriters

(* The end of a block is written once.  The user's end, the deadline, a late *)
(* observation, a lifecycle event and recovery may all be finishing the same *)
(* block, from rows they read at different times; only the first result,     *)
(* phase and end time are kept, and no pause or resume under way reopens it. *)
THEOREM ResultsStayFinal == Spec => ResultsAreFinal
  <1>1. ASSUME WorkBlockInvariant, [Next]_vars
        PROVE  [\A b \in Blocks : results[b] # None /\ rows'[b].phase # "none" =>
                   /\ results'[b] = results[b]
                   /\ rows'[b].phase = rows[b].phase /\ rows'[b].ended = rows[b].ended]_vars
    BY <1>1, FinishedStays DEF Finished
  <1>2. QED
    BY <1>1, InvariantHolds, PTL DEF Spec, ResultsAreFinal

(* An offer gets one outcome.  A reply, a return to the task and the silence *)
(* that finish records race for it; the first one that is written stays for  *)
(* as long as the block exists.                                              *)
THEOREM OutcomesStayFinal == Spec => OutcomesAreFinal
  <1>1. ASSUME WorkBlockInvariant, [Next]_vars, NEW b \in Blocks,
               offers[b] \notin {"none", "offered"}, rows'[b].phase # "none"
        PROVE  offers'[b] = offers[b]
    <2>1. offers \in [Blocks -> Outcomes]
      BY <1>1 DEF WorkBlockInvariant, TypeOK
    <2>2. ASSUME NEW c, NEW o, resolve_intervention(c, o) PROVE offers'[b] = offers[b]
      BY <1>1, <2>1, <2>2 DEF resolve_intervention
    <2>3. ASSUME NEW p \in Conns, ClearData(p) PROVE offers'[b] = offers[b]
      BY <1>1, <2>3 DEF ClearData, NoRow
    <2>4. ASSUME NEW p \in Tasks, GateDecides(p) PROVE offers'[b] = offers[b]
      BY <1>1, <2>1, <2>2, <2>4 DEF GateDecides, MayOffer
    <2>5. CASE UNCHANGED vars
      BY <2>5 DEF vars
    <2>6. QED
      BY <1>1, <2>2, <2>3, <2>4, <2>5, OfferWriters DEF ReportOutcome, FinishResolves
  <1>2. ASSUME WorkBlockInvariant, [Next]_vars
        PROVE  [\A b \in Blocks : offers[b] \notin {"none", "offered"}
                                  /\ rows'[b].phase # "none" => offers'[b] = offers[b]]_vars
    BY <1>1, <1>2
  <1>3. QED
    BY <1>2, InvariantHolds, PTL DEF Spec, OutcomesAreFinal

(* The first end of a block and the first answer to its offer stay.          *)
THEOREM EndingsStayFinal == Spec => EndingsAreFinal
  BY ResultsStayFinal, OutcomesStayFinal, PTL DEF EndingsAreFinal

-----------------------------------------------------------------------------
(* One connection.  Swift opens one; while it sends commands one at a time,  *)
(* the only other task that finishes blocks is the scheduler, and what a     *)
(* task has read of a row still holds where it matters when it writes.       *)

OneConnection == \A c, d \in Conns : c = d

\* Roles, task by task.
Role(p, pc) ==
    /\ p = Scheduler => pc \in {"idle", "publish"} \cup Finishing
    /\ p = Main => pc \in {"idle", "recover", "recover_close", "mark", "publish"} \cup Finishing
    /\ p \in Conns => pc \notin {"recover", "recover_close", "mark"}

LEMMA RolesOfTasks ==
    /\ Roles => \A p \in Tasks : Role(p, task[p].pc)
    /\ (\A p \in Tasks : Role(p, task'[p].pc)) => Roles'
  BY WorkBlockAssumption DEF Roles, Role, Tasks

(* What the clock arithmetic says of a row within its plan.                  *)
LEMMA PlanArithmetic ==
    ASSUME NEW r \in Row, NEW now \in Nat
    PROVE  /\ effective_now(r, now) \in Nat /\ planned_deadline(r) \in Nat
           /\ r.phase = "Active" /\ ~Overdue(r, now) =>
                 effective_now(r, now) <= planned_deadline(r)
           /\ r.phase = "Active" /\ r.updated <= planned_deadline(r) =>
                 /\ elapsed_seconds(r, planned_deadline(r)) = Planned
                 /\ Planned = positive_seconds(
                                 positive_seconds(planned_deadline(r), r.started), r.total)
           /\ r.phase = "Active" /\ r.updated <= planned_deadline(r) =>
                 LET at == Smaller(effective_now(r, now), planned_deadline(r)) IN
                 at \in Nat /\ r.updated <= at /\ at <= planned_deadline(r)
  <1>1. /\ r.started \in Nat /\ r.total \in Nat /\ r.updated \in Nat
        /\ Planned \in Nat \ {0}
    BY WorkBlockAssumption DEF Row
  <1>2. r.phase = "Active" =>
           \A t \in Nat : elapsed_seconds(r, t) =
               positive_seconds(positive_seconds(effective_now(r, t), r.started), r.total)
    BY DEF elapsed_seconds, Terminal
  <1>3. effective_now(r, now) \in Nat /\ planned_deadline(r) \in Nat
    BY <1>1 DEF effective_now, planned_deadline, Larger
  <1>4. r.phase = "Active" /\ ~Overdue(r, now) =>
           effective_now(r, now) <= planned_deadline(r)
    <2> SUFFICES ASSUME r.phase = "Active", ~Overdue(r, now)
                 PROVE  effective_now(r, now) <= planned_deadline(r)
      OBVIOUS
    <2>1. ~(positive_seconds(positive_seconds(effective_now(r, now), r.started), r.total)
               >= Planned)
      BY <1>2 DEF Overdue
    <2> QED
      BY <1>1, <1>3, <2>1 DEF positive_seconds, planned_deadline
  <1>5. ASSUME r.updated <= planned_deadline(r)
        PROVE  effective_now(r, planned_deadline(r)) = planned_deadline(r)
    BY <1>1, <1>3, <1>5 DEF effective_now, Larger
  <1>6. Planned = positive_seconds(positive_seconds(planned_deadline(r), r.started), r.total)
    BY <1>1 DEF positive_seconds, planned_deadline
  <1>7. ASSUME r.updated <= planned_deadline(r)
        PROVE  LET at == Smaller(effective_now(r, now), planned_deadline(r)) IN
               at \in Nat /\ r.updated <= at /\ at <= planned_deadline(r)
    BY <1>1, <1>3, <1>7 DEF effective_now, Larger, Smaller
  <1> QED
    BY <1>2, <1>3, <1>4, <1>5, <1>6, <1>7

LEMMA EndArithmetic ==
    ASSUME NEW r \in Row, NEW now \in Nat, r.phase \in {"Active", "Paused"},
           ~Overdue(r, now), r.phase = "Paused" => r.paused <= planned_deadline(r)
    PROVE  LET at == EndedAt(r, now) IN
           /\ at \in Nat
           /\ elapsed_seconds(r, at) =
                  positive_seconds(positive_seconds(at, r.started), r.total)
           /\ elapsed_seconds(r, at) <= Planned
  <1>1. /\ r.started \in Nat /\ r.total \in Nat /\ r.updated \in Nat /\ r.paused \in Nat
        /\ Planned \in Nat
    BY WorkBlockAssumption DEF Row
  <1> DEFINE within(t) == positive_seconds(positive_seconds(t, r.started), r.total)
  <1>2. ASSUME NEW t \in Nat, t <= planned_deadline(r) PROVE within(t) <= Planned
    BY <1>1, <1>2 DEF positive_seconds, planned_deadline
  <1>3. CASE r.phase = "Paused"
    <2>1. EndedAt(r, now) = r.paused
      BY <1>3 DEF EndedAt
    <2>2. elapsed_seconds(r, r.paused) = within(r.paused)
      BY <1>3 DEF elapsed_seconds
    <2> HIDE DEF within
    <2> QED
      BY <1>1, <1>2, <1>3, <2>1, <2>2 DEF within
  <1>4. CASE r.phase = "Active"
    <2> DEFINE at == effective_now(r, now)
    <2>1. EndedAt(r, now) = at /\ at \in Nat /\ at <= planned_deadline(r)
      BY <1>4, PlanArithmetic DEF EndedAt
    <2>2. effective_now(r, at) = at
      BY <1>1 DEF effective_now, Larger
    <2> HIDE DEF at
    <2>3. elapsed_seconds(r, at) = within(at)
      BY <1>4, <2>2 DEF elapsed_seconds, Terminal
    <2> HIDE DEF within
    <2> QED
      BY <1>2, <2>1, <2>3 DEF within
  <1> QED
    BY <1>3, <1>4

LEMMA ResumeArithmetic ==
    ASSUME NEW r \in Row, NEW now \in Nat, r.paused <= planned_deadline(r)
    PROVE  LET at == effective_now(r, now) IN
           /\ r.updated <= at
           /\ at <= r.started + Planned + TotalPaused(r, at)
  BY WorkBlockAssumption
  DEF Row, effective_now, Larger, TotalPaused, positive_seconds, planned_deadline

-----------------------------------------------------------------------------
(* One task moves.                                                           *)

Moves(p) == \A q \in Tasks \ {p} : task'[q] = task[q]

LEMMA Moving ==
    ASSUME WorkBlockInvariant, NEW p \in Tasks
    PROVE  /\ \A t : Goes(p, t) => Moves(p) /\ task'[p] = t
           /\ Returns(p) => Moves(p) /\ task'[p] = Idle
           /\ \A b, due : Publishes(p, b, due) =>
                 /\ Moves(p)
                 /\ task'[p] = [Idle EXCEPT !.pc = "publish", !.block = b, !.due = due]
           /\ \A pc : GoOn(p, pc) => Moves(p) /\ task'[p] = [task[p] EXCEPT !.pc = pc]
           /\ UNCHANGED task => Moves(p)
  <1>1. task \in [Tasks -> Task]
    BY DEF WorkBlockInvariant, TypeOK
  <1> QED
    BY <1>1 DEF Goes, Returns, Publishes, GoOn, Moves

\* A task that is doing something is Main exactly during recovery.
LEMMA Movers ==
    ASSUME OneConnectionInvariant, NEW p \in Tasks, task[p].pc # "idle"
    PROVE  up <=> p # Main
  BY DEF OneConnectionInvariant, RecoveryRunsAlone, Idle

\* An idle task fits.
LEMMA IdleFits == created' \in Nat => \A p \in Tasks : task'[p] = Idle => Fits(task[p])'
  BY DEF Idle, Fits, PauseFits, ResumeFits, LaterFits, FinishFits, CreateFits, GetFits,
         NoDeadlineFits, DeadlineFits, Finishing

\* What one step of the store may do to rows that exist: it keeps their start,
\* and revives none that is over or gone.
RowsAge ==
    /\ created <= created'
    /\ \A b \in Blocks : b <= created =>
          /\ rows'[b].phase # "none" =>
                rows[b].phase # "none" /\ rows'[b].started = rows[b].started
          /\ rows'[b].phase \in {"Active", "Paused"} => rows[b].phase \in {"Active", "Paused"}

\* What the scheduler may do to them: end one.
RowsEnd ==
    /\ created' = created
    /\ \A b \in Blocks :
          \/ rows'[b] = rows[b]
          \/ /\ rows[b].phase \in {"Active", "Paused"} /\ rows'[b].phase \in Terminal
             /\ rows'[b].started = rows[b].started

\* The other tasks' plans survive a step of p.
LEMMA OthersFit ==
    ASSUME OneConnectionInvariant, WorkBlockInvariant', OneConnection,
           NEW p \in Tasks, Moves(p), up <=> p # Main,
           RowsAge, p = Scheduler => RowsEnd,
           NEW q \in Tasks \ {p}
    PROVE  /\ Fits(task[q])'
           /\ q = Scheduler /\ task'[q].pc = "publish" =>
                 task'[q].due = None /\ ~Live(task[q].block)'
  <1>1. task'[q] = task[q] /\ task[q] \in Task /\ task[q].block \in Nat
        /\ created \in Nat /\ created' \in Nat /\ Blocks \subseteq Nat
    BY Readings, WorkBlockAssumption
    DEF Moves, OneConnectionInvariant, WorkBlockInvariant, TypeOK, Task
  <1>2. Fits(task[q]) /\ Role(q, task[q].pc)
    BY RolesOfTasks DEF OneConnectionInvariant
  <1>3. task[q].block <= created'
    BY <1>1, <1>2 DEF RowsAge, Fits
  <1>4. CASE task[q] = Idle
    BY <1>1, <1>4, IdleFits DEF Idle
  <1>5. CASE q = Scheduler
    <2>1. task[q].pc \in {"idle", "publish"} \cup Finishing
      BY <1>2, <1>5 DEF Role
    <2>2. Exists(task[q].block)' =>
             Exists(task[q].block) /\ rows'[task[q].block].started = rows[task[q].block].started
      BY <1>1, <1>2 DEF Exists, RowsAge, Fits
    <2>3. FinishFits(task[q])'
      BY <1>1, <1>2, <2>2 DEF Fits, FinishFits
    <2>4. task[q].pc = "publish" => task[q].due = None /\ ~Live(task[q].block)'
      <3> SUFFICES ASSUME task[q].pc = "publish"
                   PROVE  task[q].due = None /\ ~Live(task[q].block)'
        OBVIOUS
      <3>1. task[q].due = None /\ ~Live(task[q].block)
        BY <1>5 DEF OneConnectionInvariant, SchedulerFits, At
      <3>2. task[q].block <= created
        BY <1>2 DEF Fits
      <3> QED
        BY <1>1, <3>1, <3>2 DEF RowsAge, Live
    <2>5. NoDeadlineFits(task[q])' /\ DeadlineFits(task[q])'
      BY <1>1, <2>4 DEF NoDeadlineFits, DeadlineFits, Live
    <2>6. PauseFits(task[q])' /\ ResumeFits(task[q])' /\ LaterFits(task[q])'
          /\ CreateFits(task[q])' /\ GetFits(task[q])'
      BY <1>1, <2>1 DEF PauseFits, ResumeFits, LaterFits, CreateFits, GetFits, Finishing
    <2> QED
      BY <1>1, <1>3, <2>3, <2>4, <2>5, <2>6 DEF Fits
  <1>6. CASE q # Scheduler /\ task[q] # Idle
    <2>1. p = Scheduler /\ q \in Conns
      BY <1>6 DEF OneConnectionInvariant, RecoveryRunsAlone, OneConnection, Tasks
    <2>2. RowsEnd
      BY <2>1
    <2>3. /\ \A b \in Blocks : rows'[b].phase = "Active" => rows'[b] = rows[b]
          /\ \A b \in Blocks : rows'[b].phase = "Paused" => rows'[b] = rows[b]
          /\ \A b \in Blocks : Live(b)' => Live(b)
          /\ \A b \in Blocks : Exists(b)' => Exists(b) /\ rows'[b].started = rows[b].started
      BY <2>2 DEF RowsEnd, Terminal, Live, Exists
    <2>4. task[q].pc \in Naming => task[q].block \in Blocks
      BY DEF OneConnectionInvariant, WorkBlockInvariant, TasksNameBlocks
    <2>5. PauseFits(task[q])' /\ ResumeFits(task[q])' /\ LaterFits(task[q])'
      BY <1>1, <1>2, <2>3, <2>4 DEF Fits, PauseFits, ResumeFits, LaterFits, Naming, Finishing
    <2>6. FinishFits(task[q])'
      <3>1. Exists(task[q].block)' =>
               Exists(task[q].block) /\ rows'[task[q].block].started = rows[task[q].block].started
        BY <1>1, <2>3 DEF Exists
      <3> QED
        BY <1>1, <1>2, <3>1 DEF Fits, FinishFits
    <2>7. CreateFits(task[q])' /\ GetFits(task[q])'
      BY <1>1, <1>2, <2>3 DEF Fits, CreateFits, GetFits
    <2>8. NoDeadlineFits(task[q])' /\ DeadlineFits(task[q])'
      BY <1>1, <1>2, <2>3 DEF Fits, NoDeadlineFits, DeadlineFits
    <2> QED
      BY <1>1, <1>3, <1>6, <2>5, <2>6, <2>7, <2>8 DEF Fits
  <1> QED
    BY <1>4, <1>5, <1>6

\* What is left to show of a step of p that is neither a crash nor the end of
\* the recovery.
LEMMA OneTaskSteps ==
    ASSUME OneConnectionInvariant, WorkBlockInvariant', OneConnection,
           NEW p \in Tasks, Moves(p), up <=> p # Main, up' = up,
           RowsAge, p = Scheduler => RowsEnd,
           Fits(task[p])', Role(p, task'[p].pc),
           p = Scheduler /\ task'[p].pc = "publish" =>
               task'[p].due = None /\ ~Live(task[p].block)',
           LiveIsLatest', RowsWithinPlan', FullTime', Armed'
    PROVE  OneConnectionInvariant'
  <1>1. \A q \in Tasks : Fits(task[q])'
    BY OthersFit
  <1>2. SchedulerFits'
    <2>1. Scheduler \in Tasks
      BY DEF Tasks
    <2> QED
      BY <2>1, OthersFit DEF SchedulerFits, At
  <1>3. Roles'
    <2>1. \A q \in Tasks : Role(q, task[q].pc)
      BY RolesOfTasks DEF OneConnectionInvariant
    <2>2. \A q \in Tasks : Role(q, task'[q].pc)
      BY <2>1 DEF Moves
    <2> QED
      BY <2>2, RolesOfTasks
  <1>4. RecoveryRunsAlone'
    <2>1. Main \in Tasks
      BY DEF Tasks
    <2> QED
      BY <2>1 DEF OneConnectionInvariant, RecoveryRunsAlone, Moves
  <1> QED
    BY <1>1, <1>2, <1>3, <1>4 DEF OneConnectionInvariant

\* The armed deadline survives a step of a task that was not about to publish.
LEMMA ArmedStays ==
    ASSUME OneConnectionInvariant, NEW p \in Tasks, Moves(p),
           ~At(p, "get"), ~At(p, "publish"),
           UNCHANGED <<deadline, up, lateNone>>,
           \A b \in Blocks : rows'[b].phase = "Active" =>
               \/ /\ rows[b].phase = "Active"
                  /\ planned_deadline(rows'[b]) = planned_deadline(rows[b])
               \/ /\ task'[p].block = b
                  /\ task'[p].pc = "get" \/ (task'[p].pc = "publish" /\ task'[p].due # None)
    PROVE  Armed'
  <1> SUFFICES ASSUME up', ~lateNone', NEW b \in Blocks, rows'[b].phase = "Active"
               PROVE  \/ deadline' = planned_deadline(rows[b])'
                      \/ \E q \in Tasks :
                            /\ task'[q].block = b
                            /\ At(q, "get")' \/ (At(q, "publish")' /\ task'[q].due # None)
    BY DEF Armed
  <1>1. CASE /\ rows[b].phase = "Active"
             /\ planned_deadline(rows'[b]) = planned_deadline(rows[b])
    <2>1. CASE deadline = planned_deadline(rows[b])
      BY <1>1, <2>1 DEF planned_deadline
    <2>2. CASE \E q \in Tasks : /\ task[q].block = b
                                /\ At(q, "get") \/ (At(q, "publish") /\ task[q].due # None)
      <3>1. PICK q \in Tasks : /\ task[q].block = b
                               /\ At(q, "get") \/ (At(q, "publish") /\ task[q].due # None)
        BY <2>2
      <3>2. task'[q] = task[q]
        BY <3>1 DEF Moves
      <3> QED
        BY <3>1, <3>2 DEF At
    <2> QED
      BY <1>1, <2>1, <2>2 DEF OneConnectionInvariant, Armed
  <1>2. CASE /\ task'[p].block = b
             /\ task'[p].pc = "get" \/ (task'[p].pc = "publish" /\ task'[p].due # None)
    BY <1>2 DEF At
  <1> QED
    BY <1>1, <1>2

\* A step that writes no row.
LEMMA RowsStay ==
    ASSUME OneConnectionInvariant, WorkBlockInvariant', OneConnection,
           NEW p \in Tasks, Moves(p), up <=> p # Main,
           UNCHANGED <<created, rows, results, deadline, up, lateNone>>,
           Fits(task[p])', Role(p, task'[p].pc),
           p = Scheduler /\ task'[p].pc = "publish" =>
               task'[p].due = None /\ ~Live(task[p].block)',
           (~At(p, "get") /\ ~At(p, "publish")) \/ Armed'
    PROVE  OneConnectionInvariant'
  <1>1. created \in Nat
    BY WorkBlockAssumption DEF OneConnectionInvariant, WorkBlockInvariant, TypeOK
  <1>2. RowsAge /\ RowsEnd
    BY <1>1 DEF RowsAge, RowsEnd
  <1>3. LiveIsLatest' /\ RowsWithinPlan' /\ FullTime'
    BY DEF OneConnectionInvariant, LiveIsLatest, Live, Exists, RowsWithinPlan, FullTime,
           planned_deadline
  <1>4. Armed'
    BY ArmedStays
  <1> QED
    BY <1>2, <1>3, <1>4, OneTaskSteps

-----------------------------------------------------------------------------
(* Steps that only read.                                                     *)

LEMMA BlockFacts ==
    ASSUME OneConnectionInvariant
    PROVE  /\ created \in Nat /\ clock \in Nat /\ Blocks \subseteq Nat /\ 0 \notin Blocks
           /\ latest \subseteq Blocks /\ Conns \subseteq Tasks
           /\ Scheduler \in Tasks /\ Main \in Tasks
           /\ \A b \in Blocks : rows[b] \in Row /\ (Exists(b) => b <= created)
           /\ \A b \in Blocks : rows[b].phase = "Active" =>
                 rows[b].updated <= planned_deadline(rows[b])
           /\ \A b \in Blocks : rows[b].phase = "Paused" =>
                 rows[b].paused <= planned_deadline(rows[b])
  <1>1. WorkBlockInvariant /\ RowsWithinPlan
    BY DEF OneConnectionInvariant
  <1>2. created \in Nat /\ 0 \notin Blocks
    BY <1>1, WorkBlockAssumption DEF WorkBlockInvariant, TypeOK, Blocks
  <1>3. \A b \in Blocks : Exists(b) => b <= created
    BY <1>1, <1>2, Readings DEF WorkBlockInvariant, FreshIsEmpty, Exists
  <1> QED
    BY <1>1, <1>2, <1>3, Readings DEF RowsWithinPlan

\* The task that will finish a block remembers the time it has read.
LEMMA FinishRemembers ==
    ASSUME OneConnectionInvariant, NEW p \in Tasks, NEW b \in Blocks, Live(b),
           NEW ph \in Terminal, NEW at \in Nat, Finishes(p, b, ph, at),
           UNCHANGED <<created, rows>>,
           elapsed_seconds(rows[b], at) <= Planned,
           ph # "Abandoned" => elapsed_seconds(rows[b], at) = Planned,
           elapsed_seconds(rows[b], at) =
               positive_seconds(positive_seconds(at, rows[b].started), rows[b].total)
    PROVE  Moves(p) /\ Fits(task[p])' /\ task'[p].pc = "finish"
  <1> DEFINE t == [Idle EXCEPT !.pc = "finish", !.block = b, !.at = at, !.to = ph,
                               !.total = rows[b].total,
                               !.elapsed = elapsed_seconds(rows[b], at)]
  <1>1. Moves(p) /\ task'[p] = t
    BY Moving DEF OneConnectionInvariant, Finishes
  <1>2. /\ t.pc = "finish" /\ t.block = b /\ t.at = at /\ t.to = ph
        /\ t.total = rows[b].total /\ t.elapsed = elapsed_seconds(rows[b], at)
    BY DEF Idle
  <1> HIDE DEF t
  <1>3. b <= created
    BY BlockFacts DEF Live, Exists
  <1>4. ph \in {"Completed", "Expired"} => ph # "Abandoned"
    OBVIOUS
  <1>5. FinishFits(task[p])'
    BY <1>1, <1>2, <1>4 DEF FinishFits
  <1>6. Fits(task[p])'
    BY <1>1, <1>2, <1>3, <1>5
    DEF Fits, PauseFits, ResumeFits, LaterFits, CreateFits, GetFits, NoDeadlineFits,
        DeadlineFits
  <1> QED
    BY <1>1, <1>2, <1>6

LEMMA OverdueFinishes ==
    ASSUME OneConnectionInvariant, NEW p \in Tasks, NEW b \in Blocks, NEW now,
           Overdue(rows[b], now), NEW ph \in {"Completed", "Expired"},
           Finishes(p, b, ph, planned_deadline(rows[b])), UNCHANGED <<created, rows>>
    PROVE  Moves(p) /\ Fits(task[p])' /\ task'[p].pc = "finish"
  <1>1. rows[b] \in Row /\ rows[b].phase = "Active" /\ Live(b)
        /\ rows[b].updated <= planned_deadline(rows[b])
    BY BlockFacts DEF Overdue, Live
  <1> DEFINE at == planned_deadline(rows[b])
  <1>2. at \in Nat /\ elapsed_seconds(rows[b], at) = Planned
        /\ Planned = positive_seconds(positive_seconds(at, rows[b].started), rows[b].total)
    BY <1>1, PlanArithmetic, BlockFacts
  <1>3. Planned <= Planned /\ ph \in Terminal
    BY WorkBlockAssumption DEF Terminal
  <1>4. Finishes(p, b, ph, at)
    OBVIOUS
  <1> HIDE DEF at
  <1> QED
    BY <1>1, <1>2, <1>3, <1>4, FinishRemembers

\* pause, from a record it has just read.
LEMMA PauseReadsFits ==
    ASSUME OneConnectionInvariant, NEW p \in Tasks, NEW b \in Blocks, NEW now \in Nat,
           rows[b].phase = "Active", PauseReads(p, b, now), UNCHANGED <<created, rows>>
    PROVE  Moves(p) /\ Fits(task[p])' /\ task'[p].pc \in {"finish", "pause_close"}
  <1>1. CASE Overdue(rows[b], now) /\ Finishes(p, b, "Completed", planned_deadline(rows[b]))
    BY <1>1, OverdueFinishes
  <1>2. CASE Goes(p, [Idle EXCEPT !.pc = "pause_close", !.block = b,
                 !.at = Smaller(effective_now(rows[b], now), planned_deadline(rows[b]))])
    <2> DEFINE at == Smaller(effective_now(rows[b], now), planned_deadline(rows[b]))
               t == [Idle EXCEPT !.pc = "pause_close", !.block = b, !.at = at]
    <2>1. rows[b].updated <= at /\ at <= planned_deadline(rows[b])
      BY PlanArithmetic, BlockFacts
    <2>2. Moves(p) /\ task'[p] = t
      BY <1>2, Moving DEF OneConnectionInvariant
    <2> HIDE DEF at
    <2>3. t.pc = "pause_close" /\ t.block = b /\ t.at = at
      BY DEF Idle
    <2> HIDE DEF t
    <2>4. PauseFits(task[p])'
      BY <2>1, <2>2, <2>3 DEF PauseFits, planned_deadline
    <2>5. b <= created
      BY BlockFacts DEF Exists
    <2>6. Fits(task[p])'
      BY <2>2, <2>3, <2>4, <2>5
      DEF Fits, ResumeFits, LaterFits, FinishFits, CreateFits, GetFits, NoDeadlineFits,
          DeadlineFits, Finishing
    <2> QED
      BY <2>2, <2>3, <2>6
  <1> QED
    BY <1>1, <1>2 DEF PauseReads

\* The commands of the connection that begin by reading.
Reading(p) ==
    \/ StartWorkBlock(p) \/ Sleep(p) \/ ClockChanged(p)
    \/ Begin(p) /\ RequestState(p)
    \/ \E b \in Blocks : \/ AcceptRecovery(p, b) \/ PauseWorkBlock(p, b)
                         \/ ResumeWorkBlock(p, b) \/ EndWorkBlock(p, b)
    \/ \E t \in 0..MaxClock : Observe(p, t)

LEMMA CreatingFits ==
    ASSUME OneConnectionInvariant, NEW p \in Conns,
           StartWorkBlock(p) \/ \E b \in Blocks : AcceptRecovery(p, b)
    PROVE  Moves(p) /\ Fits(task[p])' /\ task'[p].pc = "create"
  <1>1. p \in Tasks /\ UNCHANGED store
    BY BlockFacts DEF StartWorkBlock, AcceptRecovery
  <1>2. \A b \in Blocks : ~Live(b)
    BY DEF StartWorkBlock, AcceptRecovery, NoneLive, latest, Live, Exists,
           OneConnectionInvariant, LiveIsLatest
  <1>3. PICK t : Goes(p, t) /\ t.pc = "create" /\ t.block <= created
    <2>1. CASE StartWorkBlock(p)
      <3> DEFINE t == [Idle EXCEPT !.pc = "create", !.at = clock]
      <3>1. t.pc = "create" /\ t.block = 0
        BY DEF Idle
      <3>2. 0 <= created /\ Goes(p, t)
        BY <2>1, BlockFacts DEF StartWorkBlock
      <3> QED
        BY <3>1, <3>2
    <2>2. ASSUME NEW b \in Blocks, AcceptRecovery(p, b)
          PROVE  \E t : Goes(p, t) /\ t.pc = "create" /\ t.block <= created
      <3> DEFINE t == [Idle EXCEPT !.pc = "create", !.block = b, !.at = clock]
      <3>1. t.pc = "create" /\ t.block = b
        BY DEF Idle
      <3>2. b <= created /\ Goes(p, t)
        BY <2>2, BlockFacts DEF AcceptRecovery, Exists, Terminal
      <3> QED
        BY <3>1, <3>2
    <2> QED
      BY <2>1, <2>2
  <1>4. Moves(p) /\ task'[p] = t
    BY <1>1, <1>3, Moving DEF OneConnectionInvariant
  <1>5. Fits(task[p])'
    BY <1>1, <1>2, <1>3, <1>4
    DEF Fits, PauseFits, ResumeFits, LaterFits, FinishFits, CreateFits, GetFits,
        NoDeadlineFits, DeadlineFits, Finishing, store, Live
  <1> QED
    BY <1>3, <1>4, <1>5

LEMMA ReadingFits ==
    ASSUME OneConnectionInvariant, NEW p \in Conns, Reading(p)
    PROVE  /\ Moves(p) /\ Fits(task[p])'
           /\ task'[p].pc \notin {"recover", "recover_close", "mark"}
  <1>1. p \in Tasks /\ UNCHANGED <<created, rows>>
    BY BlockFacts
    DEF Reading, StartWorkBlock, Sleep, ClockChanged, RequestState, AcceptRecovery,
        PauseWorkBlock, ResumeWorkBlock, EndWorkBlock, Observe, store
  <1>2. CASE StartWorkBlock(p) \/ \E b \in Blocks : AcceptRecovery(p, b)
    BY <1>2, CreatingFits
  <1>3. CASE Sleep(p)
    <2>1. PICK b \in latest : /\ rows[b].phase = "Active"
                              /\ Goes(p, [Idle EXCEPT !.pc = "pause", !.block = b, !.at = clock])
      BY <1>3 DEF Sleep
    <2> DEFINE t == [Idle EXCEPT !.pc = "pause", !.block = b, !.at = clock]
    <2>2. Moves(p) /\ task'[p] = t /\ b <= created
      BY <1>1, <2>1, BlockFacts, Moving DEF OneConnectionInvariant, Exists
    <2>3. t.pc = "pause" /\ t.block = b
      BY DEF Idle
    <2> HIDE DEF t
    <2> QED
      BY <1>1, <2>2, <2>3
      DEF Fits, PauseFits, ResumeFits, LaterFits, FinishFits, CreateFits, GetFits,
          NoDeadlineFits, DeadlineFits, Finishing
  <1>4. CASE ClockChanged(p) \/ (Begin(p) /\ RequestState(p))
    <2>1. PICK b \in latest, ph \in {"Completed", "Expired"} :
             Overdue(rows[b], clock) /\ Finishes(p, b, ph, planned_deadline(rows[b]))
      BY <1>4 DEF ClockChanged, RequestState
    <2> QED
      BY <1>1, <2>1, BlockFacts, OverdueFinishes
  <1>5. ASSUME NEW b \in Blocks, PauseWorkBlock(p, b)
        PROVE  Moves(p) /\ Fits(task[p])' /\ task'[p].pc \in {"finish", "pause_close"}
    BY <1>1, <1>5, BlockFacts, PauseReadsFits DEF PauseWorkBlock
  <1>6. ASSUME NEW b \in Blocks, ResumeWorkBlock(p, b)
        PROVE  Moves(p) /\ Fits(task[p])' /\ task'[p].pc = "set_active"
    <2> DEFINE at == effective_now(rows[b], clock)
               t == [Idle EXCEPT !.pc = "set_active", !.block = b, !.at = at,
                                 !.total = TotalPaused(rows[b], at)]
    <2>1. rows[b].phase = "Paused" /\ Goes(p, t)
      BY <1>6 DEF ResumeWorkBlock
    <2>2. /\ rows[b].updated <= at
          /\ at <= rows[b].started + Planned + TotalPaused(rows[b], at)
      BY <2>1, BlockFacts, ResumeArithmetic
    <2>3. Moves(p) /\ task'[p] = t /\ b <= created
      BY <1>1, <2>1, BlockFacts, Moving DEF OneConnectionInvariant, Exists
    <2> HIDE DEF at
    <2>4. /\ t.pc = "set_active" /\ t.block = b /\ t.at = at
          /\ t.total = TotalPaused(rows[b], at)
      BY DEF Idle
    <2> HIDE DEF t
    <2>5. ResumeFits(task[p])'
      BY <1>1, <2>2, <2>3, <2>4 DEF ResumeFits
    <2> QED
      BY <1>1, <2>3, <2>4, <2>5
      DEF Fits, PauseFits, LaterFits, FinishFits, CreateFits, GetFits,
          NoDeadlineFits, DeadlineFits, Finishing
  <1>7. ASSUME NEW b \in Blocks, EndWorkBlock(p, b)
        PROVE  Moves(p) /\ Fits(task[p])' /\ task'[p].pc = "finish"
    <2>1. CASE Overdue(rows[b], clock)
      BY <1>1, <1>7, <2>1, OverdueFinishes DEF EndWorkBlock
    <2>2. CASE ~Overdue(rows[b], clock)
      <3> DEFINE at == EndedAt(rows[b], clock)
      <3>1. Finishes(p, b, "Abandoned", at) /\ Live(b)
        BY <1>7, <2>2 DEF EndWorkBlock
      <3>2. /\ at \in Nat
            /\ elapsed_seconds(rows[b], at) =
                  positive_seconds(positive_seconds(at, rows[b].started), rows[b].total)
            /\ elapsed_seconds(rows[b], at) <= Planned
        BY <2>2, <3>1, BlockFacts, EndArithmetic DEF Live
      <3> HIDE DEF at
      <3>3. "Abandoned" \in Terminal
        BY DEF Terminal
      <3> QED
        BY <1>1, <3>1, <3>2, <3>3, FinishRemembers
    <2> QED
      BY <2>1, <2>2
  <1>8. ASSUME NEW o \in 0..MaxClock, Observe(p, o)
        PROVE  Moves(p) /\ Fits(task[p])' /\ task'[p].pc \in {"finish", "close"}
    <2>1. PICK b \in latest :
             /\ rows[b].phase = "Active"
             /\ \/ /\ Overdue(rows[b], o)
                   /\ Finishes(p, b, "Completed", planned_deadline(rows[b]))
                \/ \E to \in {"none", "decided"} :
                      Goes(p, [Idle EXCEPT !.pc = "close", !.block = b, !.to = to,
                            !.at = Smaller(effective_now(rows[b], o),
                                           planned_deadline(rows[b]))])
      BY <1>8 DEF Observe
    <2>2. b \in Blocks /\ rows[b] \in Row /\ o \in Nat /\ b <= created
      BY <2>1, BlockFacts DEF Exists
    <2>3. CASE Overdue(rows[b], o) /\ Finishes(p, b, "Completed", planned_deadline(rows[b]))
      BY <1>1, <2>2, <2>3, OverdueFinishes
    <2>4. CASE \E to \in {"none", "decided"} :
                  Goes(p, [Idle EXCEPT !.pc = "close", !.block = b, !.to = to,
                        !.at = Smaller(effective_now(rows[b], o), planned_deadline(rows[b]))])
      <3> DEFINE at == Smaller(effective_now(rows[b], o), planned_deadline(rows[b]))
                 t(to) == [Idle EXCEPT !.pc = "close", !.block = b, !.to = to, !.at = at]
      <3>1. at <= planned_deadline(rows[b])
        BY <2>1, <2>2, PlanArithmetic, BlockFacts
      <3>2. PICK to \in {"none", "decided"} : Goes(p, t(to))
        BY <2>4
      <3> HIDE DEF at
      <3>3. t(to).pc = "close" /\ t(to).block = b /\ t(to).at = at
        BY DEF Idle
      <3>4. Moves(p) /\ task'[p] = t(to)
        BY <1>1, <3>2, Moving DEF OneConnectionInvariant
      <3> HIDE DEF t
      <3>5. LaterFits(task[p])'
        BY <1>1, <3>1, <3>3, <3>4 DEF LaterFits, planned_deadline
      <3> QED
        BY <1>1, <2>2, <3>3, <3>4, <3>5
        DEF Fits, PauseFits, ResumeFits, FinishFits, CreateFits, GetFits,
            NoDeadlineFits, DeadlineFits, Finishing
    <2> QED
      BY <2>1, <2>3, <2>4
  <1> QED
    BY <1>2, <1>3, <1>4, <1>5, <1>6, <1>7, <1>8 DEF Reading

LEMMA ReadingKeeps ==
    ASSUME OneConnectionInvariant, WorkBlockInvariant', OneConnection,
           NEW p \in Conns, Reading(p)
    PROVE  OneConnectionInvariant'
  <1>1. /\ UNCHANGED <<created, rows, results, deadline, up, lateNone>>
        /\ up /\ task[p].pc = "idle"
    BY DEF Reading, StartWorkBlock, Sleep, ClockChanged, RequestState, AcceptRecovery,
           PauseWorkBlock, ResumeWorkBlock, EndWorkBlock, Observe, Begin, store, channel, env
  <1>2. p \in Tasks /\ p # Main /\ p # Scheduler
    BY WorkBlockAssumption, BlockFacts
  <1>3. Role(p, task'[p].pc)
    BY <1>2, ReadingFits DEF Role
  <1> QED
    BY <1>1, <1>2, <1>3, ReadingFits, RowsStay DEF At

-----------------------------------------------------------------------------
(* Steps between the calls of a command that write no row.                   *)

\* Going on with a plan that is of the same kind.
LEMMA PlanGoesOn ==
    ASSUME OneConnectionInvariant, NEW p \in Tasks,
           NEW from, NEW to, <<from, to>> \in
               {<<"pause_close", "set_paused">>, <<"close", "append">>,
                <<"recover_close", "mark">>, <<"finish", "finish_close">>,
                <<"finish_close", "resolve">>, <<"resolve", "finalize">>},
           At(p, from), GoOn(p, to), UNCHANGED <<created, rows>>
    PROVE  Moves(p) /\ Fits(task[p])' /\ task'[p].pc = to
  <1>1. /\ Moves(p) /\ task[p] \in Task
        /\ task'[p] = [task[p] EXCEPT !.pc = to]
    BY Moving DEF OneConnectionInvariant, WorkBlockInvariant, TypeOK
  <1>2. /\ task'[p].pc = to /\ task'[p].block = task[p].block /\ task'[p].at = task[p].at
        /\ task'[p].to = task[p].to /\ task'[p].total = task[p].total
        /\ task'[p].elapsed = task[p].elapsed
    BY <1>1 DEF Task
  <1>3. Fits(task[p]) /\ task[p].pc = from
    BY DEF OneConnectionInvariant, At
  <1>4. PauseFits(task[p])' /\ LaterFits(task[p])'
    BY <1>2, <1>3 DEF Fits, PauseFits, LaterFits, planned_deadline
  <1>5. FinishFits(task[p])'
    BY <1>2, <1>3 DEF Fits, FinishFits, Finishing, Exists
  <1>6. Fits(task[p])'
    BY <1>2, <1>3, <1>4, <1>5
    DEF Fits, ResumeFits, CreateFits, GetFits, NoDeadlineFits, DeadlineFits
  <1> QED
    BY <1>1, <1>2, <1>6

LEMMA PublishingFits ==
    ASSUME OneConnectionInvariant, NEW p \in Tasks, NEW b, NEW due, Publishes(p, b, due),
           b <= created',
           due = None => ~(b \in Blocks /\ rows'[b].phase = "Active"),
           due # None => \A c \in Blocks : rows'[c].phase = "Active" =>
                             c = b /\ due = planned_deadline(rows'[c])
    PROVE  /\ Moves(p) /\ Fits(task[p])'
           /\ task'[p].pc = "publish" /\ task'[p].block = b /\ task'[p].due = due
  <1> DEFINE t == [Idle EXCEPT !.pc = "publish", !.block = b, !.due = due]
  <1>0. WorkBlockInvariant /\ Goes(p, t)
    BY DEF OneConnectionInvariant, Publishes
  <1>1. t.pc = "publish" /\ t.block = b /\ t.due = due
    BY DEF Idle
  <1> HIDE DEF t
  <1>2. Moves(p) /\ task'[p] = t
    BY <1>0, Moving
  <1>3. NoDeadlineFits(task[p])' /\ DeadlineFits(task[p])'
    BY <1>1, <1>2 DEF NoDeadlineFits, DeadlineFits, planned_deadline
  <1> QED
    BY <1>1, <1>2, <1>3
    DEF Fits, PauseFits, ResumeFits, LaterFits, FinishFits, CreateFits, GetFits, Finishing

LEMMA IdlingFits ==
    ASSUME OneConnectionInvariant, NEW p \in Tasks, Returns(p), created' \in Nat
    PROVE  Moves(p) /\ Fits(task[p])' /\ task'[p].pc = "idle"
  <1>1. Moves(p) /\ task'[p] = Idle
    BY Moving DEF OneConnectionInvariant
  <1> QED
    BY <1>1, IdleFits DEF Idle

\* Who can be at which call.
LEMMA AtCalls ==
    ASSUME OneConnectionInvariant, NEW p \in Tasks
    PROVE  /\ task[p].pc \in {"create", "pause", "pause_close", "set_paused", "set_active",
                              "get", "close", "append", "gate"} => p \in Conns
           /\ task[p].pc \in {"recover", "recover_close", "mark"} => p = Main
           /\ p \in Conns => p # Main /\ p # Scheduler
           /\ task[p].pc \in Naming => task[p].block \in Blocks
           /\ task[p].pc \in Finishing => task[p].to \in Terminal
  BY WorkBlockAssumption, RolesOfTasks
  DEF OneConnectionInvariant, Role, Finishing, Tasks, WorkBlockInvariant, TasksNameBlocks

LEMMA PlanKeeps ==
    ASSUME OneConnectionInvariant, WorkBlockInvariant', OneConnection, NEW p \in Tasks,
           \/ PauseCloses(p) \/ ObserveCloses(p) \/ FinishCloses(p) \/ FinishResolves(p)
           \/ p = Main /\ RecoverCloses
    PROVE  OneConnectionInvariant'
  <1>1. UNCHANGED <<created, rows, results, deadline, up, lateNone>>
    BY DEF PauseCloses, ObserveCloses, FinishCloses, FinishResolves, RecoverCloses, channel, env
  <1>2. PICK from, to :
           /\ <<from, to>> \in
                 {<<"pause_close", "set_paused">>, <<"close", "append">>,
                  <<"recover_close", "mark">>, <<"finish_close", "resolve">>,
                  <<"resolve", "finalize">>}
           /\ At(p, from) /\ GoOn(p, to)
    BY DEF PauseCloses, ObserveCloses, FinishCloses, FinishResolves, RecoverCloses
  <1>3. Moves(p) /\ Fits(task[p])' /\ task'[p].pc = to
    BY <1>1, <1>2, PlanGoesOn
  <1>4. Role(p, to)
    <2>1. CASE to \in Finishing
      BY <2>1, AtCalls DEF Role, Finishing
    <2>2. CASE <<from, to>> = <<"recover_close", "mark">>
      BY <1>2, <2>2, AtCalls, WorkBlockAssumption DEF Role, At
    <2>3. CASE <<from, to>> \in {<<"pause_close", "set_paused">>, <<"close", "append">>}
      BY <1>2, <2>3, AtCalls DEF Role, At
    <2> QED
      BY <1>2, <2>1, <2>2, <2>3 DEF Finishing
  <1>5. (up <=> p # Main) /\ ~At(p, "get") /\ ~At(p, "publish")
    BY <1>2, Movers DEF At
  <1> QED
    BY <1>1, <1>2, <1>3, <1>4, <1>5, RowsStay

LEMMA ChecksKeep ==
    ASSUME OneConnectionInvariant, WorkBlockInvariant', OneConnection, NEW p \in Tasks,
           FinishChecks(p)
    PROVE  OneConnectionInvariant'
  <1>1. /\ UNCHANGED <<created, rows, results, deadline, up, lateNone>>
        /\ At(p, "finish") /\ task[p].pc = "finish"
    BY DEF FinishChecks, store, channel, env, At
  <1>2. (up <=> p # Main) /\ ~At(p, "get") /\ ~At(p, "publish") /\ task[p].block \in Blocks
    BY <1>1, Movers, AtCalls DEF At, Naming, Finishing
  <1>3. CASE Publishes(p, task[p].block, None) /\ results[task[p].block] # None
    <2>1. rows[task[p].block].phase \in Terminal
      BY <1>2, <1>3 DEF OneConnectionInvariant, WorkBlockInvariant, ResultIffTerminal
    <2>2. rows'[task[p].block].phase \notin {"Active", "Paused"}
      BY <1>1, <2>1 DEF Terminal
    <2>3. task[p].block <= created'
      BY <1>1 DEF OneConnectionInvariant, Fits
    <2>4. /\ Moves(p) /\ Fits(task[p])'
          /\ task'[p].pc = "publish" /\ task'[p].block = task[p].block /\ task'[p].due = None
      BY <1>3, <2>2, <2>3, PublishingFits
    <2>5. Role(p, task'[p].pc)
      BY <2>4, AtCalls DEF Role
    <2>6. ~Live(task[p].block)'
      BY <2>2, <2>4 DEF Live
    <2> QED
      BY <1>1, <1>2, <2>4, <2>5, <2>6, RowsStay
  <1>4. CASE GoOn(p, "finish_close")
    <2>1. Moves(p) /\ Fits(task[p])' /\ task'[p].pc = "finish_close"
      BY <1>1, <1>4, PlanGoesOn
    <2>2. Role(p, task'[p].pc)
      BY <2>1, AtCalls DEF Role, Finishing
    <2> QED
      BY <1>1, <1>2, <2>1, <2>2, RowsStay
  <1> QED
    BY <1>3, <1>4 DEF FinishChecks

LEMMA SleepKeeps ==
    ASSUME OneConnectionInvariant, WorkBlockInvariant', OneConnection, NEW p \in Tasks,
           SleepPauses(p)
    PROVE  OneConnectionInvariant'
  <1>1. /\ UNCHANGED <<created, rows, results, deadline, up, lateNone>>
        /\ task[p].pc = "pause"
    BY DEF SleepPauses, store, channel, env, At
  <1>2. (up <=> p # Main) /\ p \in Conns /\ p # Scheduler /\ p # Main
    BY <1>1, Movers, AtCalls
  <1>3. task[p].block \in Blocks /\ task[p].at \in Nat /\ created' \in Nat
    BY <1>1, AtCalls, BlockFacts
    DEF Naming, OneConnectionInvariant, WorkBlockInvariant, TypeOK, Task
  <1>4. Moves(p) /\ Fits(task[p])' /\ task'[p].pc \in {"finish", "pause_close", "idle"}
    BY <1>1, <1>3, PauseReadsFits, IdlingFits DEF SleepPauses
  <1>5. Role(p, task'[p].pc)
    BY <1>2, <1>4 DEF Role
  <1> QED
    BY <1>1, <1>2, <1>4, <1>5, RowsStay DEF At

LEMMA ResumeGetsKeeps ==
    ASSUME OneConnectionInvariant, WorkBlockInvariant', OneConnection, NEW p \in Tasks,
           ResumeGets(p)
    PROVE  OneConnectionInvariant'
  <1> DEFINE b == task[p].block
  <1>1. /\ UNCHANGED <<created, rows, results, deadline, up, lateNone>>
        /\ task[p].pc = "get"
    BY DEF ResumeGets, store, channel, env, At
  <1>2. (up <=> p # Main) /\ p \in Conns /\ p # Scheduler /\ p # Main
    BY <1>1, Movers, AtCalls
  <1>3. b \in Blocks /\ created' \in Nat /\ b <= created'
        /\ \A c \in Blocks : Live(c) => c = b
    BY <1>1, AtCalls, BlockFacts DEF Naming, OneConnectionInvariant, Fits, GetFits
  <1>4. CASE Exists(b) /\ Publishes(p, b, planned_deadline(rows[b]))
    <2>1. planned_deadline(rows[b]) # None
      BY <1>3, Readings, WorkBlockAssumption DEF OneConnectionInvariant
    <2>2. \A c \in Blocks : rows'[c].phase = "Active" =>
              c = b /\ planned_deadline(rows[b]) = planned_deadline(rows'[c])
      BY <1>1, <1>3 DEF Live, planned_deadline
    <2>3. /\ Moves(p) /\ Fits(task[p])' /\ task'[p].pc = "publish" /\ task'[p].block = b
          /\ task'[p].due # None
      BY <1>3, <1>4, <2>1, <2>2, PublishingFits
    <2>4. Armed'
      <3> SUFFICES ASSUME up', ~lateNone', NEW c \in Blocks, rows'[c].phase = "Active"
                   PROVE  \E q \in Tasks : /\ task'[q].block = c
                                           /\ At(q, "publish")' /\ task'[q].due # None
        BY DEF Armed
      <3> QED
        BY <2>2, <2>3 DEF At
    <2>5. Role(p, task'[p].pc)
      BY <1>2, <2>3 DEF Role
    <2> QED
      BY <1>1, <1>2, <2>3, <2>4, <2>5, RowsStay
  <1>5. CASE ~Exists(b) /\ Returns(p)
    <2>1. Moves(p) /\ Fits(task[p])' /\ task'[p].pc = "idle"
      BY <1>3, <1>5, IdlingFits
    <2>2. Armed'
      BY <1>1, <1>3, <1>5 DEF Armed, Live, Exists
    <2>3. Role(p, task'[p].pc)
      BY <1>2, <2>1 DEF Role
    <2> QED
      BY <1>1, <1>2, <2>1, <2>2, <2>3, RowsStay
  <1> QED
    BY <1>4, <1>5 DEF ResumeGets

LEMMA GateKeeps ==
    ASSUME OneConnectionInvariant, WorkBlockInvariant', OneConnection, NEW p \in Tasks,
           GateDecides(p)
    PROVE  OneConnectionInvariant'
  <1>1. /\ UNCHANGED <<created, rows, results, deadline, up, lateNone>>
        /\ task[p].pc = "gate" /\ Returns(p) /\ created' \in Nat
    BY BlockFacts DEF GateDecides, channel, env, At
  <1>2. (up <=> p # Main) /\ p \in Conns /\ p # Scheduler /\ p # Main
    BY <1>1, Movers, AtCalls
  <1>3. Moves(p) /\ Fits(task[p])' /\ task'[p].pc = "idle"
    BY <1>1, IdlingFits
  <1>4. Role(p, task'[p].pc)
    BY <1>2, <1>3 DEF Role
  <1> QED
    BY <1>1, <1>2, <1>3, <1>4, RowsStay DEF At

\* Steps that move no task.
LEMMA NobodyMoves ==
    ASSUME OneConnectionInvariant, WorkBlockInvariant',
           UNCHANGED <<created, rows, results, deadline, up, lateNone, task>>
    PROVE  OneConnectionInvariant'
  BY DEF OneConnectionInvariant, RecoveryRunsAlone, Roles, LiveIsLatest, Live, Exists,
         RowsWithinPlan, FullTime, planned_deadline, Fits, PauseFits, ResumeFits, LaterFits,
         FinishFits, CreateFits, GetFits, NoDeadlineFits, DeadlineFits, SchedulerFits,
         Armed, At

LEMMA SchedulerKeeps ==
    ASSUME OneConnectionInvariant, WorkBlockInvariant', OneConnection, SchedulerFires
    PROVE  OneConnectionInvariant'
  <1>1. /\ UNCHANGED <<created, rows, results, deadline, up, lateNone>>
        /\ up /\ task[Scheduler].pc = "idle" /\ RequestState(Scheduler)
    BY DEF SchedulerFires, RequestState, store, channel, env, At
  <1>2. PICK b \in latest : Overdue(rows[b], clock)
                            /\ Finishes(Scheduler, b, "Completed", planned_deadline(rows[b]))
    BY <1>1 DEF RequestState
  <1>3. Moves(Scheduler) /\ Fits(task[Scheduler])' /\ task'[Scheduler].pc = "finish"
    BY <1>1, <1>2, BlockFacts, OverdueFinishes
  <1>4. Scheduler \in Tasks /\ Scheduler # Main /\ Role(Scheduler, task'[Scheduler].pc)
    BY <1>3, BlockFacts, WorkBlockAssumption DEF Role, Finishing
  <1> QED
    BY <1>1, <1>3, <1>4, RowsStay DEF At

\* Recovery that finds a live block; the other outcome is below.
LEMMA RecoveryBegins ==
    ASSUME OneConnectionInvariant, WorkBlockInvariant', OneConnection,
           Recover, \E b \in latest : Live(b)
    PROVE  OneConnectionInvariant'
  <1>1. /\ UNCHANGED <<created, rows, results, deadline, lateNone>> /\ task[Main].pc = "recover"
        /\ ~NoneLive /\ UNCHANGED up
    BY DEF Recover, store, channel, At, NoneLive
  <1>2. Main \in Tasks /\ Main \notin Conns /\ Main # Scheduler /\ (up <=> Main # Main)
    BY <1>1, Movers, BlockFacts, WorkBlockAssumption
  <1>3. PICK b \in latest :
           IF Overdue(rows[b], clock)
           THEN Finishes(Main, b, "Expired", planned_deadline(rows[b]))
           ELSE Goes(Main, [Idle EXCEPT
                   !.pc = IF rows[b].phase = "Active" THEN "recover_close" ELSE "mark",
                   !.block = b, !.at = clock])
    BY <1>1 DEF Recover
  <1>4. b \in Blocks /\ rows[b] \in Row /\ b <= created /\ clock \in Nat
    BY BlockFacts DEF latest
  <1>5. CASE Overdue(rows[b], clock)
    <2>1. Moves(Main) /\ Fits(task[Main])' /\ task'[Main].pc = "finish"
      BY <1>1, <1>2, <1>3, <1>4, <1>5, OverdueFinishes
    <2>2. Role(Main, task'[Main].pc)
      BY <1>2, <2>1 DEF Role, Finishing
    <2> QED
      BY <1>1, <1>2, <2>1, <2>2, RowsStay DEF At
  <1>6. CASE ~Overdue(rows[b], clock)
    <2> DEFINE t == [Idle EXCEPT
                   !.pc = IF rows[b].phase = "Active" THEN "recover_close" ELSE "mark",
                   !.block = b, !.at = clock]
    <2>1. Moves(Main) /\ task'[Main] = t
      BY <1>2, <1>3, <1>6, Moving DEF OneConnectionInvariant
    <2>2. t.pc \in {"recover_close", "mark"} /\ t.block = b /\ t.at = clock
      BY DEF Idle
    <2> HIDE DEF t
    <2>3. rows[b].phase = "Active" => clock <= planned_deadline(rows[b])
      <3>1. clock <= effective_now(rows[b], clock)
        BY <1>4 DEF effective_now, Larger, Row
      <3> QED
        BY <1>4, <1>6, <3>1, PlanArithmetic
    <2>4. LaterFits(task[Main])'
      BY <1>1, <2>1, <2>2, <2>3 DEF LaterFits, planned_deadline
    <2>5. Fits(task[Main])'
      BY <1>1, <1>4, <2>1, <2>2, <2>4
      DEF Fits, PauseFits, ResumeFits, FinishFits, CreateFits, GetFits, NoDeadlineFits,
          DeadlineFits, Finishing
    <2>6. Role(Main, task'[Main].pc)
      BY <1>2, <2>1, <2>2 DEF Role
    <2> QED
      BY <1>1, <1>2, <2>1, <2>2, <2>5, <2>6, RowsStay DEF At
  <1> QED
    BY <1>5, <1>6

-----------------------------------------------------------------------------
(* Steps that write rows.                                                    *)

\* One row is written and the block stays live, or stays as it was.
LEMMA OneRowWritten ==
    ASSUME OneConnectionInvariant, NEW b \in Blocks, NEW r \in Row,
           rows' = [rows EXCEPT ![b] = r], UNCHANGED <<created, results>>,
           r.started = rows[b].started,
           \/ r.phase = rows[b].phase
           \/ r.phase \in {"Active", "Paused"} /\ rows[b].phase \in {"Active", "Paused"},
           r.phase = "Active" => r.updated <= planned_deadline(r),
           r.phase = "Paused" => r.paused <= planned_deadline(r)
    PROVE  RowsAge /\ LiveIsLatest' /\ RowsWithinPlan' /\ FullTime'
  <1>1. created \in Nat /\ created' = created
    BY BlockFacts
  <1>2. rows'[b] = r /\ \A c \in Blocks : c # b => rows'[c] = rows[c]
    BY DEF OneConnectionInvariant, WorkBlockInvariant, TypeOK
  <1>3. \A c \in Blocks :
           /\ rows'[c].phase \in {"Active", "Paused"} <=> rows[c].phase \in {"Active", "Paused"}
           /\ rows'[c].phase = "none" <=> rows[c].phase = "none"
           /\ rows'[c].phase \in Terminal => rows'[c].phase = rows[c].phase
           /\ rows'[c].started = rows[c].started
    BY <1>2 DEF Terminal
  <1>4. RowsAge
    BY <1>1, <1>3 DEF RowsAge
  <1>5. LiveIsLatest'
    BY <1>3 DEF OneConnectionInvariant, LiveIsLatest, Live, Exists
  <1>6. RowsWithinPlan'
    BY <1>2 DEF OneConnectionInvariant, RowsWithinPlan, planned_deadline
  <1>7. FullTime'
    BY <1>3 DEF OneConnectionInvariant, FullTime, Terminal
  <1> QED
    BY <1>4, <1>5, <1>6, <1>7

\* A write that does not happen, and the task returns.
LEMMA ReturnsKeep ==
    ASSUME OneConnectionInvariant, WorkBlockInvariant', OneConnection, NEW p \in Tasks,
           Returns(p), task[p].pc \notin {"idle", "get", "publish"},
           UNCHANGED <<created, rows, results, deadline, up, lateNone>>
    PROVE  OneConnectionInvariant'
  <1>1. created' \in Nat /\ (up <=> p # Main)
    BY BlockFacts, Movers
  <1>2. Moves(p) /\ Fits(task[p])' /\ task'[p].pc = "idle"
    BY <1>1, IdlingFits
  <1>3. Role(p, task'[p].pc)
    BY <1>2 DEF Role
  <1> QED
    BY <1>1, <1>2, <1>3, RowsStay DEF At

LEMMA OneLiveNext ==
    ASSUME OneConnectionInvariant, LiveIsLatest',
           NEW c \in Blocks, NEW d \in Blocks,
           rows'[c].phase \in {"Active", "Paused"}, rows'[d].phase \in {"Active", "Paused"}
    PROVE  c = d
  <1>1. Live(c)' /\ Exists(c)' /\ Live(d)' /\ Exists(d)'
    BY DEF Live, Exists
  <1> QED
    BY <1>1, BlockFacts DEF LiveIsLatest

LEMMA SetPausedKeeps ==
    ASSUME OneConnectionInvariant, WorkBlockInvariant', OneConnection, NEW p \in Tasks,
           SetPaused(p)
    PROVE  OneConnectionInvariant'
  <1> DEFINE b == task[p].block
             r == [rows[b] EXCEPT !.phase = "Paused", !.paused = task[p].at,
                                  !.updated = task[p].at]
  <1>1. task[p].pc = "set_paused" /\ UNCHANGED <<created, results, deadline, up, lateNone>>
    BY DEF SetPaused, At, channel, env
  <1>2. (up <=> p # Main) /\ p \in Conns /\ p # Scheduler /\ p # Main /\ b \in Blocks
    BY <1>1, Movers, AtCalls DEF Naming
  <1>3. CASE rows[b].phase # "Active"
    BY <1>1, <1>3, ReturnsKeep DEF SetPaused
  <1>4. CASE rows[b].phase = "Active"
    <2>1. rows' = [rows EXCEPT ![b] = r] /\ Publishes(p, b, None)
      BY <1>4 DEF SetPaused
    <2>2. rows[b] \in Row /\ task[p].at \in Nat
      BY <1>2, BlockFacts DEF OneConnectionInvariant, WorkBlockInvariant, TypeOK, Task
    <2>3. task[p].at <= planned_deadline(rows[b]) /\ b <= created
      BY <1>1, <1>4 DEF OneConnectionInvariant, Fits, PauseFits
    <2>4. /\ r \in Row /\ r.phase = "Paused" /\ r.started = rows[b].started
          /\ r.paused = task[p].at /\ r.total = rows[b].total
      BY <2>2 DEF Row
    <2> HIDE DEF r
    <2>5. r.paused <= planned_deadline(r)
      BY <2>3, <2>4 DEF planned_deadline
    <2>6. RowsAge /\ LiveIsLatest' /\ RowsWithinPlan' /\ FullTime'
      BY <1>1, <1>2, <1>4, <2>1, <2>4, <2>5, OneRowWritten
    <2>7. rows'[b] = r /\ \A c \in Blocks : c # b => rows'[c] = rows[c]
      BY <1>2, <2>1 DEF OneConnectionInvariant, WorkBlockInvariant, TypeOK
    <2>8. Moves(p) /\ Fits(task[p])' /\ task'[p].pc = "publish"
      BY <1>1, <2>1, <2>3, <2>4, <2>7, PublishingFits
    <2>9. Armed'
      <3>1. \A c \in Blocks : rows'[c].phase = "Active" => rows'[c] = rows[c]
        BY <2>4, <2>7
      <3>2. ~At(p, "get") /\ ~At(p, "publish")
        BY <1>1 DEF At
      <3> QED
        BY <1>1, <2>8, <3>1, <3>2, ArmedStays
    <2>10. Role(p, task'[p].pc)
      BY <1>2, <2>8 DEF Role
    <2> QED
      BY <1>1, <1>2, <2>6, <2>8, <2>9, <2>10, OneTaskSteps
  <1> QED
    BY <1>3, <1>4

LEMMA SetActiveKeeps ==
    ASSUME OneConnectionInvariant, WorkBlockInvariant', OneConnection, NEW p \in Tasks,
           SetActive(p)
    PROVE  OneConnectionInvariant'
  <1> DEFINE b == task[p].block
             r == [rows[b] EXCEPT !.phase = "Active", !.paused = 0,
                                  !.total = task[p].total, !.updated = task[p].at]
             t == [Idle EXCEPT !.pc = "get", !.block = b]
  <1>1. task[p].pc = "set_active" /\ UNCHANGED <<created, results, deadline, up, lateNone>>
    BY DEF SetActive, At, channel, env
  <1>2. (up <=> p # Main) /\ p \in Conns /\ p # Scheduler /\ p # Main /\ b \in Blocks
    BY <1>1, Movers, AtCalls DEF Naming
  <1>3. CASE rows[b].phase # "Paused"
    BY <1>1, <1>3, ReturnsKeep DEF SetActive
  <1>4. CASE rows[b].phase = "Paused"
    <2>1. rows' = [rows EXCEPT ![b] = r] /\ Goes(p, t)
      BY <1>4 DEF SetActive
    <2>2. rows[b] \in Row /\ task[p].at \in Nat /\ task[p].total \in Nat
      BY <1>2, BlockFacts DEF OneConnectionInvariant, WorkBlockInvariant, TypeOK, Task
    <2>3. task[p].at <= rows[b].started + Planned + task[p].total /\ b <= created
      BY <1>1, <1>4 DEF OneConnectionInvariant, Fits, ResumeFits
    <2>4. /\ r \in Row /\ r.phase = "Active" /\ r.started = rows[b].started
          /\ r.updated = task[p].at /\ r.total = task[p].total
      BY <2>2 DEF Row
    <2> HIDE DEF r
    <2>5. r.updated <= planned_deadline(r)
      BY <2>3, <2>4 DEF planned_deadline
    <2>6. RowsAge /\ LiveIsLatest' /\ RowsWithinPlan' /\ FullTime'
      BY <1>1, <1>2, <1>4, <2>1, <2>4, <2>5, OneRowWritten
    <2>7. rows'[b] = r /\ \A c \in Blocks : c # b => rows'[c] = rows[c]
      BY <1>2, <2>1 DEF OneConnectionInvariant, WorkBlockInvariant, TypeOK
    <2>8. t.pc = "get" /\ t.block = b
      BY DEF Idle
    <2>9. Moves(p) /\ task'[p] = t
      BY <2>1, Moving DEF OneConnectionInvariant
    <2> HIDE DEF t
    <2>10. \A c \in Blocks : Live(c)' => c = b
      <3>1. rows'[b].phase = "Active"
        BY <2>4, <2>7
      <3> QED
        BY <1>2, <2>6, <3>1, OneLiveNext DEF Live
    <2>11. GetFits(task[p])'
      BY <2>8, <2>9, <2>10 DEF GetFits
    <2>12. Fits(task[p])'
      BY <1>1, <2>3, <2>8, <2>9, <2>11
      DEF Fits, PauseFits, ResumeFits, LaterFits, FinishFits, CreateFits, NoDeadlineFits,
          DeadlineFits, Finishing
    <2>13. Armed'
      <3>1. \A c \in Blocks : rows'[c].phase = "Active" => c = b
        BY <2>10 DEF Live
      <3>2. ~At(p, "get") /\ ~At(p, "publish")
        BY <1>1 DEF At
      <3> QED
        BY <1>1, <2>8, <2>9, <3>1, <3>2, ArmedStays
    <2>14. Role(p, task'[p].pc)
      BY <1>2, <2>8, <2>9 DEF Role
    <2> QED
      BY <1>1, <1>2, <2>6, <2>8, <2>9, <2>12, <2>13, <2>14, OneTaskSteps
  <1> QED
    BY <1>3, <1>4

LEMMA AppendKeeps ==
    ASSUME OneConnectionInvariant, WorkBlockInvariant', OneConnection, NEW p \in Tasks,
           AppendObservation(p)
    PROVE  OneConnectionInvariant'
  <1> DEFINE b == task[p].block
             r == [rows[b] EXCEPT !.updated = Larger(@, task[p].at)]
             t == [Idle EXCEPT !.pc = "gate", !.block = b]
  <1>1. task[p].pc = "append" /\ UNCHANGED <<created, results, deadline, up, lateNone>>
    BY DEF AppendObservation, At, channel, env
  <1>2. (up <=> p # Main) /\ p \in Conns /\ p # Scheduler /\ p # Main /\ b \in Blocks
    BY <1>1, Movers, AtCalls DEF Naming
  <1>3. CASE ~MayAppend(b)
    BY <1>1, <1>3, ReturnsKeep DEF AppendObservation
  <1>4. CASE MayAppend(b)
    <2>1. rows' = [rows EXCEPT ![b] = r] /\ (Returns(p) \/ Goes(p, t))
      BY <1>4 DEF AppendObservation
    <2>2. rows[b] \in Row /\ task[p].at \in Nat
      BY <1>2, BlockFacts DEF OneConnectionInvariant, WorkBlockInvariant, TypeOK, Task
    <2>3. b <= created /\ (rows[b].phase = "Active" => task[p].at <= planned_deadline(rows[b]))
      BY <1>1 DEF OneConnectionInvariant, Fits, LaterFits
    <2>4. Larger(rows[b].updated, task[p].at) \in Nat
      BY <2>2 DEF Row, Larger
    <2>5. /\ r \in Row /\ r.phase = rows[b].phase /\ r.started = rows[b].started
          /\ r.updated = Larger(rows[b].updated, task[p].at) /\ r.total = rows[b].total
          /\ r.paused = rows[b].paused
      BY <2>2, <2>4 DEF Row
    <2> HIDE DEF r
    <2>6. /\ r.phase = "Active" => r.updated <= planned_deadline(r)
          /\ r.phase = "Paused" => r.paused <= planned_deadline(r)
      BY <1>2, <2>3, <2>5, BlockFacts DEF planned_deadline, Larger
    <2>7. RowsAge /\ LiveIsLatest' /\ RowsWithinPlan' /\ FullTime'
      BY <1>1, <1>2, <2>1, <2>5, <2>6, OneRowWritten
    <2>8. rows'[b] = r /\ \A c \in Blocks : c # b => rows'[c] = rows[c]
      BY <1>2, <2>1 DEF OneConnectionInvariant, WorkBlockInvariant, TypeOK
    <2>9. t.pc = "gate" /\ t.block = b
      BY DEF Idle
    <2> HIDE DEF t
    <2>11. Moves(p) /\ Fits(task[p])' /\ task'[p].pc \in {"gate", "idle"}
      <3>1. CASE Goes(p, t)
        <4>1. Moves(p) /\ task'[p] = t
          BY <3>1, Moving DEF OneConnectionInvariant
        <4>2. Fits(task[p])'
          BY <1>1, <2>3, <2>9, <4>1
          DEF Fits, PauseFits, ResumeFits, LaterFits, FinishFits, CreateFits, GetFits,
              NoDeadlineFits, DeadlineFits, Finishing
        <4> QED
          BY <2>9, <4>1, <4>2
      <3>2. CASE Returns(p)
        BY <1>1, <3>2, BlockFacts, IdlingFits
      <3> QED
        BY <2>1, <3>1, <3>2
    <2>12. Armed'
      <3>1. \A c \in Blocks : rows'[c].phase = "Active" =>
               rows[c].phase = "Active" /\ planned_deadline(rows'[c]) = planned_deadline(rows[c])
        BY <2>5, <2>8 DEF planned_deadline
      <3>2. ~At(p, "get") /\ ~At(p, "publish")
        BY <1>1 DEF At
      <3> QED
        BY <1>1, <2>11, <3>1, <3>2, ArmedStays
    <2>13. Role(p, task'[p].pc)
      BY <1>2, <2>11 DEF Role
    <2> QED
      BY <1>1, <1>2, <2>7, <2>11, <2>12, <2>13, OneTaskSteps
  <1> QED
    BY <1>3, <1>4

LEMMA MarkKeeps ==
    ASSUME OneConnectionInvariant, WorkBlockInvariant', OneConnection, MarkRecovered
    PROVE  OneConnectionInvariant'
  <1> DEFINE b == task[Main].block
             r == [rows[b] EXCEPT !.updated = task[Main].at]
             due == IF rows[b].phase = "Active" THEN planned_deadline(rows[b]) ELSE None
  <1>1. task[Main].pc = "mark" /\ UNCHANGED <<created, results, deadline, up, lateNone>>
    BY DEF MarkRecovered, At, channel, env
  <1>2. Main \in Tasks /\ Main # Scheduler /\ Main \notin Conns /\ ~up /\ b \in Blocks
    BY <1>1, Movers, AtCalls, BlockFacts, WorkBlockAssumption DEF Naming
  <1>3. rows' = [rows EXCEPT ![b] = r] /\ Publishes(Main, b, due)
    BY DEF MarkRecovered
  <1>4. rows[b] \in Row /\ task[Main].at \in Nat
    BY <1>2, BlockFacts DEF OneConnectionInvariant, WorkBlockInvariant, TypeOK, Task
  <1>5. b <= created /\ (rows[b].phase = "Active" => task[Main].at <= planned_deadline(rows[b]))
    BY <1>1, <1>2 DEF OneConnectionInvariant, Fits, LaterFits
  <1>6. /\ r \in Row /\ r.phase = rows[b].phase /\ r.started = rows[b].started
        /\ r.updated = task[Main].at /\ r.total = rows[b].total /\ r.paused = rows[b].paused
    BY <1>4 DEF Row
  <1> HIDE DEF r
  <1>7. /\ r.phase = "Active" => r.updated <= planned_deadline(r)
        /\ r.phase = "Paused" => r.paused <= planned_deadline(r)
    BY <1>2, <1>5, <1>6, BlockFacts DEF planned_deadline
  <1>8. RowsAge /\ LiveIsLatest' /\ RowsWithinPlan' /\ FullTime'
    BY <1>1, <1>2, <1>3, <1>6, <1>7, OneRowWritten
  <1>9. rows'[b] = r /\ \A c \in Blocks : c # b => rows'[c] = rows[c]
    BY <1>2, <1>3 DEF OneConnectionInvariant, WorkBlockInvariant, TypeOK
  <1>10. planned_deadline(r) = planned_deadline(rows[b]) /\ planned_deadline(rows[b]) # None
    BY <1>4, <1>6, PlanArithmetic, WorkBlockAssumption DEF planned_deadline
  <1>11. due # None => \A c \in Blocks : rows'[c].phase = "Active" =>
                           c = b /\ due = planned_deadline(rows'[c])
    <2> SUFFICES ASSUME due # None, NEW c \in Blocks, rows'[c].phase = "Active"
                 PROVE  c = b /\ due = planned_deadline(rows'[c])
      OBVIOUS
    <2>1. rows[b].phase = "Active" /\ due = planned_deadline(rows[b])
      OBVIOUS
    <2>2. rows'[b].phase = "Active"
      BY <1>6, <1>9, <2>1
    <2>3. c = b
      BY <1>2, <1>8, <2>2, OneLiveNext
    <2> QED
      BY <1>9, <1>10, <2>1, <2>3
  <1>12. due = None => ~(b \in Blocks /\ rows'[b].phase = "Active")
    BY <1>6, <1>9, <1>10
  <1> HIDE DEF due
  <1>13. Moves(Main) /\ Fits(task[Main])' /\ task'[Main].pc = "publish"
    BY <1>1, <1>2, <1>3, <1>5, <1>11, <1>12, PublishingFits
  <1>14. Armed' /\ Role(Main, task'[Main].pc)
    BY <1>1, <1>2, <1>13 DEF Armed, Role
  <1> QED
    BY <1>1, <1>2, <1>8, <1>13, <1>14, OneTaskSteps

LEMMA CreateKeeps ==
    ASSUME OneConnectionInvariant, WorkBlockInvariant', OneConnection, NEW p \in Tasks,
           Create(p)
    PROVE  OneConnectionInvariant'
  <1> DEFINE n == created + 1
             r == [NoRow EXCEPT !.phase = "Active", !.started = task[p].at,
                                !.updated = task[p].at]
             due == task[p].at + Planned
  <1>1. task[p].pc = "create" /\ UNCHANGED <<results, deadline, up, lateNone>>
    BY DEF Create, At, channel, env
  <1>2. (up <=> p # Main) /\ p \in Conns /\ p # Scheduler /\ p # Main
    BY <1>1, Movers, AtCalls
  <1>3. CASE UNCHANGED <<created, rows>> /\ Returns(p)
    BY <1>1, <1>3, ReturnsKeep
  <1>4. CASE /\ created' = n /\ rows' = [rows EXCEPT ![n] = r] /\ Publishes(p, n, due)
    <2>1. n \in Blocks /\ created \in Nat /\ n \in Nat /\ Blocks \subseteq Nat
      BY BlockFacts, WorkBlockAssumption
      DEF Create, OneConnectionInvariant, WorkBlockInvariant, TypeOK, Blocks
    <2>2. task[p].at \in Nat
      BY DEF OneConnectionInvariant, WorkBlockInvariant, TypeOK, Task
    <2>3. /\ r.phase = "Active" /\ r.started = task[p].at /\ r.updated = task[p].at
          /\ r.total = 0
      BY DEF NoRow
    <2> HIDE DEF r
    <2>4. rows'[n] = r /\ \A c \in Blocks : c # n => rows'[c] = rows[c]
      BY <1>4, <2>1 DEF OneConnectionInvariant, WorkBlockInvariant, TypeOK
    <2>5. planned_deadline(r) = due /\ due \in Nat /\ due # None /\ r.updated <= due
      BY <2>2, <2>3, WorkBlockAssumption DEF planned_deadline
    <2>6. \A b \in Blocks : rows[b].phase \notin {"Active", "Paused"}
      BY <1>1 DEF OneConnectionInvariant, Fits, CreateFits, Live
    <2>7. \A b \in Blocks : rows[b].phase # "none" => b <= created
      BY BlockFacts DEF Exists
    <2> HIDE DEF n, due
    <2>8. n = created + 1
      BY DEF n
    <2>9. RowsAge
      BY <1>4, <2>1, <2>4, <2>8 DEF RowsAge
    <2>10. LiveIsLatest'
      <3>1. \A c \in Blocks : rows'[c].phase # "none" => c <= n
        <4> SUFFICES ASSUME NEW c \in Blocks, rows'[c].phase # "none", c # n
                     PROVE  c <= n
          BY <2>1
        <4>1. c <= created
          BY <2>4, <2>7
        <4> QED
          BY <2>1, <2>8, <4>1
      <3>2. \A c \in Blocks : rows'[c].phase \in {"Active", "Paused"} => c = n
        BY <2>4, <2>6
      <3> QED
        BY <3>1, <3>2 DEF LiveIsLatest, Live, Exists
    <2>11. RowsWithinPlan'
      BY <2>3, <2>4, <2>5 DEF OneConnectionInvariant, RowsWithinPlan, planned_deadline
    <2>12. FullTime'
      BY <1>1, <2>3, <2>4 DEF OneConnectionInvariant, FullTime
    <2>13. \A c \in Blocks : rows'[c].phase = "Active" =>
               c = n /\ due = planned_deadline(rows'[c])
      BY <2>4, <2>5, <2>6
    <2>14. n <= created'
      BY <1>4, <2>1
    <2>15. /\ Moves(p) /\ Fits(task[p])' /\ task'[p].pc = "publish" /\ task'[p].block = n
           /\ task'[p].due # None
      BY <1>4, <2>5, <2>13, <2>14, PublishingFits
    <2>16. Armed'
      <3>1. ~At(p, "get") /\ ~At(p, "publish")
        BY <1>1 DEF At
      <3> QED
        BY <1>1, <2>13, <2>15, <3>1, ArmedStays
    <2>17. Role(p, task'[p].pc)
      BY <1>2, <2>15 DEF Role
    <2> QED
      BY <1>1, <1>2, <2>9, <2>10, <2>11, <2>12, <2>15, <2>16, <2>17, OneTaskSteps
  <1> QED
    BY <1>3, <1>4 DEF Create

LEMMA FinalizeKeeps ==
    ASSUME OneConnectionInvariant, WorkBlockInvariant', OneConnection, NEW p \in Tasks,
           Finalize(p)
    PROVE  OneConnectionInvariant'
  <1> DEFINE b == task[p].block
             r == FinalRow(rows[b], task[p].to, task[p].at)
  <1>1. task[p].pc = "finalize" /\ UNCHANGED <<created, deadline, up, lateNone>>
    BY DEF Finalize, At, channel, env
  <1>2. (up <=> p # Main) /\ b \in Blocks /\ task[p].to \in Terminal /\ b <= created
    BY <1>1, Movers, AtCalls DEF Naming, Finishing, OneConnectionInvariant, Fits
  <1>3. CASE Returns(p) /\ UNCHANGED <<rows, results>>
    BY <1>1, <1>3, ReturnsKeep
  <1>4. CASE results[b] # None /\ Publishes(p, b, None) /\ UNCHANGED <<rows, results>>
    <2>1. rows'[b].phase \notin {"Active", "Paused"}
      BY <1>2, <1>4 DEF OneConnectionInvariant, WorkBlockInvariant, ResultIffTerminal, Terminal
    <2>2. /\ Moves(p) /\ Fits(task[p])' /\ task'[p].pc = "publish" /\ task'[p].block = b
          /\ task'[p].due = None
      BY <1>1, <1>2, <1>4, <2>1, PublishingFits
    <2>3. ~Live(task[p].block)' /\ Role(p, task'[p].pc)
      BY <2>1, <2>2, AtCalls DEF Live, Role
    <2> QED
      BY <1>1, <1>2, <1>4, <2>2, <2>3, RowsStay DEF At
  <1>5. CASE /\ Live(b) /\ Publishes(p, b, None)
             /\ rows' = [rows EXCEPT ![b] = r]
             /\ results' = [results EXCEPT ![b] = task[p].elapsed]
    <2>1. rows[b] \in Row
      BY <1>2, BlockFacts
    <2>2. r.phase = task[p].to /\ r.started = rows[b].started
      BY <2>1 DEF FinalRow, Row
    <2> HIDE DEF r
    <2>3. /\ rows'[b] = r /\ \A c \in Blocks : c # b => rows'[c] = rows[c]
          /\ results'[b] = task[p].elapsed
          /\ \A c \in Blocks : c # b => results'[c] = results[c]
      BY <1>2, <1>5 DEF OneConnectionInvariant, WorkBlockInvariant, TypeOK
    <2>4. r.phase \notin {"Active", "Paused", "none"}
      BY <1>2, <2>2 DEF Terminal
    <2>5. RowsAge /\ RowsEnd
      BY <1>1, <1>2, <1>5, <2>2, <2>3, <2>4, BlockFacts DEF RowsAge, RowsEnd, Live
    <2>6. LiveIsLatest'
      <3>1. \A c \in Blocks : Live(c)' => Live(c)
        BY <2>3, <2>4 DEF Live
      <3>2. \A c \in Blocks : Exists(c)' => Exists(c)
        BY <1>5, <2>3 DEF Exists, Live
      <3> QED
        BY <3>1, <3>2 DEF OneConnectionInvariant, LiveIsLatest
    <2>7. RowsWithinPlan'
      BY <2>3, <2>4 DEF OneConnectionInvariant, RowsWithinPlan, planned_deadline
    <2>8. FullTime'
      <3>1. /\ task[p].to \in {"Completed", "Expired"} => task[p].elapsed = Planned
            /\ task[p].elapsed <= Planned
        BY <1>1 DEF OneConnectionInvariant, Fits, FinishFits, Finishing
      <3> QED
        BY <2>2, <2>3, <3>1 DEF OneConnectionInvariant, FullTime
    <2>9. /\ Moves(p) /\ Fits(task[p])' /\ task'[p].pc = "publish" /\ task'[p].block = b
          /\ task'[p].due = None
      BY <1>1, <1>2, <1>5, <2>3, <2>4, PublishingFits
    <2>10. ~Live(task[p].block)' /\ Role(p, task'[p].pc)
      BY <2>3, <2>4, <2>9, AtCalls DEF Live, Role
    <2>11. Armed'
      <3>1. \A c \in Blocks : rows'[c].phase = "Active" => rows'[c] = rows[c]
        BY <2>3, <2>4
      <3>2. ~At(p, "get") /\ ~At(p, "publish")
        BY <1>1 DEF At
      <3> QED
        BY <1>1, <2>9, <3>1, <3>2, ArmedStays
    <2> QED
      BY <1>1, <1>2, <2>5, <2>6, <2>7, <2>8, <2>9, <2>10, <2>11, OneTaskSteps
  <1> QED
    BY <1>3, <1>4, <1>5 DEF Finalize

LEMMA ClearKeeps ==
    ASSUME OneConnectionInvariant, WorkBlockInvariant', OneConnection, NEW p \in Conns,
           ClearData(p)
    PROVE  OneConnectionInvariant'
  <1>1. /\ UNCHANGED <<created, deadline, up, lateNone>> /\ task[p].pc = "idle" /\ up
        /\ Publishes(p, 0, None) /\ rows' = [b \in Blocks |-> NoRow]
        /\ results' = [b \in Blocks |-> None]
    BY DEF ClearData, Begin, channel, env
  <1>2. p \in Tasks /\ p # Scheduler /\ p # Main
    BY BlockFacts, WorkBlockAssumption
  <1>3. \A b \in Blocks : rows'[b].phase = "none"
    BY <1>1 DEF NoRow
  <1>4. created \in Nat /\ 0 <= created' /\ 0 \notin Blocks
    BY <1>1, BlockFacts
  <1>5. RowsAge
    BY <1>1, <1>3, <1>4 DEF RowsAge
  <1>6. LiveIsLatest' /\ RowsWithinPlan' /\ FullTime' /\ Armed'
    BY <1>3 DEF LiveIsLatest, RowsWithinPlan, FullTime, Armed, Live, Exists
  <1>7. Moves(p) /\ Fits(task[p])' /\ task'[p].pc = "publish"
    BY <1>1, <1>2, <1>3, <1>4, PublishingFits
  <1>8. Role(p, task'[p].pc)
    BY <1>2, <1>7 DEF Role
  <1> QED
    BY <1>1, <1>2, <1>5, <1>6, <1>7, <1>8, OneTaskSteps

-----------------------------------------------------------------------------
(* Publication, the end of the recovery, and crashes.                        *)

LEMMA PublicationKeeps ==
    ASSUME OneConnectionInvariant, WorkBlockInvariant', OneConnection, NEW p \in Tasks,
           publish_deadline(p)
    PROVE  OneConnectionInvariant'
  <1>1. /\ task[p].pc = "publish" /\ deadline' = task[p].due /\ Returns(p) /\ up'
        /\ UNCHANGED <<created, rows, results>> /\ created' \in Nat
    BY BlockFacts DEF publish_deadline, At, store
  <1>2. lateNone' = \/ lateNone
                    \/ /\ task[p].due = None
                       /\ \E b \in latest : b # task[p].block /\ rows[b].phase = "Active"
    BY DEF publish_deadline
  <1>3. up <=> p # Main
    BY <1>1, Movers
  <1>4. Moves(p) /\ task'[p] = Idle
    BY <1>1, Moving DEF OneConnectionInvariant
  <1>5. RowsAge /\ RowsEnd
    BY <1>1 DEF RowsAge, RowsEnd
  <1>6. \A q \in Tasks : Fits(task[q])'
    BY <1>1, <1>3, <1>4, <1>5, IdleFits, OthersFit
  <1>7. SchedulerFits'
    <2>1. CASE p = Scheduler
      BY <1>4, <2>1 DEF SchedulerFits, At, Idle
    <2>2. CASE p # Scheduler
      <3>1. Scheduler \in Tasks \ {p}
        BY <2>2, BlockFacts
      <3> QED
        BY <1>3, <1>4, <1>5, <2>2, <3>1, OthersFit DEF SchedulerFits, At
    <2> QED
      BY <2>1, <2>2
  <1>8. Roles'
    <2>1. \A q \in Tasks : Role(q, task[q].pc)
      BY RolesOfTasks DEF OneConnectionInvariant
    <2>2. \A q \in Tasks : Role(q, task'[q].pc)
      BY <1>4, <2>1 DEF Moves, Role, Idle
    <2> QED
      BY <2>2, RolesOfTasks
  <1>9. RecoveryRunsAlone'
    <2>1. Main \in Tasks /\ (p # Main => task[Main] = Idle)
      BY <1>3, BlockFacts DEF OneConnectionInvariant, RecoveryRunsAlone
    <2> QED
      BY <1>1, <1>4, <2>1 DEF RecoveryRunsAlone, Moves
  <1>10. LiveIsLatest' /\ RowsWithinPlan' /\ FullTime'
    BY <1>1 DEF OneConnectionInvariant, LiveIsLatest, Live, Exists, RowsWithinPlan, FullTime,
                planned_deadline
  <1>11. Armed'
    <2> SUFFICES ASSUME ~lateNone', NEW b \in Blocks, rows'[b].phase = "Active"
                 PROVE  deadline' = planned_deadline(rows[b])'
      BY DEF Armed
    <2>1. rows[b].phase = "Active"
      BY <1>1
    <2>2. b \in latest
      BY <2>1 DEF OneConnectionInvariant, LiveIsLatest, latest, Live, Exists
    <2>3. Fits(task[p])
      BY DEF OneConnectionInvariant
    <2>4. CASE task[p].due = None
      <3>1. b = task[p].block
        BY <1>2, <2>1, <2>2, <2>4
      <3> QED
        BY <1>1, <2>1, <2>3, <2>4, <3>1 DEF Fits, NoDeadlineFits
    <2>5. CASE task[p].due # None
      BY <1>1, <2>1, <2>3, <2>5 DEF Fits, DeadlineFits, planned_deadline
    <2> QED
      BY <2>4, <2>5
  <1> QED
    BY <1>6, <1>7, <1>8, <1>9, <1>10, <1>11 DEF OneConnectionInvariant

\* Recovery that finds nothing to recover.
LEMMA RecoveryEnds ==
    ASSUME OneConnectionInvariant, WorkBlockInvariant',
           Recover, NoneLive, Returns(Main), up'
    PROVE  OneConnectionInvariant'
  <1>1. /\ UNCHANGED <<created, rows, results, deadline, lateNone>>
        /\ task[Main].pc = "recover" /\ Main \in Tasks /\ created' \in Nat
    BY BlockFacts DEF Recover, store, channel, At
  <1>2. \A q \in Tasks \ {Main} : task[q] = Idle
    BY <1>1, Movers DEF OneConnectionInvariant, RecoveryRunsAlone
  <1>3. Moves(Main) /\ task'[Main] = Idle
    BY <1>1, Moving DEF OneConnectionInvariant
  <1>4. \A q \in Tasks : task'[q] = Idle
    BY <1>2, <1>3 DEF Moves
  <1>5. \A q \in Tasks : Fits(task[q])'
    BY <1>1, <1>4, IdleFits
  <1>6. RecoveryRunsAlone'
    BY <1>1, <1>4 DEF RecoveryRunsAlone
  <1>7. Roles' /\ SchedulerFits'
    BY <1>4, BlockFacts DEF Roles, SchedulerFits, At, Idle
  <1>8. LiveIsLatest' /\ RowsWithinPlan' /\ FullTime'
    BY <1>1 DEF OneConnectionInvariant, LiveIsLatest, Live, Exists, RowsWithinPlan, FullTime,
                planned_deadline
  <1>9. Armed'
    <2>1. \A b \in Blocks : rows[b].phase # "Active"
      BY DEF OneConnectionInvariant, LiveIsLatest, NoneLive, latest, Live, Exists
    <2> QED
      BY <1>1, <2>1 DEF Armed
  <1> QED
    BY <1>5, <1>6, <1>7, <1>8, <1>9 DEF OneConnectionInvariant

LEMMA CrashKeeps ==
    ASSUME OneConnectionInvariant, WorkBlockInvariant', Crash
    PROVE  OneConnectionInvariant'
  <1> DEFINE t == [Idle EXCEPT !.pc = "recover"]
  <1>1. /\ UNCHANGED <<created, rows, results>> /\ ~up'
        /\ task' = [p \in Tasks |-> IF p = Main THEN t ELSE Idle]
    BY DEF Crash, store
  <1>2. t.pc = "recover" /\ t.block = 0
    BY DEF Idle
  <1> HIDE DEF t
  <1>3. Main \in Tasks /\ created' \in Nat /\ Scheduler \in Tasks /\ Scheduler # Main
        /\ Conns \subseteq Tasks \ {Main}
    BY <1>1, BlockFacts, WorkBlockAssumption
  <1>4. \A p \in Tasks : p # Main => task'[p] = Idle
    BY <1>1
  <1>5. task'[Main] = t
    BY <1>1, <1>3
  <1>6. Fits(task[Main])'
    BY <1>2, <1>3, <1>5
    DEF Fits, PauseFits, ResumeFits, LaterFits, FinishFits, CreateFits, GetFits,
        NoDeadlineFits, DeadlineFits, Finishing
  <1>7. \A p \in Tasks : Fits(task[p])'
    BY <1>3, <1>4, <1>6, IdleFits
  <1>8. RecoveryRunsAlone' /\ Armed'
    BY <1>1, <1>4 DEF RecoveryRunsAlone, Armed
  <1>9. Roles' /\ SchedulerFits'
    BY <1>2, <1>3, <1>4, <1>5 DEF Roles, SchedulerFits, At, Idle
  <1>10. LiveIsLatest' /\ RowsWithinPlan' /\ FullTime'
    BY <1>1 DEF OneConnectionInvariant, LiveIsLatest, Live, Exists, RowsWithinPlan, FullTime,
                planned_deadline
  <1> QED
    BY <1>7, <1>8, <1>9, <1>10 DEF OneConnectionInvariant

LEMMA OneConnectionStep ==
    ASSUME OneConnectionInvariant, OneConnection, [Next]_vars
    PROVE  OneConnectionInvariant'
  <1>0. WorkBlockInvariant'
    BY InvariantStep DEF OneConnectionInvariant
  <1>1. CASE \/ SchedulerLooks \/ Tick \/ SetBack \/ UNCHANGED vars
             \/ \E p \in Conns, b \in Blocks : ReportOutcome(p, b)
    <2>1. UNCHANGED <<created, rows, results, deadline, up, lateNone, task>>
      BY <1>1 DEF SchedulerLooks, Tick, SetBack, vars, ReportOutcome, store, channel, env
    <2> QED
      BY <1>0, <2>1, NobodyMoves
  <1>2. ASSUME NEW p \in Conns, Command(p), ~ \E b \in Blocks : ReportOutcome(p, b)
        PROVE  OneConnectionInvariant'
    <2>1. CASE ClearData(p)
      BY <1>0, <2>1, ClearKeeps
    <2>2. CASE ~ClearData(p)
      <3>1. CASE \/ StartWorkBlock(p) \/ Sleep(p) \/ ClockChanged(p)
                 \/ Begin(p) /\ RequestState(p)
        BY <1>0, <3>1, ReadingKeeps DEF Reading
      <3>2. ASSUME NEW b \in Blocks,
                   \/ AcceptRecovery(p, b) \/ PauseWorkBlock(p, b)
                   \/ ResumeWorkBlock(p, b) \/ EndWorkBlock(p, b)
            PROVE  OneConnectionInvariant'
        BY <1>0, <3>2, ReadingKeeps DEF Reading
      <3>3. ASSUME NEW t \in 0..MaxClock, Observe(p, t)
            PROVE  OneConnectionInvariant'
        BY <1>0, <3>3, ReadingKeeps DEF Reading
      <3> QED
        BY <1>2, <2>2, <3>1, <3>2, <3>3 DEF Command
    <2> QED
      BY <2>1, <2>2
  <1>3. ASSUME NEW p \in Tasks, Step(p) PROVE OneConnectionInvariant'
    BY <1>0, <1>3, PublicationKeeps, CreateKeeps, SleepKeeps, PlanKeeps, SetPausedKeeps,
       SetActiveKeeps, ResumeGetsKeeps, ChecksKeep, FinalizeKeeps, AppendKeeps, GateKeeps
    DEF Step
  <1>4. CASE Recover
    BY <1>0, <1>4, RecoveryBegins, RecoveryEnds DEF Recover
  <1>5. CASE RecoverCloses \/ MarkRecovered
    BY <1>0, <1>5, PlanKeeps, MarkKeeps, BlockFacts
  <1>6. CASE SchedulerFires \/ Crash
    BY <1>0, <1>6, SchedulerKeeps, CrashKeeps
  <1> QED
    BY <1>1, <1>2, <1>3, <1>4, <1>5, <1>6 DEF Next

LEMMA OneConnectionStarts == Init => OneConnectionInvariant
  <1> SUFFICES ASSUME Init PROVE OneConnectionInvariant
    OBVIOUS
  <1>1. /\ created = 0 /\ up /\ \A p \in Tasks : task[p] = Idle
        /\ \A b \in Blocks : rows[b] = NoRow
    BY Zenon DEF Init
  <1>2. \A b \in Blocks : rows[b].phase = "none"
    BY <1>1 DEF NoRow
  <1>3. RecoveryRunsAlone /\ Roles /\ SchedulerFits
    BY <1>1 DEF RecoveryRunsAlone, Roles, SchedulerFits, At, Idle, Tasks
  <1>4. \A p \in Tasks : Fits(task[p])
    BY <1>1 DEF Idle, Fits, PauseFits, ResumeFits, LaterFits, FinishFits, CreateFits, GetFits,
                NoDeadlineFits, DeadlineFits, Finishing
  <1>5. LiveIsLatest /\ RowsWithinPlan /\ FullTime /\ Armed
    BY <1>2 DEF LiveIsLatest, Live, Exists, RowsWithinPlan, FullTime, Armed
  <1> QED
    BY <1>3, <1>4, <1>5, InvariantStarts DEF OneConnectionInvariant

LEMMA OneConnectionHolds == ASSUME OneConnection PROVE Spec => []OneConnectionInvariant
  <1>1. OneConnectionInvariant /\ [Next]_vars => OneConnectionInvariant'
    BY OneConnectionStep
  <1> QED
    BY <1>1, OneConnectionStarts, PTL DEF Spec

(* While one connection sends commands, a block ends with the time it really *)
(* had: the result appears with the terminal phase, a completed or expired   *)
(* block counts its plan to the second, and an abandoned one never more,     *)
(* however late the scheduler, an observation or the recovery finishes it.   *)
THEOREM BlocksEndHonestly == ASSUME OneConnection PROVE Spec => []EndsHonestly
  <1>1. OneConnectionInvariant => EndsHonestly
    BY DEF OneConnectionInvariant, WorkBlockInvariant, EndsHonestly
  <1> QED
    BY <1>1, OneConnectionHolds, PTL

(* While one connection sends commands, no two blocks are open, and whenever *)
(* no command is under way the scheduler has been told the active block's    *)
(* deadline, unless a finish said "no deadline" after the next block began.  *)
THEOREM BlocksStayKept == ASSUME OneConnection PROVE Spec => []BlocksAreKept
  <1>1. ASSUME OneConnectionInvariant PROVE BlocksAreKept
    <2>1. OneLiveBlock
      BY <1>1, BlockFacts DEF OneConnectionInvariant, OneLiveBlock, LiveIsLatest, Live, Exists
    <2>2. ActiveIsArmed
      <3> SUFFICES ASSUME Quiet, ~lateNone, NEW b \in latest, rows[b].phase = "Active"
                   PROVE  deadline = planned_deadline(rows[b])
        BY DEF ActiveIsArmed
      <3>1. up /\ \A p \in Tasks : task[p].pc = "idle"
        BY DEF Quiet, Idle
      <3>2. b \in Blocks
        BY DEF latest
      <3> QED
        BY <1>1, <3>1, <3>2 DEF OneConnectionInvariant, Armed, At
    <2> QED
      BY <2>1, <2>2 DEF BlocksAreKept
  <1> QED
    BY <1>1, OneConnectionHolds, PTL

-----------------------------------------------------------------------------
(* Time already kept.                                                        *)

(* The time frozen with a block's end is the one its finished row shows.     *)
LEMMA FrozenStep ==
    ASSUME OneConnectionInvariant, Next, NEW b \in Blocks,
           results[b] = None, results'[b] # None
    PROVE  \/ results'[b] = elapsed_seconds(rows'[b], clock)
           \/ \E p \in Tasks : At(p, "finalize") /\ task[p].total # rows[b].total
  <1>1. PICK p \in Tasks : Finalize(p)
    BY RowWriters DEF MarkRecovered, ClearData, Create, SetPaused, SetActive, AppendObservation
  <1>2. /\ At(p, "finalize") /\ task[p].block = b /\ Live(b)
        /\ rows' = [rows EXCEPT ![b] = FinalRow(@, task[p].to, task[p].at)]
        /\ results' = [results EXCEPT ![b] = task[p].elapsed]
    <2>1. results \in [Blocks -> Nat \cup {None}]
      BY DEF OneConnectionInvariant, WorkBlockInvariant, TypeOK
    <2> QED
      BY <1>1, <2>1 DEF Finalize
  <1>3. /\ rows[b] \in Row /\ rows \in [Blocks -> Row] /\ results \in [Blocks -> Nat \cup {None}]
        /\ task[p].to \in Terminal /\ task[p].at \in Nat
    BY <1>1, <1>2 DEF OneConnectionInvariant, WorkBlockInvariant, TypeOK, Task, TasksNameBlocks,
                      Finishing, At
  <1>4. /\ rows'[b].phase = task[p].to /\ rows'[b].ended = task[p].at
        /\ rows'[b].started = rows[b].started /\ rows'[b].total = rows[b].total
    BY <1>2, <1>3 DEF FinalRow, Row
  <1>5. results'[b] = task[p].elapsed
    BY <1>2, <1>3
  <1>6. task[p].elapsed = positive_seconds(positive_seconds(task[p].at, rows[b].started),
                                           task[p].total)
    BY <1>2 DEF OneConnectionInvariant, Fits, FinishFits, Finishing, At, Live, Exists
  <1>7. elapsed_seconds(rows'[b], clock) =
            positive_seconds(positive_seconds(rows'[b].ended, rows'[b].started), rows'[b].total)
    BY <1>3, <1>4 DEF elapsed_seconds, Terminal
  <1> QED
    BY <1>2, <1>4, <1>5, <1>6, <1>7

(* A write that leaves a block live never takes its last instant back.       *)
LEMMA ForwardStep ==
    ASSUME OneConnectionInvariant, Next, NEW b \in Blocks,
           rows[b].phase \in {"Active", "Paused"}, rows'[b].phase \in {"Active", "Paused"},
           ~At(Main, "mark")
    PROVE  ~(rows'[b].updated < rows[b].updated)
  <1>1. rows[b] \in Row /\ rows \in [Blocks -> Row] /\ \A p \in Tasks : task[p].at \in Nat
    BY DEF OneConnectionInvariant, WorkBlockInvariant, TypeOK, Task
  <1>2. rows[b].updated \in Nat
    BY <1>1 DEF Row
  <1>3. CASE rows'[b] = rows[b]
    BY <1>2, <1>3
  <1>4. CASE MarkRecovered \/ \E p \in Conns : ClearData(p)
    BY <1>4 DEF MarkRecovered, ClearData, NoRow
  <1>5. ASSUME NEW p \in Tasks, Create(p) PROVE rows'[b] = rows[b]
    <2>1. b # created + 1
      BY BlockFacts DEF Exists
    <2> QED
      BY <1>1, <1>5, <2>1 DEF Create
  <1>6. ASSUME NEW p \in Tasks, Finalize(p) PROVE rows'[b] = rows[b]
    <2>1. CASE UNCHANGED rows
      BY <2>1
    <2>2. CASE rows' = [rows EXCEPT ![task[p].block] =
                           FinalRow(@, task[p].to, task[p].at)]
      <3>1. task[p].to \in Terminal
        BY <1>6 DEF Finalize, At, Finishing, OneConnectionInvariant, WorkBlockInvariant,
                    TasksNameBlocks
      <3>2. b # task[p].block
        BY <1>1, <2>2, <3>1 DEF FinalRow, Row, Terminal
      <3> QED
        BY <1>1, <2>2, <3>2
    <2> QED
      BY <1>6, <2>1, <2>2 DEF Finalize
  <1>7. ASSUME NEW p \in Tasks, SetPaused(p) \/ SetActive(p), rows'[b] # rows[b]
        PROVE  ~(rows'[b].updated < rows[b].updated)
    <2>1. task[p].block = b
      BY <1>1, <1>7 DEF SetPaused, SetActive
    <2>2. rows'[b].updated = task[p].at
      BY <1>1, <1>7, <2>1 DEF SetPaused, SetActive, Row
    <2>3. rows[b].updated <= task[p].at
      BY <1>7, <2>1 DEF SetPaused, SetActive, At, OneConnectionInvariant, Fits, PauseFits,
                        ResumeFits
    <2> QED
      BY <1>1, <1>2, <2>2, <2>3
  <1>8. ASSUME NEW p \in Tasks, AppendObservation(p), rows'[b] # rows[b]
        PROVE  ~(rows'[b].updated < rows[b].updated)
    <2>1. rows'[b].updated = Larger(rows[b].updated, task[p].at)
      BY <1>1, <1>8 DEF AppendObservation, Row
    <2> QED
      BY <1>1, <1>2, <2>1 DEF Larger
  <1> QED
    BY <1>3, <1>4, <1>5, <1>6, <1>7, <1>8, RowWriters

(* While one connection sends commands, time already kept is not rewritten:  *)
(* the elapsed time of a result is the one its row goes on showing, and no   *)
(* command moves a live row's last instant back, whatever the clock does.    *)
THEOREM TimeStaysKept == ASSUME OneConnection PROVE Spec => TimeIsKept
  <1>1. ASSUME OneConnectionInvariant, [Next]_vars
        PROVE  [\A b \in Blocks : results[b] = None /\ results'[b] # None =>
                   \/ results'[b] = elapsed_seconds(rows'[b], clock)
                   \/ \E p \in Tasks : At(p, "finalize") /\ task[p].total # rows[b].total]_vars
    BY <1>1, FrozenStep
  <1>2. ASSUME OneConnectionInvariant, [Next]_vars
        PROVE  [\A b \in Blocks : Live(b) /\ Live(b)' /\ rows'[b].updated < rows[b].updated =>
                   At(Main, "mark")]_vars
    BY <1>2, ForwardStep DEF Live
  <1> QED
    BY <1>1, <1>2, OneConnectionHolds, PTL DEF Spec, TimeIsKept, FrozenElapsed, UpdatesGoForward

=============================================================================
