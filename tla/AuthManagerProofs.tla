-------------------------- MODULE AuthManagerProofs --------------------------
(***************************************************************************)
(* What the authentication code guarantees for any number of tasks,        *)
(* devices and timeouts.  The inductive invariant adds to the type what    *)
(* each wait knows: a roundtrip remembers a real device, and the router's  *)
(* own requests are made by the router alone.  That a sign-out stays needs *)
(* an order on top: a sign-in still under way was asked for before it.     *)
(***************************************************************************)
EXTENDS AuthManager, TLAPS

\* A roundtrip that will restore Authenticated remembers which device it was.
RoundtripsNameADevice ==
    \A p \in Senders : job[p].pc \in {"refresh", "reissue"} => job[p].dev \in Devices

\* Only the router makes the requests of AccountAuthService; while it waits for
\* the reissue of a sign-in, the stored id is the device it asked for and the
\* user's pair is stored.
RouterWaitsAreItsOwn ==
    /\ \A p \in Senders \ {Router} : job[p].pc \notin RouterWaits
    /\ At(Router, "relogin") =>
          job[Router].dev = deviceId /\ deviceId \in Devices /\ userTokens # "none"

\* Only the router deletes an account; this part is inductive by itself.
DeletesAreTheRouters == \A p \in Senders \ {Router} : job[p].goal = "api"

\* The inductive invariant.
AuthInvariant ==
    /\ TypeOK
    /\ RoundtripsNameADevice
    /\ LockMeansRoundtrip
    /\ RefreshStrandedOnlyByTimeout
    /\ RouterWaitsAreItsOwn

-----------------------------------------------------------------------------
\* A transition, accepted or refused, ends in a state of the machine.
LEMMA TransitionTyped ==
    ASSUME state \in AuthState, NEW to \in AuthState, transition(to)
    PROVE  state' \in AuthState
  BY DEF transition

\* The states the code moves to are states of the machine.
LEMMA StatesTyped ==
    /\ \A d \in Devices : Authenticated(d) \in AuthState
    /\ \A k \in Kinds \ {"Authenticated"} : Plain(k) \in AuthState
  BY DEF AuthState

\* Only Authenticated carries a device, and it always does.
LEMMA StateShape ==
    ASSUME NEW s \in AuthState
    PROVE  /\ s.kind \in Kinds
           /\ s.kind = "Authenticated" => s.dev \in Devices /\ s = Authenticated(s.dev)
           /\ s.kind # "Authenticated" => s = Plain(s.kind)
  BY DEF AuthState, Authenticated, Plain, Kinds

\* A fresh, idle task is a job.
LEMMA IdleIsJob == Idle \in Job
  BY DEF Idle, Job, Goals, OnTheWire

\* Every initial state satisfies it.
LEMMA InitAuth == Init => AuthInvariant
  <1> SUFFICES ASSUME Init PROVE AuthInvariant
    OBVIOUS
  <1> USE DEF SendersAssumption, DevicesAssumption, BoundsAssumption
  <1>1. state \in AuthState
    BY StatesTyped DEF Init, Kinds
  <1>2. /\ tokens \in [dev: Devices \cup {NoDevice}, fresh: BOOLEAN]
        /\ told \in BOOLEAN /\ signedOut \in BOOLEAN
    BY DEF Init, NoTokens
  <1>3. /\ userTokens \in {"none", "fresh", "stale"}
        /\ deviceId \in Devices \cup {NoDevice}
        /\ lock \in Senders \cup {Free}
        /\ job \in [Senders -> Job]
        /\ issued \subseteq Devices
        /\ timeouts \in 0..MaxTimeouts
    BY IdleIsJob, BoundsAssumption DEF Init
  <1>4. TypeOK
    BY <1>1, <1>2, <1>3 DEF TypeOK
  <1>5. RoundtripsNameADevice /\ LockMeansRoundtrip /\ RouterWaitsAreItsOwn
    BY SendersAssumption
    DEF Init, RoundtripsNameADevice, LockMeansRoundtrip, RouterWaitsAreItsOwn, At,
        Idle, Holding, RouterWaits
  <1>6. RefreshStrandedOnlyByTimeout
    BY DEF Init, RefreshStrandedOnlyByTimeout, Plain
  <1> QED
    BY <1>4, <1>5, <1>6 DEF AuthInvariant

\* The facts every step starts from, with the records spelled out for the
\* provers.
LEMMA StepFacts ==
    ASSUME AuthInvariant, NEW p \in Senders
    PROVE  /\ state \in AuthState /\ job \in [Senders -> Job] /\ job[p] \in Job
           /\ lock \in Senders \cup {Free} /\ Free \notin Senders
           /\ timeouts \in Nat /\ MaxTimeouts \in Nat
  BY SendersAssumption, BoundsAssumption
  DEF AuthInvariant, TypeOK, SendersAssumption, BoundsAssumption

-----------------------------------------------------------------------------
(* One lemma per action *)

LEMMA BeginSendKeeps ==
    ASSUME AuthInvariant, NEW p \in Senders, NEW goal \in Goals, BeginSend(p, goal)
    PROVE  AuthInvariant'
  <1>1. job' \in [Senders -> Job]
    BY StepFacts DEF BeginSend, Started, Job, OnTheWire
  <1>2. TypeOK'
    BY <1>1 DEF AuthInvariant, TypeOK, BeginSend
  <1>3. job'[p].pc \in {"sent", "lock"} /\ \A q \in Senders \ {p} : job'[q] = job[q]
    BY StepFacts DEF BeginSend, Started
  <1>4. job[p].pc = "idle"
    BY DEF BeginSend, Idle
  <1>5. RoundtripsNameADevice' /\ LockMeansRoundtrip' /\ RouterWaitsAreItsOwn'
    BY <1>3, <1>4, SendersAssumption
    DEF AuthInvariant, RoundtripsNameADevice, LockMeansRoundtrip, RouterWaitsAreItsOwn,
        At, Holding, RouterWaits, BeginSend, SendersAssumption
  <1>6. RefreshStrandedOnlyByTimeout'
    BY <1>3, <1>4 DEF AuthInvariant, RefreshStrandedOnlyByTimeout, BeginSend
  <1> QED
    BY <1>2, <1>5, <1>6 DEF AuthInvariant

\* A step of one task keeps the invariant when it leaves the others alone, takes
\* and releases only its own lock, and does not strand the state.
LEMMA OneTaskMoves ==
    ASSUME AuthInvariant, NEW p \in Senders, TypeOK',
           \A q \in Senders \ {p} : job'[q] = job[q],
           \A q \in Senders \ {p} : lock' = q <=> lock = q,
           lock' = p <=> job'[p].pc \in Holding,
           job'[p].pc \in {"refresh", "reissue"} => job'[p].dev \in Devices,
           RefreshStrandedOnlyByTimeout',
           p # Router => job'[p].pc \notin RouterWaits,
           job'[Router].pc = "relogin" =>
               job'[Router].dev = deviceId' /\ deviceId' \in Devices /\ userTokens' # "none"
    PROVE  AuthInvariant'
  <1>1. RoundtripsNameADevice'
    BY DEF AuthInvariant, RoundtripsNameADevice
  <1>2. LockMeansRoundtrip'
    BY DEF AuthInvariant, LockMeansRoundtrip
  <1>3. RouterWaitsAreItsOwn'
    BY DEF AuthInvariant, RouterWaitsAreItsOwn, At
  <1> QED
    BY <1>1, <1>2, <1>3 DEF AuthInvariant

\* A transition to anything but RefreshInFlight leaves RefreshInFlight: every
\* such edge is in the table.
LEMMA LeavesRefresh ==
    ASSUME state \in AuthState, NEW to \in AuthState, to.kind # "RefreshInFlight",
           transition(to)
    PROVE  state'.kind # "RefreshInFlight"
  <1>1. to.kind \in Kinds
    BY StateShape
  <1> QED
    BY <1>1 DEF transition, valid_transition, ValidEdges, Kinds

\* While p is not in a roundtrip, the roundtrip that RefreshInFlight belongs to
\* is another task's.
LEMMA OthersRoundtrip ==
    ASSUME AuthInvariant, NEW p \in Senders, job[p].pc \notin Holding,
           state'.kind = "RefreshInFlight" => state.kind = "RefreshInFlight",
           timeouts' = timeouts,
           \A q \in Senders \ {p} : job'[q] = job[q],
           \A q \in Senders \ {p} : lock' = q <=> lock = q
    PROVE  RefreshStrandedOnlyByTimeout'
  BY DEF AuthInvariant, RefreshStrandedOnlyByTimeout, Holding

\* What the helpers do to the job of their task.
LEMMA FinishMoves ==
    ASSUME AuthInvariant, NEW p \in Senders, Finish(p)
    PROVE  /\ job' \in [Senders -> Job]
           /\ job'[p].pc = "idle"
           /\ \A q \in Senders \ {p} : job'[q] = job[q]
  BY StepFacts, IdleIsJob DEF Finish, Idle

LEMMA LeavesMoves ==
    ASSUME AuthInvariant, NEW p \in Senders, Leaves(p)
    PROVE  /\ job' \in [Senders -> Job]
           /\ job'[p].pc \in OnTheWire
           /\ \A q \in Senders \ {p} : job'[q] = job[q]
  BY StepFacts DEF Leaves, Job

LEMMA AwaitMoves ==
    ASSUME AuthInvariant, NEW p \in Senders,
           NEW pc \in {"lock", "relock"} \cup Holding \cup RouterWaits,
           NEW d \in Devices \cup {NoDevice}, Await(p, pc, d)
    PROVE  /\ job' \in [Senders -> Job]
           /\ job'[p].pc = pc /\ job'[p].dev = d
           /\ \A q \in Senders \ {p} : job'[q] = job[q]
  BY StepFacts DEF Await, Job

\* A step that ends or postpones what p does, without touching what p's
\* sign-in relies on.
LEMMA QuietMove ==
    ASSUME AuthInvariant, NEW p \in Senders, TypeOK',
           \A q \in Senders \ {p} : job'[q] = job[q],
           \A q \in Senders \ {p} : lock' = q <=> lock = q,
           lock' # p, job'[p].pc \notin Holding \cup RouterWaits,
           RefreshStrandedOnlyByTimeout',
           p # Router => /\ deviceId' = deviceId
                         /\ userTokens' = userTokens \/ userTokens' # "none"
    PROVE  AuthInvariant'
  <1>1. job'[Router].pc = "relogin" =>
            job'[Router].dev = deviceId' /\ deviceId' \in Devices /\ userTokens' # "none"
    BY SendersAssumption
    DEF AuthInvariant, RouterWaitsAreItsOwn, At, RouterWaits, SendersAssumption
  <1> QED
    BY <1>1, OneTaskMoves DEF Holding

LEMMA TakeRefreshLockKeeps ==
    ASSUME AuthInvariant, NEW p \in Senders, TakeRefreshLock(p)
    PROVE  AuthInvariant'
  <1>1. job[p].pc = "lock" /\ lock = Free /\ Free # p
    BY StepFacts DEF TakeRefreshLock, At
  <1>2. CASE Leaves(p) /\ UNCHANGED <<state, lock>>
    <2>1. TypeOK'
      BY <1>2, LeavesMoves DEF AuthInvariant, TypeOK, TakeRefreshLock
    <2>2. /\ job'[p].pc \notin Holding \cup RouterWaits
          /\ \A q \in Senders \ {p} : job'[q] = job[q]
      BY <1>2, LeavesMoves DEF OnTheWire, Holding, RouterWaits
    <2>3. RefreshStrandedOnlyByTimeout'
      BY <1>1, <1>2, <2>2, OthersRoundtrip DEF Holding, TakeRefreshLock
    <2>4. lock' = Free /\ deviceId' = deviceId /\ userTokens' = userTokens
      BY <1>1, <1>2 DEF TakeRefreshLock
    <2> QED
      BY <1>1, <2>1, <2>2, <2>3, <2>4, QuietMove
  <1>3. CASE Finish(p) /\ UNCHANGED <<state, lock>>
    <2>1. TypeOK'
      BY <1>3, FinishMoves DEF AuthInvariant, TypeOK, TakeRefreshLock
    <2>2. /\ job'[p].pc \notin Holding \cup RouterWaits
          /\ \A q \in Senders \ {p} : job'[q] = job[q]
      BY <1>3, FinishMoves DEF Holding, RouterWaits
    <2>3. RefreshStrandedOnlyByTimeout'
      BY <1>1, <1>3, <2>2, OthersRoundtrip DEF Holding, TakeRefreshLock
    <2>4. lock' = Free /\ deviceId' = deviceId /\ userTokens' = userTokens
      BY <1>1, <1>3 DEF TakeRefreshLock
    <2> QED
      BY <1>1, <2>1, <2>2, <2>3, <2>4, QuietMove
  <1>4. CASE /\ state.kind = "Authenticated"
             /\ transition(Plain("RefreshInFlight"))
             /\ lock' = p
             /\ Await(p, "refresh", state.dev)
    <2>1. state.dev \in Devices
      BY <1>4, StepFacts, StateShape
    <2>2. /\ job' \in [Senders -> Job] /\ job'[p].pc = "refresh" /\ job'[p].dev \in Devices
          /\ \A q \in Senders \ {p} : job'[q] = job[q]
      BY <1>4, <2>1, AwaitMoves DEF Holding
    <2>3. state' \in AuthState
      BY <1>4, StepFacts, TransitionTyped, StatesTyped DEF Kinds
    <2>4. TypeOK'
      BY <1>4, <2>2, <2>3 DEF AuthInvariant, TypeOK, TakeRefreshLock
    <2>5. RefreshStrandedOnlyByTimeout'
      BY <1>4, <2>2 DEF RefreshStrandedOnlyByTimeout
    <2>6. deviceId' = deviceId /\ userTokens' = userTokens
      BY DEF TakeRefreshLock
    <2>7. job'[Router].pc = "relogin" =>
              job'[Router].dev = deviceId' /\ deviceId' \in Devices /\ userTokens' # "none"
      BY <2>2, <2>6, SendersAssumption
      DEF AuthInvariant, RouterWaitsAreItsOwn, At, SendersAssumption
    <2>8. job'[p].pc \in Holding /\ job'[p].pc \notin RouterWaits
      BY <2>2 DEF Holding, RouterWaits
    <2> QED
      BY <1>1, <1>4, <2>2, <2>4, <2>5, <2>7, <2>8, OneTaskMoves, StepFacts
  <1> QED
    BY <1>2, <1>3, <1>4 DEF TakeRefreshLock

\* However a roundtrip ends, p has left it, the others are where they were and
\* the state has left RefreshInFlight.
LEMMA FailureMoves ==
    ASSUME AuthInvariant, NEW p \in Senders, NEW to \in AuthState,
           to.kind # "RefreshInFlight", FailsInto(p, to)
    PROVE  /\ job' \in [Senders -> Job] /\ job'[p].pc \notin Holding \cup RouterWaits
           /\ \A q \in Senders \ {p} : job'[q] = job[q]
           /\ state' \in AuthState /\ state'.kind # "RefreshInFlight"
           /\ tokens' = tokens
  <1>1. /\ job' \in [Senders -> Job] /\ job'[p].pc \notin Holding \cup RouterWaits
        /\ \A q \in Senders \ {p} : job'[q] = job[q]
    BY FinishMoves DEF FailsInto, Holding, RouterWaits
  <1>2. state' \in AuthState /\ state'.kind # "RefreshInFlight"
    BY StepFacts, TransitionTyped, LeavesRefresh DEF FailsInto
  <1> QED
    BY <1>1, <1>2 DEF FailsInto

LEMMA SuccessMoves ==
    ASSUME AuthInvariant, NEW p \in Senders, job[p].pc \in {"refresh", "reissue"},
           StoreFresh(p)
    PROVE  /\ job' \in [Senders -> Job] /\ job'[p].pc \notin Holding \cup RouterWaits
           /\ \A q \in Senders \ {p} : job'[q] = job[q]
           /\ state' \in AuthState /\ state'.kind # "RefreshInFlight"
           /\ tokens' \in [dev: Devices \cup {NoDevice}, fresh: BOOLEAN]
  <1>1. job[p].dev \in Devices
    BY DEF AuthInvariant, RoundtripsNameADevice
  <1>2. Authenticated(job[p].dev) \in AuthState /\ Authenticated(job[p].dev).kind # "RefreshInFlight"
    BY <1>1, StatesTyped DEF Authenticated
  <1>3. state' \in AuthState /\ state'.kind # "RefreshInFlight"
    BY <1>2, StepFacts, TransitionTyped, LeavesRefresh DEF StoreFresh
  <1>4. Leaves(p) \/ Finish(p)
    BY DEF StoreFresh
  <1>5. /\ job' \in [Senders -> Job] /\ job'[p].pc \notin Holding \cup RouterWaits
        /\ \A q \in Senders \ {p} : job'[q] = job[q]
    BY <1>4, FinishMoves, LeavesMoves DEF OnTheWire, Holding, RouterWaits
  <1>6. tokens' \in [dev: Devices \cup {NoDevice}, fresh: BOOLEAN]
    BY <1>1 DEF StoreFresh, Pair
  <1> QED
    BY <1>3, <1>5, <1>6

LEMMA FallBackMoves ==
    ASSUME AuthInvariant, NEW p \in Senders, job[p].pc = "refresh", FallBackToReissue(p)
    PROVE  /\ job' \in [Senders -> Job] /\ job'[p].pc \notin Holding \cup RouterWaits
           /\ \A q \in Senders \ {p} : job'[q] = job[q]
           /\ state' \in AuthState /\ state'.kind # "RefreshInFlight"
           /\ tokens' = tokens
  <1>1. job[p].dev \in Devices
    BY DEF AuthInvariant, RoundtripsNameADevice
  <1>2. Authenticated(job[p].dev) \in AuthState /\ Authenticated(job[p].dev).kind # "RefreshInFlight"
    BY <1>1, StatesTyped DEF Authenticated
  <1>3. state' \in AuthState /\ state'.kind # "RefreshInFlight"
    BY <1>2, StepFacts, TransitionTyped, LeavesRefresh DEF FallBackToReissue
  <1>4. Await(p, "relock", NoDevice) \/ Finish(p)
    BY DEF FallBackToReissue
  <1>5. /\ job' \in [Senders -> Job] /\ job'[p].pc \notin Holding \cup RouterWaits
        /\ \A q \in Senders \ {p} : job'[q] = job[q]
    BY <1>4, FinishMoves, AwaitMoves DEF Holding, RouterWaits
  <1> QED
    BY <1>3, <1>5 DEF FallBackToReissue

\* A roundtrip that is over leaves the invariant.
LEMMA RoundtripEnds ==
    ASSUME AuthInvariant, NEW p \in Senders, job[p].pc \in Holding, lock' = Free,
           job' \in [Senders -> Job], job'[p].pc \notin Holding \cup RouterWaits,
           \A q \in Senders \ {p} : job'[q] = job[q],
           state' \in AuthState, state'.kind # "RefreshInFlight",
           tokens' \in [dev: Devices \cup {NoDevice}, fresh: BOOLEAN],
           UNCHANGED <<deviceId, issued, told, signedOut, timeouts>>,
           userTokens' = userTokens \/ userTokens' = "fresh"
    PROVE  AuthInvariant'
  <1>1. TypeOK'
    BY StepFacts DEF AuthInvariant, TypeOK
  <1>2. lock = p /\ lock' # p
    BY StepFacts DEF AuthInvariant, LockMeansRoundtrip
  <1>3. \A q \in Senders \ {p} : lock' = q <=> lock = q
    BY <1>2, StepFacts
  <1>4. RefreshStrandedOnlyByTimeout'
    BY DEF RefreshStrandedOnlyByTimeout
  <1> QED
    BY <1>1, <1>2, <1>3, <1>4, QuietMove

LEMMA RefreshAnsweredKeeps ==
    ASSUME AuthInvariant, NEW p \in Senders, RefreshAnswered(p)
    PROVE  AuthInvariant'
  <1>1. /\ job[p].pc = "refresh" /\ job[p].pc \in Holding /\ lock' = Free
        /\ UNCHANGED <<userTokens, deviceId, issued, told, signedOut, timeouts>>
    BY DEF RefreshAnswered, At, Holding, DropsGuard
  <1>2. /\ Authenticated(job[p].dev) \in AuthState
        /\ Authenticated(job[p].dev).kind # "RefreshInFlight"
    BY <1>1, StatesTyped DEF AuthInvariant, RoundtripsNameADevice, Authenticated
  <1>3. /\ Plain("DeviceRevoked") \in AuthState /\ Plain("NeedsReauth") \in AuthState
        /\ Plain("DeviceRevoked").kind # "RefreshInFlight"
        /\ Plain("NeedsReauth").kind # "RefreshInFlight"
    BY StatesTyped DEF Plain, Kinds
  <1>4. \/ StoreFresh(p) \/ FallBackToReissue(p)
        \/ \E to \in AuthState : to.kind # "RefreshInFlight" /\ FailsInto(p, to)
    BY <1>2, <1>3 DEF RefreshAnswered
  <1>5. tokens \in [dev: Devices \cup {NoDevice}, fresh: BOOLEAN]
    BY DEF AuthInvariant, TypeOK
  <1>6. /\ job' \in [Senders -> Job] /\ job'[p].pc \notin Holding \cup RouterWaits
        /\ \A q \in Senders \ {p} : job'[q] = job[q]
        /\ state' \in AuthState /\ state'.kind # "RefreshInFlight"
        /\ tokens' \in [dev: Devices \cup {NoDevice}, fresh: BOOLEAN]
    BY <1>1, <1>4, <1>5, SuccessMoves, FallBackMoves, FailureMoves
  <1> QED
    BY <1>1, <1>6, RoundtripEnds

LEMMA ReissueAnsweredKeeps ==
    ASSUME AuthInvariant, NEW p \in Senders, ReissueAnswered(p)
    PROVE  AuthInvariant'
  <1>1. /\ job[p].pc = "reissue" /\ job[p].pc \in Holding /\ lock' = Free
        /\ UNCHANGED <<userTokens, deviceId, issued, told, signedOut, timeouts>>
    BY DEF ReissueAnswered, At, Holding
  <1>2. /\ Authenticated(job[p].dev) \in AuthState
        /\ Authenticated(job[p].dev).kind # "RefreshInFlight"
    BY <1>1, StatesTyped DEF AuthInvariant, RoundtripsNameADevice, Authenticated
  <1>3. /\ Plain("DeviceRevoked") \in AuthState /\ Plain("NeedsReauth") \in AuthState
        /\ Plain("DeviceRevoked").kind # "RefreshInFlight"
        /\ Plain("NeedsReauth").kind # "RefreshInFlight"
    BY StatesTyped DEF Plain, Kinds
  <1>4. \/ StoreFresh(p)
        \/ \E to \in AuthState : to.kind # "RefreshInFlight" /\ FailsInto(p, to)
    BY <1>2, <1>3 DEF ReissueAnswered
  <1>5. tokens \in [dev: Devices \cup {NoDevice}, fresh: BOOLEAN]
    BY DEF AuthInvariant, TypeOK
  <1>6. /\ job' \in [Senders -> Job] /\ job'[p].pc \notin Holding \cup RouterWaits
        /\ \A q \in Senders \ {p} : job'[q] = job[q]
        /\ state' \in AuthState /\ state'.kind # "RefreshInFlight"
        /\ tokens' \in [dev: Devices \cup {NoDevice}, fresh: BOOLEAN]
    BY <1>1, <1>4, <1>5, SuccessMoves, FailureMoves
  <1> QED
    BY <1>1, <1>6, RoundtripEnds

\* A task that takes the lock, or keeps it, for a roundtrip.
LEMMA RoundtripBegins ==
    ASSUME AuthInvariant, NEW p \in Senders, lock \in {Free, p}, lock' = p, TypeOK',
           job'[p].pc \in Holding, \A q \in Senders \ {p} : job'[q] = job[q],
           job'[p].pc \in {"refresh", "reissue"} => job'[p].dev \in Devices,
           RefreshStrandedOnlyByTimeout', deviceId' = deviceId,
           userTokens' = userTokens \/ userTokens' = "fresh"
    PROVE  AuthInvariant'
  <1>1. job'[p].pc \notin RouterWaits /\ job'[p].pc # "relogin"
    BY DEF Holding, RouterWaits
  <1>2. job'[Router].pc = "relogin" =>
            job'[Router].dev = deviceId' /\ deviceId' \in Devices /\ userTokens' # "none"
    BY <1>1, SendersAssumption
    DEF AuthInvariant, RouterWaitsAreItsOwn, At, SendersAssumption
  <1>3. \A q \in Senders \ {p} : lock' = q <=> lock = q
    BY StepFacts
  <1> QED
    BY <1>1, <1>2, <1>3, OneTaskMoves

\* The state check of reissue_device_tokens, under the lock.
LEMMA StartReissueKeeps ==
    ASSUME AuthInvariant, NEW p \in Senders, StartReissue(p), lock \in {Free, p},
           job[p].pc \in {"relock", "userRefresh"},
           UNCHANGED <<tokens, deviceId, issued, told, signedOut, timeouts>>,
           userTokens' = userTokens \/ userTokens' = "fresh"
    PROVE  AuthInvariant'
  <1>1. CASE /\ state.kind = "Authenticated" /\ transition(Plain("RefreshInFlight"))
             /\ lock' = p /\ Await(p, "reissue", state.dev)
    <2>1. state.dev \in Devices
      BY <1>1, StepFacts, StateShape
    <2>2. /\ job' \in [Senders -> Job] /\ job'[p].pc = "reissue" /\ job'[p].dev \in Devices
          /\ \A q \in Senders \ {p} : job'[q] = job[q]
      BY <1>1, <2>1, AwaitMoves DEF Holding
    <2>3. state' \in AuthState
      BY <1>1, StepFacts, TransitionTyped, StatesTyped DEF Kinds
    <2>4. TypeOK'
      BY <1>1, <2>2, <2>3 DEF AuthInvariant, TypeOK
    <2>5. RefreshStrandedOnlyByTimeout'
      BY <1>1, <2>2 DEF RefreshStrandedOnlyByTimeout
    <2>6. job'[p].pc \in Holding
      BY <2>2 DEF Holding
    <2> QED
      BY <1>1, <2>2, <2>4, <2>5, <2>6, RoundtripBegins
  <1>2. CASE lock' = Free /\ Finish(p) /\ UNCHANGED state
    <2>1. /\ job' \in [Senders -> Job] /\ job'[p].pc \notin Holding \cup RouterWaits
          /\ \A q \in Senders \ {p} : job'[q] = job[q]
      BY <1>2, FinishMoves DEF Holding, RouterWaits
    <2>2. TypeOK'
      BY <1>2, <2>1 DEF AuthInvariant, TypeOK
    <2>3. \A q \in Senders \ {p} : lock' = q <=> lock = q
      BY <1>2, StepFacts
    <2>4. RefreshStrandedOnlyByTimeout'
      BY <1>2, <2>1, <2>3 DEF AuthInvariant, RefreshStrandedOnlyByTimeout
    <2>5. lock' # p
      BY <1>2, StepFacts
    <2>6. deviceId' = deviceId /\ (userTokens' = userTokens \/ userTokens' # "none")
      OBVIOUS
    <2> QED
      BY <2>1, <2>2, <2>3, <2>4, <2>5, <2>6, QuietMove
  <1> QED
    BY <1>1, <1>2 DEF StartReissue

LEMMA TakeReissueLockKeeps ==
    ASSUME AuthInvariant, NEW p \in Senders, TakeReissueLock(p)
    PROVE  AuthInvariant'
  <1>1. /\ job[p].pc = "relock" /\ lock = Free /\ lock # p
        /\ UNCHANGED <<userTokens, deviceId, issued, told, signedOut, timeouts>>
    BY StepFacts DEF TakeReissueLock, At
  <1>2. CASE FailsInto(p, Plain("NeedsReauth")) /\ UNCHANGED lock
    <2>1. Plain("NeedsReauth") \in AuthState /\ Plain("NeedsReauth").kind # "RefreshInFlight"
      BY StatesTyped DEF Plain, Kinds
    <2>2. /\ job' \in [Senders -> Job] /\ job'[p].pc \notin Holding \cup RouterWaits
          /\ \A q \in Senders \ {p} : job'[q] = job[q]
          /\ state' \in AuthState /\ state'.kind # "RefreshInFlight"
          /\ tokens' = tokens
      BY <1>2, <2>1, FailureMoves
    <2>3. TypeOK'
      BY <1>1, <1>2, <2>2 DEF AuthInvariant, TypeOK
    <2>4. RefreshStrandedOnlyByTimeout'
      BY <2>2 DEF RefreshStrandedOnlyByTimeout
    <2> QED
      BY <1>1, <1>2, <2>2, <2>3, <2>4, QuietMove
  <1>3. CASE lock' = p /\ Await(p, "userRefresh", NoDevice) /\ UNCHANGED <<state, tokens>>
    <2>1. /\ job' \in [Senders -> Job] /\ job'[p].pc = "userRefresh"
          /\ \A q \in Senders \ {p} : job'[q] = job[q]
      BY <1>3, AwaitMoves DEF Holding
    <2>2. TypeOK'
      BY <1>1, <1>3, <2>1 DEF AuthInvariant, TypeOK
    <2>3. RefreshStrandedOnlyByTimeout'
      BY <1>1, <1>3, <2>1, StepFacts
      DEF AuthInvariant, RefreshStrandedOnlyByTimeout
    <2>4. job'[p].pc \in Holding
      BY <2>1 DEF Holding
    <2> QED
      BY <1>1, <1>3, <2>1, <2>2, <2>3, <2>4, RoundtripBegins
  <1>4. CASE StartReissue(p) /\ UNCHANGED tokens
    BY <1>1, <1>4, StartReissueKeeps
  <1> QED
    BY <1>2, <1>3, <1>4 DEF TakeReissueLock

LEMMA UserRefreshAnsweredKeeps ==
    ASSUME AuthInvariant, NEW p \in Senders, UserRefreshAnswered(p)
    PROVE  AuthInvariant'
  <1>1. /\ job[p].pc = "userRefresh" /\ job[p].pc \in Holding
        /\ UNCHANGED <<deviceId, issued, told, signedOut, timeouts>>
    BY DEF UserRefreshAnswered, At, Holding
  <1>2. lock = p
    BY <1>1 DEF AuthInvariant, LockMeansRoundtrip
  <1>3. CASE userTokens' = "fresh" /\ StartReissue(p) /\ UNCHANGED tokens
    BY <1>1, <1>2, <1>3, StartReissueKeeps
  <1>4. CASE FailsInto(p, Plain("NeedsReauth")) /\ lock' = Free /\ UNCHANGED userTokens
    <2>1. Plain("NeedsReauth") \in AuthState /\ Plain("NeedsReauth").kind # "RefreshInFlight"
      BY StatesTyped DEF Plain, Kinds
    <2>2. /\ job' \in [Senders -> Job] /\ job'[p].pc \notin Holding \cup RouterWaits
          /\ \A q \in Senders \ {p} : job'[q] = job[q]
          /\ state' \in AuthState /\ state'.kind # "RefreshInFlight"
          /\ tokens' = tokens
      BY <1>4, <2>1, FailureMoves
    <2>3. tokens' \in [dev: Devices \cup {NoDevice}, fresh: BOOLEAN]
      BY <2>2 DEF AuthInvariant, TypeOK
    <2> QED
      BY <1>1, <1>4, <2>2, <2>3, RoundtripEnds
  <1> QED
    BY <1>3, <1>4 DEF UserRefreshAnswered

\* A session cleared is a session typed, and Unauthenticated from every state.
LEMMA ClearedSession ==
    ASSUME AuthInvariant, NEW c \in BOOLEAN, ClearLocalSession(c)
    PROVE  /\ state' \in AuthState /\ state'.kind # "RefreshInFlight"
           /\ tokens' \in [dev: Devices \cup {NoDevice}, fresh: BOOLEAN]
           /\ userTokens' \in {"none", "fresh", "stale"}
           /\ deviceId' \in Devices \cup {NoDevice}
           /\ signedOut' \in BOOLEAN
  <1>1. state \in AuthState /\ deviceId \in Devices \cup {NoDevice}
    BY DEF AuthInvariant, TypeOK
  <1>2. Plain("Unauthenticated") \in AuthState /\ Plain("Unauthenticated").kind # "RefreshInFlight"
    BY StatesTyped DEF Plain, Kinds
  <1>3. state' \in AuthState /\ state'.kind # "RefreshInFlight"
    BY <1>1, <1>2, TransitionTyped, LeavesRefresh DEF ClearLocalSession
  <1>4. /\ tokens' \in [dev: Devices \cup {NoDevice}, fresh: BOOLEAN]
        /\ signedOut' \in BOOLEAN
    BY DEF ClearLocalSession, NoTokens
  <1>5. /\ userTokens' \in {"none", "fresh", "stale"}
        /\ deviceId' \in Devices \cup {NoDevice}
    BY <1>1 DEF ClearLocalSession
  <1> QED
    BY <1>3, <1>4, <1>5

LEMMA AnsweredKeeps ==
    ASSUME AuthInvariant, DeletesAreTheRouters, NEW p \in Senders, Answered(p)
    PROVE  AuthInvariant'
  <1>1. /\ job[p].pc \in OnTheWire /\ job[p].pc \notin Holding
        /\ UNCHANGED <<lock, issued, told, timeouts>>
    BY DEF Answered, OnTheWire, Holding
  <1>2. lock # p
    BY <1>1 DEF AuthInvariant, LockMeansRoundtrip
  <1>3. job \in [Senders -> Job] /\ job[p] \in Job
    BY StepFacts
  <1>4. CASE /\ \/ job' = [job EXCEPT ![p].pc = "lock", ![p].then = "retried"]
                \/ job' = [job EXCEPT ![p].pc = "relock", ![p].then = "resent"]
                \/ Finish(p)
             /\ UNCHANGED <<state, tokens, userTokens, deviceId, signedOut>>
    <2>1. /\ job' \in [Senders -> Job] /\ job'[p].pc \in {"lock", "relock", "idle"}
          /\ \A q \in Senders \ {p} : job'[q] = job[q]
      BY <1>3, <1>4, FinishMoves DEF Job, OnTheWire
    <2>2. job'[p].pc \notin Holding \cup RouterWaits
      BY <2>1 DEF Holding, RouterWaits
    <2>3. TypeOK'
      BY <1>1, <1>4, <2>1 DEF AuthInvariant, TypeOK
    <2>4. RefreshStrandedOnlyByTimeout'
      BY <1>1, <1>4, <2>1, OthersRoundtrip
    <2> QED
      BY <1>1, <1>2, <1>4, <2>1, <2>2, <2>3, <2>4, QuietMove
  <1>5. CASE /\ \E k \in {"DeviceRevoked", "NeedsReauth"} : FailsInto(p, Plain(k))
             /\ UNCHANGED <<userTokens, deviceId, signedOut>>
    <2>1. PICK k \in {"DeviceRevoked", "NeedsReauth"} : FailsInto(p, Plain(k))
      BY <1>5
    <2>2. Plain(k) \in AuthState /\ Plain(k).kind # "RefreshInFlight"
      BY StatesTyped DEF Plain, Kinds
    <2>3. /\ job' \in [Senders -> Job] /\ job'[p].pc \notin Holding \cup RouterWaits
          /\ \A q \in Senders \ {p} : job'[q] = job[q]
          /\ state' \in AuthState /\ state'.kind # "RefreshInFlight"
          /\ tokens' = tokens
      BY <2>1, <2>2, FailureMoves
    <2>4. TypeOK'
      BY <1>1, <1>5, <2>3 DEF AuthInvariant, TypeOK
    <2>5. RefreshStrandedOnlyByTimeout'
      BY <2>3 DEF RefreshStrandedOnlyByTimeout
    <2> QED
      BY <1>1, <1>2, <1>5, <2>3, <2>4, <2>5, QuietMove
  <1>6. CASE job[p].goal = "delete" /\ Finish(p) /\ ClearLocalSession(TRUE)
    <2>1. p = Router
      BY <1>6 DEF DeletesAreTheRouters
    <2>2. /\ job' \in [Senders -> Job] /\ job'[p].pc \notin Holding \cup RouterWaits
          /\ \A q \in Senders \ {p} : job'[q] = job[q]
      BY <1>6, FinishMoves DEF Holding, RouterWaits
    <2>3. TypeOK'
      BY <1>1, <1>6, <2>2, ClearedSession DEF AuthInvariant, TypeOK
    <2>4. RefreshStrandedOnlyByTimeout'
      BY <1>6, ClearedSession DEF RefreshStrandedOnlyByTimeout
    <2>5. lock' # p /\ (\A q \in Senders \ {p} : lock' = q <=> lock = q)
      BY <1>1, <1>2
    <2> QED
      BY <2>1, <2>2, <2>3, <2>4, <2>5, QuietMove
  <1> QED
    BY <1>4, <1>5, <1>6 DEF Answered

LEMMA PollTimesOutKeeps ==
    ASSUME AuthInvariant, NEW p \in Senders, PollTimesOut(p)
    PROVE  AuthInvariant'
  <1>1. timeouts \in 0..MaxTimeouts /\ timeouts < MaxTimeouts /\ MaxTimeouts \in Nat
    BY BoundsAssumption DEF AuthInvariant, TypeOK, PollTimesOut, BoundsAssumption
  <1>2. timeouts' \in 0..MaxTimeouts /\ timeouts' > 0
    BY <1>1 DEF PollTimesOut
  <1>3. /\ job' \in [Senders -> Job] /\ job'[p].pc \notin Holding \cup RouterWaits
        /\ \A q \in Senders \ {p} : job'[q] = job[q]
    BY FinishMoves DEF PollTimesOut, Holding, RouterWaits
  <1>4. lock' # p /\ lock' \in Senders \cup {Free} /\ \A q \in Senders \ {p} : lock' = q <=> lock = q
    BY StepFacts DEF PollTimesOut
  <1>5. TypeOK'
    BY <1>2, <1>3, <1>4 DEF AuthInvariant, TypeOK, PollTimesOut
  <1>6. RefreshStrandedOnlyByTimeout'
    BY <1>2 DEF RefreshStrandedOnlyByTimeout
  <1>7. UNCHANGED <<deviceId, userTokens>>
    BY DEF PollTimesOut
  <1> QED
    BY <1>3, <1>4, <1>5, <1>6, <1>7, QuietMove

-----------------------------------------------------------------------------
(* The router's own operations.  None takes the lock. *)

\* A step of the router alone, outside a roundtrip.
LEMMA RouterMoves ==
    ASSUME AuthInvariant, job[Router].pc \notin Holding, TypeOK', lock' = lock,
           \A q \in Senders \ {Router} : job'[q] = job[q],
           job'[Router].pc \notin Holding,
           RefreshStrandedOnlyByTimeout',
           job'[Router].pc = "relogin" =>
               job'[Router].dev = deviceId' /\ deviceId' \in Devices /\ userTokens' # "none"
    PROVE  AuthInvariant'
  <1>1. Router \in Senders
    BY SendersAssumption DEF SendersAssumption
  <1>2. lock' # Router
    BY <1>1 DEF AuthInvariant, LockMeansRoundtrip
  <1>3. job'[Router].pc \notin {"refresh", "reissue"}
    BY DEF Holding
  <1> QED
    BY <1>1, <1>2, <1>3, OneTaskMoves

LEMMA LogInKeeps ==
    ASSUME AuthInvariant, LogIn
    PROVE  AuthInvariant'
  <1>1. Router \in Senders /\ job[Router].pc = "idle"
    BY SendersAssumption DEF SendersAssumption, LogIn, Idle
  <1>2. /\ job' \in [Senders -> Job] /\ job'[Router].pc = "credentials"
        /\ \A q \in Senders \ {Router} : job'[q] = job[q]
    BY <1>1, AwaitMoves DEF LogIn, RouterWaitsFor, RouterWaits
  <1>3. told' \in BOOLEAN /\ signedOut' \in BOOLEAN
    BY DEF LogIn
  <1>4. TypeOK'
    BY <1>2, <1>3 DEF AuthInvariant, TypeOK, LogIn
  <1>5. RefreshStrandedOnlyByTimeout'
    BY <1>1, <1>2, OthersRoundtrip DEF LogIn, Holding
  <1>6. job[Router].pc \notin Holding /\ job'[Router].pc \notin Holding /\ job'[Router].pc # "relogin"
    BY <1>1, <1>2 DEF Holding
  <1> QED
    BY <1>2, <1>4, <1>5, <1>6, RouterMoves DEF LogIn

LEMMA CredentialsAnsweredKeeps ==
    ASSUME AuthInvariant, CredentialsAnswered
    PROVE  AuthInvariant'
  <1>1. Router \in Senders /\ job[Router].pc = "credentials"
    BY SendersAssumption DEF SendersAssumption, CredentialsAnswered, At
  <1>2. deviceId \in Devices \cup {NoDevice}
    BY DEF AuthInvariant, TypeOK
  <1>3. /\ job' \in [Senders -> Job] /\ job'[Router].pc \in {"relogin", "register", "idle"}
        /\ \A q \in Senders \ {Router} : job'[q] = job[q]
    BY <1>1, <1>2, AwaitMoves, FinishMoves DEF CredentialsAnswered, RouterWaitsFor, RouterWaits
  <1>4. userTokens' \in {"none", "fresh", "stale"}
    BY DEF AuthInvariant, TypeOK, CredentialsAnswered
  <1>5. TypeOK'
    BY <1>3, <1>4 DEF AuthInvariant, TypeOK, CredentialsAnswered
  <1>6. RefreshStrandedOnlyByTimeout'
    BY <1>1, <1>3, OthersRoundtrip DEF CredentialsAnswered, Holding
  <1>7. job[Router].pc \notin Holding /\ job'[Router].pc \notin Holding
    BY <1>1, <1>3 DEF Holding
  <1>8. job'[Router].pc = "relogin" =>
            job'[Router].dev = deviceId' /\ deviceId' \in Devices /\ userTokens' # "none"
    <2>1. CASE deviceId # NoDevice /\ userTokens' = "fresh" /\ RouterWaitsFor("relogin", deviceId)
      BY <1>1, <1>2, <2>1, AwaitMoves DEF RouterWaitsFor, RouterWaits, CredentialsAnswered
    <2>2. CASE RouterWaitsFor("register", NoDevice) \/ Finish(Router)
      BY <1>1, <2>2, AwaitMoves, FinishMoves DEF RouterWaitsFor, RouterWaits
    <2> QED
      BY <2>1, <2>2 DEF CredentialsAnswered
  <1> QED
    BY <1>3, <1>5, <1>6, <1>7, <1>8, RouterMoves DEF CredentialsAnswered

LEMMA LoginReissueAnsweredKeeps ==
    ASSUME AuthInvariant, LoginReissueAnswered
    PROVE  AuthInvariant'
  <1>1. Router \in Senders /\ job[Router].pc = "relogin"
    BY SendersAssumption DEF SendersAssumption, LoginReissueAnswered, At
  <1>2. job[Router].dev \in Devices
    BY <1>1 DEF AuthInvariant, RouterWaitsAreItsOwn, At
  <1>3. /\ job' \in [Senders -> Job] /\ job'[Router].pc \in {"register", "idle"}
        /\ \A q \in Senders \ {Router} : job'[q] = job[q]
    BY <1>1, AwaitMoves, FinishMoves DEF LoginReissueAnswered, RouterWaitsFor, RouterWaits
  <1>4. Authenticated(job[Router].dev) \in AuthState
        /\ Authenticated(job[Router].dev).kind # "RefreshInFlight"
    BY <1>2, StatesTyped DEF Authenticated
  <1>5. state \in AuthState
    BY DEF AuthInvariant, TypeOK
  <1>6. state' \in AuthState /\ (state'.kind = "RefreshInFlight" => state.kind = "RefreshInFlight")
    BY <1>4, <1>5, TransitionTyped, LeavesRefresh DEF LoginReissueAnswered
  <1>7. /\ tokens' \in [dev: Devices \cup {NoDevice}, fresh: BOOLEAN]
        /\ told' \in BOOLEAN
    <2>1. CASE tokens' = Pair(job[Router].dev, TRUE) /\ told' = TRUE
      BY <1>2, <2>1 DEF Pair
    <2>2. CASE UNCHANGED <<tokens, told>>
      BY <2>2 DEF AuthInvariant, TypeOK
    <2> QED
      BY <2>1, <2>2 DEF LoginReissueAnswered
  <1>8. deviceId' \in Devices \cup {NoDevice}
    BY DEF AuthInvariant, TypeOK, LoginReissueAnswered
  <1>9. TypeOK'
    BY <1>3, <1>6, <1>7, <1>8 DEF AuthInvariant, TypeOK, LoginReissueAnswered
  <1>10. RefreshStrandedOnlyByTimeout'
    BY <1>1, <1>3, <1>6, OthersRoundtrip DEF LoginReissueAnswered, Holding
  <1>11. /\ job[Router].pc \notin Holding /\ job'[Router].pc \notin Holding
         /\ job'[Router].pc # "relogin"
    BY <1>1, <1>3 DEF Holding
  <1> QED
    BY <1>3, <1>9, <1>10, <1>11, RouterMoves DEF LoginReissueAnswered

LEMMA RegisterAnsweredKeeps ==
    ASSUME AuthInvariant, RegisterAnswered
    PROVE  AuthInvariant'
  <1>1. Router \in Senders /\ job[Router].pc = "register"
    BY SendersAssumption DEF SendersAssumption, RegisterAnswered, At
  <1>2. /\ job' \in [Senders -> Job] /\ job'[Router].pc = "idle"
        /\ \A q \in Senders \ {Router} : job'[q] = job[q]
    BY <1>1, FinishMoves DEF RegisterAnswered
  <1>3. /\ state' \in AuthState /\ (state'.kind = "RefreshInFlight" => state.kind = "RefreshInFlight")
        /\ tokens' \in [dev: Devices \cup {NoDevice}, fresh: BOOLEAN]
        /\ told' \in BOOLEAN
        /\ userTokens' \in {"none", "fresh", "stale"}
        /\ deviceId' \in Devices \cup {NoDevice}
        /\ issued' \subseteq Devices
    <2>0. state \in AuthState /\ issued \subseteq Devices
      BY DEF AuthInvariant, TypeOK
    <2>1. CASE UNCHANGED <<state, tokens, userTokens, deviceId, issued, told>>
      BY <2>1 DEF AuthInvariant, TypeOK
    <2>2. ASSUME NEW d \in Devices \ issued, issued' = issued \cup {d},
                 tokens' = Pair(d, TRUE) /\ deviceId' = d /\ userTokens' = "fresh",
                 transition(Authenticated(d)), told' = TRUE
          PROVE  <1>3!:
      <3>1. Authenticated(d) \in AuthState /\ Authenticated(d).kind # "RefreshInFlight"
        BY StatesTyped DEF Authenticated
      <3>2. state' \in AuthState /\ state'.kind # "RefreshInFlight"
        BY <2>0, <2>2, <3>1, TransitionTyped, LeavesRefresh
      <3>3. tokens' \in [dev: Devices \cup {NoDevice}, fresh: BOOLEAN] /\ told' \in BOOLEAN
        BY <2>2 DEF Pair
      <3> QED
        BY <2>0, <2>2, <3>2, <3>3
    <2> QED
      BY <2>1, <2>2 DEF RegisterAnswered
  <1>4. TypeOK'
    BY <1>2, <1>3 DEF AuthInvariant, TypeOK, RegisterAnswered
  <1>5. RefreshStrandedOnlyByTimeout'
    BY <1>1, <1>2, <1>3, OthersRoundtrip DEF RegisterAnswered, Holding
  <1>6. /\ job[Router].pc \notin Holding /\ job'[Router].pc \notin Holding
        /\ job'[Router].pc # "relogin"
    BY <1>1, <1>2 DEF Holding
  <1> QED
    BY <1>2, <1>4, <1>5, <1>6, RouterMoves DEF RegisterAnswered

LEMMA AuthSessionKeeps ==
    ASSUME AuthInvariant, NEW d \in Devices, NEW fresh \in BOOLEAN,
           NEW user \in {"none", "fresh", "stale"}, AuthSession(d, fresh, user)
    PROVE  AuthInvariant'
  <1>1. Router \in Senders /\ job[Router].pc = "idle"
    BY SendersAssumption DEF SendersAssumption, AuthSession, Idle
  <1>2. job \in [Senders -> Job] /\ state \in AuthState
    BY DEF AuthInvariant, TypeOK
  <1>3. Authenticated(d) \in AuthState /\ Authenticated(d).kind # "RefreshInFlight"
    BY StatesTyped DEF Authenticated
  <1>4. state' \in AuthState /\ state'.kind # "RefreshInFlight"
    BY <1>2, <1>3, TransitionTyped, LeavesRefresh DEF AuthSession
  <1>5. Started("api", fresh) \in Job /\ Started("api", fresh).pc \in {"sent", "lock"}
    BY DEF Started, Job, Goals, OnTheWire
  <1>6. /\ job' \in [Senders -> Job] /\ job'[Router].pc \in {"sent", "lock", "idle"}
        /\ \A q \in Senders \ {Router} : job'[q] = job[q]
    BY <1>1, <1>2, <1>5 DEF AuthSession
  <1>7. /\ tokens' \in [dev: Devices \cup {NoDevice}, fresh: BOOLEAN]
        /\ told' \in BOOLEAN /\ signedOut' \in BOOLEAN
    BY DEF AuthSession, Pair
  <1>8. userTokens' \in {"none", "fresh", "stale"} /\ deviceId' \in Devices \cup {NoDevice}
    BY DEF AuthInvariant, TypeOK, AuthSession
  <1>9. TypeOK'
    BY <1>4, <1>6, <1>7, <1>8 DEF AuthInvariant, TypeOK, AuthSession
  <1>10. RefreshStrandedOnlyByTimeout'
    BY <1>4 DEF RefreshStrandedOnlyByTimeout
  <1>11. /\ job[Router].pc \notin Holding /\ job'[Router].pc \notin Holding
         /\ job'[Router].pc # "relogin"
    BY <1>1, <1>6 DEF Holding
  <1> QED
    BY <1>6, <1>9, <1>10, <1>11, RouterMoves DEF AuthSession

LEMMA LogOutKeeps ==
    ASSUME AuthInvariant, LogOut
    PROVE  AuthInvariant'
  <1>1. Router \in Senders /\ job[Router].pc = "idle" /\ job \in [Senders -> Job]
    BY SendersAssumption DEF SendersAssumption, LogOut, Idle, AuthInvariant, TypeOK
  <1>2. told' \in BOOLEAN
    BY DEF LogOut
  <1>3. CASE /\ transition(Plain("Unauthenticated"))
             /\ RouterWaitsFor("logout", NoDevice)
             /\ UNCHANGED <<tokens, userTokens, deviceId, signedOut>>
    <2>1. /\ job' \in [Senders -> Job] /\ job'[Router].pc = "logout"
          /\ \A q \in Senders \ {Router} : job'[q] = job[q]
      BY <1>1, <1>3, AwaitMoves DEF RouterWaitsFor, RouterWaits
    <2>2. state \in AuthState /\ Plain("Unauthenticated") \in AuthState
          /\ Plain("Unauthenticated").kind # "RefreshInFlight"
      BY StatesTyped DEF AuthInvariant, TypeOK, Plain, Kinds
    <2>3. state' \in AuthState /\ state'.kind # "RefreshInFlight"
      BY <1>3, <2>2, TransitionTyped, LeavesRefresh
    <2>4. TypeOK'
      BY <1>2, <1>3, <2>1, <2>3 DEF AuthInvariant, TypeOK, LogOut
    <2>5. RefreshStrandedOnlyByTimeout'
      BY <2>3 DEF RefreshStrandedOnlyByTimeout
    <2>6. /\ job[Router].pc \notin Holding /\ job'[Router].pc \notin Holding
          /\ job'[Router].pc # "relogin"
      BY <1>1, <2>1 DEF Holding
    <2> QED
      BY <2>1, <2>4, <2>5, <2>6, RouterMoves DEF LogOut
  <1>4. CASE ClearLocalSession(FALSE) /\ UNCHANGED job
    <2>1. TypeOK'
      BY <1>1, <1>2, <1>4, ClearedSession DEF AuthInvariant, TypeOK, LogOut
    <2>2. RefreshStrandedOnlyByTimeout'
      BY <1>4, ClearedSession DEF RefreshStrandedOnlyByTimeout
    <2>3. /\ job[Router].pc \notin Holding /\ job'[Router].pc \notin Holding
          /\ job'[Router].pc # "relogin"
          /\ \A q \in Senders \ {Router} : job'[q] = job[q]
      BY <1>1, <1>4 DEF Holding
    <2> QED
      BY <2>1, <2>2, <2>3, RouterMoves DEF LogOut
  <1> QED
    BY <1>3, <1>4 DEF LogOut

LEMMA LogoutAnsweredKeeps ==
    ASSUME AuthInvariant, LogoutAnswered
    PROVE  AuthInvariant'
  <1>1. Router \in Senders /\ job[Router].pc = "logout"
    BY SendersAssumption DEF SendersAssumption, LogoutAnswered, At
  <1>2. /\ job' \in [Senders -> Job] /\ job'[Router].pc = "idle"
        /\ \A q \in Senders \ {Router} : job'[q] = job[q]
    BY <1>1, FinishMoves DEF LogoutAnswered
  <1>3. TypeOK'
    BY <1>2, ClearedSession DEF AuthInvariant, TypeOK, LogoutAnswered
  <1>4. RefreshStrandedOnlyByTimeout'
    BY ClearedSession DEF RefreshStrandedOnlyByTimeout, LogoutAnswered
  <1>5. /\ job[Router].pc \notin Holding /\ job'[Router].pc \notin Holding
        /\ job'[Router].pc # "relogin"
    BY <1>1, <1>2 DEF Holding
  <1> QED
    BY <1>2, <1>3, <1>4, <1>5, RouterMoves DEF LogoutAnswered

LEMMA TokensAgeKeeps ==
    ASSUME AuthInvariant, TokensAge
    PROVE  AuthInvariant'
  <1>0. tokens \in [dev: Devices \cup {NoDevice}, fresh: BOOLEAN]
        /\ tokens.dev \in Devices \cup {NoDevice}
    BY DEF AuthInvariant, TypeOK
  <1>1. tokens' \in [dev: Devices \cup {NoDevice}, fresh: BOOLEAN]
    <2>1. CASE tokens' = Pair(tokens.dev, FALSE)
      BY <1>0, <2>1 DEF Pair
    <2>2. CASE tokens' = tokens
      BY <1>0, <2>2
    <2> QED
      BY <2>1, <2>2 DEF TokensAge
  <1>2. userTokens' \in {"none", "fresh", "stale"} /\ (userTokens # "none" => userTokens' # "none")
    BY DEF AuthInvariant, TypeOK, TokensAge
  <1>3. TypeOK'
    BY <1>1, <1>2 DEF AuthInvariant, TypeOK, TokensAge
  <1> QED
    BY <1>2, <1>3
    DEF AuthInvariant, RoundtripsNameADevice, LockMeansRoundtrip, RefreshStrandedOnlyByTimeout,
        RouterWaitsAreItsOwn, At, TokensAge

-----------------------------------------------------------------------------
(* The invariant is inductive *)

\* Finishing, sending, waiting: no helper gives a task another goal.
LEMMA DeletesKeep ==
    ASSUME AuthInvariant, DeletesAreTheRouters, [Next]_vars
    PROVE  DeletesAreTheRouters'
  <1>1. job \in [Senders -> Job] /\ Router \in Senders
    BY SendersAssumption DEF AuthInvariant, TypeOK, SendersAssumption
  <1>2. SUFFICES ASSUME NEW q \in Senders \ {Router} PROVE job'[q].goal = "api"
    BY DEF DeletesAreTheRouters
  <1>3. job[q].goal = "api" /\ job[q] \in Job
    BY <1>1 DEF DeletesAreTheRouters
  <1>4. CASE job' = job
    BY <1>3, <1>4
  <1>5. ASSUME NEW p \in Senders, NEW j, job' = [job EXCEPT ![p] = j],
               p = q => j.goal = "api"
        PROVE  job'[q].goal = "api"
    BY <1>1, <1>3, <1>5
  <1>6. ASSUME NEW p \in Senders, NEW x, NEW y,
               \/ job' = [job EXCEPT ![p].pc = x, ![p].dev = y]
               \/ job' = [job EXCEPT ![p].pc = x, ![p].then = y]
        PROVE  job'[q].goal = "api"
    BY <1>1, <1>3, <1>6 DEF Job
  <1>7. Idle.goal = "api"
    BY DEF Idle
  <1>8. ASSUME NEW p \in Senders, Finish(p) PROVE job'[q].goal = "api"
    BY <1>5, <1>7, <1>8 DEF Finish
  <1>9. ASSUME NEW p \in Senders, Leaves(p) PROVE job'[q].goal = "api"
    BY <1>6, <1>9 DEF Leaves
  <1>10. ASSUME NEW p \in Senders, NEW pc, NEW d, Await(p, pc, d)
         PROVE  job'[q].goal = "api"
    BY <1>6, <1>10 DEF Await
  <1>11. ASSUME NEW p \in Senders, NEW goal \in Goals, BeginSend(p, goal)
         PROVE  job'[q].goal = "api"
    <2>1. p = q => Started(goal, tokens.fresh).goal = "api"
      BY <1>11 DEF BeginSend, Started, Goals
    <2> QED
      BY <1>5, <1>11, <2>1 DEF BeginSend
  <1>12. ASSUME NEW p \in Senders, TakesLock(p) \/ AnswerArrives(p) \/ PollTimesOut(p)
         PROVE  job'[q].goal = "api"
    <2>1. CASE TakeRefreshLock(p)
      BY <1>8, <1>9, <1>10, <2>1 DEF TakeRefreshLock
    <2>2. CASE TakeReissueLock(p)
      BY <1>8, <1>10, <2>2 DEF TakeReissueLock, FailsInto, StartReissue
    <2>3. CASE RefreshAnswered(p)
      BY <1>8, <1>9, <1>10, <2>3 DEF RefreshAnswered, StoreFresh, FailsInto, FallBackToReissue
    <2>4. CASE UserRefreshAnswered(p)
      BY <1>8, <1>10, <2>4 DEF UserRefreshAnswered, FailsInto, StartReissue
    <2>5. CASE ReissueAnswered(p)
      BY <1>8, <1>9, <2>5 DEF ReissueAnswered, StoreFresh, FailsInto
    <2>6. CASE Answered(p)
      BY <1>6, <1>8, <2>6 DEF Answered, FailsInto
    <2>7. CASE PollTimesOut(p)
      BY <1>8, <2>7 DEF PollTimesOut
    <2> QED
      BY <1>12, <2>1, <2>2, <2>3, <2>4, <2>5, <2>6, <2>7 DEF TakesLock, AnswerArrives
  <1>13. CASE LogIn \/ LogOut \/ RouterAnswerArrives
    BY <1>1, <1>4, <1>8, <1>10, <1>13
    DEF LogIn, LogOut, RouterAnswerArrives, CredentialsAnswered, LoginReissueAnswered,
        RegisterAnswered, LogoutAnswered, RouterWaitsFor
  <1>14. ASSUME NEW d \in Devices, NEW fresh \in BOOLEAN,
                NEW user \in {"none", "fresh", "stale"}, AuthSession(d, fresh, user)
         PROVE  job'[q].goal = "api"
    <2>1. Started("api", fresh).goal = "api"
      BY DEF Started
    <2> QED
      BY <1>1, <1>4, <1>5, <1>14, <2>1 DEF AuthSession
  <1>15. CASE TokensAge \/ UNCHANGED vars
    BY <1>4, <1>15 DEF TokensAge, vars
  <1> QED
    BY <1>11, <1>12, <1>13, <1>14, <1>15 DEF Next

LEMMA AuthInductive ==
    ASSUME AuthInvariant, DeletesAreTheRouters, [Next]_vars
    PROVE  AuthInvariant'
  <1>1. ASSUME NEW p \in Senders, NEW goal \in Goals, BeginSend(p, goal) PROVE AuthInvariant'
    BY <1>1, BeginSendKeeps
  <1>2. ASSUME NEW p \in Senders, TakesLock(p) PROVE AuthInvariant'
    BY <1>2, TakeRefreshLockKeeps, TakeReissueLockKeeps DEF TakesLock
  <1>3. ASSUME NEW p \in Senders, AnswerArrives(p) PROVE AuthInvariant'
    BY <1>3, RefreshAnsweredKeeps, UserRefreshAnsweredKeeps, ReissueAnsweredKeeps, AnsweredKeeps
    DEF AnswerArrives
  <1>4. ASSUME NEW p \in Senders, PollTimesOut(p) PROVE AuthInvariant'
    BY <1>4, PollTimesOutKeeps
  <1>5. CASE LogIn \/ LogOut
    BY <1>5, LogInKeeps, LogOutKeeps
  <1>6. CASE RouterAnswerArrives
    BY <1>6, CredentialsAnsweredKeeps, LoginReissueAnsweredKeeps, RegisterAnsweredKeeps,
       LogoutAnsweredKeeps
    DEF RouterAnswerArrives
  <1>7. ASSUME NEW d \in Devices, NEW fresh \in BOOLEAN,
               NEW user \in {"none", "fresh", "stale"}, AuthSession(d, fresh, user)
        PROVE  AuthInvariant'
    BY <1>7, AuthSessionKeeps
  <1>8. CASE TokensAge
    BY <1>8, TokensAgeKeeps
  <1>9. CASE UNCHANGED vars
    BY <1>9
    DEF AuthInvariant, TypeOK, RoundtripsNameADevice, LockMeansRoundtrip,
        RefreshStrandedOnlyByTimeout, RouterWaitsAreItsOwn, At, vars
  <1> QED
    BY <1>1, <1>2, <1>3, <1>4, <1>5, <1>6, <1>7, <1>8, <1>9 DEF Next

LEMMA AuthInvariantHolds == Spec => [](AuthInvariant /\ DeletesAreTheRouters)
  <1>1. Init => DeletesAreTheRouters
    BY DEF Init, DeletesAreTheRouters, Idle
  <1> QED
    BY <1>1, InitAuth, AuthInductive, DeletesKeep, PTL DEF Spec

\* Every variable keeps its type; in particular Authenticated always names a
\* device, whichever roundtrip restored it.
THEOREM AuthTypeCorrect == Spec => []TypeOK
  BY AuthInvariantHolds, PTL DEF AuthInvariant

\* refresh_lock is held exactly during the roundtrips, on every path and after
\* every dropped poll, for any number of tasks.
THEOREM LockAlwaysMeansRoundtrip == Spec => []LockMeansRoundtrip
  BY AuthInvariantHolds, PTL DEF AuthInvariant

\* Nothing but a poll's guard timeout can leave the state in RefreshInFlight
\* with no roundtrip to end it.
THEOREM OnlyTimeoutsStrandRefresh == Spec => []RefreshStrandedOnlyByTimeout
  BY AuthInvariantHolds, PTL DEF AuthInvariant

-----------------------------------------------------------------------------
(* Action properties *)

\* The table has one edge out of DeviceRevoked.
LEMMA OneWayOutOfRevoked ==
    ASSUME state.kind = "DeviceRevoked", NEW to, to.kind # "Unauthenticated", transition(to)
    PROVE  state' = state
  BY DEF transition, valid_transition, ValidEdges

LEMMA RevokedStep ==
    ASSUME AuthInvariant, DeletesAreTheRouters, [Next]_vars,
           state.kind = "DeviceRevoked", state' # state
    PROVE  /\ state' = Plain("Unauthenticated")
           /\ At(Router, "idle") \/ At(Router, "logout") \/ job[Router].goal = "delete"
  <1>1. /\ \A d : Authenticated(d).kind # "Unauthenticated"
        /\ \A k \in {"DeviceRevoked", "NeedsReauth", "RefreshInFlight"} :
              Plain(k).kind # "Unauthenticated"
    BY DEF Authenticated, Plain
  <1>2. transition(Plain("Unauthenticated")) => state' = Plain("Unauthenticated")
    BY DEF transition
  <1>3. ASSUME NEW p \in Senders, NEW goal \in Goals, BeginSend(p, goal) PROVE FALSE
    BY <1>3 DEF BeginSend
  <1>4. ASSUME NEW p \in Senders, TakeRefreshLock(p) PROVE FALSE
    BY <1>4 DEF TakeRefreshLock
  <1>5. ASSUME NEW p \in Senders, TakeReissueLock(p) PROVE FALSE
    BY <1>1, <1>5, OneWayOutOfRevoked DEF TakeReissueLock, FailsInto, StartReissue
  <1>6. ASSUME NEW p \in Senders, RefreshAnswered(p) PROVE FALSE
    BY <1>1, <1>6, OneWayOutOfRevoked
    DEF RefreshAnswered, StoreFresh, FailsInto, FallBackToReissue
  <1>7. ASSUME NEW p \in Senders, UserRefreshAnswered(p) PROVE FALSE
    BY <1>1, <1>7, OneWayOutOfRevoked DEF UserRefreshAnswered, FailsInto, StartReissue
  <1>8. ASSUME NEW p \in Senders, ReissueAnswered(p) PROVE FALSE
    BY <1>1, <1>8, OneWayOutOfRevoked DEF ReissueAnswered, StoreFresh, FailsInto
  <1>9. ASSUME NEW p \in Senders, PollTimesOut(p) PROVE FALSE
    BY <1>9 DEF PollTimesOut
  <1>10. CASE LogIn \/ CredentialsAnswered \/ TokensAge \/ UNCHANGED vars
    BY <1>10 DEF LogIn, CredentialsAnswered, TokensAge, vars
  <1>11. CASE LoginReissueAnswered \/ RegisterAnswered
    BY <1>1, <1>11, OneWayOutOfRevoked DEF LoginReissueAnswered, RegisterAnswered
  <1>12. ASSUME NEW d \in Devices, NEW fresh \in BOOLEAN,
                NEW user \in {"none", "fresh", "stale"}, AuthSession(d, fresh, user)
         PROVE  FALSE
    BY <1>1, <1>12, OneWayOutOfRevoked DEF AuthSession
  <1>13. CASE LogOut
    BY <1>2, <1>13 DEF LogOut, ClearLocalSession, At, Idle
  <1>14. CASE LogoutAnswered
    BY <1>2, <1>14 DEF LogoutAnswered, ClearLocalSession
  <1>15. ASSUME NEW p \in Senders, Answered(p)
         PROVE  /\ state' = Plain("Unauthenticated")
                /\ job[Router].goal = "delete"
    <2>1. CASE \E k \in {"DeviceRevoked", "NeedsReauth"} : FailsInto(p, Plain(k))
      BY <1>1, <2>1, OneWayOutOfRevoked DEF FailsInto
    <2>2. CASE job[p].goal = "delete" /\ ClearLocalSession(TRUE)
      BY <1>2, <2>2 DEF ClearLocalSession, DeletesAreTheRouters
    <2> QED
      BY <1>15, <2>1, <2>2 DEF Answered
  <1> QED
    BY <1>3, <1>4, <1>5, <1>6, <1>7, <1>8, <1>9, <1>10, <1>11, <1>12, <1>13, <1>14, <1>15
    DEF Next, TakesLock, AnswerArrives, RouterAnswerArrives

\* No refresh, reissue, sign-in or restored session, however late, revives a
\* revoked device: only the user's sign-out or deletion leaves DeviceRevoked.
THEOREM RevokedStaysUntilSignOut == Spec => RevokedUntilSignOut
  <1>1. AuthInvariant /\ DeletesAreTheRouters /\ [Next]_vars =>
          [state.kind = "DeviceRevoked" /\ state' # state =>
              /\ state' = Plain("Unauthenticated")
              /\ At(Router, "idle") \/ At(Router, "logout") \/ job[Router].goal = "delete"]_vars
    BY RevokedStep
  <1> QED
    BY <1>1, AuthInvariantHolds, PTL DEF Spec, RevokedUntilSignOut

\* Only the two sign-in answers tell Swift of a device session.
LEMMA SignInStep ==
    ASSUME AuthInvariant, [Next]_vars, ~told, told',
           state.kind \in {"Unauthenticated", "NeedsReauth", "RefreshInFlight"}
    PROVE  /\ state' = Authenticated(deviceId')
           /\ tokens'.dev = deviceId'
           /\ userTokens' # "none"
  <1>1. \A d : transition(Authenticated(d)) => state' = Authenticated(d)
    BY DEF transition, valid_transition, ValidEdges, Authenticated
  <1>2. \A d : Pair(d, TRUE).dev = d
    BY DEF Pair
  <1>3. CASE LoginReissueAnswered
    <2>1. job[Router].dev = deviceId /\ userTokens # "none"
      BY <1>3 DEF LoginReissueAnswered, AuthInvariant, RouterWaitsAreItsOwn
    <2>2. /\ tokens' = Pair(job[Router].dev, TRUE)
          /\ transition(Authenticated(job[Router].dev))
          /\ deviceId' = deviceId /\ userTokens' = userTokens
      BY <1>3 DEF LoginReissueAnswered
    <2> QED
      BY <1>1, <1>2, <2>1, <2>2
  <1>4. CASE RegisterAnswered
    <2>1. \E d \in Devices : /\ tokens' = Pair(d, TRUE) /\ deviceId' = d
                             /\ userTokens' = "fresh" /\ transition(Authenticated(d))
      BY <1>4 DEF RegisterAnswered
    <2> QED
      BY <1>1, <1>2, <2>1
  <1>5. ASSUME NEW p \in Senders,
               \/ \E goal \in Goals : BeginSend(p, goal)
               \/ TakesLock(p) \/ AnswerArrives(p) \/ PollTimesOut(p)
        PROVE  FALSE
    BY <1>5
    DEF BeginSend, TakesLock, AnswerArrives, PollTimesOut, TakeRefreshLock, TakeReissueLock,
        RefreshAnswered, UserRefreshAnswered, ReissueAnswered, Answered
  <1>6. CASE \/ LogIn \/ LogOut \/ CredentialsAnswered \/ LogoutAnswered
             \/ TokensAge \/ UNCHANGED vars
    BY <1>6 DEF LogIn, LogOut, CredentialsAnswered, LogoutAnswered, TokensAge, vars
  <1>7. ASSUME NEW d \in Devices, NEW fresh \in BOOLEAN,
               NEW user \in {"none", "fresh", "stale"}, AuthSession(d, fresh, user)
        PROVE  FALSE
    BY <1>7 DEF AuthSession
  <1> QED
    BY <1>3, <1>4, <1>5, <1>6, <1>7 DEF Next, RouterAnswerArrives

\* After a sign-in that was answered with a device, state machine, token store
\* and stored id name the same device.
THEOREM SignInsAgree == Spec => SignInAgrees
  <1>1. AuthInvariant /\ [Next]_vars =>
          [~told /\ told' /\ state.kind \in {"Unauthenticated", "NeedsReauth", "RefreshInFlight"} =>
              /\ state' = Authenticated(deviceId')
              /\ tokens'.dev = deviceId'
              /\ userTokens' # "none"]_vars
    BY SignInStep
  <1> QED
    BY <1>1, AuthInvariantHolds, PTL DEF Spec, SignInAgrees

\* A sign-in that the cloud is answering was begun after the last sign-out: the
\* router serves the messages of Swift one at a time, and only the router ends
\* a session.
SignInsPostdateSignOuts ==
    job[Router].pc \in {"credentials", "relogin", "register"} => ~signedOut

LEMMA SignInsKeepTheirOrder ==
    ASSUME AuthInvariant, DeletesAreTheRouters, SignInsPostdateSignOuts, [Next]_vars
    PROVE  SignInsPostdateSignOuts'
  <1> DEFINE Signing == {"credentials", "relogin", "register"}
  <1>1. job \in [Senders -> Job] /\ Router \in Senders /\ job[Router] \in Job
    BY SendersAssumption DEF AuthInvariant, TypeOK, SendersAssumption
  <1>2. ASSUME job'[Router].pc \notin Signing PROVE SignInsPostdateSignOuts'
    BY <1>2 DEF SignInsPostdateSignOuts
  <1>3. ASSUME job'[Router].pc = job[Router].pc, signedOut' = signedOut
        PROVE  SignInsPostdateSignOuts'
    BY <1>3 DEF SignInsPostdateSignOuts
  <1>4. ASSUME NEW p \in Senders, Finish(p) PROVE p = Router => job'[Router].pc = "idle"
    BY <1>4, FinishMoves
  <1>5. ASSUME NEW p \in Senders, Leaves(p)
        PROVE  p = Router => job'[Router].pc \in OnTheWire
    BY <1>5, LeavesMoves
  <1>6. ASSUME NEW p \in Senders, NEW pc, NEW d, Await(p, pc, d)
        PROVE  p = Router => job'[Router].pc = pc
    BY <1>1, <1>6 DEF Await, Job
  <1>7. ASSUME NEW p \in Senders, p # Router,
               \/ \E j : job' = [job EXCEPT ![p] = j]
               \/ Finish(p) \/ Leaves(p) \/ \E pc, d : Await(p, pc, d)
               \/ \E x, y : job' = [job EXCEPT ![p].pc = x, ![p].then = y],
               signedOut' = signedOut
        PROVE  SignInsPostdateSignOuts'
    <2>1. job'[Router] = job[Router]
      BY <1>1, <1>7 DEF Finish, Leaves, Await
    <2> QED
      BY <1>3, <1>7, <2>1
  <1>8. ASSUME NEW p \in Senders, NEW goal \in Goals, BeginSend(p, goal)
        PROVE  SignInsPostdateSignOuts'
    <2>1. Started(goal, tokens.fresh).pc \notin Signing
      BY DEF Started
    <2>2. job' = [job EXCEPT ![p] = Started(goal, tokens.fresh)] /\ signedOut' = signedOut
      BY <1>8 DEF BeginSend
    <2> QED
      BY <1>1, <1>2, <1>7, <2>1, <2>2
  <1>9. ASSUME NEW p \in Senders,
               TakesLock(p) \/ RefreshAnswered(p) \/ UserRefreshAnswered(p)
                 \/ ReissueAnswered(p) \/ PollTimesOut(p)
        PROVE  SignInsPostdateSignOuts'
    <2>1. signedOut' = signedOut
      BY <1>9
      DEF TakesLock, TakeRefreshLock, TakeReissueLock, RefreshAnswered,
          UserRefreshAnswered, ReissueAnswered, PollTimesOut
    <2>2. \/ Finish(p) \/ Leaves(p)
          \/ \E pc \in Holding \cup {"relock"} : \E d : Await(p, pc, d)
      BY <1>9
      DEF TakesLock, TakeRefreshLock, TakeReissueLock, RefreshAnswered, StoreFresh,
          FailsInto, FallBackToReissue, UserRefreshAnswered, StartReissue,
          ReissueAnswered, PollTimesOut, Holding
    <2>3. CASE p = Router
      BY <1>2, <1>4, <1>5, <1>6, <2>2, <2>3 DEF Holding, OnTheWire
    <2> QED
      BY <1>7, <2>1, <2>2, <2>3
  <1>10. ASSUME NEW p \in Senders, Answered(p) PROVE SignInsPostdateSignOuts'
    <2>1. CASE p = Router
      <3>1. ASSUME NEW x \in {"lock", "relock"}, NEW y,
                   job' = [job EXCEPT ![p].pc = x, ![p].then = y]
            PROVE  job'[Router].pc = x
        BY <1>1, <2>1, <3>1 DEF Job
      <3>2. \/ Finish(p)
            \/ \E x \in {"lock", "relock"} : \E y :
                  job' = [job EXCEPT ![p].pc = x, ![p].then = y]
        BY <1>10 DEF Answered, FailsInto
      <3>3. job'[Router].pc \in {"lock", "relock", "idle"}
        BY <1>4, <2>1, <3>1, <3>2
      <3> QED
        BY <1>2, <3>3
    <2>2. CASE p # Router
      <3>1. job[p].goal # "delete"
        BY <2>2 DEF DeletesAreTheRouters
      <3>2. signedOut' = signedOut
        BY <1>10, <3>1 DEF Answered
      <3> QED
        BY <1>7, <1>10, <2>2, <3>1, <3>2 DEF Answered, FailsInto
    <2> QED
      BY <2>1, <2>2
  <1>11. CASE LogIn
    BY <1>11 DEF LogIn, SignInsPostdateSignOuts
  <1>12. CASE LogOut
    <2>1. Await(Router, "logout", NoDevice) \/ job'[Router] = Idle
      BY <1>12 DEF LogOut, RouterWaitsFor
    <2>2. Idle.pc = "idle"
      BY DEF Idle
    <2>3. job'[Router].pc \in {"logout", "idle"}
      BY <1>1, <1>6, <2>1, <2>2
    <2> QED
      BY <1>2, <2>3
  <1>13. CASE CredentialsAnswered \/ LoginReissueAnswered \/ RegisterAnswered
    <2>1. signedOut' = signedOut /\ job[Router].pc \in Signing
      BY <1>13 DEF CredentialsAnswered, LoginReissueAnswered, RegisterAnswered, At
    <2> QED
      BY <2>1 DEF SignInsPostdateSignOuts
  <1>14. CASE LogoutAnswered
    BY <1>1, <1>2, <1>4, <1>14 DEF LogoutAnswered
  <1>15. ASSUME NEW d \in Devices, NEW fresh \in BOOLEAN,
                NEW user \in {"none", "fresh", "stale"}, AuthSession(d, fresh, user)
         PROVE  SignInsPostdateSignOuts'
    BY <1>15 DEF AuthSession, SignInsPostdateSignOuts
  <1>16. CASE TokensAge \/ UNCHANGED vars
    BY <1>3, <1>16 DEF TokensAge, vars
  <1> QED
    BY <1>8, <1>9, <1>10, <1>11, <1>12, <1>13, <1>14, <1>15, <1>16
    DEF Next, AnswerArrives, RouterAnswerArrives

\* The step of the theorem below.  An answer to a refresh or a reissue comes to
\* the holder of the lock; every other step that could sign the device in again
\* is the user's own sign-in, or starts from a state that is not signed out.
LEMMA LogoutStep ==
    ASSUME AuthInvariant, DeletesAreTheRouters, SignInsPostdateSignOuts, [Next]_vars,
           signedOut, signedOut',
           state.kind \notin {"Authenticated", "RefreshInFlight"},
           state'.kind \in {"Authenticated", "RefreshInFlight"}
    PROVE  lock # Free
  <1> DEFINE SignedIn == {"Authenticated", "RefreshInFlight"}
  <1>1. \A k \in Kinds \ SignedIn : Plain(k).kind \notin SignedIn
    BY DEF Plain
  <1>2. ASSUME NEW to, to.kind \notin SignedIn, transition(to) PROVE FALSE
    BY <1>2 DEF transition
  <1>3. ASSUME NEW k \in {"Unauthenticated", "NeedsReauth", "DeviceRevoked"},
               transition(Plain(k))
        PROVE  FALSE
    BY <1>1, <1>2, <1>3 DEF Kinds
  <1>4. ASSUME NEW p \in Senders, RefreshAnswered(p) \/ ReissueAnswered(p)
        PROVE  lock # Free
    <2>1. job[p].pc \in Holding
      BY <1>4 DEF RefreshAnswered, ReissueAnswered, At, Holding
    <2> QED
      BY <2>1, StepFacts DEF AuthInvariant, LockMeansRoundtrip
  <1>5. ASSUME NEW p \in Senders,
               \/ \E goal \in Goals : BeginSend(p, goal)
               \/ TakesLock(p) \/ UserRefreshAnswered(p) \/ PollTimesOut(p)
        PROVE  FALSE
    BY <1>3, <1>5
    DEF BeginSend, TakesLock, TakeRefreshLock, TakeReissueLock, UserRefreshAnswered,
        StartReissue, FailsInto, PollTimesOut
  <1>6. ASSUME NEW p \in Senders, Answered(p) PROVE FALSE
    BY <1>3, <1>6 DEF Answered, FailsInto, ClearLocalSession
  <1>7. CASE LoginReissueAnswered \/ RegisterAnswered
    BY <1>7 DEF LoginReissueAnswered, RegisterAnswered, At, SignInsPostdateSignOuts
  <1>8. CASE LogOut \/ LogoutAnswered
    BY <1>3, <1>8 DEF LogOut, LogoutAnswered, ClearLocalSession
  <1>9. CASE LogIn \/ CredentialsAnswered \/ TokensAge \/ UNCHANGED vars
    BY <1>9 DEF LogIn, CredentialsAnswered, TokensAge, vars
  <1>10. ASSUME NEW d \in Devices, NEW fresh \in BOOLEAN,
                NEW user \in {"none", "fresh", "stale"}, AuthSession(d, fresh, user)
         PROVE  FALSE
    BY <1>10 DEF AuthSession
  <1> QED
    BY <1>4, <1>5, <1>6, <1>7, <1>8, <1>9, <1>10 DEF Next, AnswerArrives, RouterAnswerArrives

\* Once a sign-out or a deletion is complete, nothing but the late answer of a
\* roundtrip that holds refresh_lock makes the device look signed in again
\* before the user signs in.
THEOREM LogoutStaysUnlessInFlight == Spec => LogoutUndoneOnlyInFlight
  <1>1. Init => SignInsPostdateSignOuts
    BY DEF Init, SignInsPostdateSignOuts
  <1>2. Spec => []SignInsPostdateSignOuts
    BY <1>1, SignInsKeepTheirOrder, AuthInvariantHolds, PTL DEF Spec
  <1>3. AuthInvariant /\ DeletesAreTheRouters /\ SignInsPostdateSignOuts /\ [Next]_vars =>
          [signedOut /\ signedOut' /\ state.kind \notin {"Authenticated", "RefreshInFlight"}
             /\ state'.kind \in {"Authenticated", "RefreshInFlight"} => lock # Free]_vars
    BY LogoutStep
  <1> QED
    BY <1>2, <1>3, AuthInvariantHolds, PTL DEF Spec, LogoutUndoneOnlyInFlight

\* The two promises about a change of the session, together.
THEOREM SessionChangesStaySound == Spec => SessionChangesAreSound
  BY RevokedStaysUntilSignOut, SignInsAgree, PTL DEF SessionChangesAreSound

\* One roundtrip at a time, and RefreshInFlight tells of it.
THEOREM RefreshStaysSerial == Spec => []RefreshIsSerial
  BY LockAlwaysMeansRoundtrip, OnlyTimeoutsStrandRefresh, PTL DEF RefreshIsSerial

=============================================================================
