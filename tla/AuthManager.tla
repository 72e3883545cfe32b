----------------------------- MODULE AuthManager -----------------------------
(***************************************************************************)
(* Device authentication: rust-service/src/auth.                           *)
(*                                                                         *)
(* One AuthManager is shared by every task that talks to the cloud: the    *)
(* uploads, the insight poll and the IPC router.  A request that meets an  *)
(* old token refreshes it, or reissues the device's tokens with the user's *)
(* pair, under refresh_lock.  AccountAuthService, driven by the messages   *)
(* of the Swift client, writes the same token store and the same state     *)
(* machine and never takes that lock.                                      *)
(*                                                                         *)
(* A step is the code between two awaits of one task: what follows an      *)
(* answer, up to the next request or the next wait for the lock.           *)
(***************************************************************************)
EXTENDS Naturals, FiniteSets

CONSTANTS
    Senders,        \* the tasks that share the AuthManager
    Router,         \* the one that serves the Swift client's messages in turn
    Pollers,        \* the ones whose whole request is under a guard timeout
    Free,           \* refresh_lock is held by nobody
    Devices,        \* device ids the cloud can hand out
    NoDevice,       \* no device id
    MaxTimeouts     \* BOUND: guard timeouts of a poll in one behaviour

ASSUME SendersAssumption ==
    Router \in Senders /\ Pollers \subseteq Senders \ {Router} /\ Free \notin Senders
ASSUME DevicesAssumption == NoDevice \notin Devices
ASSUME BoundsAssumption == MaxTimeouts \in Nat

VARIABLES
    state,          \* AuthStateMachine: [kind, dev]
    tokens,         \* the device's pair in VolatileTokenStore
    userTokens,     \* the user's pair there: "none", "fresh" or "stale"
    deviceId,       \* the stored device id
    lock,           \* who holds refresh_lock
    job,            \* what each task is waiting for
    issued,         \* device ids the cloud has handed out
    told,           \* the last sign-in was answered auth_success with a device
    signedOut,      \* log_out or a deletion was the last word of the user
    timeouts        \* guard timeouts so far
vars == <<state, tokens, userTokens, deviceId, lock, job, issued, told,
          signedOut, timeouts>>

-----------------------------------------------------------------------------
(* The state machine of auth/state.rs *)

Kinds == {"Unauthenticated", "Authenticated", "NeedsReauth", "DeviceRevoked",
          "RefreshInFlight"}
Authenticated(d) == [kind |-> "Authenticated", dev |-> d]
Plain(k) == [kind |-> k, dev |-> NoDevice]
AuthState == {Plain(k) : k \in Kinds \ {"Authenticated"}}
             \cup {Authenticated(d) : d \in Devices}

\* (from, to) pairs of kinds; two different devices are both "Authenticated"
\* and there is no edge between them.
ValidEdges ==
    {<<"Unauthenticated", "Authenticated">>,
     <<"Authenticated", "Unauthenticated">>, <<"Authenticated", "RefreshInFlight">>,
     <<"Authenticated", "NeedsReauth">>, <<"Authenticated", "DeviceRevoked">>,
     <<"RefreshInFlight", "Authenticated">>, <<"RefreshInFlight", "NeedsReauth">>,
     <<"RefreshInFlight", "DeviceRevoked">>, <<"RefreshInFlight", "Unauthenticated">>,
     <<"NeedsReauth", "Authenticated">>, <<"NeedsReauth", "Unauthenticated">>,
     <<"DeviceRevoked", "Unauthenticated">>}
valid_transition(from, to) == from = to \/ <<from.kind, to.kind>> \in ValidEdges

\* transition: a refused one leaves the state alone and is an error.
transition(to) == state' = IF valid_transition(state, to) THEN to ELSE state

-----------------------------------------------------------------------------
(* Tokens and tasks *)

NoTokens == [dev |-> NoDevice, fresh |-> FALSE]
Pair(d, fresh) == [dev |-> d, fresh |-> fresh]
HasTokens == tokens.dev # NoDevice

\* pc: where the task waits.  "lock", "relock": for refresh_lock, in
\* refresh_tokens and in reissue_device_tokens.  "refresh", "userRefresh",
\* "reissue": for an answer, holding the lock.  "sent", "retried", "resent":
\* for the answer to the request itself, after nothing, a forced refresh, a
\* reissue.  The others: the router's own requests on the raw transport.
\* then: the request to make once there are tokens.  dev: the device_id
\* captured when the roundtrip began.
Holding == {"refresh", "userRefresh", "reissue"}
OnTheWire == {"sent", "retried", "resent"}
RouterWaits == {"credentials", "relogin", "register", "logout"}
Goals == {"api", "delete"}
Job == [pc: {"idle", "lock", "relock"} \cup Holding \cup OnTheWire \cup RouterWaits,
        then: OnTheWire, goal: Goals, dev: Devices \cup {NoDevice}]
Idle == [pc |-> "idle", then |-> "sent", goal |-> "api", dev |-> NoDevice]

At(p, pc) == job[p].pc = pc
Finish(p) == job' = [job EXCEPT ![p] = Idle]
\* tokens_for_request, for a pair that is there
Started(goal, fresh) ==
    [pc |-> IF fresh THEN "sent" ELSE "lock", then |-> "sent", goal |-> goal,
     dev |-> NoDevice]
\* the request leaves with the tokens just obtained
Leaves(p) == job' = [job EXCEPT ![p].pc = job[p].then, ![p].dev = NoDevice]
Await(p, pc, dev) == job' = [job EXCEPT ![p].pc = pc, ![p].dev = dev]

Init ==
    /\ state = Plain("Unauthenticated")
    /\ tokens = NoTokens /\ userTokens = "none" /\ deviceId = NoDevice
    /\ lock = Free
    /\ job = [p \in Senders |-> Idle]
    /\ issued \in SUBSET Devices
    /\ told = FALSE /\ signedOut = FALSE /\ timeouts = 0

-----------------------------------------------------------------------------
(* AuthManager: one authenticated request *)

\* send_authenticated up to its first await.  A revoked device or an empty
\* store is an error at once and changes nothing.  The pollers look at the
\* state before they ask.
BeginSend(p, goal) ==
    /\ job[p] = Idle
    /\ goal = "delete" => p = Router
    /\ p \in Pollers => state.kind = "Authenticated"
    /\ state.kind # "DeviceRevoked"
    /\ HasTokens
    /\ job' = [job EXCEPT ![p] = Started(goal, tokens.fresh)]
    /\ UNCHANGED <<state, tokens, userTokens, deviceId, lock, issued, told,
                   signedOut, timeouts>>

\* refresh_tokens, once the lock is ours: another task may have refreshed, or
\* signed the user out, while we waited.
RefreshUnneeded(p) == job[p].then = "sent" /\ tokens.fresh
\* mutant: the guard is bound to _ and dropped where it was taken
GuardDroppedAtOnce(p) ==
    /\ At(p, "lock") /\ lock = Free
    /\ HasTokens /\ ~RefreshUnneeded(p) /\ state.kind = "Authenticated"
    /\ transition(Plain("RefreshInFlight"))
    /\ Await(p, "refresh", state.dev)
    /\ UNCHANGED <<lock, tokens, userTokens, deviceId, issued, told, signedOut, timeouts>>
TakeRefreshLock(p) ==
    /\ At(p, "lock") /\ lock = Free
    /\ \/ /\ HasTokens /\ RefreshUnneeded(p)
          /\ Leaves(p)
          /\ UNCHANGED <<state, lock>>
       \/ /\ HasTokens /\ ~RefreshUnneeded(p) /\ state.kind = "Authenticated"
          /\ transition(Plain("RefreshInFlight"))
          /\ lock' = p
          /\ Await(p, "refresh", state.dev)
       \/ /\ ~HasTokens \/ (~RefreshUnneeded(p) /\ state.kind # "Authenticated")
          /\ Finish(p)
          /\ UNCHANGED <<state, lock>>
    /\ UNCHANGED <<tokens, userTokens, deviceId, issued, told, signedOut, timeouts>>

\* The pair is stored before the transition is tried; a refused transition
\* ends the request.
StoreFresh(p) ==
    LET next == Authenticated(job[p].dev) IN
    /\ tokens' = Pair(job[p].dev, TRUE)
    /\ transition(next)
    /\ IF valid_transition(state, next) THEN Leaves(p) ELSE Finish(p)
FailsInto(p, next) ==
    /\ transition(next)
    /\ Finish(p)
    /\ UNCHANGED tokens
\* 401/403 device_token_revoked to a refresh: back to Authenticated, drop the
\* guard, queue for it again in reissue_device_tokens.
FallBackToReissue(p) ==
    LET next == Authenticated(job[p].dev) IN
    /\ transition(next)
    /\ IF valid_transition(state, next) THEN Await(p, "relock", NoDevice) ELSE Finish(p)
    /\ UNCHANGED tokens
\* mutant: the guard lives to the end of refresh_tokens
KeepsGuard(p) == lock' = p
DropsGuard(p) == lock' = Free

\* The answers of POST /v1/auth/refresh and of the reissue.
RefreshAnswered(p) ==
    /\ At(p, "refresh")
    /\ \/ StoreFresh(p) /\ lock' = Free
       \/ FailsInto(p, Authenticated(job[p].dev)) /\ lock' = Free     \* transport error
       \/ FailsInto(p, Plain("DeviceRevoked")) /\ lock' = Free
       \/ FailsInto(p, Plain("NeedsReauth")) /\ lock' = Free          \* anything else
       \/ FallBackToReissue(p) /\ DropsGuard(p)
    /\ UNCHANGED <<userTokens, deviceId, issued, told, signedOut, timeouts>>

\* reissue_device_tokens, from the state check on.
StartReissue(p) ==
    \/ /\ state.kind = "Authenticated"
       /\ transition(Plain("RefreshInFlight"))
       /\ lock' = p
       /\ Await(p, "reissue", state.dev)
    \/ /\ state.kind # "Authenticated"
       /\ lock' = Free
       /\ Finish(p)
       /\ UNCHANGED state
TakeReissueLock(p) ==
    /\ At(p, "relock") /\ lock = Free
    /\ \/ /\ userTokens = "none"
          /\ FailsInto(p, Plain("NeedsReauth"))
          /\ UNCHANGED lock
       \/ /\ userTokens = "stale"
          /\ lock' = p
          /\ Await(p, "userRefresh", NoDevice)
          /\ UNCHANGED <<state, tokens>>
       \/ /\ userTokens = "fresh"
          /\ StartReissue(p)
          /\ UNCHANGED tokens
    /\ UNCHANGED <<userTokens, deviceId, issued, told, signedOut, timeouts>>

\* refresh_user_tokens: every failure, a transport error too, is NeedsReauth.
UserRefreshAnswered(p) ==
    /\ At(p, "userRefresh")
    /\ \/ userTokens' = "fresh" /\ StartReissue(p) /\ UNCHANGED tokens
       \/ FailsInto(p, Plain("NeedsReauth")) /\ lock' = Free /\ UNCHANGED userTokens
    /\ UNCHANGED <<deviceId, issued, told, signedOut, timeouts>>

ReissueAnswered(p) ==
    /\ At(p, "reissue")
    /\ \/ StoreFresh(p)
       \/ FailsInto(p, Authenticated(job[p].dev))
       \/ FailsInto(p, Plain("DeviceRevoked"))
       \/ FailsInto(p, Plain("NeedsReauth"))
    /\ lock' = Free
    /\ UNCHANGED <<userTokens, deviceId, issued, told, signedOut, timeouts>>

\* clear_local_session
ClearLocalSession(clearDevice) ==
    /\ tokens' = NoTokens /\ userTokens' = "none"
    /\ deviceId' = IF clearDevice THEN NoDevice ELSE deviceId
    /\ transition(Plain("Unauthenticated"))
    /\ signedOut' = TRUE

\* mutant: a 401 to the retried request refreshes again
RefreshesEveryTime(p) == ~At(p, "resent")
MayRefresh(p) == At(p, "sent")
MayReissue(p) == ~At(p, "resent")

\* The request itself is answered: the rest of send_authenticated and
\* handle_response.  Only the first 401 refreshes, only the first
\* device_token_revoked reissues.
Answered(p) ==
    /\ job[p].pc \in OnTheWire
    /\ UNCHANGED <<lock, issued, told, timeouts>>
    /\ \/ /\ MayRefresh(p)                                            \* 401
          /\ job' = [job EXCEPT ![p].pc = "lock", ![p].then = "retried"]
          /\ UNCHANGED <<state, tokens, userTokens, deviceId, signedOut>>
       \/ /\ MayReissue(p)                                \* device_token_revoked
          /\ job' = [job EXCEPT ![p].pc = "relock", ![p].then = "resent"]
          /\ UNCHANGED <<state, tokens, userTokens, deviceId, signedOut>>
       \/ /\ \E k \in {"DeviceRevoked", "NeedsReauth"} : FailsInto(p, Plain(k))
          /\ UNCHANGED <<userTokens, deviceId, signedOut>>
       \/ /\ job[p].goal = "delete"                                   \* 202
          /\ Finish(p)
          /\ ClearLocalSession(TRUE)
       \/ /\ Finish(p)                       \* an answer, a 429, a lost request
          /\ UNCHANGED <<state, tokens, userTokens, deviceId, signedOut>>

\* poll_once: the scheduler's guard drops the whole request, wherever it is;
\* dropping the future releases the lock and restores nothing.
PollTimesOut(p) ==
    /\ p \in Pollers /\ job[p] # Idle /\ timeouts < MaxTimeouts
    /\ timeouts' = timeouts + 1
    /\ Finish(p)
    /\ lock' = IF lock = p THEN Free ELSE lock
    /\ UNCHANGED <<state, tokens, userTokens, deviceId, issued, told, signedOut>>

-----------------------------------------------------------------------------
(* AccountAuthService: the messages of the Swift client, one at a time *)

RouterWaitsFor(pc, dev) == Await(Router, pc, dev)

\* sign_up, log_in: the credential request.
LogIn ==
    /\ job[Router] = Idle
    /\ RouterWaitsFor("credentials", NoDevice)
    /\ told' = FALSE /\ signedOut' = FALSE
    /\ UNCHANGED <<state, tokens, userTokens, deviceId, lock, issued, timeouts>>

\* ensure_device_registered: reuse the stored device id, or register.
\* mutant: the user's pair is kept for the reissue only, not stored
CredentialsForgetUserPair ==
    /\ At(Router, "credentials")
    /\ IF deviceId # NoDevice THEN RouterWaitsFor("relogin", deviceId)
       ELSE RouterWaitsFor("register", NoDevice)
    /\ UNCHANGED <<state, tokens, userTokens, deviceId, lock, issued, told, signedOut,
                   timeouts>>
CredentialsAnswered ==
    /\ At(Router, "credentials")
    /\ \/ /\ deviceId # NoDevice
          /\ userTokens' = "fresh"
          /\ RouterWaitsFor("relogin", deviceId)
       \/ /\ deviceId = NoDevice
          /\ RouterWaitsFor("register", NoDevice)
          /\ UNCHANGED userTokens
       \/ Finish(Router) /\ UNCHANGED userTokens                      \* auth_failure
    /\ UNCHANGED <<state, tokens, deviceId, lock, issued, told, signedOut, timeouts>>

LoginReissueAnswered ==
    /\ At(Router, "relogin")
    /\ \/ /\ tokens' = Pair(job[Router].dev, TRUE)
          /\ transition(Authenticated(job[Router].dev))               \* refusal is logged
          /\ told' = TRUE
          /\ Finish(Router)
          /\ UNCHANGED deviceId
       \/ /\ deviceId' = NoDevice                                     \* 404
          /\ RouterWaitsFor("register", NoDevice)
          /\ UNCHANGED <<state, tokens, told>>
       \/ Finish(Router) /\ UNCHANGED <<state, tokens, deviceId, told>> \* auth_failure
    /\ UNCHANGED <<userTokens, lock, issued, signedOut, timeouts>>

RegisterAnswered ==
    /\ At(Router, "register")
    /\ \/ \E d \in Devices \ issued :
             /\ issued' = issued \cup {d}
             /\ tokens' = Pair(d, TRUE) /\ deviceId' = d /\ userTokens' = "fresh"
             /\ transition(Authenticated(d))                          \* refusal is logged
             /\ told' = TRUE
       \/ UNCHANGED <<state, tokens, userTokens, deviceId, issued, told>>
    /\ Finish(Router)
    /\ UNCHANGED <<lock, signedOut, timeouts>>

\* auth_session: a session Swift kept in the Keychain, with the user's pair or
\* without it (apply_session also refuses half a pair, which Swift never has),
\* then the validation request of the router.
AuthSession(d, fresh, user) ==
    /\ job[Router] = Idle /\ d \in issued
    /\ userTokens' = IF user = "none" THEN userTokens ELSE user
    /\ tokens' = Pair(d, fresh) /\ deviceId' = d
    /\ transition(Authenticated(d))
    /\ told' = FALSE /\ signedOut' = FALSE
    /\ job' = IF state'.kind = "DeviceRevoked" THEN job
              ELSE [job EXCEPT ![Router] = Started("api", fresh)]
    /\ UNCHANGED <<lock, issued, timeouts>>

\* log_out: fail closed, revoke on the raw transport, then clear.
LogOut ==
    /\ job[Router] = Idle
    /\ told' = FALSE
    /\ \/ /\ HasTokens
          /\ transition(Plain("Unauthenticated"))
          /\ RouterWaitsFor("logout", NoDevice)
          /\ UNCHANGED <<tokens, userTokens, deviceId, signedOut>>
       \/ /\ ~HasTokens
          /\ ClearLocalSession(FALSE)
          /\ UNCHANGED job
    /\ UNCHANGED <<lock, issued, timeouts>>
LogoutAnswered ==
    /\ At(Router, "logout")
    /\ ClearLocalSession(FALSE)
    /\ Finish(Router)
    /\ UNCHANGED <<lock, issued, told, timeouts>>

\* Time passes: a pair comes within refresh_buffer of its expiry.
TokensAge ==
    /\ \/ tokens.fresh /\ tokens' = Pair(tokens.dev, FALSE) /\ UNCHANGED userTokens
       \/ userTokens = "fresh" /\ userTokens' = "stale" /\ UNCHANGED tokens
    /\ UNCHANGED <<state, deviceId, lock, job, issued, told, signedOut, timeouts>>

-----------------------------------------------------------------------------
TakesLock(p) == TakeRefreshLock(p) \/ TakeReissueLock(p)
AnswerArrives(p) ==
    RefreshAnswered(p) \/ UserRefreshAnswered(p) \/ ReissueAnswered(p) \/ Answered(p)
RouterAnswerArrives ==
    CredentialsAnswered \/ LoginReissueAnswered \/ RegisterAnswered \/ LogoutAnswered

Next ==
    \/ \E p \in Senders :
          \/ \E goal \in Goals : BeginSend(p, goal)
          \/ TakesLock(p)
          \/ AnswerArrives(p)
          \/ PollTimesOut(p)
    \/ LogIn \/ LogOut \/ RouterAnswerArrives
    \/ \E d \in Devices, fresh \in BOOLEAN, user \in {"none", "fresh", "stale"} :
          AuthSession(d, fresh, user)
    \/ TokensAge

Spec == Init /\ [][Next]_vars

\* The HTTP client bounds every request by a timeout, so an answer or an error
\* arrives; tokio's Mutex serves its waiters in order.
FairSpec ==
    /\ Spec
    /\ \A p \in Senders : WF_vars(AnswerArrives(p)) /\ SF_vars(TakesLock(p))
    /\ WF_vars(RouterAnswerArrives)

-----------------------------------------------------------------------------
(* Properties *)

\* Every variable has its type.
TypeOK ==
    /\ state \in AuthState
    /\ tokens \in [dev: Devices \cup {NoDevice}, fresh: BOOLEAN]
    /\ userTokens \in {"none", "fresh", "stale"}
    /\ deviceId \in Devices \cup {NoDevice}
    /\ lock \in Senders \cup {Free}
    /\ job \in [Senders -> Job]
    /\ issued \subseteq Devices
    /\ told \in BOOLEAN /\ signedOut \in BOOLEAN
    /\ timeouts \in 0..MaxTimeouts

\* refresh_lock is held exactly while its holder waits for a refresh or a
\* reissue: two tasks never spend the same refresh token at once, and no
\* path, early return or dropped poll leaves the lock behind.
LockMeansRoundtrip ==
    \A p \in Senders : lock = p <=> job[p].pc \in Holding

\* RefreshInFlight belongs to a roundtrip of the holder of the lock; the only
\* thing that can strand the state there is the poll's guard timeout.
RefreshStrandedOnlyByTimeout ==
    state.kind = "RefreshInFlight" =>
        timeouts > 0 \/ \E p \in Senders : lock = p /\ job[p].pc \in {"refresh", "reissue"}

\* A revoked device stays revoked until the user signs out or the account is
\* deleted: no late refresh, reissue, login or restored session revives it.
RevokedUntilSignOut ==
    [][state.kind = "DeviceRevoked" /\ state' # state =>
          /\ state' = Plain("Unauthenticated")
          /\ At(Router, "idle") \/ At(Router, "logout") \/ job[Router].goal = "delete"]_vars

\* A sign-in answered with a device session from any state that admits one
\* leaves the state machine, the token store and the stored device id agreed,
\* whatever roundtrip of another task was under way when it began.
SignInAgrees ==
    [][~told /\ told' /\ state.kind \in {"Unauthenticated", "NeedsReauth", "RefreshInFlight"} =>
          /\ state' = Authenticated(deviceId')
          /\ tokens'.dev = deviceId'
          /\ userTokens' # "none"]_vars

\* Every task that began a request, a sign-in or a sign-out gets an outcome:
\* nobody waits for the lock forever, and a request is not retried forever.
RequestsFinish ==
    \A p \in Senders : job[p] # Idle ~> job[p] = Idle

\* One roundtrip at a time spends the refresh token, and the state that tells
\* of it is left behind only when the poll's guard timeout drops the future.
RefreshIsSerial == LockMeansRoundtrip /\ RefreshStrandedOnlyByTimeout

\* A change of the session is whole: it revives no revoked device and leaves
\* the state machine, the token store and the stored id naming one device.
SessionChangesAreSound == RevokedUntilSignOut /\ SignInAgrees

\* After a sign-out has completed, only a roundtrip that was under way when it
\* completed makes the device look signed in again, and it holds the lock.
LogoutUndoneOnlyInFlight ==
    [][signedOut /\ signedOut' /\ state.kind \notin {"Authenticated", "RefreshInFlight"}
         /\ state'.kind \in {"Authenticated", "RefreshInFlight"} => lock # Free]_vars
=============================================================================
