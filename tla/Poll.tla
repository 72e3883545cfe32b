-------------------------------- MODULE Poll --------------------------------
(***************************************************************************)
(* PollScheduler: the long poll for an insight, one request at a time      *)
(* while the device is authenticated, with a backoff after failures, woken *)
(* early by shutdown and by any change of the authentication state.        *)
(*                                                                         *)
(* A watch channel is its value and whether the receiver has yet to see    *)
(* that it changed: borrow reads the value and leaves the news, changed    *)
(* waits for the news and takes it.                                        *)
(***************************************************************************)
EXTENDS Naturals, Sequences, FiniteSetsExt

CONSTANTS
    Initial, MaxBackoff,   \* initial_backoff and max_backoff, in ticks
    IdleDelay,              \* idle_interval
    RateLimited,           \* poll_timeout + idle_interval: without Retry-After
    RetryAfters,           \* what a 429 may ask for, 0 for nothing readable
    InsightIds,            \* ids of the cloud's insights
    MaxChanges,            \* bound: changes of the session
    MaxAnswers             \* bound: insights answered

ASSUME PollAssumption ==
    {Initial, MaxBackoff, IdleDelay, RateLimited, MaxChanges, MaxAnswers} \subseteq Nat

VARIABLES
    session,    \* AuthState: "in", "refresh" (RefreshInFlight) or "out"
    news,       \* whether the poll task has a change of it to see
    stop,       \* the shutdown signal, and whether that is news
    at,         \* where the loop is
    next,       \* BackoffPolicy.next
    rest,       \* ticks left of the sleep
    lastId,     \* InsightDedupeGuard.last_delivered_id
    delivered,  \* what was pushed, oldest first
    \* history
    failures,   \* failed polls since the last answer
    changes, answers

pollvars == <<session, news, stop, at, next, rest, lastId, delivered, failures,
              changes, answers>>

NoId == "none"

\* The task when it starts, or after it was shut down.
PollInit(over) ==
    /\ session \in (IF over THEN {"out"} ELSE {"in", "out"}) /\ news = FALSE
    /\ stop = [set |-> over, news |-> FALSE]
    /\ at = (IF over THEN "done" ELSE "check") /\ next = Min({Initial, MaxBackoff}) /\ rest = 0
    /\ lastId = NoId /\ delivered = <<>>
    /\ failures = 0 /\ changes = 0 /\ answers = 0

\* The top of the loop.
Check ==
    /\ at = "check"
    /\ at' = IF stop.set THEN "done" ELSE IF session = "in" THEN "poll" ELSE "wait"
    /\ UNCHANGED <<session, news, stop, next, rest, lastId, delivered, failures,
                   changes, answers>>

\* Mutant: a change that is not a sign-in ends the wait, and the task.
AfterChangeOnce == IF session = "in" THEN "check" ELSE "done"
\* wait_for_auth_or_shutdown goes on waiting until the state is right.
AfterChange == IF session = "in" THEN "check" ELSE "wait"

\* wait_for_auth_or_shutdown.
WaitForAuth ==
    /\ at = "wait"
    /\ \/ stop.news /\ stop' = [stop EXCEPT !.news = FALSE] /\ at' = "done"
          /\ UNCHANGED news
       \/ news /\ news' = FALSE /\ at' = AfterChange /\ UNCHANGED stop
    /\ UNCHANGED <<session, next, rest, lastId, delivered, failures, changes, answers>>

\* rate_limit_delay of parse_retry_after.
RateLimitDelay(asked) == IF asked = 0 THEN RateLimited ELSE Min({asked, MaxBackoff})

\* BackoffPolicy::next_delay: saturating_mul, then min.
Doubled(n) == Min({2 * n, MaxBackoff})

\* The outcomes of poll_once that sleep: 204, 429, and any failure.  The
\* HTTP client may have refreshed the session meanwhile.
Sleeps ==
    \/ next' = Min({Initial, MaxBackoff}) /\ rest' = IdleDelay /\ failures' = 0
    \/ \E asked \in RetryAfters : rest' = RateLimitDelay(asked) /\ UNCHANGED <<next, failures>>
    \/ next' = Doubled(next) /\ rest' = next
       /\ failures' = IF failures < MaxBackoff THEN failures + 1 ELSE failures

PollReturns ==
    /\ at = "poll" /\ at' = "sleep" /\ Sleeps
    /\ \/ UNCHANGED <<news, changes>>
       \/ /\ session = "in" /\ changes < MaxChanges /\ changes' = changes + 1
          /\ news' = TRUE
    /\ UNCHANGED <<session, stop, lastId, delivered, answers>>

\* deliver_polled_insight: no sleep follows.  An immediate duplicate is
\* suppressed.  The insight is pushed, then its notification, unless it is
\* too early for one.
PollAnswers ==
    /\ at = "poll" /\ answers < MaxAnswers /\ answers' = answers + 1
    /\ \E id \in InsightIds, quiet \in BOOLEAN :
          /\ lastId' = id
          /\ delivered' = IF id = lastId THEN delivered
                          ELSE delivered \o <<[kind |-> "insight", id |-> id]>>
                               \o IF quiet THEN <<>> ELSE <<[kind |-> "notify", id |-> id]>>
    /\ next' = Min({Initial, MaxBackoff}) /\ failures' = 0 /\ at' = "check"
    /\ UNCHANGED <<session, news, stop, rest, changes>>

\* sleep_or_shutdown.
Sleep ==
    /\ at = "sleep"
    /\ \/ rest > 0 /\ rest' = rest - 1 /\ UNCHANGED <<at, news, stop>>
       \/ rest = 0 /\ at' = "check" /\ UNCHANGED <<rest, news, stop>>
       \/ stop.news /\ stop' = [stop EXCEPT !.news = FALSE] /\ at' = "done"
          /\ rest' = 0 /\ UNCHANGED news
       \/ news /\ news' = FALSE /\ at' = "check" /\ rest' = 0 /\ UNCHANGED stop
    /\ UNCHANGED <<session, next, lastId, delivered, failures, changes, answers>>

\* The rest of the service: sign-in, sign-out, a refresh and its end.
SessionChanges ==
    /\ changes < MaxChanges /\ changes' = changes + 1
    /\ \E s \in {"in", "out", "refresh"} \ {session} : session' = s
    /\ news' = TRUE
    /\ UNCHANGED <<stop, at, next, rest, lastId, delivered, failures, answers>>
Shutdown ==
    /\ ~stop.set /\ stop' = [set |-> TRUE, news |-> TRUE]
    /\ UNCHANGED <<session, news, at, next, rest, lastId, delivered, failures, changes,
                   answers>>

PollTask == Check \/ WaitForAuth \/ PollReturns \/ PollAnswers \/ Sleep
PollStep == PollTask \/ SessionChanges \/ Shutdown

-----------------------------------------------------------------------------
(* Properties.                                                             *)

\* The delay after the next failure tells the failures in a row before it,
\* capped: an answer of either kind ends the row, a 429 does not count
\* (BackoffPolicy, PollScheduler::run).
BackoffTellsFailures ==
    next = Min({MaxBackoff, Initial * 2^failures})

\* Signed in for good and not shut down, the task polls again and again,
\* whatever it was doing when the session came and went (PollScheduler::run,
\* wait_for_auth_or_shutdown, sleep_or_shutdown).
PollResumes == <>[](session = "in" /\ ~stop.set) => []<>(at = "poll")

\* The poll keeps its pace: it goes on whenever it may, at the delay the
\* failures in a row have earned.
PollKeepsPace == []BackoffTellsFailures /\ PollResumes
=============================================================================
