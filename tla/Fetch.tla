------------------------------- MODULE Fetch -------------------------------
(***************************************************************************)
(* FetchService, FetchScheduler and the router's answers from them: the    *)
(* cloud's daily history and today's insight, cached in SQLite with a time *)
(* to live, fetched under one lock per kind, pushed to the card when new,  *)
(* and replaced by this Mac's own summaries while the cloud is away.       *)
(*                                                                         *)
(* Time is relative: a row knows how long it is fresh and how old its      *)
(* content is, in ticks of the scheduler.  A step of the service is taken  *)
(* before the next tick; an HTTP call may last Timeout ticks.              *)
(***************************************************************************)
EXTENDS Naturals, FiniteSetsExt

CONSTANTS
    Days,           \* CLOUD_HISTORY_MAX_DAYS
    CacheTtl,            \* history_ttl, insight_ttl and insight_negative_ttl:
                    \* a function of "history", "insight" and "negative"
    Interval,       \* fetch_interval
    Timeout,        \* the HTTP timeout
    Lag,            \* what the card may lag behind, see CardIsCurrent
    MaxAge,         \* bound: ages saturate here
    MaxTroubles,    \* bound: changes of the cloud's health and of the session
    MaxRequests     \* bound: requests of the client

ASSUME FetchAssumption ==
    /\ {Days, Interval} \subseteq Nat \ {0}
    /\ {Timeout, Lag, MaxAge, MaxTroubles, MaxRequests} \subseteq Nat
    /\ \A k \in {"history", "insight", "negative"} : CacheTtl[k] \in Nat \ {0}

\* What Lag has to leave room for: the life of a row, the wait for the next
\* refresh, and calls that take the whole Timeout, one more for every trouble
\* that the insight may meet on its way.
ASSUME LagAssumption ==
    /\ CacheTtl["history"] + Interval + 2 * Timeout <= Lag
    /\ CacheTtl["insight"] + Interval + (MaxTroubles + 1) * Timeout <= Lag + 1
    /\ CacheTtl["negative"] + Interval + (MaxTroubles + 2) * Timeout <= Lag + 1
    /\ Interval + (MaxTroubles + 3) * Timeout <= Lag

Kinds == {"history", "insight"}
Runners == {"sched", "overlap", "req"}

VARIABLES
    auth,      \* whether the session can ask the cloud
    cloud,     \* "up", "down", or what the window it answers with lacks:
               \* "bare" of ready days, "short" or "empty" of rows
    rows,      \* history_cache and insight_cache: kind -> day -> row
    locks,     \* inflight_history and inflight_insight: kind -> holder
    tasks,     \* runner -> where its fetch is
    since,     \* FetchScheduler: ticks since last_fetch
    outage,    \* R7Router.cloud_history_outage
    card,      \* what Swift shows of the history: its source and its age
    insight,   \* the cloud's insight of today: made, claimed by the poll
    onScreen,     \* whether Swift shows that insight
    \* history
    up,        \* ticks for which the cloud and the session have been fine
    unseen,    \* ticks for which the insight exists and is not shown
    troubles, requests

fetchvars == <<auth, cloud, rows, locks, tasks, since, outage, card, insight,
               onScreen, up, unseen, troubles, requests>>

\* cloud_history_dates: the days before today that a read covers.
Dates(kind) == IF kind = "history" THEN 0..(Days - 1) ELSE {0}

NoRow == [left |-> 0, age |-> MaxAge, says |-> "none"]
Idle == [pc |-> "idle", kind |-> "history", dates |-> {}, got |-> {},
         says |-> "none", wait |-> 0, age |-> 0]
Nobody == "nobody"
Health == {"up", "down", "bare", "short", "empty"}

FetchInit ==
    /\ auth \in BOOLEAN /\ cloud \in Health
    /\ rows = [k \in Kinds |-> [d \in Dates("history") |-> NoRow]]
    /\ locks = [k \in Kinds |-> Nobody]
    /\ tasks = [t \in Runners |-> Idle]
    /\ since = 0 /\ outage = FALSE
    /\ card = [source |-> "none", age |-> MaxAge]
    /\ insight = [made |-> FALSE, claimed |-> FALSE] /\ onScreen = FALSE
    /\ up = 0 /\ unseen = 0 /\ troubles = 0 /\ requests = 0

-----------------------------------------------------------------------------
(* The cache and the answers.                                              *)

\* Mutant: a row is served whatever its time to live.
FreshForEver(kind, dates) == \A d \in dates : rows[kind][d] # NoRow
\* all_history_cached and read_insight_cached: every date, each with
\* ttl > unixepoch().
Fresh(kind, dates) == \A d \in dates : rows[kind][d].left > 0

\* What the rows of the cloud's answer are: parse_history, and the 404 of
\* an insight that was not made.
CloudDates(kind) ==
    IF kind = "insight" THEN {0}
    ELSE CASE cloud = "short" -> {0}
           [] cloud = "empty" -> {}
           [] OTHER           -> Dates(kind)
Says(kind) ==
    IF kind = "history" THEN IF cloud = "bare" THEN "bare" ELSE "ready"
    ELSE IF insight.made THEN "ready" ELSE "negative"

\* upsert and upsert_negative, one row per date of the answer.  The life of
\* an insight counts from before the call, that of a history from after it.
Stored(t) ==
    [d \in Dates("history") |->
        IF d \notin t.got THEN rows[t.kind][d]
        ELSE [age |-> t.age, says |-> t.says,
              left |-> IF t.kind = "history" THEN CacheTtl["history"]
                       ELSE CacheTtl[IF t.says = "ready" THEN "insight" ELSE "negative"]
                            - t.wait]]

\* local_history_response: built here, or not even that.
LocalHistory == {[source |-> s, age |-> 0] : s \in {"mac", "empty"}}

\* synced_or_local_history of the cached rows, as old as the oldest: without
\* a ready day (has_a_ready_day) this Mac's own days may be the truer answer.
CachedHistory(dates) ==
    {[source |-> "cloud", age |-> Max({rows["history"][d].age : d \in dates})]}
    \cup {c \in LocalHistory : c.source = "mac"
                /\ \A d \in dates : rows["history"][d].says = "bare"}

Finish(t) == [tasks EXCEPT ![t] = Idle]

\* Mutant: a refresh ends with the history.
ProceedNoFurther(t) == Finish(t)
\* refresh_all asks for the history and then for the insight.
Proceed(t) ==
    IF t # "req" /\ tasks[t].kind = "history"
    THEN [tasks EXCEPT ![t] = [Idle EXCEPT !.pc = "start", !.kind = "insight",
                                           !.dates = Dates("insight")]]
    ELSE Finish(t)

-----------------------------------------------------------------------------
(* daily_history and daily_insight, by any of the runners.                 *)

\* Served from the cache.  Only a request shows it: nothing is pushed.
Serve(t) ==
    LET task == tasks[t]
    IN  /\ tasks' = Proceed(t)
        /\ card' \in IF t = "req" /\ task.kind = "history"
                     THEN CachedHistory(task.dates) ELSE {card}
        /\ onScreen' = IF t = "req" /\ task.kind = "insight"
                    THEN \A d \in task.dates : rows["insight"][d].says = "ready"
                    ELSE onScreen

\* A row that is stale or absent, or a read of it that took longer than
\* read_timeout (the bound on those is that of all troubles).
Miss(t) ==
    LET late == Fresh(tasks[t].kind, tasks[t].dates)
    IN  /\ late => troubles < MaxTroubles
        /\ troubles' = IF late THEN troubles + 1 ELSE troubles

\* The fast path.
Probe(t) ==
    /\ tasks[t].pc = "start"
    /\ \/ /\ Fresh(tasks[t].kind, tasks[t].dates)
          /\ Serve(t) /\ UNCHANGED troubles
       \/ /\ Miss(t)
          /\ tasks' = [tasks EXCEPT ![t].pc = "queue"]
          /\ UNCHANGED <<card, onScreen>>
    /\ UNCHANGED <<auth, cloud, rows, locks, since, outage, insight, up, unseen,
                   requests>>

\* Mutant: every caller has a lock of its own.
OwnLock(t) == TRUE
\* inflight_lock: the lock of the kind, if a runner holds it alive.
LockFree(t) == locks[tasks[t].kind] = Nobody

\* The lock, and the second look at the cache behind it.
Acquire(t) ==
    /\ tasks[t].pc = "queue" /\ LockFree(t)
    /\ \/ /\ Fresh(tasks[t].kind, tasks[t].dates)
          /\ Serve(t) /\ UNCHANGED <<locks, troubles>>
       \/ /\ Miss(t)
          /\ tasks' = [tasks EXCEPT ![t].pc = "call", ![t].wait = 0]
          /\ locks' = [locks EXCEPT ![tasks[t].kind] = t]
          /\ UNCHANGED <<card, onScreen>>
    /\ UNCHANGED <<auth, cloud, rows, since, outage, insight, up, unseen, requests>>

\* fetch_history_from_api, fetch_insight_from_api: the cloud answers.
CloudAnswers(t) ==
    /\ tasks[t].pc = "call" /\ auth /\ cloud # "down"
    /\ tasks' = [tasks EXCEPT ![t].pc = "answered", ![t].age = 0,
                              ![t].got = CloudDates(tasks[t].kind),
                              ![t].says = Says(tasks[t].kind)]
    /\ UNCHANGED <<auth, cloud, rows, locks, since, outage, card, insight, onScreen,
                   up, unseen, troubles, requests>>

Unlock(t) == locks' = [k \in Kinds |-> IF locks[k] = t THEN Nobody ELSE locks[k]]

\* The answer is stored and pushed: a history only with a ready day.  The
\* router replies as to a hit, and to a window of no rows as to a failure.
Arrive(t) ==
    LET task == tasks[t]
        empty == task.got = {}
        pushed == [source |-> "cloud", age |-> task.age]
    IN  /\ task.pc = "answered"
        /\ rows' = [rows EXCEPT ![task.kind] = Stored(task)]
        /\ Unlock(t) /\ tasks' = Proceed(t)
        /\ IF task.kind = "insight"
           THEN /\ onScreen' = IF task.says = "ready" THEN TRUE
                            ELSE IF t = "req" THEN FALSE ELSE onScreen
                /\ UNCHANGED <<card, outage>>
           ELSE /\ card' \in CASE empty -> IF t = "req" THEN LocalHistory ELSE {card}
                                [] ~empty /\ task.says = "bare" ->
                                       IF t = "req" THEN {pushed} \cup LocalHistory
                                       ELSE {card}
                                [] ~empty /\ task.says # "bare" -> {pushed}
                /\ outage' = (outage \/ (t = "req" /\ empty))
                /\ UNCHANGED onScreen
        /\ UNCHANGED <<auth, cloud, since, insight, up, unseen, troubles, requests>>

\* The call fails: unreachable, timed out, refused, or the session is gone.
Fail(t) ==
    /\ tasks[t].pc = "call" /\ (~auth \/ cloud = "down")
    /\ Unlock(t) /\ tasks' = Proceed(t)
    /\ IF t = "req" /\ tasks[t].kind = "history"
       THEN outage' = TRUE /\ card' \in LocalHistory
       ELSE UNCHANGED <<outage, card>>
    /\ onScreen' = (onScreen /\ ~(t = "req" /\ tasks[t].kind = "insight"))
    /\ UNCHANGED <<auth, cloud, rows, since, insight, up, unseen, troubles, requests>>

-----------------------------------------------------------------------------
(* Who fetches.                                                            *)

\* FetchScheduler::run: min_fetch_interval has elapsed.
IsDue == since >= Interval

\* A tick of the scheduler that finds the session and the interval right:
\* fetch_all runs in a task of its own, beside one that has not ended.
Schedule ==
    /\ auth /\ IsDue
    /\ \E t \in {"sched", "overlap"} :
          /\ tasks[t].pc = "idle" /\ (t = "overlap" => tasks["sched"].pc # "idle")
          /\ tasks' = [tasks EXCEPT ![t] = [Idle EXCEPT !.pc = "start",
                                                        !.dates = Dates("history")]]
    /\ since' = 0
    /\ UNCHANGED <<auth, cloud, rows, locks, outage, card, insight, onScreen, up,
                   unseen, troubles, requests>>

\* history_response: signed out it is built here; in an outage it comes from
\* the cache alone, or is built here; else the cloud is asked.
RequestHistory ==
    /\ IF ~auth THEN outage' = FALSE /\ card' \in LocalHistory /\ UNCHANGED tasks
       ELSE IF outage
       THEN /\ IF Fresh("history", Dates("history"))
               THEN outage' = FALSE /\ card' \in CachedHistory(Dates("history"))
               ELSE card' \in LocalHistory /\ UNCHANGED outage
            /\ UNCHANGED tasks
       ELSE /\ tasks' = [tasks EXCEPT !["req"] = [Idle EXCEPT !.pc = "start",
                                                   !.dates = Dates("history")]]
            /\ UNCHANGED <<outage, card>>

\* The router serves one request at a time.
ClientAsks ==
    /\ tasks["req"].pc = "idle" /\ requests < MaxRequests
    /\ requests' = requests + 1
    /\ \/ RequestHistory
       \/ /\ tasks' = [tasks EXCEPT !["req"] = [Idle EXCEPT !.pc = "start",
                             !.kind = "insight", !.dates = Dates("insight")]]
          /\ UNCHANGED <<outage, card>>
    /\ UNCHANGED <<auth, cloud, rows, locks, since, insight, onScreen, up, unseen,
                   troubles>>

\* The long poll claims the insight; its reply may be lost on the way.
PollClaims ==
    /\ auth /\ cloud # "down" /\ insight.made /\ ~insight.claimed
    /\ insight' = [insight EXCEPT !.claimed = TRUE]
    /\ onScreen' \in {onScreen, TRUE}
    /\ UNCHANGED <<auth, cloud, rows, locks, tasks, since, outage, card, up, unseen,
                   troubles, requests>>

-----------------------------------------------------------------------------
(* The world: the cloud's work and health, the session, and time.          *)

MakeInsight ==
    /\ ~insight.made
    /\ insight' = [insight EXCEPT !.made = TRUE]
    /\ UNCHANGED <<auth, cloud, rows, locks, tasks, since, outage, card, onScreen, up,
                   unseen, troubles, requests>>

\* log_in, log_out and auth_session all end the outage.
Trouble ==
    /\ troubles < MaxTroubles /\ troubles' = troubles + 1
    /\ \/ /\ auth' = ~auth /\ outage' = FALSE /\ UNCHANGED cloud
       \/ /\ \E c \in Health \ {cloud} : cloud' = c
          /\ UNCHANGED <<auth, outage>>
    /\ up' = 0 /\ unseen' = 0
    /\ UNCHANGED <<rows, locks, tasks, since, card, insight, onScreen, requests>>

Older(n) == IF n < MaxAge THEN n + 1 ELSE n
\* What a runner does before the next tick: all but the call, until it times out.
Urgent(t) ==
    \/ tasks[t].pc = "start" \/ (tasks[t].pc = "queue" /\ LockFree(t))
    \/ tasks[t].pc \in {"call", "answered"} /\ tasks[t].wait = Timeout

\* Rows age and expire, and so does what the card shows.
FetchTick ==
    /\ ~\E t \in Runners : Urgent(t)
    /\ ~(auth /\ IsDue)
    /\ LET aged(r) == IF r = NoRow THEN NoRow
                      ELSE [r EXCEPT !.left = IF @ = 0 THEN 0 ELSE @ - 1, !.age = Older(@)]
       IN  rows' = [k \in Kinds |-> [d \in Dates("history") |-> aged(rows[k][d])]]
    /\ tasks' = [t \in Runners |-> IF tasks[t].pc = "idle" THEN Idle
                    ELSE [tasks[t] EXCEPT !.wait = @ + 1, !.age = Older(@)]]
    /\ since' = IF since < Interval THEN since + 1 ELSE since
    /\ card' = [card EXCEPT !.age = Older(@)]
    /\ up' = IF auth /\ cloud = "up" THEN Older(up) ELSE 0
    /\ unseen' = IF insight.made /\ ~onScreen /\ auth /\ cloud = "up" THEN Older(unseen) ELSE 0
    /\ UNCHANGED <<auth, cloud, locks, outage, insight, onScreen, troubles, requests>>

Run ==
    \/ \E t \in Runners : Probe(t) \/ Acquire(t) \/ CloudAnswers(t) \/ Arrive(t) \/ Fail(t)
    \/ Schedule \/ ClientAsks \/ PollClaims

FetchNext == Run \/ MakeInsight \/ Trouble \/ FetchTick
FetchSpec == FetchInit /\ [][FetchNext]_fetchvars

-----------------------------------------------------------------------------
(* Properties.                                                             *)

\* The one lock per kind: of two answers that were out at once the later one
\* stays, so no row is ever replaced by an older answer of the cloud
\* (inflight_lock, daily_history, daily_insight).
CacheNeverGoesBack ==
    [][\A t \in Runners : tasks[t].pc = "answered" /\ tasks'[t].pc # "answered"
        => \A k \in Kinds, d \in Dates("history") : rows'[k][d].age <= rows[k][d].age]_fetchvars

\* While the cloud answers and the session holds, what the card shows was
\* read from the cloud, or built here, at most Lag ticks ago, although a
\* refresh may find the rows of the one before still fresh and do nothing
\* (FetchScheduler::run, get_history_cache), and so may the next request.
CardIsCurrent == up >= Lag => card.age <= Lag

\* ... and the insight of the day is on the screen as soon: the poll that
\* claimed it may have lost it, and a cached 404 may hide it for a while
\* (daily_insight, upsert_negative).
InsightArrives == unseen <= Lag
=============================================================================
