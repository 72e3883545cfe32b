------------------------------- MODULE Drift -------------------------------
(* The evidence of a work block: the dwells the Mac client reports, the     *)
(* observation ledger that observe_safe_category builds from them, the      *)
(* drift gate that decides on them, the backoff and the demotion that       *)
(* quieten it, and the result a finished block is given.                    *)
(*                                                                          *)
(* WorkBlock interleaves the repository calls of several tasks and          *)
(* abstracts this evidence away.  Here one connection serves one command at *)
(* a time and the evidence is kept.  A dwell is reported twice, when it     *)
(* begins (a report that may be missing) and when it ends, and a pause or a *)
(* restart may fall between the two.                                        *)
(*                                                                          *)
(* A category is a number whose order is that of the names; 0 stands for    *)
(* evidence below the bar of is_confident.                                  *)
EXTENDS Naturals, Sequences, FiniteSets, FiniteSetsExt, SequencesExt

CONSTANTS
    Named,            \* the confident categories
    Absent,           \* no value in a column
    Replies,          \* the replies of InterventionResponse
    OutcomeHorizon,   \* DECISION_OUTCOME_HORIZON_SECONDS
    PlannedTicks,     \* planned_duration_seconds
    DriftWindow, MinSwitches, MinElapsed, MinRemaining,     \* the gate
    BackoffBase, BackoffMax,                                \* the cooldown
    RollingTicks, ThresholdPercent, MinSample,              \* the demotion
    DriftEnd,         \* the last tick of the clock
    MaxDwells,        \* dwells of the user
    MaxBoundaries     \* blocks begun, pauses and restarts

ASSUME DriftAssumption ==
    /\ Named \subseteq Nat \ {0} /\ Absent \notin Nat /\ "offered" \notin Replies
    /\ OutcomeHorizon \in Nat /\ PlannedTicks \in Nat \ {0} /\ MinSample \in Nat \ {0}
    /\ BackoffBase \in Nat /\ BackoffMax \in Nat

VARIABLES
    time,       \* Utc::now()
    user,       \* the dwell the user is in, or has just left
    past,       \* history: what the user was doing at each tick
    ran,        \* history: the ticks at which the block was running
    blk,        \* the latest work_block row
    ledger,     \* its work_block_observation rows
    raw,        \* raw_event_buffer: the dwells reported closed
    offered,    \* work_block_intervention, one per block, oldest first
    decisions,  \* intervention_decision_log
    demotion,   \* intervention_demotion_state
    result,     \* work_block_result of that block
    boundaries  \* blocks begun, pauses and restarts so far

driftVars == <<time, user, past, ran, blk, ledger, raw, offered, decisions, demotion, result,
               boundaries>>

Evidence == Named \cup {0}
Negative == Replies \ {"accepted_action"}
\* Decided, and shown by no channel.
Withheld == {"withheld_demotion", "delivery_suppressed_dnd"}

Idle == [id |-> 0, phase |-> "Idle", started |-> 0, paused |-> 0, total |-> 0, updated |-> 0]

DriftInit ==
    /\ time = 0 /\ past = <<>> /\ ran = {}
    /\ \E c \in Evidence : user = [n |-> 1, cat |-> c, at |-> 0, is |-> "in"]
    /\ blk = Idle
    /\ ledger = <<>> /\ raw = {} /\ offered = <<>> /\ decisions = <<>>
    /\ demotion = [state |-> "active", since |-> Absent, reset |-> Absent]
    /\ result = Absent /\ boundaries = 0

Later(a, b) == IF a > b THEN a ELSE b
Earlier(a, b) == IF a < b THEN a ELSE b
Minus(a, b) == IF a > b THEN a - b ELSE 0

Deadline(b) == b.started + PlannedTicks + b.total
ElapsedAt(b, now) ==
    LET end == IF b.phase = "Paused" THEN b.paused ELSE Later(now, b.updated)
    IN  Minus(Minus(end, b.started), b.total)
IsOver(b, now) == b.phase = "Active" /\ ElapsedAt(b, now) >= PlannedTicks

-----------------------------------------------------------------------------
(* The ledger and what is read from it *)

is_confident(c) == c \in Named

IsOpen(row) == row.end = Absent
RowSeconds(row) == IF IsOpen(row) THEN 0 ELSE row.end - row.at

CloseAt(rows, at) ==
    [i \in DOMAIN rows |->
        IF IsOpen(rows[i]) THEN [rows[i] EXCEPT !.end = Later(rows[i].at, at)] ELSE rows[i]]

reported_dwells(from, until) == {d \in raw : d.at < until /\ d.end > from}

\* Where the open row's own dwells ended.
reported_end(open, reported, boundary) ==
    Max({open.at} \cup {Earlier(d.end, boundary) : d \in {e \in reported : e.cat = open.cat}})

close_open_observation_at_reported_end(rows, boundary) ==
    IF rows = <<>> \/ ~IsOpen(Last(rows)) THEN rows
    ELSE CloseAt(rows, reported_end(Last(rows), reported_dwells(Last(rows).at, boundary),
                                    boundary))

\* merged_spans: the ticks of the spans inside [from, until).
Span(from, until) == {t \in 0..DriftEnd : from <= t /\ t < until}
merged_spans(spans, from, until) ==
    UNION {Span(Later(s.at, from), Earlier(s.end, until)) : s \in spans}

reported_coverage_seconds(reported, rows, from, until) ==
    Cardinality(merged_spans({d \in reported : is_confident(d.cat)}, from, until)
          \cap  merged_spans({r \in ToSet(rows) : ~IsOpen(r)}, from, until))

SecondsIn(rows, c) ==
    FoldLeft(LAMBDA sum, r : IF r.cat = c THEN sum + RowSeconds(r) ELSE sum, 0, rows)

\* The most time; the first name of equals; Absent when no time was confident.
dominant_category(rows) ==
    LET seen == {c \in Named : SecondsIn(rows, c) > 0}
        most == {c \in seen : \A d \in seen : SecondsIn(rows, d) <= SecondsIn(rows, c)}
    IN  IF seen = {} THEN Absent ELSE Min(most)

\* Of each row of a sequence of categories, whether it leaves the anchor, and
\* whether it comes back to it, seen from the row before.
Departures(cats, anchor) ==
    Cardinality({i \in 2..Len(cats) : cats[i] # anchor /\ cats[i - 1] = anchor})
Returns(cats, anchor) ==
    Cardinality({i \in 2..Len(cats) : /\ cats[i] = anchor /\ cats[i - 1] # anchor
                                      /\ \E j \in 1..(i - 1) : cats[j] = anchor})

\* The longest run of neighbours of one category.
LongestRun(rows) ==
    LET runs == {w \in (DOMAIN rows) \X (DOMAIN rows) :
                    w[1] <= w[2] /\ \A k \in w[1]..w[2] : rows[k].cat = rows[w[1]].cat}
    IN  Max({0} \cup {FoldLeft(LAMBDA sum, r : sum + RowSeconds(r), 0, SubSeq(rows, w[1], w[2]))
                         : w \in runs})

\* Coverage below a quarter claims no category.
aggregate_result(rows, elapsed, covered) ==
    LET valid == SelectSeq(rows, LAMBDA r : is_confident(r.cat) /\ RowSeconds(r) > 0)
        cats == [i \in DOMAIN valid |-> valid[i].cat]
        dominant == dominant_category(rows)
    IN  [covered |-> covered, elapsed |-> elapsed,
         coverage |-> IF 4 * covered < elapsed \/ elapsed = 0 THEN "insufficient"
                      ELSE IF 4 * covered < 3 * elapsed THEN "partial" ELSE "good",
         category |-> IF 4 * covered < elapsed \/ elapsed = 0 THEN Absent ELSE dominant,
         longest |-> LongestRun(valid),
         switch_aways |-> Departures(cats, dominant),
         recoveries |-> Returns(cats, dominant)]

-----------------------------------------------------------------------------
(* Offers *)

HasOffer(os) == os # <<>> /\ Last(os).block = blk.id
Pending(os) == HasOffer(os) /\ Last(os).outcome = "offered"
Resolve(os, outcome, at) ==
    IF Pending(os)
    THEN [os EXCEPT ![Len(os)].outcome = outcome, ![Len(os)].outcomeAt = at] ELSE os

Cooldown(n) == Earlier(BackoffBase * 2 ^ (n - 1), BackoffMax)

\* The answered offers since the last one that was not refused.  The limit of
\* recent_interventions is beyond the refusals that reach BackoffMax.
Refusals(os) ==
    {j \in DOMAIN os : os[j].outcome \in Negative
                         /\ \A k \in j..Len(os) : os[k].outcome \in Negative \cup {"offered"}}
Streak(os) == Cardinality(Refusals(os))
LastRefused(os) == os[Max(Refusals(os))].outcomeAt

\* backoff_state
Suppressed(os, now) == Streak(os) > 0 /\ now < LastRefused(os) + Cooldown(Streak(os))
Salience(os) == IF Streak(os) > 0 THEN "quiet" ELSE "normal"

\* The rows some channel showed, and those the user called wrong.
wrong_intervention_counts(os, since) ==
    LET delivered == SelectSeq(os, LAMBDA o : o.at >= since /\ o.outcome \notin Withheld)
    IN  [delivered |-> Len(delivered),
         was_focused |-> Len(SelectSeq(delivered, LAMBDA o : o.outcome = "was_focused"))]

\* evaluate_demotion: what the row says once it has run.
evaluate_demotion(row, os, now) ==
    LET since == Later(Minus(now, RollingTicks), IF row.reset = Absent THEN 0 ELSE row.reset)
        n == wrong_intervention_counts(os, since)
        over == n.delivered >= MinSample /\ n.was_focused * 100 > n.delivered * ThresholdPercent
    IN  [row EXCEPT !.state = IF over THEN "demoted" ELSE "active",
                    !.since = IF ~over THEN Absent
                              ELSE IF row.state = "demoted" THEN row.since ELSE now]

-----------------------------------------------------------------------------
(* evaluate_drift *)

\* The gate's count of departures: the rows of the window, after the last
\* confident one before it.
Recent(rows, now) ==
    LET confident == SelectSeq(rows, LAMBDA r : is_confident(r.cat))
        before == SelectSeq(confident, LAMBDA r : r.at + DriftWindow < now)
        inside == SelectSeq(confident, LAMBDA r : r.at + DriftWindow >= now)
        kept == IF before = <<>> THEN inside ELSE <<Last(before)>> \o inside
    IN  [i \in DOMAIN kept |-> kept[i].cat]

\* The gates in their order; dnd is what the Focus record says at now.
Verdict(b, rows, os, dem, now, dnd) ==
    LET anchor == dominant_category(rows)
        cats == Recent(rows, now)
    IN  IF ElapsedAt(b, now) < MinElapsed THEN "abstained_warmup"
        ELSE IF Minus(PlannedTicks, ElapsedAt(b, now)) < MinRemaining THEN "abstained_remaining"
        ELSE IF HasOffer(os) THEN "abstained_block_cap"
        ELSE IF Suppressed(os, now) THEN "abstained_backoff"
        ELSE IF anchor = Absent THEN "abstained_no_anchor"
        ELSE IF Departures(cats, anchor) < MinSwitches THEN "abstained_min_switches"
        ELSE IF Last(cats) = anchor THEN "abstained_at_anchor"
        ELSE IF dem.state = "demoted" THEN "withheld_demotion"
        ELSE IF dnd THEN "delivery_suppressed_dnd"
        ELSE "offered"

\* A decision that clears the gate leaves a row, shown or not; a row that is
\* not shown has its outcome already.
record_intervention(os, verdict, anchor, now) ==
    Append(os, [block |-> blk.id, at |-> now, anchor |-> anchor, outcome |-> verdict,
                outcomeAt |-> IF verdict = "offered" THEN Absent ELSE now,
                salience |-> IF verdict = "offered" THEN Salience(os) ELSE "normal",
                seen |-> FALSE])
Records(os, verdict, rows, now) ==
    IF verdict \notin Withheld \cup {"offered"} THEN os
    ELSE record_intervention(os, verdict, dominant_category(rows), now)

\* Every evaluation is logged, whatever it decided; the gates after
\* abstained_no_anchor log the anchor too.
LogsAnchor(v) ==
    v \in {"abstained_min_switches", "abstained_at_anchor", "offered"} \cup Withheld
record_decision(log, row) == Append(log, row)
log_decision(dwell, verdict, rows, at) ==
    decisions' = record_decision(decisions,
        [block |-> blk.id, dwell |-> dwell, verdict |-> verdict, at |-> at,
         anchor |-> IF LogsAnchor(verdict) THEN dominant_category(rows) ELSE Absent,
         outcome |-> "unknown", rows |-> Len(rows)])

\* The decisions whose horizon is closed and that have no outcome yet.
unresolved_decisions(now) ==
    {i \in DOMAIN decisions : /\ decisions[i].outcome = "unknown" /\ decisions[i].anchor # Absent
                              /\ decisions[i].at + OutcomeHorizon <= now}

\* Strictly after the decision: its own observation is on disk already.
observed_category_between(cat, from, until) ==
    \E i \in DOMAIN ledger : ledger[i].cat = cat /\ from < ledger[i].at /\ ledger[i].at <= until

resolve_decision(d) ==
    [d EXCEPT !.outcome = IF observed_category_between(d.anchor, d.at, d.at + OutcomeHorizon)
                          THEN "seen" ELSE "unseen"]

\* The gate asks for the demotion only once everything before it passed.
ReachesDemotion(v) == v \in Withheld \cup {"offered"}

-----------------------------------------------------------------------------
(* Commands *)

\* finish: the ledger is closed, a silent offer resolved, the result frozen.
Finish(phase, ended) ==
    LET rows == close_open_observation_at_reported_end(ledger, ended)
        elapsed == ElapsedAt([blk EXCEPT !.phase = IF @ = "Paused" THEN @ ELSE "Active"], ended)
        covered == reported_coverage_seconds(reported_dwells(blk.started, ended), rows,
                                             blk.started, ended)
    IN  /\ ledger' = rows
        /\ offered' = Resolve(offered, "no_response", ended)
        /\ result' = aggregate_result(rows, elapsed, covered)
        /\ blk' = [blk EXCEPT !.phase = phase, !.updated = ended]

\* The snapshot every command ends with asks for the demotion while an offer
\* waits for its answer.
SnapshotFor(now) ==
    demotion' = IF Pending(offered) THEN evaluate_demotion(demotion, offered, now) ELSE demotion

StartBlock ==
    /\ blk.phase \notin {"Active", "Paused"}
    /\ boundaries < MaxBoundaries /\ boundaries' = boundaries + 1
    /\ blk' = [Idle EXCEPT !.id = blk.id + 1, !.phase = "Active",
                           !.started = time, !.updated = time]
    /\ ledger' = <<>> /\ result' = Absent /\ ran' = {}
    /\ UNCHANGED <<time, user, past, raw, offered, decisions, demotion>>

PauseBlock ==
    LET at == Earlier(Later(time, blk.updated), Deadline(blk)) IN
    /\ blk.phase = "Active"
    /\ boundaries < MaxBoundaries /\ boundaries' = boundaries + 1
    /\ IF IsOver(blk, time)
       THEN Finish("Completed", Deadline(blk)) /\ UNCHANGED demotion
       ELSE /\ ledger' = close_open_observation_at_reported_end(ledger, at)
            /\ blk' = [blk EXCEPT !.phase = "Paused", !.paused = at, !.updated = at]
            /\ SnapshotFor(at)
            /\ UNCHANGED <<offered, result>>
    /\ UNCHANGED <<time, user, past, ran, raw, decisions>>

ResumeBlock ==
    LET at == Later(time, blk.updated) IN
    /\ blk.phase = "Paused"
    /\ blk' = [blk EXCEPT !.phase = "Active", !.paused = 0, !.updated = at,
                          !.total = @ + Minus(at, blk.paused)]
    /\ SnapshotFor(at)
    /\ UNCHANGED <<boundaries, time, user, past, ran, ledger, raw, offered, decisions, result>>

EndBlock ==
    /\ blk.phase \in {"Active", "Paused"}
    /\ IF IsOver(blk, time) THEN Finish("Completed", Deadline(blk))
       ELSE Finish("Abandoned", IF blk.phase = "Paused" THEN blk.paused
                                ELSE Later(time, blk.updated))
    /\ UNCHANGED <<boundaries, time, user, past, ran, raw, decisions, demotion>>

\* recover_after_restart of a block whose time is not over; one whose time is
\* over expires.
RestartService ==
    /\ blk.phase = "Active"
    /\ boundaries < MaxBoundaries /\ boundaries' = boundaries + 1
    /\ IF IsOver(blk, time)
       THEN Finish("Expired", Deadline(blk)) /\ UNCHANGED demotion
       ELSE /\ ledger' = close_open_observation_at_reported_end(ledger, time)
            /\ blk' = [blk EXCEPT !.updated = time]
            /\ SnapshotFor(time)
            /\ UNCHANGED <<offered, result>>
    /\ UNCHANGED <<time, user, past, ran, raw, decisions>>

\* report_intervention_outcome: only an unanswered offer takes the reply.
ReportInterventionOutcome(reply) ==
    /\ Pending(offered)
    /\ offered' = Resolve(offered, reply, time)
    /\ UNCHANGED <<boundaries, time, user, past, ran, blk, ledger, raw, decisions, demotion, result>>

\* record_intervention_card_seen, the first time.
mark_intervention_card_seen(os) == [os EXCEPT ![Len(os)].seen = TRUE]
CardSeen ==
    /\ HasOffer(offered) /\ ~Last(offered).seen
    /\ offered' = mark_intervention_card_seen(offered)
    /\ SnapshotFor(time)
    /\ UNCHANGED <<boundaries, time, user, past, ran, blk, ledger, raw, decisions, result>>

\* reset_demotion, and the evaluation its answer makes.
ResetDemotion ==
    /\ demotion.state = "demoted"
    /\ demotion' = evaluate_demotion([state |-> "active", since |-> Absent, reset |-> time],
                                     offered, time)
    /\ UNCHANGED <<boundaries, time, user, past, ran, blk, ledger, raw, offered, decisions, result>>

-----------------------------------------------------------------------------
(* observe_safe_category *)

\* Mutant: a report after a boundary is decided as a new dwell.
NeverContinues(rows, cat, occurred) == FALSE

\* A closed row of the same evidence that began no earlier than this dwell was
\* this dwell's own.
continues_decided_dwell(rows, cat, occurred) ==
    /\ rows # <<>>
    /\ ~IsOpen(Last(rows)) /\ Last(rows).cat = cat /\ Last(rows).at >= occurred

SameRowOpen(cat) == ledger # <<>> /\ IsOpen(Last(ledger)) /\ Last(ledger).cat = cat

\* record_return_if_pending
Returned(os, cat, at) ==
    IF is_confident(cat) /\ Pending(os) /\ Last(os).anchor = cat
    THEN Resolve(os, "returned", at) ELSE os

append_observation(rows, cat, at) == Append(rows, [cat |-> cat, at |-> at, end |-> Absent])

\* The row, the return, the gate and the snapshot, at the instant at.
Observes(cat, occurred, at) ==
    LET rows == append_observation(CloseAt(ledger, at), cat, at)
        back == Returned(offered, cat, at)
        dem == evaluate_demotion(demotion, back, at)
    IN  /\ ledger' = rows
        /\ blk' = [blk EXCEPT !.updated = Later(@, at)]
        /\ IF continues_decided_dwell(ledger, cat, occurred)
           THEN SnapshotFor(at) /\ UNCHANGED <<offered, decisions>>
           ELSE \E dnd \in BOOLEAN :
                LET v == Verdict(blk, rows, back, dem, at, dnd)
                    gated == IF ReachesDemotion(v) THEN dem ELSE demotion IN
                /\ log_decision(user'.n, v, rows, at)
                /\ offered' = Records(back, v, rows, at)
                /\ demotion' = IF Pending(offered')
                               THEN evaluate_demotion(gated, offered', at) ELSE gated

\* Mutant: a row starts with its dwell, whatever the block did since.
OccurredAt(occurred) == occurred

\* Never before what the block has already recorded, nor after its deadline.
ObservedAt(occurred) == Earlier(Later(occurred, blk.updated), Deadline(blk))

\* What one report of the dwell (cat, occurred) changes.
Observe(cat, occurred) ==
    \/ /\ blk.phase # "Active" \/ (~IsOver(blk, occurred) /\ SameRowOpen(cat))
       /\ UNCHANGED <<blk, ledger, offered, decisions, demotion, result>>
    \/ /\ IsOver(blk, occurred)
       /\ Finish("Completed", Deadline(blk))
       /\ UNCHANGED <<decisions, demotion>>
    \/ /\ blk.phase = "Active" /\ ~IsOver(blk, occurred) /\ ~SameRowOpen(cat)
       /\ Observes(cat, occurred, ObservedAt(occurred))
       /\ UNCHANGED result

\* The user leaves: the closed report stores the dwell with its length, ...
StoreDwell ==
    /\ user.is = "in" /\ user.n < MaxDwells
    /\ raw' = raw \cup {[cat |-> user.cat, at |-> user.at, end |-> time]}
    /\ user' = [user EXCEPT !.is = "stored"]
    /\ UNCHANGED <<boundaries, time, past, ran, blk, ledger, offered, decisions, demotion, result>>

\* ... and then observes it.
LeaveDwell ==
    /\ user.is = "stored"
    /\ user' = [user EXCEPT !.is = "left"]
    /\ Observe(user.cat, user.at)
    /\ UNCHANGED <<boundaries, time, past, ran, raw>>

\* The next dwell begins where the last one ended, with or without its report.
BeginDwell(cat) ==
    /\ user.is = "left"
    /\ user' = [n |-> user.n + 1, cat |-> cat, at |-> time, is |-> "in"]
    /\ \/ Observe(cat, time)
       \/ UNCHANGED <<blk, ledger, offered, decisions, demotion, result>>
    /\ UNCHANGED <<boundaries, time, past, ran, raw>>

\* The retention cycle fills in what followed the decisions of this block: the
\* ones of the blocks before had theirs filled in from rows not kept here.
ResolveOutcomes ==
    LET due == {i \in unresolved_decisions(time) : decisions[i].block = blk.id} IN
    /\ due # {}
    /\ decisions' = [i \in DOMAIN decisions |->
                        IF i \in due THEN resolve_decision(decisions[i]) ELSE decisions[i]]
    /\ UNCHANGED <<boundaries, time, user, past, ran, blk, ledger, raw, offered, demotion, result>>

\* Time passes while the user is in a dwell.
PassTime ==
    /\ user.is = "in" /\ time < DriftEnd
    /\ time' = time + 1
    /\ past' = Append(past, user.cat)
    /\ ran' = IF blk.phase = "Active" /\ time < Deadline(blk) THEN ran \cup {time} ELSE ran
    /\ UNCHANGED <<boundaries, user, blk, ledger, raw, offered, decisions, demotion, result>>

DriftNext ==
    \/ StartBlock \/ PauseBlock \/ ResumeBlock \/ EndBlock \/ RestartService
    \/ \E reply \in Replies : ReportInterventionOutcome(reply)
    \/ CardSeen \/ ResetDemotion \/ ResolveOutcomes
    \/ StoreDwell \/ LeaveDwell \/ PassTime
    \/ \E cat \in Evidence : BeginDwell(cat)

DriftSpec == DriftInit /\ [][DriftNext]_driftVars

-----------------------------------------------------------------------------
(* Properties *)

\* A block decides on a dwell at most once, though it is reported twice and a
\* pause, a restart or a resume may close its row between the two reports.
DecidedOnce ==
    \A i, j \in DOMAIN decisions :
        decisions[i].block = decisions[j].block /\ decisions[i].dwell = decisions[j].dwell
            => i = j

\* Every second a confident row of the ledger claims is one the user spent in
\* that category while the block was running: a missing report, a boundary or
\* time in a pause is never filed under the category the user had left.
LedgerIsTrue ==
    \A i \in DOMAIN ledger :
        is_confident(ledger[i].cat) /\ ~IsOpen(ledger[i]) =>
            \A t \in Span(ledger[i].at, ledger[i].end) :
                t \in ran /\ past[t + 1] = ledger[i].cat

\* The result claims no more coverage than the user spent in confident
\* categories while the block ran, and no more than the block's elapsed time.
CoverageIsReal ==
    result # Absent =>
        /\ result.covered <= Cardinality({t \in ran : is_confident(past[t + 1])})
        /\ result.covered <= result.elapsed

\* No uninterrupted stretch is longer than the coverage, and the user left the
\* dominant category as often as they came back to it, or once more.
ShapeIsCoherent ==
    result # Absent =>
        /\ result.longest <= result.covered
        /\ result.recoveries <= result.switch_aways
        /\ result.switch_aways <= result.recoveries + 1

\* The gate decides nothing in the cooldown of the refusals before it, which
\* doubles with each one in a row: i is where the row of refusals begins.
CooldownIsServed ==
    \A j \in DOMAIN offered : \A i \in 1..(j - 1) :
        (/\ \A k \in i..(j - 1) : offered[k].outcome \in Negative
         /\ i = 1 \/ offered[i - 1].outcome \notin Negative)
        => offered[j].at >= offered[j - 1].outcomeAt
                              + Earlier(BackoffBase * 2 ^ (j - i - 1), BackoffMax)

\* The user is interrupted once for one drift and not again before the
\* refusals are served.
OffersAreSpaced == DecidedOnce /\ CooldownIsServed

\* The log says that the user came back only if they did so after the decision,
\* in another row than the one that was decided on and within the horizon.
ReturnsAreLater ==
    \A i \in DOMAIN decisions :
        decisions[i].outcome = "seen" /\ decisions[i].block = blk.id =>
            \E j \in (decisions[i].rows + 1)..Len(ledger) :
                /\ ledger[j].cat = decisions[i].anchor
                /\ ledger[j].at <= decisions[i].at + OutcomeHorizon

\* What is kept and what is reported of a block was measured while it ran.
ResultsAreMeasured == LedgerIsTrue /\ CoverageIsReal /\ ReturnsAreLater
=============================================================================
