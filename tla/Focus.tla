-------------------------------- MODULE Focus --------------------------------
(***************************************************************************)
(* FocusManager: the coarse record of macOS Focus transitions, the offer   *)
(* of quiet hours that the late-night rule derives from it, and the quiet  *)
(* hours themselves.  The other prompts ask it whether they may speak.     *)
(*                                                                         *)
(* Time is counted in ticks.  A local time is the tick shifted by a UTC    *)
(* offset; a day is DayTicks, an hour HourTicks and an evidence bucket     *)
(* BucketTicks long.  A handler of the router runs alone: one client       *)
(* connection feeds it, and no other task writes these tables.  The        *)
(* process may die between the two writes of an accepted reply.            *)
(***************************************************************************)
EXTENDS Integers, Sequences, SequencesExt, FiniteSets, FiniteSetsExt

CONSTANTS
    BucketTicks,        \* FOCUS_EVIDENCE_BUCKET_SECONDS
    HourTicks, DayTicks,
    LateNight, Morning, \* local hours of the rule and of the offer
    QuietStart, QuietEnd, \* ticks of the local day
    Lookback, MinDays,  \* the rule: days looked at, days that trigger
    ReaskTicks,         \* QUIET_HOURS_DECLINE_REASK_DAYS
    EvidenceTicks,      \* FOCUS_EVIDENCE_RETENTION_DAYS
    Offsets             \* the UTC offsets a client may report

None == -1000

ASSUME FocusAssumption ==
    /\ {BucketTicks, HourTicks, Lookback, MinDays} \subseteq Nat \ {0}
    /\ DayTicks % HourTicks = 0 /\ HourTicks % BucketTicks = 0
    /\ DayTicks \in Nat \ {0}
    /\ QuietStart \in 0..(DayTicks - 1) /\ QuietEnd \in 0..(DayTicks - 1)
    /\ {ReaskTicks, EvidenceTicks} \subseteq Nat
    /\ Offsets \subseteq Int \ {None}

VARIABLES
    now,      \* the wall clock
    evidence, \* the rows of focus_state_evidence
    offset,   \* focus_observer_state: the last reported offset
    offer,    \* quiet_hours_offer_state
    quiet,    \* velvt_quiet_hours: configured or not
    \* history, for the properties
    reports,  \* transitions reported so far
    last,     \* the latest report since the evidence was cleared
    declined, \* the latest decline, if the offer memory was not cleared
    shown,    \* when an offer was last put on a screen
    cutShort  \* the process died inside an accepted reply

fvars == <<evidence, offset, offer, quiet, reports, last, declined, shown, cutShort>>

NoOffer == [triggered |-> None, offered |-> None,
            response |-> "none", responded |-> None]

\* With a past: quiet hours may be configured and an offset stored already.
FocusInit(past) ==
    /\ evidence = {} /\ offer = NoOffer
    /\ quiet \in (IF past THEN BOOLEAN ELSE {FALSE})
    /\ offset \in (IF past THEN Offsets ELSE {None})
    /\ reports = 0 /\ last = [active |-> FALSE, at |-> None]
    /\ declined = None /\ shown = None /\ cutShort = FALSE

-----------------------------------------------------------------------------
(* Local time.                                                             *)
FloorToBucket(t) == (t \div BucketTicks) * BucketTicks
LocalHour(t, o) == ((t + o) % DayTicks) \div HourTicks
LocalDate(t, o) == (t + o) \div DayTicks
LocalMinutes(t, o) == (t + o) % DayTicks

\* recent_local_dates: the trailing days, today included.
RecentDates(t, o) == {LocalDate(t - d * DayTicks, o) : d \in 0..(Lookback - 1)}

-----------------------------------------------------------------------------
(* The evidence.                                                           *)

\* latest_focus_transition: ORDER BY changed_at_bucket DESC, id DESC LIMIT 1.
LatestTransition(rows) ==
    CHOOSE r \in rows : \A s \in rows :
        s.bucket < r.bucket \/ (s.bucket = r.bucket /\ s.id <= r.id)

\* focus_state_at_bucket: the latest row up to b decides, unknown is inactive.
ActiveAtBucket(b) ==
    LET rows == {r \in evidence : r.bucket <= b}
    IN  rows # {} /\ LatestTransition(rows).active

\* Mutant: the transitions of the current bucket are not looked at.
StateBeforeBucket(t) ==
    ActiveAtBucket(FloorToBucket(t) - 1)
\* is_focus_active
IsFocusActive(t) == ActiveAtBucket(FloorToBucket(t))

PruneEvidence(rows, cutoff) == {r \in rows : r.bucket >= cutoff}

\* record_focus_transition: a repeat of the latest state stores nothing.  The
\* new id is above every stored one; nothing but their order is read.
NextId(rows) == IF rows = {} THEN 1 ELSE Max({r.id : r \in rows}) + 1
RecordTransition(rows, active, bucket, hour, date) ==
    IF rows # {} /\ LatestTransition(rows).active = active
    THEN rows
    ELSE rows \cup {[id |-> NextId(rows), active |-> active, bucket |-> bucket,
                     hour |-> hour, date |-> date]}

\* focus_active_dates_in_hours over LATE_NIGHT_HOURS, within the lookback.
LateNightDays(rows, t, o) ==
    {r.date : r \in {s \in rows : s.active /\ s.hour \in LateNight}}
        \cap RecentDates(t, o)

\* evaluate_pattern_rule: no trigger while quiet hours are set, an offer is
\* open or accepted, or a decline is young.
Triggers(rows, o) ==
    /\ ~quiet /\ offer.response # "accepted"
    /\ offer.response = "declined" => now >= offer.responded + ReaskTicks
    /\ offer.response = "none" => offer.triggered = None
    /\ Cardinality(LateNightDays(rows, now, o)) >= MinDays

\* pending_morning_offer: an unanswered trigger, on a local morning after it.
OfferIsDue(f, o) ==
    /\ f.response = "none" /\ f.triggered # None /\ o # None
    /\ LocalHour(now, o) \in Morning
    /\ now > f.triggered

\* The one row of the offer.  A trigger forgets the offer before it, the first
\* showing is kept, and only an unanswered offer takes a reply.
WithTrigger(t) == [NoOffer EXCEPT !.triggered = t]
WithOffered(f, t) == [f EXCEPT !.offered = IF @ = None THEN t ELSE @]
IsUnanswered(f) == f # NoOffer /\ f.response = "none"
WithResponse(f, answer, t) ==
    IF IsUnanswered(f) THEN [f EXCEPT !.response = answer, !.responded = t] ELSE f

-----------------------------------------------------------------------------
(* Quiet hours.                                                            *)

\* quiet_hours_remaining_minutes_at, for a time inside the window.
Remaining(t, o) ==
    LET m == LocalMinutes(t, o)
    IN  IF QuietEnd > m THEN QuietEnd - m ELSE (DayTicks - m) + QuietEnd

InsideWindow(m) ==
    IF QuietStart <= QuietEnd THEN m >= QuietStart /\ m < QuietEnd
    ELSE m >= QuietStart \/ m < QuietEnd

\* in_velvt_quiet_hours_at, and with the stored offset in_velvt_quiet_hours.
InQuietHoursAt(t, o) == quiet /\ InsideWindow(LocalMinutes(t, o))
InQuietHours(t) == offset # None /\ InQuietHoursAt(t, offset)

\* quiet_hours_end: when a notification held at t is due.
QuietHoursEnd(t) == t + Remaining(t, offset)

-----------------------------------------------------------------------------
(* Handlers.                                                               *)

\* push_pending_quiet_hours_offer: the offer f is shown if it is due.
ShowIfDue(f, o) ==
    /\ offer' = IF OfferIsDue(f, o) THEN WithOffered(f, now) ELSE f
    /\ shown' = IF OfferIsDue(f, o) THEN now ELSE shown

\* set_utc_offset, set_quiet_hours: one row each, replaced.
SetUtcOffset(o) == offset' = o
SetQuietHours == quiet' = TRUE

\* FocusStateChanged: record_transition with the offset of the report, then
\* push_pending_quiet_hours_offer.  Reports arrive in the order of their times.
ReportTransition(active, at, o) ==
    LET rows == RecordTransition(PruneEvidence(evidence, now - EvidenceTicks),
                    active, FloorToBucket(at), LocalHour(at, o), LocalDate(at, o))
    IN  /\ at >= last.at
        /\ SetUtcOffset(o)
        /\ evidence' = rows
        /\ ShowIfDue(IF Triggers(rows, o) THEN WithTrigger(now) ELSE offer, o)
        /\ reports' = reports + 1
        /\ last' = [active |-> active, at |-> at]
        /\ UNCHANGED <<quiet, declined, cutShort>>

\* RequestWorkBlockState also shows a waiting offer.
ShowOffer ==
    /\ OfferIsDue(offer, offset)
    /\ ShowIfDue(offer, offset)
    /\ UNCHANGED <<evidence, offset, quiet, reports, last, declined, cutShort>>

\* RespondQuietHoursOffer: a tap on a card that was shown, perhaps long ago.
\* The first write keeps an earlier answer and changes nothing when there is
\* no offer; the second one does not ask.
RespondToOffer(accepted) ==
    /\ shown # None
    /\ offer' = WithResponse(offer, IF accepted THEN "accepted" ELSE "declined", now)
    /\ declined' = IF IsUnanswered(offer) /\ ~accepted THEN now ELSE declined
    /\ \/ ~accepted /\ UNCHANGED <<quiet, cutShort>>
       \/ accepted /\ SetQuietHours /\ UNCHANGED cutShort
       \/ accepted /\ ~quiet /\ cutShort' = TRUE /\ UNCHANGED quiet
    /\ UNCHANGED <<evidence, offset, reports, last, shown>>

\* clear_evidence, of ClearWorkBlockData: quiet hours survive.
ClearEvidence ==
    /\ evidence' = {} /\ offset' = None /\ offer' = NoOffer
    /\ last' = [active |-> FALSE, at |-> None] /\ declined' = None
    /\ UNCHANGED <<quiet, reports, shown, cutShort>>

\* A report may be one tick old when it is handled.
FocusReport ==
    \E active \in BOOLEAN, late \in 0..1, o \in Offsets :
        ReportTransition(active, now - late, o)

FocusReply ==
    \/ ShowOffer
    \/ \E accepted \in BOOLEAN : RespondToOffer(accepted)
    \/ ClearEvidence

-----------------------------------------------------------------------------
(* Properties.                                                             *)

\* What the gates read from the stored evidence (is_focus_active) is the
\* state that Swift last reported: neither the bucket, nor the repeat that
\* is not stored, nor the pruning loses or revives a transition.
FocusStateIsLastReport == IsFocusActive(now) = last.active

\* A declined offer is not put on a screen again before the re-ask interval
\* is over (evaluate_pattern_rule, pending_morning_offer), whatever evidence
\* arrives meanwhile.
DeclineIsRemembered ==
    (declined # None /\ shown > declined) => shown >= declined + ReaskTicks

\* A held notification is due at the first moment outside the quiet window
\* (quiet_hours_end), across midnight and for every offset.
HeldUntilQuietEnds ==
    InQuietHours(now) =>
        /\ QuietHoursEnd(now) > now
        /\ ~InQuietHours(QuietHoursEnd(now))
        /\ \A t \in now..(QuietHoursEnd(now) - 1) : InQuietHours(t)

=============================================================================
