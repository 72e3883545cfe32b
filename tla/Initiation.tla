----------------------------- MODULE Initiation -----------------------------
(***************************************************************************)
(* InitiationManager: the invitation to start a block at a good hour, its  *)
(* gates, its backoff and the start command that claims it.                *)
(*                                                                         *)
(* The evidence of good hours is a set of completed blocks with one        *)
(* confident dwell each, older than the run.  A handler runs alone; the    *)
(* process may die between the start of a block and the record of the      *)
(* invitation it answers.                                                  *)
(***************************************************************************)
EXTENDS Focus

CONSTANTS
    WeekDays,         \* days after which an hour of the week comes again
    Histories,        \* the sets of completed blocks a run may begin with
    GoodLookback,     \* GOOD_HOURS_LOOKBACK_DAYS
    MinBlocks, MinBucketBlocks, MinBucketTicks,
    Ttl,              \* INVITATION_RESPONSE_TTL_SECONDS
    BaseCooldown, Multiplier,
    SilenceThreshold, SilenceTicks,
    MaxInvitations    \* bound: rows of the table

ASSUME InitiationAssumption ==
    /\ {WeekDays, Multiplier, BaseCooldown, Ttl, SilenceThreshold} \subseteq Nat \ {0}
    /\ {GoodLookback, MinBlocks, MinBucketBlocks, MinBucketTicks,
        SilenceTicks, MaxInvitations} \subseteq Nat

VARIABLES
    history,     \* completed work_block rows with their dwell
    invitations, \* initiation_invitation, in the order they were offered
    enabled,     \* initiation_settings.invitations_enabled
    live         \* the latest block is active or paused, and its origin

ivars == <<history, invitations, enabled, live>>

InitiationInit ==
    /\ history \in Histories /\ invitations = <<>> /\ enabled = TRUE
    /\ live = "none"

-----------------------------------------------------------------------------
(* assess_good_hours                                                       *)

HourOfWeek(t, o) == <<LocalDate(t, o) % WeekDays, LocalHour(t, o)>>

\* The next local hour boundary after the cursor c.
NextHour(c, o) == c + (HourTicks - (LocalMinutes(c, o) % HourTicks))

\* The loop that splits a dwell at the local hours: a set of pieces, each
\* in the bucket of its first tick.
Pieces(block, o) ==
    LET from[c \in block.from..block.to] ==
            IF c = block.to THEN {}
            ELSE LET end == Min({block.to, NextHour(c, o)})
                 IN  {[bucket |-> HourOfWeek(c, o), at |-> c, ticks |-> end - c]} \cup from[end]
    IN  from[block.from]

GoodBuckets(blocks, o) ==
    LET in(b, block) == {p \in Pieces(block, o) : p.bucket = b}
        here(b) == {block \in blocks : in(b, block) # {}}
        ticks(b) == FoldSet(LAMBDA block, n : n + FoldSet(LAMBDA p, m : m + p.ticks, 0, in(b, block)),
                            0, here(b))
        seen == UNION {{p.bucket : p \in Pieces(block, o)} : block \in blocks}
    IN  {b \in seen : ticks(b) >= MinBucketTicks /\ Cardinality(here(b)) >= MinBucketBlocks}

GoodHour(t, o) ==
    LET blocks == {b \in history : b.from >= t - GoodLookback}
    IN  Cardinality(blocks) >= MinBlocks /\ HourOfWeek(t, o) \in GoodBuckets(blocks, o)

-----------------------------------------------------------------------------
(* The table.                                                              *)

Open == {i \in DOMAIN invitations : invitations[i].outcome = "offered"}
\* open_invitation: the latest one.
OpenOne == Max(Open)

\* resolve_invitation: only an open one changes.
Resolve(rows, i, outcome) ==
    IF rows[i].outcome = "offered"
    THEN [rows EXCEPT ![i].outcome = outcome, ![i].at = now] ELSE rows

\* record_invitation: a new row, waiting for its answer.
RecordInvitation(rows, o) ==
    Append(rows, [offered |-> now, date |-> LocalDate(now, o), outcome |-> "offered", at |-> None])

\* recent_invitations: the newest BACKOFF_SCAN_LIMIT rows.
ScanLimit == 32
RecentInvitations(rows) == SubSeq(rows, Max({1, Len(rows) - ScanLimit + 1}), Len(rows))

\* invitations_on_local_date, by the date that was stored with the row.
OnLocalDate(rows, d) == {i \in DOMAIN rows : rows[i].date = d}

\* expire_open
Expired(rows) == IF Open = {} THEN rows ELSE Resolve(rows, OpenOne, "expired")

\* Mutant: an invitation that lapsed ends the run of dismissals.
DismissalsUntilSilence(rows) ==
    {i \in DOMAIN rows : rows[i].outcome = "dismissed"
        /\ \A j \in (i + 1)..Len(rows) : rows[j].outcome \notin {"accepted", "no_response"}}
\* trailing_dismissals: those after the last acceptance.
TrailingDismissals(rows) ==
    {i \in DOMAIN rows : rows[i].outcome = "dismissed"
        /\ \A j \in (i + 1)..Len(rows) : rows[j].outcome # "accepted"}

-----------------------------------------------------------------------------
(* pending_invitation                                                      *)

\* RuntimeInvitationGates: quiet hours at the stored offset.
GateClosed == live # "none" \/ InQuietHours(now) \/ IsFocusActive(now)

\* An open row that is neither switched off, nor lapsed, nor gated is shown again.
StaleOutcome ==
    CASE ~enabled -> "expired"
      [] enabled /\ now >= invitations[OpenOne].offered + Ttl -> "no_response"
      [] enabled /\ now < invitations[OpenOne].offered + Ttl /\ GateClosed -> "expired"
      [] OTHER -> "offered"

Cooldown(rows) == BaseCooldown * Multiplier ^ Cardinality(TrailingDismissals(rows))

Silenced(rows) ==
    LET dismissed == TrailingDismissals(rows)
    IN  Cardinality(dismissed) >= SilenceThreshold
            /\ now < rows[Max(dismissed)].at + SilenceTicks

\* INVITATION_DAILY_CAP = 1
MayInvite(rows, o) ==
    LET recent == RecentInvitations(rows)
    IN  /\ enabled /\ ~GateClosed
        /\ OnLocalDate(rows, LocalDate(now, o)) = {}
        /\ ~Silenced(recent)
        /\ recent # <<>> => now >= Last(recent).offered + Cooldown(recent)
        /\ GoodHour(now, o)

\* RequestInitiationInvitation
PendingInvitation(o) ==
    LET settled == IF Open = {} THEN invitations
                   ELSE IF StaleOutcome = "offered" THEN invitations
                   ELSE Resolve(invitations, OpenOne, StaleOutcome)
        again == Open # {} /\ StaleOutcome = "offered"
    IN  /\ invitations' = IF ~again /\ MayInvite(settled, o)
                          THEN RecordInvitation(settled, o) ELSE settled
        /\ Len(invitations') <= MaxInvitations
        /\ UNCHANGED <<history, enabled, live>>

\* DismissInitiationInvitation: of any invitation that was ever shown.
Dismiss(i) ==
    /\ invitations' = Resolve(invitations, i, "dismissed")
    /\ UNCHANGED <<history, enabled, live>>

-----------------------------------------------------------------------------
(* StartWorkBlock and the other handlers that touch the table.             *)

Claimable(i) == Open # {} /\ i = OpenOne /\ now < invitations[i].offered + Ttl

\* record_block_started: a claim is accepted, any other live one expires.
RecordBlockStarted(i, claims) ==
    IF claims THEN Resolve(invitations, i, "accepted") ELSE Expired(invitations)

\* claimable, start_with_origin, record_block_started: the claim is checked
\* before the start and recorded after it.  A start while a block is live
\* is refused by the work block manager.  i = 0: no invitation is named.
StartBlock(i) ==
    LET claims == i # 0 /\ Claimable(i)
    IN  /\ live = "none"
        /\ live' = IF claims THEN "invitation" ELSE "manual"
        /\ invitations' \in {RecordBlockStarted(i, claims), invitations}  \* the process may die in between
        /\ UNCHANGED <<history, enabled>>

\* The block ends: EndWorkBlock, the scheduler or an abandonment.
EndBlock ==
    /\ live # "none" /\ live' = "none"
    /\ UNCHANGED <<history, invitations, enabled>>

\* set_invitations_enabled: the opt-out is one row.
SetInvitationsEnabled(on) == enabled' = on

\* SetInitiationSettings: the setting is written first; a process that dies
\* before expire_open leaves the live one to the next request.
SetEnabled(on) ==
    /\ SetInvitationsEnabled(on)
    /\ invitations' \in {IF on THEN invitations ELSE Expired(invitations), invitations}
    /\ UNCHANGED <<history, live>>

\* LogIn, LogOut, DeleteAccount and a changed session: expire_open_invitation.
AccountChanges ==
    /\ Open # {} /\ invitations' = Expired(invitations)
    /\ UNCHANGED <<history, enabled, live>>

\* clear_data, of ClearWorkBlockData: the opt-out survives, blocks do not.
ClearInvitations ==
    /\ invitations' = <<>> /\ history' = {} /\ live' = "none"
    /\ UNCHANGED <<enabled>>

InitiationStep ==
    \/ \E o \in Offsets : PendingInvitation(o)
    \/ \E i \in DOMAIN invitations : Dismiss(i)
    \/ \E i \in {0} \cup DOMAIN invitations : StartBlock(i)
    \/ EndBlock
    \/ \E on \in BOOLEAN : SetEnabled(on)
    \/ AccountChanges

-----------------------------------------------------------------------------
(* Properties.                                                             *)

\* Backoff and never escalation: whatever was answered, refused, switched
\* off, restarted or lapsed in between, an invitation follows the one before
\* it by the cooldown of the dismissals that preceded it, and the silence
\* after the threshold holds (pending_invitation, trailing_dismissals).
BackoffHolds ==
    \A i \in 2..Len(invitations) :
        LET before == SubSeq(invitations, 1, i - 1)
            no == {j \in DOMAIN before : before[j].outcome = "dismissed"
                      /\ \A k \in j..(i - 1) : before[k].outcome # "accepted"}
        IN  /\ invitations[i].offered >= Last(before).offered
                                         + BaseCooldown * Multiplier ^ Cardinality(no)
            /\ Cardinality(no) >= SilenceThreshold =>
                   invitations[i].offered >= before[Max(no)].at + SilenceTicks

\* Only the newest invitation can be waiting for an answer, and one that was
\* accepted was claimed while it was on the screen: the start command and
\* the lapse of the offer never both win (claimable, record_block_started).
OneOpenInvitation ==
    \A i \in DOMAIN invitations :
        /\ invitations[i].outcome = "offered" => i = Len(invitations)
        /\ invitations[i].outcome = "accepted" =>
               invitations[i].at < invitations[i].offered + Ttl

=============================================================================
