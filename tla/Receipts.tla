------------------------------ MODULE Receipts ------------------------------
(***************************************************************************)
(* ReceiptsManager: the weekly digest, generated and frozen at the first   *)
(* request after its local week, held behind the gates of an invitation,   *)
(* closed by an acknowledgment; and the weekly bucket of explain taps.     *)
(***************************************************************************)
EXTENDS CategoryPrompt

CONSTANTS
    RetentionWeeks,  \* RECEIPTS_RETENTION_WEEKS
    MaxBlocks, MaxOffers, MaxTaps   \* bounds: blocks, offers and taps stored

ASSUME ReceiptsAssumption == {RetentionWeeks, MaxBlocks, MaxOffers, MaxTaps} \subseteq Nat

VARIABLES
    blocks,   \* work_block rows: when each started, completed or not, recoveries
    offers,   \* work_block_intervention rows: when each was offered, its outcome
    digests,  \* weekly_digest: week -> its frozen row
    taps,     \* explain_probe_week: week -> taps
    \* history
    offered   \* the week of the digest last handed to the client

rvars == <<blocks, offers, digests, taps, offered>>

ReceiptsInit ==
    /\ blocks = <<>> /\ offers = <<>> /\ digests = <<>> /\ taps = <<>>
    /\ offered = None

\* local_monday: the number of the local week.
LocalWeek(t, o) == (t + o) \div (DayTicks * WeekDays)

\* Mutant: the end of a week belongs to it.
InWeekInclusive(t, w, o) ==
    t >= w * DayTicks * WeekDays - o /\ t <= (w + 1) * DayTicks * WeekDays - o
\* week_from_monday: start inclusive, end exclusive, in UTC.
InWeek(t, w, o) ==
    t >= w * DayTicks * WeekDays - o /\ t < (w + 1) * DayTicks * WeekDays - o

\* The counts of a week.  A block belongs to the week it started in with all
\* it brought, an offer and an accepted invitation to the week they fell in.
StartedIn(w, o) == {i \in DOMAIN blocks : InWeek(blocks[i].started, w, o)}
CompletedIn(w, o) == {i \in StartedIn(w, o) : blocks[i].completed}
RecoveredIn(w, o) == {i \in StartedIn(w, o) : blocks[i].recovered}
AcceptedIn(w, o) ==
    {i \in DOMAIN invitations : invitations[i].outcome = "accepted" /\ InWeek(invitations[i].at, w, o)}
OffersIn(w, o, outcome) ==
    {i \in DOMAIN offers : offers[i].outcome = outcome /\ InWeek(offers[i].at, w, o)}

\* generate: what the stored rows say of a week.
Counts(w, o) ==
    [declared |-> Cardinality(StartedIn(w, o)), completed |-> Cardinality(CompletedIn(w, o)),
     recovered |-> Cardinality(RecoveredIn(w, o)),
     wrong |-> Cardinality(OffersIn(w, o, "was_focused")),
     accepted |-> Cardinality(AcceptedIn(w, o)),
     withheld |-> Cardinality(OffersIn(w, o, "withheld"))]

IsEmpty(counts) == \A c \in DOMAIN counts : counts[c] = 0

\* store_weekly_digest: the counts are frozen.
StoreDigest(rows, w, counts) ==
    [v \in DOMAIN rows \cup {w} |->
        IF v = w THEN [counts |-> counts, acked |-> FALSE, delivered |-> FALSE] ELSE rows[v]]

\* prune_receipts_before the cutoff of the week w whose digest was stored.
Cutoff(w) == w - RetentionWeeks
Pruned(rows, w) == [v \in {u \in DOMAIN rows : u >= Cutoff(w)} |-> rows[v]]

\* RequestWeeklyDigest: pending_digest of the week before.  The row is
\* generated whatever the gates say; they hold its delivery.
RequestDigest(o) ==
    LET w == LocalWeek(now, o) - 1
        exists == w \in DOMAIN digests
        worth == ~IsEmpty(Counts(w, o))
        rows == IF exists \/ ~worth THEN digests
                ELSE Pruned(StoreDigest(digests, w, Counts(w, o)), w)
        shows == w \in DOMAIN rows /\ ~rows[w].acked /\ ~GateClosed
    IN  /\ digests' = IF shows THEN [rows EXCEPT ![w].delivered = TRUE] ELSE rows
        /\ taps' = IF exists \/ ~worth THEN taps ELSE Pruned(taps, w)
        /\ offered' = IF shows THEN w ELSE offered
        /\ UNCHANGED <<blocks, offers>>

\* AcknowledgeWeeklyDigest: of the digest on the screen, perhaps an old one.
AcknowledgeDigest(w) ==
    /\ offered # None /\ w <= offered
    /\ digests' = [v \in DOMAIN digests |->
                      IF v = w THEN [digests[v] EXCEPT !.acked = TRUE] ELSE digests[v]]
    /\ UNCHANGED <<blocks, offers, taps, offered>>

\* explain_taps_for_week: nothing stored is no tap.
TapsOf(w) == IF w \in DOMAIN taps THEN taps[w] ELSE 0

\* explain_intervention: a withheld offer was never shown.
Explained == {i \in DOMAIN offers : offers[i].outcome # "withheld"}

\* RequestInterventionExplanation: record_explain_tap, in the current week.
ExplainTap(o) ==
    LET w == LocalWeek(now, o)
    IN  /\ Explained # {} /\ FoldFunction(+, 0, taps) < MaxTaps
        /\ taps' = [v \in DOMAIN taps \cup {w} |-> IF v = w THEN TapsOf(w) + 1 ELSE taps[v]]
        /\ UNCHANGED <<blocks, offers, digests, offered>>

\* The rows of the work block tables that the digest reads.
BlockDeclared ==
    /\ Len(blocks) < MaxBlocks
    /\ blocks' = Append(blocks, [started |-> now, completed |-> FALSE, recovered |-> FALSE])
    /\ UNCHANGED <<offers, digests, taps, offered>>
BlockFinished(completed, recovered) ==
    /\ blocks' = [blocks EXCEPT ![Len(blocks)].completed = completed,
                                ![Len(blocks)].recovered = recovered]
    /\ UNCHANGED <<offers, digests, taps, offered>>

\* The drift gate of a live block offers or withholds; the person may say
\* afterwards that they were focused.
OfferDecided(outcome) ==
    /\ Len(offers) < MaxOffers
    /\ offers' = Append(offers, [at |-> now, outcome |-> outcome])
    /\ UNCHANGED <<blocks, digests, taps, offered>>
OfferWasWrong(i) ==
    /\ offers[i].outcome = "offered"
    /\ offers' = [offers EXCEPT ![i].outcome = "was_focused"]
    /\ UNCHANGED <<blocks, digests, taps, offered>>

\* clear_data, of ClearWorkBlockData.
ClearReceipts ==
    /\ blocks' = <<>> /\ offers' = <<>> /\ digests' = <<>> /\ taps' = <<>>
    /\ UNCHANGED offered

-----------------------------------------------------------------------------
(* Properties.                                                             *)

\* The digest of a week counts what began in that week and nothing else, for
\* as long as it is kept: nothing that is declared, withheld or accepted later
\* belongs to a week whose digest is frozen, also when a block straddles two
\* weeks and only its offers fall in the second (week_from_monday, generate,
\* store_weekly_digest).  A moment is in one week, so no block is counted
\* twice, nor missed when its week has a digest.
DigestsPartitionBlocks ==
    \A w \in DOMAIN digests :
        LET counts == digests[w].counts
            OfWeek(t) == LocalWeek(t, ClientOffset) = w
        IN  /\ counts.declared = Cardinality({i \in DOMAIN blocks : OfWeek(blocks[i].started)})
            /\ counts.withheld = Cardinality({i \in DOMAIN offers :
                   offers[i].outcome = "withheld" /\ OfWeek(offers[i].at)})
            /\ counts.accepted = Cardinality({i \in DOMAIN invitations :
                   invitations[i].outcome = "accepted" /\ OfWeek(invitations[i].at)})

=============================================================================
