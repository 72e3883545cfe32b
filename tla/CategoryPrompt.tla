--------------------------- MODULE CategoryPrompt ---------------------------
(***************************************************************************)
(* The needs-a-category card and its reminder: CategoryPromptManager with  *)
(* its ledger in the service, and the Swift CategoryPromptCoordinator that *)
(* shows the card, sends the answers and keeps one whose send failed.      *)
(*                                                                         *)
(* What needs a category is a ranked list that events and corrections      *)
(* change at any time.  Requests and replies travel in order on one        *)
(* connection; a lost connection loses both directions.                    *)
(***************************************************************************)
EXTENDS Initiation

CONSTANTS
    Keys,            \* the entries that may need a category
    Rankings,        \* the lists the raw events may add up to
    MaxEntries,      \* TRIAGE_MAX_ENTRIES: what the card counts
    UnopenedRun, PauseTicks,       \* REMINDER_BACKOFF_*
    ReminderHorizon, EntryHorizon, \* the retention of the ledger
    ClientOffset,    \* the UTC offset of the client's requests
    MaxCards,        \* bound: cards minted
    MaxInFlight      \* bound: requests and answers on their way

ASSUME CategoryPromptAssumption ==
    /\ Rankings \subseteq Seq(Keys)
    /\ \A list \in Rankings : \A i, j \in DOMAIN list : i # j => list[i] # list[j]
    /\ {MaxEntries, UnopenedRun, MaxCards} \subseteq Nat \ {0}
    /\ {PauseTicks, ReminderHorizon, EntryHorizon, MaxInFlight} \subseteq Nat
    /\ ClientOffset \in Offsets

VARIABLES
    ranked,     \* everything_that_needs_a_category, longest first
    ledger,     \* category_prompt_entry: key -> its row
    cards,      \* category_prompt_card_entry: id -> its entries, ids as minted
    reminders,  \* category_prompt_notification, in the order posted
    toService, toClient,                  \* the connection, both directions
    screen, lastId, answeredId,           \* of the coordinator; 0 is none
    pendingAnswer, pendingOpened,
    \* history, for the properties
    drawn,      \* id -> the entries that card counts
    tapped,     \* entries an answer reached, unless swept since
    told        \* entries a reminder or an answer reached, unless swept since

cvars == <<ranked, ledger, cards, reminders, toService, toClient, screen, lastId,
           answeredId, pendingAnswer, pendingOpened, drawn, tapped, told>>
client == <<screen, lastId, answeredId, pendingAnswer, pendingOpened>>
wire == <<toService, toClient>>

NoAnswer == [id |-> 0, opened |-> FALSE]

CategoryInit ==
    /\ ranked \in Rankings /\ ledger = <<>> /\ cards = <<>> /\ reminders = <<>>
    /\ toService = <<>> /\ toClient = <<>>
    /\ screen = 0 /\ lastId = 0 /\ answeredId = 0
    /\ pendingAnswer = NoAnswer /\ pendingOpened = FALSE
    /\ drawn = <<>> /\ tapped = {} /\ told = {}

-----------------------------------------------------------------------------
(* The ledger.                                                             *)

Counted == {ranked[i] : i \in 1..Min({MaxEntries, Len(ranked)})}
Listed == ToSet(ranked)

\* record_listed: the listed keys are there, seen now; their stamps stay.
RecordListed(rows) ==
    [k \in DOMAIN rows \cup Listed |->
        IF k \notin Listed THEN rows[k]
        ELSE IF k \in DOMAIN rows THEN [rows[k] EXCEPT !.listed = now]
        ELSE [listed |-> now, acked |-> FALSE, notified |-> FALSE]]

\* card_for: the latest card if it counts the same entries, a new one
\* otherwise; only the latest before it survives.
LatestCard(table) == Max(DOMAIN table)
CardFor(counted, uncounted) ==
    LET minted == Len(drawn) + 1
        latest == IF DOMAIN cards = {} THEN {} ELSE {LatestCard(cards)}
    IN  IF \E c \in latest : cards[c].counted = counted
        THEN [cards EXCEPT ![LatestCard(cards)].below = @ \cup (uncounted \ counted)]
        ELSE [c \in latest \cup {minted} |->
                IF c = minted THEN [counted |-> counted, below |-> uncounted] ELSE cards[c]]

Stamp(rows, keys, field) ==
    [k \in DOMAIN rows |-> IF k \in keys THEN [rows[k] EXCEPT ![field] = TRUE] ELSE rows[k]]

\* recent_notifications: the latest ones, as many as a run.
RecentReminders == SubSeq(reminders, Max({1, Len(reminders) - UnopenedRun + 1}), Len(reminders))

\* reminders_paused
WithinHorizon(r) == r.posted >= now - ReminderHorizon
Paused ==
    LET run == RecentReminders
    IN  /\ Len(run) = UnopenedRun
        /\ \A i \in DOMAIN run : WithinHorizon(run[i]) /\ ~run[i].opened
        /\ now < Last(run).posted + PauseTicks

\* Mutant: the entries below the counted ones are not stamped.
ClaimStampsCounted(rows) == Stamp(rows, Counted, "notified")
\* claim_notification stamps every listed entry.
ClaimStamps(rows) == Stamp(rows, Listed, "notified")

-----------------------------------------------------------------------------
(* The service.                                                            *)

MayRemind(rows, o) ==
    /\ \E k \in Counted : ~rows[k].notified /\ ~rows[k].acked
    /\ ~InQuietHoursAt(now, o) /\ ~IsFocusActive(now) /\ ~Paused
    /\ \A i \in DOMAIN reminders : reminders[i].date # LocalDate(now, o)

\* evaluate, from the ledger it is given.  o is the client's offset, or None
\* for the reply to an answer, which never brings a reminder.  The result:
\* the ledger, the cards, whether a card is shown and a reminder claimed.
Evaluate(rows, o) ==
    LET seen == RecordListed(rows)
        shows == \E k \in Counted : ~seen[k].acked
        reminds == shows /\ o # None /\ MayRemind(seen, o)
    IN  IF live # "none" \/ ranked = <<>>
        THEN [ledger |-> rows, cards |-> cards, shows |-> FALSE, reminds |-> FALSE]
        ELSE [ledger |-> IF reminds THEN ClaimStamps(seen) ELSE seen,
              cards |-> IF shows THEN CardFor(Counted, Listed \ Counted) ELSE cards,
              shows |-> shows, reminds |-> reminds]

\* What a handler leaves behind after evaluate, with the reminders it had.
Answered(e, had, o) ==
    /\ ledger' = e.ledger /\ cards' = e.cards
    /\ drawn' = IF e.shows /\ LatestCard(e.cards) > Len(drawn)
                THEN Append(drawn, Counted) ELSE drawn
    /\ Len(drawn') <= MaxCards
    /\ reminders' = IF e.reminds
                    THEN Append(had, [date |-> LocalDate(now, o), posted |-> now,
                                      opened |-> FALSE])
                    ELSE had
    /\ toClient' = Append(toClient, [id |-> IF e.shows THEN LatestCard(e.cards) ELSE 0,
                                     reminder |-> e.reminds])
    /\ toService' = Tail(toService)

\* RequestCategoryPrompt: pending_prompt
ServeRequest ==
    /\ toService # <<>> /\ Head(toService).kind = "request"
    /\ LET o == Head(toService).offset
           e == Evaluate(ledger, o)
       IN  Answered(e, reminders, o) /\ told' = IF e.reminds THEN told \cup Listed ELSE told
    /\ UNCHANGED <<ranked, client, tapped>>

\* AcknowledgeCategoryPrompt: acknowledge_prompt stamps the entries of that
\* card and, if it was opened, the latest reminder; then current_card.
ServeAnswer ==
    /\ toService # <<>> /\ Head(toService).kind = "answer"
    /\ LET answer == Head(toService)
           covered == UNION {cards[c].counted \cup cards[c].below :
                               c \in DOMAIN cards \cap {answer.id}}
           opened == IF answer.opened /\ reminders # <<>>
                     THEN [reminders EXCEPT ![Len(reminders)].opened = TRUE] ELSE reminders
       IN  /\ Answered(Evaluate(Stamp(ledger, covered, "acked"), None), opened, None)
           /\ told' = told \cup covered
           /\ tapped' = tapped \cup covered
    /\ UNCHANGED <<ranked, client>>

\* delete_expired_entries (its card rows go with an entry) and
\* delete_expired_notifications, of the retention sweep.
SweepLedger ==
    LET old == {k \in DOMAIN ledger : ledger[k].listed < now - EntryHorizon}
        kept == {c \in DOMAIN cards : ~(cards[c].counted \cup cards[c].below \subseteq old)}
        posted == {i \in DOMAIN reminders : ~WithinHorizon(reminders[i])}
    IN  /\ old # {} \/ posted # {}
        /\ ledger' = [k \in DOMAIN ledger \ old |-> ledger[k]]
        /\ cards' = [c \in kept |-> [cards[c] EXCEPT !.counted = @ \ old, !.below = @ \ old]]
        \* oldest first: those that go are the first ones
        /\ reminders' = SubSeq(reminders, Cardinality(posted) + 1, Len(reminders))
        /\ tapped' = tapped \ old /\ told' = told \ old
        /\ UNCHANGED <<ranked, wire, client, drawn>>

\* Events age, arrive or are corrected: another list.
ListChanges ==
    /\ ranked' \in Rankings \ {ranked}
    /\ UNCHANGED <<ledger, cards, reminders, wire, client, drawn, tapped, told>>

-----------------------------------------------------------------------------
(* The Swift coordinator.                                                  *)

Request(o) == [kind |-> "request", offset |-> o]
Answer(a) == [kind |-> "answer", id |-> a.id, opened |-> a.opened]

InFlight == Len(toService) + Len(toClient)

\* refresh: an answer whose send failed goes first.
RefreshSends(o) ==
    (IF pendingAnswer = NoAnswer THEN <<>> ELSE <<Answer(pendingAnswer)>>) \o <<Request(o)>>

Refresh(o) ==
    /\ InFlight < MaxInFlight
    /\ toService' = toService \o RefreshSends(o) /\ pendingAnswer' = NoAnswer
    /\ UNCHANGED <<ranked, ledger, cards, reminders, toClient, screen, lastId, answeredId,
                   pendingOpened, drawn, tapped, told>>

\* answer(id, response): sent, or kept when the send fails.
SendAnswer(id, opened) ==
    LET a == [id |-> id, opened |-> opened]
    IN  /\ answeredId' = id
        /\ \/ toService' = Append(toService, Answer(a)) /\ UNCHANGED pendingAnswer
           \/ pendingAnswer' = a /\ UNCHANGED toService

\* open and notNow on the card; open on a reminder whose card is closed.
TapCard(opened) ==
    LET id == IF screen # 0 THEN screen ELSE IF opened THEN lastId ELSE 0
    IN  /\ id # 0 /\ InFlight < MaxInFlight
        /\ screen' = 0 /\ SendAnswer(id, opened)
        /\ UNCHANGED <<ranked, ledger, cards, reminders, toClient, lastId, pendingOpened,
                       drawn, tapped, told>>

\* A reminder tapped after a relaunch: no card id is known, so it asks.
TapReminderUnknown(o) ==
    /\ screen = 0 /\ lastId = 0 /\ reminders # <<>> /\ InFlight < MaxInFlight
    /\ pendingOpened' = TRUE
    /\ toService' = toService \o RefreshSends(o) /\ pendingAnswer' = NoAnswer
    /\ UNCHANGED <<ranked, ledger, cards, reminders, toClient, screen, lastId, answeredId,
                   drawn, tapped, told>>

\* Mutant: a reply that crosses an answer shows the card again.
ShowsAgain(id) == FALSE
\* apply: the card just answered is not shown again by a reply that crossed
\* the answer.
AlreadyAnswered(id) == id # 0 /\ id = answeredId

Apply ==
    LET reply == Head(toClient)
        opens == pendingOpened /\ reply.id # 0
        done == AlreadyAnswered(reply.id) \/ opens
    IN  /\ toClient # <<>> /\ toClient' = Tail(toClient)
        /\ pendingOpened' = FALSE
        /\ screen' = IF done THEN 0 ELSE reply.id
        /\ lastId' = IF reply.id # 0 /\ (opens \/ ~done) THEN reply.id ELSE lastId
        /\ IF opens THEN SendAnswer(reply.id, TRUE)
           ELSE /\ answeredId' = IF done THEN answeredId ELSE 0
                /\ UNCHANGED <<toService, pendingAnswer>>
        /\ UNCHANGED <<ranked, ledger, cards, reminders, drawn, tapped, told>>

\* The connection is lost with what is on it; the next one begins with a refresh.
Reconnect(o) ==
    /\ InFlight > 0
    /\ ~\E i \in DOMAIN toService : toService[i].kind = "answer"
    /\ toService' = RefreshSends(o) /\ toClient' = <<>> /\ pendingAnswer' = NoAnswer
    /\ UNCHANGED <<ranked, ledger, cards, reminders, screen, lastId, answeredId,
                   pendingOpened, drawn, tapped, told>>

\* The app is started again.
Relaunch(o) ==
    /\ toService = <<>> /\ pendingAnswer = NoAnswer
    /\ screen' = 0 /\ lastId' = 0 /\ answeredId' = 0 /\ pendingOpened' = FALSE
    /\ toService' = <<Request(o)>> /\ toClient' = <<>>
    /\ UNCHANGED <<ranked, ledger, cards, reminders, pendingAnswer, drawn, tapped, told>>

CategoryStep ==
    \/ ServeRequest \/ ServeAnswer \/ SweepLedger \/ ListChanges \/ Apply
    \/ Refresh(ClientOffset) \/ TapReminderUnknown(ClientOffset)
    \/ Reconnect(ClientOffset) \/ Relaunch(ClientOffset)
    \/ \E opened \in BOOLEAN : TapCard(opened)

-----------------------------------------------------------------------------
(* Properties.                                                             *)

\* The card on the screen once every reply has arrived.
LastWord == IF toClient = <<>> THEN screen ELSE Last(toClient).id
OnTheWay(id) ==
    \/ pendingAnswer.id = id
    \/ \E i \in DOMAIN toService : toService[i].kind = "answer" /\ toService[i].id = id

\* An answer to either of the last two cards is final for the entries they
\* cover, however far the list has moved, whatever replies cross it and in
\* whichever connection it arrives (card_for, acknowledge_prompt): once
\* nothing is on its way to the service, the card that stays on the screen
\* counts an entry that no answer reached.
AnswersAreFinal == toService = <<>> /\ LastWord # 0 => ~(drawn[LastWord] \subseteq tapped)

\* A reply that was on its way when the card was answered does not bring it
\* back to the screen (answeredPromptID, apply).
AnsweredStaysAway == screen # 0 /\ toClient = <<>> => ~OnTheWay(screen)

\* A reminder is about something: it is claimed only when the list counts an
\* entry that no earlier reminder and no answer reached (record_listed,
\* claim_notification), also when it was below the counted ones then.
ReminderIsNews ==
    [][Len(reminders') > Len(reminders) => ~(Counted \subseteq told)]_<<reminders, told>>

\* Backoff: after a run of unopened reminders the next one waits for the
\* pause, wherever the sweep has got to (reminders_paused).
ReminderBackoff ==
    \A i \in (UnopenedRun + 1)..Len(reminders) :
        (\A j \in (i - UnopenedRun)..(i - 1) : ~reminders[j].opened
                /\ reminders[j].posted >= reminders[i].posted - ReminderHorizon)
            => reminders[i].posted >= reminders[i - 1].posted + PauseTicks

=============================================================================
