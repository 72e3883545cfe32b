--------------------------- MODULE PromptsProofs ---------------------------
(***************************************************************************)
(* Proofs about what speaks unasked: the invitations keep their distance,  *)
(* an answer about a category is final, a reminder is news and backs off,  *)
(* quiet is respected, and the digest of a week stays true, for every      *)
(* value of the constants.                                                 *)
(*                                                                         *)
(* Each part has an inductive invariant over its own tables, which only    *)
(* the steps of that part and the clock touch.                             *)
(***************************************************************************)
EXTENDS Prompts, FiniteSetTheorems, SequenceTheorems, WellFoundedInduction, TLAPS

----------------------------------------------------------------------------
(* Numbers.                                                                 *)

LEMMA LeastExists ==
    ASSUME NEW T, T \subseteq Nat, T # {}
    PROVE  \E m \in T : \A n \in T : m <= n
  <1>1. PICK m \in T : \A n \in T : ~ (<<n, m>> \in OpToRel(<, Nat))
    BY NatLessThanWellFounded, WFMin
  <1>2. ASSUME NEW a \in Nat, NEW b \in Nat, a < b PROVE <<a, b>> \in OpToRel(<, Nat)
    <2>1. <<a, b>> \in Nat \X Nat /\ <<a, b>>[1] = a /\ <<a, b>>[2] = b
      OBVIOUS
    <2> QED
      BY <1>2, <2>1 DEF OpToRel
  <1>3. ASSUME NEW n \in T PROVE m <= n
    <2>1. n \in Nat /\ m \in Nat
      OBVIOUS
    <2>2. ~(n < m)
      BY <1>1, <1>2, <2>1
    <2> QED
      BY <2>1, <2>2
  <1> QED
    BY <1>3

LEMMA GreatestExists ==
    ASSUME NEW S, NEW k \in Nat, S \subseteq 0..k, S # {}
    PROVE  \E m \in S : \A n \in S : n <= m
  <1> DEFINE T == {b \in Nat : \A n \in S : n <= b}
  <1>1. k \in T
    OBVIOUS
  <1>2. PICK b \in T : \A n \in T : b <= n
    BY <1>1, LeastExists
  <1>3. b \in S
    <2>1. CASE b = 0
      <3>1. \A n \in S : n = 0
        BY <1>2, <2>1
      <3> QED
        BY <2>1, <3>1
    <2>2. ASSUME b # 0, b \notin S PROVE FALSE
      <3>1. b - 1 \in T
        BY <2>2
      <3> QED
        BY <1>2, <2>2, <3>1
    <2> QED
      BY <2>1, <2>2
  <1> QED
    BY <1>2, <1>3

LEMMA MaxFacts ==
  ASSUME NEW S, NEW k \in Nat, S \subseteq 0 .. k, S # {}
  PROVE  Max(S) \in S /\ \A n \in S : n <= Max(S)
<1>1. \E m \in S : \A n \in S : m >= n
  BY GreatestExists
<1> QED BY <1>1 DEF Max

LEMMA MaxOfOne == ASSUME NEW n \in Int PROVE Max({n}) = n
BY DEF Max

LEMMA MaxOfTwo == ASSUME NEW n \in Int, n <= 1 PROVE Max({1, n}) = 1
BY DEF Max

----------------------------------------------------------------------------
(* The invitations.                                                         *)

Outcomes == {"offered", "accepted", "dismissed", "expired", "no_response"}
Invitation == [offered : Int, date : Int, outcome : Outcomes, at : Int]

\* What the backoff asks of an invitation at t that follows the rows before.
Refusals(before) ==
    {j \in DOMAIN before : before[j].outcome = "dismissed"
        /\ \A k \in j .. Len(before) : before[k].outcome # "accepted"}
Spaced(before, t) ==
    /\ t >= Last(before).offered + BaseCooldown * Multiplier ^ Cardinality(Refusals(before))
    /\ Cardinality(Refusals(before)) >= SilenceThreshold =>
           t >= before[Max(Refusals(before))].at + SilenceTicks

InvitationsTyped == now \in Nat /\ invitations \in Seq(Invitation)
AllSpaced ==
    \A i \in 2 .. Len(invitations) : Spaced(SubSeq(invitations, 1, i - 1), invitations[i].offered)

InvitationsInvariant == InvitationsTyped /\ OneOpenInvitation /\ AllSpaced

LEMMA SpacedIsBackoff ==
  ASSUME invitations \in Seq(Invitation)
  PROVE  AllSpaced <=> BackoffHolds
<1> SUFFICES ASSUME NEW i \in 2 .. Len(invitations)
             PROVE  LET before == SubSeq(invitations, 1, i - 1)
                    IN  Refusals(before) =
                          {j \in DOMAIN before : before[j].outcome = "dismissed"
                             /\ \A k \in j .. (i - 1) : before[k].outcome # "accepted"}
  BY DEF AllSpaced, BackoffHolds, Spaced
<1>1. Len(SubSeq(invitations, 1, i - 1)) = i - 1
  OBVIOUS
<1> QED BY <1>1 DEF Refusals

\* The scan covers the whole table, and the run of refusals is the same set.
LEMMA ScanCoversAll ==
  ASSUME NEW rows \in Seq(Invitation), Len(rows) <= ScanLimit
  PROVE  RecentInvitations(rows) = rows /\ TrailingDismissals(rows) = Refusals(rows)
<1>1. Max({1, Len(rows) - ScanLimit + 1}) = 1
  BY MaxOfTwo DEF ScanLimit
<1>2. SubSeq(rows, 1, Len(rows)) = rows
  OBVIOUS
<1>3. TrailingDismissals(rows) = Refusals(rows)
  BY DEF TrailingDismissals, Refusals
<1> QED BY <1>1, <1>2, <1>3 DEF RecentInvitations

LEMMA RefusalsFacts ==
  ASSUME NEW rows \in Seq(Invitation), Refusals(rows) # {}
  PROVE  rows[Max(Refusals(rows))].at \in Int
<1>1. Refusals(rows) \subseteq 0 .. Len(rows)
  BY DEF Refusals
<1>2. Max(Refusals(rows)) \in Refusals(rows)
  BY <1>1, MaxFacts
<1>3. PICK i \in DOMAIN rows : i = Max(Refusals(rows))
  BY <1>2 DEF Refusals
<1>4. rows[i] \in Invitation
  OBVIOUS
<1> QED BY <1>3, <1>4 DEF Invitation

LEMMA MayInviteIsSpaced ==
  ASSUME NEW rows \in Seq(Invitation), NEW o, Len(rows) \in 1 .. ScanLimit, now \in Nat, MayInvite(rows, o)
  PROVE  Spaced(rows, now)
<1>1. now >= Last(rows).offered + Cooldown(rows) /\ ~Silenced(rows)
  BY ScanCoversAll DEF MayInvite
<1>2. now >= Last(rows).offered + BaseCooldown * Multiplier ^ Cardinality(Refusals(rows))
  BY <1>1, ScanCoversAll DEF Cooldown
<1>3. ASSUME Cardinality(Refusals(rows)) >= SilenceThreshold
      PROVE  now >= rows[Max(Refusals(rows))].at + SilenceTicks
  <2>1. Refusals(rows) # {}
    <3>1. Cardinality({}) = 0 /\ ~(0 >= SilenceThreshold)
      BY FS_EmptySet, InitiationAssumption
    <3> QED BY <1>3, <3>1
  <2>2. ~(now < rows[Max(Refusals(rows))].at + SilenceTicks)
    BY <1>1, <1>3, ScanCoversAll DEF Silenced
  <2>3. rows[Max(Refusals(rows))].at \in Int
    BY <2>1, RefusalsFacts
  <2>4. SilenceTicks \in Nat
    BY InitiationAssumption
  <2> QED BY <2>2, <2>3, <2>4
<1> QED BY <1>2, <1>3 DEF Spaced

\* The open invitation is the last one.
LEMMA OpenIsLast ==
  ASSUME InvitationsTyped, OneOpenInvitation, Open # {}
  PROVE  Open = {Len(invitations)} /\ OpenOne = Len(invitations) /\ Len(invitations) \in DOMAIN invitations
<1>1. Open = {Len(invitations)} /\ Len(invitations) \in DOMAIN invitations
  BY DEF Open, OneOpenInvitation, InvitationsTyped
<1> QED BY <1>1, MaxOfOne DEF OpenOne, InvitationsTyped

Spaces(rows) ==
    \A i \in 2 .. Len(rows) : Spaced(SubSeq(rows, 1, i - 1), rows[i].offered)
Waits(rows) ==
    \A i \in DOMAIN rows :
        /\ rows[i].outcome = "offered" => i = Len(rows)
        /\ rows[i].outcome = "accepted" => rows[i].at < rows[i].offered + Ttl

\* A resolution changes the last row only, and neither when it was offered.
LEMMA ResolveKeeps ==
  ASSUME InvitationsInvariant, NEW i \in DOMAIN invitations, NEW out \in Outcomes \ {"offered"},
         out = "accepted" => now < invitations[i].offered + Ttl
  PROVE  LET rows == Resolve(invitations, i, out)
         IN  /\ rows \in Seq(Invitation) /\ Waits(rows) /\ Spaces(rows)
             /\ Len(rows) = Len(invitations)
             /\ invitations[i].outcome = "offered" => \A j \in DOMAIN rows : rows[j].outcome # "offered"
<1> DEFINE rows == Resolve(invitations, i, out)
<1>1. CASE invitations[i].outcome # "offered"
  BY <1>1 DEF InvitationsInvariant, InvitationsTyped, OneOpenInvitation, AllSpaced, Waits, Spaces, Resolve
<1>2. CASE invitations[i].outcome = "offered"
  <2>1. i = Len(invitations)
    BY <1>2 DEF InvitationsInvariant, OneOpenInvitation
  <2>2. rows = [invitations EXCEPT ![i] = [invitations[i] EXCEPT !.outcome = out, !.at = now]]
    BY <1>2 DEF Resolve, InvitationsInvariant, InvitationsTyped, Invitation
  <2>3. /\ [invitations[i] EXCEPT !.outcome = out, !.at = now] \in Invitation
        /\ [invitations[i] EXCEPT !.outcome = out, !.at = now].outcome = out
        /\ [invitations[i] EXCEPT !.outcome = out, !.at = now].at = now
        /\ [invitations[i] EXCEPT !.outcome = out, !.at = now].offered = invitations[i].offered
    <3>1. invitations[i] \in Invitation /\ now \in Int /\ out \in Outcomes
      BY DEF InvitationsInvariant, InvitationsTyped
    <3> QED BY <3>1 DEF Invitation
  <2>4. rows \in Seq(Invitation) /\ Len(rows) = Len(invitations)
    BY <2>2, <2>3 DEF InvitationsInvariant, InvitationsTyped
  <2>5. \A j \in DOMAIN rows : j # i => rows[j] = invitations[j]
    BY <2>2, <2>4 DEF InvitationsInvariant, InvitationsTyped
  <2>6. rows[i].outcome = out /\ rows[i].at = now /\ rows[i].offered = invitations[i].offered
    BY <2>2, <2>3 DEF InvitationsInvariant, InvitationsTyped
  <2>7. Waits(rows)
    BY <2>1, <2>4, <2>5, <2>6 DEF InvitationsInvariant, InvitationsTyped, OneOpenInvitation, Waits, Outcomes
  <2>8. ASSUME NEW n \in 2 .. Len(rows)
        PROVE  Spaced(SubSeq(rows, 1, n - 1), rows[n].offered)
    <3>1. SubSeq(rows, 1, n - 1) = SubSeq(invitations, 1, n - 1)
      BY <2>1, <2>4, <2>5 DEF InvitationsInvariant, InvitationsTyped
    <3>2. rows[n].offered = invitations[n].offered
      BY <2>4, <2>5, <2>6
    <3> QED BY <2>4, <3>1, <3>2 DEF InvitationsInvariant, AllSpaced
  <2>9. \A j \in DOMAIN rows : rows[j].outcome # "offered"
    BY <2>1, <2>4, <2>5, <2>6 DEF InvitationsInvariant, InvitationsTyped, OneOpenInvitation
  <2> QED BY <2>4, <2>7, <2>8, <2>9 DEF Spaces
<1> QED BY <1>1, <1>2

LEMMA RecordKeeps ==
  ASSUME NEW rows \in Seq(Invitation), Waits(rows), Spaces(rows), NEW o \in Int, now \in Nat,
         \A j \in DOMAIN rows : rows[j].outcome # "offered",
         Len(rows) <= ScanLimit, MayInvite(rows, o)
  PROVE  LET new == RecordInvitation(rows, o)
         IN  new \in Seq(Invitation) /\ Waits(new) /\ Spaces(new)
<1> DEFINE row == [offered |-> now, date |-> LocalDate(now, o), outcome |-> "offered", at |-> None]
           new == Append(rows, row)
<1>0. row \in Invitation
  BY FocusAssumption DEF Invitation, Outcomes, LocalDate, None
<1> HIDE DEF row
<1>1. new \in Seq(Invitation) /\ Len(new) = Len(rows) + 1
  BY <1>0
<1>2. (\A j \in DOMAIN rows : new[j] = rows[j]) /\ new[Len(rows) + 1] = row
  BY <1>0
<1>3. Waits(new)
  BY <1>1, <1>2 DEF Waits, row
<1>4. ASSUME NEW n \in 2 .. Len(new)
      PROVE  Spaced(SubSeq(new, 1, n - 1), new[n].offered)
  <2>1. SubSeq(new, 1, n - 1) = SubSeq(rows, 1, n - 1)
    BY <1>1, <1>2
  <2>2. CASE n <= Len(rows)
    <3>1. n \in 2 .. Len(rows) /\ new[n] = rows[n]
      BY <1>2, <2>2
    <3> QED BY <2>1, <3>1 DEF Spaces
  <2>3. CASE n = Len(rows) + 1
    <3>1. SubSeq(rows, 1, n - 1) = rows
      BY <2>3
    <3>2. Spaced(rows, now)
      BY <2>3, MayInviteIsSpaced
    <3>3. new[n].offered = now
      BY <1>2, <2>3 DEF row
    <3> QED BY <2>1, <3>1, <3>2, <3>3
  <2> QED BY <1>1, <2>2, <2>3
<1>5. new = RecordInvitation(rows, o)
  BY DEF RecordInvitation, row
<1> QED BY <1>1, <1>3, <1>4, <1>5 DEF Spaces

LEMMA PendingKeeps ==
  ASSUME InvitationsInvariant, MaxInvitations <= ScanLimit + 1,
         NEW o \in Int, PendingInvitation(o), now' = now
  PROVE  InvitationsInvariant'
<1> DEFINE settled == IF Open = {} THEN invitations
                      ELSE IF StaleOutcome = "offered" THEN invitations
                      ELSE Resolve(invitations, OpenOne, StaleOutcome)
           again == Open # {} /\ StaleOutcome = "offered"
<1>1. invitations' = IF ~again /\ MayInvite(settled, o)
                     THEN RecordInvitation(settled, o) ELSE settled
  BY DEF PendingInvitation
<1>2. StaleOutcome \in {"expired", "no_response", "offered"}
  BY DEF StaleOutcome
<1>3. /\ settled \in Seq(Invitation) /\ Waits(settled) /\ Spaces(settled)
      /\ ~again => \A j \in DOMAIN settled : settled[j].outcome # "offered"
  <2>1. CASE settled = invitations
    <3>1. invitations \in Seq(Invitation) /\ Waits(invitations) /\ Spaces(invitations)
      BY DEF InvitationsInvariant, InvitationsTyped, OneOpenInvitation, AllSpaced, Waits, Spaces
    <3>2. ~again => Open = {}
      <4>1. ASSUME ~again, Open # {} PROVE FALSE
        <5>1. OpenOne \in DOMAIN invitations /\ invitations[OpenOne].outcome = "offered"
          BY <4>1, OpenIsLast DEF InvitationsInvariant, Open
        <5>2. settled = Resolve(invitations, OpenOne, StaleOutcome) /\ StaleOutcome # "offered"
          BY <4>1
        <5>3. StaleOutcome # "accepted" /\ StaleOutcome \in Outcomes \ {"offered"}
          BY <1>2, <5>2 DEF Outcomes
        <5>4. \A j \in DOMAIN settled : settled[j].outcome # "offered"
          BY <5>1, <5>2, <5>3, ResolveKeeps
        <5> QED BY <2>1, <5>1, <5>4
      <4> QED BY <4>1
    <3> QED BY <2>1, <3>1, <3>2 DEF Open
  <2>2. CASE Open # {} /\ StaleOutcome # "offered"
    <3>1. OpenOne \in DOMAIN invitations /\ invitations[OpenOne].outcome = "offered"
      BY <2>2, OpenIsLast DEF InvitationsInvariant, Open
    <3>2. StaleOutcome \in Outcomes \ {"offered"} /\ StaleOutcome # "accepted"
      BY <1>2, <2>2 DEF Outcomes
    <3> QED BY <2>2, <3>1, <3>2, ResolveKeeps
  <2> QED BY <2>1, <2>2
<1>4. invitations' \in Seq(Invitation) /\ Waits(invitations') /\ Spaces(invitations')
  <2>1. CASE ~again /\ MayInvite(settled, o)
    <3>1. Len(invitations') <= MaxInvitations
      BY DEF PendingInvitation
    <3>2. Len(invitations') = Len(settled) + 1
      BY <1>1, <1>3, <2>1 DEF RecordInvitation
    <3> HIDE DEF settled, again
    <3>3. Len(settled) <= ScanLimit
      <4>1. Len(settled) \in Nat /\ MaxInvitations \in Nat /\ ScanLimit \in Nat
        BY <1>3, InitiationAssumption DEF ScanLimit
      <4> QED BY <3>1, <3>2, <4>1
    <3> QED BY <1>1, <1>3, <2>1, <3>3, RecordKeeps DEF InvitationsInvariant, InvitationsTyped
  <2>2. CASE ~(~again /\ MayInvite(settled, o))
    BY <1>1, <1>3, <2>2
  <2> QED BY <2>1, <2>2
<1> QED BY <1>4 DEF InvitationsInvariant, InvitationsTyped, Waits, Spaces, OneOpenInvitation, AllSpaced

LEMMA UnchangedKeeps ==
  ASSUME InvitationsInvariant, now' \in Nat, invitations' = invitations
  PROVE  InvitationsInvariant'
BY DEF InvitationsInvariant, InvitationsTyped, OneOpenInvitation, AllSpaced, Spaced

LEMMA ResolvedKeeps ==
  ASSUME InvitationsInvariant, now' = now, NEW i \in DOMAIN invitations,
         NEW out \in Outcomes \ {"offered"}, invitations' = Resolve(invitations, i, out),
         out = "accepted" => now < invitations[i].offered + Ttl
  PROVE  InvitationsInvariant'
<1>1. /\ Resolve(invitations, i, out) \in Seq(Invitation)
      /\ Waits(Resolve(invitations, i, out)) /\ Spaces(Resolve(invitations, i, out))
  BY ResolveKeeps
<1> QED BY <1>1 DEF InvitationsInvariant, InvitationsTyped, OneOpenInvitation, AllSpaced, Waits, Spaces

LEMMA ExpiredKeeps ==
  ASSUME InvitationsInvariant, now' = now, invitations' = Expired(invitations)
  PROVE  InvitationsInvariant'
<1>1. CASE Open = {}
  BY <1>1, UnchangedKeeps DEF Expired, InvitationsInvariant, InvitationsTyped
<1>2. CASE Open # {}
  <2>1. OpenOne \in DOMAIN invitations
    BY <1>2, OpenIsLast DEF InvitationsInvariant
  <2>2. invitations' = Resolve(invitations, OpenOne, "expired")
    BY <1>2 DEF Expired
  <2> QED BY <2>1, <2>2, ResolvedKeeps DEF Outcomes
<1> QED BY <1>1, <1>2

LEMMA StartKeeps ==
  ASSUME InvitationsInvariant, now' = now, NEW i \in {0} \cup DOMAIN invitations, StartBlock(i)
  PROVE  InvitationsInvariant'
<1>1. CASE invitations' = invitations
  BY <1>1, UnchangedKeeps DEF InvitationsInvariant, InvitationsTyped
<1>2. CASE i # 0 /\ Claimable(i) /\ invitations' = Resolve(invitations, i, "accepted")
  BY <1>2, ResolvedKeeps DEF Claimable, Outcomes
<1>3. CASE invitations' = Expired(invitations)
  BY <1>3, ExpiredKeeps
<1> QED BY <1>1, <1>2, <1>3 DEF StartBlock, RecordBlockStarted

LEMMA InitiationKeeps ==
  ASSUME InvitationsInvariant, MaxInvitations <= ScanLimit + 1, InitiationStep, now' = now
  PROVE  InvitationsInvariant'
<1>1. CASE \E o \in Offsets : PendingInvitation(o)
  BY <1>1, PendingKeeps, FocusAssumption
<1>2. CASE \E i \in DOMAIN invitations : Dismiss(i)
  BY <1>2, ResolvedKeeps DEF Dismiss, Outcomes
<1>3. CASE \E i \in {0} \cup DOMAIN invitations : StartBlock(i)
  BY <1>3, StartKeeps
<1>4. CASE EndBlock
  BY <1>4, UnchangedKeeps DEF EndBlock, InvitationsInvariant, InvitationsTyped
<1>5. CASE AccountChanges \/ \E on \in BOOLEAN : SetEnabled(on)
  BY <1>5, ExpiredKeeps, UnchangedKeeps
     DEF AccountChanges, SetEnabled, InvitationsInvariant, InvitationsTyped
<1> QED BY <1>1, <1>2, <1>3, <1>4, <1>5 DEF InitiationStep

LEMMA InvitationsStep ==
  ASSUME InvitationsInvariant, MaxInvitations <= ScanLimit + 1, part \in DOMAIN Steps, [Next]_vars
  PROVE  InvitationsInvariant'
<1>1. CASE Tick
  <2>1. now' \in Nat /\ invitations' = invitations
    BY <1>1, PromptsAssumption DEF Tick, ivars, InvitationsInvariant, InvitationsTyped
  <2> QED BY <2>1, UnchangedKeeps
<1>2. CASE Report \/ Prompt \/ Digest \/ UNCHANGED vars
  <2>1. now' = now /\ invitations' = invitations
    BY <1>2 DEF Report, Prompt, Digest, ivars, vars
  <2> QED BY <2>1, UnchangedKeeps DEF InvitationsInvariant, InvitationsTyped
<1>3. CASE ClearAll
  <2>1. now' = now /\ invitations' = <<>>
    BY <1>3 DEF ClearAll, ClearInvitations
  <2> QED BY <2>1 DEF InvitationsInvariant, InvitationsTyped, OneOpenInvitation, AllSpaced
<1>4. CASE Invite
  BY <1>4, InitiationKeeps DEF Invite
<1>5. CASE Work
  BY <1>5, StartKeeps, UnchangedKeeps DEF Work, EndBlock, InvitationsInvariant, InvitationsTyped
<1>6. CASE Blocks
  <2>1. now' = now
    BY <1>6 DEF Blocks
  <2>2. \/ PendingInvitation(ClientOffset)
        \/ \E i \in {0} \cup DOMAIN invitations : StartBlock(i)
        \/ invitations' = invitations
    BY <1>6 DEF Blocks, EndBlock, ivars
  <2>3. ClientOffset \in Int
    BY FocusAssumption, CategoryPromptAssumption
  <2> QED BY <2>1, <2>2, <2>3, PendingKeeps, StartKeeps, UnchangedKeeps
             DEF InvitationsInvariant, InvitationsTyped
<1> QED BY <1>1, <1>2, <1>3, <1>4, <1>5, <1>6 DEF Next

\* The part is chosen once.
LEMMA PartStays == Spec => [](part \in DOMAIN ReportLimit)
<1>1. Init => part \in DOMAIN ReportLimit
  BY DEF Init
<1>2. part \in DOMAIN ReportLimit /\ [Next]_vars => (part \in DOMAIN ReportLimit)'
  BY DEF Next, Tick, Report, ClearAll, Invite, Work, Prompt, Blocks, Digest, vars
<1> QED BY <1>1, <1>2, PTL DEF Spec

\* Invitations keep their distance (pending_invitation): each waits out the
\* cooldown that its run of refusals has grown and the silence after too many,
\* and at most one is open, while the table fits the scan of 32 rows; beyond
\* it the code no longer counts the refusals that fell out.
THEOREM InvitationsStaySpaced ==
  ASSUME MaxInvitations <= ScanLimit + 1
  PROVE  Spec => []InvitationsAreSpaced
<1>1. Init => InvitationsInvariant
  BY DEF Init, InitiationInit, InvitationsInvariant, InvitationsTyped, OneOpenInvitation, AllSpaced
<1>2. InvitationsInvariant /\ part \in DOMAIN ReportLimit /\ [Next]_vars => InvitationsInvariant'
  BY InvitationsStep, PromptsAssumption
<1>3. InvitationsInvariant => InvitationsAreSpaced
  BY SpacedIsBackoff DEF InvitationsInvariant, InvitationsTyped, InvitationsAreSpaced
<1> QED BY <1>1, <1>2, <1>3, PartStays, PTL DEF Spec

----------------------------------------------------------------------------
(* The category card.                                                       *)

Entry == [listed : Int, acked : BOOLEAN, notified : BOOLEAN]
Card == [counted : SUBSET Keys, below : SUBSET Keys]
Reminder == [date : Int, posted : Int, opened : BOOLEAN]
Reply(n) == [id : 0 .. n, reminder : BOOLEAN]
Note == [id : Nat, opened : BOOLEAN]
Message == [kind : {"request"}, offset : Int] \cup [kind : {"answer"}, id : Nat, opened : BOOLEAN]

IsLedger(rows) ==
    /\ rows = [k \in DOMAIN rows |-> rows[k]] /\ DOMAIN rows \subseteq Keys
    /\ \A k \in DOMAIN rows : rows[k] \in Entry

LedgerTyped ==
    /\ now \in Nat /\ ranked \in Rankings
    /\ IsLedger(ledger)
    /\ cards = [c \in DOMAIN cards |-> cards[c]]
    /\ DOMAIN cards \subseteq 1 .. Len(drawn) /\ \A c \in DOMAIN cards : cards[c] \in Card
    /\ drawn \in Seq(SUBSET Keys)
    /\ reminders \in Seq(Reminder)

ClientTyped ==
    /\ toService \in Seq(Message) /\ toClient \in Seq(Reply(Len(drawn)))
    /\ screen \in 0 .. Len(drawn) /\ {lastId, answeredId} \subseteq Nat
    /\ pendingAnswer \in Note /\ pendingOpened \in BOOLEAN

\* The ledger knows every entry a card covers, and whom it has told.
CardsAreListed ==
    \A c \in DOMAIN cards : cards[c].counted \cup cards[c].below \subseteq DOMAIN ledger
CardsAreDrawn == \A c \in DOMAIN cards : cards[c].counted \subseteq drawn[c]
ToldAreStamped ==
    \A k \in told : k \in DOMAIN ledger /\ (ledger[k].notified \/ ledger[k].acked)
TappedAreAcked == \A k \in tapped : k \in DOMAIN ledger /\ ledger[k].acked

LedgerInvariant ==
    LedgerTyped /\ CardsAreListed /\ CardsAreDrawn /\ ToldAreStamped /\ TappedAreAcked

LEMMA CountedIsListed ==
  ASSUME ranked \in Rankings
  PROVE  Counted \subseteq Listed /\ Listed \subseteq Keys
<1>1. ranked \in Seq(Keys) /\ MaxEntries \in Nat
  BY CategoryPromptAssumption
<1>2. Min({MaxEntries, Len(ranked)}) <= Len(ranked) /\ Min({MaxEntries, Len(ranked)}) \in Int
  BY <1>1 DEF Min
<1> QED BY <1>1, <1>2 DEF Counted, Listed, ToSet

LEMMA StampFacts ==
  ASSUME NEW rows, IsLedger(rows), NEW keys, NEW field \in {"acked", "notified"}
  PROVE  /\ IsLedger(Stamp(rows, keys, field)) /\ DOMAIN Stamp(rows, keys, field) = DOMAIN rows
         /\ \A k \in DOMAIN rows :
              /\ rows[k].acked => Stamp(rows, keys, field)[k].acked
              /\ rows[k].notified => Stamp(rows, keys, field)[k].notified
              /\ k \in keys => Stamp(rows, keys, field)[k][field]
              /\ field = "notified" => Stamp(rows, keys, field)[k].acked = rows[k].acked
<1> DEFINE new == Stamp(rows, keys, field)
<1>1. /\ new = [k \in DOMAIN rows |-> IF k \in keys THEN [rows[k] EXCEPT ![field] = TRUE] ELSE rows[k]]
      /\ DOMAIN new = DOMAIN rows
  BY DEF Stamp
<1>2. ASSUME NEW k \in DOMAIN rows
      PROVE  /\ new[k] \in Entry
             /\ rows[k].acked => new[k].acked
             /\ rows[k].notified => new[k].notified
             /\ k \in keys => new[k][field]
             /\ field = "notified" => new[k].acked = rows[k].acked
  <2>1. rows[k] \in Entry
    BY DEF IsLedger
  <2>2. new[k] = IF k \in keys THEN [rows[k] EXCEPT ![field] = TRUE] ELSE rows[k]
    BY <1>1
  <2>3. CASE field = "acked"
    BY <2>1, <2>2, <2>3 DEF Entry
  <2>4. CASE field = "notified"
    BY <2>1, <2>2, <2>4 DEF Entry
  <2> QED BY <2>3, <2>4
<1> QED BY <1>1, <1>2 DEF IsLedger

LEMMA ListedFacts ==
  ASSUME NEW rows, IsLedger(rows), ranked \in Rankings, now \in Nat
  PROVE  LET seen == RecordListed(rows)
         IN  /\ IsLedger(seen) /\ DOMAIN seen = DOMAIN rows \cup Listed
             /\ \A k \in DOMAIN rows : seen[k].acked = rows[k].acked /\ seen[k].notified = rows[k].notified
<1> DEFINE seen == RecordListed(rows)
<1>1. /\ seen = [k \in DOMAIN rows \cup Listed |->
                   IF k \notin Listed THEN rows[k]
                   ELSE IF k \in DOMAIN rows THEN [rows[k] EXCEPT !.listed = now]
                   ELSE [listed |-> now, acked |-> FALSE, notified |-> FALSE]]
      /\ DOMAIN seen = DOMAIN rows \cup Listed
  BY DEF RecordListed
<1>2. ASSUME NEW k \in DOMAIN seen
      PROVE  /\ seen[k] \in Entry
             /\ k \in DOMAIN rows => seen[k].acked = rows[k].acked /\ seen[k].notified = rows[k].notified
  <2>1. k \in DOMAIN rows => rows[k] \in Entry
    BY DEF IsLedger
  <2>2. seen[k] = IF k \notin Listed THEN rows[k]
                  ELSE IF k \in DOMAIN rows THEN [rows[k] EXCEPT !.listed = now]
                  ELSE [listed |-> now, acked |-> FALSE, notified |-> FALSE]
    BY <1>1
  <2> HIDE DEF seen
  <2>3. CASE k \notin DOMAIN rows
    <3>1. seen[k] = [listed |-> now, acked |-> FALSE, notified |-> FALSE]
      BY <1>1, <2>2, <2>3
    <3>2. [listed |-> now, acked |-> FALSE, notified |-> FALSE] \in Entry
      BY DEF Entry
    <3> QED BY <2>3, <3>1, <3>2
  <2>4. CASE k \in DOMAIN rows
    <3>1. seen[k] = rows[k] \/ seen[k] = [rows[k] EXCEPT !.listed = now]
      BY <2>2, <2>4
    <3>2. PICK r \in Entry : r = rows[k]
      BY <2>1, <2>4
    <3>3. CASE seen[k] = r
      BY <2>4, <3>2, <3>3
    <3>4. CASE seen[k] = [r EXCEPT !.listed = now]
      <4>1. [r EXCEPT !.listed = now] \in Entry
        BY DEF Entry
      <4>2. /\ [r EXCEPT !.listed = now].acked = r.acked
            /\ [r EXCEPT !.listed = now].notified = r.notified
        BY DEF Entry
      <4> QED BY <2>4, <3>2, <3>4, <4>1, <4>2
    <3> QED BY <3>1, <3>2, <3>3, <3>4
  <2> QED BY <2>3, <2>4
<1> QED BY <1>1, <1>2, CountedIsListed DEF IsLedger

LEMMA LatestCardFacts ==
  ASSUME LedgerTyped, DOMAIN cards # {}
  PROVE  LatestCard(cards) \in DOMAIN cards /\ \A c \in DOMAIN cards : c <= LatestCard(cards)
<1>1. DOMAIN cards \subseteq 0 .. Len(drawn) /\ Len(drawn) \in Nat
  BY DEF LedgerTyped
<1> QED BY <1>1, MaxFacts DEF LatestCard

\* The card that is shown counts what the list counts, and is the newest.
ShowsCard(new, counted, uncounted) ==
    LET latest == LatestCard(new)
    IN  /\ new = [c \in DOMAIN new |-> new[c]]
        /\ DOMAIN new \subseteq 1 .. Len(drawn) + 1
        /\ \A c \in DOMAIN new : new[c] \in Card
        /\ \A c \in DOMAIN new : c <= Len(drawn) =>
              /\ c \in DOMAIN cards /\ new[c].counted = cards[c].counted
              /\ new[c].below \subseteq cards[c].below \cup uncounted
        /\ latest \in DOMAIN new /\ new[latest].counted = counted
        /\ latest > Len(drawn) => latest = Len(drawn) + 1 /\ new[latest].below = uncounted
        /\ Len(drawn) + 1 \in DOMAIN new => latest = Len(drawn) + 1

LEMMA CardFacts ==
  ASSUME LedgerInvariant, NEW counted \in SUBSET Keys, NEW uncounted \in SUBSET Keys
  PROVE  ShowsCard(CardFor(counted, uncounted), counted, uncounted)
<1> DEFINE minted == Len(drawn) + 1
           old == IF DOMAIN cards = {} THEN {} ELSE {LatestCard(cards)}
           new == CardFor(counted, uncounted)
<1> SUFFICES ShowsCard(new, counted, uncounted)
  OBVIOUS
<1>1. /\ minted \in Nat /\ minted \notin DOMAIN cards /\ old \subseteq DOMAIN cards
      /\ DOMAIN cards \subseteq 1 .. Len(drawn) /\ \A c \in DOMAIN cards : cards[c] \in Card
  BY LatestCardFacts DEF LedgerInvariant, LedgerTyped
<1>2. CASE \E c \in old : cards[c].counted = counted
  <2> DEFINE l == LatestCard(cards)
  <2>1. l \in DOMAIN cards /\ cards[l].counted = counted /\ \A c \in DOMAIN cards : c <= l
    BY <1>2, LatestCardFacts DEF LedgerInvariant
  <2>2. new = [cards EXCEPT ![l].below = @ \cup (uncounted \ counted)]
    BY <1>2 DEF CardFor
  <2> HIDE DEF l
  <2>3. DOMAIN new = DOMAIN cards /\ new = [c \in DOMAIN new |-> new[c]]
    BY <2>2 DEF LedgerInvariant, LedgerTyped
  <2>4. \A c \in DOMAIN cards : new[c] =
          IF c = l THEN [cards[c] EXCEPT !.below = @ \cup (uncounted \ counted)] ELSE cards[c]
    BY <2>2, <2>1 DEF LedgerInvariant, LedgerTyped
  <2>5. \A c \in DOMAIN cards : /\ new[c] \in Card /\ new[c].counted = cards[c].counted
                                /\ new[c].below \subseteq cards[c].below \cup uncounted
    <3> SUFFICES ASSUME NEW c \in DOMAIN cards
                 PROVE  /\ new[c] \in Card /\ new[c].counted = cards[c].counted
                        /\ new[c].below \subseteq cards[c].below \cup uncounted
      OBVIOUS
    <3> HIDE DEF new
    <3>1. cards[c] \in Card /\ (new[c] = cards[c]
            \/ new[c] = [cards[c] EXCEPT !.below = @ \cup (uncounted \ counted)])
      BY <1>1, <2>4
    <3>2. uncounted \ counted \in SUBSET Keys
      OBVIOUS
    <3> QED BY <3>1, <3>2 DEF Card
  <2>6. LatestCard(new) = l
    BY <2>3 DEF LatestCard, l
  <2> HIDE DEF new
  <2> QED BY <1>1, <2>1, <2>3, <2>5, <2>6 DEF ShowsCard
<1>3. CASE ~\E c \in old : cards[c].counted = counted
  <2>1. new = [c \in old \cup {minted} |->
                 IF c = minted THEN [counted |-> counted, below |-> uncounted] ELSE cards[c]]
    BY <1>3 DEF CardFor
  <2> HIDE DEF old
  <2>2. DOMAIN new = old \cup {minted} /\ new = [c \in DOMAIN new |-> new[c]]
    BY <2>1
  <2>3. new[minted] = [counted |-> counted, below |-> uncounted] /\ \A c \in old : new[c] = cards[c]
    BY <1>1, <2>1
  <2>4. new[minted] \in Card
    BY <2>3 DEF Card
  <2>5. LatestCard(new) = minted
    <3>1. DOMAIN new \subseteq 0 .. minted /\ minted \in DOMAIN new
      BY <1>1, <2>2
    <3>2. LatestCard(new) \in DOMAIN new /\ minted <= LatestCard(new)
      BY <1>1, <3>1, MaxFacts DEF LatestCard
    <3> QED BY <1>1, <3>1, <3>2
  <2> HIDE DEF new
  <2> QED BY <1>1, <2>2, <2>3, <2>4, <2>5 DEF ShowsCard
<1> QED BY <1>2, <1>3

\* What evaluate leaves: the ledger has only gained stamps and entries, and a
\* card that is shown counts an entry that no answer reached.
LEMMA EvaluateFacts ==
  ASSUME LedgerInvariant, NEW rows, IsLedger(rows), DOMAIN rows = DOMAIN ledger, NEW o
  PROVE  LET e == Evaluate(rows, o)
         IN  /\ IsLedger(e.ledger) /\ DOMAIN ledger \subseteq DOMAIN e.ledger
             /\ \A k \in DOMAIN ledger : /\ rows[k].acked => e.ledger[k].acked
                                         /\ rows[k].notified => e.ledger[k].notified
             /\ e.shows \in BOOLEAN /\ e.reminds \in BOOLEAN
             /\ ~e.shows => e.cards = cards
             /\ e.shows => /\ e.cards = CardFor(Counted, Listed \ Counted)
                           /\ Listed \subseteq DOMAIN e.ledger
                           /\ \E k \in Counted : ~e.ledger[k].acked
             /\ e.reminds => /\ \A k \in Listed : k \in DOMAIN e.ledger /\ e.ledger[k].notified
                             /\ \E k \in Counted : k \in DOMAIN ledger =>
                                   ~rows[k].notified /\ ~rows[k].acked
                             /\ ~Paused /\ o # None /\ e.shows
<1> DEFINE seen == RecordListed(rows)
           shows == \E k \in Counted : ~seen[k].acked
           reminds == shows /\ o # None /\ MayRemind(seen, o)
           e == Evaluate(rows, o)
<1>1. CASE live # "none" \/ ranked = <<>>
  <2>1. /\ e.ledger = rows /\ e.cards = cards /\ e.shows = FALSE /\ e.reminds = FALSE
    BY <1>1 DEF Evaluate
  <2> QED BY <2>1
<1>2. CASE ~(live # "none" \/ ranked = <<>>)
  <2>0. /\ e.ledger = (IF reminds THEN ClaimStamps(seen) ELSE seen)
        /\ e.cards = (IF shows THEN CardFor(Counted, Listed \ Counted) ELSE cards)
        /\ e.shows = shows /\ e.reminds = reminds
    BY <1>2 DEF Evaluate
  <2>1. /\ IsLedger(seen) /\ DOMAIN seen = DOMAIN rows \cup Listed
        /\ \A k \in DOMAIN rows : seen[k].acked = rows[k].acked /\ seen[k].notified = rows[k].notified
    BY ListedFacts DEF LedgerInvariant, LedgerTyped
  <2>2. Counted \subseteq Listed
    BY CountedIsListed DEF LedgerInvariant, LedgerTyped
  <2> HIDE DEF seen
  <2>3. /\ IsLedger(ClaimStamps(seen)) /\ DOMAIN ClaimStamps(seen) = DOMAIN seen
        /\ \A k \in DOMAIN seen :
             /\ ClaimStamps(seen)[k].acked = seen[k].acked
             /\ seen[k].notified => ClaimStamps(seen)[k].notified
             /\ k \in Listed => ClaimStamps(seen)[k].notified
    BY <2>1, StampFacts DEF ClaimStamps
  <2>4. /\ IsLedger(e.ledger) /\ DOMAIN e.ledger = DOMAIN seen
        /\ \A k \in DOMAIN seen : /\ e.ledger[k].acked = seen[k].acked
                                  /\ seen[k].notified => e.ledger[k].notified
    BY <2>0, <2>1, <2>3
  <2>5. ASSUME reminds
        PROVE  /\ \A k \in Listed : k \in DOMAIN e.ledger /\ e.ledger[k].notified
               /\ \E k \in Counted : k \in DOMAIN ledger => ~rows[k].notified /\ ~rows[k].acked
               /\ ~Paused /\ o # None /\ shows
    <3>1. (\E k \in Counted : ~seen[k].notified /\ ~seen[k].acked) /\ ~Paused
      BY <2>5 DEF MayRemind
    <3> QED BY <2>0, <2>1, <2>3, <2>5, <3>1
  <2>6. ASSUME shows PROVE \E k \in Counted : ~e.ledger[k].acked
    BY <2>1, <2>2, <2>4, <2>6
  <2> HIDE DEF shows, reminds, e
  <2>7. shows \in BOOLEAN /\ reminds \in BOOLEAN
    BY DEF shows, reminds
  <2> QED BY <2>0, <2>1, <2>4, <2>5, <2>6, <2>7 DEF e
<1> QED BY <1>1, <1>2

\* What every handler of the service does with the result of an evaluation.
LEMMA AnsweredKeeps ==
  ASSUME LedgerInvariant, ClientTyped, NEW rows, IsLedger(rows), DOMAIN rows = DOMAIN ledger,
         NEW o \in Int, NEW had \in Seq(Reminder),
         \A k \in DOMAIN ledger : /\ ledger[k].acked => rows[k].acked
                                  /\ ledger[k].notified => rows[k].notified,
         Answered(Evaluate(rows, o), had, o), toService # <<>>,
         UNCHANGED <<now, ranked, screen, lastId, answeredId, pendingAnswer, pendingOpened>>,
         \A k \in told' : \/ k \in told
                          \/ Evaluate(rows, o).reminds /\ k \in Listed
                          \/ k \in DOMAIN ledger /\ rows[k].acked,
         \A k \in tapped' : k \in tapped \/ (k \in DOMAIN ledger /\ rows[k].acked)
  PROVE  LedgerInvariant' /\ ClientTyped' /\ AnswersAreFinal'
<1> DEFINE e == Evaluate(rows, o)
           latest == LatestCard(e.cards)
           reply == [id |-> IF e.shows THEN latest ELSE 0, reminder |-> e.reminds]
           posted == [date |-> LocalDate(now, o), posted |-> now, opened |-> FALSE]
<1>1. /\ IsLedger(e.ledger) /\ DOMAIN ledger \subseteq DOMAIN e.ledger
      /\ \A k \in DOMAIN ledger : /\ rows[k].acked => e.ledger[k].acked
                                  /\ rows[k].notified => e.ledger[k].notified
      /\ e.shows \in BOOLEAN /\ e.reminds \in BOOLEAN
      /\ ~e.shows => e.cards = cards
      /\ e.shows => /\ e.cards = CardFor(Counted, Listed \ Counted)
                    /\ Listed \subseteq DOMAIN e.ledger
                    /\ \E k \in Counted : ~e.ledger[k].acked
      /\ e.reminds => \A k \in Listed : k \in DOMAIN e.ledger /\ e.ledger[k].notified
  BY EvaluateFacts
<1>2. Counted \subseteq Listed /\ Listed \subseteq Keys
  BY CountedIsListed DEF LedgerInvariant, LedgerTyped
<1>3. /\ ledger' = e.ledger /\ cards' = e.cards
      /\ drawn' = (IF e.shows /\ latest > Len(drawn) THEN Append(drawn, Counted) ELSE drawn)
      /\ reminders' = (IF e.reminds THEN Append(had, posted) ELSE had)
      /\ toClient' = Append(toClient, reply)
      /\ toService' = Tail(toService)
  BY DEF Answered
<1>4. LedgerTyped /\ CardsAreListed /\ CardsAreDrawn /\ ToldAreStamped /\ TappedAreAcked
  BY DEF LedgerInvariant
<1>5. e.shows => ShowsCard(e.cards, Counted, Listed \ Counted)
  BY <1>1, <1>2, CardFacts
<1>a. LocalDate(now, o) \in Int
  BY <1>4, FocusAssumption DEF LedgerTyped, LocalDate
<1> HIDE DEF e, latest
<1>6. /\ drawn' \in Seq(SUBSET Keys) /\ Len(drawn) <= Len(drawn') /\ Len(drawn') \in Nat
      /\ \A c \in 1 .. Len(drawn) : drawn'[c] = drawn[c]
      /\ Len(drawn') = IF e.shows /\ latest > Len(drawn) THEN Len(drawn) + 1 ELSE Len(drawn)
      /\ e.shows /\ latest > Len(drawn) => drawn'[Len(drawn) + 1] = Counted
  <2>1. drawn \in Seq(SUBSET Keys) /\ Counted \in SUBSET Keys
    BY <1>2, <1>4 DEF LedgerTyped
  <2>2. CASE e.shows /\ latest > Len(drawn)
    BY <1>3, <2>1, <2>2
  <2>3. CASE ~(e.shows /\ latest > Len(drawn))
    <3>1. drawn' = drawn
      BY <1>3, <2>3
    <3> QED BY <3>1, <2>1, <2>3
  <2> QED BY <2>2, <2>3
<1>7. /\ cards' = [c \in DOMAIN cards' |-> cards'[c]]
      /\ DOMAIN cards' \subseteq 1 .. Len(drawn') /\ \A c \in DOMAIN cards' : cards'[c] \in Card
  <2>1. CASE e.shows
    <3>0. Len(drawn) \in Nat /\ DOMAIN e.cards \subseteq 1 .. Len(drawn) + 1
      BY <1>4, <1>5, <2>1 DEF ShowsCard, LedgerTyped
    <3>a. Len(drawn) + 1 \in DOMAIN e.cards => Len(drawn') = Len(drawn) + 1
      BY <1>5, <1>6, <2>1, <3>0 DEF ShowsCard, latest
    <3>1. DOMAIN e.cards \subseteq 1 .. Len(drawn')
      BY <1>6, <3>0, <3>a
    <3> QED BY <1>3, <1>5, <2>1, <3>1 DEF ShowsCard
  <2>2. CASE ~e.shows
    BY <1>1, <1>3, <1>4, <1>6, <2>2 DEF LedgerTyped
  <2> QED BY <1>1, <2>1, <2>2
<1>8. CardsAreListed' /\ CardsAreDrawn'
  <2>1. CASE e.shows
    <3> SUFFICES ASSUME NEW c \in DOMAIN e.cards
                 PROVE  /\ e.cards[c].counted \cup e.cards[c].below \subseteq DOMAIN e.ledger
                        /\ e.cards[c].counted \subseteq drawn'[c]
      BY <1>3 DEF CardsAreListed, CardsAreDrawn
    <3>1. CASE c <= Len(drawn)
      <4>1. c \in 1 .. Len(drawn) /\ c \in DOMAIN cards /\ drawn'[c] = drawn[c]
        BY <1>5, <1>6, <2>1, <3>1 DEF ShowsCard
      <4> QED BY <1>1, <1>4, <1>5, <2>1, <3>1, <4>1 DEF CardsAreListed, CardsAreDrawn, ShowsCard
    <3>2. CASE ~(c <= Len(drawn))
      <4>1. c = Len(drawn) + 1
        BY <1>4, <1>5, <2>1, <3>2 DEF LedgerTyped, ShowsCard
      <4>2. c = latest /\ latest > Len(drawn)
        BY <1>4, <1>5, <2>1, <4>1 DEF LedgerTyped, ShowsCard, latest
      <4> QED BY <1>1, <1>2, <1>5, <1>6, <2>1, <4>1, <4>2 DEF ShowsCard, latest
    <3> QED BY <3>1, <3>2
  <2>2. CASE ~e.shows
    <3>1. cards' = cards /\ DOMAIN ledger \subseteq DOMAIN ledger' /\ DOMAIN cards \subseteq 1 .. Len(drawn)
      BY <1>1, <1>3, <1>4, <2>2 DEF LedgerTyped
    <3> QED BY <1>4, <1>6, <3>1 DEF CardsAreListed, CardsAreDrawn
  <2> QED BY <1>1, <2>1, <2>2
<1>9. ToldAreStamped' /\ TappedAreAcked'
  BY <1>1, <1>3, <1>4 DEF ToldAreStamped, TappedAreAcked, e
<1>10. reminders' \in Seq(Reminder)
  <2>1. posted \in Reminder
    BY <1>4, <1>a DEF Reminder, LedgerTyped
  <2> HIDE DEF posted
  <2> QED BY <1>3, <2>1
<1>11. reply \in Reply(Len(drawn'))
  <2>1. CASE e.shows
    <3>1. latest \in 0 .. Len(drawn')
      BY <1>4, <1>5, <1>6, <2>1 DEF ShowsCard, latest, LedgerTyped
    <3> QED BY <1>1, <2>1, <3>1 DEF Reply
  <2>2. CASE ~e.shows
    BY <1>1, <1>6, <2>2 DEF Reply
  <2> QED BY <2>1, <2>2
<1> HIDE DEF reply
<1>12. ClientTyped'
  <2>1. toClient' \in Seq(Reply(Len(drawn')))
    <3>1. Reply(Len(drawn)) \subseteq Reply(Len(drawn'))
      BY <1>4, <1>6 DEF Reply, LedgerTyped
    <3>2. toClient \in Seq(Reply(Len(drawn')))
      BY <3>1 DEF ClientTyped
    <3> QED BY <1>3, <1>11, <3>2
  <2>2. toService' \in Seq(Message)
    BY <1>3 DEF ClientTyped
  <2>3. screen \in 0 .. Len(drawn')
    BY <1>4, <1>6 DEF ClientTyped, LedgerTyped
  <2> QED BY <2>1, <2>2, <2>3 DEF ClientTyped
<1>13. LedgerInvariant'
  BY <1>1, <1>3, <1>4, <1>6, <1>7, <1>8, <1>9, <1>10 DEF LedgerInvariant, LedgerTyped
<1>14. AnswersAreFinal'
  <2>1. toClient' # <<>> /\ Last(toClient') = reply
    BY <1>3, <1>11 DEF ClientTyped, Last
  <2>2. LastWord' = reply.id
    BY <2>1 DEF LastWord
  <2>3. ASSUME reply.id # 0 PROVE ~(drawn'[reply.id] \subseteq tapped')
    <3>1. e.shows /\ reply.id = latest
      BY <2>3 DEF reply
    <3>2. PICK k \in Counted : ~e.ledger[k].acked
      BY <1>1, <3>1
    <3>3. k \notin tapped'
      BY <1>3, <1>9, <3>2 DEF TappedAreAcked
    <3>4. Counted \subseteq drawn'[latest]
      BY <1>3, <1>5, <1>8, <3>1 DEF CardsAreDrawn, ShowsCard, latest
    <3> QED BY <3>1, <3>2, <3>3, <3>4
  <2> QED BY <2>2, <2>3 DEF AnswersAreFinal
<1> QED BY <1>12, <1>13, <1>14

----------------------------------------------------------------------------
(* Its steps.                                                               *)

LEMMA AnswerFacts ==
  ASSUME ClientTyped, toService # <<>>
  PROVE  Head(toService) \in Message
BY DEF ClientTyped

LEMMA ServeRequestKeeps ==
  ASSUME LedgerInvariant, ClientTyped, ServeRequest, now' = now
  PROVE  LedgerInvariant' /\ ClientTyped' /\ AnswersAreFinal'
<1> DEFINE o == Head(toService).offset
<1>1. Answered(Evaluate(ledger, o), reminders, o) /\ toService # <<>>
  BY DEF ServeRequest
<1>2. o \in Int
  BY AnswerFacts DEF ServeRequest, Message
<1>3. IsLedger(ledger) /\ reminders \in Seq(Reminder)
  BY DEF LedgerInvariant, LedgerTyped
<1>4. /\ \A k \in told' : k \in told \/ (Evaluate(ledger, o).reminds /\ k \in Listed)
      /\ \A k \in tapped' : k \in tapped \/ (k \in DOMAIN ledger /\ ledger[k].acked)
  BY DEF ServeRequest
<1>5. tapped' = tapped /\ UNCHANGED <<now, ranked, screen, lastId, answeredId, pendingAnswer, pendingOpened>>
  BY DEF ServeRequest, client
<1> HIDE DEF o
<1> QED BY <1>1, <1>2, <1>3, <1>4, <1>5, AnsweredKeeps

\* What an answer covers is in the ledger.
Covered(id) == UNION {cards[c].counted \cup cards[c].below : c \in DOMAIN cards \cap {id}}

LEMMA ServeAnswerKeeps ==
  ASSUME LedgerInvariant, ClientTyped, ServeAnswer, now' = now
  PROVE  LedgerInvariant' /\ ClientTyped' /\ AnswersAreFinal'
<1> DEFINE answer == Head(toService)
           covered == Covered(answer.id)
           opened == IF answer.opened /\ reminders # <<>>
                     THEN [reminders EXCEPT ![Len(reminders)].opened = TRUE] ELSE reminders
           rows == Stamp(ledger, covered, "acked")
<1>1. Answered(Evaluate(rows, None), opened, None) /\ toService # <<>>
  BY DEF ServeAnswer, Covered
<1>2. None \in Int
  BY DEF None
<1>3. IsLedger(ledger) /\ reminders \in Seq(Reminder)
  BY DEF LedgerInvariant, LedgerTyped
<1>4. covered \subseteq DOMAIN ledger
  BY DEF LedgerInvariant, CardsAreListed, Covered
<1>5. told' = told \cup covered /\ tapped' = tapped \cup covered
  BY DEF ServeAnswer, Covered
<1>6. UNCHANGED <<now, ranked, screen, lastId, answeredId, pendingAnswer, pendingOpened>>
  BY DEF ServeAnswer, client
<1>7. opened \in Seq(Reminder)
  <2>1. CASE opened = reminders
    BY <1>3, <2>1
  <2>2. CASE reminders # <<>> /\ opened = [reminders EXCEPT ![Len(reminders)].opened = TRUE]
    <3>1. reminders[Len(reminders)] \in Reminder /\ Len(reminders) \in DOMAIN reminders
      BY <1>3, <2>2
    <3>2. [reminders[Len(reminders)] EXCEPT !.opened = TRUE] \in Reminder
      BY <3>1 DEF Reminder
    <3> QED BY <1>3, <2>2, <3>1, <3>2
  <2> QED BY <2>1, <2>2
<1> HIDE DEF covered, opened
<1>8. /\ IsLedger(rows) /\ DOMAIN rows = DOMAIN ledger
      /\ \A k \in DOMAIN ledger : /\ ledger[k].acked => rows[k].acked
                                  /\ ledger[k].notified => rows[k].notified
                                  /\ k \in covered => rows[k].acked
  BY <1>3, StampFacts
<1> HIDE DEF rows
<1>9. /\ \A k \in told' : k \in told \/ (k \in DOMAIN ledger /\ rows[k].acked)
      /\ \A k \in tapped' : k \in tapped \/ (k \in DOMAIN ledger /\ rows[k].acked)
  BY <1>4, <1>5, <1>8
<1> QED BY <1>1, <1>2, <1>6, <1>7, <1>8, <1>9, AnsweredKeeps

LEMMA SweepKeeps ==
  ASSUME LedgerInvariant, ClientTyped, AnswersAreFinal, SweepLedger, now' = now
  PROVE  LedgerInvariant' /\ ClientTyped' /\ AnswersAreFinal'
<1> DEFINE old == {k \in DOMAIN ledger : ledger[k].listed < now - EntryHorizon}
           kept == {c \in DOMAIN cards : ~(cards[c].counted \cup cards[c].below \subseteq old)}
           posted == {i \in DOMAIN reminders : ~WithinHorizon(reminders[i])}
<1>1. /\ ledger' = [k \in DOMAIN ledger \ old |-> ledger[k]]
      /\ cards' = [c \in kept |-> [cards[c] EXCEPT !.counted = @ \ old, !.below = @ \ old]]
      /\ reminders' = SubSeq(reminders, Cardinality(posted) + 1, Len(reminders))
      /\ tapped' = tapped \ old /\ told' = told \ old
      /\ UNCHANGED <<ranked, toService, toClient, screen, lastId, answeredId, pendingAnswer,
                     pendingOpened, drawn>>
  BY DEF SweepLedger, wire, client
<1>2. posted \in SUBSET DOMAIN reminders /\ Cardinality(posted) \in Nat
  <2>1. IsFiniteSet(1 .. Len(reminders)) /\ DOMAIN reminders = 1 .. Len(reminders)
    BY FS_Interval DEF LedgerInvariant, LedgerTyped
  <2> QED BY <2>1, FS_Subset, FS_CardinalityType
<1>3. kept \subseteq DOMAIN cards
  OBVIOUS
<1> HIDE DEF old, kept, posted
<1>4. reminders' \in Seq(Reminder)
  <2> DEFINE n == Cardinality(posted)
  <2>1. reminders \in Seq(Reminder) /\ n \in Nat /\ Len(reminders) \in Nat
    BY <1>2 DEF LedgerInvariant, LedgerTyped
  <2>2. reminders' = SubSeq(reminders, n + 1, Len(reminders))
    BY <1>1
  <2> HIDE DEF n
  <2>3. \A i \in n + 1 .. Len(reminders) : i \in DOMAIN reminders
    BY <2>1
  <2> QED BY <2>1, <2>2, <2>3, SubSeqProperties
<1>5. \A c \in kept : /\ cards'[c] \in Card
                      /\ cards'[c].counted = cards[c].counted \ old
                      /\ cards'[c].below = cards[c].below \ old
  <2> SUFFICES ASSUME NEW c \in kept
               PROVE  /\ cards'[c] \in Card /\ cards'[c].counted = cards[c].counted \ old
                      /\ cards'[c].below = cards[c].below \ old
    OBVIOUS
  <2>1. PICK d \in Card : d = cards[c]
    BY <1>3 DEF LedgerInvariant, LedgerTyped
  <2>2. cards'[c] = [d EXCEPT !.counted = @ \ old, !.below = @ \ old]
    BY <1>1, <2>1
  <2> QED BY <2>1, <2>2 DEF Card
<1>6. DOMAIN cards' = kept /\ DOMAIN ledger' = DOMAIN ledger \ old
      /\ \A k \in DOMAIN ledger' : ledger'[k] = ledger[k]
  BY <1>1
<1>7. LedgerTyped'
  <2>1. cards' = [c \in DOMAIN cards' |-> cards'[c]] /\ ledger' = [k \in DOMAIN ledger' |-> ledger'[k]]
    BY <1>1
  <2> QED BY <1>1, <1>3, <1>4, <1>5, <1>6, <2>1 DEF LedgerInvariant, LedgerTyped, IsLedger
<1>8. CardsAreListed' /\ CardsAreDrawn'
  <2>1. \A c \in kept : /\ cards[c].counted \cup cards[c].below \subseteq DOMAIN ledger
                        /\ cards[c].counted \subseteq drawn[c]
    BY <1>3 DEF LedgerInvariant, CardsAreListed, CardsAreDrawn
  <2>2. drawn' = drawn
    BY <1>1
  <2> QED BY <1>5, <1>6, <2>1, <2>2 DEF CardsAreListed, CardsAreDrawn
<1>a. ToldAreStamped' /\ TappedAreAcked'
  <2>1. tapped' = tapped \ old /\ told' = told \ old
    BY <1>1
  <2> QED BY <1>6, <2>1 DEF LedgerInvariant, ToldAreStamped, TappedAreAcked
<1>9. ClientTyped'
  BY <1>1 DEF ClientTyped
<1>10. AnswersAreFinal'
  BY <1>1 DEF AnswersAreFinal, LastWord
<1> QED BY <1>7, <1>8, <1>9, <1>10, <1>a DEF LedgerInvariant

\* The steps of the client leave the ledger alone.
LEMMA ClientKeeps ==
  ASSUME LedgerInvariant, ClientTyped, AnswersAreFinal, now' \in Nat, ranked' \in Rankings,
         UNCHANGED <<ledger, cards, reminders, drawn, tapped, told>>,
         toService' \in Seq(Message), toClient' \in Seq(Reply(Len(drawn))),
         screen' \in 0 .. Len(drawn), {lastId', answeredId'} \subseteq Nat,
         pendingAnswer' \in Note, pendingOpened' \in BOOLEAN,
         toService' # <<>> \/ (toService = <<>> /\ LastWord' \in {0, LastWord})
  PROVE  LedgerInvariant' /\ ClientTyped' /\ AnswersAreFinal'
<1>1. LedgerInvariant'
  BY DEF LedgerInvariant, LedgerTyped, CardsAreListed, CardsAreDrawn, ToldAreStamped, TappedAreAcked, IsLedger
<1>2. ClientTyped'
  BY DEF ClientTyped
<1>3. AnswersAreFinal'
  BY DEF AnswersAreFinal
<1> QED BY <1>1, <1>2, <1>3

LEMMA MessageFacts ==
  ASSUME NEW a \in Note
  PROVE  Answer(a) \in Message /\ Request(ClientOffset) \in Message
BY FocusAssumption, CategoryPromptAssumption DEF Answer, Request, Note, Message

LEMMA RefreshFacts ==
  ASSUME ClientTyped
  PROVE  /\ RefreshSends(ClientOffset) \in Seq(Message) /\ RefreshSends(ClientOffset) # <<>>
         /\ NoAnswer \in Note
<1>1. Answer(pendingAnswer) \in Message /\ Request(ClientOffset) \in Message /\ NoAnswer \in Note
  BY MessageFacts DEF ClientTyped, NoAnswer, Note
<1>2. /\ <<Request(ClientOffset)>> \in Seq(Message) /\ Len(<<Request(ClientOffset)>>) = 1
      /\ <<Answer(pendingAnswer)>> \in Seq(Message)
  BY <1>1
<1> QED BY <1>1, <1>2 DEF RefreshSends

LEMMA RefreshKeeps ==
  ASSUME LedgerInvariant, ClientTyped, AnswersAreFinal, now' = now,
         \/ Refresh(ClientOffset) \/ TapReminderUnknown(ClientOffset)
         \/ Reconnect(ClientOffset) \/ Relaunch(ClientOffset)
  PROVE  LedgerInvariant' /\ ClientTyped' /\ AnswersAreFinal'
<1>1. RefreshSends(ClientOffset) \in Seq(Message) /\ RefreshSends(ClientOffset) # <<>> /\ NoAnswer \in Note
  BY RefreshFacts
<1>2. /\ toService \in Seq(Message) /\ toClient \in Seq(Reply(Len(drawn))) /\ screen \in 0 .. Len(drawn)
      /\ {lastId, answeredId} \subseteq Nat /\ pendingAnswer \in Note /\ pendingOpened \in BOOLEAN
      /\ now \in Nat /\ ranked \in Rankings /\ 0 \in 0 .. Len(drawn) /\ 0 \in Nat
      /\ <<>> \in Seq(Reply(Len(drawn)))
  BY DEF ClientTyped, LedgerInvariant, LedgerTyped
<1>3. toService \o RefreshSends(ClientOffset) \in Seq(Message) /\ toService \o RefreshSends(ClientOffset) # <<>>
  BY <1>1, <1>2
<1>4. <<Request(ClientOffset)>> \in Seq(Message) /\ <<Request(ClientOffset)>> # <<>>
  BY <1>1, MessageFacts
<1>5. CASE Refresh(ClientOffset)
  <2>1. /\ toService' = toService \o RefreshSends(ClientOffset) /\ pendingAnswer' = NoAnswer
        /\ UNCHANGED <<now, ranked, ledger, cards, reminders, toClient, screen, lastId, answeredId,
                       pendingOpened, drawn, tapped, told>>
    BY <1>5 DEF Refresh
  <2>2. /\ toService' \in Seq(Message) /\ toClient' \in Seq(Reply(Len(drawn)))
        /\ screen' \in 0 .. Len(drawn) /\ {lastId', answeredId'} \subseteq Nat
        /\ pendingAnswer' \in Note /\ pendingOpened' \in BOOLEAN
        /\ now' \in Nat /\ ranked' \in Rankings
    BY <1>1, <1>2, <1>3, <2>1
  <2>3. toService' # <<>>
    BY <1>1, <1>3, <2>1
  <2> QED BY <2>1, <2>2, <2>3, ClientKeeps
<1>6. CASE TapReminderUnknown(ClientOffset)
  <2>1. /\ toService' = toService \o RefreshSends(ClientOffset) /\ pendingAnswer' = NoAnswer
        /\ pendingOpened' = TRUE
        /\ UNCHANGED <<now, ranked, ledger, cards, reminders, toClient, screen, lastId, answeredId,
                       drawn, tapped, told>>
    BY <1>6 DEF TapReminderUnknown
  <2>2. /\ toService' \in Seq(Message) /\ toClient' \in Seq(Reply(Len(drawn)))
        /\ screen' \in 0 .. Len(drawn) /\ {lastId', answeredId'} \subseteq Nat
        /\ pendingAnswer' \in Note /\ pendingOpened' \in BOOLEAN
        /\ now' \in Nat /\ ranked' \in Rankings
    BY <1>1, <1>2, <1>3, <2>1
  <2>3. toService' # <<>>
    BY <1>1, <1>3, <2>1
  <2> QED BY <2>1, <2>2, <2>3, ClientKeeps
<1>7. CASE Reconnect(ClientOffset)
  <2>1. /\ toService' = RefreshSends(ClientOffset) /\ pendingAnswer' = NoAnswer /\ toClient' = <<>>
        /\ UNCHANGED <<now, ranked, ledger, cards, reminders, screen, lastId, answeredId,
                       pendingOpened, drawn, tapped, told>>
    BY <1>7 DEF Reconnect
  <2>2. /\ toService' \in Seq(Message) /\ toClient' \in Seq(Reply(Len(drawn)))
        /\ screen' \in 0 .. Len(drawn) /\ {lastId', answeredId'} \subseteq Nat
        /\ pendingAnswer' \in Note /\ pendingOpened' \in BOOLEAN
        /\ now' \in Nat /\ ranked' \in Rankings
    BY <1>1, <1>2, <1>1, <2>1
  <2>3. toService' # <<>>
    BY <1>1, <1>1, <2>1
  <2> QED BY <2>1, <2>2, <2>3, ClientKeeps
<1>8. CASE Relaunch(ClientOffset)
  <2>1. /\ toService' = <<Request(ClientOffset)>> /\ toClient' = <<>> /\ pendingOpened' = FALSE
        /\ screen' = 0 /\ lastId' = 0 /\ answeredId' = 0
        /\ UNCHANGED <<now, ranked, ledger, cards, reminders, pendingAnswer, drawn, tapped, told>>
    BY <1>8 DEF Relaunch
  <2>2. /\ toService' \in Seq(Message) /\ toClient' \in Seq(Reply(Len(drawn)))
        /\ screen' \in 0 .. Len(drawn) /\ {lastId', answeredId'} \subseteq Nat
        /\ pendingAnswer' \in Note /\ pendingOpened' \in BOOLEAN
        /\ now' \in Nat /\ ranked' \in Rankings
    BY <1>1, <1>2, <1>4, <2>1
  <2>3. toService' # <<>>
    BY <1>1, <1>4, <2>1
  <2> QED BY <2>1, <2>2, <2>3, ClientKeeps
<1> QED BY <1>5, <1>6, <1>7, <1>8

LEMMA TapKeeps ==
  ASSUME LedgerInvariant, ClientTyped, AnswersAreFinal, now' = now, NEW opened \in BOOLEAN, TapCard(opened)
  PROVE  LedgerInvariant' /\ ClientTyped' /\ AnswersAreFinal'
<1>1. PICK id \in Nat : /\ screen' = 0 /\ SendAnswer(id, opened)
                        /\ UNCHANGED <<ranked, ledger, cards, reminders, toClient, lastId,
                                       pendingOpened, drawn, tapped, told>>
  <2>1. screen \in Nat /\ lastId \in Nat
    BY DEF ClientTyped, LedgerInvariant, LedgerTyped
  <2> QED BY <2>1 DEF TapCard
<1> DEFINE a == [id |-> id, opened |-> opened]
<1>2. a \in Note
  BY DEF Note
<1> HIDE DEF a
<1>3. Answer(a) \in Message
  BY <1>2, MessageFacts
<1>4. /\ answeredId' = id
      /\ \/ toService' = Append(toService, Answer(a)) /\ UNCHANGED pendingAnswer
         \/ pendingAnswer' = a /\ UNCHANGED toService
  BY <1>1 DEF SendAnswer, a
<1>5. toService' \in Seq(Message) /\ pendingAnswer' \in Note /\ (toService' # <<>> \/ toService = <<>>)
  <2>1. Append(toService, Answer(a)) \in Seq(Message) /\ Append(toService, Answer(a)) # <<>>
    BY <1>3 DEF ClientTyped
  <2> QED BY <1>2, <1>4, <2>1 DEF ClientTyped
<1>6. LastWord' \in {0, LastWord}
  BY <1>1 DEF LastWord
<1> QED BY <1>1, <1>4, <1>5, <1>6, ClientKeeps DEF ClientTyped, LedgerInvariant, LedgerTyped

LEMMA ApplyKeeps ==
  ASSUME LedgerInvariant, ClientTyped, AnswersAreFinal, now' = now, Apply
  PROVE  LedgerInvariant' /\ ClientTyped' /\ AnswersAreFinal'
<1> DEFINE reply == Head(toClient)
           opens == pendingOpened /\ reply.id # 0
           done == AlreadyAnswered(reply.id) \/ opens
           a == [id |-> reply.id, opened |-> TRUE]
<1>1. /\ toClient # <<>> /\ toClient' = Tail(toClient) /\ pendingOpened' = FALSE
      /\ screen' = (IF done THEN 0 ELSE reply.id)
      /\ lastId' = (IF reply.id # 0 /\ (opens \/ ~done) THEN reply.id ELSE lastId)
      /\ UNCHANGED <<ranked, ledger, cards, reminders, drawn, tapped, told>>
  BY DEF Apply
<1>2. reply \in Reply(Len(drawn)) /\ toClient \in Seq(Reply(Len(drawn))) /\ Len(drawn) \in Nat
  BY <1>1 DEF ClientTyped, LedgerInvariant, LedgerTyped
<1>3. reply.id \in 0 .. Len(drawn) /\ reply.id \in Nat
  BY <1>2 DEF Reply
<1>4. a \in Note
  BY <1>3 DEF Note
<1>5. \/ /\ answeredId' = reply.id
         /\ \/ toService' = Append(toService, Answer(a)) /\ UNCHANGED pendingAnswer
            \/ pendingAnswer' = a /\ UNCHANGED toService
      \/ answeredId' \in {0, answeredId} /\ UNCHANGED <<toService, pendingAnswer>>
  BY DEF Apply, SendAnswer
<1> HIDE DEF a, done, opens
<1>6. Answer(a) \in Message
  BY <1>4, MessageFacts
<1>7. /\ toService' \in Seq(Message) /\ pendingAnswer' \in Note /\ answeredId' \in Nat
      /\ (toService' # <<>> \/ toService = <<>>)
  <2>1. Append(toService, Answer(a)) \in Seq(Message) /\ Append(toService, Answer(a)) # <<>>
    BY <1>6 DEF ClientTyped
  <2>2. /\ toService' \in {toService, Append(toService, Answer(a))}
        /\ pendingAnswer' \in {pendingAnswer, a}
        /\ answeredId' \in {0, answeredId, reply.id}
    BY <1>5
  <2>3. toService \in Seq(Message) /\ pendingAnswer \in Note /\ answeredId \in Nat
    BY DEF ClientTyped
  <2> HIDE DEF reply
  <2> QED BY <1>3, <1>4, <2>1, <2>2, <2>3
<1>8. LastWord' \in {0, LastWord}
  <2>1. CASE Tail(toClient) = <<>>
    <3>1. Len(toClient) \in Nat /\ Len(toClient) # 0 /\ Len(Tail(toClient)) = Len(toClient) - 1
      BY <1>1, <1>2
    <3>a. Len(<<>>) = 0
      OBVIOUS
    <3>2. Len(Tail(toClient)) = 0
      BY <2>1, <3>a
    <3> DEFINE m == Len(toClient)
               l == Len(Tail(toClient))
    <3>b. m \in Nat /\ l = m - 1 /\ l = 0
      BY <3>1, <3>2
    <3>3. Len(toClient) = 1
      <4> HIDE DEF m, l
      <4>1. m = 1
        BY <3>b
      <4> QED BY <4>1 DEF m
    <3>4. Last(toClient) = reply
      BY <1>1, <1>2, <3>3 DEF Last
    <3> QED BY <1>1, <2>1, <3>4 DEF LastWord
  <2>2. CASE Tail(toClient) # <<>>
    <3>1. Last(Tail(toClient)) = Last(toClient)
      BY <1>1, <1>2, <2>2 DEF Last
    <3> QED BY <1>1, <2>2, <3>1 DEF LastWord
  <2> QED BY <2>1, <2>2
<1>9. toClient' \in Seq(Reply(Len(drawn))) /\ screen' \in 0 .. Len(drawn) /\ lastId' \in Nat
  BY <1>1, <1>2, <1>3 DEF ClientTyped
<1>10. pendingOpened' \in BOOLEAN /\ now' \in Nat /\ ranked' \in Rankings /\ answeredId' \in Nat
  BY <1>1, <1>7 DEF LedgerInvariant, LedgerTyped
<1> QED BY <1>1, <1>7, <1>8, <1>9, <1>10, ClientKeeps

LEMMA ElsewhereKeeps ==
  ASSUME LedgerInvariant, ClientTyped, AnswersAreFinal, now' \in Nat, ranked' \in Rankings,
         UNCHANGED <<ledger, cards, reminders, toService, toClient, screen, lastId, answeredId,
                     pendingAnswer, pendingOpened, drawn, tapped, told>>
  PROVE  LedgerInvariant' /\ ClientTyped' /\ AnswersAreFinal'
<1>1. /\ toService' \in Seq(Message) /\ toClient' \in Seq(Reply(Len(drawn)))
      /\ screen' \in 0 .. Len(drawn) /\ {lastId', answeredId'} \subseteq Nat
      /\ pendingAnswer' \in Note /\ pendingOpened' \in BOOLEAN
  BY DEF ClientTyped
<1>2. toService' # <<>> \/ (toService = <<>> /\ LastWord' \in {0, LastWord})
  BY DEF LastWord
<1> QED BY <1>1, <1>2, ClientKeeps

LEMMA CategoryKeeps ==
  ASSUME LedgerInvariant, ClientTyped, AnswersAreFinal, CategoryStep, now' = now
  PROVE  LedgerInvariant' /\ ClientTyped' /\ AnswersAreFinal'
<1>1. CASE ServeRequest
  BY <1>1, ServeRequestKeeps
<1>2. CASE ServeAnswer
  BY <1>2, ServeAnswerKeeps
<1>3. CASE SweepLedger
  BY <1>3, SweepKeeps
<1>4. CASE ListChanges
  <2>1. now' \in Nat /\ ranked' \in Rankings
    BY <1>4 DEF ListChanges, LedgerInvariant, LedgerTyped
  <2> QED BY <1>4, <2>1, ElsewhereKeeps DEF ListChanges, wire, client
<1>5. CASE Apply
  BY <1>5, ApplyKeeps
<1>6. CASE \/ Refresh(ClientOffset) \/ TapReminderUnknown(ClientOffset)
           \/ Reconnect(ClientOffset) \/ Relaunch(ClientOffset)
  BY <1>6, RefreshKeeps
<1>7. CASE \E opened \in BOOLEAN : TapCard(opened)
  BY <1>7, TapKeeps
<1> QED BY <1>1, <1>2, <1>3, <1>4, <1>5, <1>6, <1>7 DEF CategoryStep

\* Only the steps of the card, and the clock, touch what the ledger rests on.
LEMMA OnlyPrompt ==
  ASSUME part \in DOMAIN Steps, now \in Nat, [Next]_vars
  PROVE  \/ CategoryStep /\ now' = now
         \/ UNCHANGED cvars /\ now' \in Nat
<1>1. CASE Tick
  BY <1>1, PromptsAssumption DEF Tick
<1>2. CASE Prompt
  BY <1>2 DEF Prompt
<1>3. CASE Report \/ ClearAll \/ Invite \/ Work \/ Blocks \/ Digest
  BY <1>3 DEF Report, ClearAll, Invite, Work, Blocks, Digest
<1>4. CASE UNCHANGED vars
  BY <1>4 DEF vars
<1> QED BY <1>1, <1>2, <1>3, <1>4 DEF Next

LEMMA LedgerStep ==
  ASSUME LedgerInvariant, ClientTyped, AnswersAreFinal, part \in DOMAIN Steps, [Next]_vars
  PROVE  LedgerInvariant' /\ ClientTyped' /\ AnswersAreFinal'
<1>1. now \in Nat /\ ranked \in Rankings
  BY DEF LedgerInvariant, LedgerTyped
<1>2. CASE CategoryStep /\ now' = now
  BY <1>2, CategoryKeeps
<1>3. CASE UNCHANGED cvars /\ now' \in Nat
  BY <1>1, <1>3, ElsewhereKeeps DEF cvars
<1> QED BY <1>1, <1>2, <1>3, OnlyPrompt

LEMMA LedgerInit ==
  ASSUME Init
  PROVE  LedgerInvariant /\ ClientTyped /\ AnswersAreFinal
<1>1. CategoryInit /\ now = 0
  BY DEF Init
<1>2. IsLedger(<<>>) /\ DOMAIN <<>> = {} /\ <<>> = [c \in {} |-> <<>>[c]]
  BY DEF IsLedger
<1>3. LedgerTyped
  BY <1>1, <1>2 DEF CategoryInit, LedgerTyped
<1>4. CardsAreListed /\ CardsAreDrawn /\ ToldAreStamped /\ TappedAreAcked
  BY <1>1, <1>2 DEF CategoryInit, CardsAreListed, CardsAreDrawn, ToldAreStamped, TappedAreAcked
<1>5. ClientTyped
  <2>1. screen = 0 /\ Len(drawn) = 0 /\ 0 \in 0 .. 0
    BY <1>1 DEF CategoryInit
  <2>2. pendingAnswer \in Note
    BY <1>1 DEF CategoryInit, NoAnswer, Note
  <2>3. screen \in 0 .. Len(drawn)
    BY <2>1
  <2>4. toService \in Seq(Message) /\ toClient \in Seq(Reply(Len(drawn)))
    BY <1>1 DEF CategoryInit
  <2>5. {lastId, answeredId} \subseteq Nat /\ pendingOpened \in BOOLEAN
    <3>1. {lastId, answeredId} \subseteq Nat
      BY <1>1 DEF CategoryInit
    <3>2. pendingOpened \in BOOLEAN
      BY <1>1, Zenon DEF CategoryInit
    <3> QED BY <3>1, <3>2
  <2> QED BY <2>2, <2>3, <2>4, <2>5 DEF ClientTyped
<1>6. AnswersAreFinal
  BY <1>1 DEF CategoryInit, AnswersAreFinal, LastWord
<1> QED BY <1>3, <1>4, <1>5, <1>6 DEF LedgerInvariant

LEMMA LedgerAlways == Spec => [](LedgerInvariant /\ ClientTyped /\ AnswersAreFinal)
<1>1. Init => LedgerInvariant /\ ClientTyped /\ AnswersAreFinal
  BY LedgerInit
<1>2. /\ LedgerInvariant /\ ClientTyped /\ AnswersAreFinal
      /\ part \in DOMAIN ReportLimit /\ [Next]_vars
      => (LedgerInvariant /\ ClientTyped /\ AnswersAreFinal)'
  BY LedgerStep, PromptsAssumption
<1> QED BY <1>1, <1>2, PartStays, PTL DEF Spec

\* An answer is final (card_for, acknowledge_prompt): when nothing is on its
\* way to the service, the card that stays on the screen counts an entry that
\* no answer reached, for every list, horizon, card bound and length of queue.
THEOREM AnswersStayFinal == Spec => []AnswersAreFinal
<1> QED BY LedgerAlways, PTL

----------------------------------------------------------------------------
(* Its reminders.                                                           *)

\* What may become of the posted reminders.
Posted(r) == r.posted = now /\ r.opened = FALSE
RemindersChange ==
    \/ reminders' = reminders
    \/ /\ \E r \in Reminder : Posted(r) /\ reminders' = Append(reminders, r)
       /\ ~Paused /\ ~(Counted \subseteq told)
    \/ /\ reminders # <<>>
       /\ reminders' = [reminders EXCEPT ![Len(reminders)].opened = TRUE]
    \/ \E n \in Nat : reminders' = SubSeq(reminders, n + 1, Len(reminders))

LEMMA RequestReminds ==
  ASSUME LedgerInvariant, ClientTyped, ServeRequest
  PROVE  RemindersChange
<1> DEFINE o == Head(toService).offset
           e == Evaluate(ledger, o)
           r == [date |-> LocalDate(now, o), posted |-> now, opened |-> FALSE]
<1>1. reminders' = IF e.reminds THEN Append(reminders, r) ELSE reminders
  BY DEF ServeRequest, Answered
<1>2. CASE ~e.reminds
  BY <1>1, <1>2 DEF RemindersChange
<1>3. CASE e.reminds
  <2>1. o \in Int
    BY AnswerFacts DEF ServeRequest, Message
  <2>2. IsLedger(ledger) /\ ranked \in Rankings /\ now \in Nat
    BY DEF LedgerInvariant, LedgerTyped
  <2>3. ~Paused /\ \E k \in Counted : k \in DOMAIN ledger => ~ledger[k].notified /\ ~ledger[k].acked
    BY <1>3, <2>2, EvaluateFacts
  <2>4. ~(Counted \subseteq told)
    BY <2>3 DEF LedgerInvariant, ToldAreStamped
  <2>5. r \in Reminder /\ Posted(r)
    BY <2>1, <2>2, FocusAssumption DEF Reminder, Posted, LocalDate
  <2> HIDE DEF r, e
  <2> QED BY <1>1, <1>3, <2>3, <2>4, <2>5 DEF RemindersChange
<1> QED BY <1>2, <1>3

LEMMA AnswerReminds ==
  ASSUME LedgerInvariant, ClientTyped, ServeAnswer
  PROVE  RemindersChange
<1> DEFINE answer == Head(toService)
           rows == Stamp(ledger, Covered(answer.id), "acked")
           e == Evaluate(rows, None)
           opened == IF answer.opened /\ reminders # <<>>
                     THEN [reminders EXCEPT ![Len(reminders)].opened = TRUE] ELSE reminders
<1>1. Answered(e, opened, None)
  BY DEF ServeAnswer, Covered
<1>2. e.reminds = FALSE
  BY DEF Evaluate
<1> HIDE DEF e
<1>3. reminders' = opened
  BY <1>1, <1>2 DEF Answered
<1> QED BY <1>3 DEF RemindersChange

LEMMA SweepReminds ==
  ASSUME LedgerInvariant, ClientTyped, SweepLedger
  PROVE  RemindersChange
<1> DEFINE posted == {i \in DOMAIN reminders : ~WithinHorizon(reminders[i])}
<1>1. reminders' = SubSeq(reminders, Cardinality(posted) + 1, Len(reminders))
  BY DEF SweepLedger
<1>2. Cardinality(posted) \in Nat
  <2>1. DOMAIN reminders = 1 .. Len(reminders) /\ Len(reminders) \in Int
    BY DEF LedgerInvariant, LedgerTyped
  <2>2. IsFiniteSet(DOMAIN reminders)
    BY <2>1, FS_Interval
  <2> QED BY <2>2, FS_Subset, FS_CardinalityType
<1> HIDE DEF posted
<1> QED BY <1>1, <1>2 DEF RemindersChange

LEMMA RemindersStep ==
  ASSUME LedgerInvariant, ClientTyped, part \in DOMAIN Steps, [Next]_vars
  PROVE  RemindersChange
<1>1. CASE CategoryStep
  <2>1. CASE ServeRequest
    BY <2>1, RequestReminds
  <2>2. CASE ServeAnswer
    BY <2>2, AnswerReminds
  <2>3. CASE SweepLedger
    BY <2>3, SweepReminds
  <2>4. CASE reminders' = reminders
    BY <2>4 DEF RemindersChange
  <2> QED BY <1>1, <2>1, <2>2, <2>3, <2>4
          DEF CategoryStep, ListChanges, Apply, Refresh, TapReminderUnknown, Reconnect, Relaunch, TapCard
<1>2. CASE UNCHANGED cvars
  BY <1>2 DEF cvars, RemindersChange
<1>3. now \in Nat
  BY DEF LedgerInvariant, LedgerTyped
<1> QED BY <1>1, <1>2, <1>3, OnlyPrompt

LEMMA BackoffStep ==
  ASSUME reminders \in Seq(Reminder), reminders' \in Seq(Reminder), now \in Nat,
         ReminderBackoff, RemindersChange
  PROVE  ReminderBackoff'
<1>0. UnopenedRun \in Nat \ {0} /\ {PauseTicks, ReminderHorizon} \subseteq Nat
  BY CategoryPromptAssumption
<1> SUFFICES ASSUME NEW i \in (UnopenedRun + 1) .. Len(reminders'),
                    \A j \in (i - UnopenedRun) .. (i - 1) : ~reminders'[j].opened
                        /\ reminders'[j].posted >= reminders'[i].posted - ReminderHorizon
             PROVE  reminders'[i].posted >= reminders'[i - 1].posted + PauseTicks
  BY DEF ReminderBackoff
<1>1. CASE reminders' = reminders
  BY <1>1 DEF ReminderBackoff
<1>2. ASSUME NEW r \in Reminder, Posted(r), reminders' = Append(reminders, r), ~Paused
      PROVE  reminders'[i].posted >= reminders'[i - 1].posted + PauseTicks
  <2>1. /\ Len(reminders') = Len(reminders) + 1 /\ Len(reminders) \in Nat
        /\ reminders'[Len(reminders) + 1] = r
        /\ \A j \in 1 .. Len(reminders) : reminders'[j] = reminders[j]
    BY <1>2
  <2>2. CASE i <= Len(reminders)
    <3>1. i \in (UnopenedRun + 1) .. Len(reminders) /\ i \in 1 .. Len(reminders)
          /\ i - 1 \in 1 .. Len(reminders)
          /\ \A j \in (i - UnopenedRun) .. (i - 1) : j \in 1 .. Len(reminders)
      BY <1>0, <2>1, <2>2
    <3> QED BY <2>1, <3>1 DEF ReminderBackoff
  <2>3. CASE i = Len(reminders) + 1
    <3> DEFINE n == Len(reminders)
               first == n - UnopenedRun + 1
               run == RecentReminders
    <3>1. n >= UnopenedRun /\ first \in 1 .. n /\ n \in 1 .. n
      BY <1>0, <2>1, <2>3
    <3>2. Max({1, first}) = first
      BY <3>1 DEF Max
    <3>3. run = SubSeq(reminders, first, n)
      BY <3>2 DEF RecentReminders
    <3> HIDE DEF run, first, n
    <3>4. /\ run \in Seq(Reminder) /\ Len(run) = n - first + 1
          /\ \A k \in 1 .. n - first + 1 : run[k] = reminders[first + k - 1]
      <4>1. \A k \in first .. n : reminders[k] \in Reminder
        BY <3>1 DEF n
      <4>2. first \in Int /\ n \in Int /\ first <= n
        BY <3>1
      <4> QED BY <3>3, <4>1, <4>2, SubSeqProperties
    <3>5. Len(run) = UnopenedRun /\ Last(run) = reminders[n]
      <4>1. n - first + 1 = UnopenedRun /\ first + UnopenedRun - 1 = n
        BY <1>0, <3>1 DEF first
      <4>2. Len(run) = UnopenedRun
        BY <3>4, <4>1
      <4>3. UnopenedRun \in 1 .. n - first + 1
        BY <1>0, <4>1
      <4>4. run[UnopenedRun] = reminders[first + UnopenedRun - 1]
        BY <3>4, <4>3
      <4> QED BY <4>1, <4>2, <4>4 DEF Last
    <3>6. \A k \in DOMAIN run : WithinHorizon(run[k]) /\ ~run[k].opened
      <4> SUFFICES ASSUME NEW k \in 1 .. UnopenedRun
                   PROVE  WithinHorizon(run[k]) /\ ~run[k].opened
        <5>1. DOMAIN run = 1 .. UnopenedRun
          BY <3>4, <3>5
        <5> QED BY <5>1
      <4> DEFINE j == first + k - 1
      <4>1. j \in (i - UnopenedRun) .. (i - 1) /\ j \in 1 .. n /\ k \in 1 .. n - first + 1
        BY <1>0, <2>1, <2>3, <3>1 DEF first, n
      <4>2. run[k] = reminders'[j]
        BY <2>1, <3>4, <4>1 DEF n
      <4>3. reminders'[i].posted = now
        BY <1>2, <2>1, <2>3 DEF Posted
      <4> QED BY <4>1, <4>2, <4>3 DEF WithinHorizon
    <3>7. now >= reminders[n].posted + PauseTicks
      <4>1. ~(now < reminders[n].posted + PauseTicks)
        BY <1>2, <3>5, <3>6 DEF Paused, run
      <4>2. reminders[n] \in Reminder
        BY <3>1 DEF n
      <4>3. reminders[n].posted \in Int
        BY <4>2 DEF Reminder
      <4> QED BY <1>0, <4>1, <4>3
    <3>8. reminders'[i].posted = now /\ reminders'[i - 1] = reminders[n]
      BY <1>2, <2>1, <2>3, <3>1 DEF Posted, n
    <3> QED BY <3>7, <3>8
  <2> QED BY <2>1, <2>2, <2>3
<1>3. CASE reminders # <<>> /\ reminders' = [reminders EXCEPT ![Len(reminders)].opened = TRUE]
  <2>1. /\ Len(reminders') = Len(reminders) /\ Len(reminders) \in Nat
        /\ \A j \in 1 .. Len(reminders) : reminders'[j].posted = reminders[j].posted
        /\ \A j \in 1 .. Len(reminders) : j # Len(reminders) => reminders'[j] = reminders[j]
    <3>1. \A j \in 1 .. Len(reminders) : reminders[j] \in Reminder
      OBVIOUS
    <3> QED BY <1>3, <3>1 DEF Reminder
  <2>2. /\ i \in (UnopenedRun + 1) .. Len(reminders) /\ i \in 1 .. Len(reminders)
        /\ i - 1 \in 1 .. Len(reminders)
        /\ \A j \in (i - UnopenedRun) .. (i - 1) : j \in 1 .. Len(reminders) /\ j # Len(reminders)
    BY <1>0, <2>1
  <2> QED BY <2>1, <2>2 DEF ReminderBackoff
<1>4. ASSUME NEW n \in Nat, reminders' = SubSeq(reminders, n + 1, Len(reminders))
      PROVE  reminders'[i].posted >= reminders'[i - 1].posted + PauseTicks
  <2>0. Len(reminders) \in Nat
    OBVIOUS
  <2>1. /\ Len(reminders') = IF n + 1 <= Len(reminders) THEN Len(reminders) - n ELSE 0
        /\ \A j \in 1 .. Len(reminders) - n : reminders'[j] = reminders[n + j]
    <3>1. \A k \in n + 1 .. Len(reminders) : reminders[k] \in Reminder
      OBVIOUS
    <3>2. n + 1 \in Int /\ Len(reminders) \in Int
      BY <2>0
    <3>3. /\ Len(reminders') = IF n + 1 <= Len(reminders) THEN Len(reminders) - (n + 1) + 1 ELSE 0
          /\ \A j \in 1 .. Len(reminders) - (n + 1) + 1 : reminders'[j] = reminders[(n + 1) + j - 1]
      BY <1>4, <3>1, <3>2, SubSeqProperties
    <3>4. /\ Len(reminders) - (n + 1) + 1 = Len(reminders) - n
          /\ \A j \in Int : (n + 1) + j - 1 = n + j
      BY <2>0
    <3>5. Len(reminders') = IF n + 1 <= Len(reminders) THEN Len(reminders) - n ELSE 0
      BY <3>3, <3>4
    <3>6. ASSUME NEW j \in 1 .. Len(reminders) - n
          PROVE  reminders'[j] = reminders[n + j]
      <4>1. j \in 1 .. Len(reminders) - (n + 1) + 1
        BY <3>4
      <4>2. reminders'[j] = reminders[(n + 1) + j - 1]
        BY <3>3, <4>1
      <4>3. (n + 1) + j - 1 = n + j
        BY <3>4
      <4> QED BY <4>2, <4>3
    <3> QED BY <3>5, <3>6
  <2>2. i \in 1 .. Len(reminders) - n /\ i - 1 \in 1 .. Len(reminders) - n
        /\ n + i \in (UnopenedRun + 1) .. Len(reminders)
    BY <1>0, <2>0, <2>1
  <2>a. PICK k \in (UnopenedRun + 1) .. Len(reminders) : k = n + i
    BY <2>2
  <2>3. \A j \in (k - UnopenedRun) .. (k - 1) : ~reminders[j].opened
            /\ reminders[j].posted >= reminders[k].posted - ReminderHorizon
    <3> SUFFICES ASSUME NEW j \in (k - UnopenedRun) .. (k - 1)
                 PROVE  ~reminders[j].opened
                        /\ reminders[j].posted >= reminders[k].posted - ReminderHorizon
      OBVIOUS
    <3>1. j - n \in (i - UnopenedRun) .. (i - 1) /\ j - n \in 1 .. Len(reminders) - n
      BY <1>0, <2>0, <2>2, <2>a
    <3>2. reminders'[j - n] = reminders[j] /\ reminders'[i] = reminders[k]
      <4>1. n + (j - n) = j
        OBVIOUS
      <4> QED BY <2>1, <2>2, <2>a, <3>1, <4>1
    <3> QED BY <3>1, <3>2
  <2>4. reminders[n + i].posted >= reminders[n + i - 1].posted + PauseTicks
    <3>1. reminders[k].posted >= reminders[k - 1].posted + PauseTicks
      BY <2>3 DEF ReminderBackoff
    <3> QED BY <2>a, <3>1
  <2>5. reminders'[i] = reminders[n + i] /\ reminders'[i - 1] = reminders[n + i - 1]
    <3>1. n + (i - 1) = n + i - 1
      BY <2>2
    <3> QED BY <2>1, <2>2, <3>1
  <2> QED BY <2>4, <2>5
<1> QED BY <1>1, <1>2, <1>3, <1>4 DEF RemindersChange

LEMMA BackoffOnward ==
  ASSUME ReminderBackoff, LedgerInvariant, ClientTyped, AnswersAreFinal, part \in DOMAIN Steps, [Next]_vars
  PROVE  ReminderBackoff'
<1>1. RemindersChange
  BY RemindersStep
<1>2. reminders \in Seq(Reminder) /\ now \in Nat
  BY DEF LedgerInvariant, LedgerTyped
<1>3. reminders' \in Seq(Reminder)
  BY LedgerStep DEF LedgerInvariant, LedgerTyped
<1> QED BY <1>1, <1>2, <1>3, BackoffStep

\* The backoff of the reminder (reminders_paused): after a run of unopened
\* ones the next waits for the pause, whatever the sweep has dropped of the
\* run and whatever was opened since, for every length of run and of pause.
THEOREM RemindersBackOff == Spec => []ReminderBackoff
<1>1. Init => ReminderBackoff
  <2> SUFFICES ASSUME Init PROVE ReminderBackoff
    OBVIOUS
  <2>1. Len(reminders) = 0 /\ UnopenedRun \in Nat
    BY CategoryPromptAssumption DEF Init, CategoryInit
  <2> QED BY <2>1 DEF ReminderBackoff
<1>2. /\ ReminderBackoff /\ LedgerInvariant /\ ClientTyped /\ AnswersAreFinal
      /\ part \in DOMAIN ReportLimit /\ [Next]_vars
      => ReminderBackoff'
  BY BackoffOnward, PromptsAssumption
<1> QED BY <1>1, <1>2, LedgerAlways, PartStays, PTL DEF Spec

\* A reminder is news (record_listed, claim_notification): it is claimed only
\* while the list counts an entry that no earlier reminder and no answer has
\* reached, counted or below, for every set of entries and every list.
THEOREM RemindersAreNews == Spec => ReminderIsNews
<1>1. LedgerInvariant /\ ClientTyped /\ part \in DOMAIN ReportLimit /\ [Next]_vars
      => [Len(reminders') > Len(reminders) => ~(Counted \subseteq told)]_<<reminders, told>>
  <2> SUFFICES ASSUME LedgerInvariant, ClientTyped, part \in DOMAIN ReportLimit, [Next]_vars,
                      Len(reminders') > Len(reminders)
               PROVE  ~(Counted \subseteq told)
    OBVIOUS
  <2>1. RemindersChange
    BY RemindersStep, PromptsAssumption
  <2>2. reminders \in Seq(Reminder) /\ Len(reminders) \in Nat
    BY DEF LedgerInvariant, LedgerTyped
  <2>3. reminders' # reminders
    BY <2>2
  <2>4. ASSUME reminders # <<>>, reminders' = [reminders EXCEPT ![Len(reminders)].opened = TRUE]
        PROVE  FALSE
    BY <2>2, <2>4
  <2>5. ASSUME NEW n \in Nat, reminders' = SubSeq(reminders, n + 1, Len(reminders))
        PROVE  FALSE
    <3>1. \A k \in n + 1 .. Len(reminders) : reminders[k] \in Reminder
      BY <2>2
    <3>2. n + 1 \in Int /\ Len(reminders) \in Int
      BY <2>2
    <3>3. Len(reminders') = IF n + 1 <= Len(reminders) THEN Len(reminders) - (n + 1) + 1 ELSE 0
      BY <2>5, <3>1, <3>2, SubSeqProperties
    <3> QED BY <2>2, <3>3
  <2> QED BY <2>1, <2>3, <2>4, <2>5 DEF RemindersChange
<1> QED BY <1>1, LedgerAlways, PartStays, PTL DEF Spec, ReminderIsNews

----------------------------------------------------------------------------
(* Division.                                                                *)

LEMMA SmallMultiple ==
  ASSUME NEW D \in Nat \ {0}, NEW k \in Int, D * k < D, D * k > 0 - D
  PROVE  k = 0
<1>1. CASE k >= 1
  <2>1. D * k >= D * 1
    BY <1>1
  <2> QED BY <2>1
<1>2. CASE k <= -1
  <2>1. D * k <= D * (-1)
    BY <1>2
  <2> QED BY <2>1
<1> QED BY <1>1, <1>2

LEMMA DivMod ==
  ASSUME NEW D \in Nat \ {0}, NEW x \in Int
  PROVE  /\ x \div D \in Int /\ x % D \in 0 .. D - 1
         /\ x = D * (x \div D) + (x % D)
OBVIOUS

LEMMA ModIsUnique ==
  ASSUME NEW D \in Nat \ {0}, NEW q \in Int, NEW m \in 0 .. D - 1
  PROVE  (D * q + m) % D = m /\ (D * q + m) \div D = q
<1> DEFINE x == D * q + m
           p == x \div D
           n == x % D
<1>1. x \in Int /\ p \in Int /\ n \in 0 .. D - 1 /\ x = D * p + n /\ x = D * q + m
  BY DivMod
<1> HIDE DEF x, p, n
<1>2. D * p + n = D * q + m
  BY <1>1
<1>3. D * (p - q) = m - n
  BY <1>1, <1>2
<1>4. p - q \in Int /\ m - n < D /\ m - n > 0 - D
  BY <1>1
<1>5. p - q = 0
  BY <1>3, <1>4, SmallMultiple
<1>6. p = q
  BY <1>1, <1>5
<1>7. n = m
  BY <1>1, <1>2, <1>6
<1> QED BY <1>6, <1>7 DEF x, p, n

LEMMA ModShift ==
  ASSUME NEW D \in Nat \ {0}, NEW x \in Int, NEW r \in 0 .. D
  PROVE  (x + r) % D = IF (x % D) + r < D THEN (x % D) + r ELSE (x % D) + r - D
<1> DEFINE q == x \div D
           m == x % D
<1>1. q \in Int /\ m \in 0 .. D - 1 /\ x = D * q + m
  BY DivMod
<1> HIDE DEF q, m
<1>2. CASE m + r < D
  <2>1. x + r = D * q + (m + r) /\ m + r \in 0 .. D - 1
    BY <1>1, <1>2
  <2>2. (D * q + (m + r)) % D = m + r
    BY <1>1, <2>1, ModIsUnique
  <2>3. (x + r) % D = m + r
    BY <2>1, <2>2, Zenon
  <2> QED BY <1>2, <2>3, Zenon DEF m
<1>3. CASE ~(m + r < D)
  <2>1. D * (q + 1) = D * q + D
    BY <1>1
  <2>2. x + r = D * (q + 1) + (m + r - D) /\ m + r - D \in 0 .. D - 1 /\ q + 1 \in Int
    BY <1>1, <1>3, <2>1
  <2>3. (D * (q + 1) + (m + r - D)) % D = m + r - D
    BY <2>2, ModIsUnique
  <2>4. (x + r) % D = m + r - D
    BY <2>2, <2>3, Zenon
  <2> QED BY <1>3, <2>4, Zenon DEF m
<1> QED BY <1>2, <1>3

LEMMA FloorGrows ==
  ASSUME NEW B \in Nat \ {0}, NEW a \in Int, NEW b \in Int, a <= b
  PROVE  (a \div B) * B <= (b \div B) * B
<1> DEFINE p == a \div B
           q == b \div B
<1>1. p \in Int /\ q \in Int /\ a >= B * p /\ b < B * q + B
  BY DivMod
<1> HIDE DEF p, q
<1>2. CASE p <= q
  <2>1. p * B <= q * B
    BY <1>1, <1>2
  <2> QED BY <2>1 DEF p, q
<1>3. CASE p >= q + 1
  <2>1. B * p >= B * (q + 1)
    BY <1>1, <1>3
  <2>2. B * (q + 1) = B * q + B
    BY <1>1
  <2> QED BY <1>1, <2>1, <2>2
<1> QED BY <1>1, <1>2, <1>3

----------------------------------------------------------------------------
(* The evidence of Focus.                                                   *)

Row == [id : Nat, active : BOOLEAN, bucket : Int, hour : Int, date : Int]

\* Rows in the order of their ids are in the order of their buckets.
InOrder(rows) ==
    /\ rows \subseteq Row
    /\ \E k \in Nat : \A r \in rows : r.id <= k
    /\ \A r, s \in rows : /\ r.id = s.id => r = s
                          /\ r.id <= s.id => r.bucket <= s.bucket

\* What the evidence says is what was reported last.
EvidenceInvariant ==
    /\ InOrder(evidence)
    /\ last.active \in BOOLEAN /\ last.at \in Int /\ last.at <= now
    /\ \A r \in evidence : r.bucket <= FloorToBucket(last.at)
    /\ evidence = {} => last.active = FALSE
    /\ evidence # {} => LatestTransition(evidence).active = last.active

LEMMA OrderFacts ==
  ASSUME NEW rows, InOrder(rows)
  PROVE  /\ \A r \in rows : r.id \in Nat /\ r.bucket \in Int /\ r.active \in BOOLEAN
         /\ \A r, s \in rows : r.id = s.id => r = s
         /\ \A r, s \in rows : r.id <= s.id => r.bucket <= s.bucket
<1>1. \A r \in rows : r.id \in Nat /\ r.bucket \in Int /\ r.active \in BOOLEAN
  <2> SUFFICES ASSUME NEW r \in rows
               PROVE  r.id \in Nat /\ r.bucket \in Int /\ r.active \in BOOLEAN
    OBVIOUS
  <2>1. r \in Row
    BY DEF InOrder
  <2> QED BY <2>1 DEF Row
<1>2. /\ \A r, s \in rows : r.id = s.id => r = s
      /\ \A r, s \in rows : r.id <= s.id => r.bucket <= s.bucket
  BY DEF InOrder
<1> QED BY <1>1, <1>2

LEMMA LatestFacts ==
  ASSUME NEW rows, InOrder(rows), rows # {}
  PROVE  /\ LatestTransition(rows) \in rows
         /\ \A s \in rows : s.id <= LatestTransition(rows).id
<1> DEFINE ids == {r.id : r \in rows}
<1>1. PICK k \in Nat : \A r \in rows : r.id <= k
  BY DEF InOrder
<1>2. ids \subseteq 0 .. k /\ ids # {}
  BY <1>1 DEF InOrder, Row
<1>3. PICK m \in ids : \A n \in ids : n <= m
  BY <1>2, GreatestExists
<1>4. PICK r \in rows : r.id = m
  OBVIOUS
<1>5. \A s \in rows : s.id <= r.id
  BY <1>3, <1>4
<1>6. \A s \in rows : s.bucket < r.bucket \/ (s.bucket = r.bucket /\ s.id <= r.id)
  <2> SUFFICES ASSUME NEW s \in rows
               PROVE  s.bucket < r.bucket \/ (s.bucket = r.bucket /\ s.id <= r.id)
    OBVIOUS
  <2>1. s.id <= r.id /\ s.bucket <= r.bucket /\ s.bucket \in Int /\ r.bucket \in Int
    BY <1>5, OrderFacts
  <2> QED BY <2>1
<1> DEFINE l == LatestTransition(rows)
<1>7. l \in rows /\ \A s \in rows : s.bucket < l.bucket \/ (s.bucket = l.bucket /\ s.id <= l.id)
  BY <1>4, <1>6 DEF LatestTransition
<1> HIDE DEF l
<1>8. r.bucket = l.bucket /\ r.id <= l.id
  <2>1. l.bucket <= r.bucket /\ l.bucket \in Int /\ r.bucket \in Int
    BY <1>5, <1>7, OrderFacts
  <2>2. r.bucket < l.bucket \/ (r.bucket = l.bucket /\ r.id <= l.id)
    BY <1>7
  <2> QED BY <2>1, <2>2
<1>9. l.id = r.id
  <2>1. l.id <= r.id /\ l.id \in Nat /\ r.id \in Nat
    BY <1>5, <1>7, OrderFacts
  <2> QED BY <1>8, <2>1
<1> QED BY <1>5, <1>7, <1>9 DEF l

\* The latest row is the one with the greatest id.
LEMMA LatestIs ==
  ASSUME NEW rows, InOrder(rows), NEW r \in rows, \A s \in rows : s.id <= r.id
  PROVE  LatestTransition(rows) = r
<1>1. LatestTransition(rows) \in rows /\ r.id <= LatestTransition(rows).id /\ LatestTransition(rows).id <= r.id
  BY LatestFacts
<1> DEFINE l == LatestTransition(rows)
<1>2. l \in rows /\ l.id = r.id
  <2>1. l.id \in Nat /\ r.id \in Nat
    BY <1>1, OrderFacts
  <2> QED BY <1>1, <2>1
<1> HIDE DEF l
<1>3. l = r
  BY <1>2, OrderFacts
<1> QED BY <1>3 DEF l

\* Pruning by bucket drops the oldest rows and never the latest alone.
LEMMA PruneFacts ==
  ASSUME NEW rows, InOrder(rows), NEW cutoff \in Int
  PROVE  LET kept == PruneEvidence(rows, cutoff)
         IN  /\ InOrder(kept) /\ kept \subseteq rows
             /\ kept # {} => rows # {} /\ LatestTransition(kept) = LatestTransition(rows)
<1> DEFINE kept == PruneEvidence(rows, cutoff)
           l == LatestTransition(rows)
<1>1. kept \subseteq rows /\ InOrder(kept)
  BY DEF PruneEvidence, InOrder
<1>2. ASSUME kept # {} PROVE rows # {} /\ LatestTransition(kept) = l
  <2>1. PICK r \in kept : TRUE
    BY <1>2
  <2>2. r \in rows /\ r.bucket >= cutoff /\ rows # {}
    BY <2>1 DEF PruneEvidence
  <2>3. l \in rows /\ \A s \in rows : s.id <= l.id
    BY <2>2, LatestFacts
  <2> HIDE DEF l
  <2>4. r.bucket <= l.bucket
    BY <2>2, <2>3, OrderFacts
  <2>5. l \in kept
    BY <2>2, <2>3, <2>4, OrderFacts DEF PruneEvidence
  <2> HIDE DEF kept
  <2> QED BY <1>1, <2>2, <2>3, <2>5, LatestIs DEF l
<1> QED BY <1>1, <1>2

\* What is recorded becomes the latest row, unless it repeats it.
LEMMA RecordFacts ==
  ASSUME NEW rows, InOrder(rows), NEW active \in BOOLEAN, NEW bucket \in Int,
         NEW hour \in Int, NEW date \in Int, \A r \in rows : r.bucket <= bucket
  PROVE  LET new == RecordTransition(rows, active, bucket, hour, date)
         IN  /\ InOrder(new) /\ \A r \in new : r.bucket <= bucket
             /\ new # {} /\ LatestTransition(new).active = active
<1> DEFINE new == RecordTransition(rows, active, bucket, hour, date)
           row == [id |-> NextId(rows), active |-> active, bucket |-> bucket, hour |-> hour, date |-> date]
<1>1. CASE rows # {} /\ LatestTransition(rows).active = active
  BY <1>1 DEF RecordTransition
<1>2. CASE ~(rows # {} /\ LatestTransition(rows).active = active)
  <2>1. new = rows \cup {row}
    BY <1>2 DEF RecordTransition
  <2>2. NextId(rows) \in Nat /\ \A r \in rows : r.id < NextId(rows)
    <3>1. CASE rows = {}
      BY <3>1 DEF NextId
    <3>2. CASE rows # {}
      <4> DEFINE ids == {r.id : r \in rows}
      <4>1. PICK k \in Nat : \A r \in rows : r.id <= k
        BY DEF InOrder
      <4>2. ids \subseteq 0 .. k /\ ids # {}
        BY <3>2, <4>1 DEF InOrder, Row
      <4>3. Max(ids) \in ids /\ \A n \in ids : n <= Max(ids)
        BY <4>2, MaxFacts
      <4>4. Max(ids) \in Nat /\ \A r \in rows : r.id \in Nat /\ r.id <= Max(ids)
        BY <4>2, <4>3
      <4>5. NextId(rows) = Max(ids) + 1
        BY <3>2 DEF NextId
      <4> HIDE DEF ids
      <4> QED BY <4>4, <4>5
    <3> QED BY <3>1, <3>2
  <2>3. row \in Row /\ row.id = NextId(rows) /\ row.bucket = bucket /\ row.active = active
    BY <2>2 DEF Row
  <2> HIDE DEF row, new
  <2>4. \A r \in rows : r.id \in Nat /\ r.id < row.id /\ r.bucket <= row.bucket
    BY <2>2, <2>3 DEF InOrder, Row
  <2>5. InOrder(new)
    <3>1. new \subseteq Row
      BY <2>1, <2>3 DEF InOrder
    <3>2. row.id \in Nat /\ \A r \in new : r.id <= row.id
      BY <2>1, <2>2, <2>3, <2>4
    <3>3. \A r, s \in new : r.id = s.id => r = s
      <4> SUFFICES ASSUME NEW r \in new, NEW s \in new, r.id = s.id PROVE r = s
        OBVIOUS
      <4>1. CASE r \in rows /\ s \in rows
        BY <4>1, OrderFacts
      <4>2. CASE r = row /\ s = row
        BY <4>2
      <4>3. ASSUME NEW q \in rows PROVE q.id # row.id
        BY <2>2, <2>3, <2>4
      <4> QED BY <2>1, <4>1, <4>2, <4>3
    <3>4. \A r, s \in new : r.id <= s.id => r.bucket <= s.bucket
      <4> SUFFICES ASSUME NEW r \in new, NEW s \in new, r.id <= s.id PROVE r.bucket <= s.bucket
        OBVIOUS
      <4>1. CASE r \in rows /\ s \in rows
        BY <4>1, OrderFacts
      <4>2. CASE r = row /\ s = row
        BY <2>3, <4>2
      <4>3. CASE r \in rows /\ s = row
        BY <2>4, <4>3
      <4>4. CASE r = row /\ s \in rows
        <5>1. s.id < row.id /\ s.id \in Nat /\ row.id \in Nat
          BY <2>2, <2>3, <2>4, <4>4
        <5> QED BY <4>4, <5>1
      <4> QED BY <2>1, <4>1, <4>2, <4>3, <4>4
    <3> QED BY <3>1, <3>2, <3>3, <3>4 DEF InOrder
  <2>6. row \in new /\ \A s \in new : s.id <= row.id
    BY <2>1, <2>2, <2>3, <2>4
  <2>7. LatestTransition(new) = row
    BY <2>5, <2>6, LatestIs
  <2>8. \A r \in new : r.bucket <= bucket
    BY <2>1, <2>3, <2>4
  <2> QED BY <2>3, <2>5, <2>6, <2>7, <2>8 DEF new
<1> QED BY <1>1, <1>2

LEMMA FloorIsInt == ASSUME NEW t \in Int PROVE FloorToBucket(t) \in Int
<1>1. BucketTicks \in Nat \ {0} /\ t \div BucketTicks \in Int
  BY FocusAssumption, DivMod
<1> QED BY <1>1 DEF FloorToBucket

LEMMA FloorIsMonotone ==
  ASSUME NEW a \in Int, NEW b \in Int, a <= b
  PROVE  FloorToBucket(a) <= FloorToBucket(b)
<1>1. BucketTicks \in Nat \ {0}
  BY FocusAssumption
<1> QED BY <1>1, FloorGrows DEF FloorToBucket

LEMMA ReportKeepsEvidence ==
  ASSUME EvidenceInvariant, now \in Nat, now' = now,
         NEW active \in BOOLEAN, NEW at \in Int, at <= now, NEW o \in Int,
         ReportTransition(active, at, o)
  PROVE  EvidenceInvariant'
<1> DEFINE kept == PruneEvidence(evidence, now - EvidenceTicks)
           b == FloorToBucket(at)
<1>0. BucketTicks \in Nat \ {0} /\ HourTicks \in Nat \ {0} /\ DayTicks \in Nat \ {0} /\ EvidenceTicks \in Nat
  BY FocusAssumption
<1>1. InOrder(kept) /\ kept \subseteq evidence
  BY <1>0, PruneFacts DEF EvidenceInvariant
<1>2. b \in Int /\ FloorToBucket(last.at) \in Int /\ FloorToBucket(last.at) <= b
  BY FloorIsInt, FloorIsMonotone DEF EvidenceInvariant, ReportTransition
<1>3. LocalHour(at, o) \in Int /\ LocalDate(at, o) \in Int
  BY <1>0 DEF LocalHour, LocalDate
<1>4. \A r \in kept : r.bucket <= b
  BY <1>1, <1>2 DEF EvidenceInvariant, InOrder, Row
<1>5. /\ evidence' = RecordTransition(kept, active, b, LocalHour(at, o), LocalDate(at, o))
      /\ last' = [active |-> active, at |-> at]
  BY DEF ReportTransition
<1> HIDE DEF kept, b
<1>6. /\ InOrder(evidence') /\ \A r \in evidence' : r.bucket <= b
      /\ evidence' # {} /\ LatestTransition(evidence').active = active
  BY <1>1, <1>2, <1>3, <1>4, <1>5, RecordFacts
<1>7. last'.active = active /\ last'.at = at /\ b = FloorToBucket(last'.at)
  BY <1>5 DEF b
<1> QED BY <1>6, <1>7 DEF EvidenceInvariant, FloorToBucket

LEMMA EvidenceSaysLast ==
  ASSUME EvidenceInvariant, now \in Nat
  PROVE  FocusStateIsLastReport
<1> DEFINE rows == {r \in evidence : r.bucket <= FloorToBucket(now)}
<1>1. FloorToBucket(last.at) \in Int /\ FloorToBucket(now) \in Int
      /\ FloorToBucket(last.at) <= FloorToBucket(now)
  BY FloorIsInt, FloorIsMonotone DEF EvidenceInvariant
<1>2. rows = evidence
  BY <1>1 DEF EvidenceInvariant, InOrder, Row
<1>3. IsFocusActive(now) = (evidence # {} /\ LatestTransition(evidence).active)
  BY <1>2 DEF IsFocusActive, ActiveAtBucket
<1> HIDE DEF rows
<1>4. CASE evidence = {}
  BY <1>3, <1>4 DEF EvidenceInvariant, FocusStateIsLastReport
<1>5. CASE evidence # {}
  BY <1>3, <1>5 DEF EvidenceInvariant, FocusStateIsLastReport
<1> QED BY <1>4, <1>5

----------------------------------------------------------------------------
(* The offer of quiet hours.                                                *)

Offer == [triggered : Int, offered : Int, response : {"none", "accepted", "declined"}, responded : Int]

\* A decline is still the answer, or what was triggered since waited it out.
DeclineStands ==
    \/ offer.response = "declined" /\ offer.responded = declined
    \/ offer.triggered # None /\ offer.triggered >= declined + ReaskTicks
OfferInvariant ==
    /\ now \in Nat /\ offer \in Offer /\ offset \in Int
    /\ offer.triggered <= now /\ shown \in Int /\ shown <= now
    /\ declined # None => declined \in Nat /\ declined <= now /\ DeclineStands
    /\ DeclineIsRemembered

LEMMA NoOfferFacts == NoOffer \in Offer /\ None \in Int /\ NoOffer.triggered = None /\ None < 0
BY DEF NoOffer, Offer, None

LEMMA ShowKeeps ==
  ASSUME OfferInvariant, NEW f \in Offer, NEW o, now' = now, declined' = declined, offset' \in Int,
         \/ f = offer
         \/ f = WithTrigger(now) /\ (declined # None => now >= declined + ReaskTicks),
         ShowIfDue(f, o)
  PROVE  OfferInvariant'
<1>0. ReaskTicks \in Nat /\ None \in Int /\ None < 0
  BY FocusAssumption, NoOfferFacts
<1>1. /\ offer' = (IF OfferIsDue(f, o) THEN WithOffered(f, now) ELSE f)
      /\ shown' = (IF OfferIsDue(f, o) THEN now ELSE shown)
  BY DEF ShowIfDue
<1>2. /\ WithOffered(f, now) \in Offer /\ WithOffered(f, now).triggered = f.triggered
      /\ WithOffered(f, now).response = f.response /\ WithOffered(f, now).responded = f.responded
  BY DEF WithOffered, Offer, OfferInvariant
<1>3. /\ offer' \in Offer /\ offer'.triggered = f.triggered
      /\ offer'.response = f.response /\ offer'.responded = f.responded
  BY <1>1, <1>2
<1>4. ASSUME f # offer
      PROVE  f.triggered = now /\ f.response = "none" /\ (declined # None => now >= declined + ReaskTicks)
  BY <1>4 DEF WithTrigger, NoOffer
<1>5. f.triggered \in Int /\ f.triggered <= now /\ shown' \in Int /\ shown' <= now
  BY <1>1, <1>4 DEF OfferInvariant, Offer
<1>6. ASSUME declined # None
      PROVE  /\ declined \in Nat /\ declined <= now
             /\ \/ f.response = "declined" /\ f.responded = declined
                \/ f.triggered # None /\ f.triggered >= declined + ReaskTicks
  BY <1>0, <1>4, <1>6 DEF OfferInvariant, DeclineStands
<1>7. ASSUME OfferIsDue(f, o), declined # None PROVE now >= declined + ReaskTicks
  <2>1. f.response = "none" /\ now > f.triggered
    BY <1>7 DEF OfferIsDue
  <2> QED BY <1>0, <1>5, <1>6, <1>7, <2>1 DEF OfferInvariant
<1>8. DeclineIsRemembered'
  BY <1>1, <1>7 DEF OfferInvariant, DeclineIsRemembered
<1>9. declined # None => DeclineStands'
  BY <1>3, <1>6 DEF DeclineStands
<1>10. offer'.triggered <= now' /\ shown' <= now' /\ now' \in Nat
  BY <1>3, <1>5 DEF OfferInvariant
<1>11. declined' # None => declined' \in Nat /\ declined' <= now'
  BY <1>6
<1> QED BY <1>3, <1>5, <1>8, <1>9, <1>10, <1>11 DEF OfferInvariant

LEMMA ReportKeepsOffer ==
  ASSUME OfferInvariant, now' = now, NEW active, NEW at, NEW o \in Int, ReportTransition(active, at, o)
  PROVE  OfferInvariant'
<1> DEFINE rows == RecordTransition(PruneEvidence(evidence, now - EvidenceTicks),
                     active, FloorToBucket(at), LocalHour(at, o), LocalDate(at, o))
           f == IF Triggers(rows, o) THEN WithTrigger(now) ELSE offer
<1>1. ShowIfDue(f, o) /\ declined' = declined /\ offset' = o
  BY DEF ReportTransition, SetUtcOffset
<1> HIDE DEF rows
<1>2. CASE ~Triggers(rows, o)
  BY <1>1, <1>2, ShowKeeps DEF OfferInvariant
<1>3. CASE Triggers(rows, o)
  <2>0. ReaskTicks \in Nat /\ None \in Int
    BY FocusAssumption, NoOfferFacts
  <2>1. /\ offer.response # "accepted"
        /\ offer.response = "declined" => now >= offer.responded + ReaskTicks
        /\ offer.response = "none" => offer.triggered = None
    BY <1>3 DEF Triggers
  <2>2. ASSUME declined # None PROVE now >= declined + ReaskTicks
    <3>1. DeclineStands /\ declined \in Nat /\ offer.triggered <= now
      BY <2>2 DEF OfferInvariant
    <3>2. offer.response = "declined" /\ offer.triggered \in Int
      BY <2>1, <3>1 DEF OfferInvariant, Offer, DeclineStands
    <3> QED BY <2>0, <2>1, <3>1, <3>2 DEF DeclineStands, OfferInvariant
  <2>3. WithTrigger(now) \in Offer
    BY <2>0, NoOfferFacts DEF WithTrigger, Offer, OfferInvariant
  <2>4. f = WithTrigger(now)
    BY <1>3
  <2> QED BY <1>1, <2>2, <2>3, <2>4, ShowKeeps
<1> QED BY <1>2, <1>3

LEMMA RespondKeeps ==
  ASSUME OfferInvariant, now' = now, NEW accepted \in BOOLEAN, RespondToOffer(accepted)
  PROVE  OfferInvariant'
<1> DEFINE answer == IF accepted THEN "accepted" ELSE "declined"
<1>0. ReaskTicks \in Nat /\ None \in Int /\ None < 0
  BY FocusAssumption, NoOfferFacts
<1>1. /\ offer' = WithResponse(offer, answer, now)
      /\ declined' = (IF IsUnanswered(offer) /\ ~accepted THEN now ELSE declined)
      /\ UNCHANGED <<offset, shown>>
  BY DEF RespondToOffer
<1>2. CASE ~IsUnanswered(offer)
  <2>1. offer' = offer /\ declined' = declined
    BY <1>1, <1>2 DEF WithResponse
  <2> QED BY <1>1, <2>1 DEF OfferInvariant, DeclineStands, DeclineIsRemembered
<1>3. CASE IsUnanswered(offer)
  <2>1. offer' = [offer EXCEPT !.response = answer, !.responded = now]
    BY <1>1, <1>3 DEF WithResponse
  <2>2. /\ offer' \in Offer /\ offer'.triggered = offer.triggered
        /\ offer'.response = answer /\ offer'.responded = now
    <3>1. answer \in {"none", "accepted", "declined"} /\ offer \in Offer /\ now \in Int
      BY DEF OfferInvariant
    <3> HIDE DEF answer
    <3> QED BY <2>1, <3>1 DEF Offer
  <2>3. CASE accepted
    <3>1. declined' = declined
      BY <1>1, <2>3
    <3>2. offer.response = "none"
      BY <1>3 DEF IsUnanswered
    <3>3. declined # None => DeclineStands'
      BY <2>2, <3>1, <3>2 DEF OfferInvariant, DeclineStands
    <3>4. DeclineIsRemembered'
      BY <1>1, <3>1 DEF OfferInvariant, DeclineIsRemembered
    <3> QED BY <1>1, <2>2, <3>1, <3>3, <3>4 DEF OfferInvariant
  <2>4. CASE ~accepted
    <3>1. declined' = now
      BY <1>1, <1>3, <2>4
    <3>2. DeclineStands'
      BY <2>2, <2>4, <3>1 DEF DeclineStands
    <3>3. DeclineIsRemembered'
      BY <1>1, <3>1 DEF OfferInvariant, DeclineIsRemembered
    <3> QED BY <1>1, <2>2, <3>1, <3>2, <3>3 DEF OfferInvariant
  <2> QED BY <2>3, <2>4
<1> QED BY <1>2, <1>3

----------------------------------------------------------------------------
(* The quiet window.                                                        *)

LEMMA WindowEnds ==
  ASSUME now \in Int, offset \in Int
  PROVE  HeldUntilQuietEnds
<1>0. /\ DayTicks \in Nat \ {0}
      /\ QuietStart \in 0 .. DayTicks - 1 /\ QuietEnd \in 0 .. DayTicks - 1
  BY FocusAssumption
<1> SUFFICES ASSUME InQuietHours(now)
             PROVE  /\ QuietHoursEnd(now) > now /\ ~InQuietHours(QuietHoursEnd(now))
                    /\ \A t \in now .. (QuietHoursEnd(now) - 1) : InQuietHours(t)
  BY DEF HeldUntilQuietEnds
<1> DEFINE m == LocalMinutes(now, offset)
           left == Remaining(now, offset)
<1>1. offset # None /\ quiet /\ InsideWindow(m)
  BY DEF InQuietHours, InQuietHoursAt
<1>2. m = (now + offset) % DayTicks /\ m \in 0 .. DayTicks - 1
  BY <1>0 DEF LocalMinutes
<1>3. left = IF QuietEnd > m THEN QuietEnd - m ELSE (DayTicks - m) + QuietEnd
  BY DEF Remaining
<1>4. QuietHoursEnd(now) = now + left
  BY DEF QuietHoursEnd
<1> HIDE DEF m, left
<1>5. left \in 1 .. DayTicks
  BY <1>0, <1>2, <1>3
<1>6. ASSUME NEW r \in 0 .. DayTicks
      PROVE  LocalMinutes(now + r, offset) = IF m + r < DayTicks THEN m + r ELSE m + r - DayTicks
  <2>1. now + offset \in Int /\ (now + offset) + r = now + r + offset
    OBVIOUS
  <2>2. ((now + offset) + r) % DayTicks =
          IF ((now + offset) % DayTicks) + r < DayTicks THEN ((now + offset) % DayTicks) + r
          ELSE ((now + offset) % DayTicks) + r - DayTicks
    BY <1>0, <2>1, ModShift
  <2>3. ((now + offset) + r) % DayTicks = IF m + r < DayTicks THEN m + r ELSE m + r - DayTicks
    BY <1>2, <2>2, Zenon
  <2> QED BY <2>1, <2>3, Zenon DEF LocalMinutes
<1>7. LocalMinutes(now + left, offset) = QuietEnd
  <2>1. left \in 0 .. DayTicks
    BY <1>5
  <2>2. LocalMinutes(now + left, offset) = IF m + left < DayTicks THEN m + left ELSE m + left - DayTicks
    BY <1>6, <2>1
  <2> QED BY <1>0, <1>2, <1>3, <2>2
<1>8. ~InsideWindow(QuietEnd)
  BY <1>0 DEF InsideWindow
<1>9. ~InQuietHours(now + left)
  BY <1>7, <1>8 DEF InQuietHours, InQuietHoursAt
<1>10. ASSUME NEW t \in now .. (now + left - 1) PROVE InQuietHours(t)
  <2> DEFINE r == t - now
  <2>1. r \in 0 .. DayTicks /\ r < left /\ t = now + r
    BY <1>0, <1>5
  <2> HIDE DEF r
  <2>2. LocalMinutes(t, offset) = IF m + r < DayTicks THEN m + r ELSE m + r - DayTicks
    BY <1>6, <2>1
  <2>3. InsideWindow(LocalMinutes(t, offset))
    BY <1>0, <1>1, <1>2, <1>3, <2>1, <2>2 DEF InsideWindow
  <2> QED BY <1>1, <2>3 DEF InQuietHours, InQuietHoursAt
<1> QED BY <1>4, <1>5, <1>9, <1>10

----------------------------------------------------------------------------
(* Quiet is respected.                                                      *)

QuietInvariant == EvidenceInvariant /\ OfferInvariant

LEMMA StillKeeps ==
  ASSUME QuietInvariant, UNCHANGED fvars, now' \in Nat, now <= now'
  PROVE  QuietInvariant'
<1>1. UNCHANGED <<evidence, last, offer, offset, shown, declined>>
  BY DEF fvars
<1>2. EvidenceInvariant'
  BY <1>1 DEF QuietInvariant, EvidenceInvariant, OfferInvariant, FloorToBucket
<1>3. OfferInvariant'
  BY <1>1 DEF QuietInvariant, OfferInvariant, Offer, DeclineStands, DeclineIsRemembered
<1> QED BY <1>2, <1>3 DEF QuietInvariant

LEMMA ClearKeeps ==
  ASSUME QuietInvariant, ClearEvidence, now' = now
  PROVE  QuietInvariant'
<1>1. /\ evidence' = {} /\ offset' = None /\ offer' = NoOffer
      /\ last' = [active |-> FALSE, at |-> None] /\ declined' = None /\ shown' = shown
  BY DEF ClearEvidence
<1>2. last'.active = FALSE /\ last'.at = None
  BY <1>1
<1>3. EvidenceInvariant'
  BY <1>1, <1>2, NoOfferFacts DEF EvidenceInvariant, InOrder, QuietInvariant, OfferInvariant
<1>4. OfferInvariant'
  BY <1>1, NoOfferFacts DEF OfferInvariant, QuietInvariant, DeclineIsRemembered
<1> QED BY <1>3, <1>4 DEF QuietInvariant

LEMMA ReportKeeps ==
  ASSUME QuietInvariant, FocusReport, now' = now
  PROVE  QuietInvariant'
<1>1. PICK active \in BOOLEAN, late \in 0 .. 1, o \in Offsets : ReportTransition(active, now - late, o)
  BY DEF FocusReport
<1>2. now \in Nat /\ o \in Int /\ now - late \in Int /\ now - late <= now
  BY FocusAssumption DEF QuietInvariant, OfferInvariant
<1>3. EvidenceInvariant'
  BY <1>1, <1>2, ReportKeepsEvidence DEF QuietInvariant
<1>4. OfferInvariant'
  BY <1>1, <1>2, ReportKeepsOffer DEF QuietInvariant
<1> QED BY <1>3, <1>4 DEF QuietInvariant

LEMMA ReplyKeeps ==
  ASSUME QuietInvariant, FocusReply, now' = now
  PROVE  QuietInvariant'
<1>1. CASE ShowOffer
  <2>1. OfferInvariant'
    BY <1>1, ShowKeeps DEF ShowOffer, QuietInvariant, OfferInvariant
  <2>2. EvidenceInvariant'
    BY <1>1 DEF ShowOffer, QuietInvariant, EvidenceInvariant
  <2> QED BY <2>1, <2>2 DEF QuietInvariant
<1>2. CASE \E accepted \in BOOLEAN : RespondToOffer(accepted)
  <2>1. OfferInvariant'
    BY <1>2, RespondKeeps DEF QuietInvariant
  <2>2. EvidenceInvariant'
    BY <1>2 DEF RespondToOffer, QuietInvariant, EvidenceInvariant
  <2> QED BY <2>1, <2>2 DEF QuietInvariant
<1>3. CASE ClearEvidence
  BY <1>3, ClearKeeps
<1> QED BY <1>1, <1>2, <1>3 DEF FocusReply

LEMMA QuietStep ==
  ASSUME QuietInvariant, part \in DOMAIN Steps, [Next]_vars
  PROVE  QuietInvariant'
<1>0. now \in Nat
  BY DEF QuietInvariant, OfferInvariant
<1>1. CASE Tick
  <2>1. PICK d \in Steps[part] : now' = now + d
    BY <1>1 DEF Tick
  <2>2. d \in Nat /\ UNCHANGED fvars
    BY <1>1, PromptsAssumption DEF Tick
  <2> QED BY <1>0, <2>1, <2>2, StillKeeps
<1>2. CASE Report
  BY <1>2, ReportKeeps, ReplyKeeps DEF Report
<1>3. CASE ClearAll
  BY <1>3, ClearKeeps DEF ClearAll
<1>4. CASE Invite \/ Work \/ Prompt \/ Blocks \/ Digest \/ UNCHANGED vars
  <2>1. now' = now /\ UNCHANGED fvars
    BY <1>4 DEF Invite, Work, Prompt, Blocks, Digest, vars
  <2> QED BY <1>0, <2>1, StillKeeps
<1> QED BY <1>1, <1>2, <1>3, <1>4 DEF Next

LEMMA QuietInit ==
  ASSUME Init
  PROVE  QuietInvariant
<1>1. PICK past \in BOOLEAN : FocusInit(past)
  BY DEF Init
<1>2. /\ now = 0 /\ evidence = {} /\ offer = NoOffer /\ last = [active |-> FALSE, at |-> None]
      /\ declined = None /\ shown = None
  BY <1>1 DEF Init, FocusInit
<1>3. offset \in Int
  BY <1>1, FocusAssumption, NoOfferFacts DEF FocusInit
<1>4. last.active = FALSE /\ last.at = None
  BY <1>2
<1>5. EvidenceInvariant
  BY <1>2, <1>4, NoOfferFacts DEF EvidenceInvariant, InOrder
<1>6. OfferInvariant
  BY <1>2, <1>3, NoOfferFacts DEF OfferInvariant, DeclineIsRemembered
<1> QED BY <1>5, <1>6 DEF QuietInvariant

\* Quiet is respected (is_focus_active, evaluate_pattern_rule,
\* pending_morning_offer, quiet_hours_end): the gates read the state that was
\* reported last, a declined offer waits out the re-ask interval, and what is
\* held in quiet hours is due at their first end, for every bucket, day,
\* window, retention and set of offsets.
THEOREM QuietStaysRespected == Spec => []QuietIsRespected
<1>1. Init => QuietInvariant
  BY QuietInit
<1>2. QuietInvariant /\ part \in DOMAIN ReportLimit /\ [Next]_vars => QuietInvariant'
  BY QuietStep, PromptsAssumption
<1>3. QuietInvariant => QuietIsRespected
  BY EvidenceSaysLast, WindowEnds DEF QuietInvariant, OfferInvariant, QuietIsRespected
<1> QED BY <1>1, <1>2, <1>3, PartStays, PTL DEF Spec

----------------------------------------------------------------------------
(* The weekly digest.                                                       *)

WeekTicks == DayTicks * WeekDays
ThisWeek == LocalWeek(now, ClientOffset)

LEMMA WeekFacts == WeekTicks \in Nat \ {0} /\ ClientOffset \in Int
<1>1. ASSUME NEW a \in Nat \ {0}, NEW b \in Nat \ {0} PROVE a * b \in Nat \ {0}
  OBVIOUS
<1> QED BY <1>1, FocusAssumption, InitiationAssumption, CategoryPromptAssumption DEF WeekTicks

\* A moment is in the week from one local Monday to the next.
LEMMA InOneWeek ==
  ASSUME NEW t \in Int, NEW w \in Int
  PROVE  InWeek(t, w, ClientOffset) <=> LocalWeek(t, ClientOffset) = w
<1> DEFINE D == WeekTicks
           x == t + ClientOffset
           q == x \div D
           m == x % D
<1>1. D \in Nat \ {0} /\ x \in Int
  BY WeekFacts
<1>2. q \in Int /\ m \in 0 .. D - 1 /\ x = D * q + m
  BY <1>1, DivMod
<1>3. /\ LocalWeek(t, ClientOffset) = q
      /\ InWeek(t, w, ClientOffset) <=>
           t >= w * DayTicks * WeekDays - ClientOffset /\ t < (w + 1) * DayTicks * WeekDays - ClientOffset
  BY DEF LocalWeek, InWeek, WeekTicks
<1>4. w * DayTicks * WeekDays = D * w /\ (w + 1) * DayTicks * WeekDays = D * w + D
  <2>1. DayTicks \in Nat /\ WeekDays \in Nat
    BY FocusAssumption, InitiationAssumption
  <2>2. \A a, b \in Nat, v \in Int : v * a * b = (a * b) * v /\ (v + 1) * a * b = (a * b) * v + a * b
    OBVIOUS
  <2> QED BY <2>1, <2>2 DEF WeekTicks
<1> HIDE DEF D, q, m
<1>5. InWeek(t, w, ClientOffset) <=> x >= D * w /\ x < D * w + D
  <2>1. D * w \in Int
    BY <1>1
  <2> QED BY <1>1, <1>3, <1>4, <2>1, WeekFacts
<1>6. ASSUME x >= D * w, x < D * w + D PROVE q = w
  <2>1. D * (w - q) = D * w - D * q /\ D * w \in Int /\ D * q \in Int
    BY <1>1, <1>2
  <2>2. D * (w - q) < D /\ D * (w - q) > 0 - D /\ w - q \in Int
    BY <1>1, <1>2, <1>6, <2>1
  <2>3. w - q = 0
    BY <1>1, <2>2, SmallMultiple
  <2> QED BY <1>2, <2>3
<1>7. ASSUME q = w PROVE x >= D * w /\ x < D * w + D
  <2>1. D * w \in Int
    BY <1>1
  <2> QED BY <1>1, <1>2, <1>7, <2>1
<1> QED BY <1>3, <1>5, <1>6, <1>7

\* The clock goes from week to week.
LEMMA WeeksGrow ==
  ASSUME NEW s \in Int, NEW t \in Int, s <= t
  PROVE  /\ LocalWeek(s, ClientOffset) \in Int /\ LocalWeek(t, ClientOffset) \in Int
         /\ LocalWeek(s, ClientOffset) <= LocalWeek(t, ClientOffset)
<1> DEFINE D == WeekTicks
           p == (s + ClientOffset) \div D
           q == (t + ClientOffset) \div D
<1>1. /\ D \in Nat \ {0} /\ s + ClientOffset \in Int /\ t + ClientOffset \in Int
      /\ s + ClientOffset <= t + ClientOffset
  BY WeekFacts
<1>2. p \in Int /\ q \in Int /\ s + ClientOffset >= D * p /\ t + ClientOffset < D * q + D
  <2>1. \A x \in Int : x \div D \in Int /\ x >= D * (x \div D) /\ x < D * (x \div D) + D
    <3> SUFFICES ASSUME NEW x \in Int
                 PROVE  x \div D \in Int /\ x >= D * (x \div D) /\ x < D * (x \div D) + D
      OBVIOUS
    <3> DEFINE r == x \div D
               m == x % D
    <3>1. r \in Int /\ m \in 0 .. D - 1 /\ x = D * r + m
      BY <1>1, DivMod
    <3> HIDE DEF D, r, m
    <3>2. D * r \in Int
      BY <1>1, <3>1
    <3>3. x >= D * r /\ x < D * r + D
      BY <1>1, <3>1, <3>2
    <3> QED BY <3>1, <3>3 DEF r
  <2> HIDE DEF D
  <2> QED BY <1>1, <2>1
<1>3. LocalWeek(s, ClientOffset) = p /\ LocalWeek(t, ClientOffset) = q
  BY DEF LocalWeek, WeekTicks
<1> HIDE DEF D, p, q
<1>4. p <= q
  <2> SUFFICES ASSUME p > q PROVE FALSE
    BY <1>2
  <2>1. p - (q + 1) \in Nat
    BY <1>2
  <2>2. D * (p - (q + 1)) \in Nat /\ D * (p - (q + 1)) = D * p - (D * q + D)
    BY <1>1, <1>2, <2>1
  <2>3. D * p \in Int /\ D * q \in Int
    BY <1>1, <1>2
  <2> QED BY <1>1, <1>2, <2>2, <2>3, WeekFacts
<1> QED BY <1>2, <1>3, <1>4

Block == [started : Int, completed : BOOLEAN, recovered : BOOLEAN]
OfferRow == [at : Int, outcome : {"offered", "withheld", "was_focused"}]

ReceiptsTyped ==
    /\ now \in Nat /\ invitations \in Seq(Invitation)
    /\ blocks \in Seq(Block) /\ offers \in Seq(OfferRow)

DeclaredIn(w) == {i \in DOMAIN blocks : LocalWeek(blocks[i].started, ClientOffset) = w}
WithheldIn(w) ==
    {i \in DOMAIN offers : offers[i].outcome = "withheld" /\ LocalWeek(offers[i].at, ClientOffset) = w}
AcceptedOf(w) ==
    {i \in DOMAIN invitations :
        invitations[i].outcome = "accepted" /\ LocalWeek(invitations[i].at, ClientOffset) = w}

\* What is stored of a week that is over does not change any more.
WeeksAreOver ==
    \A w \in DOMAIN digests :
        /\ w \in Int /\ w < ThisWeek
        /\ digests[w].counts.declared = Cardinality(DeclaredIn(w))
        /\ digests[w].counts.withheld = Cardinality(WithheldIn(w))
        /\ digests[w].counts.accepted = Cardinality(AcceptedOf(w))
ReceiptsInvariant == ReceiptsTyped /\ WeeksAreOver

LEMMA ReceiptsStart == Init => ReceiptsInvariant
BY DEF Init, InitiationInit, ReceiptsInit, ReceiptsInvariant, ReceiptsTyped, WeeksAreOver

\* An invitation is answered once, and an answer is of the week it is given in.
AnsweredNow(rows) ==
    /\ rows \in Seq(Invitation) /\ DOMAIN invitations \subseteq DOMAIN rows
    /\ \A i \in DOMAIN rows :
          \/ i \in DOMAIN invitations /\ rows[i] = invitations[i]
          \/ /\ i \in DOMAIN invitations => invitations[i].outcome = "offered"
             /\ rows[i].outcome = "accepted" => rows[i].at = now

LEMMA ResolvedNow ==
  ASSUME ReceiptsTyped, NEW i \in DOMAIN invitations, NEW out \in Outcomes
  PROVE  AnsweredNow(invitations) /\ AnsweredNow(Resolve(invitations, i, out))
<1>1. AnsweredNow(invitations)
  BY DEF AnsweredNow, ReceiptsTyped
<1>2. CASE invitations[i].outcome # "offered"
  BY <1>1, <1>2 DEF Resolve
<1>3. CASE invitations[i].outcome = "offered"
  <2> DEFINE row == [invitations[i] EXCEPT !.outcome = out, !.at = now]
             rows == Resolve(invitations, i, out)
  <2>1. invitations[i] \in Invitation /\ now \in Int
    BY DEF ReceiptsTyped
  <2>2. row \in Invitation /\ row.at = now
    BY <2>1 DEF Invitation
  <2>3. rows = [invitations EXCEPT ![i] = row]
    BY <1>3, <2>1 DEF Resolve, ReceiptsTyped, Invitation
  <2> HIDE DEF row
  <2>4. rows \in Seq(Invitation) /\ DOMAIN rows = DOMAIN invitations /\ rows[i] = row
    BY <2>2, <2>3 DEF ReceiptsTyped
  <2>5. \A j \in DOMAIN rows : j # i => rows[j] = invitations[j]
    BY <2>3, <2>4 DEF ReceiptsTyped
  <2> HIDE DEF rows
  <2>6. AnsweredNow(rows)
    BY <1>3, <2>2, <2>4, <2>5 DEF AnsweredNow
  <2> QED BY <1>1, <2>6 DEF rows
<1> QED BY <1>1, <1>2, <1>3

LEMMA OpenHasLatest ==
  ASSUME ReceiptsTyped, Open # {}
  PROVE  OpenOne \in DOMAIN invitations
<1>1. Open \subseteq 0 .. Len(invitations) /\ Len(invitations) \in Nat
  BY DEF Open, ReceiptsTyped
<1>2. Max(Open) \in Open
  BY <1>1, MaxFacts
<1> QED BY <1>2 DEF Open, OpenOne

LEMMA ExpiredNow == ASSUME ReceiptsTyped PROVE AnsweredNow(Expired(invitations))
<1>1. CASE Open = {}
  BY <1>1 DEF Expired, AnsweredNow, ReceiptsTyped
<1>2. CASE Open # {}
  BY <1>2, OpenHasLatest, ResolvedNow DEF Expired, Outcomes
<1> QED BY <1>1, <1>2

LEMMA PendingNow ==
  ASSUME ReceiptsTyped, NEW o \in Int, PendingInvitation(o)
  PROVE  AnsweredNow(invitations')
<1> DEFINE settled == IF Open = {} THEN invitations
                      ELSE IF StaleOutcome = "offered" THEN invitations
                      ELSE Resolve(invitations, OpenOne, StaleOutcome)
           row == [offered |-> now, date |-> LocalDate(now, o), outcome |-> "offered", at |-> None]
           new == Append(settled, row)
<1>1. StaleOutcome \in Outcomes
  BY DEF StaleOutcome, Outcomes
<1>2. AnsweredNow(settled)
  <2>1. CASE Open = {} \/ StaleOutcome = "offered"
    BY <2>1 DEF AnsweredNow, ReceiptsTyped
  <2>2. CASE Open # {} /\ StaleOutcome # "offered"
    BY <1>1, <2>2, OpenHasLatest, ResolvedNow
  <2> QED BY <2>1, <2>2
<1>3. invitations' \in {settled, RecordInvitation(settled, o)}
  BY DEF PendingInvitation
<1> HIDE DEF settled
<1>4. AnsweredNow(new)
  <2>1. row \in Invitation /\ row.outcome = "offered"
    BY FocusAssumption DEF Invitation, Outcomes, LocalDate, None, ReceiptsTyped
  <2> HIDE DEF row
  <2>2. /\ new \in Seq(Invitation) /\ DOMAIN settled \subseteq DOMAIN new
        /\ \A i \in DOMAIN new : \/ i \in DOMAIN settled /\ new[i] = settled[i]
                                 \/ i \notin DOMAIN settled /\ new[i] = row
    BY <1>2, <2>1 DEF AnsweredNow
  <2> HIDE DEF new
  <2> QED BY <1>2, <2>1, <2>2 DEF AnsweredNow
<1>5. new = RecordInvitation(settled, o)
  BY DEF RecordInvitation
<1> QED BY <1>2, <1>3, <1>4, <1>5

LEMMA StartNow ==
  ASSUME ReceiptsTyped, NEW i \in {0} \cup DOMAIN invitations, StartBlock(i)
  PROVE  AnsweredNow(invitations')
<1>1. CASE invitations' = invitations
  BY <1>1 DEF AnsweredNow, ReceiptsTyped
<1>2. CASE i # 0 /\ Claimable(i) /\ invitations' = Resolve(invitations, i, "accepted")
  BY <1>2, ResolvedNow DEF Outcomes
<1>3. CASE invitations' = Expired(invitations)
  BY <1>3, ExpiredNow
<1> QED BY <1>1, <1>2, <1>3 DEF StartBlock, RecordBlockStarted

LEMMA InitiationNow ==
  ASSUME ReceiptsTyped, InitiationStep
  PROVE  AnsweredNow(invitations')
<1>1. CASE \E o \in Offsets : PendingInvitation(o)
  BY <1>1, PendingNow, FocusAssumption
<1>2. CASE \E i \in DOMAIN invitations : Dismiss(i)
  BY <1>2, ResolvedNow DEF Dismiss, Outcomes
<1>3. CASE \E i \in {0} \cup DOMAIN invitations : StartBlock(i)
  BY <1>3, StartNow
<1>4. CASE invitations' = invitations
  BY <1>4 DEF AnsweredNow, ReceiptsTyped
<1>5. CASE invitations' = Expired(invitations)
  BY <1>5, ExpiredNow
<1> QED BY <1>1, <1>2, <1>3, <1>4, <1>5 DEF InitiationStep, EndBlock, AccountChanges, SetEnabled

LEMMA AcceptedStay ==
  ASSUME ReceiptsTyped, AnsweredNow(invitations'), NEW w \in Int, w < ThisWeek
  PROVE  AcceptedOf(w)' = AcceptedOf(w)
BY DEF AcceptedOf, AnsweredNow, ReceiptsTyped, ThisWeek

\* A step at one moment keeps the digests of the weeks before.
LEMMA SameMoment ==
  ASSUME ReceiptsInvariant, now' = now, AnsweredNow(invitations'),
         blocks' \in Seq(Block), offers' \in Seq(OfferRow),
         \A w \in Int : w < ThisWeek => DeclaredIn(w)' = DeclaredIn(w) /\ WithheldIn(w)' = WithheldIn(w),
         \A w \in DOMAIN digests' : w \in DOMAIN digests /\ digests'[w].counts = digests[w].counts
  PROVE  ReceiptsInvariant'
<1>1. ReceiptsTyped'
  BY DEF ReceiptsInvariant, ReceiptsTyped, AnsweredNow
<1>2. ThisWeek' = ThisWeek
  BY DEF ThisWeek
<1>3. ASSUME NEW w \in DOMAIN digests'
      PROVE  /\ w \in Int /\ w < ThisWeek'
             /\ digests'[w].counts.declared = Cardinality(DeclaredIn(w)')
             /\ digests'[w].counts.withheld = Cardinality(WithheldIn(w)')
             /\ digests'[w].counts.accepted = Cardinality(AcceptedOf(w)')
  <2>1. w \in DOMAIN digests /\ digests'[w].counts = digests[w].counts
    OBVIOUS
  <2>2. w \in Int /\ w < ThisWeek
    BY <2>1 DEF ReceiptsInvariant, WeeksAreOver
  <2>3. DeclaredIn(w)' = DeclaredIn(w) /\ WithheldIn(w)' = WithheldIn(w) /\ AcceptedOf(w)' = AcceptedOf(w)
    BY <2>2, AcceptedStay DEF ReceiptsInvariant
  <2> QED BY <1>2, <2>1, <2>2, <2>3 DEF ReceiptsInvariant, WeeksAreOver
<1> QED BY <1>1, <1>3 DEF ReceiptsInvariant, WeeksAreOver

LEMMA SameRows ==
  ASSUME ReceiptsInvariant, now' = now, AnsweredNow(invitations'),
         UNCHANGED <<blocks, offers, digests>>
  PROVE  ReceiptsInvariant'
<1>1. \A w \in Int : DeclaredIn(w)' = DeclaredIn(w) /\ WithheldIn(w)' = WithheldIn(w)
  BY DEF DeclaredIn, WithheldIn
<1> QED BY <1>1, SameMoment DEF ReceiptsInvariant, ReceiptsTyped

\* Rows that are added at this moment belong to this week.
LEMMA BlocksOver ==
  ASSUME ReceiptsInvariant, part \in DOMAIN Steps, Blocks
  PROVE  ReceiptsInvariant'
<1>0. now' = now /\ now \in Int /\ ClientOffset \in Int
  BY WeekFacts DEF Blocks, ReceiptsInvariant, ReceiptsTyped
<1>1. CASE PendingInvitation(ClientOffset) /\ UNCHANGED rvars
  BY <1>0, <1>1, PendingNow, SameRows DEF ReceiptsInvariant, rvars
<1>2. ASSUME NEW i \in {0} \cup DOMAIN invitations, StartBlock(i), BlockDeclared
      PROVE  ReceiptsInvariant'
  <2> DEFINE row == [started |-> now, completed |-> FALSE, recovered |-> FALSE]
  <2>1. row \in Block /\ row.started = now
    BY <1>0 DEF Block
  <2>2. blocks' = Append(blocks, row) /\ UNCHANGED <<offers, digests>>
    BY <1>2 DEF BlockDeclared
  <2> HIDE DEF row
  <2>3. /\ blocks' \in Seq(Block) /\ DOMAIN blocks \subseteq DOMAIN blocks'
        /\ \A j \in DOMAIN blocks' : \/ j \in DOMAIN blocks /\ blocks'[j] = blocks[j]
                                     \/ j \notin DOMAIN blocks /\ blocks'[j] = row
    BY <2>1, <2>2 DEF ReceiptsInvariant, ReceiptsTyped
  <2>4. ASSUME NEW w \in Int, w < ThisWeek
        PROVE  DeclaredIn(w)' = DeclaredIn(w) /\ WithheldIn(w)' = WithheldIn(w)
    BY <2>1, <2>2, <2>3, <2>4 DEF DeclaredIn, WithheldIn, ThisWeek
  <2>5. AnsweredNow(invitations')
    BY <1>2, StartNow DEF ReceiptsInvariant
  <2> QED BY <1>0, <2>2, <2>3, <2>4, <2>5, SameMoment DEF ReceiptsInvariant, ReceiptsTyped
<1>3. ASSUME NEW completed \in BOOLEAN, NEW recovered \in BOOLEAN,
             EndBlock, BlockFinished(completed, recovered)
      PROVE  ReceiptsInvariant'
  <2> DEFINE n == Len(blocks)
             row == [blocks[n] EXCEPT !.completed = completed, !.recovered = recovered]
  <2>1. blocks \in Seq(Block) /\ n \in Nat /\ UNCHANGED <<invitations, offers, digests>>
    BY <1>3 DEF EndBlock, BlockFinished, ReceiptsInvariant, ReceiptsTyped
  <2>2. /\ blocks' \in Seq(Block) /\ DOMAIN blocks' = DOMAIN blocks
        /\ \A j \in DOMAIN blocks : blocks'[j].started = blocks[j].started
    <3>1. CASE n = 0
      <4>1. blocks' = blocks
        BY <1>3, <2>1, <3>1 DEF BlockFinished
      <4> QED BY <2>1, <4>1
    <3>2. CASE n # 0
      <4>1. n \in DOMAIN blocks /\ blocks[n] \in Block
        BY <2>1, <3>2
      <4>2. row \in Block /\ row.started = blocks[n].started
        BY <4>1 DEF Block
      <4>3. blocks' = [blocks EXCEPT ![n] = row]
        BY <1>3, <2>1, <4>1 DEF BlockFinished, Block
      <4> HIDE DEF row, n
      <4>4. blocks' \in Seq(Block) /\ DOMAIN blocks' = DOMAIN blocks
        BY <2>1, <4>1, <4>2, <4>3
      <4>5. \A j \in DOMAIN blocks : blocks'[j] = IF j = n THEN row ELSE blocks[j]
        BY <2>1, <4>1, <4>3
      <4> QED BY <4>2, <4>4, <4>5
    <3> QED BY <3>1, <3>2
  <2>3. \A w \in Int : DeclaredIn(w)' = DeclaredIn(w) /\ WithheldIn(w)' = WithheldIn(w)
    BY <2>1, <2>2 DEF DeclaredIn, WithheldIn
  <2>4. AnsweredNow(invitations')
    BY <2>1 DEF AnsweredNow, ReceiptsInvariant, ReceiptsTyped
  <2> QED BY <1>0, <2>1, <2>2, <2>3, <2>4, SameMoment DEF ReceiptsInvariant, ReceiptsTyped
<1>4. ASSUME NEW outcome \in {"offered", "withheld"}, OfferDecided(outcome), UNCHANGED ivars
      PROVE  ReceiptsInvariant'
  <2> DEFINE row == [at |-> now, outcome |-> outcome]
  <2>1. row \in OfferRow /\ row.at = now
    BY <1>0 DEF OfferRow
  <2>2. offers' = Append(offers, row) /\ UNCHANGED <<blocks, digests, invitations>>
    BY <1>4 DEF OfferDecided, ivars
  <2> HIDE DEF row
  <2>3. /\ offers' \in Seq(OfferRow) /\ DOMAIN offers \subseteq DOMAIN offers'
        /\ \A j \in DOMAIN offers' : \/ j \in DOMAIN offers /\ offers'[j] = offers[j]
                                     \/ j \notin DOMAIN offers /\ offers'[j] = row
    BY <2>1, <2>2 DEF ReceiptsInvariant, ReceiptsTyped
  <2>4. ASSUME NEW w \in Int, w < ThisWeek
        PROVE  DeclaredIn(w)' = DeclaredIn(w) /\ WithheldIn(w)' = WithheldIn(w)
    BY <2>1, <2>2, <2>3, <2>4 DEF DeclaredIn, WithheldIn, ThisWeek
  <2>5. AnsweredNow(invitations')
    BY <2>2 DEF AnsweredNow, ReceiptsInvariant, ReceiptsTyped
  <2> QED BY <1>0, <2>2, <2>3, <2>4, <2>5, SameMoment DEF ReceiptsInvariant, ReceiptsTyped
<1>5. ASSUME NEW i \in DOMAIN offers, OfferWasWrong(i), UNCHANGED ivars
      PROVE  ReceiptsInvariant'
  <2> DEFINE row == [offers[i] EXCEPT !.outcome = "was_focused"]
  <2>1. offers \in Seq(OfferRow) /\ offers[i] \in OfferRow /\ offers[i].outcome = "offered"
    BY <1>5 DEF OfferWasWrong, ReceiptsInvariant, ReceiptsTyped
  <2>2. row \in OfferRow /\ row.outcome = "was_focused"
    BY <2>1 DEF OfferRow
  <2>3. offers' = [offers EXCEPT ![i] = row] /\ UNCHANGED <<blocks, digests, invitations>>
    BY <1>5, <2>1 DEF OfferWasWrong, OfferRow, ivars
  <2> HIDE DEF row
  <2>4. /\ offers' \in Seq(OfferRow) /\ DOMAIN offers' = DOMAIN offers
        /\ \A j \in DOMAIN offers : offers'[j] = IF j = i THEN row ELSE offers[j]
    BY <2>1, <2>2, <2>3
  <2>5. \A w \in Int : DeclaredIn(w)' = DeclaredIn(w) /\ WithheldIn(w)' = WithheldIn(w)
    BY <2>1, <2>2, <2>3, <2>4 DEF DeclaredIn, WithheldIn
  <2>6. AnsweredNow(invitations')
    BY <2>3 DEF AnsweredNow, ReceiptsInvariant, ReceiptsTyped
  <2> QED BY <1>0, <2>3, <2>4, <2>5, <2>6, SameMoment DEF ReceiptsInvariant, ReceiptsTyped
<1> QED BY <1>1, <1>2, <1>3, <1>4, <1>5 DEF Blocks

\* What generate counts is what the property counts.
LEMMA CountsOfWeek ==
  ASSUME ReceiptsTyped, NEW w \in Int
  PROVE  /\ Counts(w, ClientOffset).declared = Cardinality(DeclaredIn(w))
         /\ Counts(w, ClientOffset).withheld = Cardinality(WithheldIn(w))
         /\ Counts(w, ClientOffset).accepted = Cardinality(AcceptedOf(w))
<1>1. ASSUME NEW i \in DOMAIN blocks PROVE blocks[i].started \in Int
  <2>1. blocks[i] \in Block
    BY DEF ReceiptsTyped
  <2> QED BY <2>1 DEF Block
<1>2. ASSUME NEW i \in DOMAIN offers PROVE offers[i].at \in Int
  <2>1. offers[i] \in OfferRow
    BY DEF ReceiptsTyped
  <2> QED BY <2>1 DEF OfferRow
<1>3. ASSUME NEW i \in DOMAIN invitations PROVE invitations[i].at \in Int
  <2>1. invitations[i] \in Invitation
    BY DEF ReceiptsTyped
  <2> QED BY <2>1 DEF Invitation
<1>4. StartedIn(w, ClientOffset) = DeclaredIn(w)
  BY <1>1, InOneWeek DEF StartedIn, DeclaredIn
<1>5. OffersIn(w, ClientOffset, "withheld") = WithheldIn(w)
  BY <1>2, InOneWeek DEF OffersIn, WithheldIn
<1>6. AcceptedIn(w, ClientOffset) = AcceptedOf(w)
  BY <1>3, InOneWeek DEF AcceptedIn, AcceptedOf
<1> QED BY <1>4, <1>5, <1>6 DEF Counts

\* A digest is generated for the week that has just ended.
LEMMA RequestOver ==
  ASSUME ReceiptsInvariant, RequestDigest(ClientOffset), now' = now, UNCHANGED ivars
  PROVE  ReceiptsInvariant'
<1> DEFINE o == ClientOffset
           w == LocalWeek(now, o) - 1
           counts == Counts(w, o)
           new == [counts |-> counts, acked |-> FALSE, delivered |-> FALSE]
           stored == StoreDigest(digests, w, counts)
           pruned == Pruned(stored, w)
           kept == w \in DOMAIN digests \/ IsEmpty(counts)
           rows == IF kept THEN digests ELSE pruned
           shows == w \in DOMAIN rows /\ ~rows[w].acked /\ ~GateClosed
<1>1. /\ digests' = IF shows THEN [rows EXCEPT ![w].delivered = TRUE] ELSE rows
      /\ UNCHANGED <<blocks, offers, invitations>>
  BY DEF RequestDigest, ivars
<1>2. w \in Int /\ w < ThisWeek
  BY WeeksGrow DEF ThisWeek, ReceiptsInvariant, ReceiptsTyped
<1>3. \A v \in DOMAIN rows : \/ v \in DOMAIN digests /\ rows[v] = digests[v]
                             \/ v = w /\ rows[v] = new
  <2>1. /\ DOMAIN stored = DOMAIN digests \cup {w}
        /\ \A v \in DOMAIN stored : stored[v] = IF v = w THEN new ELSE digests[v]
    BY DEF StoreDigest
  <2> HIDE DEF stored
  <2>2. \A v \in DOMAIN pruned : v \in DOMAIN stored /\ pruned[v] = stored[v]
    BY DEF Pruned
  <2> HIDE DEF pruned, new, w, kept
  <2> QED BY <2>1, <2>2
<1>4. DOMAIN digests' = DOMAIN rows /\ \A v \in DOMAIN rows : digests'[v].counts = rows[v].counts
  <2> HIDE DEF rows, w
  <2>1. CASE ~shows
    BY <1>1, <2>1
  <2>2. CASE shows
    <3> HIDE DEF shows
    <3>1. digests' = [rows EXCEPT ![w].delivered = TRUE]
      BY <1>1, <2>2
    <3> QED BY <3>1
  <2> QED BY <2>1, <2>2
<1>5. ReceiptsTyped' /\ ThisWeek' = ThisWeek
  BY <1>1 DEF ReceiptsInvariant, ReceiptsTyped, ThisWeek
<1>6. \A v : DeclaredIn(v)' = DeclaredIn(v) /\ WithheldIn(v)' = WithheldIn(v) /\ AcceptedOf(v)' = AcceptedOf(v)
  BY <1>1 DEF DeclaredIn, WithheldIn, AcceptedOf
<1>7. /\ new.counts.declared = Cardinality(DeclaredIn(w))
      /\ new.counts.withheld = Cardinality(WithheldIn(w))
      /\ new.counts.accepted = Cardinality(AcceptedOf(w))
  BY <1>2, CountsOfWeek DEF ReceiptsInvariant
<1> HIDE DEF w, new, rows
<1>8. ASSUME NEW v \in DOMAIN digests'
      PROVE  /\ v \in Int /\ v < ThisWeek'
             /\ digests'[v].counts.declared = Cardinality(DeclaredIn(v)')
             /\ digests'[v].counts.withheld = Cardinality(WithheldIn(v)')
             /\ digests'[v].counts.accepted = Cardinality(AcceptedOf(v)')
  <2>1. v \in DOMAIN rows /\ digests'[v].counts = rows[v].counts
    BY <1>4
  <2>2. CASE v \in DOMAIN digests /\ rows[v] = digests[v]
    BY <1>5, <1>6, <2>1, <2>2 DEF ReceiptsInvariant, WeeksAreOver
  <2>3. CASE v = w /\ rows[v] = new
    BY <1>2, <1>5, <1>6, <1>7, <2>1, <2>3
  <2> QED BY <1>3, <2>1, <2>2, <2>3
<1> QED BY <1>5, <1>8 DEF ReceiptsInvariant, WeeksAreOver

LEMMA ReceiptsStep ==
  ASSUME ReceiptsInvariant, part \in DOMAIN Steps, [Next]_vars
  PROVE  ReceiptsInvariant'
<1>0. AnsweredNow(invitations)
  BY DEF AnsweredNow, ReceiptsInvariant, ReceiptsTyped
<1>1. CASE Tick
  <2>1. now \in Nat /\ now' \in Nat /\ now <= now' /\ UNCHANGED <<ivars, rvars>>
    BY <1>1, PromptsAssumption DEF Tick, ReceiptsInvariant, ReceiptsTyped
  <2>2. ThisWeek \in Int /\ ThisWeek' \in Int /\ ThisWeek <= ThisWeek'
    BY <2>1, WeeksGrow DEF ThisWeek
  <2>3. ReceiptsTyped'
    BY <2>1 DEF ReceiptsInvariant, ReceiptsTyped, ivars, rvars
  <2>4. /\ digests' = digests
        /\ \A v : DeclaredIn(v)' = DeclaredIn(v) /\ WithheldIn(v)' = WithheldIn(v) /\ AcceptedOf(v)' = AcceptedOf(v)
    BY <2>1 DEF DeclaredIn, WithheldIn, AcceptedOf, ivars, rvars
  <2> QED BY <2>2, <2>3, <2>4 DEF ReceiptsInvariant, WeeksAreOver
<1>2. CASE Report \/ Prompt \/ UNCHANGED vars
  BY <1>0, <1>2, SameRows DEF Report, Prompt, ivars, rvars, vars
<1>3. CASE ClearAll
  <2>1. now' = now /\ invitations' = <<>> /\ blocks' = <<>> /\ offers' = <<>> /\ digests' = <<>>
    BY <1>3 DEF ClearAll, ClearInvitations, ClearReceipts
  <2> QED BY <2>1 DEF ReceiptsInvariant, ReceiptsTyped, WeeksAreOver
<1>4. CASE Invite
  BY <1>4, InitiationNow, SameRows DEF Invite, rvars, ReceiptsInvariant
<1>5. CASE Work
  BY <1>0, <1>5, StartNow, SameRows DEF Work, EndBlock, rvars, ReceiptsInvariant
<1>6. CASE Blocks
  BY <1>6, BlocksOver
<1>7. CASE Digest
  <2>1. now' = now /\ UNCHANGED ivars
    BY <1>7 DEF Digest
  <2>2. CASE RequestDigest(ClientOffset)
    BY <2>1, <2>2, RequestOver
  <2>3. ASSUME NEW w \in DOMAIN digests, AcknowledgeDigest(w) PROVE ReceiptsInvariant'
    <3>1. DOMAIN digests' = DOMAIN digests /\ \A v \in DOMAIN digests : digests'[v].counts = digests[v].counts
      BY <2>3 DEF AcknowledgeDigest
    <3>2. \A v \in Int : DeclaredIn(v)' = DeclaredIn(v) /\ WithheldIn(v)' = WithheldIn(v)
      BY <2>3 DEF AcknowledgeDigest, DeclaredIn, WithheldIn
    <3> QED BY <1>0, <2>1, <2>3, <3>1, <3>2, SameMoment
               DEF AcknowledgeDigest, ivars, ReceiptsInvariant, ReceiptsTyped
  <2>4. CASE ExplainTap(ClientOffset)
    BY <1>0, <2>1, <2>4, SameRows DEF ExplainTap, ivars
  <2> QED BY <1>7, <2>2, <2>3, <2>4 DEF Digest
<1> QED BY <1>1, <1>2, <1>3, <1>4, <1>5, <1>6, <1>7 DEF Next

\* A frozen digest stays true (generate, store_weekly_digest): whatever is
\* declared, decided, accepted, cleared or pruned since, the counts of each
\* week that has a digest are those of the rows that fall into it by the
\* client's local Monday, for any lengths of days and weeks, any offset, any
\* retention and any clock that does not go back.
THEOREM DigestsStayTrue == Spec => []DigestsPartitionBlocks
<1>1. Init => ReceiptsInvariant
  BY ReceiptsStart
<1>2. ReceiptsInvariant /\ part \in DOMAIN ReportLimit /\ [Next]_vars => ReceiptsInvariant'
  BY ReceiptsStep, PromptsAssumption
<1>3. ReceiptsInvariant => DigestsPartitionBlocks
  BY DEF ReceiptsInvariant, WeeksAreOver, DeclaredIn, WithheldIn, AcceptedOf, DigestsPartitionBlocks
<1> QED BY <1>1, <1>2, <1>3, PartStays, PTL DEF Spec
=============================================================================
