------------------------------ MODULE Prompts ------------------------------
(***************************************************************************)
(* What speaks to the person unasked, over one clock: quiet hours and      *)
(* Focus, the invitation, the category card with its reminder, and the     *)
(* weekly digest, which obey the gates of the first and the state of the   *)
(* block.                                                                  *)
(*                                                                         *)
(* A run looks at one of them at a time, chosen at the start: the others   *)
(* then do only what the one in question depends on.  The four write      *)
(* disjoint tables, so a behaviour of all together projects onto these.    *)
(***************************************************************************)
EXTENDS Receipts

CONSTANTS
    Steps,       \* ticks the clock may advance by at once, per part
    MaxNow,      \* bound: the last tick, per part
    ReportLimit  \* bound: reported transitions, per part

ASSUME PromptsAssumption ==
    /\ DOMAIN ReportLimit \subseteq DOMAIN Steps
    /\ \A p \in DOMAIN Steps : Steps[p] \subseteq Nat

VARIABLE part

vars == <<now, part, fvars, ivars, cvars, rvars>>

Init ==
    /\ part \in DOMAIN ReportLimit
    /\ now = 0
    /\ FocusInit(part # "focus") /\ CategoryInit /\ InitiationInit /\ ReceiptsInit
    /\ part # "initiation" => history = CHOOSE h \in Histories : TRUE
    /\ part \in {"category", "receipts"} => offset = ClientOffset
    /\ part = "receipts" => ~quiet
    /\ part # "category" => ranked = CHOOSE list \in Rankings : TRUE

\* A tick is hours: what is on the connection arrives before the next one.
Tick == \E d \in Steps[part] :
    /\ toService = <<>> /\ toClient = <<>>
    /\ now + d <= MaxNow[part] /\ now' = now + d
    /\ UNCHANGED <<part, fvars, ivars, cvars, rvars>>

Report ==
    /\ \/ reports < ReportLimit[part] /\ FocusReport
       \/ part = "focus" /\ FocusReply
    /\ UNCHANGED <<now, part, ivars, cvars, rvars>>

\* ClearWorkBlockData clears the evidence, the invitations and the receipts.
ClearAll ==
    /\ part \in {"initiation", "receipts"} /\ (invitations # <<>> \/ blocks # <<>>)
    /\ ClearEvidence /\ ClearInvitations /\ ClearReceipts
    /\ UNCHANGED <<now, part, cvars>>

Invite ==
    /\ part = "initiation" /\ InitiationStep
    /\ UNCHANGED <<now, part, fvars, cvars, rvars>>

Work ==
    /\ part = "category" /\ (StartBlock(0) \/ EndBlock)
    /\ UNCHANGED <<now, part, fvars, cvars, rvars>>

Prompt ==
    /\ part = "category" /\ CategoryStep
    /\ UNCHANGED <<now, part, fvars, ivars, rvars>>

\* A block is declared, perhaps from an invitation, and ends: completed, or
\* ended before its time.
Blocks ==
    /\ part = "receipts"
    /\ \/ invitations = <<>> /\ PendingInvitation(ClientOffset) /\ UNCHANGED rvars
       \/ \E i \in {0} \cup DOMAIN invitations : StartBlock(i) /\ BlockDeclared
       \/ \E completed, recovered \in BOOLEAN : EndBlock /\ BlockFinished(completed, recovered)
       \/ live # "none" /\ UNCHANGED ivars
              /\ \E outcome \in {"offered", "withheld"} : OfferDecided(outcome)
       \/ UNCHANGED ivars /\ \E i \in DOMAIN offers : OfferWasWrong(i)
    /\ UNCHANGED <<now, part, fvars, cvars>>

Digest ==
    /\ part = "receipts"
    /\ \/ RequestDigest(ClientOffset)
       \/ \E w \in DOMAIN digests : AcknowledgeDigest(w)
       \/ ExplainTap(ClientOffset)
    /\ UNCHANGED <<now, part, fvars, ivars, cvars>>

Next == Tick \/ Report \/ ClearAll \/ Invite \/ Work \/ Prompt \/ Blocks \/ Digest

Spec == Init /\ [][Next]_vars

-----------------------------------------------------------------------------
(* Properties.                                                             *)

\* The last reported Focus state decides, a refusal of quiet hours is kept,
\* and a prompt held back in quiet hours waits until they end.
QuietIsRespected == FocusStateIsLastReport /\ DeclineIsRemembered /\ HeldUntilQuietEnds

\* Invitations keep their distance: after a refusal the next one waits out a
\* growing cooldown, and there is one on the screen at most.
InvitationsAreSpaced == BackoffHolds /\ OneOpenInvitation

\* A category that was answered is not asked about again, and one that was
\* put off is asked about less and less.
AnswersAreRespected == AnswersAreFinal /\ AnsweredStaysAway /\ ReminderBackoff
=============================================================================
