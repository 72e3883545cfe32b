--------------------------- MODULE MCBackground ---------------------------
(* The tasks that run beside the request handlers, each on its own: they   *)
(* share the database and no row of it.                                    *)
EXTENDS Poll, Retention, EgressLedger
CONSTANTS e1, e2, r1, r2, r3, i, j

VARIABLE task   \* the task this behaviour is about

Init ==
    /\ task \in {"poll", "retention", "ledger"}
    /\ PollInit(task # "poll") /\ RetentionInit /\ LedgerInit
Next ==
    /\ UNCHANGED task
    /\ \/ task = "poll" /\ PollStep /\ UNCHANGED <<retentionvars, ledgervars>>
       \/ task = "retention" /\ RetentionStep /\ UNCHANGED <<pollvars, ledgervars>>
       \/ task = "ledger" /\ LedgerNext /\ UNCHANGED <<pollvars, retentionvars>>

vars == <<task, pollvars, retentionvars, ledgervars>>
Fairness ==
    /\ WF_vars(task = "poll" /\ PollTask /\ UNCHANGED <<task, retentionvars, ledgervars>>)
    /\ WF_vars(task = "retention" /\ RetentionTask /\ UNCHANGED <<task, pollvars, ledgervars>>)
Spec == Init /\ [][Next]_vars /\ Fairness
=============================================================================
