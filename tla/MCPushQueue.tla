----------------------------- MODULE MCPushQueue -----------------------------
(* The service comes up, and its connections share the push queue: two parts *)
(* that have no state in common.                                             *)
EXTENDS PushQueue, Startup

CONSTANTS c1, c2, s, t, d1, d2

MCConns == {c1, c2}

(* The salt is version 2, checksums come with 3.  A developer's build      *)
(* whose first file has another comment, a shipped one whose first file    *)
(* has another statement, and one that reused a number.                    *)
File(name, code, comment) == [name |-> name, code |-> code, comment |-> comment]
Current == <<File("a", "A", 0), File("b", "B", 0), File("c", "C", 0)>>
Build(files, policy) == [migs |-> files, policy |-> policy]
MCBuilds ==
    {Build([Current EXCEPT ![1].comment = 1], "Refuse"),
     Build([Current EXCEPT ![1].code = "X"], "Report"),
     Build([Current EXCEPT ![1].name = "z"], "Report")}

(* A new install, one of the version before the salt with a row that is no *)
(* digest, and one that stopped between salt and checksums.                *)
Row(name) == [name |-> name, sum |-> NoSum]
MCDatabases ==
    {[applied |-> <<>>, rows |-> d1 :> "absent" @@ d2 :> "absent"],
     [applied |-> <<Row("a")>>, rows |-> d1 :> "plain" @@ d2 :> "junk"],
     [applied |-> <<Row("a"), Row("b")>>, rows |-> d1 :> "keyed" @@ d2 :> "absent"]}

Good ==
    [readable |-> TRUE, max_errors |-> 3, batch_limit |-> 50, flush_seconds |-> 60,
     positives |-> 1, poll_initial |-> 1, poll_max |-> 60,
     poll_path_is_absolute |-> TRUE, threshold_percent |-> 72]
MCEnvironments == {Good, [Good EXCEPT !.flush_seconds = 15]}

VARIABLE part
MCInit ==
    /\ part \in {"start", "push"} /\ Init /\ StartupInit
    /\ part # "start" => Recorded(db) = {}
MCNext ==
    /\ UNCHANGED part
    /\ \/ part = "start" /\ StartupNext /\ UNCHANGED vars
       \/ part = "push" /\ Next /\ UNCHANGED startupvars
mcvars == <<part, vars, startupvars>>
MCSpec ==
    /\ MCInit /\ [][MCNext]_mcvars
    /\ WF_mcvars(part = "push" /\ NotifyOne /\ UNCHANGED <<part, startupvars>>)
    /\ \A c \in Conns : WF_mcvars(part = "push" /\ OwnStep(c) /\ UNCHANGED <<part, startupvars>>)
    /\ \A i \in Instances :
          /\ WF_mcvars(part = "start" /\ StartUp(i) /\ UNCHANGED <<part, vars>>)
          /\ WF_mcvars(part = "start" /\ ServeOrStop(i) /\ UNCHANGED <<part, vars>>)
=============================================================================
