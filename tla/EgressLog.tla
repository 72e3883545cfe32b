----------------------------- MODULE EgressLog -----------------------------
(***************************************************************************)
(* What the egress ledger promises: a log of requests that only grows, in  *)
(* which every request that was sent is found, written before it left.     *)
(***************************************************************************)
EXTENDS Naturals, Sequences

CONSTANTS Requests, Times

VARIABLES log, transmitted

logvars == <<log, transmitted>>

Recorded == {log[i].request : i \in 1..Len(log)}

LogInit == log = <<>> /\ transmitted = {}

Record(r, t) ==
    /\ r \notin Recorded
    /\ log' = Append(log, [seq |-> Len(log) + 1, at |-> t, request |-> r])
    /\ UNCHANGED transmitted

Transmit(r) ==
    /\ r \in Recorded \ transmitted
    /\ transmitted' = transmitted \cup {r}
    /\ UNCHANGED log

LogNext == \E r \in Requests : Transmit(r) \/ \E t \in Times : Record(r, t)
LogSpec == LogInit /\ [][LogNext]_logvars
=============================================================================
