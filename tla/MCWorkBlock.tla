----------------------------- MODULE MCWorkBlock -----------------------------
(* WorkBlock for TLC. *)
EXTENDS WorkBlock
CONSTANTS c1, c2

OneConn == {c1}
TwoConns == {c1, c2}
=============================================================================
