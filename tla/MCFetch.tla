------------------------------ MODULE MCFetch ------------------------------
(* A tick is half the fetch interval, which is as long as a history lives. *)
EXTENDS Fetch
MCCacheTtl == [history |-> 2, insight |-> 3, negative |-> 1]
=============================================================================
