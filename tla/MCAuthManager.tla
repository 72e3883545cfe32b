---------------------------- MODULE MCAuthManager ----------------------------
(* AuthManager for TLC: the poll, whose requests a guard timeout may drop,  *)
(* and the router, which also signs in and out.  They are enough to wait    *)
(* for each other's lock; the proofs are for any set of tasks.              *)
EXTENDS AuthManager
CONSTANTS poll, router, d1, d2

MCSenders == {poll, router}
MCPollers == {poll}
MCDevices == {d1, d2}
=============================================================================
