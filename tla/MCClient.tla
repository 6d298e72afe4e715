----------------------------- MODULE MCClient -----------------------------
(* Instance of Client for TLC: two accounts.                               *)
EXTENDS Client

CONSTANTS u1, u2

MCUsers == {u1, u2}
MCThreads == {"main", "reader", "heartbeat"}
=============================================================================
