----------------------------- MODULE MCSession -----------------------------
(***************************************************************************)
(* Small instances of Session: two nodes, the first of them with two       *)
(* connections, so that two handlers can meet both in one _userConnMap and *)
(* across nodes.                                                           *)
(***************************************************************************)
EXTENDS Session, TLC

CONSTANTS n1, n2, c1, c2, c3

MCNodeOf == [c \in Conns |-> IF c = c3 THEN n2 ELSE n1]
MCAccounts == [c \in Conns |-> Users]
=============================================================================
