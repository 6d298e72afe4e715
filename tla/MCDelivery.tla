---------------------------- MODULE MCDelivery ----------------------------
(***************************************************************************)
(* Small instances of Delivery: two nodes, one connection each, or two on  *)
(* the first.  With two users and one message at a time every pair of      *)
(* handlers that can meet over one row, one account or one _connMutex does *)
(* meet.                                                                   *)
(***************************************************************************)
EXTENDS Delivery, TLC

CONSTANTS n1, n2, c1, c2, c3, u1, u2, l1

MCNodeOf == [c \in Conns |-> IF c = c2 THEN n2 ELSE n1]
MCGroups == {Users}
MCLegacyOwner == [l \in Legacy |-> u1]

\* Every client keeps to one account: u1 on c1; u2 on c2, the other node, or
\* on c3, the node of u1.
HomeAccounts == [c \in Conns |-> {IF c = c1 THEN u1 ELSE u2}]

\* The client at c1 changes between the accounts, u2 may also be elsewhere.
GuestAccounts == [c \in Conns |-> IF c = c1 THEN Users ELSE {u2}]
=============================================================================
