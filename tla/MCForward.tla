----------------------------- MODULE MCForward -----------------------------
(***************************************************************************)
(* Instance of Forward for TLC: a process with two event-loop threads and  *)
(* one with a single one, process ids that agree in their low bit, and a   *)
(* counter that goes round with every call, so that two chats are enough   *)
(* for ids to collide within a process and across processes.               *)
(***************************************************************************)
EXTENDS Forward, TLC

CONSTANTS n1, n2, t1, t2, t3

MCNodeOf == [t \in Threads |-> IF t = t3 THEN n2 ELSE n1]
MCPid == [n \in Nodes |-> IF n = n1 THEN 1 ELSE 3]
MCSymmetry == Permutations({t1, t2})
=============================================================================
