---- MODULE EventLoops ----
(***************************************************************************)
(* The ChatServer processes behind Nginx and their event-loop threads,     *)
(* which setThreadNum starts: the handlers of two connections run in two   *)
(* threads of a process, or one after the other in one.                    *)
(***************************************************************************)
CONSTANTS
    Nodes,      \* processes
    Threads,    \* event-loop threads of all of them
    NodeOf      \* the process of a thread

ASSUME EventLoopsAssumption == NodeOf \in [Threads -> Nodes]
====
