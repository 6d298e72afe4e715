---------------------------- MODULE FrameQueue ----------------------------
(***************************************************************************)
(* What "one JSON frame per line" (public.hpp) is meant to give the two    *)
(* ends of a connection: the frames of concurrent senders are dispatched   *)
(* whole, once each and in the order in which they were sent, until the    *)
(* connection is cut.  Module Wire shows how bytes give that.              *)
(***************************************************************************)
EXTENDS Sequences, SequencesExt

CONSTANT Frames

VARIABLES
    queue,  \* frames sent and not yet dispatched
    open    \* has the connection not been cut?

Init == queue = <<>> /\ open = TRUE

\* A frame is added: it is the last one of the new queue.
Put ==
    /\ open /\ queue' # <<>>
    /\ Last(queue') \in Frames
    /\ queue' = Append(queue, Last(queue'))
    /\ UNCHANGED open

Get == queue # <<>> /\ queue' = Tail(queue) /\ UNCHANGED open

Cut == open /\ open' = FALSE /\ queue' = <<>>

Next == Put \/ Get \/ Cut

Spec == Init /\ [][Next]_<<queue, open>>
=============================================================================
