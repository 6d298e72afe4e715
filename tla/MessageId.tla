----------------------------- MODULE MessageId -----------------------------
(***************************************************************************)
(* generateMessageId of chatservice.cpp: milliseconds since 1970, ten bits *)
(* of the process id and ten bits of a counter of the process, side by     *)
(* side in a long long.                                                    *)
(*                                                                         *)
(* A call first reads the clock and then adds one to the counter, which is *)
(* atomic; calls of other threads come in between.  system_clock is the    *)
(* wall clock of the node: it stands still within a millisecond and may be *)
(* set back, so a reading is any member of Clock.  Only the low bits of    *)
(* the counter are used, which the wrap of unsigned int does not disturb,  *)
(* so seq is a natural number.  Milliseconds fit the 44 bits above the     *)
(* other two parts until the year 2248.                                    *)
(***************************************************************************)
EXTENDS EventLoops, Naturals, Sequences

CONSTANTS
    Pid,        \* getpid() of a process
    PidSize,    \* 1024: ten bits
    SeqSize,    \* 1024: ten bits
    Clock,      \* what the clocks may show
    None        \* no reading

ASSUME MessageIdAssumption ==
    /\ Pid \in [Nodes -> Nat]
    /\ PidSize \in Nat \ {0} /\ SeqSize \in Nat \ {0}
    /\ Clock \subseteq Nat
    /\ None \notin Nat

VARIABLES
    seq,    \* the counter of a process
    now,    \* local variable of a thread between its two steps, or None
    calls   \* history: [node, num, now, id] of every id made, num counting
            \* the calls of the process from 0

idVars == <<seq, now, calls>>

IdInit ==
    /\ seq = [n \in Nodes |-> 0]
    /\ now = [t \in Threads |-> None]
    /\ calls = <<>>

\* Variant: the clock is read in a coarser unit.
EncodeCoarse(reading, pid, num) ==
    (reading \div 2) * PidSize * SeqSize + (pid % PidSize) * SeqSize + (num % SeqSize)

\* (now << 20) | (pidPart << 10) | seqPart
Encode(reading, pid, num) ==
    reading * PidSize * SeqSize + (pid % PidSize) * SeqSize + (num % SeqSize)

ReadClock(t) ==
    /\ now[t] = None
    /\ \E reading \in Clock : now' = [now EXCEPT ![t] = reading]
    /\ UNCHANGED <<seq, calls>>

\* fetch_add, and the id.
TakeSeq(t) ==
    LET n == NodeOf[t]
    IN  /\ now[t] # None
        /\ seq' = [seq EXCEPT ![n] = @ + 1]
        /\ now' = [now EXCEPT ![t] = None]
        /\ calls' = Append(calls, [node |-> n, num |-> seq[n], now |-> now[t],
                                   id |-> Encode(now[t], Pid[n], seq[n])])

IdNext == \E t \in Threads : ReadClock(t) \/ TakeSeq(t)

IdSpec == IdInit /\ [][IdNext]_idVars
-----------------------------------------------------------------------------
IdTypeOK ==
    /\ seq \in [Nodes -> Nat]
    /\ now \in [Threads -> Clock \cup {None}]
    /\ calls \in Seq([node : Nodes, num : Nat, now : Clock, id : Nat])

\* What two calls with one id have in common.  Their threads read the same
\* millisecond.  In one process, at least SeqSize calls lie between them; in
\* two processes, their process ids agree in the low bits, and so do their
\* counters.
CollisionNeedsWrap ==
    \A i, j \in DOMAIN calls :
        i # j /\ calls[i].id = calls[j].id =>
            /\ calls[i].now = calls[j].now
            /\ calls[i].num % SeqSize = calls[j].num % SeqSize
            /\ IF calls[i].node = calls[j].node
               THEN \/ calls[i].num >= calls[j].num + SeqSize
                    \/ calls[j].num >= calls[i].num + SeqSize
               ELSE Pid[calls[i].node] % PidSize = Pid[calls[j].node] % PidSize

\* The strengthening: an id is what Encode makes of its call, and the calls of
\* a process are counted without gaps or repetition.
IdInv ==
    /\ IdTypeOK
    /\ \A i \in DOMAIN calls :
          /\ calls[i].id = Encode(calls[i].now, Pid[calls[i].node], calls[i].num)
          /\ calls[i].num < seq[calls[i].node]
    /\ \A i, j \in DOMAIN calls :
          i # j /\ calls[i].node = calls[j].node => calls[i].num # calls[j].num
=============================================================================
