------------------------------- MODULE Wire -------------------------------
(***************************************************************************)
(* The byte stream from a command-line client to its ChatServer:           *)
(* sendJsonFrame of main.cpp, called by three threads of the client, TCP   *)
(* in between, and the loop of ChatServer::onMessage that cuts the stream  *)
(* into lines.                                                             *)
(*                                                                         *)
(* A frame is two symbols, its text and NL: enough for send to write it in *)
(* parts and for a read to end inside it.  A line is dispatched if it is   *)
(* one text; anything else is what json::parse throws at.                  *)
(***************************************************************************)
EXTENDS Naturals, Sequences, FiniteSets, Functions

CONSTANTS
    Threads,    \* the threads of the client that call sendJsonFrame
    None        \* "no call", "nobody"

NL == [type |-> "newline"]

VARIABLES
    call,       \* the frame a thread is in sendJsonFrame with
    sendMutex,  \* holder of g_sendMutex
    left,       \* symbols of the frame that send has not yet taken
    stream,     \* symbols written and not yet read by the server
    inBuffer,   \* muduo's input Buffer of the connection
    link        \* "open" or "cut"

wireVars == <<call, sendMutex, left, stream, inBuffer, link>>

WireInit ==
    /\ call = [t \in Threads |-> None]
    /\ sendMutex = None
    /\ left = [t \in Threads |-> <<>>]
    /\ stream = <<>>
    /\ inBuffer = <<>>
    /\ link = "open"

-----------------------------------------------------------------------------
(* sendJsonFrame *)

\* Thread t comes to sendJsonFrame with a frame.
Calls(t, frame) == call' = [call EXCEPT ![t] = frame]

\* Variant: nobody waits for the mutex.
NoMutex == TRUE

MutexFree == sendMutex = None

Lock(t) ==
    /\ call[t] # None /\ sendMutex # t
    /\ MutexFree
    /\ sendMutex' = t
    /\ left' = [left EXCEPT ![t] = <<call[t], NL>>]
    /\ UNCHANGED <<call, stream, inBuffer, link>>

\* One call of send: it takes any number of the symbols left.  What is
\* written to a cut connection is lost.
SendPart(t) ==
    /\ \E k \in 1..Len(left[t]) :
         /\ left' = [left EXCEPT ![t] = SubSeq(@, k + 1, Len(@))]
         /\ stream' = IF link = "open"
                      THEN stream \o SubSeq(left[t], 1, k)
                      ELSE stream
    /\ UNCHANGED <<call, sendMutex, inBuffer, link>>

\* The lock_guard goes out of scope.
Return(t) ==
    /\ sendMutex = t /\ left[t] = <<>>
    /\ sendMutex' = None
    /\ call' = [call EXCEPT ![t] = None]
    /\ UNCHANGED <<left, stream, inBuffer, link>>

-----------------------------------------------------------------------------
(* ChatServer::onMessage *)

Eol(bytes) == {i \in DOMAIN bytes : bytes[i] = NL}

FirstEol(bytes) == CHOOSE i \in Eol(bytes) : \A j \in Eol(bytes) : i <= j

\* The lines of a sequence of symbols; what follows the last NL is none.
LinesOf(bytes) ==
    LET cut[i \in 0..Len(bytes)] ==
            IF i = 0 THEN [lines |-> <<>>, rest |-> <<>>]
            ELSE LET before == cut[i - 1]
                 IN  IF bytes[i] = NL
                     THEN [lines |-> Append(before.lines, before.rest),
                           rest |-> <<>>]
                     ELSE [before EXCEPT !.rest = Append(@, bytes[i])]
    IN  cut[Len(bytes)].lines

\* A read event: it comes when onMessage has left no whole line behind, and
\* finds any part of what has been written.
Receive ==
    /\ Eol(inBuffer) = {}
    /\ \E k \in 1..Len(stream) :
         /\ inBuffer' = inBuffer \o SubSeq(stream, 1, k)
         /\ stream' = SubSeq(stream, k + 1, Len(stream))
    /\ UNCHANGED <<call, sendMutex, left, link>>

Line == SubSeq(inBuffer, 1, FirstEol(inBuffer) - 1)

\* Variant: the whole buffer is retrieved.
NothingLeft == <<>>

\* What retrieveUntil(eol + 1) leaves in the buffer.
AfterLine == SubSeq(inBuffer, FirstEol(inBuffer) + 1, Len(inBuffer))

\* One turn of the loop: the first line leaves the buffer.
TakeLine ==
    /\ Eol(inBuffer) # {}
    /\ inBuffer' = AfterLine
    /\ UNCHANGED <<call, sendMutex, left, stream, link>>

\* json::parse accepts the line.
Parses == Len(Line) = 1

-----------------------------------------------------------------------------
\* Either end, or Nginx between them, closes; what is on the way is lost.
CutLink ==
    /\ link = "open"
    /\ link' = "cut"
    /\ stream' = <<>>
    /\ inBuffer' = <<>>
    /\ UNCHANGED <<call, sendMutex, left>>

\* The frames on the way: those the server can still see whole, then that of
\* the holder of the mutex.
OnTheWay ==
    IF link = "cut" THEN <<>>
    ELSE LinesOf(inBuffer \o stream
                 \o IF sendMutex = None THEN <<>> ELSE left[sendMutex])
=============================================================================
