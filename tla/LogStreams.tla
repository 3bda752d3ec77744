----------------------------- MODULE LogStreams ------------------------------
(***************************************************************************)
(* The log streams of DockerBackend: startContainerLogs() and              *)
(* stopContainerLogs() over the version handshake                          *)
(* (backend/docker_backend.cpp).  A follow stream has no timeout and lives *)
(* until it is stopped, so what is opened after its owner has left stays   *)
(* open.                                                                   *)
(*                                                                         *)
(* The callbacks of one container that wait for the handshake do the same  *)
(* thing; they are kept as a number.  cancel() settles a reply at once, so *)
(* a stopped stream is gone when stopContainerLogs() returns, and the      *)
(* Cancelled end it reports is ignored by the console.                     *)
(***************************************************************************)
EXTENDS DockerHandshake

CONSTANT Containers

VARIABLES
    waiting,   \* log callbacks in m_readyCallbacks, by container
    marked,    \* m_cancelledLogRequests
    streams,   \* m_logStreams: containers whose registered stream is open
    orphans    \* open streams that m_logStreams no longer knows, by container

streamVars == <<waiting, marked, streams, orphans>>

StreamsInit ==
    /\ waiting = [c \in Containers |-> 0]
    /\ marked = {}
    /\ streams = {}
    /\ orphans = [c \in Containers |-> 0]

\* Fault: a request that waits for the handshake is not marked.
MarkedAfterStopOpenOnly(cs) == marked \ (cs \cap streams)

\* m_cancelledLogRequests after stopContainerLogs() for each of cs: an open stream is
\* cancelled; anything else is marked, so that a waiting callback gives up.
MarkedAfterStop(cs) == (marked \ (cs \cap streams)) \cup (cs \ streams)

\* Fault: the mark of an earlier stop is left for the new request.
StartLogsMarked(c, stopped) ==
    /\ marked' = MarkedAfterStop(stopped)
    /\ IF negotiated
       THEN /\ streams' = (streams \ stopped) \cup {c}
            /\ UNCHANGED waiting
            /\ UNCHANGED handshakeVars
       ELSE /\ streams' = (streams \ stopped) \ {c}
            /\ waiting' = [waiting EXCEPT ![c] = @ + 1]
            /\ JoinHandshake
    /\ UNCHANGED orphans

\* startContainerLogs(c), after the caller has stopped the streams of `stopped': the old
\* stream of c is stopped too and its mark removed; then the stream is opened or queued.
StartLogs(c, stopped) ==
    /\ marked' = MarkedAfterStop(stopped) \ {c}
    /\ IF negotiated
       THEN /\ streams' = (streams \ stopped) \cup {c}
            /\ UNCHANGED waiting
            /\ UNCHANGED handshakeVars
       ELSE /\ streams' = (streams \ stopped) \ {c}
            /\ waiting' = [waiting EXCEPT ![c] = @ + 1]
            /\ JoinHandshake
    /\ UNCHANGED orphans

\* stopContainerLogs(c)
StopLogs(c) ==
    /\ marked' = MarkedAfterStop({c})
    /\ streams' = streams \ {c}
    /\ UNCHANGED <<waiting, orphans>>
    /\ UNCHANGED handshakeVars

\* The callbacks of c that open a stream when the queue is run: a mark stops only the first.
Opening(c) == IF c \in marked /\ waiting[c] > 0 THEN waiting[c] - 1 ELSE waiting[c]

\* The queue is run.  m_logStreams holds the stream opened last; the others are lost to it.
RunWaiting ==
    /\ HandshakeSucceeds
    /\ marked' = {c \in marked : waiting[c] = 0}
    /\ streams' = streams \cup {c \in Containers : Opening(c) > 0}
    /\ orphans' = [c \in Containers |->
                     LET open == Opening(c) + (IF c \in streams THEN 1 ELSE 0)
                     IN  orphans[c] + (IF open > 1 THEN open - 1 ELSE 0)]
    /\ waiting' = [c \in Containers |-> 0]

\* The handshake failed or was given up: the callbacks are dropped, their section is reported
\* as failed, and nothing is said about the streams.  Open streams go on.
DropWaiting ==
    /\ waiting' = [c \in Containers |-> 0]
    /\ UNCHANGED <<marked, streams, orphans>>

\* The finished handler of the registered stream of c.
StreamEnds(c) ==
    /\ c \in streams
    /\ streams' = streams \ {c}
    /\ UNCHANGED <<waiting, marked, orphans>>
    /\ UNCHANGED handshakeVars

\* The finished handler of a stream that was replaced: it says nothing.
OrphanEnds(c) ==
    /\ orphans[c] > 0
    /\ orphans' = [orphans EXCEPT ![c] = @ - 1]
    /\ UNCHANGED <<waiting, marked, streams>>
    /\ UNCHANGED handshakeVars

\* The bodyChunk handler of any open stream of c: the lines are read with the registered
\* stream's reader, and are lost if there is none.
LinesArrive(c) ==
    /\ c \in streams \/ orphans[c] > 0
    /\ UNCHANGED streamVars
    /\ UNCHANGED handshakeVars

StreamsTypeOK ==
    /\ HandshakeTypeOK
    /\ waiting \in [Containers -> Nat]
    /\ marked \subseteq Containers
    /\ streams \subseteq Containers
    /\ orphans \in [Containers -> Nat]
=============================================================================
