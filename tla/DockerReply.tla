----------------------------- MODULE DockerReply -----------------------------
(***************************************************************************)
(* One request to the Docker Engine over its Unix socket: the DockerReply  *)
(* that DockerClient::request() creates, starts and hands to its caller    *)
(* (backend/docker_client.cpp).  The event loop delivers the socket's and  *)
(* the timer's signals one at a time; each of them is one action here.     *)
(*                                                                         *)
(* QLocalSocket connects to a Unix socket inside connectToServer(), so the *)
(* first event may arrive while start() is still running and the caller    *)
(* holds no pointer yet.  `heard' counts the finished() signals emitted    *)
(* after the caller had the chance to connect its slot.                    *)
(*                                                                         *)
(* The bytes of the response are reduced to what the handlers branch on    *)
(* (`response'), timeouts to the name of the interval the single-shot      *)
(* timer was last started with.                                            *)
(***************************************************************************)
EXTENDS Naturals

CONSTANTS
    Calls,      \* the DockerClient entry points that may be used
    MaxChunks,  \* bound: pieces of kBodyChunkBytes in an uploaded file
    MaxReads    \* bound: readyRead signals of one reply

ReplyCalls == {"get", "follow", "history", "pull", "build"}

ASSUME CallsAssumption == Calls \subseteq ReplyCalls /\ Calls # {}
ASSUME BoundsAssumption == MaxChunks \in Nat /\ MaxReads \in Nat

VARIABLES
    call,           \* the entry point used: get/post/del, getStream, postStream, postFile
    requested,      \* DockerClient::request() has run
    socket,         \* "closed", "connecting" or "open"
    state,          \* m_state
    error,          \* m_error, by kind
    timer,          \* the interval m_timer runs with, or "off"
    headersTimeout, \* m_request.headersTimeoutMs, "off" when 0
    deferred,       \* the error a failLater() call will report, or "none"
    chunksLeft,     \* m_bodyRemaining, in chunks
    response,       \* how much of the response the parser holds
    streamStarted,  \* m_streamStarted
    emitted,        \* finished() signals emitted
    heard,          \* finished() signals the caller could receive
    reads           \* readyRead signals handled (only to bound the model)

replyVars == <<call, requested, socket, state, error, timer, headersTimeout, deferred,
          chunksLeft, response, streamStarted, emitted, heard, reads>>

States    == {"Pending", "Succeeded", "Failed", "Cancelled"}
Errors    == {"none", "unavailable", "precondition", "connection", "response",
              "engine", "timeout"}
Timers    == {"off", "request", "idle", "headers", "upload"}
Responses == {"none", "head", "ok", "refused", "malformed"}

Finished == state # "Pending"

\* getStream, postStream and postFile ask for a streaming reply.
Streaming == call # "get"

\* m_request.timeoutMs: a follow stream has none, the other streams an idle timeout.
Timeout == IF call = "follow" THEN "off" ELSE IF Streaming THEN "idle" ELSE "request"

\* The first of two intervals that is not zero.
FirstSet(a, b) == IF a # "off" THEN a ELSE b

\* succeed(), fail() and cancel(): the three ways a reply ends.
Settle(outcome, why, audible) ==
    /\ state' = outcome
    /\ error' = why
    /\ timer' = "off"
    /\ socket' = "closed"
    /\ emitted' = emitted + 1
    /\ heard' = heard + (IF audible THEN 1 ELSE 0)

Fail(why, audible) == Settle("Failed", why, audible)

\* failLater(): the failure is reported on the next event loop iteration.
FailLater(why, audible) ==
    /\ deferred' = why
    /\ UNCHANGED <<state, error, emitted, heard>>

-----------------------------------------------------------------------------

\* Fault: the timer stays off once the upload is complete.
ResponseTimerForgotten == "off"

\* The interval that takes over when the last chunk is written.
ResponseTimer == FirstSet(Timeout, headersTimeout)

\* writeNextBodyChunk() with n chunks to go; `armed' is the timer running meanwhile.
WriteChunk(n, armed, audible) ==
    \/ \* the file is shorter than announced
       /\ n > 0
       /\ Fail("connection", audible)
       /\ chunksLeft' = n
    \/ /\ chunksLeft' = IF n = 0 THEN 0 ELSE n - 1
       /\ timer' = IF chunksLeft' = 0 THEN ResponseTimer ELSE armed
       /\ socket' = "open"
       /\ UNCHANGED <<state, error, emitted, heard>>

\* onConnected(): write the request; a build uploads its context file in chunks.
OnConnected(armed, audible) ==
    \/ \* unsafe X-Registry-Auth header, or a context file that cannot be read
       /\ call \in {"pull", "build"}
       /\ FailLater("precondition", audible)
       /\ socket' = "open"
       /\ timer' = armed
       /\ UNCHANGED chunksLeft
    \/ /\ call # "build"
       /\ socket' = "open"
       /\ timer' = armed
       /\ UNCHANGED <<state, error, emitted, heard, deferred, chunksLeft>>
    \/ /\ call = "build"
       /\ \E n \in 0 .. MaxChunks : WriteChunk(n, "upload", audible)
       /\ UNCHANGED deferred

\* start(), called from DockerClient::request() with the given first-response timeout.
Start(firstResponse) ==
    \/ \* invalid endpoint, or no socket file
       /\ FailLater("unavailable", FALSE)
       /\ UNCHANGED <<socket, timer, chunksLeft>>
    \/ \* connected inside connectToServer()
       OnConnected(firstResponse, FALSE)
    \/ \* refused inside connectToServer(): onSocketError() runs at once
       /\ Fail("connection", FALSE)
       /\ UNCHANGED <<deferred, chunksLeft>>
    \/ \* the listen queue is full: the connection is retried later
       /\ socket' = "connecting"
       /\ timer' = firstResponse
       /\ UNCHANGED <<state, error, emitted, heard, deferred, chunksLeft>>

\* DockerClient::request() and the entry points around it.  headersTimeoutMs is still 0
\* when start() arms the timer; getStream() and postStream() set it afterwards.
Request ==
    /\ ~requested
    /\ requested' = TRUE
    /\ Start(FirstSet(headersTimeout, Timeout))
    /\ headersTimeout' = IF call \in {"follow", "history", "pull"} THEN "headers"
                         ELSE headersTimeout
    /\ UNCHANGED <<call, response, streamStarted, reads>>

-----------------------------------------------------------------------------

\* The timer callback of failLater().  Unlike the other handlers it does not ask
\* whether the reply has finished in the meantime.
DeferredFailure ==
    /\ deferred # "none"
    /\ deferred' = "none"
    /\ Fail(deferred, TRUE)
    /\ UNCHANGED <<call, requested, headersTimeout, chunksLeft, response, streamStarted, reads>>

\* QLocalSocket::connected after a delayed connection.
Connected ==
    /\ ~Finished
    /\ socket = "connecting"
    /\ OnConnected(timer, TRUE)
    /\ UNCHANGED <<call, requested, headersTimeout, response, streamStarted, reads>>

\* QLocalSocket::bytesWritten: the next chunk of an upload.
BytesWritten ==
    /\ ~Finished
    /\ socket = "open"
    /\ chunksLeft > 0
    /\ WriteChunk(chunksLeft, timer, TRUE)
    /\ UNCHANGED <<call, requested, headersTimeout, deferred, response, streamStarted, reads>>

\* What more of the response can hold.
Grown(r) == IF r = "none" THEN Responses ELSE Responses \ {"none"}

\* processBuffer(): a malformed or complete response ends the reply.
ProcessBuffer(r, armed) ==
    \/ r = "ok" /\ Settle("Succeeded", "none", TRUE)
    \/ r = "refused" /\ Fail("engine", TRUE)
    \/ r = "malformed" /\ Fail("response", TRUE)
    \/ /\ r \in {"none", "head"}
       /\ timer' = armed
       /\ UNCHANGED <<socket, state, error, emitted, heard>>

\* The timer after new data: a stream with an idle timeout starts it afresh.
TimerAfterData == IF Streaming THEN FirstSet(Timeout, timer) ELSE timer

\* onReadyRead(): feed the parser, announce the stream once a status code is known,
\* restart the idle timer, deliver the body, end the reply if the response is complete.
ReadyRead ==
    /\ ~Finished
    /\ socket = "open"
    /\ reads < MaxReads
    /\ reads' = reads + 1
    /\ \E r \in Grown(response) :
          /\ response' = r
          /\ streamStarted' \in IF r = "malformed" THEN {streamStarted, TRUE} ELSE {r # "none"}
          /\ ProcessBuffer(r, TimerAfterData)
    /\ UNCHANGED <<call, requested, headersTimeout, deferred, chunksLeft>>

\* A slot of streamStarted or bodyChunk cancels the stream while onReadyRead() runs.
\* After a cancel in streamStarted, onReadyRead() goes on and starts the idle timer.
CancelledWhileReading ==
    /\ ~Finished
    /\ socket = "open"
    /\ Streaming
    /\ reads < MaxReads
    /\ reads' = reads + 1
    /\ response' \in Grown(response) \ {"none"}
    /\ streamStarted' = TRUE
    /\ state' = "Cancelled"
    /\ socket' = "closed"
    /\ timer' \in IF streamStarted THEN {"off"} ELSE {"off", Timeout}
    /\ emitted' = emitted + 1
    /\ heard' = heard + 1
    /\ UNCHANGED <<call, requested, error, headersTimeout, deferred, chunksLeft>>

\* onDisconnected(): the end of the input completes the response or shows it cut short.
Disconnected ==
    /\ ~Finished
    /\ socket = "open"
    /\ \E r \in IF response = "head" THEN {"ok", "refused", "malformed"} ELSE {"malformed"} :
          /\ response' = r
          /\ ProcessBuffer(r, timer)
    /\ UNCHANGED <<call, requested, headersTimeout, deferred, chunksLeft, streamStarted, reads>>

\* Fault: a socket error is handled although the reply has finished.
SocketErrorUnguarded ==
    /\ requested
    /\ Fail("connection", TRUE)
    /\ UNCHANGED <<call, requested, headersTimeout, deferred, chunksLeft, response,
                   streamStarted, reads>>

\* onSocketError() once the reply is in the caller's hands.
SocketError ==
    /\ ~Finished
    /\ socket # "closed"
    /\ Fail("connection", TRUE)
    /\ UNCHANGED <<call, requested, headersTimeout, deferred, chunksLeft, response,
                   streamStarted, reads>>

\* onTimeout(): the single-shot timer ends a pending reply and is off afterwards.
TimedOut ==
    /\ timer # "off"
    /\ IF Finished
       THEN timer' = "off" /\ UNCHANGED <<socket, state, error, emitted, heard>>
       ELSE Fail("timeout", TRUE)
    /\ UNCHANGED <<call, requested, headersTimeout, deferred, chunksLeft, response,
                   streamStarted, reads>>

\* cancel() by the caller, from outside the reply's own signals.
Cancel ==
    /\ requested
    /\ ~Finished
    /\ Settle("Cancelled", error, TRUE)
    /\ UNCHANGED <<call, requested, headersTimeout, deferred, chunksLeft, response,
                   streamStarted, reads>>

-----------------------------------------------------------------------------

ReplyInit ==
    /\ call \in Calls
    /\ requested = FALSE
    /\ socket = "closed"
    /\ state = "Pending"
    /\ error = "none"
    /\ timer = "off"
    /\ headersTimeout = "off"
    /\ deferred = "none"
    /\ chunksLeft = 0
    /\ response = "none"
    /\ streamStarted = FALSE
    /\ emitted = 0
    /\ heard = 0
    /\ reads = 0

ReplyNext ==
    \/ Request
    \/ DeferredFailure
    \/ Connected
    \/ BytesWritten
    \/ ReadyRead
    \/ CancelledWhileReading
    \/ Disconnected
    \/ SocketError
    \/ TimedOut
    \/ Cancel

\* The event loop delivers an expired timer and a queued zero-timer; nothing obliges
\* the engine to answer, the peer to disconnect or the user to cancel.
ReplyFairness == WF_replyVars(DeferredFailure) /\ WF_replyVars(TimedOut)

ReplySpec == ReplyInit /\ [][ReplyNext]_replyVars /\ ReplyFairness

-----------------------------------------------------------------------------

ReplyTypeOK ==
    /\ call \in Calls
    /\ requested \in BOOLEAN
    /\ socket \in {"closed", "connecting", "open"}
    /\ state \in States
    /\ error \in Errors
    /\ timer \in Timers
    /\ headersTimeout \in Timers
    /\ deferred \in Errors
    /\ chunksLeft \in 0 .. MaxChunks
    /\ response \in Responses
    /\ streamStarted \in BOOLEAN
    /\ emitted \in Nat
    /\ heard \in Nat
    /\ reads \in 0 .. MaxReads

\* Once a reply has finished, no socket, timer or user event changes its verdict or emits
\* finished() again.  What may still do so is the failure that was already waiting in
\* failLater() when the reply was cancelled or timed out: it overrules the first verdict, and
\* is the last.
SecondVerdictIsDeferred ==
    [][Finished => \/ UNCHANGED <<state, error, emitted, heard>>
                   \/ /\ deferred # "none" /\ deferred' = "none"
                      /\ state' = "Failed" /\ error' = deferred
                      /\ emitted = 1 /\ emitted' = 2]_replyVars

\* "finished() is emitted exactly once when the request ends; the state is final afterwards"
\* (DockerReply, docker_client.h).
\* It does not hold: the callback of failLater() fails a reply that has been cancelled or has
\* timed out since.
FinishedOnce == emitted <= 1

\* Every request other than a followed log ends, unless the engine keeps sending for ever
\* (MaxReads bounds the pieces of data, each of which restarts the idle timer of a stream):
\* no order of chunks, responses and errors leaves the timers disarmed.
AnswerArrives ==
    (requested /\ call # "follow") ~> Finished

\* The comments of failLater() say why a failure inside start() must not be emitted there:
\* the caller connects finished() only after request() has returned, and a lost signal would
\* leave the request hanging.  So every outcome must reach the caller.
\* It does not hold: a connection refused inside connectToServer() is emitted there.
EveryOutcomeIsHeard ==
    Finished => heard > 0

\* DockerReply::Request::headersTimeoutMs and the comments in getStream() and postStream()
\* say that a streaming request whose response has not begun is given up after the short
\* first-response timeout.
\* It does not hold: the timer is armed before the short timeout is set.
FirstResponseIsFast ==
    requested /\ ~Finished /\ ~streamStarted /\ deferred = "none" /\ headersTimeout # "off"
        => timer = headersTimeout
=============================================================================
