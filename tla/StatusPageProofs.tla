--------------------------- MODULE StatusPageProofs ---------------------------
(***************************************************************************)
(* Proofs about the status page, from the socket up: a request of the      *)
(* Docker client (DockerReply), the bookkeeping of the backend for any     *)
(* sets of lists, keys and write targets and any number of watchdog        *)
(* timeouts (DockerBackend), the refresh cycle of the page over the        *)
(* backend (RefreshCycle), and the states the page shows (PageStates).     *)
(***************************************************************************)
EXTENDS PageStates, DockerReply, TLAPS

(***************************************************************************)
(* The requests: DockerReply.                                              *)
(***************************************************************************)

\* A reply that has not been started has no verdict, no socket, and nothing that could fire.
Untouched == ~requested => /\ state = "Pending" /\ socket = "closed"
                           /\ timer = "off" /\ deferred = "none"

\* Exactly the finished replies have emitted finished(); only a failure waiting in failLater()
\* may add a second emission, and the caller hears at most what is emitted.
SignalsAreCounted ==
    /\ Finished <=> emitted > 0
    /\ emitted <= IF deferred = "none" THEN 2 ELSE 1
    /\ heard <= emitted

\* A finished reply has given its socket back.
ClosedWhenFinished == Finished => socket = "closed"

ReplyInv == ReplyTypeOK /\ Untouched /\ SignalsAreCounted /\ ClosedWhenFinished

\* The types of what a verdict does not set.
OtherFieldsTyped ==
    /\ call \in Calls
    /\ headersTimeout \in Timers
    /\ chunksLeft \in 0 .. MaxChunks
    /\ response \in Responses
    /\ streamStarted \in BOOLEAN
    /\ reads \in 0 .. MaxReads

\* A reply that ends emits finished() once more.
LEMMA SettleKeepsReplyInv ==
    ASSUME ReplyInv, NEW outcome \in States \ {"Pending"}, NEW why \in Errors,
           NEW audible \in BOOLEAN, Settle(outcome, why, audible), requested',
           ~Finished \/ (deferred # "none" /\ deferred' = "none"),
           deferred' = deferred \/ deferred' = "none",
           OtherFieldsTyped'
    PROVE  ReplyInv'
<1> USE DEF ReplyInv, ReplyTypeOK, Untouched, SignalsAreCounted, ClosedWhenFinished, Settle, Finished,
            States, Errors, Timers, OtherFieldsTyped
<1>1. ReplyTypeOK'
  <2>1. emitted' \in Nat /\ heard' \in Nat
    OBVIOUS
  <2> QED
    BY <2>1
<1>2. Untouched' /\ ClosedWhenFinished'
  OBVIOUS
<1>3. SignalsAreCounted'
  OBVIOUS
<1> QED
  BY <1>1, <1>2, <1>3

\* A step that gives no verdict emits nothing, and leaves the socket to a pending reply.
LEMMA PendingKeepsReplyInv ==
    ASSUME ReplyInv, ReplyTypeOK', requested',
           UNCHANGED <<state, emitted, heard>>,
           ~Finished \/ UNCHANGED <<socket, deferred>>
    PROVE  ReplyInv'
BY DEF ReplyInv, ReplyTypeOK, Untouched, SignalsAreCounted, ClosedWhenFinished, Finished

\* Writing the request, at once or after a delayed connection, leaves the reply in order.
LEMMA WritingKeepsReplyInv ==
    ASSUME ReplyInv, ~Finished, requested', NEW armed \in Timers, NEW audible \in BOOLEAN,
           UNCHANGED <<call, response, streamStarted>>, headersTimeout' \in Timers,
           reads' \in 0 .. MaxReads,
           \/ OnConnected(armed, audible)
           \/ \E n \in 1 .. MaxChunks : WriteChunk(n, armed, audible) /\ UNCHANGED deferred
    PROVE  ReplyInv'
<1>1. /\ ReplyTypeOK /\ OtherFieldsTyped /\ FirstSet(Timeout, headersTimeout) \in Timers
      /\ "upload" \in Timers /\ {"connection", "precondition"} \subseteq Errors
  BY DEF ReplyInv, ReplyTypeOK, OtherFieldsTyped, FirstSet, Timeout, Streaming, Timers, Errors
<1>2. ASSUME NEW n \in 0 .. MaxChunks, NEW at \in Timers, WriteChunk(n, at, audible),
             UNCHANGED deferred
      PROVE  ReplyInv'
  <2>1. chunksLeft' \in 0 .. MaxChunks
    BY <1>2, BoundsAssumption DEF WriteChunk
  <2>2. OtherFieldsTyped'
    BY <1>1, <2>1 DEF OtherFieldsTyped
  <2>3. CASE Fail("connection", audible)
    BY <1>1, <1>2, <2>2, <2>3, SettleKeepsReplyInv DEF Fail, States
  <2>4. CASE /\ timer' = IF chunksLeft' = 0 THEN ResponseTimer ELSE at
             /\ socket' = "open"
             /\ UNCHANGED <<state, error, emitted, heard>>
    <3>1. timer' \in Timers
      BY <1>1, <2>4 DEF ResponseTimer
    <3>2. ReplyTypeOK'
      BY <1>1, <1>2, <2>2, <2>4, <3>1 DEF ReplyTypeOK, OtherFieldsTyped
    <3> QED
      BY <2>4, <3>2, PendingKeepsReplyInv
  <2> QED
    BY <1>2, <2>3, <2>4 DEF WriteChunk
<1>3. ASSUME FailLater("precondition", audible), socket' = "open", timer' = armed,
             UNCHANGED chunksLeft
      PROVE  ReplyInv'
  <2>1. ReplyTypeOK'
    BY <1>1, <1>3 DEF FailLater, ReplyTypeOK
  <2> QED
    BY <1>3, <2>1, PendingKeepsReplyInv DEF FailLater
<1>4. ASSUME socket' = "open", timer' = armed,
             UNCHANGED <<state, error, emitted, heard, deferred, chunksLeft>>
      PROVE  ReplyInv'
  <2>1. ReplyTypeOK'
    BY <1>1, <1>4 DEF ReplyTypeOK
  <2> QED
    BY <1>4, <2>1, PendingKeepsReplyInv
<1>5. ASSUME OnConnected(armed, audible) PROVE ReplyInv'
  BY <1>1, <1>2, <1>3, <1>4, <1>5 DEF OnConnected
<1> QED
  BY <1>2, <1>5

\* request() starts the reply.
LEMMA RequestKeepsReplyInv == ReplyInv /\ Request => ReplyInv'
<1> SUFFICES ASSUME ReplyInv, Request PROVE ReplyInv'
  OBVIOUS
<1> DEFINE first == FirstSet(headersTimeout, Timeout)
<1>1. /\ ReplyTypeOK /\ ~Finished /\ requested' /\ first \in Timers /\ FALSE \in BOOLEAN
      /\ UNCHANGED <<call, response, streamStarted>> /\ headersTimeout' \in Timers
      /\ reads' \in 0 .. MaxReads /\ "connecting" \in {"closed", "connecting", "open"}
  BY DEF ReplyInv, Untouched, Finished, Request, ReplyTypeOK, FirstSet, Timeout, Streaming, Timers
<1>2. CASE FailLater("unavailable", FALSE) /\ UNCHANGED <<socket, timer, chunksLeft>>
  <2>1. ReplyTypeOK'
    BY <1>1, <1>2 DEF FailLater, ReplyTypeOK, Errors
  <2> QED
    BY <1>1, <1>2, <2>1, PendingKeepsReplyInv DEF FailLater
<1>3. CASE OnConnected(first, FALSE)
  BY <1>1, <1>3, WritingKeepsReplyInv
<1>4. CASE Fail("connection", FALSE) /\ UNCHANGED <<deferred, chunksLeft>>
  <2>1. OtherFieldsTyped'
    BY <1>1, <1>4 DEF OtherFieldsTyped, ReplyTypeOK
  <2> QED
    BY <1>1, <1>4, <2>1, SettleKeepsReplyInv DEF Fail, States, Errors
<1>5. CASE /\ socket' = "connecting"
           /\ timer' = first
           /\ UNCHANGED <<state, error, emitted, heard, deferred, chunksLeft>>
  <2>1. ReplyTypeOK'
    BY <1>1, <1>5 DEF ReplyTypeOK
  <2> QED
    BY <1>1, <1>5, <2>1, PendingKeepsReplyInv
<1> QED
  BY <1>2, <1>3, <1>4, <1>5 DEF Request, Start

\* The slots that read the response.
LEMMA ReadingKeepsReplyInv ==
    ReplyInv /\ (ReadyRead \/ CancelledWhileReading \/ Disconnected) => ReplyInv'
<1> SUFFICES ASSUME ReplyInv, ReadyRead \/ CancelledWhileReading \/ Disconnected PROVE ReplyInv'
  OBVIOUS
<1>1. /\ ReplyTypeOK /\ ~Finished /\ requested' /\ UNCHANGED <<call, headersTimeout, deferred, chunksLeft>>
      /\ Timeout \in Timers /\ TimerAfterData \in Timers
  BY DEF ReplyInv, ReplyTypeOK, Untouched, ReadyRead, CancelledWhileReading, Disconnected, Timeout,
         TimerAfterData, FirstSet, Timers
<1>2. OtherFieldsTyped'
  <2>1. reads' \in 0 .. MaxReads
    <3>1. reads' = reads \/ (reads < MaxReads /\ reads' = reads + 1)
      BY Zenon DEF ReadyRead, CancelledWhileReading, Disconnected
    <3> QED
      BY <1>1, <3>1, BoundsAssumption DEF ReplyTypeOK
  <2>2. response' \in Responses
    <3>1. \E r \in Responses : response' = r
      BY Zenon DEF ReadyRead, CancelledWhileReading, Disconnected, Grown, Responses
    <3> QED
      BY <3>1
  <2>3. streamStarted' \in BOOLEAN
    <3>1. streamStarted \in BOOLEAN
      BY <1>1 DEF ReplyTypeOK
    <3>2. CASE ReadyRead
      <4>1. \E r : streamStarted' \in IF r = "malformed" THEN {streamStarted, TRUE} ELSE {r # "none"}
        BY <3>2 DEF ReadyRead
      <4> QED
        BY <3>1, <4>1
    <3> QED
      BY <3>1, <3>2 DEF CancelledWhileReading, Disconnected
  <2> QED
    BY <1>1, <2>1, <2>2, <2>3 DEF OtherFieldsTyped, ReplyTypeOK
<1>3. ASSUME NEW r \in Responses, NEW armed \in Timers, ProcessBuffer(r, armed)
      PROVE  ReplyInv'
  <2>1. CASE r \in {"ok", "refused", "malformed"}
    <3>1. PICK outcome \in States \ {"Pending"}, why \in Errors : Settle(outcome, why, TRUE)
      BY <1>3, <2>1 DEF ProcessBuffer, Fail, States, Errors
    <3> QED
      BY <1>1, <1>2, <3>1, SettleKeepsReplyInv
  <2>2. CASE timer' = armed /\ UNCHANGED <<socket, state, error, emitted, heard>>
    <3>1. ReplyTypeOK'
      BY <1>1, <1>2, <2>2 DEF ReplyTypeOK, OtherFieldsTyped
    <3> QED
      BY <1>1, <2>2, <3>1, PendingKeepsReplyInv
  <2> QED
    BY <1>3, <2>1, <2>2 DEF ProcessBuffer
<1>4. CASE ReadyRead
  BY <1>1, <1>3, <1>4 DEF ReadyRead, Grown
<1>5. CASE Disconnected
  BY <1>1, <1>3, <1>5 DEF Disconnected, Responses, ReplyTypeOK
<1>6. CASE CancelledWhileReading
  <2>1. /\ state' = "Cancelled" /\ socket' = "closed" /\ timer' \in Timers
        /\ emitted' = emitted + 1 /\ heard' = heard + 1 /\ UNCHANGED error
    BY <1>1, <1>6 DEF CancelledWhileReading, Timers
  <2>2. emitted' \in Nat /\ heard' \in Nat /\ state' \in States /\ emitted = 0
    BY <1>1, <2>1 DEF ReplyTypeOK, States, ReplyInv, SignalsAreCounted
  <2>3. ReplyTypeOK'
    BY <1>1, <1>2, <2>1, <2>2 DEF ReplyTypeOK, OtherFieldsTyped
  <2>4. SignalsAreCounted'
    BY <1>1, <2>1, <2>2 DEF ReplyInv, ReplyTypeOK, SignalsAreCounted, Finished
  <2> QED
    BY <1>1, <2>1, <2>3, <2>4 DEF ReplyInv, Untouched, ClosedWhenFinished
<1> QED
  BY <1>4, <1>5, <1>6

LEMMA ReplyInvStep == ReplyInv /\ [ReplyNext]_replyVars => ReplyInv'
<1> SUFFICES ASSUME ReplyInv, [ReplyNext]_replyVars PROVE ReplyInv'
  OBVIOUS
<1>1. ReplyTypeOK /\ (~requested => ~Finished /\ socket = "closed" /\ timer = "off" /\ deferred = "none")
  BY DEF ReplyInv, Untouched, Finished
<1>2. CASE Request
  BY <1>2, RequestKeepsReplyInv
<1>3. CASE DeferredFailure
  <2>1. requested' /\ OtherFieldsTyped' /\ Settle("Failed", deferred, TRUE) /\ deferred \in Errors
    BY <1>1, <1>3 DEF DeferredFailure, Fail, OtherFieldsTyped, ReplyTypeOK
  <2> QED
    BY <1>3, <2>1, SettleKeepsReplyInv DEF DeferredFailure, States
<1>4. CASE Connected
  <2>1. requested' /\ timer \in Timers /\ headersTimeout' \in Timers /\ reads' \in 0 .. MaxReads
    BY <1>1, <1>4 DEF Connected, ReplyTypeOK
  <2> QED
    BY <1>4, <2>1, WritingKeepsReplyInv DEF Connected
<1>5. CASE BytesWritten
  <2>1. /\ requested' /\ timer \in Timers /\ headersTimeout' \in Timers /\ reads' \in 0 .. MaxReads
        /\ chunksLeft \in 1 .. MaxChunks
    BY <1>1, <1>5, BoundsAssumption DEF BytesWritten, ReplyTypeOK
  <2> QED
    BY <1>5, <2>1, WritingKeepsReplyInv DEF BytesWritten
<1>6. CASE ReadyRead \/ CancelledWhileReading \/ Disconnected
  BY <1>6, ReadingKeepsReplyInv
<1>7. CASE SocketError \/ Cancel
  <2>1. /\ requested' /\ OtherFieldsTyped' /\ ~Finished /\ UNCHANGED deferred
        /\ \E outcome \in States \ {"Pending"}, why \in Errors : Settle(outcome, why, TRUE)
    BY <1>1, <1>7 DEF SocketError, Cancel, Fail, OtherFieldsTyped, ReplyTypeOK, States, Errors
  <2> QED
    BY <2>1, SettleKeepsReplyInv
<1>8. CASE TimedOut
  <2>1. requested' /\ UNCHANGED deferred
    BY <1>1, <1>8 DEF TimedOut
  <2>2. CASE Finished
    <3>1. timer' = "off" /\ UNCHANGED <<socket, state, error, emitted, heard>>
      BY <1>8, <2>2 DEF TimedOut
    <3>2. ReplyTypeOK'
      BY <1>1, <1>8, <3>1 DEF TimedOut, ReplyTypeOK, Timers
    <3> QED
      BY <2>1, <3>1, <3>2, PendingKeepsReplyInv
  <2>3. CASE ~Finished
    <3>1. OtherFieldsTyped' /\ Settle("Failed", "timeout", TRUE)
      BY <1>1, <1>8, <2>3 DEF TimedOut, Fail, OtherFieldsTyped, ReplyTypeOK
    <3> QED
      BY <2>1, <2>3, <3>1, SettleKeepsReplyInv DEF States, Errors
  <2> QED
    BY <2>2, <2>3
<1>9. CASE UNCHANGED replyVars
  BY <1>9 DEF replyVars, ReplyInv, ReplyTypeOK, Untouched, SignalsAreCounted, ClosedWhenFinished, Finished
<1> QED
  BY <1>2, <1>3, <1>4, <1>5, <1>6, <1>7, <1>8, <1>9 DEF ReplyNext

\* A reply never emits finished() more than twice, and the second time only for a failure that
\* was already waiting in failLater(); a finished one holds no socket.
THEOREM RepliesAreInOrder == ReplySpec => []ReplyInv
<1>1. ReplyInit => ReplyInv
  <2> USE DEF ReplyInit
  <2>1. ReplyInit => chunksLeft \in 0 .. MaxChunks /\ reads \in 0 .. MaxReads
    BY BoundsAssumption
  <2>2. ReplyInit => requested \in BOOLEAN /\ streamStarted \in BOOLEAN
    BY Zenon
  <2>3. ReplyInit => ReplyTypeOK
    BY <2>1, <2>2 DEF ReplyTypeOK, States, Errors, Timers, Responses
  <2> QED
    BY <2>3 DEF ReplyInv, Untouched, SignalsAreCounted, ClosedWhenFinished, Finished
<1> QED
  BY <1>1, ReplyInvStep, PTL DEF ReplySpec

\* A reply that has ended keeps its verdict, whatever the socket, the timer or the user still
\* do, but for one failure that was already waiting in failLater().
THEOREM VerdictsAreFinal == ReplySpec => SecondVerdictIsDeferred
<1> DEFINE Kept == UNCHANGED <<state, error, emitted, heard>>
           Overruled == /\ deferred # "none" /\ deferred' = "none"
                        /\ state' = "Failed" /\ error' = deferred
                        /\ emitted = 1 /\ emitted' = 2
<1>1. ReplyInv /\ [ReplyNext]_replyVars => [Finished => Kept \/ Overruled]_replyVars
  <2> SUFFICES ASSUME ReplyInv, ReplyNext, Finished
               PROVE  Kept \/ Overruled
    OBVIOUS
  <2>1. requested
    BY DEF ReplyInv, Untouched, Finished
  <2>2. CASE DeferredFailure
    <3>1. emitted = 1
      BY <2>2 DEF DeferredFailure, ReplyInv, ReplyTypeOK, SignalsAreCounted
    <3> QED
      BY <2>2, <3>1 DEF DeferredFailure, Fail, Settle
  <2>3. CASE ~DeferredFailure
    BY <2>1, <2>3 DEF ReplyNext, Request, Connected, BytesWritten, ReadyRead,
       CancelledWhileReading, Disconnected, SocketError, TimedOut, Cancel
  <2> QED
    BY <2>2, <2>3
<1> QED
  BY <1>1, RepliesAreInOrder, PTL DEF ReplySpec, SecondVerdictIsDeferred

(***************************************************************************)
(* The backend: DockerBackend.                                             *)
(***************************************************************************)

USE DEF Steps, Auth

\* withApiVersion() and runMutation() add exactly one entry for the request, to the queue
\* or to the wire, and leave a handshake running when it is the queue.
LEMMA SubmitAddsOne ==
    ASSUME TypeOK, NEW r \in Requests, Submit(r)
    PROVE  /\ HandshakeTypeOK'
           /\ queued' \in [Requests -> Nat]
           /\ wire' \in [Requests -> Nat]
           /\ Outstanding(r)' = Outstanding(r) + 1
           /\ \A q \in Requests \ {r} : queued'[q] = queued[q] /\ wire'[q] = wire[q]
<1> USE DEF TypeOK, HandshakeTypeOK, Outstanding
<1>1. CASE negotiated /\ wire' = [wire EXCEPT ![r] = @ + 1] /\ UNCHANGED queued
           /\ UNCHANGED handshakeVars
  BY <1>1 DEF handshakeVars
<1>2. CASE ~negotiated /\ queued' = [queued EXCEPT ![r] = @ + 1] /\ UNCHANGED wire
           /\ JoinHandshake
  <2>1. HandshakeTypeOK'
    BY <1>2 DEF JoinHandshake, StartPing
  <2> QED
    BY <1>2, <2>1
<1> QED
  BY <1>1, <1>2 DEF Submit

\* refreshAll() adds one entry for each list and key that it sets, on one side only.
LEMMA RefreshAllAdds ==
    ASSUME TypeOK, NEW ds \in SUBSET Details, RefreshAll(ds)
    PROVE  /\ HandshakeTypeOK'
           /\ queued' \in [Requests -> Nat]
           /\ wire' \in [Requests -> Nat]
           /\ \A l \in FastLists \ busy : Outstanding(l)' > 0
           /\ \A q \in Requests : Outstanding(q)' >= Outstanding(q)
           /\ \A t \in Targets : Outstanding(t)' = Outstanding(t)
<1> USE RequestsAssumption DEF Keys, Requests, Outstanding
<1> DEFINE asked == (FastLists \ busy) \cup (ds \ keys)
           With(bag) == [r \in Requests |-> bag[r] + (IF r \in asked THEN 1 ELSE 0)]
<1>1. HandshakeTypeOK'
  <2>1. CASE UNCHANGED handshakeVars
    BY <2>1 DEF TypeOK, HandshakeTypeOK, handshakeVars
  <2>2. CASE RefreshEngineInfo
    BY <2>2 DEF TypeOK, HandshakeTypeOK, RefreshEngineInfo, StartPing
  <2> QED
    BY <2>1, <2>2 DEF RefreshAll
<1>2. ASSUME NEW bag \in [Requests -> Nat]
      PROVE  /\ With(bag) \in [Requests -> Nat]
             /\ \A l \in FastLists \ busy : With(bag)[l] = bag[l] + 1
             /\ \A q \in Requests : With(bag)[q] >= bag[q]
             /\ \A t \in Targets : With(bag)[t] = bag[t]
  OBVIOUS
<1>3. \/ wire' = With(wire) /\ queued' = queued
      \/ queued' = With(queued) /\ wire' = wire
  BY DEF RefreshAll
<1>4. wire \in [Requests -> Nat] /\ queued \in [Requests -> Nat]
  BY DEF TypeOK
<1> HIDE DEF With, asked
<1>5. CASE wire' = With(wire) /\ queued' = queued
  <2>1. /\ wire' \in [Requests -> Nat]
        /\ \A l \in FastLists \ busy : wire'[l] = wire[l] + 1
        /\ \A q \in Requests : wire'[q] >= wire[q]
        /\ \A t \in Targets : wire'[t] = wire[t]
    BY <1>2, <1>4, <1>5
  <2> QED
    BY <1>1, <1>4, <1>5, <2>1
<1>6. CASE queued' = With(queued) /\ wire' = wire
  <2>1. /\ queued' \in [Requests -> Nat]
        /\ \A l \in FastLists \ busy : queued'[l] = queued[l] + 1
        /\ \A q \in Requests : queued'[q] >= queued[q]
        /\ \A t \in Targets : queued'[t] = queued[t]
    BY <1>2, <1>4, <1>6
  <2> QED
    BY <1>1, <1>4, <1>6, <2>1
<1> QED
  BY <1>3, <1>5, <1>6

\* A finished reply is taken off the wire and nothing else moves.
LEMMA SettledTakesOne ==
    ASSUME TypeOK, NEW r \in Requests, Settled(r)
    PROVE  /\ queued' = queued
           /\ wire' \in [Requests -> Nat]
           /\ wire[r] = wire'[r] + 1
           /\ \A q \in Requests \ {r} : wire'[q] = wire[q]
  BY DEF TypeOK, Settled

\* A successful handshake puts every queued entry on the wire.
LEMMA FlushRunTypes ==
    ASSUME TypeOK, FlushRun
    PROVE  /\ queued' \in [Requests -> Nat]
           /\ wire' \in [Requests -> Nat]
           /\ answered' = answered
           /\ busy' = busy
           /\ \A q \in Requests : queued'[q] = 0 /\ wire'[q] = Outstanding(q)
<1>1. \A q \in Requests : wire[q] \in Nat /\ queued[q] \in Nat
  BY DEF TypeOK
<1>2. wire' = [q \in Requests |-> wire[q] + queued[q]] /\ queued' = [q \in Requests |-> 0]
  BY DEF FlushRun
<1>3. wire' \in [Requests -> Nat] /\ queued' \in [Requests -> Nat]
  BY <1>1, <1>2
<1> QED
  BY <1>1, <1>2, <1>3 DEF FlushRun, Outstanding

\* A failed handshake answers every queued write and forgets every queued entry.
LEMMA FlushFailTypes ==
    ASSUME TypeOK, NEW flagged \in SUBSET Lists, FlushFail(flagged)
    PROVE  /\ queued' \in [Requests -> Nat]
           /\ wire' = wire
           /\ answered' \in [Targets -> Nat]
           /\ busy' = {l \in flagged : queued[l] = 0}
           /\ \A q \in Requests : queued'[q] = 0
           /\ \A t \in Targets : answered'[t] = answered[t] + queued[t]
<1> USE RequestsAssumption DEF Keys, Requests
<1>1. \A t \in Targets : answered[t] \in Nat /\ queued[t] \in Nat
  BY DEF TypeOK
<1>2. answered' = [t \in Targets |-> answered[t] + queued[t]]
  BY DEF FlushFail
<1>3. answered' \in [Targets -> Nat]
  BY <1>1, <1>2
<1>4. queued' = [q \in Requests |-> 0]
  BY DEF FlushFail
<1> QED
  BY <1>2, <1>3, <1>4 DEF FlushFail

\* The initial state is well typed.
LEMMA TypeOKInit == Init => TypeOK
<1> SUFFICES ASSUME Init PROVE TypeOK
  OBVIOUS
<1>1. HandshakeTypeOK
  BY DEF Init, HandshakeInit, HandshakeTypeOK
<1>2. queued \in [Requests -> Nat] /\ wire \in [Requests -> Nat]
  BY DEF Init
<1>3. issued \in [Targets -> Nat] /\ answered \in [Targets -> Nat] /\ abandons \in Nat
  BY DEF Init
<1>4. busy \subseteq Lists /\ keys \subseteq Keys /\ wanted \subseteq Stats /\ loading \in BOOLEAN
  BY DEF Init
<1> QED
  BY <1>1, <1>2, <1>3, <1>4 DEF TypeOK

\* The types are preserved by every step.
LEMMA TypeOKStep == TypeOK /\ [Next]_vars => TypeOK'
<1> SUFFICES ASSUME TypeOK, [Next]_vars PROVE TypeOK'
  OBVIOUS
<1> USE RequestsAssumption DEF Keys, Requests
<1>1. CASE RefreshEngine
  BY <1>1 DEF TypeOK, HandshakeTypeOK, RefreshEngine, RefreshEngineInfo, StartPing,
              UpdateLoading, IsLoading, requestVars, historyVars
<1>2. ASSUME NEW l \in Lists, RefreshList(l) PROVE TypeOK'
  BY <1>2, SubmitAddsOne DEF TypeOK, RefreshList, UpdateLoading, IsLoading, historyVars
<1>3. ASSUME NEW l \in Lists, ListAnswered(l) PROVE TypeOK'
  BY <1>3, SettledTakesOne DEF TypeOK, HandshakeTypeOK, ListAnswered, UpdateLoading, IsLoading,
              handshakeVars, historyVars
<1>4. ASSUME NEW k \in Details, RequestDetail(k) PROVE TypeOK'
  BY <1>4, SubmitAddsOne DEF TypeOK, RequestDetail, BeginRequest, UpdateLoading, IsLoading,
              historyVars
<1>5. ASSUME NEW k \in Stats, RequestStats(k) PROVE TypeOK'
  BY <1>5, SubmitAddsOne DEF TypeOK, HandshakeTypeOK, RequestStats, BeginRequest,
              UpdateLoading, IsLoading, handshakeVars, historyVars
<1>6. ASSUME NEW k \in Stats, StopStats(k) PROVE TypeOK'
  BY <1>6 DEF TypeOK, HandshakeTypeOK, StopStats, handshakeVars, historyVars
<1>7. CASE CheckRegistryAuth
  BY <1>7, SubmitAddsOne DEF TypeOK, CheckRegistryAuth, UpdateLoadingIfStarted, IsLoading,
              historyVars
<1>8. ASSUME NEW t \in Targets, RunMutation(t) PROVE TypeOK'
  <2>1. issued' \in [Targets -> Nat]
    BY <1>8 DEF TypeOK, RunMutation
  <2>2. loading' \in BOOLEAN
    BY <1>8 DEF TypeOK, RunMutation, UpdateLoadingIfStarted, IsLoading
  <2> QED
    BY <1>8, <2>1, <2>2, SubmitAddsOne DEF TypeOK, RunMutation
<1>9. ASSUME NEW t \in Targets, MutationAnswered(t) PROVE TypeOK'
  BY <1>9, SettledTakesOne DEF TypeOK, HandshakeTypeOK, MutationAnswered, handshakeVars
<1>10. CASE PingAnswered
  BY <1>10 DEF TypeOK, HandshakeTypeOK, PingAnswered, PingPasses, requestVars, historyVars
<1>11. CASE VersionAnswered
  BY <1>11 DEF TypeOK, HandshakeTypeOK, VersionAnswered, VersionPasses, requestVars, historyVars
<1>12. CASE InfoAnswered
  <2>1. HandshakeTypeOK'
    <3>1. steps' \in [Steps -> Nat]
      BY <1>12 DEF TypeOK, HandshakeTypeOK, InfoAnswered, HandshakeSucceeds
    <3> QED
      BY <1>12, <3>1, Zenon DEF TypeOK, HandshakeTypeOK, InfoAnswered, HandshakeSucceeds
  <2>2. loading' \in BOOLEAN
    BY <1>12 DEF TypeOK, InfoAnswered, UpdateLoadingIfStarted, IsLoading
  <2> QED
    BY <1>12, <2>1, <2>2, FlushRunTypes DEF TypeOK, InfoAnswered
<1>13. ASSUME NEW s \in {"ping", "version"}, HandshakeFailed(s) PROVE TypeOK'
  <2>1. HandshakeTypeOK'
    <3>1. steps' \in [Steps -> Nat]
      BY <1>13 DEF TypeOK, HandshakeTypeOK, HandshakeFailed, HandshakeFails
    <3> QED
      BY <1>13, <3>1, Zenon DEF TypeOK, HandshakeTypeOK, HandshakeFailed, HandshakeFails
  <2>2. loading' \in BOOLEAN
    BY <1>13 DEF HandshakeFailed, UpdateLoading, IsLoading
  <2> QED
    BY <1>13, <2>1, <2>2, FlushFailTypes DEF TypeOK, HandshakeFailed
<1>14. ASSUME NEW k \in Keys, KeyAnswered(k) PROVE TypeOK'
  BY <1>14, SettledTakesOne DEF TypeOK, HandshakeTypeOK, KeyAnswered, IsLoading, handshakeVars,
              historyVars
<1>15. CASE AuthAnswered
  BY <1>15, SettledTakesOne DEF TypeOK, HandshakeTypeOK, AuthAnswered, handshakeVars, historyVars
<1>16. CASE Abandon
  <2>1. HandshakeTypeOK'
    BY <1>16 DEF TypeOK, HandshakeTypeOK, Abandon, AbandonHandshake
  <2>2. loading' \in BOOLEAN
    BY <1>16 DEF Abandon, UpdateLoading, IsLoading
  <2> QED
    BY <1>16, <2>1, <2>2, FlushFailTypes DEF TypeOK, Abandon
<1>17. ASSUME NEW ds \in SUBSET Details, RefreshAll(ds) PROVE TypeOK'
  BY <1>17, RefreshAllAdds DEF TypeOK, RefreshAll, UpdateLoading, IsLoading, historyVars
<1>18. CASE UNCHANGED vars
  BY <1>18 DEF TypeOK, HandshakeTypeOK, vars
<1> QED
  BY <1>1, <1>2, <1>3, <1>4, <1>5, <1>6, <1>7, <1>8, <1>9, <1>10, <1>11, <1>12, <1>13, <1>14,
     <1>15, <1>16, <1>17, <1>18 DEF Next

\* Type correctness, for every reachable state.
THEOREM TypeInvariant == Spec => []TypeOK
  BY TypeOKInit, TypeOKStep, PTL DEF Spec

\* A queued entry never loses its handshake: only flushReadyCallbacks() takes the flag away,
\* and it empties the queue in the same step.
LEMMA QueueHasHandshakeStep ==
    ASSUME TypeOK, BusyListHasOwner, QueueHasHandshake, [Next]_vars
    PROVE  QueueHasHandshake'
<1> USE RequestsAssumption DEF Keys, Requests, QueueHasHandshake, HandshakeOnWire, TypeOK, HandshakeTypeOK
<1>1. CASE RefreshEngine
  BY <1>1 DEF RefreshEngine, RefreshEngineInfo, StartPing, requestVars
<1>2. ASSUME NEW l \in Lists, RefreshList(l) PROVE QueueHasHandshake'
  BY <1>2 DEF RefreshList, requestVars, historyVars, handshakeVars, Submit, JoinHandshake, StartPing
<1>3. ASSUME NEW l \in Lists, ListAnswered(l) PROVE QueueHasHandshake'
  BY <1>3 DEF ListAnswered, Settled, handshakeVars
<1>4. ASSUME NEW k \in Details, RequestDetail(k) PROVE QueueHasHandshake'
  BY <1>4 DEF RequestDetail, BeginRequest, Submit, JoinHandshake, StartPing, handshakeVars
<1>5. ASSUME NEW k \in Stats, RequestStats(k) PROVE QueueHasHandshake'
  BY <1>5 DEF RequestStats, BeginRequest, Submit, JoinHandshake, StartPing, handshakeVars
<1>6. ASSUME NEW k \in Stats, StopStats(k) PROVE QueueHasHandshake'
  BY <1>6 DEF StopStats, requestVars, historyVars, handshakeVars, Submit, JoinHandshake, StartPing
<1>7. CASE CheckRegistryAuth
  BY <1>7 DEF CheckRegistryAuth, requestVars, historyVars, handshakeVars, Submit, JoinHandshake, StartPing
<1>8. ASSUME NEW t \in Targets, RunMutation(t) PROVE QueueHasHandshake'
  BY <1>8 DEF RunMutation, requestVars, historyVars, handshakeVars, Submit, JoinHandshake, StartPing
<1>9. ASSUME NEW t \in Targets, MutationAnswered(t) PROVE QueueHasHandshake'
  BY <1>9 DEF MutationAnswered, Settled, handshakeVars
<1>10. CASE PingAnswered
  BY <1>10 DEF PingAnswered, PingPasses, requestVars
<1>11. CASE VersionAnswered
  BY <1>11 DEF VersionAnswered, VersionPasses, requestVars
<1>12. CASE InfoAnswered
  BY <1>12, FlushRunTypes DEF InfoAnswered, HandshakeSucceeds
<1>13. ASSUME NEW s \in {"ping", "version"}, HandshakeFailed(s) PROVE QueueHasHandshake'
  BY <1>13, FlushFailTypes DEF HandshakeFailed, HandshakeFails
<1>14. ASSUME NEW k \in Keys, KeyAnswered(k) PROVE QueueHasHandshake'
  BY <1>14 DEF KeyAnswered, Settled, handshakeVars
<1>15. CASE AuthAnswered
  BY <1>15 DEF AuthAnswered, Settled, handshakeVars
<1>16. CASE Abandon
  BY <1>16, FlushFailTypes DEF Abandon, AbandonHandshake
<1>17. ASSUME NEW ds \in SUBSET Details, RefreshAll(ds) PROVE QueueHasHandshake'
  BY <1>17 DEF RefreshAll, RefreshEngineInfo, StartPing, handshakeVars, BusyListHasOwner
<1>18. CASE UNCHANGED vars
  BY <1>18 DEF vars
<1> QED
  BY <1>1, <1>2, <1>3, <1>4, <1>5, <1>6, <1>7, <1>8, <1>9,
     <1>10, <1>11, <1>12, <1>13, <1>14, <1>15, <1>16, <1>17, <1>18 DEF Next

\* The flag of a list and the engine flag are set together with the request behind them, and
\* what takes the last request away resets the flag.
LEMMA BusyListHasOwnerStep ==
    ASSUME TypeOK, BusyListHasOwner, [Next]_vars
    PROVE  BusyListHasOwner'
<1> USE RequestsAssumption DEF Keys, Requests, BusyListHasOwner, Outstanding, TypeOK, HandshakeTypeOK
<1>1. CASE RefreshEngine
  BY <1>1 DEF RefreshEngine, RefreshEngineInfo, StartPing, requestVars
<1>2. ASSUME NEW l \in Lists, RefreshList(l) PROVE BusyListHasOwner'
  BY <1>2, SubmitAddsOne DEF RefreshList, Submit, JoinHandshake, StartPing, handshakeVars
<1>3. ASSUME NEW l \in Lists, ListAnswered(l) PROVE BusyListHasOwner'
  BY <1>3, SettledTakesOne DEF ListAnswered, handshakeVars
<1>4. ASSUME NEW k \in Details, RequestDetail(k) PROVE BusyListHasOwner'
  BY <1>4, SubmitAddsOne DEF RequestDetail, BeginRequest, Submit, JoinHandshake, StartPing, handshakeVars
<1>5. ASSUME NEW k \in Stats, RequestStats(k) PROVE BusyListHasOwner'
  BY <1>5, SubmitAddsOne DEF RequestStats, BeginRequest, Submit, JoinHandshake, StartPing, handshakeVars
<1>6. ASSUME NEW k \in Stats, StopStats(k) PROVE BusyListHasOwner'
  BY <1>6 DEF StopStats, handshakeVars
<1>7. CASE CheckRegistryAuth
  BY <1>7, SubmitAddsOne DEF CheckRegistryAuth, Submit, JoinHandshake, StartPing, handshakeVars
<1>8. ASSUME NEW t \in Targets, RunMutation(t) PROVE BusyListHasOwner'
  BY <1>8, SubmitAddsOne DEF RunMutation, Submit, JoinHandshake, StartPing, handshakeVars
<1>9. ASSUME NEW t \in Targets, MutationAnswered(t) PROVE BusyListHasOwner'
  BY <1>9, SettledTakesOne DEF MutationAnswered, handshakeVars
<1>10. CASE PingAnswered
  BY <1>10 DEF PingAnswered, PingPasses, requestVars
<1>11. CASE VersionAnswered
  BY <1>11 DEF VersionAnswered, VersionPasses, requestVars
<1>12. CASE InfoAnswered
  BY <1>12, FlushRunTypes DEF InfoAnswered, HandshakeSucceeds
<1>13. ASSUME NEW s \in {"ping", "version"}, HandshakeFailed(s) PROVE BusyListHasOwner'
  BY <1>13, FlushFailTypes DEF HandshakeFailed, HandshakeFails
<1>14. ASSUME NEW k \in Keys, KeyAnswered(k) PROVE BusyListHasOwner'
  BY <1>14, SettledTakesOne DEF KeyAnswered, handshakeVars
<1>15. CASE AuthAnswered
  BY <1>15, SettledTakesOne DEF AuthAnswered, handshakeVars
<1>16. CASE Abandon
  BY <1>16, FlushFailTypes DEF Abandon, AbandonHandshake
<1>17. ASSUME NEW ds \in SUBSET Details, RefreshAll(ds) PROVE BusyListHasOwner'
  BY <1>17, RefreshAllAdds DEF RefreshAll, RefreshEngineInfo, StartPing, handshakeVars
<1>18. CASE UNCHANGED vars
  BY <1>18 DEF vars
<1> QED
  BY <1>1, <1>2, <1>3, <1>4, <1>5, <1>6, <1>7, <1>8, <1>9,
     <1>10, <1>11, <1>12, <1>13, <1>14, <1>15, <1>16, <1>17, <1>18 DEF Next

\* Every handler that changes a flag ends with updateLoading().
LEMMA LoadingIsCurrentStep ==
    ASSUME TypeOK, LoadingIsCurrent, [Next]_vars
    PROVE  LoadingIsCurrent'
<1> USE DEF LoadingIsCurrent, IsLoading, UpdateLoading, UpdateLoadingIfStarted
<1>1. CASE RefreshEngine
  BY <1>1 DEF RefreshEngine
<1>2. ASSUME NEW l \in Lists, RefreshList(l) PROVE LoadingIsCurrent'
  BY <1>2 DEF RefreshList
<1>3. ASSUME NEW l \in Lists, ListAnswered(l) PROVE LoadingIsCurrent'
  BY <1>3 DEF ListAnswered
<1>4. ASSUME NEW k \in Details, RequestDetail(k) PROVE LoadingIsCurrent'
  BY <1>4 DEF RequestDetail, BeginRequest
<1>5. ASSUME NEW k \in Stats, RequestStats(k) PROVE LoadingIsCurrent'
  BY <1>5 DEF RequestStats, BeginRequest, handshakeVars
<1>6. ASSUME NEW k \in Stats, StopStats(k) PROVE LoadingIsCurrent'
  BY <1>6 DEF StopStats, handshakeVars
<1>7. CASE CheckRegistryAuth
  BY <1>7 DEF CheckRegistryAuth, Submit, JoinHandshake, StartPing, handshakeVars
<1>8. ASSUME NEW t \in Targets, RunMutation(t) PROVE LoadingIsCurrent'
  BY <1>8 DEF RunMutation, Submit, JoinHandshake, StartPing, handshakeVars
<1>9. ASSUME NEW t \in Targets, MutationAnswered(t) PROVE LoadingIsCurrent'
  BY <1>9 DEF MutationAnswered, handshakeVars
<1>10. CASE PingAnswered
  BY <1>10 DEF PingAnswered, PingPasses, requestVars
<1>11. CASE VersionAnswered
  BY <1>11 DEF VersionAnswered, VersionPasses, requestVars
<1>12. CASE InfoAnswered
  BY <1>12 DEF InfoAnswered, HandshakeSucceeds, FlushRun
<1>13. ASSUME NEW s \in {"ping", "version"}, HandshakeFailed(s) PROVE LoadingIsCurrent'
  BY <1>13 DEF HandshakeFailed
<1>14. ASSUME NEW k \in Keys, KeyAnswered(k) PROVE LoadingIsCurrent'
  BY <1>14 DEF KeyAnswered, handshakeVars
<1>15. CASE AuthAnswered
  BY <1>15 DEF AuthAnswered, handshakeVars
<1>16. CASE Abandon
  BY <1>16 DEF Abandon
<1>17. ASSUME NEW ds \in SUBSET Details, RefreshAll(ds) PROVE LoadingIsCurrent'
  BY <1>17 DEF RefreshAll
<1>18. CASE UNCHANGED vars
  BY <1>18 DEF vars
<1> QED
  BY <1>1, <1>2, <1>3, <1>4, <1>5, <1>6, <1>7, <1>8, <1>9,
     <1>10, <1>11, <1>12, <1>13, <1>14, <1>15, <1>16, <1>17, <1>18 DEF Next

\* A write moves from the queue to the wire and from there to its answer, or from the queue
\* straight to its answer.
LEMMA EveryWriteAccountedForStep ==
    ASSUME TypeOK, EveryWriteAccountedFor, [Next]_vars
    PROVE  EveryWriteAccountedFor'
<1> USE RequestsAssumption DEF Keys, Requests, EveryWriteAccountedFor, Outstanding, TypeOK
<1>1. CASE RefreshEngine
  BY <1>1 DEF RefreshEngine, requestVars, historyVars
<1>2. ASSUME NEW l \in Lists, RefreshList(l) PROVE EveryWriteAccountedFor'
  BY <1>2, SubmitAddsOne DEF RefreshList, historyVars
<1>3. ASSUME NEW l \in Lists, ListAnswered(l) PROVE EveryWriteAccountedFor'
  BY <1>3, SettledTakesOne DEF ListAnswered, historyVars
<1>4. ASSUME NEW k \in Details, RequestDetail(k) PROVE EveryWriteAccountedFor'
  BY <1>4, SubmitAddsOne DEF RequestDetail, BeginRequest, historyVars
<1>5. ASSUME NEW k \in Stats, RequestStats(k) PROVE EveryWriteAccountedFor'
  BY <1>5, SubmitAddsOne DEF RequestStats, BeginRequest, historyVars
<1>6. ASSUME NEW k \in Stats, StopStats(k) PROVE EveryWriteAccountedFor'
  BY <1>6 DEF StopStats, historyVars
<1>7. CASE CheckRegistryAuth
  BY <1>7, SubmitAddsOne DEF CheckRegistryAuth, historyVars
<1>8. ASSUME NEW t \in Targets, RunMutation(t) PROVE EveryWriteAccountedFor'
  BY <1>8, SubmitAddsOne DEF RunMutation
<1>9. ASSUME NEW t \in Targets, MutationAnswered(t) PROVE EveryWriteAccountedFor'
  <2> DEFINE accounted(u) == issued[u] = answered[u] + Outstanding(u)
  <2>1. wire' \in [Requests -> Nat] /\ queued' = queued /\ wire[t] = wire'[t] + 1
    BY <1>9, SettledTakesOne DEF MutationAnswered
  <2>2. accounted(t)'
    <3>1. answered'[t] = answered[t] + 1 /\ issued' = issued
      BY <1>9 DEF MutationAnswered
    <3>2. issued[t] \in Nat /\ answered[t] \in Nat /\ queued[t] \in Nat /\ wire'[t] \in Nat
      BY <2>1
    <3>3. issued[t] = answered[t] + (queued[t] + wire[t])
      OBVIOUS
    <3> QED
      BY <2>1, <3>1, <3>2, <3>3
  <2>3. ASSUME NEW u \in Targets \ {t} PROVE accounted(u)'
    BY <1>9, <2>3, SettledTakesOne DEF MutationAnswered
  <2> QED
    BY <2>2, <2>3
<1>10. CASE PingAnswered
  BY <1>10 DEF PingAnswered, requestVars, historyVars
<1>11. CASE VersionAnswered
  BY <1>11 DEF VersionAnswered, requestVars, historyVars
<1>12. CASE InfoAnswered
  BY <1>12, FlushRunTypes DEF InfoAnswered
<1>13. ASSUME NEW s \in {"ping", "version"}, HandshakeFailed(s) PROVE EveryWriteAccountedFor'
  BY <1>13, FlushFailTypes DEF HandshakeFailed
<1>14. ASSUME NEW k \in Keys, KeyAnswered(k) PROVE EveryWriteAccountedFor'
  BY <1>14, SettledTakesOne DEF KeyAnswered, historyVars
<1>15. CASE AuthAnswered
  BY <1>15, SettledTakesOne DEF AuthAnswered, historyVars
<1>16. CASE Abandon
  BY <1>16, FlushFailTypes DEF Abandon
<1>17. ASSUME NEW ds \in SUBSET Details, RefreshAll(ds) PROVE EveryWriteAccountedFor'
  BY <1>17, RefreshAllAdds DEF RefreshAll, historyVars
<1>18. CASE UNCHANGED vars
  BY <1>18 DEF vars
<1> QED
  BY <1>1, <1>2, <1>3, <1>4, <1>5, <1>6, <1>7, <1>8, <1>9,
     <1>10, <1>11, <1>12, <1>13, <1>14, <1>15, <1>16, <1>17, <1>18 DEF Next

\* While the watchdog has not interfered there is at most one chain of handshake replies;
\* its /info is under way only after a version was negotiated.
OneSession ==
    abandons = 0 =>
        /\ \A s \in Steps : steps[s] <= 1
        /\ \A s, u \in Steps : s # u => steps[s] = 0 \/ steps[u] = 0
        /\ HandshakeOnWire => handshake
        /\ steps["info"] > 0 => negotiated
        /\ countsAvailable => engineAvailable
        /\ engineAvailable <=> negotiated

\* A handshake starts only when none is on the wire, and each of its replies either sends the
\* next one or ends it.
LEMMA OneSessionStep ==
    ASSUME TypeOK, OneSession, [Next]_vars
    PROVE  OneSession'
<1> USE DEF OneSession, HandshakeOnWire, TypeOK, HandshakeTypeOK
<1>1. CASE RefreshEngine
  <2>1. CASE handshake
    BY <1>1, <2>1 DEF RefreshEngine, RefreshEngineInfo, StartPing, historyVars
  <2>2. CASE ~handshake
    <3>1. abandons = 0 => \A s \in Steps : steps'[s] = IF s = "ping" THEN 1 ELSE 0
      BY <1>1, <2>2 DEF RefreshEngine, RefreshEngineInfo, StartPing, historyVars
    <3> QED
      BY <1>1, <2>2, <3>1 DEF RefreshEngine, RefreshEngineInfo, StartPing, historyVars
  <2> QED
    BY <2>1, <2>2
<1>2. ASSUME NEW l \in Lists, RefreshList(l) PROVE OneSession'
  BY <1>2 DEF RefreshList, Submit, JoinHandshake, StartPing, handshakeVars, historyVars
<1>3. ASSUME NEW l \in Lists, ListAnswered(l) PROVE OneSession'
  BY <1>3 DEF ListAnswered, handshakeVars, historyVars
<1>4. ASSUME NEW k \in Details, RequestDetail(k) PROVE OneSession'
  BY <1>4 DEF RequestDetail, BeginRequest, Submit, JoinHandshake, StartPing, handshakeVars, historyVars
<1>5. ASSUME NEW k \in Stats, RequestStats(k) PROVE OneSession'
  BY <1>5 DEF RequestStats, BeginRequest, Submit, JoinHandshake, StartPing, handshakeVars, historyVars
<1>6. ASSUME NEW k \in Stats, StopStats(k) PROVE OneSession'
  BY <1>6 DEF StopStats, handshakeVars, historyVars
<1>7. CASE CheckRegistryAuth
  BY <1>7 DEF CheckRegistryAuth, Submit, JoinHandshake, StartPing, handshakeVars, historyVars
<1>8. ASSUME NEW t \in Targets, RunMutation(t) PROVE OneSession'
  BY <1>8 DEF RunMutation, Submit, JoinHandshake, StartPing, handshakeVars
<1>9. ASSUME NEW t \in Targets, MutationAnswered(t) PROVE OneSession'
  BY <1>9 DEF MutationAnswered, handshakeVars
<1>10. CASE PingAnswered
  BY <1>10 DEF PingAnswered, PingPasses, historyVars
<1>11. CASE VersionAnswered
  BY <1>11 DEF VersionAnswered, VersionPasses, historyVars
<1>12. CASE InfoAnswered
  BY <1>12 DEF InfoAnswered, HandshakeSucceeds
<1>13. ASSUME NEW s \in {"ping", "version"}, HandshakeFailed(s) PROVE OneSession'
  BY <1>13 DEF HandshakeFailed, HandshakeFails
<1>14. ASSUME NEW k \in Keys, KeyAnswered(k) PROVE OneSession'
  BY <1>14 DEF KeyAnswered, handshakeVars, historyVars
<1>15. CASE AuthAnswered
  BY <1>15 DEF AuthAnswered, handshakeVars, historyVars
<1>16. CASE Abandon
  BY <1>16 DEF Abandon
<1>17. ASSUME NEW ds \in SUBSET Details, RefreshAll(ds) PROVE OneSession'
  BY <1>17 DEF RefreshAll, RefreshEngineInfo, StartPing, handshakeVars, historyVars
<1>18. CASE UNCHANGED vars
  BY <1>18 DEF vars
<1> QED
  BY <1>1, <1>2, <1>3, <1>4, <1>5, <1>6, <1>7, <1>8, <1>9,
     <1>10, <1>11, <1>12, <1>13, <1>14, <1>15, <1>16, <1>17, <1>18 DEF Next

\* In every reachable state a set in-flight flag has a request that will reset it.
THEOREM FlagsHaveOwners == Spec => []BusyListHasOwner
<1>1. Init => BusyListHasOwner
  BY DEF Init, HandshakeInit, BusyListHasOwner
<1>2. TypeOK /\ BusyListHasOwner /\ [Next]_vars => BusyListHasOwner'
  BY BusyListHasOwnerStep
<1> QED
  BY <1>1, <1>2, TypeInvariant, PTL DEF Spec

\* In every reachable state a queued call has a handshake to wait for, and the handshake a reply.
THEOREM WaitingCallsAreServed == Spec => []QueueHasHandshake
<1>1. Init => QueueHasHandshake
  BY DEF Init, HandshakeInit, QueueHasHandshake
<1>2. TypeOK /\ BusyListHasOwner /\ QueueHasHandshake /\ [Next]_vars => QueueHasHandshake'
  BY QueueHasHandshakeStep
<1> QED
  BY <1>1, <1>2, TypeInvariant, FlagsHaveOwners, PTL DEF Spec

\* In every reachable state loadingChanged() has announced the present value of isLoading().
THEOREM LoadingIsAnnounced == Spec => []LoadingIsCurrent
<1>1. Init => LoadingIsCurrent
  BY DEF Init, HandshakeInit, LoadingIsCurrent, IsLoading
<1>2. TypeOK /\ LoadingIsCurrent /\ [Next]_vars => LoadingIsCurrent'
  BY LoadingIsCurrentStep
<1> QED
  BY <1>1, <1>2, TypeInvariant, PTL DEF Spec

\* In every reachable state each write is queued, running or answered, and only one of these.
THEOREM WritesAreConserved == Spec => []EveryWriteAccountedFor
<1>1. Init => EveryWriteAccountedFor
  BY RequestsAssumption DEF Init, EveryWriteAccountedFor, Outstanding, Keys, Requests
<1>2. TypeOK /\ EveryWriteAccountedFor /\ [Next]_vars => EveryWriteAccountedFor'
  BY EveryWriteAccountedForStep
<1> QED
  BY <1>1, <1>2, TypeInvariant, PTL DEF Spec

\* Without the watchdog there is one handshake at a time in every reachable state.
THEOREM OneSessionInvariant == Spec => []OneSession
<1>1. Init => OneSession
  BY DEF Init, HandshakeInit, OneSession, HandshakeOnWire
<1>2. TypeOK /\ OneSession /\ [Next]_vars => OneSession'
  BY OneSessionStep
<1> QED
  BY <1>1, <1>2, TypeInvariant, PTL DEF Spec

\* Without the watchdog the engine section and the negotiated version are of one session.
THEOREM EngineBelongsToSession == Spec => []EngineMatchesSession
<1>1. OneSession => EngineMatchesSession
  BY DEF OneSession, EngineMatchesSession
<1> QED
  BY <1>1, OneSessionInvariant, PTL

\* Without the watchdog every request of the queue is sent to a versioned path.
THEOREM RequestsAreVersioned == Spec => SentWithVersion
<1>1. TypeOK /\ OneSession /\ [Next]_vars
        => [abandons = 0 => \A r \in Requests : wire'[r] > wire[r] => negotiated']_vars
  <2> SUFFICES ASSUME TypeOK, OneSession, [Next]_vars, abandons = 0,
                      NEW r \in Requests, wire'[r] > wire[r]
               PROVE  negotiated'
    OBVIOUS
  <2> USE RequestsAssumption DEF Keys, Requests
  <2>1. wire[r] \in Nat /\ \A q \in Requests : wire[q] \in Nat
    BY DEF TypeOK
  <2>2. ASSUME NEW q \in Requests, Submit(q) PROVE negotiated'
    BY <2>1, <2>2 DEF Submit, handshakeVars
  <2>3. ASSUME NEW q \in Requests, Settled(q) PROVE FALSE
    BY <2>1, <2>3, SettledTakesOne
  <2>4. ASSUME wire' = wire PROVE FALSE
    BY <2>1, <2>4
  <2>5. CASE InfoAnswered
    BY <2>5 DEF InfoAnswered, HandshakeSucceeds, OneSession
  <2>6. ASSUME NEW flagged \in SUBSET Lists, FlushFail(flagged) PROVE FALSE
    BY <2>4, <2>6 DEF FlushFail
  <2>7. CASE RefreshEngine \/ PingAnswered \/ VersionAnswered \/ UNCHANGED vars
    BY <2>4, <2>7 DEF RefreshEngine, PingAnswered, VersionAnswered, requestVars, vars
  <2>8. CASE \E l \in Lists : RefreshList(l) \/ ListAnswered(l)
    BY <2>2, <2>3, <2>8 DEF RefreshList, ListAnswered
  <2>9. CASE \/ \E k \in Details : RequestDetail(k)
             \/ \E k \in Stats : RequestStats(k) \/ StopStats(k)
             \/ \E k \in Keys : KeyAnswered(k)
    BY <2>2, <2>3, <2>4, <2>9 DEF RequestDetail, RequestStats, BeginRequest, StopStats, KeyAnswered
  <2>10. CASE CheckRegistryAuth \/ AuthAnswered
    BY <2>2, <2>3, <2>10 DEF CheckRegistryAuth, AuthAnswered
  <2>11. CASE \E t \in Targets : RunMutation(t) \/ MutationAnswered(t)
    BY <2>2, <2>3, <2>11 DEF RunMutation, MutationAnswered
  <2>12. CASE Abandon \/ \E s \in {"ping", "version"} : HandshakeFailed(s)
    BY <2>6, <2>12 DEF Abandon, HandshakeFailed, TypeOK
  <2>13. ASSUME NEW ds \in SUBSET Details, RefreshAll(ds) PROVE negotiated'
    <3>1. negotiated
      BY <2>4, <2>13 DEF RefreshAll
    <3> QED
      BY <2>13, <3>1 DEF RefreshAll, RefreshEngineInfo, handshakeVars
  <2> QED
    BY <2>5, <2>7, <2>8, <2>9, <2>10, <2>11, <2>12, <2>13 DEF Next
<1> QED
  BY <1>1, TypeInvariant, OneSessionInvariant, PTL DEF Spec, SentWithVersion

\* The bookkeeping implements the contract about writes: answers are never unasked for and
\* never repeated, through failed handshakes and watchdog timeouts.
THEOREM ContractIsKept == Spec => WritesKeepContract
<1>1. Init => Contract!ContractInit
  BY DEF Init, Contract!ContractInit
<1>2. TypeOK /\ TypeOK' /\ EveryWriteAccountedFor' /\ [Next]_vars
        => [Contract!ContractNext]_(Contract!contractVars)
  <2> SUFFICES ASSUME TypeOK, TypeOK', EveryWriteAccountedFor', [Next]_vars
               PROVE  Contract!ContractNext \/ UNCHANGED <<issued, answered>>
    BY DEF Contract!contractVars
  <2> USE RequestsAssumption DEF Keys, Requests
  <2>1. ASSUME issued' = issued, \A t \in Targets : answered[t] <= answered'[t]
        PROVE  Contract!Answer
    <3>1. \A t \in Targets : issued'[t] = answered'[t] + (queued'[t] + wire'[t])
      BY DEF EveryWriteAccountedFor, Outstanding
    <3>2. \A t \in Targets : answered'[t] \in Nat /\ queued'[t] \in Nat /\ wire'[t] \in Nat
      BY DEF TypeOK
    <3>3. \A t \in Targets : answered'[t] <= issued[t]
      BY <2>1, <3>1, <3>2
    <3> QED
      BY <2>1, <3>3 DEF Contract!Answer, TypeOK
  <2>2. ASSUME NEW t \in Targets, RunMutation(t) PROVE Contract!ContractNext
    BY <2>2 DEF RunMutation, Contract!ContractNext, Contract!Issue
  <2>3. ASSUME NEW t \in Targets, MutationAnswered(t) PROVE Contract!Answer
    BY <2>1, <2>3 DEF MutationAnswered, TypeOK
  <2>4. ASSUME NEW flagged \in SUBSET Lists, FlushFail(flagged), issued' = issued
        PROVE  Contract!Answer
    BY <2>1, <2>4, FlushFailTypes DEF TypeOK
  <2>5. CASE Abandon \/ \E s \in {"ping", "version"} : HandshakeFailed(s)
    BY <2>4, <2>5 DEF Abandon, HandshakeFailed, TypeOK, Contract!ContractNext
  <2>6. CASE \/ RefreshEngine \/ CheckRegistryAuth \/ PingAnswered \/ VersionAnswered
             \/ AuthAnswered \/ UNCHANGED vars
    BY <2>6 DEF RefreshEngine, CheckRegistryAuth, PingAnswered, VersionAnswered, AuthAnswered,
                historyVars, vars
  <2>7. CASE \/ InfoAnswered
             \/ \E l \in Lists : RefreshList(l) \/ ListAnswered(l)
             \/ \E k \in Details : RequestDetail(k)
             \/ \E ds \in SUBSET Details : RefreshAll(ds)
             \/ \E k \in Stats : RequestStats(k) \/ StopStats(k)
             \/ \E k \in Keys : KeyAnswered(k)
    BY <2>7 DEF InfoAnswered, RefreshAll, FlushRun, RefreshList, ListAnswered, RequestDetail, RequestStats,
                StopStats, KeyAnswered, historyVars
  <2> QED
    BY <2>2, <2>3, <2>5, <2>6, <2>7 DEF Next, Contract!ContractNext
<1> QED
  BY <1>1, <1>2, TypeInvariant, WritesAreConserved, PTL DEF Spec, WritesKeepContract, Contract!ContractSpec

(***************************************************************************)
(* The page over the backend: RefreshCycle.  What holds of the backend     *)
(* carries over, because every step of the page contains a step of the     *)
(* backend; the invariants of the page rest on it.                         *)
(***************************************************************************)

\* Every step of the page is a step of the backend, or leaves the backend alone.
LEMMA PageStepsAreBackendSteps == [PageNext]_systemVars => [Next]_vars
<1> SUFFICES ASSUME [PageNext]_systemVars PROVE Next \/ UNCHANGED vars
  OBVIOUS
<1>1. CASE Refresh
  BY <1>1 DEF Refresh, RequestRefresh, PageDetails, Next
<1>2. CASE AutomaticRefresh
  BY <1>2 DEF AutomaticRefresh, RequestRefresh, Next
<1>3. CASE AutomaticStorage
  BY <1>3 DEF AutomaticStorage, PageDetails, Next
<1>4. CASE ToggleAutoRefresh
  BY <1>4 DEF ToggleAutoRefresh
<1>5. CASE \E l \in Lists : ListRequested(l) \/ ListRead(l)
  BY <1>5 DEF ListRequested, ListRead, Next
<1>6. CASE \E k \in Details : DetailRequested(k) \/ DetailRead(k)
  BY <1>6 DEF DetailRequested, DetailRead, Next, Keys
<1>7. CASE HandshakeGoesOn
  BY <1>7 DEF HandshakeGoesOn, Next
<1>8. CASE EngineRead
  BY <1>8 DEF EngineRead, Next
<1>9. CASE \E s \in {"ping", "version"} : HandshakeLost(s)
  BY <1>9 DEF HandshakeLost, Next
<1>10. CASE WatchdogFired
  BY <1>10 DEF WatchdogFired, Next
<1>11. CASE UNCHANGED systemVars
  BY <1>11 DEF systemVars
<1> QED
  BY <1>1, <1>2, <1>3, <1>4, <1>5, <1>6, <1>7, <1>8, <1>9, <1>10, <1>11 DEF PageNext

\* A running handshake is the engine section's own: the two flags are always equal.
EngineOwnsHandshake == engineBusy <=> handshake

\* What the page's invariants need of the backend.
BackendInv ==
    TypeOK /\ BusyListHasOwner /\ LoadingIsCurrent /\ OneSession /\ EngineOwnsHandshake

LEMMA EngineOwnsHandshakeStep ==
    ASSUME EngineOwnsHandshake, [Next]_vars
    PROVE  EngineOwnsHandshake'
<1> USE DEF EngineOwnsHandshake
<1>1. CASE UNCHANGED handshakeVars
  BY <1>1 DEF handshakeVars
<1>2. CASE RefreshEngineInfo \/ JoinHandshake
  BY <1>2 DEF RefreshEngineInfo, JoinHandshake, StartPing
<1>3. ASSUME NEW r, Submit(r) PROVE EngineOwnsHandshake'
  BY <1>1, <1>2, <1>3 DEF Submit
<1>4. CASE PingPasses \/ VersionPasses \/ HandshakeSucceeds \/ AbandonHandshake
  BY <1>4 DEF PingPasses, VersionPasses, HandshakeSucceeds, AbandonHandshake
<1>5. ASSUME NEW s, HandshakeFails(s) PROVE EngineOwnsHandshake'
  BY <1>5 DEF HandshakeFails
<1>6. CASE UNCHANGED vars
  BY <1>6 DEF vars
<1>7. CASE \/ RefreshEngine
           \/ \E ds \in SUBSET Details : RefreshAll(ds)
           \/ \E k \in Stats : StopStats(k)
           \/ \E k \in Keys : KeyAnswered(k)
           \/ \E l \in Lists : ListAnswered(l)
           \/ \E t \in Targets : MutationAnswered(t)
           \/ AuthAnswered
  BY <1>1, <1>2, <1>7 DEF RefreshEngine, RefreshAll, StopStats, KeyAnswered, ListAnswered,
     MutationAnswered, AuthAnswered
<1>8. CASE \/ \E l \in Lists : RefreshList(l)
           \/ \E k \in Details : RequestDetail(k)
           \/ \E k \in Stats : RequestStats(k)
           \/ CheckRegistryAuth
           \/ \E t \in Targets : RunMutation(t)
  BY <1>1, <1>3, <1>8 DEF RefreshList, RequestDetail, RequestStats, BeginRequest,
     CheckRegistryAuth, RunMutation
<1>9. CASE \/ PingAnswered \/ VersionAnswered \/ InfoAnswered \/ Abandon
           \/ \E s \in {"ping", "version"} : HandshakeFailed(s)
  BY <1>4, <1>5, <1>9 DEF PingAnswered, VersionAnswered, InfoAnswered, Abandon, HandshakeFailed
<1> QED
  BY <1>6, <1>7, <1>8, <1>9 DEF Next

\* The backend's invariants hold under the page.
THEOREM BackendUnderPage == PageSpec => []BackendInv
<1>1. PageInit => BackendInv
  <2>1. Init => BusyListHasOwner
    BY DEF Init, HandshakeInit, BusyListHasOwner
  <2>2. Init => LoadingIsCurrent
    BY DEF Init, HandshakeInit, LoadingIsCurrent, IsLoading
  <2>3. Init => OneSession
    BY DEF Init, HandshakeInit, OneSession, HandshakeOnWire, Steps
  <2>4. Init => EngineOwnsHandshake
    BY DEF Init, HandshakeInit, EngineOwnsHandshake
  <2> QED
    BY <2>1, <2>2, <2>3, <2>4, TypeOKInit DEF PageInit, BackendInv
<1>2. BackendInv /\ [PageNext]_systemVars => BackendInv'
  BY PageStepsAreBackendSteps, TypeOKStep, BusyListHasOwnerStep, LoadingIsCurrentStep,
     OneSessionStep, EngineOwnsHandshakeStep DEF BackendInv
<1> QED
  BY <1>1, <1>2, PTL DEF PageSpec

-----------------------------------------------------------------------------
\* What the reaction of the slots can do.

\* Only the end of the loading closes a cycle, and it always does.
LEMMA JudgeClosesCycle ==
    ASSUME NEW noted, Judge(noted), CycleHasWork
    PROVE  CycleHasWork'
  BY DEF Judge, CycleEnds, CycleHasWork

\* While a cycle is open the counter is below its bound, because a cycle starts that way.
CounterBelowBound ==
    /\ PageTypeOK
    /\ cycleInProgress => consecutiveFailures < MaxFailures

LEMMA JudgeKeepsBound ==
    ASSUME NEW noted, Judge(noted), CounterBelowBound
    PROVE  /\ cycleInProgress' \in BOOLEAN
           /\ consecutiveFailures' \in 0 .. MaxFailures
           /\ cycleInProgress' => consecutiveFailures' < MaxFailures
<1>1. consecutiveFailures \in 0 .. MaxFailures /\ MaxFailures \in Nat
  BY FailuresAssumption DEF CounterBelowBound, PageTypeOK
<1>2. CASE CycleEnds
  <2>1. consecutiveFailures < MaxFailures
    BY <1>2, Zenon DEF CycleEnds, CounterBelowBound
  <2>2. ~cycleInProgress'
    BY <1>2 DEF Judge
  <2>3. consecutiveFailures' = consecutiveFailures + 1 \/ consecutiveFailures' = 0
    BY <1>2 DEF Judge
  <2>4. consecutiveFailures' \in 0 .. MaxFailures
    BY <1>1, <2>1, <2>3
  <2>5. cycleInProgress' \in BOOLEAN
    BY <1>2 DEF Judge
  <2> QED
    BY <2>2, <2>4, <2>5, Zenon
<1>3. CASE ~CycleEnds
  <2>1. cycleInProgress' = cycleInProgress /\ consecutiveFailures' = consecutiveFailures
    BY <1>3 DEF Judge
  <2>2. cycleInProgress' \in BOOLEAN
    BY <2>1, Zenon DEF CounterBelowBound, PageTypeOK
  <2>3. cycleInProgress' => consecutiveFailures' < MaxFailures
    BY <2>1, Zenon DEF CounterBelowBound
  <2>4. consecutiveFailures' \in 0 .. MaxFailures
    BY <1>1, <2>1
  <2> QED
    BY <2>2, <2>3, <2>4, Zenon
<1> QED
  BY <1>2, <1>3, Zenon

\* The types of the page and the bound are preserved by every step.
THEOREM PageTypeInvariant == PageSpec => []PageTypeOK
<1>1. PageInit => CounterBelowBound
  <2> SUFFICES ASSUME PageInit PROVE CounterBelowBound
    OBVIOUS
  <2>1. consecutiveFailures \in 0 .. MaxFailures /\ ~cycleInProgress
    BY FailuresAssumption DEF PageInit
  <2>2. PageTypeOK
    BY <2>1, Zenon DEF PageInit, PageTypeOK
  <2> QED
    BY <2>1, <2>2 DEF CounterBelowBound
<1>2. BackendInv /\ CounterBelowBound /\ [PageNext]_systemVars => CounterBelowBound'
  <2> SUFFICES ASSUME BackendInv, CounterBelowBound, [PageNext]_systemVars
               PROVE  CounterBelowBound'
    OBVIOUS
  <2> USE FailuresAssumption DEF Sections
  <2>1. CASE Refresh
    <3>1. consecutiveFailures' \in 0 .. MaxFailures /\ consecutiveFailures' < MaxFailures
      BY <2>1 DEF Refresh
    <3>2. PageTypeOK'
      BY <2>1, <3>1, Zenon DEF Refresh, RequestRefresh, sectionVars, CounterBelowBound, PageTypeOK
    <3> QED
      BY <3>1, <3>2 DEF CounterBelowBound
  <2>2. CASE AutomaticRefresh
    BY <2>2 DEF AutomaticRefresh, RequestRefresh, sectionVars, CounterBelowBound, PageTypeOK
  <2>3. CASE ToggleAutoRefresh
    BY <2>3 DEF ToggleAutoRefresh, schedulerVars, sectionVars, CounterBelowBound, PageTypeOK
  <2>4. CASE UNCHANGED pageVars
    BY <2>4 DEF pageVars, CounterBelowBound, PageTypeOK
  <2>5. ASSUME NEW l \in Lists, ListRead(l) PROVE CounterBelowBound'
    BY <2>5, JudgeKeepsBound DEF ListRead, MembershipOf, SectionsUpdated, SectionsFailed,
       CounterBelowBound, PageTypeOK
  <2>6. ASSUME NEW k \in Details, DetailRead(k) PROVE CounterBelowBound'
    BY <2>6, JudgeKeepsBound DEF DetailRead, SectionsUpdated, SectionsFailed, sectionVars,
       CounterBelowBound, PageTypeOK
  <2>7. CASE EngineRead
    <3>1. /\ cycleInProgress' \in BOOLEAN
          /\ consecutiveFailures' \in 0 .. MaxFailures
          /\ cycleInProgress' => consecutiveFailures' < MaxFailures
      BY <2>7, JudgeKeepsBound, Zenon DEF EngineRead
    <3>2. ok' \subseteq Sections /\ failed' \subseteq Sections /\ reported' \subseteq Sections
      BY <2>7 DEF EngineRead, SectionsUpdated, SectionsFailed, sectionVars, CounterBelowBound,
         PageTypeOK
    <3>3. cycleHadFailure' \in BOOLEAN
      BY <2>7, Zenon DEF EngineRead, CounterBelowBound, PageTypeOK
    <3>4. /\ autoRefresh' \in BOOLEAN
          /\ refreshRequested' \in BOOLEAN
          /\ engineShown' \in BOOLEAN
      BY <2>7, Zenon DEF EngineRead, CounterBelowBound, PageTypeOK, BackendInv, TypeOK,
         HandshakeTypeOK
    <3> QED
      BY <3>1, <3>2, <3>3, <3>4 DEF CounterBelowBound, PageTypeOK
  <2>8. ASSUME NEW s \in {"ping", "version"}, HandshakeLost(s) PROVE CounterBelowBound'
    BY <2>8, JudgeKeepsBound DEF HandshakeLost, SectionsFailed, QueuedSections,
       CounterBelowBound, PageTypeOK
  <2>9. CASE WatchdogFired
    BY <2>9, JudgeKeepsBound DEF WatchdogFired, SectionsFailed, QueuedSections,
       CounterBelowBound, PageTypeOK
  <2> QED
    BY <2>1, <2>2, <2>3, <2>4, <2>5, <2>6, <2>7, <2>8, <2>9
       DEF PageNext, systemVars, AutomaticStorage, ListRequested, DetailRequested, HandshakeGoesOn
<1>3. CounterBelowBound => PageTypeOK
  BY DEF CounterBelowBound
<1> QED
  BY <1>1, <1>2, <1>3, BackendUnderPage, PTL DEF PageSpec

\* In every reachable state an open cycle has something loading, whose end will close it.
THEOREM OpenCyclesHaveWork == PageSpec => []CycleHasWork
<1>1. PageInit => CycleHasWork
  BY DEF PageInit, CycleHasWork
<1>2. BackendInv /\ BackendInv' /\ CycleHasWork /\ [PageNext]_systemVars => CycleHasWork'
  <2> SUFFICES ASSUME BackendInv, BackendInv', CycleHasWork, [PageNext]_systemVars
               PROVE  CycleHasWork'
    OBVIOUS
  <2>1. ASSUME NEW ds \in SUBSET Details, RefreshAll(ds) PROVE loading'
    <3>1. engineBusy'
      BY <2>1 DEF RefreshAll, RefreshEngineInfo, handshakeVars
    <3> QED
      BY <3>1, Zenon DEF BackendInv, LoadingIsCurrent, IsLoading
  <2>2. CASE Refresh \/ AutomaticRefresh
    BY <2>1, <2>2, Zenon DEF Refresh, AutomaticRefresh, RequestRefresh, PageDetails, CycleHasWork
  <2>3. ASSUME UNCHANGED cycleInProgress, loading => loading' PROVE CycleHasWork'
    BY <2>3 DEF CycleHasWork
  <2>4. CASE AutomaticStorage
    <3>1. PICK k \in Details : RequestDetail(k)
      BY <2>4 DEF AutomaticStorage, PageDetails
    <3>2. loading'
      BY <3>1 DEF RequestDetail, BeginRequest, UpdateLoading, IsLoading
    <3> QED
      BY <3>2, <2>3, <2>4 DEF AutomaticStorage, pageVars
  <2>5. CASE ToggleAutoRefresh \/ HandshakeGoesOn \/ UNCHANGED systemVars
    BY <2>3, <2>5 DEF ToggleAutoRefresh, HandshakeGoesOn, PingAnswered, VersionAnswered,
       schedulerVars, pageVars, systemVars, vars
  <2>6. ASSUME NEW l \in Lists, ListRequested(l) PROVE CycleHasWork'
    <3>1. keys' = keys /\ busy \subseteq busy'
      BY <2>6 DEF ListRequested, RefreshList
    <3>2. engineBusy => engineBusy'
      BY <2>6, Zenon DEF ListRequested, RefreshList, Submit, JoinHandshake, handshakeVars
    <3>3. IsLoading => IsLoading'
      BY <3>1, <3>2 DEF IsLoading
    <3>4. loading => loading'
      BY <3>3, Zenon DEF BackendInv, LoadingIsCurrent
    <3> QED
      BY <3>4, <2>3, <2>6 DEF ListRequested, pageVars
  <2>7. ASSUME NEW k \in Details, DetailRequested(k) PROVE CycleHasWork'
    <3>1. loading'
      BY <2>7 DEF DetailRequested, RequestDetail, BeginRequest, UpdateLoading, IsLoading
    <3> QED
      BY <3>1, <2>3, <2>7 DEF DetailRequested, pageVars
  <2>8. ASSUME NEW noted, Judge(noted) PROVE CycleHasWork'
    BY <2>8, JudgeClosesCycle
  <2> QED
    BY <2>2, <2>4, <2>5, <2>6, <2>7, <2>8
       DEF PageNext, ListRead, DetailRead, EngineRead, HandshakeLost, WatchdogFired
<1> QED
  BY <1>1, <1>2, BackendUnderPage, PTL DEF PageSpec
-----------------------------------------------------------------------------
\* What is shown for the sections.

\* Why a verdict has its reason: an engine section cleared under a running handshake has
\* been reported by the handshake that failed.
ReasonInv ==
    /\ ReasonMatchesVerdict
    /\ steps["info"] > 0 /\ ~engineAvailable => "engine" \in reported

LEMMA SectionsUpdatedKeepReasons ==
    ASSUME NEW ss, SectionsUpdated(ss), ReasonMatchesVerdict
    PROVE  ReasonMatchesVerdict'
  BY DEF SectionsUpdated, ReasonMatchesVerdict

LEMMA SectionsFailedKeepReasons ==
    ASSUME NEW ss, SectionsFailed(ss), ReasonMatchesVerdict
    PROVE  ReasonMatchesVerdict'
  BY DEF SectionsFailed, ReasonMatchesVerdict

\* Only the three handshake handlers change the condition of ReasonInv's second conjunct.
LEMMA OtherStepsKeepEngine ==
    ASSUME \/ UNCHANGED handshakeVars
           \/ RefreshEngineInfo
           \/ JoinHandshake
           \/ PingPasses,
           TypeOK
    PROVE  UNCHANGED <<steps["info"], engineAvailable, countsAvailable, negotiated>>
  BY DEF handshakeVars, RefreshEngineInfo, JoinHandshake, StartPing, PingPasses, TypeOK,
     HandshakeTypeOK, Steps

\* The handshake variables under the actions of the page that end no handshake.
LEMMA RequestsKeepEngine ==
    ASSUME TypeOK,
           \/ Refresh \/ AutomaticRefresh \/ AutomaticStorage \/ ToggleAutoRefresh
           \/ \E l \in Lists : ListRequested(l) \/ ListRead(l)
           \/ \E k \in Details : DetailRequested(k) \/ DetailRead(k)
    PROVE  \/ UNCHANGED handshakeVars
           \/ RefreshEngineInfo
           \/ JoinHandshake
<1>1. ASSUME NEW ds, RefreshAll(ds) PROVE UNCHANGED handshakeVars \/ RefreshEngineInfo
  BY <1>1 DEF RefreshAll
<1>2. ASSUME NEW r, Submit(r) PROVE UNCHANGED handshakeVars \/ JoinHandshake
  BY <1>2 DEF Submit
<1>3. CASE Refresh \/ AutomaticRefresh
  BY <1>1, <1>3 DEF Refresh, AutomaticRefresh, RequestRefresh
<1>4. CASE AutomaticStorage
  BY <1>2, <1>4 DEF AutomaticStorage, RequestDetail, BeginRequest
<1>5. CASE ToggleAutoRefresh
  BY <1>5 DEF ToggleAutoRefresh, vars, handshakeVars
<1>6. CASE \E l \in Lists : ListRequested(l) \/ ListRead(l)
  BY <1>2, <1>6 DEF ListRequested, RefreshList, ListRead, ListAnswered
<1>7. CASE \E k \in Details : DetailRequested(k) \/ DetailRead(k)
  BY <1>2, <1>7 DEF DetailRequested, RequestDetail, BeginRequest, DetailRead, KeyAnswered
<1> QED
  BY <1>3, <1>4, <1>5, <1>6, <1>7

\* In every reachable state the verdict of a section and the text beside it agree.
THEOREM VerdictsHaveReasons == PageSpec => []ReasonMatchesVerdict
<1>1. PageInit => ReasonInv
  BY DEF PageInit, Init, HandshakeInit, ReasonInv, ReasonMatchesVerdict, Steps
<1>2. BackendInv /\ ReasonInv /\ [PageNext]_systemVars => ReasonInv'
  <2> SUFFICES ASSUME BackendInv, ReasonInv, [PageNext]_systemVars PROVE ReasonInv'
    OBVIOUS
  <2> USE DEF ReasonInv
  <2>1. TypeOK
    BY DEF BackendInv
  <2>2. ASSUME UNCHANGED sectionVars PROVE ReasonMatchesVerdict' /\ UNCHANGED reported
    BY <2>2 DEF sectionVars, ReasonMatchesVerdict
  <2>3. CASE \/ Refresh \/ AutomaticRefresh \/ AutomaticStorage \/ ToggleAutoRefresh
             \/ \E l \in Lists : ListRequested(l)
             \/ \E k \in Details : DetailRequested(k)
    <3>1. UNCHANGED sectionVars
      BY <2>3 DEF Refresh, AutomaticRefresh, AutomaticStorage, ToggleAutoRefresh, ListRequested,
         DetailRequested, pageVars, sectionVars
    <3>2. UNCHANGED <<steps["info"], engineAvailable>>
      BY <2>1, <2>3, RequestsKeepEngine, OtherStepsKeepEngine
    <3> QED
      BY <2>2, <3>1, <3>2
  <2>4. ASSUME NEW l \in Lists, ListRead(l) PROVE ReasonInv'
    <3>1. ReasonMatchesVerdict'
      BY <2>4, SectionsUpdatedKeepReasons, SectionsFailedKeepReasons DEF ListRead
    <3>2. "engine" \in reported => "engine" \in reported'
      BY <2>4, SectionsAssumption DEF ListRead, MembershipOf, SectionsUpdated, SectionsFailed
    <3>3. UNCHANGED <<steps["info"], engineAvailable>>
      BY <2>1, <2>4, RequestsKeepEngine, OtherStepsKeepEngine
    <3> QED
      BY <3>1, <3>2, <3>3
  <2>5. ASSUME NEW k \in Details, DetailRead(k) PROVE ReasonInv'
    <3>1. ReasonMatchesVerdict'
      BY <2>2, <2>5, SectionsUpdatedKeepReasons, SectionsFailedKeepReasons DEF DetailRead
    <3>2. "engine" \in reported => "engine" \in reported'
      BY <2>5, SectionsAssumption DEF DetailRead, SectionsUpdated, SectionsFailed, sectionVars
    <3>3. UNCHANGED <<steps["info"], engineAvailable>>
      BY <2>1, <2>5, RequestsKeepEngine, OtherStepsKeepEngine
    <3> QED
      BY <3>1, <3>2, <3>3
  <2>6. CASE HandshakeGoesOn
    <3>1. ReasonMatchesVerdict' /\ UNCHANGED reported
      BY <2>2, <2>6 DEF HandshakeGoesOn, pageVars, sectionVars
    <3>2. CASE PingAnswered
      <4>1. UNCHANGED <<steps["info"], engineAvailable>>
        BY <2>1, <3>2, OtherStepsKeepEngine DEF PingAnswered
      <4> QED
        BY <3>1, <4>1
    <3>3. CASE VersionAnswered
      BY <3>1, <3>3 DEF VersionAnswered, VersionPasses
    <3> QED
      BY <2>6, <3>2, <3>3 DEF HandshakeGoesOn
  <2>7. CASE EngineRead
    <3>1. steps["info"] > 0 /\ steps'["info"] = steps["info"] - 1 /\ UNCHANGED engineAvailable
      BY <2>1, <2>7 DEF EngineRead, InfoAnswered, HandshakeSucceeds, TypeOK, HandshakeTypeOK, Steps
    <3>2. CASE SectionsFailed({"engine"})
      BY <3>2, SectionsFailedKeepReasons DEF SectionsFailed
    <3>3. CASE engineAvailable /\ SectionsUpdated({"engine"})
      BY <3>1, <3>3, SectionsUpdatedKeepReasons
    <3>4. CASE /\ ~engineAvailable /\ ok' = ok \ {"engine"}
               /\ failed' = failed \cup {"engine"} /\ UNCHANGED reported
      <4>1. "engine" \in reported
        BY <3>1, <3>4
      <4>2. ReasonMatchesVerdict'
        BY <3>4, <4>1 DEF ReasonMatchesVerdict
      <4> QED
        BY <3>4, <4>1, <4>2
    <3>5. CASE UNCHANGED sectionVars
      BY <2>2, <3>1, <3>5
    <3> QED
      BY <2>7, <3>2, <3>3, <3>4, <3>5 DEF EngineRead
  <2>8. ASSUME NEW ss, SectionsFailed({"engine"} \cup ss) PROVE ReasonInv'
    BY <2>8, SectionsFailedKeepReasons DEF SectionsFailed
  <2>9. CASE UNCHANGED systemVars
    BY <2>9 DEF systemVars, vars, pageVars, ReasonMatchesVerdict
  <2> QED
    BY <2>3, <2>4, <2>5, <2>6, <2>7, <2>8, <2>9 DEF PageNext, HandshakeLost, WatchdogFired
<1>3. ReasonInv => ReasonMatchesVerdict
  BY DEF ReasonInv
<1> QED
  BY <1>1, <1>2, <1>3, BackendUnderPage, PTL DEF PageSpec

\* Why "ready" can be trusted: once no handshake runs, the copy shown on the page is the
\* backend's, and it lacks the counts only with an error text beside it.
ShownInv ==
    abandons = 0 /\ ~handshake =>
        /\ engineShown <=> engineAvailable
        /\ engineShown /\ "engine" \notin reported => countsAvailable

\* While a reply of the handshake is on the wire, the handshake is running.
LEMMA RepliesMeanHandshake ==
    ASSUME BackendInv, abandons = 0, NEW s \in Steps, steps[s] > 0
    PROVE  handshake /\ engineBusy
  BY DEF BackendInv, OneSession, HandshakeOnWire, EngineOwnsHandshake

\* Without the watchdog, an engine shown as ready has a negotiated version and its counts.
THEOREM ReadyIsReady == PageSpec => []ReadyIsNegotiated
<1>1. PageInit => ShownInv
  BY DEF PageInit, Init, HandshakeInit, ShownInv
<1>2. BackendInv /\ ShownInv /\ [PageNext]_systemVars => ShownInv'
  <2> SUFFICES ASSUME BackendInv, ShownInv, [PageNext]_systemVars PROVE ShownInv'
    OBVIOUS
  <2>1. TypeOK /\ abandons \in Nat
    BY DEF BackendInv, TypeOK
  <2>2. ASSUME UNCHANGED <<abandons, engineShown>>,
               "engine" \in reported' <=> "engine" \in reported,
               UNCHANGED handshakeVars \/ RefreshEngineInfo \/ JoinHandshake
        PROVE  ShownInv'
    BY <2>2 DEF ShownInv, handshakeVars, RefreshEngineInfo, JoinHandshake, StartPing
  <2>3. CASE \/ Refresh \/ AutomaticRefresh \/ AutomaticStorage \/ ToggleAutoRefresh
             \/ \E l \in Lists : ListRequested(l)
             \/ \E k \in Details : DetailRequested(k)
    <3>1. UNCHANGED <<abandons, engineShown, reported>>
      BY <2>3 DEF Refresh, AutomaticRefresh, AutomaticStorage, ToggleAutoRefresh, ListRequested,
         DetailRequested, RequestRefresh, RefreshAll, RefreshList, RequestDetail, BeginRequest,
         pageVars, sectionVars, historyVars, vars
    <3> QED
      BY <2>1, <2>2, <2>3, <3>1, RequestsKeepEngine
  <2>4. ASSUME NEW l \in Lists, ListRead(l) PROVE ShownInv'
    <3>1. UNCHANGED <<abandons, engineShown>>
      BY <2>4 DEF ListRead, ListAnswered, historyVars
    <3>2. "engine" \in reported' <=> "engine" \in reported
      BY <2>4, SectionsAssumption DEF ListRead, MembershipOf, SectionsUpdated, SectionsFailed
    <3> QED
      BY <2>1, <2>2, <2>4, <3>1, <3>2, RequestsKeepEngine
  <2>5. ASSUME NEW k \in Details, DetailRead(k) PROVE ShownInv'
    <3>1. UNCHANGED <<abandons, engineShown>>
      BY <2>5 DEF DetailRead, KeyAnswered, historyVars
    <3>2. "engine" \in reported' <=> "engine" \in reported
      BY <2>5, SectionsAssumption DEF DetailRead, SectionsUpdated, SectionsFailed, sectionVars
    <3> QED
      BY <2>1, <2>2, <2>5, <3>1, <3>2, RequestsKeepEngine
  <2>6. CASE HandshakeGoesOn
    <3>1. UNCHANGED <<abandons, handshake>>
      BY <2>6 DEF HandshakeGoesOn, PingAnswered, PingPasses, VersionAnswered, VersionPasses,
         historyVars
    <3>2. steps["ping"] > 0 \/ steps["version"] > 0
      BY <2>6 DEF HandshakeGoesOn, PingAnswered, PingPasses, VersionAnswered, VersionPasses
    <3>3. abandons = 0 => handshake
      BY <3>2, RepliesMeanHandshake DEF Steps
    <3> QED
      BY <3>1, <3>3 DEF ShownInv
  <2>7. CASE EngineRead
    <3>1. steps["info"] > 0 /\ UNCHANGED <<engineAvailable, abandons>>
      BY <2>7 DEF EngineRead, InfoAnswered, HandshakeSucceeds
    <3>2. abandons = 0 => engineBusy
      BY <3>1, RepliesMeanHandshake DEF Steps
    <3>3. abandons' = 0 => engineShown' = engineAvailable'
      BY <2>7, <3>1, <3>2 DEF EngineRead
    <3>4. countsAvailable' \/ "engine" \in reported'
      BY <2>7 DEF EngineRead, SectionsFailed
    <3> QED
      BY <3>3, <3>4, Zenon DEF ShownInv
  <2>8. ASSUME NEW s \in {"ping", "version"}, HandshakeLost(s) PROVE ShownInv'
    BY <2>8 DEF HandshakeLost, HandshakeFailed, HandshakeFails, ShownInv
  <2>9. CASE WatchdogFired
    <3>1. abandons' # 0
      BY <2>1, <2>9 DEF WatchdogFired, Abandon
    <3> QED
      BY <3>1 DEF ShownInv
  <2>10. CASE UNCHANGED systemVars
    BY <2>10 DEF systemVars, vars, pageVars, ShownInv
  <2> QED
    BY <2>3, <2>4, <2>5, <2>6, <2>7, <2>8, <2>9, <2>10 DEF PageNext
<1>3. BackendInv /\ ShownInv => ReadyIsNegotiated
  <2> SUFFICES ASSUME BackendInv, ShownInv, abandons = 0, EngineState = "ready"
               PROVE  negotiated /\ countsAvailable
    BY DEF ReadyIsNegotiated
  <2>1. engineShown /\ "engine" \notin reported /\ ~loading
    BY DEF EngineState
  <2>2. ~handshake
    BY <2>1, Zenon DEF BackendInv, LoadingIsCurrent, IsLoading, EngineOwnsHandshake
  <2> QED
    BY <2>1, <2>2, Zenon DEF BackendInv, OneSession, ShownInv
<1> QED
  BY <1>1, <1>2, <1>3, BackendUnderPage, PTL DEF PageSpec

(***************************************************************************)
(* What the page shows: PageStates.  It is never behind what it is         *)
(* computed from.  A step that recomputes is easy; one that does not has   *)
(* to leave everything that is computed as it was, and refresh() may only  *)
(* because the engine section is in flight when it returns.                *)
(***************************************************************************)

\* The page with its states is the page of RefreshCycle: whatever holds there holds here.
THEOREM StatesRefinePage == StatesSpec => PageSpec
<1>1. StatesInit => PageInit
  BY DEF StatesInit
<1>2. [StatesNext]_allVars => [PageNext]_systemVars
  <2> SUFFICES ASSUME [StatesNext]_allVars PROVE PageNext \/ UNCHANGED systemVars
    OBVIOUS
  <2>1. CASE PageAsks
    BY <2>1 DEF PageAsks, PageNext
  <2>2. CASE SectionReports
    BY <2>2 DEF SectionReports, PageNext
  <2>3. CASE \E l \in Lists : ListReport(l)
    BY <2>3 DEF ListReport, PageNext
  <2>4. CASE UNCHANGED allVars
    BY <2>4 DEF allVars
  <2> QED
    BY <2>1, <2>2, <2>3, <2>4 DEF StatesNext
<1> QED
  BY <1>1, <1>2, PTL DEF StatesSpec, PageSpec

\* A recomputation makes everything current.
LEMMA UpdateStatesIsCurrent ==
    ASSUME UpdateStates, FastLists \subseteq Lists
    PROVE  ShownIsCurrent'
  BY DEF UpdateStates, Computed, ShownIsCurrent

\* What is computed stays as it is if its inputs do, and the user's request makes no
\* difference while something is loading.
LEMMA NothingToCompute ==
    ASSUME ShownIsCurrent,
           UNCHANGED <<ok, failed, reported, engineShown, loading, empty, shown>>,
           UNCHANGED refreshRequested \/ loading
    PROVE  ShownIsCurrent'
  BY DEF ShownIsCurrent, EngineState, PageState, ListState, PageDetails

\* refresh() leaves the engine section in flight, so the page is loading after it.
LEMMA RefreshIsLoading ==
    ASSUME Refresh, LoadingIsCurrent'
    PROVE  loading'
<1>1. engineBusy'
  <2>1. RefreshAll(PageDetails)
    BY DEF Refresh, RequestRefresh
  <2>2. CASE engineBusy
    BY <2>1, <2>2 DEF RefreshAll, handshakeVars
  <2>3. CASE ~engineBusy
    BY <2>1, <2>3 DEF RefreshAll, RefreshEngineInfo
  <2> QED
    BY <2>2, <2>3
<1> QED
  BY <1>1 DEF LoadingIsCurrent, IsLoading

\* A request of the page touches no verdict.
LEMMA RequestsKeepVerdicts ==
    ASSUME PageAsks
    PROVE  UNCHANGED <<ok, failed, reported, engineShown>>
  BY DEF PageAsks, Refresh, AutomaticRefresh, AutomaticStorage, ToggleAutoRefresh, ListRequested,
     DetailRequested, HandshakeGoesOn, pageVars, sectionVars

\* Only refresh() sets the request of the user, and it leaves the page loading.
LEMMA RequestIsLoading ==
    ASSUME PageAsks, LoadingIsCurrent', refreshRequested \in BOOLEAN
    PROVE  UNCHANGED refreshRequested \/ (refreshRequested' /\ loading')
<1>1. CASE Refresh
  BY <1>1, RefreshIsLoading DEF Refresh
<1>2. CASE AutomaticRefresh \/ AutomaticStorage \/ ToggleAutoRefresh \/ HandshakeGoesOn
  BY <1>2 DEF AutomaticRefresh, AutomaticStorage, ToggleAutoRefresh, HandshakeGoesOn, pageVars
<1>3. CASE \E l \in Lists : ListRequested(l)
  BY <1>3 DEF ListRequested, pageVars
<1>4. CASE \E k \in Details : DetailRequested(k)
  BY <1>4 DEF DetailRequested, pageVars
<1> QED
  BY <1>1, <1>2, <1>3, <1>4 DEF PageAsks

LEMMA ShownIsCurrentStep ==
    ASSUME ShownIsCurrent, BackendInv', PageTypeOK, ReasonMatchesVerdict, [StatesNext]_allVars,
           FastLists \subseteq Lists, "engine" \notin Lists
    PROVE  ShownIsCurrent'
<1> USE UpdateStatesIsCurrent
<1>1. ASSUME Announced, UNCHANGED <<ok, failed, reported, engineShown>>,
             UNCHANGED refreshRequested \/ (refreshRequested' /\ loading')
      PROVE  ShownIsCurrent'
  <2>1. CASE loading' # loading
    BY <1>1, <2>1 DEF Announced
  <2>2. CASE loading' = loading
    BY <1>1, <2>2, NothingToCompute DEF Announced
  <2> QED
    BY <2>1, <2>2
<1>2. CASE PageAsks
  <2>1. Announced
    BY <1>2 DEF PageAsks
  <2>2. UNCHANGED refreshRequested \/ (refreshRequested' /\ loading')
    BY <1>2, RequestIsLoading DEF BackendInv, PageTypeOK
  <2> QED
    BY <1>1, <1>2, <2>1, <2>2, RequestsKeepVerdicts
<1>3. CASE SectionReports
  <2>1. UNCHANGED refreshRequested
    BY <1>3 DEF SectionReports, EngineRead, HandshakeLost, DetailRead, WatchdogFired
  <2> QED
    BY <1>1, <1>3, <2>1 DEF SectionReports
<1>4. ASSUME NEW l \in Lists, ListReport(l)
      PROVE  ShownIsCurrent'
  <2>1. UNCHANGED <<refreshRequested, engineShown>>
    BY <1>4 DEF ListReport, ListRead
  <2>2. CASE UpdateStates
    BY <2>2
  <2>3. CASE ~UpdateStates
    <3>1. l \in ok' /\ l \notin FastLists /\ l \in ok
      BY <1>4, <2>3 DEF ListReport, ListShown
    <3>2. ok' = ok /\ failed' = failed /\ reported' = reported
      BY <1>4, <3>1 DEF ListReport, ListRead, MembershipOf, SectionsUpdated, SectionsFailed,
         ReasonMatchesVerdict
    <3>3. l \notin PageDetails /\ empty' \in {empty \cup {l}, empty \ {l}}
      BY <1>4, <3>1, RequestsAssumption DEF ListReport, ListShown, PageDetails, Keys
    <3>4. \A s \in FastLists \cup PageDetails : s \in empty' <=> s \in empty
      BY <3>1, <3>3
    <3>5. CASE loading' # loading
      <4>1. shown' = WithOldRows(l)
        BY <1>4, <3>1, <3>5 DEF ListReport, ListShown
      <4>2. /\ shown'.engine = EngineState' /\ shown'.page = PageState'
            /\ \A s \in (Lists \cup PageDetails) \ {l} : shown'.sections[s] = ListState(s)'
        BY <4>1 DEF WithOldRows, Computed, PageDetails
      <4> QED
        BY <4>2, <3>1, <3>3 DEF ShownIsCurrent, PageDetails
    <3>6. CASE loading' = loading
      <4>1. UNCHANGED shown
        BY <1>4, <3>1, <3>6 DEF ListReport, ListShown
      <4>2. UNCHANGED <<EngineState, PageState>>
        BY <2>1, <3>2, <3>6 DEF EngineState, PageState
      <4>3. \A s \in FastLists \cup PageDetails : UNCHANGED ListState(s)
        BY <3>2, <3>4, <3>6 DEF ListState, PageDetails
      <4> QED
        BY <4>1, <4>2, <4>3 DEF ShownIsCurrent, PageDetails
    <3> QED
      BY <3>5, <3>6
  <2> QED
    BY <2>2, <2>3
<1>5. CASE UNCHANGED allVars
  BY <1>5 DEF allVars, systemVars, pageVars, vars, pageStateVars, ShownIsCurrent, EngineState,
     PageState, ListState, PageDetails
<1> QED
  BY <1>2, <1>3, <1>4, <1>5 DEF StatesNext

\* What the page shows of itself, the engine, the fast lists and the disk usage is current in
\* every reachable state, although refresh() recomputes nothing.
THEOREM ShownStatesAreCurrent == StatesSpec => []ShownIsCurrent
<1>1. StatesInit => ShownIsCurrent
  BY RequestsAssumption DEF StatesInit, PageInit, Init, HandshakeInit, ShownIsCurrent,
     EngineState, PageState, ListState
<1>2. /\ ShownIsCurrent /\ PageTypeOK /\ ReasonMatchesVerdict
      /\ BackendInv' /\ [StatesNext]_allVars
      => ShownIsCurrent'
  BY ShownIsCurrentStep, RequestsAssumption, SectionsAssumption
<1>3. StatesSpec => [](BackendInv /\ PageTypeOK /\ ReasonMatchesVerdict)
  BY StatesRefinePage, BackendUnderPage, PageTypeInvariant, VerdictsHaveReasons, PTL
<1> QED
  BY <1>1, <1>2, <1>3, PTL DEF StatesSpec
=============================================================================
