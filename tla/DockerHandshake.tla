--------------------------- MODULE DockerHandshake ---------------------------
(***************************************************************************)
(* The version handshake of DockerBackend: GET /_ping, then GET /version,  *)
(* then GET /info (backend/docker_backend.cpp).  Everything else the       *)
(* backend asks of the engine waits for it.                                *)
(*                                                                         *)
(* The module holds the handshake's own state and the parts of the         *)
(* backend's handlers that change it.  DockerBackend conjoins each of them *)
(* with what the same handler does to the queues and flags.                *)
(*                                                                         *)
(* abandonInFlightRequests() gives a handshake up without cancelling its   *)
(* replies, so several chains of replies may be on the wire at once; they  *)
(* are counted by the step they have reached.                              *)
(***************************************************************************)
EXTENDS Naturals

VARIABLES
    negotiated,      \* m_client.hasApiVersion()
    handshake,       \* m_handshakeInFlight
    engineBusy,      \* m_engineInFlight
    steps,           \* outstanding handshake replies, by step
    engineAvailable, \* m_engine.available
    countsAvailable  \* m_engine.countsAvailable

Steps == {"ping", "version", "info"}

engineInfo == <<engineAvailable, countsAvailable>>
handshakeVars == <<negotiated, handshake, engineBusy, steps, engineAvailable, countsAvailable>>

HandshakeTypeOK ==
    /\ negotiated \in BOOLEAN
    /\ handshake \in BOOLEAN
    /\ engineBusy \in BOOLEAN
    /\ steps \in [Steps -> Nat]
    /\ engineAvailable \in BOOLEAN
    /\ countsAvailable \in BOOLEAN

HandshakeInit ==
    /\ negotiated = FALSE
    /\ handshake = FALSE
    /\ engineBusy = FALSE
    /\ steps = [s \in Steps |-> 0]
    /\ engineAvailable = FALSE
    /\ countsAvailable = FALSE

\* Some reply of some handshake has still to finish.
HandshakeOnWire == \E s \in Steps : steps[s] > 0

\* startPing(), unless a handshake runs already.
StartPing ==
    /\ handshake' = TRUE
    /\ steps' = IF handshake THEN steps ELSE [steps EXCEPT !["ping"] = @ + 1]

\* refreshEngine() without its duplicate check: a running handshake is joined.
RefreshEngineInfo ==
    /\ engineBusy' = TRUE
    /\ StartPing
    /\ UNCHANGED <<negotiated, engineAvailable, countsAvailable>>

\* Fault: the callback is queued but nobody starts the handshake it waits for.
JoinHandshakeOnly ==
    UNCHANGED handshakeVars

\* The end of withApiVersion() and runMutation(): a queued call needs a handshake.
\* The one it starts also fills the engine section.
JoinHandshake ==
    /\ engineBusy' = (engineBusy \/ ~handshake)
    /\ StartPing
    /\ UNCHANGED <<negotiated, engineAvailable, countsAvailable>>

\* The finished handler of /_ping: go on with /version.
PingPasses ==
    /\ steps["ping"] > 0
    /\ steps' = [steps EXCEPT !["ping"] = @ - 1, !["version"] = @ + 1]
    /\ UNCHANGED <<negotiated, handshake, engineBusy, engineAvailable, countsAvailable>>

\* The finished handler of /version: the API version is negotiated, go on with /info.
VersionPasses ==
    /\ steps["version"] > 0
    /\ steps' = [steps EXCEPT !["version"] = @ - 1, !["info"] = @ + 1]
    /\ negotiated' = TRUE
    /\ engineAvailable' = TRUE
    /\ UNCHANGED <<handshake, engineBusy, countsAvailable>>

\* The finished handler of /info and finishHandshakeSuccess(): an unreadable /info drops
\* the counts, but the handshake has succeeded all the same.
HandshakeSucceeds ==
    /\ steps["info"] > 0
    /\ steps' = [steps EXCEPT !["info"] = @ - 1]
    /\ handshake' = FALSE
    /\ engineBusy' = FALSE
    /\ countsAvailable' \in BOOLEAN
    /\ UNCHANGED <<negotiated, engineAvailable>>

\* finishHandshakeFailure() from the finished handler of /_ping or /version: no answer,
\* an unreadable one, or no API version in common.
HandshakeFails(s) ==
    /\ steps[s] > 0
    /\ steps' = [steps EXCEPT ![s] = @ - 1]
    /\ handshake' = FALSE
    /\ negotiated' = FALSE
    /\ engineBusy' = FALSE
    /\ engineAvailable' = FALSE
    /\ countsAvailable' = FALSE

\* abandonInFlightRequests(): the flags are reset, the replies stay on the wire.
AbandonHandshake ==
    /\ handshake' = FALSE
    /\ engineBusy' = FALSE
    /\ negotiated' = FALSE
    /\ UNCHANGED <<steps, engineAvailable, countsAvailable>>
=============================================================================
