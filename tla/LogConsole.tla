----------------------------- MODULE LogConsole ------------------------------
(***************************************************************************)
(* The log console of a container page: ContainerLogController             *)
(* (model/container_log_controller.cpp) over the log streams of the        *)
(* backend.  The console shows one container; it batches the lines it      *)
(* receives, holds them back while it is paused, replaces a provisional    *)
(* line by the next one, and drops the oldest lines over its limits.       *)
(*                                                                         *)
(* A row is a line's number and whether it is complete.  Every row counts  *)
(* as one byte, so FlushRows, MaxRows and MaxBytes stand for kFlushBytes,  *)
(* kMaxLines and kMaxBytes.  The flush interval is not 0.                  *)
(***************************************************************************)
EXTENDS LogStreams, Integers, Sequences

CONSTANTS
    NoContainer,  \* no container was shown yet
    MaxRows,      \* kMaxLines
    MaxBytes,     \* kMaxBytes
    FlushRows,    \* kFlushBytes
    MaxLines,     \* bound: lines received without clearing the text
    MaxConnects,  \* bound: connections
    MaxAbandons   \* bound: times the watchdog gives up

ASSUME ConsoleAssumption ==
    /\ NoContainer \notin Containers
    /\ MaxRows \in Nat \ {0} /\ MaxBytes \in Nat \ {0} /\ FlushRows \in Nat \ {0}
    /\ MaxLines \in Nat /\ MaxConnects \in Nat /\ MaxAbandons \in Nat

VARIABLES
    shown,       \* m_containerId
    connected,   \* m_connected
    paused,      \* m_paused
    console,     \* m_stateKey
    rows,        \* m_lines and m_lineComplete
    provisional, \* m_lastLineProvisional
    pending,     \* m_pending and m_pendingComplete
    bytes,       \* m_bytes
    dropped,     \* m_droppedLines
    flushTimer,  \* m_flushTimer runs
    log,         \* history: the rows of this connection, with no line overwritten twice
    refused,     \* history: a handshake failed under this connection
    doubled,     \* history: a container was asked for again before its callback ran
    received,    \* lines received since the text was cleared (only to bound the model)
    connects,    \* connections made (only to bound the model)
    abandons     \* times the watchdog gave up (only to bound the model)

textVars == <<rows, provisional, pending, bytes, dropped, flushTimer, log, received>>
stateVars == <<shown, connected, paused, console>>
historyVars == <<refused, doubled, connects, abandons>>
vars == <<handshakeVars, streamVars, stateVars, textVars, historyVars>>

Front(s) == SubSeq(s, 1, Len(s) - 1)
DropFirst(s, n) == SubSeq(s, n + 1, Len(s))
EndsProvisional(s) == s # <<>> /\ ~s[Len(s)].complete

\* A line after the others, replacing a provisional last one.
Overwrite(s, line) == Append(IF EndsProvisional(s) THEN Front(s) ELSE s, line)

-----------------------------------------------------------------------------
\* The text.

\* trimToLimits(): the number of rows to drop from s.  A dropped row is accounted with a
\* newline that flushNow() never added.
Excess(s, b) ==
    LET Over(d) == \/ Len(s) - d > MaxRows
                   \/ b - 2 * d > MaxBytes /\ Len(s) - d > 1
    IN  CHOOSE d \in 0 .. Len(s) : ~Over(d) /\ \A e \in 0 .. d - 1 : Over(e)

\* flushNow() with the given m_lines, m_bytes and m_pending.
Flush(visible, b, waitingRows) ==
    LET all == visible \o waitingRows
        sum == b + Len(waitingRows)
        d == Excess(all, sum)
    IN  /\ flushTimer' = FALSE
        /\ pending' = <<>>
        /\ IF waitingRows = <<>>
           THEN UNCHANGED <<rows, provisional, bytes, dropped>>
           ELSE /\ rows' = DropFirst(all, d)
                /\ provisional' = EndsProvisional(waitingRows)
                /\ bytes' = sum - 2 * d
                /\ dropped' = dropped + d

\* The end of handleLines(): pending text over the limit is flushed at once, anything else
\* when the timer fires; while paused it only accumulates.
FlushOrSchedule(visible, b, waitingRows) ==
    \/ /\ ~paused /\ Len(waitingRows) >= FlushRows
       /\ Flush(visible, b, waitingRows)
    \/ /\ paused \/ Len(waitingRows) < FlushRows
       /\ rows' = visible
       /\ bytes' = b
       /\ pending' = waitingRows
       /\ provisional' = (provisional /\ visible = rows)
       /\ flushTimer' = (flushTimer \/ ~paused)
       /\ UNCHANGED dropped

\* Fault: a provisional row that was already flushed is not pulled back.
AppendLineAfter(line) ==
    /\ FlushOrSchedule(rows, bytes, Overwrite(pending, line))
    /\ log' = Overwrite(log, line)
    /\ received' = received + 1

\* appendLine() and handleLines() for one line: a provisional row already flushed is pulled
\* back first, so that the line can replace it.
AppendLine(line) ==
    /\ IF pending = <<>> /\ provisional /\ rows # <<>>
       THEN FlushOrSchedule(Front(rows), bytes - 2, <<line>>)
       ELSE FlushOrSchedule(rows, bytes, Overwrite(pending, line))
    /\ log' = Overwrite(log, line)
    /\ received' = received + 1

\* clear()
Clear ==
    /\ rows' = <<>>
    /\ provisional' = FALSE
    /\ pending' = <<>>
    /\ bytes' = 0
    /\ dropped' = 0
    /\ log' = <<>>
    /\ received' = 0
    /\ UNCHANGED flushTimer

-----------------------------------------------------------------------------
\* What the page asks of the console.

\* connectTo() and reconnect(): the old stream is stopped, the text cleared, a stream asked for.
Connect(c) ==
    /\ connects < MaxConnects
    /\ connects' = connects + 1
    /\ StartLogs(c, IF connected THEN {shown} ELSE {})
    /\ shown' = c
    /\ connected' = TRUE
    /\ paused' = FALSE
    /\ console' = "connecting"
    /\ Clear
    /\ refused' = FALSE
    /\ doubled' = (doubled \/ waiting[c] > 0)
    /\ UNCHANGED abandons

\* disconnect()
Disconnect ==
    /\ connected
    /\ StopLogs(shown)
    /\ connected' = FALSE
    /\ paused' = FALSE
    /\ console' = "idle"
    /\ UNCHANGED shown
    /\ UNCHANGED textVars
    /\ UNCHANGED historyVars

\* pause(): the flush timer is not stopped.
Pause ==
    /\ connected /\ ~paused
    /\ paused' = TRUE
    /\ console' = "paused"
    /\ UNCHANGED <<shown, connected>>
    /\ UNCHANGED textVars
    /\ UNCHANGED historyVars
    /\ UNCHANGED streamVars
    /\ UNCHANGED handshakeVars

\* Fault: what was held back is left to the next line.
ResumeWithoutFlush ==
    /\ paused
    /\ paused' = FALSE
    /\ console' = "streaming"
    /\ UNCHANGED <<shown, connected>>
    /\ UNCHANGED textVars
    /\ UNCHANGED historyVars
    /\ UNCHANGED streamVars
    /\ UNCHANGED handshakeVars

\* resume(): whether or not there is still a stream.
Resume ==
    /\ paused
    /\ paused' = FALSE
    /\ console' = "streaming"
    /\ Flush(rows, bytes, pending)
    /\ UNCHANGED <<shown, connected, log, received>>
    /\ UNCHANGED historyVars
    /\ UNCHANGED streamVars
    /\ UNCHANGED handshakeVars

\* clear(), asked for by the user
ClearText ==
    /\ Clear
    /\ UNCHANGED stateVars
    /\ UNCHANGED historyVars
    /\ UNCHANGED streamVars
    /\ UNCHANGED handshakeVars

\* m_flushTimer
FlushTimeout ==
    /\ flushTimer
    /\ Flush(rows, bytes, pending)
    /\ UNCHANGED <<log, received>>
    /\ UNCHANGED stateVars
    /\ UNCHANGED historyVars
    /\ UNCHANGED streamVars
    /\ UNCHANGED handshakeVars

-----------------------------------------------------------------------------
\* What the backend signals.

NextLine(complete) == [number |-> received + 1, complete |-> complete]

\* containerLogLines(): only the lines of the container shown are taken.
LinesReceived(c) ==
    /\ LinesArrive(c)
    /\ connected /\ c = shown /\ c \in streams
    /\ received < MaxLines
    /\ \E complete \in BOOLEAN : AppendLine(NextLine(complete))
    /\ console' = IF console = "connecting" THEN "streaming" ELSE console
    /\ UNCHANGED <<shown, connected, paused>>
    /\ UNCHANGED historyVars

\* containerLogsFinished(): the reader's unfinished line comes first.
StreamFinished(c) ==
    /\ StreamEnds(c)
    /\ \/ UNCHANGED textVars
       \/ connected /\ c = shown /\ received < MaxLines /\ AppendLine(NextLine(FALSE))
    /\ IF c = shown
       THEN connected' = FALSE /\ console' \in {"ended", "failed"}
       ELSE UNCHANGED <<connected, console>>
    /\ UNCHANGED <<shown, paused>>
    /\ UNCHANGED historyVars

OrphanFinished(c) ==
    /\ OrphanEnds(c)
    /\ UNCHANGED stateVars
    /\ UNCHANGED textVars
    /\ UNCHANGED historyVars

-----------------------------------------------------------------------------
\* The handshake, driven by the other pages as well.

HandshakeStep ==
    /\ (~engineBusy /\ RefreshEngineInfo) \/ PingPasses \/ VersionPasses
    /\ UNCHANGED streamVars
    /\ UNCHANGED stateVars
    /\ UNCHANGED textVars
    /\ UNCHANGED historyVars

QueueRun ==
    /\ RunWaiting
    /\ UNCHANGED stateVars
    /\ UNCHANGED textVars
    /\ UNCHANGED historyVars

\* The page is told of a failed container section; the console is not told anything.
QueueDropped ==
    /\ \/ \E s \in {"ping", "version"} : HandshakeFails(s) /\ UNCHANGED abandons
       \/ AbandonHandshake /\ abandons < MaxAbandons /\ abandons' = abandons + 1
    /\ DropWaiting
    /\ refused' = (refused \/ \E c \in Containers : waiting[c] > 0)
    /\ UNCHANGED <<doubled, connects>>
    /\ UNCHANGED stateVars
    /\ UNCHANGED textVars

-----------------------------------------------------------------------------

Init ==
    /\ HandshakeInit
    /\ StreamsInit
    /\ shown = NoContainer
    /\ connected = FALSE
    /\ paused = FALSE
    /\ console = "idle"
    /\ rows = <<>>
    /\ provisional = FALSE
    /\ pending = <<>>
    /\ bytes = 0
    /\ dropped = 0
    /\ flushTimer = FALSE
    /\ log = <<>>
    /\ received = 0
    /\ refused = FALSE
    /\ doubled = FALSE
    /\ connects = 0
    /\ abandons = 0

Next ==
    \/ \E c \in Containers :
          Connect(c) \/ LinesReceived(c) \/ StreamFinished(c) \/ OrphanFinished(c)
    \/ Disconnect
    \/ Pause
    \/ Resume
    \/ ClearText
    \/ FlushTimeout
    \/ HandshakeStep
    \/ QueueRun
    \/ QueueDropped

Spec == Init /\ [][Next]_vars

-----------------------------------------------------------------------------

Rows == [number : Nat \ {0}, complete : BOOLEAN]

\* The types of the variables.
TypeOK ==
    /\ StreamsTypeOK
    /\ shown \in Containers \cup {NoContainer}
    /\ connected \in BOOLEAN /\ (connected => shown # NoContainer)
    /\ paused \in BOOLEAN
    /\ console \in {"idle", "connecting", "streaming", "paused", "ended", "failed"}
    /\ rows \in Seq(Rows) /\ Len(rows) <= MaxRows
    /\ pending \in Seq(Rows)
    /\ provisional \in BOOLEAN
    /\ bytes \in Int
    /\ dropped \in Nat
    /\ flushTimer \in BOOLEAN

\* The console shows the log: the visible rows and those held back are the log of this
\* connection from the first row that was not dropped on.  Batching, pausing and trimming
\* neither lose nor reorder a line, and a progress bar redrawn across two batches leaves no
\* half-drawn row behind.
ConsoleShowsLog == rows \o pending = DropFirst(log, dropped)

\* Rows that are not held back by a pause are on their way to the screen: there is no order
\* of batches, pauses and timeouts that leaves them waiting for the next line.
PendingIsScheduled == connected /\ ~paused /\ pending # <<>> => flushTimer

\* A connected console is served: its stream is open or waits for the handshake, unless a
\* handshake has failed under it.  Stopping and starting leaves no mark behind that would
\* make the new request give up.
ConsoleIsServed ==
    connected /\ ~refused => shown \in streams \/ waiting[shown] > 0

\* A stream that was stopped is never opened or left open: only the connected console has
\* one, unless a container was asked for again before its first request had left the queue.
NoStrayStream ==
    ~doubled => /\ streams \subseteq {c \in Containers : connected /\ c = shown}
                /\ \A c \in Containers : orphans[c] = 0

\* docker_backend.h says of m_logStreams that there is at most one log stream per container.
\* It does not hold: two starts before the handshake ends open two streams.
OneStreamPerContainer ==
    \A c \in Containers : orphans[c] + (IF c \in streams THEN 1 ELSE 0) <= 1
=============================================================================
