--------------------------- MODULE LogConsoleProofs ---------------------------
(***************************************************************************)
(* Proofs about LogConsole: for any containers, limits and flush size, any *)
(* number of connections, lines and handshakes.                            *)
(***************************************************************************)
EXTENDS LogConsole, SequenceTheorems, TLAPS

-----------------------------------------------------------------------------
\* The streams.

\* Who may have a stream or wait for one.  A container that waits is the one shown, or is marked,
\* so that its callback gives up; the mark of the container shown has been taken back.
StreamsInv ==
    /\ waiting \in [Containers -> Nat]
    /\ orphans \in [Containers -> Nat]
    /\ streams \subseteq Containers
    /\ connected => shown \in Containers /\ shown \notin marked
    /\ ~doubled =>
          \A c \in Containers :
             /\ waiting[c] <= 1 /\ orphans[c] = 0
             /\ c \in streams => connected /\ c = shown /\ waiting[c] = 0
             /\ waiting[c] = 1 => (connected /\ c = shown) \/ c \in marked

LEMMA StreamsInvInit == Init => StreamsInv /\ ConsoleIsServed /\ streams = {}
  BY DEF Init, StreamsInit, StreamsInv, ConsoleIsServed

\* What the steps of the text, of the state and of the handshake leave alone.
LEMMA StreamsInvIdle ==
    ASSUME StreamsInv, ConsoleIsServed,
           UNCHANGED <<streamVars, shown, connected, refused, doubled>>
    PROVE  StreamsInv' /\ ConsoleIsServed'
  BY DEF StreamsInv, ConsoleIsServed, streamVars

LEMMA ConnectKeepsStreams ==
    ASSUME StreamsInv, ConsoleIsServed, NEW c \in Containers, Connect(c)
    PROVE  StreamsInv' /\ ConsoleIsServed'
<1> DEFINE stopped == IF connected THEN {shown} ELSE {}
<1>1. /\ StartLogs(c, stopped)
      /\ shown' = c /\ connected' = TRUE /\ refused' = FALSE
      /\ doubled' = (doubled \/ waiting[c] > 0)
  BY DEF Connect
<1>2. marked' = ((marked \ (stopped \cap streams)) \cup (stopped \ streams)) \ {c} /\ orphans' = orphans
  BY <1>1 DEF StartLogs, MarkedAfterStop
<1>3. /\ \/ streams' = (streams \ stopped) \cup {c} /\ waiting' = waiting
         \/ streams' = (streams \ stopped) \ {c} /\ waiting' = [waiting EXCEPT ![c] = @ + 1]
  BY <1>1 DEF StartLogs
<1>4. /\ waiting' \in [Containers -> Nat] /\ orphans' \in [Containers -> Nat]
      /\ streams' \subseteq Containers
  BY <1>2, <1>3 DEF StreamsInv
<1>5. c \in streams' \/ waiting'[c] > 0
  BY <1>3 DEF StreamsInv
<1>6. ASSUME ~doubled', NEW d \in Containers
      PROVE  /\ waiting'[d] <= 1 /\ orphans'[d] = 0
             /\ d \in streams' => d = c /\ waiting'[d] = 0
             /\ waiting'[d] = 1 => d = c \/ d \in marked'
  <2>1. ~doubled /\ waiting[c] = 0
    <3>1. ~doubled /\ ~(waiting[c] > 0)
      BY <1>1, <1>6
    <3> QED
      BY <3>1 DEF StreamsInv
  <2>2. /\ waiting[d] <= 1 /\ orphans[d] = 0 /\ waiting[d] \in Nat
        /\ d \in streams => d \in stopped /\ waiting[d] = 0
        /\ waiting[d] = 1 => d \in stopped \/ d \in marked
    BY <1>6, <2>1 DEF StreamsInv
  <2>3. CASE d = c
    BY <1>2, <1>3, <1>4, <2>1, <2>2, <2>3 DEF StreamsInv
  <2>4. CASE d # c
    BY <1>2, <1>3, <2>2, <2>4 DEF StreamsInv
  <2> QED
    BY <2>3, <2>4
<1>7. StreamsInv'
  <2> HIDE DEF stopped
  <2> QED
    BY <1>1, <1>2, <1>4, <1>6 DEF StreamsInv
<1> QED
  BY <1>1, <1>5, <1>7 DEF ConsoleIsServed

LEMMA DisconnectKeepsStreams ==
    ASSUME StreamsInv, Disconnect
    PROVE  StreamsInv' /\ ConsoleIsServed'
<1>1. /\ connected /\ ~connected' /\ doubled' = doubled
      /\ marked' = (marked \ ({shown} \cap streams)) \cup ({shown} \ streams)
      /\ streams' = streams \ {shown} /\ waiting' = waiting /\ orphans' = orphans
  BY DEF Disconnect, StopLogs, MarkedAfterStop, historyVars
<1> QED
  BY <1>1 DEF StreamsInv, ConsoleIsServed

LEMMA QueueRunKeepsStreams ==
    ASSUME StreamsInv, ConsoleIsServed, QueueRun
    PROVE  StreamsInv' /\ ConsoleIsServed'
<1>1. /\ marked' = {c \in marked : waiting[c] = 0}
      /\ streams' = streams \cup {c \in Containers : Opening(c) > 0}
      /\ waiting' = [c \in Containers |-> 0]
      /\ UNCHANGED <<shown, connected, refused, doubled>>
  BY DEF QueueRun, RunWaiting, stateVars, historyVars
<1>2. ASSUME NEW c \in Containers
      PROVE  /\ Opening(c) \in Nat
             /\ c \notin marked => Opening(c) = waiting[c]
             /\ c \in marked /\ waiting[c] <= 1 => Opening(c) = 0
  BY <1>2 DEF StreamsInv, Opening
<1>3. ASSUME NEW c \in Containers
      PROVE  /\ orphans'[c] \in Nat
             /\ Opening(c) + (IF c \in streams THEN 1 ELSE 0) <= 1 => orphans'[c] = orphans[c]
  <2>1. orphans'[c] = LET open == Opening(c) + (IF c \in streams THEN 1 ELSE 0)
                      IN  orphans[c] + (IF open > 1 THEN open - 1 ELSE 0)
    BY DEF QueueRun, RunWaiting
  <2> QED
    BY <1>2, <2>1 DEF StreamsInv
<1>4. orphans' \in [Containers -> Nat]
  <2>1. \E f : orphans' = [c \in Containers |-> f[c]]
    <3> WITNESS orphans'
    <3> QED
      BY DEF QueueRun, RunWaiting
  <2> QED
    BY <1>3, <2>1
<1>5. ASSUME ~doubled, NEW c \in Containers
      PROVE  orphans'[c] = 0 /\ (c \in streams' => connected /\ c = shown)
  <2>1. /\ waiting[c] <= 1 /\ orphans[c] = 0 /\ waiting[c] \in Nat
        /\ c \in streams => connected /\ c = shown /\ waiting[c] = 0
        /\ waiting[c] = 1 => (connected /\ c = shown) \/ c \in marked
    BY <1>5 DEF StreamsInv
  <2>2. Opening(c) <= waiting[c] /\ (Opening(c) > 0 => connected /\ c = shown)
    BY <1>2, <2>1
  <2> QED
    BY <1>1, <1>2, <1>3, <2>1, <2>2
<1>6. StreamsInv'
  BY <1>1, <1>4, <1>5 DEF StreamsInv
<1>7. ConsoleIsServed'
  BY <1>1, <1>2 DEF StreamsInv, ConsoleIsServed
<1> QED
  BY <1>6, <1>7

LEMMA StreamsInvStep ==
    ASSUME StreamsInv, ConsoleIsServed, [Next]_vars
    PROVE  StreamsInv' /\ ConsoleIsServed'
<1>1. ASSUME NEW c \in Containers, LinesReceived(c) PROVE StreamsInv' /\ ConsoleIsServed'
  BY <1>1, StreamsInvIdle DEF LinesReceived, LinesArrive, historyVars
<1>2. ASSUME NEW c \in Containers, StreamFinished(c) PROVE StreamsInv' /\ ConsoleIsServed'
  <2>1. /\ c \in streams /\ streams' = streams \ {c} /\ UNCHANGED <<waiting, marked, orphans>>
        /\ UNCHANGED <<shown, refused, doubled>>
        /\ IF c = shown THEN ~connected' ELSE connected' = connected
    BY <1>2 DEF StreamFinished, StreamEnds, historyVars
  <2> QED
    BY <2>1 DEF StreamsInv, ConsoleIsServed
<1>3. ASSUME NEW c \in Containers, OrphanFinished(c) PROVE StreamsInv' /\ ConsoleIsServed'
  <2>1. /\ orphans[c] > 0 /\ orphans' = [orphans EXCEPT ![c] = @ - 1]
        /\ UNCHANGED <<waiting, marked, streams, shown, connected, refused, doubled>>
    BY <1>3 DEF OrphanFinished, OrphanEnds, stateVars, historyVars
  <2>2. doubled /\ orphans' \in [Containers -> Nat]
    BY <2>1 DEF StreamsInv
  <2> QED
    BY <2>1, <2>2 DEF StreamsInv, ConsoleIsServed
<1>4. CASE Pause \/ Resume \/ ClearText \/ FlushTimeout
  BY <1>4, StreamsInvIdle DEF Pause, Resume, ClearText, FlushTimeout, stateVars, historyVars
<1>5. CASE HandshakeStep \/ UNCHANGED vars
  BY <1>5, StreamsInvIdle DEF HandshakeStep, vars, stateVars, historyVars
<1>6. CASE QueueDropped
  <2>1. /\ waiting' = [c \in Containers |-> 0]
        /\ UNCHANGED <<marked, streams, orphans, shown, connected, doubled>>
        /\ refused' = (refused \/ \E c \in Containers : waiting[c] > 0)
    BY <1>6 DEF QueueDropped, DropWaiting, stateVars
  <2>2. StreamsInv'
    BY <2>1 DEF StreamsInv
  <2>3. ConsoleIsServed'
    BY <2>1 DEF ConsoleIsServed, StreamsInv
  <2> QED
    BY <2>2, <2>3
<1> QED
  BY <1>1, <1>2, <1>3, <1>4, <1>5, <1>6, ConnectKeepsStreams, DisconnectKeepsStreams,
     QueueRunKeepsStreams DEF Next

\* A connected console has its stream, or a request in the queue that will open it, until a
\* handshake fails under it: no order of connecting, disconnecting and reconnecting leaves a mark
\* that the request gives up on (ContainerLogController::connectTo(),
\* DockerBackend::stopContainerLogs()).
THEOREM ConnectedIsServed == Spec => []ConsoleIsServed
  BY StreamsInvInit, StreamsInvStep, PTL DEF Spec

\* A stopped stream is never opened or left open, as long as no container was asked for again
\* while its first request waited (DockerBackend::m_cancelledLogRequests).
THEOREM StoppedStaysStopped == Spec => []NoStrayStream
<1>1. StreamsInv => NoStrayStream
  <2> SUFFICES ASSUME StreamsInv, ~doubled
               PROVE  /\ streams \subseteq {c \in Containers : connected /\ c = shown}
                      /\ \A c \in Containers : orphans[c] = 0
    BY DEF NoStrayStream
  <2> QED
    BY DEF StreamsInv
<1> QED
  BY <1>1, StreamsInvInit, StreamsInvStep, PTL DEF Spec

-----------------------------------------------------------------------------
\* The flush timer.

LEMMA ScheduledLine ==
    ASSUME NEW line, PendingIsScheduled, AppendLine(line), UNCHANGED <<paused, connected>>
    PROVE  PendingIsScheduled'
  BY DEF PendingIsScheduled, AppendLine, FlushOrSchedule, Flush

\* Rows that no pause holds back are always on their way to the screen: every order of lines,
\* pauses, timeouts and reconnections leaves the timer running or nothing to show
\* (ContainerLogController::handleLines(), resume()).
THEOREM HeldRowsAreScheduled == Spec => []PendingIsScheduled
<1>1. Init => PendingIsScheduled
  BY DEF Init, PendingIsScheduled
<1>2. ASSUME PendingIsScheduled, [Next]_vars PROVE PendingIsScheduled'
  <2> USE DEF PendingIsScheduled
  <2>1. CASE UNCHANGED <<pending, connected, paused, flushTimer>>
    BY <1>2, <2>1
  <2>2. ASSUME NEW c \in Containers, Connect(c) PROVE PendingIsScheduled'
    BY <2>2 DEF Connect, Clear
  <2>3. ASSUME NEW c \in Containers, LinesReceived(c) PROVE PendingIsScheduled'
    BY <1>2, <2>3, ScheduledLine DEF LinesReceived
  <2>4. ASSUME NEW c \in Containers, StreamFinished(c) PROVE PendingIsScheduled'
    <3>1. CASE c = shown
      BY <2>4, <3>1 DEF StreamFinished
    <3>2. CASE c # shown
      BY <2>1, <2>4, <3>2 DEF StreamFinished, textVars
    <3> QED
      BY <3>1, <3>2
  <2>5. CASE Disconnect \/ Pause
    BY <2>5 DEF Disconnect, Pause
  <2>6. CASE Resume \/ ClearText \/ FlushTimeout
    BY <2>6 DEF Resume, ClearText, FlushTimeout, Flush, Clear
  <2>7. CASE (\E c \in Containers : OrphanFinished(c)) \/ HandshakeStep \/ QueueRun \/ QueueDropped \/ UNCHANGED vars
    BY <2>1, <2>7 DEF OrphanFinished, HandshakeStep, QueueRun, QueueDropped, vars, stateVars, textVars
  <2> QED
    BY <1>2, <2>2, <2>3, <2>4, <2>5, <2>6, <2>7 DEF Next
<1> QED
  BY <1>1, <1>2, PTL DEF Spec

-----------------------------------------------------------------------------
\* The text.

LEMMA DropFirstProperties ==
    ASSUME NEW s \in Seq(Rows), NEW n \in 0 .. Len(s)
    PROVE  /\ DropFirst(s, n) \in Seq(Rows)
           /\ Len(DropFirst(s, n)) = Len(s) - n
           /\ \A i \in 1 .. Len(s) - n : DropFirst(s, n)[i] = s[n + i]
<1>1. n + 1 \in Int /\ Len(s) \in Int /\ \A i \in n + 1 .. Len(s) : s[i] \in Rows
  OBVIOUS
<1>2. /\ SubSeq(s, n + 1, Len(s)) \in Seq(Rows)
      /\ Len(SubSeq(s, n + 1, Len(s))) = IF n + 1 <= Len(s) THEN Len(s) - (n + 1) + 1 ELSE 0
      /\ \A i \in 1 .. Len(s) - (n + 1) + 1 : SubSeq(s, n + 1, Len(s))[i] = s[n + 1 + i - 1]
  BY <1>1, SubSeqProperties
<1> QED
  BY <1>2 DEF DropFirst

LEMMA FrontProperties ==
    ASSUME NEW s \in Seq(Rows), s # <<>>
    PROVE  /\ Front(s) \in Seq(Rows)
           /\ Len(Front(s)) = Len(s) - 1
           /\ \A i \in 1 .. Len(s) - 1 : Front(s)[i] = s[i]
<1>1. 1 \in Int /\ Len(s) - 1 \in Int /\ Len(s) > 0 /\ \A i \in 1 .. Len(s) - 1 : s[i] \in Rows
  BY EmptySeq
<1>2. /\ SubSeq(s, 1, Len(s) - 1) \in Seq(Rows)
      /\ Len(SubSeq(s, 1, Len(s) - 1)) = IF 1 <= Len(s) - 1 THEN Len(s) - 1 - 1 + 1 ELSE 0
      /\ \A i \in 1 .. Len(s) - 1 - 1 + 1 : SubSeq(s, 1, Len(s) - 1)[i] = s[1 + i - 1]
  BY <1>1, SubSeqProperties
<1>3. \A i \in 1 .. Len(s) - 1 : SubSeq(s, 1, Len(s) - 1)[i] = s[i]
  <2> SUFFICES ASSUME NEW i \in 1 .. Len(s) - 1 PROVE SubSeq(s, 1, Len(s) - 1)[i] = s[i]
    OBVIOUS
  <2>1. i \in 1 .. Len(s) - 1 - 1 + 1 /\ 1 + i - 1 = i
    BY <1>1
  <2> QED
    BY <1>2, <2>1
<1>4. Len(SubSeq(s, 1, Len(s) - 1)) = Len(s) - 1
  <2> DEFINE front == SubSeq(s, 1, Len(s) - 1)
  <2>1. Len(front) = IF 1 <= Len(s) - 1 THEN Len(s) - 1 - 1 + 1 ELSE 0
    BY <1>2
  <2>2. Len(s) \in Nat \ {0}
    BY <1>1
  <2>3. \A n \in Nat \ {0} : (IF 1 <= n - 1 THEN n - 1 - 1 + 1 ELSE 0) = n - 1
    OBVIOUS
  <2> HIDE DEF front
  <2>4. Len(front) = Len(s) - 1
    BY <2>1, <2>2, <2>3, Zenon
  <2> QED
    BY <2>4 DEF front
<1> QED
  BY <1>2, <1>3, <1>4 DEF Front

LEMMA OverwriteProperties ==
    ASSUME NEW s \in Seq(Rows), NEW line \in Rows
    PROVE  /\ Overwrite(s, line) \in Seq(Rows)
           /\ Overwrite(s, line) # <<>>
           /\ Len(Overwrite(s, line)) = IF EndsProvisional(s) THEN Len(s) ELSE Len(s) + 1
           /\ \A i \in 1 .. Len(Overwrite(s, line)) - 1 : Overwrite(s, line)[i] = s[i]
           /\ Overwrite(s, line)[Len(Overwrite(s, line))] = line
<1>1. CASE EndsProvisional(s)
  <2>1. s # <<>> /\ Overwrite(s, line) = Append(Front(s), line)
    BY <1>1 DEF EndsProvisional, Overwrite
  <2>2. /\ Front(s) \in Seq(Rows) /\ Len(Front(s)) = Len(s) - 1 /\ Len(s) \in Nat
        /\ \A i \in 1 .. Len(s) - 1 : Front(s)[i] = s[i]
    BY <2>1, FrontProperties
  <2>3. /\ Overwrite(s, line) \in Seq(Rows) /\ Len(Overwrite(s, line)) = Len(s)
        /\ Overwrite(s, line)[Len(s)] = line
        /\ \A i \in 1 .. Len(s) - 1 : Overwrite(s, line)[i] = Front(s)[i]
    BY <2>1, <2>2, AppendProperties
  <2>4. Overwrite(s, line) # <<>>
    BY <2>1, <2>3, EmptySeq
  <2> QED
    BY <1>1, <2>2, <2>3, <2>4
<1>2. CASE ~EndsProvisional(s)
  BY <1>2 DEF Overwrite
<1> QED
  BY <1>1, <1>2

\* Rows dropped in two batches are the rows dropped at once.
LEMMA DropTwice ==
    ASSUME NEW s \in Seq(Rows), NEW m \in 0 .. Len(s), NEW n \in 0 .. Len(s) - m
    PROVE  DropFirst(DropFirst(s, m), n) = DropFirst(s, m + n)
<1>1. m + n \in 0 .. Len(s)
  OBVIOUS
<1>2. DropFirst(s, m) \in Seq(Rows) /\ n \in 0 .. Len(DropFirst(s, m))
  BY DropFirstProperties
<1>3. /\ DropFirst(DropFirst(s, m), n) \in Seq(Rows) /\ DropFirst(s, m + n) \in Seq(Rows)
      /\ Len(DropFirst(DropFirst(s, m), n)) = Len(DropFirst(s, m + n))
  BY <1>1, <1>2, DropFirstProperties
<1>4. ASSUME NEW i \in 1 .. Len(DropFirst(s, m + n))
      PROVE  DropFirst(DropFirst(s, m), n)[i] = DropFirst(s, m + n)[i]
  <2>1. i \in 1 .. Len(s) - m - n /\ n + i \in 1 .. Len(s) - m
    BY <1>1, <1>4, DropFirstProperties
  <2>2. DropFirst(DropFirst(s, m), n)[i] = DropFirst(s, m)[n + i]
    BY <1>2, <2>1, DropFirstProperties
  <2>3. DropFirst(s, m)[n + i] = s[m + (n + i)]
    BY <2>1, DropFirstProperties
  <2>4. DropFirst(s, m + n)[i] = s[m + n + i]
    BY <1>1, <2>1, DropFirstProperties
  <2> QED
    BY <2>2, <2>3, <2>4
<1> QED
  BY <1>3, <1>4, SeqEqual

\* Dropping the oldest rows does not interfere with the replacement of the last one.
LEMMA DropOverwrite ==
    ASSUME NEW s \in Seq(Rows), NEW line \in Rows, NEW n \in Nat,
           n < Len(s) \/ (n = 0 /\ s = <<>>)
    PROVE  DropFirst(Overwrite(s, line), n) = Overwrite(DropFirst(s, n), line)
<1> DEFINE o == Overwrite(s, line)
<1> DEFINE t == DropFirst(s, n)
<1> DEFINE u == Overwrite(t, line)
<1>1. n \in 0 .. Len(s) /\ Len(s) \in Nat
  BY EmptySeq
<1>2. /\ t \in Seq(Rows) /\ Len(t) = Len(s) - n
      /\ \A i \in 1 .. Len(s) - n : t[i] = s[n + i]
  BY <1>1, DropFirstProperties
<1>3. /\ o \in Seq(Rows) /\ o # <<>>
      /\ Len(o) = IF EndsProvisional(s) THEN Len(s) ELSE Len(s) + 1
      /\ \A i \in 1 .. Len(o) - 1 : o[i] = s[i]
      /\ o[Len(o)] = line
  BY OverwriteProperties
<1>4. /\ u \in Seq(Rows) /\ u # <<>>
      /\ Len(u) = IF EndsProvisional(t) THEN Len(t) ELSE Len(t) + 1
      /\ \A i \in 1 .. Len(u) - 1 : u[i] = t[i]
      /\ u[Len(u)] = line
  BY <1>2, OverwriteProperties
<1> HIDE DEF o, t, u
<1>5. EndsProvisional(t) = EndsProvisional(s)
  <2>1. CASE s = <<>>
    <3>1. Len(t) = 0
      BY <1>1, <1>2, <2>1
    <3>2. t = <<>>
      BY <1>2, <3>1, EmptySeq
    <3> QED
      BY <2>1, <3>2 DEF EndsProvisional
  <2>2. CASE n < Len(s)
    <3>1. Len(s) - n \in 1 .. Len(s) - n /\ n + (Len(s) - n) = Len(s)
      BY <1>1, <2>2
    <3>2. t # <<>> /\ s # <<>> /\ t[Len(t)] = s[Len(s)]
      BY <1>1, <1>2, <2>2, <3>1
    <3> QED
      BY <3>2 DEF EndsProvisional
  <2> QED
    BY <2>1, <2>2
<1>6. Len(u) = Len(o) - n /\ n < Len(o) /\ Len(o) \in Nat
  <2>1. EndsProvisional(s) => s # <<>>
    BY DEF EndsProvisional
  <2> QED
    BY <1>1, <1>2, <1>3, <1>4, <1>5, <2>1
<1>7. /\ DropFirst(o, n) \in Seq(Rows) /\ Len(DropFirst(o, n)) = Len(u)
      /\ \A i \in 1 .. Len(u) : DropFirst(o, n)[i] = o[n + i]
  <2>1. n \in 0 .. Len(o)
    BY <1>6
  <2> QED
    BY <1>3, <1>6, <2>1, DropFirstProperties
<1>8. ASSUME NEW i \in 1 .. Len(u) PROVE o[n + i] = u[i]
  <2>1. CASE i = Len(u)
    <3>1. n + i = Len(o)
      BY <1>6, <2>1
    <3> QED
      BY <1>3, <1>4, <2>1, <3>1
  <2>2. CASE i # Len(u)
    <3>1. /\ i \in 1 .. Len(u) - 1 /\ n + i \in 1 .. Len(o) - 1
          /\ i \in 1 .. Len(s) - n
      BY <1>1, <1>3, <1>6, <2>2
    <3> QED
      BY <1>2, <1>3, <1>4, <3>1
  <2> QED
    BY <2>1, <2>2
<1>9. DropFirst(o, n) = u
  BY <1>4, <1>7, <1>8, SeqEqual
<1> QED
  BY <1>9 DEF o, t, u
\* trimToLimits() stops before the last row.
LEMMA ExcessBounds ==
    ASSUME NEW s \in Seq(Rows), s # <<>>, NEW b \in Int
    PROVE  Excess(s, b) \in 0 .. Len(s) - 1
<1> DEFINE Over(d) == Len(s) - d > MaxRows \/ (b - 2 * d > MaxBytes /\ Len(s) - d > 1)
<1> DEFINE Fits(d) == d \in 0 .. Len(s) /\ ~Over(d) /\ \A e \in 0 .. d - 1 : Over(e)
<1>1. Len(s) \in Nat \ {0}
  BY EmptySeq
<1>2. MaxRows \in Nat \ {0} /\ MaxBytes \in Nat \ {0}
  BY ConsoleAssumption
<1>3. \A d \in 0 .. Len(s) : ~Over(d) /\ (\A e \in 0 .. d - 1 : Over(e)) => d \in 0 .. Len(s) - 1
  <2> SUFFICES ASSUME NEW d \in 0 .. Len(s), \A e \in 0 .. d - 1 : Over(e), d = Len(s)
               PROVE  FALSE
    BY <1>1
  <2>1. Len(s) - 1 \in 0 .. d - 1
    BY <1>1
  <2>2. Over(Len(s) - 1)
    BY <2>1
  <2> QED
    BY <1>1, <1>2, <2>2
<1>4. \E d \in 0 .. Len(s) : Fits(d)
  <2>1. PICK h \in Nat : /\ b - 2 * h <= MaxBytes
                         /\ \A e \in Nat : e < h => b - 2 * e > MaxBytes
    <3>1. CASE b <= MaxBytes
      BY <1>2, <3>1
    <3>2. CASE b > MaxBytes
      <4> DEFINE x == b - MaxBytes
      <4> DEFINE k == (x + 1) \div 2
      <4>1. x \in Nat /\ k \in Nat /\ 2 * k >= x /\ 2 * k <= x + 1
        BY <1>2, <3>2
      <4>2. /\ b - 2 * k <= MaxBytes
            /\ \A e \in Nat : e < k => b - 2 * e > MaxBytes
        <5> HIDE DEF k
        <5> QED
          BY <1>2, <4>1
      <4> QED
        BY <4>1, <4>2
    <3> QED
      BY <1>2, <3>1, <3>2
  <2> DEFINE g == IF h < Len(s) - 1 THEN h ELSE Len(s) - 1
  <2> DEFINE w == IF Len(s) - MaxRows > g THEN Len(s) - MaxRows ELSE g
  <2>2. g \in 0 .. Len(s) - 1 /\ w \in 0 .. Len(s) - 1 /\ g <= w
    BY <1>1, <1>2
  <2>3. ~Over(w)
    BY <1>1, <1>2, <2>1, <2>2
  <2>4. ASSUME NEW e \in 0 .. w - 1 PROVE Over(e)
    <3>1. CASE Len(s) - e > MaxRows
      BY <3>1
    <3>2. CASE ~(Len(s) - e > MaxRows)
      <4>1. e \in Nat /\ e < g
        BY <1>1, <1>2, <2>2, <3>2
      <4> QED
        BY <1>1, <2>1, <4>1
    <3> QED
      BY <3>1, <3>2
  <2> WITNESS w \in 0 .. Len(s)
  <2> QED
    BY <2>2, <2>3, <2>4
<1>5. Excess(s, b) = CHOOSE d \in 0 .. Len(s) : ~Over(d) /\ \A e \in 0 .. d - 1 : Over(e)
  BY DEF Excess
<1>6. Excess(s, b) \in 0 .. Len(s) /\ ~Over(Excess(s, b)) /\ \A e \in 0 .. Excess(s, b) - 1 : Over(e)
  <2> HIDE DEF Over
  <2> QED
    BY <1>4, <1>5
<1> HIDE DEF Over
<1> QED
  BY <1>3, <1>6

\* The rows r and the held rows p show the log `full' from its row gone + 1 on, and the mark prov
\* of a provisional last row is right when it will be asked for.
Shows(r, p, full, gone, prov) ==
    /\ r \in Seq(Rows) /\ p \in Seq(Rows) /\ full \in Seq(Rows)
    /\ gone \in Nat /\ (gone < Len(full) \/ (gone = 0 /\ full = <<>>))
    /\ r \o p = DropFirst(full, gone)
    /\ p = <<>> /\ r # <<>> => prov = EndsProvisional(r)

TextInv ==
    /\ Shows(rows, pending, log, dropped, provisional)
    /\ bytes \in Int /\ received \in Nat /\ provisional \in BOOLEAN

LEMMA EndsOfConcat ==
    ASSUME NEW r \in Seq(Rows), NEW p \in Seq(Rows), p # <<>>
    PROVE  r \o p # <<>> /\ EndsProvisional(r \o p) = EndsProvisional(p)
<1>1. Len(p) \in Nat \ {0} /\ Len(r) \in Nat
  BY EmptySeq
<1>2. r \o p \in Seq(Rows) /\ Len(r \o p) = Len(r) + Len(p) /\ (r \o p)[Len(r) + Len(p)] = p[Len(p)]
  BY <1>1
<1>3. r \o p # <<>>
  BY <1>1, <1>2, EmptySeq
<1> QED
  BY <1>2, <1>3 DEF EndsProvisional

LEMMA EndsOfDrop ==
    ASSUME NEW s \in Seq(Rows), NEW n \in 0 .. Len(s) - 1
    PROVE  DropFirst(s, n) # <<>> /\ EndsProvisional(DropFirst(s, n)) = EndsProvisional(s)
<1> DEFINE t == DropFirst(s, n)
<1>1. Len(s) \in Nat \ {0} /\ n \in 0 .. Len(s) /\ s # <<>>
  OBVIOUS
<1>2. /\ t \in Seq(Rows) /\ Len(t) = Len(s) - n
      /\ \A i \in 1 .. Len(s) - n : t[i] = s[n + i]
  BY <1>1, DropFirstProperties
<1> HIDE DEF t
<1>3. Len(s) - n \in 1 .. Len(s) - n /\ n + (Len(s) - n) = Len(s)
  BY <1>1
<1>4. t # <<>> /\ t[Len(t)] = s[Len(s)]
  BY <1>1, <1>2, <1>3, EmptySeq
<1>5. t # <<>> /\ EndsProvisional(t) = EndsProvisional(s)
  BY <1>1, <1>4 DEF EndsProvisional
<1> QED
  BY <1>5 DEF t

LEMMA AppendOfConcat ==
    ASSUME NEW r \in Seq(Rows), NEW p \in Seq(Rows), NEW line \in Rows
    PROVE  Append(r \o p, line) = r \o Append(p, line)
<1>1. r \o p \in Seq(Rows) /\ <<line>> \in Seq(Rows)
  BY ConcatProperties
<1>2. Append(r \o p, line) = (r \o p) \o <<line>> /\ Append(p, line) = p \o <<line>>
  BY <1>1, AppendIsConcat
<1>3. (r \o p) \o <<line>> = r \o (p \o <<line>>)
  BY <1>1, ConcatAssociative
<1> QED
  BY <1>2, <1>3

LEMMA FrontOfConcat ==
    ASSUME NEW r \in Seq(Rows), NEW p \in Seq(Rows), p # <<>>
    PROVE  Front(r \o p) = r \o Front(p)
<1> DEFINE whole == r \o p
<1> DEFINE front == Front(p)
<1> DEFINE other == r \o front
<1>1. /\ Len(p) \in Nat \ {0} /\ Len(r) \in Nat
      /\ whole \in Seq(Rows) /\ Len(whole) = Len(r) + Len(p)
      /\ \A i \in 1 .. Len(r) + Len(p) : whole[i] = IF i <= Len(r) THEN r[i] ELSE p[i - Len(r)]
  BY ConcatProperties, EmptySeq, LenProperties
<1>2. whole # <<>>
  BY EndsOfConcat
<1>3. /\ front \in Seq(Rows) /\ Len(front) = Len(p) - 1
      /\ \A i \in 1 .. Len(p) - 1 : front[i] = p[i]
  BY FrontProperties
<1> HIDE DEF front
<1>4. /\ other \in Seq(Rows) /\ Len(other) = Len(r) + Len(front)
      /\ \A i \in 1 .. Len(r) + Len(front) : other[i] = IF i <= Len(r) THEN r[i] ELSE front[i - Len(r)]
  BY <1>3, ConcatProperties
<1> HIDE DEF whole, other
<1>5. /\ Front(whole) \in Seq(Rows) /\ Len(Front(whole)) = Len(whole) - 1
      /\ \A i \in 1 .. Len(whole) - 1 : Front(whole)[i] = whole[i]
  BY <1>1, <1>2, FrontProperties
<1>6. Len(Front(whole)) = Len(other)
  BY <1>1, <1>3, <1>4, <1>5
<1>7. ASSUME NEW i \in 1 .. Len(Front(whole)) PROVE Front(whole)[i] = other[i]
  <2>1. i \in 1 .. Len(r) + Len(p) - 1 /\ i \in 1 .. Len(r) + Len(p) /\ i \in 1 .. Len(r) + Len(front)
    BY <1>1, <1>3, <1>5, <1>7
  <2>2. CASE i <= Len(r)
    BY <1>1, <1>4, <1>5, <2>1, <2>2
  <2>3. CASE ~(i <= Len(r))
    <3>1. i - Len(r) \in 1 .. Len(p) - 1
      BY <1>1, <2>1, <2>3
    <3> QED
      BY <1>1, <1>3, <1>4, <1>5, <2>1, <2>3, <3>1
  <2> QED
    BY <2>2, <2>3
<1>8. Front(whole) = other
  BY <1>4, <1>5, <1>6, <1>7, SeqEqual
<1> QED
  BY <1>8 DEF whole, other, front

\* flushNow() with any visible and held rows that show a log.
LEMMA FlushShows ==
    ASSUME NEW r, NEW p, NEW b \in Int, NEW full, NEW prov \in BOOLEAN,
           Shows(r, p, full, dropped, prov), bytes \in Int,
           p = <<>> => r = rows /\ prov = provisional,
           Flush(r, b, p)
    PROVE  /\ Shows(rows', pending', full, dropped', provisional')
           /\ bytes' \in Int /\ provisional' \in BOOLEAN
<1>1. CASE p = <<>>
  BY <1>1 DEF Flush, Shows
<1>2. CASE p # <<>>
  <2> DEFINE all == r \o p
  <2> DEFINE d == Excess(all, b + Len(p))
  <2>1. /\ r \in Seq(Rows) /\ p \in Seq(Rows) /\ full \in Seq(Rows)
        /\ dropped \in Nat /\ (dropped < Len(full) \/ (dropped = 0 /\ full = <<>>))
        /\ all = DropFirst(full, dropped)
    BY DEF Shows
  <2>2. all \in Seq(Rows) /\ all # <<>> /\ EndsProvisional(all) = EndsProvisional(p)
    <3>1. all \in Seq(Rows)
      BY <2>1, ConcatProperties
    <3>2. all # <<>> /\ EndsProvisional(all) = EndsProvisional(p)
      BY <1>2, <2>1, EndsOfConcat
    <3> QED
      BY <3>1, <3>2
  <2>3. dropped \in 0 .. Len(full) /\ Len(full) \in Nat
    BY <2>1, EmptySeq
  <2>4. Len(all) = Len(full) - dropped /\ Len(all) \in Nat
    BY <2>1, <2>2, <2>3, DropFirstProperties
  <2>5. d \in 0 .. Len(all) - 1
    <3>1. b + Len(p) \in Int
      BY <2>1, LenProperties
    <3> HIDE DEF all
    <3> QED
      BY <2>2, <3>1, ExcessBounds
  <2>6. /\ rows' = DropFirst(all, d) /\ pending' = <<>>
        /\ provisional' = EndsProvisional(p) /\ dropped' = dropped + d
        /\ bytes' = (b + Len(p)) - 2 * d
    BY <1>2, Zenon DEF Flush
  <2> HIDE DEF all, d
  <2>7. rows' = DropFirst(full, dropped + d)
    BY <2>1, <2>3, <2>4, <2>5, <2>6, DropTwice
  <2>8. rows' \in Seq(Rows) /\ EndsProvisional(rows') = EndsProvisional(p)
    <3>1. d \in 0 .. Len(all)
      BY <2>4, <2>5
    <3> QED
      BY <2>2, <2>5, <2>6, <3>1, DropFirstProperties, EndsOfDrop
  <2>9. /\ dropped' \in Nat /\ dropped' < Len(full) /\ bytes' \in Int
        /\ provisional' \in BOOLEAN
    <3>1. bytes' \in Int
      BY <2>1, <2>5, <2>6
    <3>2. dropped' \in Nat /\ dropped' < Len(full)
      BY <2>3, <2>4, <2>5, <2>6
    <3>3. provisional' \in BOOLEAN
      BY <2>6 DEF EndsProvisional
    <3> QED
      BY <3>1, <3>2, <3>3
  <2>10. rows' \o pending' = DropFirst(full, dropped') /\ pending' \in Seq(Rows)
    BY <2>6, <2>7, <2>8
  <2> QED
    BY <2>1, <2>6, <2>8, <2>9, <2>10 DEF Shows
<1> QED
  BY <1>1, <1>2
\* handleLines() for one line: what is visible and held shows the log with the line in it.
LEMMA LineShows ==
    ASSUME TextInv, NEW line \in Rows, AppendLine(line)
    PROVE  TextInv'
<1> DEFINE full == Overwrite(log, line)
<1>1. /\ rows \in Seq(Rows) /\ pending \in Seq(Rows) /\ log \in Seq(Rows)
      /\ dropped \in Nat /\ (dropped < Len(log) \/ (dropped = 0 /\ log = <<>>))
      /\ rows \o pending = DropFirst(log, dropped)
      /\ pending = <<>> /\ rows # <<>> => provisional = EndsProvisional(rows)
      /\ bytes \in Int /\ received \in Nat /\ provisional \in BOOLEAN
  BY DEF TextInv, Shows
<1>2. full \in Seq(Rows) /\ full # <<>> /\ dropped < Len(full)
  <2>1. EndsProvisional(log) => log # <<>>
    BY DEF EndsProvisional
  <2>2. Len(log) \in Nat /\ (log # <<>> => Len(log) > 0)
    BY <1>1, EmptySeq
  <2>3. /\ full \in Seq(Rows) /\ full # <<>>
        /\ Len(full) = IF EndsProvisional(log) THEN Len(log) ELSE Len(log) + 1
    BY <1>1, OverwriteProperties
  <2> HIDE DEF full
  <2> QED
    BY <1>1, <2>1, <2>2, <2>3
<1>3. DropFirst(full, dropped) = Overwrite(rows \o pending, line)
  BY <1>1, DropOverwrite
<1>4. log' = full /\ received' = received + 1
  BY DEF AppendLine
\* The rows and the held rows before the flush is decided.
<1>5. ASSUME NEW r \in Seq(Rows), NEW p \in Seq(Rows), p # <<>>, NEW b \in Int,
             r \o p = Overwrite(rows \o pending, line),
             FlushOrSchedule(r, b, p)
      PROVE  TextInv'
  <2>1. Shows(r, p, full, dropped, provisional)
    BY <1>1, <1>2, <1>3, <1>5 DEF Shows
  <2>2. CASE ~paused /\ Len(p) >= FlushRows /\ Flush(r, b, p)
    BY <1>1, <1>4, <1>5, <2>1, <2>2, FlushShows DEF TextInv
  <2>3. CASE /\ rows' = r /\ bytes' = b /\ pending' = p /\ dropped' = dropped
             /\ provisional' = (provisional /\ r = rows)
    BY <1>1, <1>4, <1>5, <2>1, <2>3 DEF TextInv, Shows
  <2> QED
    BY <1>5, <2>2, <2>3 DEF FlushOrSchedule
<1>6. CASE pending = <<>> /\ provisional /\ rows # <<>>
  <2>1. rows \o pending = rows /\ EndsProvisional(rows)
    BY <1>1, <1>6, ConcatEmptySeq
  <2>2. Front(rows) \in Seq(Rows) /\ <<line>> \in Seq(Rows) /\ <<line>> # <<>>
    BY <1>1, <1>6, FrontProperties
  <2>3. Front(rows) \o <<line>> = Overwrite(rows, line)
    BY <2>1, <2>2, AppendIsConcat DEF Overwrite
  <2>4. FlushOrSchedule(Front(rows), bytes - 2, <<line>>) /\ bytes - 2 \in Int
    BY <1>1, <1>6 DEF AppendLine
  <2> QED
    BY <1>5, <2>1, <2>2, <2>3, <2>4
<1>7. CASE ~(pending = <<>> /\ provisional /\ rows # <<>>)
  <2>1. /\ Overwrite(pending, line) \in Seq(Rows) /\ Overwrite(pending, line) # <<>>
        /\ FlushOrSchedule(rows, bytes, Overwrite(pending, line))
    BY <1>1, <1>7, OverwriteProperties DEF AppendLine
  <2>2. CASE pending = <<>>
    <3>1. rows \o pending = rows /\ ~EndsProvisional(rows) /\ ~EndsProvisional(pending)
      BY <1>1, <1>7, <2>2, ConcatEmptySeq DEF EndsProvisional
    <3>2. Overwrite(pending, line) = <<line>> /\ Overwrite(rows, line) = rows \o <<line>>
      BY <1>1, <2>2, <3>1, AppendIsConcat DEF Overwrite
    <3> QED
      BY <1>1, <1>5, <2>1, <3>1, <3>2
  <2>3. CASE pending # <<>>
    <3>1. EndsProvisional(rows \o pending) = EndsProvisional(pending)
      BY <1>1, <2>3, EndsOfConcat
    <3>2. rows \o Overwrite(pending, line) = Overwrite(rows \o pending, line)
      <4>1. CASE EndsProvisional(pending)
        <5>1. Front(rows \o pending) = rows \o Front(pending)
          BY <1>1, <2>3, FrontOfConcat
        <5>2. Front(pending) \in Seq(Rows)
          BY <1>1, <2>3, FrontProperties
        <5> QED
          BY <1>1, <3>1, <4>1, <5>1, <5>2, AppendOfConcat DEF Overwrite
      <4>2. CASE ~EndsProvisional(pending)
        BY <1>1, <3>1, <4>2, AppendOfConcat DEF Overwrite
      <4> QED
        BY <4>1, <4>2
    <3> QED
      BY <1>1, <1>5, <2>1, <3>2
  <2> QED
    BY <2>2, <2>3
<1> QED
  BY <1>6, <1>7

LEMMA EmptyShows == Shows(<<>>, <<>>, <<>>, 0, FALSE)
<1>1. <<>> \in Seq(Rows) /\ Len(<<>>) = 0
  BY EmptySeq
<1>2. SubSeq(<<>>, 1, 0) = <<>>
  BY SubSeqEmpty
<1>3. DropFirst(<<>>, 0) = <<>>
  BY <1>1, <1>2 DEF DropFirst
<1>4. <<>> \o <<>> = <<>>
  BY <1>1, ConcatEmptySeq
<1> QED
  BY <1>1, <1>3, <1>4 DEF Shows

LEMMA ClearShows ==
    ASSUME Clear
    PROVE  TextInv'
<1>1. Shows(<<>>, <<>>, <<>>, 0, FALSE)
  BY EmptyShows
<1>2. /\ rows' = <<>> /\ pending' = <<>> /\ log' = <<>> /\ dropped' = 0
      /\ provisional' = FALSE /\ bytes' = 0 /\ received' = 0
  BY DEF Clear
<1>3. Shows(rows', pending', log', dropped', provisional')
  BY <1>1, <1>2, Zenon
<1>4. bytes' \in Int /\ received' \in Nat
  <2>1. 0 \in Int /\ 0 \in Nat
    OBVIOUS
  <2> QED
    BY <1>2, <2>1, Zenon
<1>5. provisional' \in BOOLEAN
  BY <1>2, Zenon
<1> QED
  BY <1>3, <1>4, <1>5 DEF TextInv

LEMMA TextInvStep ==
    ASSUME TextInv, [Next]_vars
    PROVE  TextInv'
<1>1. CASE UNCHANGED <<rows, provisional, pending, bytes, dropped, log, received>>
  BY <1>1 DEF TextInv, Shows
<1>2. ASSUME NEW complete \in BOOLEAN PROVE NextLine(complete) \in Rows
  BY DEF TextInv, NextLine, Rows
<1>3. ASSUME Flush(rows, bytes, pending), UNCHANGED <<log, received>> PROVE TextInv'
  BY <1>3, FlushShows DEF TextInv
<1>4. ASSUME NEW c \in Containers, Connect(c) PROVE TextInv'
  BY <1>4, ClearShows DEF Connect
<1>5. ASSUME NEW c \in Containers, LinesReceived(c) PROVE TextInv'
  BY <1>2, <1>5, LineShows DEF LinesReceived
<1>6. ASSUME NEW c \in Containers, StreamFinished(c) PROVE TextInv'
  BY <1>1, <1>2, <1>6, LineShows DEF StreamFinished, textVars
<1>7. CASE Resume \/ FlushTimeout
  BY <1>3, <1>7 DEF Resume, FlushTimeout
<1>8. CASE ClearText
  BY <1>8, ClearShows DEF ClearText
<1>9. CASE \/ \E c \in Containers : OrphanFinished(c)
           \/ Disconnect \/ Pause \/ HandshakeStep \/ QueueRun \/ QueueDropped \/ UNCHANGED vars
  BY <1>1, <1>9 DEF OrphanFinished, Disconnect, Pause, HandshakeStep, QueueRun, QueueDropped,
     vars, textVars
<1> QED
  BY <1>4, <1>5, <1>6, <1>7, <1>8, <1>9 DEF Next

\* The console shows the log of its connection from the first row that was not dropped on:
\* batches, pauses, limits and redrawn lines neither lose, reorder nor repeat a row
\* (ContainerLogController::appendLine(), flushNow(), trimToLimits()).
THEOREM LogIsShown == Spec => []ConsoleShowsLog
<1>1. Init => TextInv
  <2> SUFFICES ASSUME Init PROVE TextInv
    OBVIOUS
  <2>1. /\ rows = <<>> /\ pending = <<>> /\ log = <<>> /\ dropped = 0
        /\ provisional = FALSE /\ bytes = 0 /\ received = 0
    BY DEF Init
  <2>2. Shows(rows, pending, log, dropped, provisional)
    BY <2>1, EmptyShows, Zenon
  <2>3. bytes \in Int /\ received \in Nat
    <3>1. 0 \in Int /\ 0 \in Nat
      OBVIOUS
    <3> QED
      BY <2>1, <3>1, Zenon
  <2>4. provisional \in BOOLEAN
    BY <2>1, Zenon
  <2> QED
    BY <2>2, <2>3, <2>4 DEF TextInv
<1>2. TextInv => ConsoleShowsLog
  BY DEF TextInv, Shows, ConsoleShowsLog
<1> QED
  BY <1>1, <1>2, TextInvStep, PTL DEF Spec
=============================================================================
