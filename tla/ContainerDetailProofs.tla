------------------------- MODULE ContainerDetailProofs -------------------------
(***************************************************************************)
(* Proofs about ContainerDetail: the page and the metrics of any number of *)
(* containers, pages and outstanding requests, with any history.           *)
(***************************************************************************)
EXTENDS ContainerDetail, TLAPS

\* What an exchange with the backend does to the keys, the queue and the wire, whether the
\* requests it adds are sent or wait.
LEMMA ExchangeTypes ==
    ASSUME NEW answered \in SUBSET Requests, NEW asked \in SUBSET Requests,
           keys \subseteq Requests,
           queued \in [Requests -> Nat], wire \in [Requests -> Nat],
           Exchange(answered, asked)
    PROVE  /\ keys' \subseteq Requests
           /\ queued' \in [Requests -> Nat] /\ wire' \in [Requests -> Nat]
<1> DEFINE new == asked \ (keys \ answered)
           More(count) == [r \in Requests |-> count[r] + IF r \in new THEN 1 ELSE 0]
           left == [r \in Requests |-> wire[r] - IF r \in answered THEN 1 ELSE 0]
<1>1. \A r \in answered : wire[r] > 0
  BY DEF Exchange
<1>2. left \in [Requests -> Nat]
  BY <1>1
<1>3. ASSUME NEW count \in [Requests -> Nat] PROVE More(count) \in [Requests -> Nat]
  OBVIOUS
<1>4. keys' = (keys \ answered) \cup new
  BY DEF Exchange
<1>5. \/ queued' = More(queued) /\ wire' = left
      \/ queued' = queued /\ wire' = More(left)
  BY DEF Exchange
<1> HIDE DEF new, More, left
<1>6. queued' \in [Requests -> Nat] /\ wire' \in [Requests -> Nat]
  BY <1>2, <1>3, <1>5
<1>7. keys' \subseteq Requests
  BY <1>4 DEF new
<1> QED
  BY <1>6, <1>7

\* A request that is asked for has its key and is unanswered; only an answer to it can take
\* these away.
LEMMA ExchangeKeys ==
    ASSUME NEW answered \in SUBSET Requests, NEW asked \in SUBSET Requests,
           queued \in [Requests -> Nat], wire \in [Requests -> Nat],
           Exchange(answered, asked)
    PROVE  /\ keys' = (keys \ answered) \cup asked
           /\ \A r \in Requests \ answered : Unanswered(r)' >= Unanswered(r)
           /\ \A r \in asked : r \in keys \ answered \/ Unanswered(r)' > 0
<1> DEFINE new == asked \ (keys \ answered)
           More(count) == [r \in Requests |-> count[r] + IF r \in new THEN 1 ELSE 0]
           left == [r \in Requests |-> wire[r] - IF r \in answered THEN 1 ELSE 0]
<1>1. \A r \in answered : wire[r] > 0
  BY DEF Exchange
<1>2. left \in [Requests -> Nat] /\ \A r \in Requests \ answered : left[r] = wire[r]
  BY <1>1
<1>3. ASSUME NEW count \in [Requests -> Nat], NEW r \in Requests
      PROVE  /\ More(count)[r] \in Nat /\ More(count)[r] >= count[r]
             /\ r \in new => More(count)[r] = count[r] + 1
  OBVIOUS
<1>4. keys' = (keys \ answered) \cup new
  BY DEF Exchange
<1>5. \/ queued' = More(queued) /\ wire' = left
      \/ queued' = queued /\ wire' = More(left)
  BY DEF Exchange
<1>6. asked \ (keys \ answered) = new
  OBVIOUS
<1> HIDE DEF new, More, left
<1>7. ASSUME NEW r \in Requests \ answered PROVE Unanswered(r)' >= Unanswered(r)
  <2>1. CASE queued' = More(queued) /\ wire' = left
    BY <1>2, <1>3, <2>1 DEF Unanswered
  <2>2. CASE queued' = queued /\ wire' = More(left)
    BY <1>2, <1>3, <2>2 DEF Unanswered
  <2> QED
    BY <1>5, <2>1, <2>2
<1>8. ASSUME NEW r \in new PROVE Unanswered(r)' > 0
  <2>1. r \in Requests /\ queued[r] \in Nat /\ left[r] \in Nat
    BY <1>2, <1>6
  <2>2. More(queued)[r] = queued[r] + 1 /\ More(left)[r] = left[r] + 1
    BY <1>2, <1>3, <2>1
  <2> QED
    BY <1>5, <2>1, <2>2 DEF Unanswered
<1> QED
  BY <1>4, <1>6, <1>7, <1>8

\* The requests of two containers, and of the two kinds, differ.
LEMMA RequestsDiffer ==
    ASSUME NEW c \in Containers
    PROVE  /\ Inspect(c) \in Requests /\ Stats(c) \in Requests
           /\ \A d \in Containers : Inspect(d) # Stats(c) /\ (Inspect(d) = Inspect(c) => d = c)
  BY DEF Inspect, Stats, Requests

-----------------------------------------------------------------------------
\* The metrics, whose invariant every operation of MetricsModel keeps by itself.

MetricsTypeOK ==
    /\ sampling \in BOOLEAN
    /\ metricsId \in Containers \cup {NoContainer} /\ previous \in Containers \cup {NoContainer}
    /\ points \in 0 .. History /\ failures \in Nat
    /\ wanted \subseteq Containers
    /\ sampling => metricsId \in Containers

USE DEF Undisturbed

LEMMA ZeroPoints == 0 \in 0 .. History
  BY DetailAssumption

LEMMA StoppedKeepsMetrics ==
    ASSUME Stopped
    PROVE  /\ MetricsTypeOK /\ failures' \in Nat => MetricsTypeOK'
           /\ SamplingIsOne => SamplingIsOne'
           /\ ~sampling'
  <1> USE DEF Stopped
  <1>1. MetricsTypeOK /\ failures' \in Nat => MetricsTypeOK'
    BY ZeroPoints DEF MetricsTypeOK
  <1>2. SamplingIsOne => SamplingIsOne'
    BY DEF SamplingIsOne
  <1> QED
    BY <1>1, <1>2

LEMMA StopSamplingKeepsMetrics ==
    ASSUME StopSampling
    PROVE  /\ MetricsTypeOK => MetricsTypeOK'
           /\ SamplingIsOne => SamplingIsOne'
           /\ ~sampling'
  <1>1. CASE sampling
    BY <1>1, StoppedKeepsMetrics DEF StopSampling, MetricsTypeOK
  <1>2. CASE ~sampling
    BY <1>2 DEF StopSampling, MetricsTypeOK, SamplingIsOne
  <1> QED
    BY <1>1, <1>2

LEMMA SampledKeepsMetrics ==
    ASSUME NEW c \in Containers, Sampled(c)
    PROVE  /\ MetricsTypeOK => MetricsTypeOK'
           /\ SamplingIsOne => SamplingIsOne'
           /\ sampling' /\ metricsId' = c
  <1> USE DetailAssumption DEF Sampled
  <1>1. MetricsTypeOK => MetricsTypeOK'
    BY ZeroPoints DEF MetricsTypeOK
  <1>2. SamplingIsOne => SamplingIsOne'
    BY DEF SamplingIsOne
  <1> QED
    BY <1>1, <1>2

\* A sample that fails is counted, and at the limit the sampling stops.
LEMMA SampleFailsKeepsMetrics ==
    ASSUME SampleFails
    PROVE  /\ MetricsTypeOK => MetricsTypeOK'
           /\ SamplingIsOne => SamplingIsOne'
           /\ sampling' => sampling /\ metricsId' = metricsId
<1>1. CASE UNCHANGED metricsVars
  BY <1>1 DEF metricsVars, MetricsTypeOK, SamplingIsOne
<1>2. CASE FailureNoted
  <2>1. CASE failures + 1 < MaxFailures
    BY <1>2, <2>1 DEF FailureNoted, MetricsTypeOK, SamplingIsOne
  <2>2. CASE ~(failures + 1 < MaxFailures)
    BY <1>2, <2>2, StoppedKeepsMetrics DEF FailureNoted, MetricsTypeOK
  <2> QED
    BY <2>1, <2>2
<1> QED
  BY <1>1, <1>2 DEF SampleFails

\* What the answer to a sample does to the metrics: it keeps them as they are, adds to them, or
\* stops them.
LEMMA StatsAnsweredKeepsMetrics ==
    ASSUME NEW c \in Containers, NEW ok \in BOOLEAN, StatsAnswered(c, ok)
    PROVE  /\ MetricsTypeOK => MetricsTypeOK'
           /\ SamplingIsOne => SamplingIsOne'
           /\ sampling' => sampling /\ metricsId' = metricsId
  <1> DEFINE kept == c \in wanted /\ ok /\ started /\ sampling /\ shown = c /\ metricsId = c
  <1>1. CASE kept /\ SampleKept(c)
    BY <1>1, DetailAssumption DEF SampleKept, MetricsTypeOK, SamplingIsOne
  <1>2. CASE SampleFails
    BY <1>2, SampleFailsKeepsMetrics
  <1>3. CASE UNCHANGED metricsVars
    BY <1>3 DEF metricsVars, MetricsTypeOK, SamplingIsOne
  <1> QED
    BY <1>1, <1>2, <1>3 DEF StatsAnswered

\* An inspect of the container shown leaves the metrics, starts them for it, or stops them.
LEMMA DetailArrivesKeepsMetrics ==
    ASSUME NEW c \in Containers, NEW isRunning \in BOOLEAN, DetailArrives(c, isRunning)
    PROVE  /\ MetricsTypeOK => MetricsTypeOK'
           /\ SamplingIsOne => SamplingIsOne'
           /\ sampling' => isRunning /\ metricsId' = c
  <1>1. CASE isRunning /\ SamplingAlready(c) /\ UNCHANGED metricsVars
    BY <1>1 DEF SamplingAlready, metricsVars, MetricsTypeOK, SamplingIsOne
  <1>2. CASE isRunning /\ ~SamplingAlready(c) /\ Sampled(c)
    BY <1>2, SampledKeepsMetrics
  <1>3. CASE ~isRunning /\ StopSampling
    BY <1>3, StopSamplingKeepsMetrics
  <1> QED
    BY <1>1, <1>2, <1>3 DEF DetailArrives

-----------------------------------------------------------------------------
\* What a step of each kind does to the metrics: the operations above, or nothing, except that
\* the timer of the model asks for its container once more.
LEMMA MetricsStep ==
    ASSUME MetricsTypeOK, SamplingIsOne, [Next]_vars
    PROVE  MetricsTypeOK' /\ SamplingIsOne'
<1>1. CASE UNCHANGED metricsVars
  BY <1>1 DEF metricsVars, MetricsTypeOK, SamplingIsOne
<1>2. CASE \/ \E c \in Containers : OpenPage(c) \/ InspectFailed(c)
           \/ RetryPage \/ InspectAgain \/ RefreshPorts
           \/ HandshakeSucceeds \/ HandshakeFails \/ Abandon
           \/ UNCHANGED vars
  BY <1>1, <1>2 DEF OpenPage, InspectFailed, DetailFails, RetryPage, InspectAgain, RefreshPorts,
     HandshakeSucceeds, HandshakeFails, Abandon, vars
<1>3. ASSUME NEW c \in Containers, NEW b \in BOOLEAN, InspectAnswered(c, b)
      PROVE  MetricsTypeOK' /\ SamplingIsOne'
  <2>1. CASE c = shown
    BY <1>3, <2>1, DetailArrivesKeepsMetrics DEF InspectAnswered
  <2>2. CASE c # shown
    BY <1>1, <1>3, <2>2 DEF InspectAnswered
  <2> QED
    BY <2>1, <2>2
<1>4. ASSUME NEW c \in Containers, NEW b \in BOOLEAN, StatsAnswered(c, b)
      PROVE  MetricsTypeOK' /\ SamplingIsOne'
  BY <1>4, StatsAnsweredKeepsMetrics
<1>5. CASE ClosePage
  BY <1>5, StopSamplingKeepsMetrics DEF ClosePage
<1>6. CASE SampleTick
  BY <1>6 DEF SampleTick, MetricsTypeOK, SamplingIsOne
<1>7. ASSUME NEW r \in Requests, QueuedFails(r) PROVE MetricsTypeOK' /\ SamplingIsOne'
  <2>1. CASE SampleFails
    BY <2>1, SampleFailsKeepsMetrics
  <2>2. CASE DetailFails(r.of)
    BY <1>1, <2>2 DEF DetailFails
  <2> QED
    BY <1>7, <2>1, <2>2 DEF QueuedFails
<1> QED
  BY <1>2, <1>3, <1>4, <1>5, <1>6, <1>7 DEF Next

LEMMA MetricsInit == Init => MetricsTypeOK /\ SamplingIsOne
<1>1. Init => MetricsTypeOK
  <2> SUFFICES ASSUME Init PROVE MetricsTypeOK
    OBVIOUS
  <2>1. sampling = FALSE /\ metricsId = NoContainer /\ previous = NoContainer
    BY DEF Init
  <2>2. points = 0 /\ failures = 0 /\ wanted = {}
    BY DEF Init
  <2> QED
    BY <2>1, <2>2, ZeroPoints DEF MetricsTypeOK
<1>2. Init => SamplingIsOne
  BY DEF Init, SamplingIsOne
<1> QED
  BY <1>1, <1>2

\* The backend samples the container the metrics are of and no other, neither a previous sample
\* nor a history is left of one that was left, and nothing is sampled that has failed the limit
\* of times, for any number of pages, containers and failing handshakes (MetricsModel::start(),
\* stop(), noteFailure()).
THEOREM SamplingIsOfOne == Spec => []SamplingIsOne
<1>1. Init => MetricsTypeOK /\ SamplingIsOne
  BY MetricsInit
<1>2. MetricsTypeOK /\ SamplingIsOne /\ [Next]_vars => (MetricsTypeOK /\ SamplingIsOne)'
  BY MetricsStep
<1> QED
  BY <1>1, <1>2, PTL DEF Spec

-----------------------------------------------------------------------------
\* The page.

LEMMA ReadyIsOwnStep ==
    ASSUME ReadyIsOwn, [Next]_vars
    PROVE  ReadyIsOwn'
<1> USE DEF ReadyIsOwn
<1>1. CASE UNCHANGED <<pageVars, sampling, metricsId>>
  BY <1>1 DEF pageVars
<1>2. CASE \/ SampleTick \/ InspectAgain \/ RefreshPorts
           \/ HandshakeSucceeds \/ HandshakeFails \/ Abandon
           \/ UNCHANGED vars
  BY <1>1, <1>2 DEF SampleTick, InspectAgain, RefreshPorts, HandshakeSucceeds, HandshakeFails,
     Abandon, vars, metricsVars
<1>3. CASE RetryPage \/ \E c \in Containers : OpenPage(c)
  BY <1>3 DEF RetryPage, OpenPage
<1>4. CASE ClosePage
  BY <1>4, StopSamplingKeepsMetrics DEF ClosePage
<1>5. ASSUME NEW c \in Containers, InspectFailed(c) PROVE ReadyIsOwn'
  BY <1>5 DEF InspectFailed, DetailFails, metricsVars
<1>6. ASSUME NEW c \in Containers, NEW b \in BOOLEAN, StatsAnswered(c, b) PROVE ReadyIsOwn'
  <2>1. UNCHANGED pageVars
    BY <1>6 DEF StatsAnswered
  <2> QED
    BY <1>6, <2>1, StatsAnsweredKeepsMetrics DEF pageVars
<1>7. ASSUME NEW c \in Containers, NEW b \in BOOLEAN, InspectAnswered(c, b) PROVE ReadyIsOwn'
  <2>1. CASE c = shown
    <3>1. DetailArrives(c, b)
      BY <1>7, <2>1 DEF InspectAnswered
    <3>2. detail' = c /\ running' = b /\ shown' = shown
      BY <3>1 DEF DetailArrives
    <3> QED
      BY <2>1, <3>1, <3>2, DetailArrivesKeepsMetrics
  <2>2. CASE c # shown
    BY <1>1, <1>7, <2>2 DEF InspectAnswered, metricsVars
  <2> QED
    BY <2>1, <2>2
<1>8. ASSUME NEW r \in Requests, QueuedFails(r) PROVE ReadyIsOwn'
  <2>1. CASE DetailFails(r.of)
    BY <2>1 DEF DetailFails, metricsVars
  <2>2. CASE SampleFails /\ UNCHANGED pageVars
    BY <2>2, SampleFailsKeepsMetrics DEF pageVars
  <2> QED
    BY <1>8, <2>1, <2>2 DEF QueuedFails
<1> QED
  BY <1>2, <1>3, <1>4, <1>5, <1>6, <1>7, <1>8 DEF Next

\* A page that is ready shows the container it was set to, with its metrics and only while it
\* runs, whatever order pages are pushed and popped and answers arrive in
\* (ContainerDetailController::onDetailUpdated()).
THEOREM ReadyPagesAreOwn == Spec => []ReadyIsOwn
<1>1. Init => ReadyIsOwn
  BY DEF Init, ReadyIsOwn
<1> QED
  BY <1>1, ReadyIsOwnStep, PTL DEF Spec

-----------------------------------------------------------------------------
\* The types of all variables, which join those of the parts.

\* The controller is set to a container while there is a page.
PageIsSet == pages # <<>> => shown \in Containers

LEMMA PageIsSetStep ==
    ASSUME PageIsSet, DetailTypeOK, [Next]_vars
    PROVE  PageIsSet'
<1> USE DEF PageIsSet
<1>1. ASSUME NEW c \in Containers, OpenPage(c) PROVE PageIsSet'
  BY <1>1 DEF OpenPage
<1>2. CASE ClosePage
  BY <1>2 DEF ClosePage
<1>3. CASE UNCHANGED <<pages, shown>>
  BY <1>3
<1>4. CASE \/ RetryPage \/ InspectAgain \/ SampleTick \/ RefreshPorts
           \/ HandshakeSucceeds \/ HandshakeFails \/ Abandon
           \/ \E c \in Containers : InspectFailed(c)
           \/ \E r \in Requests : QueuedFails(r)
           \/ UNCHANGED vars
  BY <1>3, <1>4 DEF RetryPage, InspectAgain, SampleTick, RefreshPorts, HandshakeSucceeds,
     HandshakeFails, Abandon, InspectFailed, QueuedFails, DetailFails, vars, pageVars
<1>5. ASSUME NEW c \in Containers, NEW b \in BOOLEAN, InspectAnswered(c, b) \/ StatsAnswered(c, b)
      PROVE  PageIsSet'
  BY <1>3, <1>5 DEF InspectAnswered, DetailArrives, StatsAnswered, pageVars
<1> QED
  BY <1>1, <1>2, <1>4, <1>5 DEF Next

\* The types of the requests, which an exchange keeps.
RequestsTyped ==
    /\ keys \subseteq Requests /\ failing \in BOOLEAN
    /\ queued \in [Requests -> Nat] /\ wire \in [Requests -> Nat]

LEMMA ExchangeKeepsTypes ==
    ASSUME RequestsTyped, NEW answered \in SUBSET Requests, NEW asked \in SUBSET Requests,
           Exchange(answered, asked)
    PROVE  RequestsTyped'
<1>1. failing' = failing
  BY DEF Exchange
<1> QED
  BY <1>1, ExchangeTypes DEF RequestsTyped

LEMMA DetailTypeStep ==
    ASSUME DetailTypeOK, MetricsTypeOK, PageIsSet, [Next]_vars
    PROVE  DetailTypeOK'
<1> USE DEF DetailTypeOK, pageVars, metricsVars, portVars
<1>0. RequestsTyped
  BY DEF RequestsTyped
<1>1. CASE UNCHANGED vars
  BY <1>1 DEF vars, requestVars
<1>2. ASSUME NEW c \in Containers, OpenPage(c) PROVE DetailTypeOK'
  <2>1. RequestsTyped'
    BY <1>0, <1>2, ExchangeKeepsTypes, RequestsDiffer DEF OpenPage, Request
  <2>2. pages' \in Seq(Containers)
    BY <1>2 DEF OpenPage
  <2>3. /\ shown' = c /\ loadState' = "loading" /\ started' = TRUE
        /\ detail' \in Containers \cup {NoContainer} /\ running' \in BOOLEAN
    BY <1>2 DEF OpenPage
  <2>4. UNCHANGED <<metricsVars, portVars>>
    BY <1>2 DEF OpenPage
  <2> QED
    BY <2>1, <2>2, <2>3, <2>4 DEF RequestsTyped
<1>3. ASSUME NEW c \in Containers, InspectFailed(c) PROVE DetailTypeOK'
  <2>1. RequestsTyped'
    BY <1>0, <1>3, ExchangeKeepsTypes, RequestsDiffer DEF InspectFailed
  <2>2. DetailFails(c)
    BY <1>3 DEF InspectFailed
  <2> QED
    BY <2>1, <2>2 DEF DetailFails, RequestsTyped
<1>4. ASSUME NEW c \in Containers, NEW b \in BOOLEAN, InspectAnswered(c, b) PROVE DetailTypeOK'
  <2>1. MetricsTypeOK'
    <3>1. CASE c = shown
      BY <1>4, <3>1, DetailArrivesKeepsMetrics DEF InspectAnswered
    <3>2. CASE c # shown
      BY <1>4, <3>2 DEF InspectAnswered, MetricsTypeOK
    <3> QED
      BY <3>1, <3>2
  <2>2. RequestsTyped'
    <3>1. \E asked \in {{}, {Stats(c)}} : Exchange({Inspect(c)}, asked)
      BY <1>4 DEF InspectAnswered
    <3>2. PICK asked \in SUBSET Requests : Exchange({Inspect(c)}, asked)
      BY <3>1, RequestsDiffer
    <3> QED
      BY <1>0, <3>2, ExchangeKeepsTypes, RequestsDiffer
  <2>3. /\ shown' \in Containers \cup {NoContainer} /\ detail' \in Containers \cup {NoContainer}
        /\ running' \in BOOLEAN /\ started' \in BOOLEAN
        /\ loadState' \in {"idle", "loading", "ready", "error"}
    BY <1>4 DEF InspectAnswered, DetailArrives
  <2>4. pages' = pages /\ requested' = requested /\ failed' \subseteq Containers
        /\ declared' \subseteq Containers
    BY <1>4 DEF InspectAnswered, Learn
  <2> QED
    BY <2>1, <2>2, <2>3, <2>4 DEF MetricsTypeOK, RequestsTyped
<1>5. ASSUME NEW c \in Containers, NEW b \in BOOLEAN, StatsAnswered(c, b) PROVE DetailTypeOK'
  <2>1. MetricsTypeOK'
    BY <1>5, StatsAnsweredKeepsMetrics
  <2>2. RequestsTyped'
    BY <1>0, <1>5, ExchangeKeepsTypes, RequestsDiffer DEF StatsAnswered
  <2>3. UNCHANGED <<pages, pageVars, portVars>>
    BY <1>5 DEF StatsAnswered
  <2> QED
    BY <2>1, <2>2, <2>3 DEF MetricsTypeOK, RequestsTyped
<1>6. CASE ClosePage
  <2>1. MetricsTypeOK'
    BY <1>6, StopSamplingKeepsMetrics DEF ClosePage
  <2>2. Front(pages) \in Seq(Containers)
    BY <1>6 DEF ClosePage, Front
  <2> QED
    BY <1>6, <2>1, <2>2 DEF ClosePage, requestVars, MetricsTypeOK
<1>7. CASE RetryPage
  <2>1. shown \in Containers
    BY <1>7 DEF RetryPage, PageIsSet
  <2>2. RequestsTyped'
    BY <1>0, <1>7, <2>1, ExchangeKeepsTypes, RequestsDiffer DEF RetryPage, Request
  <2> QED
    BY <1>7, <2>2 DEF RetryPage, RequestsTyped
<1>8. CASE InspectAgain
  <2>1. RequestsTyped'
    BY <1>0, <1>8, ExchangeKeepsTypes, RequestsDiffer DEF InspectAgain, Request
  <2> QED
    BY <1>8, <2>1 DEF InspectAgain, RequestsTyped
<1>9. CASE SampleTick
  <2>1. metricsId \in Containers
    BY <1>9 DEF SampleTick, MetricsTypeOK
  <2>2. RequestsTyped'
    BY <1>0, <1>9, <2>1, ExchangeKeepsTypes, RequestsDiffer DEF SampleTick, Request
  <2> QED
    BY <1>9, <2>1, <2>2 DEF SampleTick, RequestsTyped
<1>10. CASE RefreshPorts
  <2>1. {Inspect(c) : c \in Containers \ requested} \in SUBSET Requests
    BY RequestsDiffer
  <2>2. RequestsTyped'
    BY <1>0, <1>10, <2>1, ExchangeKeepsTypes DEF RefreshPorts, Request
  <2> QED
    BY <1>10, <2>2 DEF RefreshPorts, RequestsTyped
<1>11. CASE Abandon \/ HandshakeFails
  <2>1. failing' \in BOOLEAN
    BY <1>11 DEF Abandon, HandshakeFails
  <2>2. /\ keys' \subseteq Requests /\ UNCHANGED <<queued, wire>>
        /\ UNCHANGED <<pages, pageVars, metricsVars, portVars>>
    BY <1>11 DEF Abandon, HandshakeFails, requestVars
  <2> QED
    BY <2>1, <2>2
<1>12. CASE HandshakeSucceeds
  <2>1. queued' \in [Requests -> Nat] /\ wire' \in [Requests -> Nat]
    BY <1>12 DEF HandshakeSucceeds, NoneQueued
  <2> QED
    BY <1>12, <2>1 DEF HandshakeSucceeds
<1>13. ASSUME NEW r \in Requests, QueuedFails(r) PROVE DetailTypeOK'
  <2>1. RequestsTyped' /\ r.of \in Containers
    <3>1. failing' \in BOOLEAN
      BY <1>13, Zenon DEF QueuedFails
    <3>2. queued' \in [Requests -> Nat] /\ keys' = keys /\ wire' = wire
      BY <1>13 DEF QueuedFails
    <3>3. r.of \in Containers
      BY DEF Requests
    <3> QED
      BY <3>1, <3>2, <3>3 DEF RequestsTyped
  <2>2. CASE DetailFails(r.of)
    BY <2>1, <2>2 DEF DetailFails, RequestsTyped
  <2>3. CASE SampleFails /\ UNCHANGED <<pages, pageVars, portVars, abandons>>
    <3>1. MetricsTypeOK'
      BY <2>3, SampleFailsKeepsMetrics
    <3> QED
      BY <2>1, <2>3, <3>1 DEF MetricsTypeOK, RequestsTyped
  <2> QED
    BY <1>13, <2>2, <2>3 DEF QueuedFails
<1> QED
  BY <1>1, <1>2, <1>3, <1>4, <1>5, <1>6, <1>7, <1>8, <1>9, <1>10, <1>11, <1>12, <1>13 DEF Next

TypesInv == DetailTypeOK /\ MetricsTypeOK /\ SamplingIsOne /\ PageIsSet

LEMMA TypesAlways == Spec => []TypesInv
<1> USE DEF TypesInv
<1>1. Init => DetailTypeOK /\ MetricsTypeOK /\ SamplingIsOne /\ PageIsSet
  <2>1. Init => MetricsTypeOK /\ SamplingIsOne
    BY MetricsInit
  <2>2. Init => DetailTypeOK
    <3> SUFFICES ASSUME Init PROVE DetailTypeOK
      OBVIOUS
    <3>1. MetricsTypeOK
      BY <2>1
    <3>2. pages = <<>> /\ shown = NoContainer /\ detail = NoContainer
      BY DEF Init
    <3>3. running = FALSE /\ loadState = "idle" /\ started = FALSE
      BY DEF Init
    <3>4. keys = {} /\ queued = NoneQueued /\ wire = NoneQueued /\ failing = FALSE
      BY DEF Init
    <3>5. requested = {} /\ declared = {} /\ failed = {}
      BY DEF Init
    <3>6. <<>> \in Seq(Containers) /\ NoneQueued \in [Requests -> Nat]
      BY DEF NoneQueued
    <3> QED
      BY <3>1, <3>2, <3>3, <3>4, <3>5, <3>6 DEF DetailTypeOK, MetricsTypeOK
  <2>3. Init => PageIsSet
    BY DEF Init, PageIsSet
  <2> QED
    BY <2>1, <2>2, <2>3
<1>2. TypesInv /\ [Next]_vars => TypesInv'
  BY DetailTypeStep, MetricsStep, PageIsSetStep
<1> QED
  BY <1>1, <1>2, PTL DEF Spec

\* The types of the page's, the metrics' and the requests' state, in particular that a request
\* is never answered more often than it was sent.
THEOREM DetailTypes == Spec => []DetailTypeOK
<1>1. TypesInv => DetailTypeOK
  BY DEF TypesInv
<1> QED
  BY <1>1, TypesAlways, PTL

-----------------------------------------------------------------------------
\* The ports page.

\* The key of an inspect is taken by one that is unanswered, or was left by one that waited for a
\* handshake which failed.
KeysAreHeld ==
    \A c \in Containers : Inspect(c) \in keys => Unanswered(Inspect(c)) > 0 \/ c \in failed

\* The parts of a step that the ports page sees: for each container, an unanswered inspect stays
\* so unless it is answered, one way or the other.
LEMMA PortsKept ==
    ASSUME KeysAreHeld, PortsAreLearned,
           requested \subseteq Containers, requested' \subseteq Containers,
           NEW answered \in SUBSET Containers,
           \A c \in Containers \ answered :
              /\ Unanswered(Inspect(c)) > 0 => Unanswered(Inspect(c))' > 0
              /\ c \in declared => c \in declared'
              /\ c \in failed => c \in failed'
              /\ Inspect(c) \in keys' => Inspect(c) \in keys \/ Unanswered(Inspect(c))' > 0
              /\ c \in requested' => \/ c \in requested
                                     \/ Inspect(c) \in keys \/ Unanswered(Inspect(c))' > 0,
           \A c \in answered :
              /\ c \in requested' => c \in declared' \/ c \in failed'
              /\ Inspect(c) \in keys' => c \in failed'
    PROVE  KeysAreHeld' /\ PortsAreLearned'
  BY DEF KeysAreHeld, PortsAreLearned

\* What an exchange that answers no inspect, or one, keeps of the others.
LEMMA ExchangeKeepsInspects ==
    ASSUME RequestsTyped, NEW answered \in SUBSET Requests, NEW asked \in SUBSET Requests,
           Exchange(answered, asked), NEW c \in Containers, Inspect(c) \notin answered
    PROVE  /\ Unanswered(Inspect(c)) > 0 => Unanswered(Inspect(c))' > 0
           /\ Inspect(c) \in keys' => Inspect(c) \in keys \/ Unanswered(Inspect(c))' > 0
           /\ Inspect(c) \in asked => Inspect(c) \in keys \/ Unanswered(Inspect(c))' > 0
<1>1. /\ keys' = (keys \ answered) \cup asked
      /\ \A r \in Requests \ answered : Unanswered(r)' >= Unanswered(r)
      /\ \A r \in asked : r \in keys \ answered \/ Unanswered(r)' > 0
  BY ExchangeKeys DEF RequestsTyped
<1>2. Inspect(c) \in Requests \ answered
  BY RequestsDiffer
<1>3. Unanswered(Inspect(c)) \in Nat /\ Unanswered(Inspect(c))' \in Nat
  BY <1>2, ExchangeKeepsTypes DEF RequestsTyped, Unanswered
<1>4. Unanswered(Inspect(c))' >= Unanswered(Inspect(c))
  BY <1>1, <1>2
<1> QED
  BY <1>1, <1>3, <1>4

LEMMA PortsStep ==
    ASSUME TypesInv, KeysAreHeld, PortsAreLearned, [Next]_vars
    PROVE  KeysAreHeld' /\ PortsAreLearned'
<1> USE DEF portVars
<1>1. /\ requested \subseteq Containers /\ RequestsTyped
      /\ shown \in Containers \cup {NoContainer} /\ (pages # <<>> => shown \in Containers)
      /\ sampling => metricsId \in Containers
  BY DEF TypesInv, DetailTypeOK, MetricsTypeOK, PageIsSet, RequestsTyped
<1>2. CASE UNCHANGED <<requestVars, portVars>>
  BY <1>2 DEF KeysAreHeld, PortsAreLearned, requestVars, Unanswered
<1>3. CASE ClosePage \/ HandshakeFails \/ UNCHANGED vars
  BY <1>2, <1>3 DEF vars, ClosePage, HandshakeFails
<1>4. ASSUME NEW answered \in SUBSET Requests, NEW asked \in SUBSET Requests,
             Exchange(answered, asked), \A c \in Containers : Inspect(c) \notin answered,
             declared' = declared, failed' = failed, requested' \subseteq Containers,
             \A c \in requested' : c \in requested \/ Inspect(c) \in asked
      PROVE  KeysAreHeld' /\ PortsAreLearned'
  <2>1. ASSUME NEW c \in Containers
        PROVE  /\ Unanswered(Inspect(c)) > 0 => Unanswered(Inspect(c))' > 0
               /\ Inspect(c) \in keys' => Inspect(c) \in keys \/ Unanswered(Inspect(c))' > 0
               /\ c \in requested' => \/ c \in requested
                                      \/ Inspect(c) \in keys \/ Unanswered(Inspect(c))' > 0
    BY <1>1, <1>4, ExchangeKeepsInspects
  <2> QED
    BY <1>1, <1>4, <2>1, PortsKept
<1>5. CASE \/ \E c \in Containers : OpenPage(c)
           \/ RetryPage \/ InspectAgain \/ SampleTick
  <2>1. PICK asked \in SUBSET Requests : Exchange({}, asked)
    BY <1>1, <1>5, DetailAssumption, RequestsDiffer
       DEF OpenPage, RetryPage, InspectAgain, SampleTick, Request
  <2>2. UNCHANGED portVars
    BY <1>5 DEF OpenPage, RetryPage, InspectAgain, SampleTick
  <2> QED
    BY <1>1, <1>4, <2>1, <2>2
<1>6. ASSUME NEW c \in Containers, NEW b \in BOOLEAN, StatsAnswered(c, b)
      PROVE  KeysAreHeld' /\ PortsAreLearned'
  <2>1. Exchange({Stats(c)}, {}) /\ UNCHANGED portVars
    BY <1>6 DEF StatsAnswered
  <2> QED
    BY <1>1, <1>4, <2>1, RequestsDiffer
<1>7. CASE RefreshPorts
  <2>1. {Inspect(c) : c \in Containers \ requested} \in SUBSET Requests
    BY RequestsDiffer
  <2>2. /\ requested' = Containers /\ UNCHANGED <<declared, failed>>
        /\ Exchange({}, {Inspect(c) : c \in Containers \ requested})
    BY <1>7 DEF RefreshPorts, Request
  <2>3. \A c \in requested' : c \in requested \/ Inspect(c) \in {Inspect(d) : d \in Containers \ requested}
    BY <2>2
  <2> QED
    BY <1>4, <2>1, <2>2, <2>3
<1>8. ASSUME NEW c \in Containers, NEW asked \in SUBSET Requests,
             Exchange({Inspect(c)}, asked), \A d \in Containers : Inspect(d) \notin asked,
             requested' = requested,
             \/ declared' = Learn(c) /\ failed' = failed \ {c}
             \/ declared' = declared /\ failed' = failed \cup {c}
      PROVE  KeysAreHeld' /\ PortsAreLearned'
  <2>1. ASSUME NEW d \in Containers \ {c}
        PROVE  /\ Unanswered(Inspect(d)) > 0 => Unanswered(Inspect(d))' > 0
               /\ d \in declared => d \in declared'
               /\ d \in failed => d \in failed'
               /\ Inspect(d) \in keys' => Inspect(d) \in keys \/ Unanswered(Inspect(d))' > 0
    <3>1. Inspect(d) \notin {Inspect(c)} /\ Inspect(c) \in Requests
      BY RequestsDiffer
    <3> QED
      BY <1>1, <1>8, <3>1, ExchangeKeepsInspects DEF Learn
  <2>2. Inspect(c) \notin keys'
    <3>1. queued \in [Requests -> Nat] /\ wire \in [Requests -> Nat]
      BY <1>1 DEF RequestsTyped
    <3>2. {Inspect(c)} \in SUBSET Requests
      BY RequestsDiffer
    <3>3. keys' = (keys \ {Inspect(c)}) \cup asked
      BY <1>8, <3>1, <3>2, ExchangeKeys
    <3> QED
      BY <1>8, <3>3
  <2>3. c \in requested' => c \in declared' \/ c \in failed'
    BY <1>8 DEF Learn
  <2> DEFINE answered == {c}
  <2>4. answered \in SUBSET Containers
    OBVIOUS
  <2> QED
    BY <1>1, <1>8, <2>1, <2>2, <2>3, <2>4, PortsKept
<1>9. ASSUME NEW c \in Containers, NEW b \in BOOLEAN, InspectAnswered(c, b)
      PROVE  KeysAreHeld' /\ PortsAreLearned'
  <2>1. requested' = requested /\ declared' = Learn(c) /\ failed' = failed \ {c}
    BY <1>9 DEF InspectAnswered
  <2>2. \E asked \in {{}, {Stats(c)}} : Exchange({Inspect(c)}, asked)
    BY <1>9 DEF InspectAnswered
  <2>3. PICK asked \in SUBSET Requests : /\ Exchange({Inspect(c)}, asked)
                                         /\ \A d \in Containers : Inspect(d) \notin asked
    BY <2>2, RequestsDiffer
  <2> QED
    BY <1>8, <2>1, <2>3
<1>10. ASSUME NEW c \in Containers, InspectFailed(c) PROVE KeysAreHeld' /\ PortsAreLearned'
  <2>1. /\ requested' = requested /\ declared' = declared /\ failed' = failed \cup {c}
        /\ Exchange({Inspect(c)}, {})
    BY <1>10 DEF InspectFailed, DetailFails
  <2> QED
    BY <1>8, <2>1
<1>11. CASE Abandon
  <2>1. keys' = {} /\ UNCHANGED <<queued, wire, portVars>>
    BY <1>11 DEF Abandon
  <2> QED
    BY <2>1 DEF KeysAreHeld, PortsAreLearned, Unanswered
<1>12. CASE HandshakeSucceeds
  <2>1. /\ wire' = [r \in Requests |-> wire[r] + queued[r]] /\ queued' = [r \in Requests |-> 0]
        /\ UNCHANGED <<keys, portVars>>
    BY <1>12 DEF HandshakeSucceeds, NoneQueued
  <2>2. ASSUME NEW c \in Containers PROVE Unanswered(Inspect(c))' = Unanswered(Inspect(c))
    <3>1. Inspect(c) \in Requests
      BY RequestsDiffer
    <3>2. queued[Inspect(c)] \in Nat /\ wire[Inspect(c)] \in Nat
      BY <1>1, <3>1 DEF RequestsTyped
    <3> QED
      BY <2>1, <3>1, <3>2 DEF Unanswered
  <2> QED
    BY <1>1, <2>1, <2>2 DEF KeysAreHeld, PortsAreLearned
<1>13. ASSUME NEW r \in Requests, QueuedFails(r) PROVE KeysAreHeld' /\ PortsAreLearned'
  <2>1. /\ queued' = [queued EXCEPT ![r] = @ - 1] /\ wire' = wire /\ keys' = keys
        /\ requested' = requested /\ declared' = declared
    BY <1>13 DEF QueuedFails, DetailFails
  <2>2. ASSUME NEW c \in Containers, Inspect(c) # r
        PROVE  Unanswered(Inspect(c))' = Unanswered(Inspect(c))
    BY <1>1, <2>1, <2>2, RequestsDiffer DEF RequestsTyped, Unanswered
  <2>3. failed \subseteq failed'
    BY <1>13 DEF QueuedFails, DetailFails
  <2>4. ASSUME NEW c \in Containers, Inspect(c) = r PROVE c \in failed'
    BY <1>13, <2>4 DEF QueuedFails, DetailFails, Inspect
  <2> QED
    BY <1>1, <2>1, <2>2, <2>3, <2>4 DEF KeysAreHeld, PortsAreLearned
<1> QED
  BY <1>3, <1>5, <1>6, <1>7, <1>9, <1>10, <1>11, <1>12, <1>13 DEF Next

\* Whatever handshakes fail and however often the watchdog gives up, a container the ports page
\* has asked for is known or still to be answered unless its last inspect failed, also when the
\* page's request was coalesced with one of another page (StatusController::refreshPorts() and
\* its slot of containerDetailUpdated()).
THEOREM DeclaredPortsAreLearned == Spec => []PortsAreLearned
<1>1. Init => KeysAreHeld /\ PortsAreLearned
  BY DEF Init, KeysAreHeld, PortsAreLearned
<1>2. TypesInv /\ KeysAreHeld /\ PortsAreLearned /\ [Next]_vars => (KeysAreHeld /\ PortsAreLearned)'
  BY PortsStep
<1> QED
  BY <1>1, <1>2, TypesAlways, PTL DEF Spec
=============================================================================
