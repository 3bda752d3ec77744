# A TLA+ verification of the KDE Docker module

The repository is a KDE configuration module (KCM) for the Docker Engine: a C++/Qt backend that
speaks HTTP over the engine's Unix socket, controllers that turn its answers into page state, and
a QML user interface. The program is one process with one event loop, and a privileged helper that
KAuth runs beside it. There are no threads to race, but every request is asynchronous: each signal
of a socket or a timer is a step, and any other step may come before the next. What is hard to test
here is the *order* of those steps. The modules in this directory model that order and check what
must hold in every one of them.

## 1. Inventory

| Component | State | Operations | Talks to |
|---|---|---|---|
| `DockerReply` / `DockerClient` (`backend/docker_client.*`) | socket, one single-shot timer, verdict, upload and parser progress | `request()`, `cancel()`, socket and timer slots | engine; its caller through `streamStarted`, `bodyChunk`, `finished` |
| `DockerBackend`, bookkeeping (`backend/docker_backend.*`) | API version, handshake and section flags, `m_inFlightRequests`, `m_readyCallbacks`, `m_pendingMutations`, `m_loading` | `refresh...()`, `inspect...()`, `requestContainerStats()`, writes, `checkRegistryAuth()`, `abandonInFlightRequests()` | `DockerReply`; controllers through `...Updated`, `sectionFailed`, `mutationFinished`, `loadingChanged` |
| `DockerBackend`, log streams | `m_logStreams`, `m_cancelledLogRequests` | `startContainerLogs()`, `stopContainerLogs()` | log console |
| `DockerBackend`, pulls and builds | `m_pulls`, `m_builds`, temporary archives | `pullImage()`, `buildImage()`, their cancellations | operation controller |
| `RefreshScheduler` (`model/refresh_scheduler.*`) | cycle flags, failure count, two timers | `requestRefresh()`, timer slots, `note...()` | backend, status page |
| `StatusController` (`model/status_controller.*`) | a verdict, an error text and a shown state per section, watchdog, port map, declared ports | `refresh()`, slots of every backend signal | backend, scheduler, sub-controllers |
| `OperationController` (`model/operation_controller.*`) | one operation per target, pull and build models, create-and-start | every write of the user interface | backend |
| Detail pages, metrics (`model/container_detail_controller.*`, `model/metrics_model.*`) | shown id, detail, samples | `setContainerId()`, `start()`, `stop()` | backend |
| `ContainerLogController` | connection, pause, rows, pending rows, byte count | `connectTo()`, `disconnect()`, `pause()`, `resume()`, `clear()` | backend log streams |
| Create-container wizard (`model/create_container_controller.*`) | step, form, errors | `next()`, `goTo()`, `beginClone()`, `submit()` | lists, port usage, operation controller |
| Registry login, credential store, command line's file | current check, credentials, wallet state | `login()`, `testCredential()`, `logout()`, silent import | backend, KWallet, `~/.docker/config.json` |
| Daemon configuration, privileged helper | document, edits, lock, pending action, for two scopes | `requestUnlock()`, `save()`, `restoreBackup()`, `controlService()` | KAuth helper, `daemon.json` |
| Presets and command history (`model/mount_preset_store.*`, `model/command_history_store.*`) | a list and its order, in memory and in one file | `add()`, `update()`, `noteUsed()`, `moveUp()`, ... | configuration file shared by all windows |
| Framing: HTTP parser, JSON lines, log frames | partial input | `feed()`, `flush()` | replies and streams |
| Host ports, row synchronisation, port map | entries, rows, clustered ranges | pure functions, models | status page, wizard |
| DTO parsers, probes, shell, QML | value types, constants, presentation | - | - |

What makes each part correct:

* **Replies.** A pending reply always has something that ends it, and its verdict is final but for a
  failure that was put off before.
* **Bookkeeping.** A queued call has a handshake to wait for; a flag has a request that resets it;
  the announced loading state is the real one; a write is answered exactly once; nothing is sent
  without a negotiated version until the watchdog interferes.
* **Refresh.** Every cycle is closed, failed cycles are counted, a verdict agrees with its reason, and
  the state a page shows is the one its flags stand for.
* **Logs.** No stream after a disconnect, always one for a connected console; no line is lost,
  doubled or reordered by batches, pauses, provisional lines and trimming.
* **Operations.** One operation per target; what the pages list as running is what the backend runs;
  a temporary archive goes away with its build; the start after a create is of what was created.
* **Details.** A ready page shows the container its controller was set to; one container is sampled;
  declared ports are learned whoever asked first, as long as the inspect does not fail.
* **Wizard and ports.** The rows of a table follow the list; three ways to answer "who holds this
  port" agree; what is handed in was sound against the lists of that moment.
* **Login.** Only an accepted credential is stored; a forgotten one stays forgotten; the list shows
  the wallet.
* **Daemon configuration.** No page waits for ever; a write takes the keys it does not manage from the
  file, or from what its page read of it; a save can be reverted.
* **Presets.** The order names every preset; a save that no other one overtakes leaves in the file what
  its window has; only what was used longest ago is trimmed.

The hazards, each at its line and with the properties that watch it, are in `PROJECT.json` under
`hazards`. Those without a property are the ones where the code does not do what is wanted (section
5) or where a call cannot happen in the states modelled; each has a note.

## 2. The modules

```
 DockerReply              one request, from request() to finished()

 DockerHandshake          /_ping, /version, /info: shared by the modules below
   |-- DockerBackend      queues, flags, keys, writes, watchdog   --implements--> MutationContract
   |     '-- RefreshCycle scheduler and status page over the backend's refreshes, keyed requests,
   |           |          handshakes and watchdog
   |           '-- PageStates  the states the page computes and shows --implements--> RefreshCycle
   |-- LogStreams         start and stop of log streams over the queue
   |     '-- LogConsole   the console, composed with every handler of the streams
   |-- WriteJobs          writes, pulls and builds over the queue
   |     '-- Operations   the operation controller, composed with every handler of the jobs
   '-- RegistryLogin      login page, wallet, list, command line's file

 ContainerDetail          page stack, metrics, keys of inspect and stats requests
 DaemonConfig             two scopes, privileged client, helper, files

 HostPortUsage            a container list, its port entries, the answers about a port
   |-- HostPorts          the rows of the ports page
   |     '-- PortMap      filter, ranges and tiles
   '-- CreateWizard       the wizard over changing lists
 MountPresets             both stores, several windows, one file
 SequenceParts            what a sequence holds at some of its positions: used by the five above

 Bytes                    bytes, and symbols for what a reader never looks into
   '-- HttpResponseParser, JsonLineReader, LogFrameReader   readers as functions of a record
         '-- StreamFraming      all three, fed in any pieces

 StatusPageProofs         theorems about DockerReply, DockerBackend, RefreshCycle and PageStates
 FileProofs               theorems about DaemonConfig, RegistryLogin and MountPresets
 PortsProofs              theorems about HostPorts, PortMap and CreateWizard
 FramingProofs            theorems about StreamFraming
 SequencePartsProofs      lemmas about numbers, recursive functions and sequences
 other ...Proofs          theorems about the module they are named after
 MC...                    model values and symmetry for TLC
```

Qt delivers signals synchronously: a slot runs in the middle of the handler that emits the signal. The
modules are therefore composed by conjunction. An action of `RefreshCycle` is a handler of
`DockerBackend` conjoined with what the slots of the scheduler and of the page do during it, in the
order in which the handler emits its signals (writes, samples and login checks are not composed with
the page, which sees of them what it sees of other requests: a handshake they start, a key they hold);
`DockerBackend` does the same with the parts of its handlers that `DockerHandshake` holds, and so do
`LogConsole` and `Operations`.

Correspondence with the code:

* **`DockerReply`** has one action per slot of the reply (`onConnected`, `onBytesWritten`,
  `onReadyRead`, `onDisconnected`, `onSocketError`, `onTimeout`, the callback of `failLater`), one
  for `DockerClient::request()` together with the `start()` it calls, and `cancel()`. A local socket
  connects inside `connectToServer()`, so `Request` also contains a connection that succeeds or fails
  before the caller holds the reply; `heard` counts the `finished()` signals emitted after that. The
  timer is the *name* of the interval it was last started with; time itself is not modelled. The
  response is reduced to what the handlers branch on, as the HTTP parser reports it.
* **`DockerHandshake`** counts outstanding handshake replies by step, because the watchdog gives up
  a handshake without cancelling its reply and a second handshake may then start.
* **`DockerBackend`** keeps the section flags as a set `busy`, `m_inFlightRequests` as `keys`, and
  for each request the number of queued callbacks and of outstanding replies. The queues are always
  emptied as a whole and callbacks of one request are interchangeable, so counting them loses
  nothing. Sections that follow the same code are elements of `Lists`, `Details` and `Stats`.
* **`RefreshCycle`** keeps the scheduler's flags and, per section, whether it is ok, failed and has an
  error text; `EngineState` is `computeEngineState()`. A list of containers recomputes the members of the
  networks and may report the networks as well (`MembershipOf`). **`PageStates`** adds the members that
  `updateStates()` assigns, and leaves them alone in the slots that do not call it.
* **`LogStreams`** counts the callbacks that wait, and the open streams that `m_logStreams` no longer
  knows, per container. **`LogConsole`** keeps a row as a number and whether it is complete. Each row
  counts as one byte; `Excess` keeps the newline that trimming subtracts and flushing never added.
* **`WriteJobs`** holds what `DockerBackend` does for writes: a job is a kind of write and its target
  key; jobs are counted by being queued or running. A pull is known to `m_pulls` once its stream is
  open; a build has packed its archive before it is queued, and somebody else may delete it until it is
  sent. **`Operations`** adds the controller:
  `busy` is `m_busyTargets`, `pullEntries` and `buildEntries` are the states of the two list
  models, and every button of the pages is an action that includes the refetches it causes. A write
  that skips `admit()` (pause, unpause, pruning the build cache) is modelled without the check, and
  `unguarded` remembers its target.
* **`ContainerDetail`** composes the controller, the metrics model and the part of the status page
  that asks for declared ports over one set of keys, since all three coalesce with each other. A request
  waits in `queued` for a handshake or is on the `wire`; while a failed handshake fails those that wait,
  one step each (`failing`), nothing else happens. `pages` is the stack of `ui/main.qml`.
* **`RegistryLogin`** has the checks by whether they wait for the handshake or are on the wire, and
  the three places a credential may be: wallet, list, and the command line's file, which others edit.
* **`DaemonConfig`** has a bag of helper jobs. `finished()` of the one privileged client reaches both
  scopes; each takes an answer for its own if it waits for such an operation. Whether a page needs the
  helper depends on its file being writable (`protected`), which is any combination at the start and
  may change: both pages may save directly, both through the helper, or one each. An atomic write is one
  action whose outcomes are the failures of its steps.
* **`HostPortUsage`** translates `entriesFor()`, the binding rules and the answers about a port, which
  are pure functions of the container list; the list is the one variable it declares. **`HostPorts`**
  adds the rows: a new list of all containers, the plan of row operations (`RowSync::plan()`) and its
  application one operation at a time; **`PortMap`** the filter, `clusterRanges()` and the tiles, with
  ranges that are computed when they are read. **`CreateWizard`** is the other user of
  `HostPortUsage`: the form, its steps and the checks of `createContainer()`, over the same list.
* **`MountPresets`** has a store per window, which is read once and saved as a whole. A save is two
  steps, since other processes run between them: it opens the file (`Save`), and its `sync()` reads the
  file again, writes the keys that differ from what was opened, or fails, which the code does not look
  at (`Synced`, `MergedFile`). The history is one key, for which the two steps do what one does. A window
  may close or die between any two steps.
* **`StreamFraming`** feeds the readers piece by piece. Each reader is a record and each member
  function an operator; a loop of the code is a recursive function over its passes, at most one per
  byte of what it has. Bytes are numbers (`Bytes`); a number in digits and a header are one symbol
  each, since the readers convert them as a whole and no property is about their digits. What the
  bytes received say is defined beside it, without the readers: body bytes by their place in the
  stream, lines by the newlines around them, and for logs an automaton over single characters.
* **`MutationContract`** is the abstract specification of writes: asked for, and answered not before
  and not more often than that, any number in one step.

**Named faults.** An operator introduced by a comment "Fault:" is not part of any
specification. It is a wrong version of the definition that follows it (a dropped guard, a missing
reset, ...) and documents which mistake each property finds; `PROJECT.json` (`mutants`) pairs them.

## 3. The runs

| Run | Module | Shows | Bounds |
|---|---|---|---|
| `reply` | `DockerReply` | Only a failure put off by `failLater()` overrules a verdict, once (`SecondVerdictIsDeferred`), and no order of events keeps a reply pending, a followed log apart (`AnswerArrives`). | All five entry points, 3 chunks, 3 reads. |
| `backend` | `DockerBackend` | Queued calls have a handshake, `loading` is announced, nothing is sent without a version until the watchdog interferes, the backend implements `MutationContract` (`WritesKeepContract`), every write is answered and every list settles. | A list, a detail key, a stats key, one write, one login check, one abandon. |
| `refresh` | `PageStates` | Cycles have work and close, verdicts have reasons, what is shown is current. | One list, the storage key, 2 failures, one abandon. |
| `logs` | `LogConsole` | The console shows the log, pending rows are scheduled, the console is served, no stray stream. | 2 containers, 3 lines, 3 connections, 2 rows / 3 bytes of text, one abandon. |
| `operations` | `Operations` | One operation per target, pulls are shown, a build owns its archive, the wish to start is kept, pulls settle. | 2 containers (one to be created), 2 images, a build, a volume, a network, 2 jobs of a kind, one abandon. |
| `login` | `MCRegistryLogin` | Only accepted credentials are stored, forgotten ones stay so, the list shows the wallet. | 2 registries, a password, a token, one foreign edit of the file, one abandon; the registries are symmetric, and the view leaves out what the engine section shows, which no action of the page reads. |
| `daemon` | `MCDaemonConfig` | No page waits for nobody, foreign keys come from where they should, saves are revertible. | Every combination of writable files; one value of each key beside its absence, a missing and a broken file, 2 helper jobs at a time, 2 saves or restores; one change from outside: another program leaves a key of its own or text that does not parse in the system's file, or a file becomes writable or ceases to be. |
| `detail` | `MCContainerDetail` | Ready pages are their own, one container is sampled, declared ports are learned. | 2 containers, which are symmetric, 2 pages, 2 samples, 2 failures, one unanswered request of a kind for a container, queued or on the wire, one abandon. |
| `framing` | `StreamFraming` | However the bytes are cut, the readers give what they give for the whole. | Bodies of up to 2 chunks of 2 bytes of 3 values, JSON streams of 6, log texts of 5 bytes over two alphabets. |
| `ports` | `MCPortMap` | Rows follow entries, the three answers agree, the map is current, titles count tiles. | 2 containers, both of which a list may change, 2 ports of 8 numbers, one address beside the wildcards, 2 filters. |
| `create` | `MCCreateWizard` | What is suggested is free, what is handed in was sound. | One neighbour with five kinds of listing, 3 ports, 2 rows of a table, 2 names. |
| `presets` | `MCMountPresets` | The order names the presets, the file follows a writer that was not overtaken, the oldest goes. | 2 windows, whose saves may fail and overlap, 2 places that can have a preset and a tmpfs, one command, limits of 1, 1 and 2, 2 instants of use, 4 edits; windows and places are symmetric. |

Why the bounds are enough. The backend treats sections only through its flags, so one list, one keyed
section and one write already give every kind of coalescing, and one request can overtake a reply of
the same section once the watchdog has fired. A second abandon repeats what the first made possible:
replies of a given-up epoch are indistinguishable from those of an earlier one. For the console two
rows with a limit of three bytes reach every branch of trimming, three lines give a provisional line
that is flushed and replaced, and three connections the stop-start-stop orders. In `operations` two
jobs of a kind are needed for an overlap on one target, and two images for a pull that another pull's
end must not close. Two registries let the answer of one meet the request of another; two helper jobs
let a scope hear the other's result; two pages over two containers let every late answer be of the
wrong page. Three readers fed together with five or six bytes reach every state of each reader, a cut
in each of them included, as every separator is one or two bytes long. Two containers that list up to
two bindings make every row operation (insert, move, remove, update) occur, also two of them in one
plan. Two windows suffice for the presets: one save can overlap one other, and a third window would
only add what a later save of the second one does. For the safety properties of `backend`, `refresh`,
`logs`, `operations`, `login`, `daemon` and `detail`, and for everything that `framing`, `ports`,
`create` and `presets` check, the bounds do not matter: section 4.

`CHECK_DEADLOCK FALSE` stands where the system really may stop: a settled reply, or a component that
has used up the bounds on requests, edits and abandons, has nothing more to do.

**Fairness.** The event loop delivers an expired timer and a queued zero-timer, hence weak fairness
of `TimedOut` and `DeferredFailure` in `DockerReply`; nothing is assumed of the engine. That every
reply ends, shown there for each request with a timeout, is what `DockerBackend` and `Operations`
assume of the replies on the wire (the lost outcome of section 5 is the exception): weak fairness of
each reply's *end*, not of its success. In `Operations` that includes pull streams, which a timeout
between two chunks ends. In `RefreshCycle` no reply need come: the only assumption is that the
watchdog fires while something is loading. It is a timer armed at the edge to loading. A slot that
starts a new refresh *inside* `onBusyWatchdogTimeout()` would find it disarmed afterwards
(`status_controller.cpp:692`); the model treats such a call as a step of its own. No user action has
fairness anywhere.

## 4. What is proved

Eight modules hold proofs, for every value of the constants: any number of sections, keys, writes,
containers, pages, images, builds, registries, helper jobs, lines, rows, ports, addresses, windows,
presets, failures and abandons, and streams of any length. Every safety invariant and every action
property that a run checks is a theorem. The assumptions are those the modules state: kinds of requests
are disjoint, bounds are naturals, limits are positive, containers and addresses are finite in number,
port numbers have 16 bits, and the markers for "nothing" are no member of the sets they are used beside.

*Replies* (`StatusPageProofs`). That a verdict is overruled by a deferred failure only is not
inductive by itself: the guard of a slot may be the socket, the timer or the deferred failure, and not
the verdict. `ReplyInv` says how these fit together: a finished reply has given its socket back,
exactly the finished replies have emitted `finished()`, and a second emission is left only to a
failure that was waiting in `failLater()` before, and comes once. `VerdictsAreFinal` follows action by
action.

*The backend* (`StatusPageProofs`). The invariant is a conjunction proved part by part, so that
each step needs only the parts it uses. `TypeOK` comes first. `QueueHasHandshake` and the engine half
of `BusyListHasOwner` are inductive together, because the only steps that clear the handshake flag
also empty the queue. Two strengthenings are needed. Without the watchdog there is at most one
handshake reply on the wire and a negotiated version while it is past `/version` (`OneSession`);
without that a late `/ping` could undo a session, and `EngineMatchesSession` and `SentWithVersion`
are not inductive. `EveryWriteAccountedFor` is a conservation law over issued, answered, queued and
running writes, and gives the refinement: the answers of a step never exceed the writes asked for
(`ContractIsKept`).

*The page* (`StatusPageProofs`). Every action of `RefreshCycle` implies an action
of the backend or leaves it unchanged, so the backend's invariant holds under the page
(`BackendUnderPage`). `CycleHasWork` follows from `LoadingIsCurrent` and the slot that closes a cycle;
`ReasonMatchesVerdict` needs that the engine section's verdict is not withdrawn without a reason while
a handshake is lost (`ReasonInv`); readiness needs that what the page shows of the engine is not newer
than what the backend holds (`ShownInv`). `StatesRefinePage` is the refinement of the page without its
shown states by the page with them, so all these theorems carry over to it. `ShownStatesAreCurrent` is
then short where a slot recomputes, and where one does not, shows that nothing the state is computed
from has changed; `refresh()` may leave the states alone only because the engine section is in flight
when it returns.

*The console* (`LogConsoleProofs`). `StreamsInv` says who may have a stream or wait for one: a
container that waits is the one shown or is marked, so that its callback gives up, and the mark of
the container shown has been taken back. `NoStrayStream` and `ConsoleIsServed` follow.
`ConsoleShowsLog` needs `TextInv`: beside the equation between rows, pending rows and log, fewer rows
were dropped than the log has (so a drop never takes the row a provisional line will replace), and the
mark of a provisional last row is right whenever it will be asked for. The proof rests on lemmas about
`DropFirst`, `Overwrite` and concatenation, and on one about `Excess`: the number of rows to drop
exists, and leaves at least one row.

*Operations* (`OperationsProofs`). `OperationsInv` joins the counts, the targets, the pulls and the
builds. `TargetsInv` is `OneOperationPerTarget` job by job: a target that only admitted writes used is
busy as long as it has a job and has at most one, and no build is ever in the busy set. An action is
then a gain or a loss of one job (`TargetsAfterBegin`, `TargetsAfterEnd`), except for a failed
handshake, which ends every queued job at once, and cancelling all pulls. `WishInv` says that while
creates do not overlap, at most one create, or start after a create, is outstanding, and that the
members of the controller are about it.

*Details* (`ContainerDetailProofs`). The metrics keep `SamplingIsOne` by themselves, whatever the page
does; `ReadyIsOwn` is inductive with it. `PortsAreLearned` needs `KeysAreHeld`: the key of an inspect
is held by one that is unanswered, or was left behind by one that waited for a handshake which failed,
and then its failure has been noted; a coalesced request can rely on either. `PageIsSet` (an open page
means the controller is set) joins the types.

*Daemon configuration* (`FileProofs`). `FilesInv` gives the types of files and edits,
`ClientInv` those of the helper's jobs and that a job which is to write has something to write, without
which `SavesAreRevertible` does not follow. `WritesKeepForeignKeys` goes through the steps that write
(`FilesChange`): the helper, a direct save, a restore. `WaitingHasJob` is about a
bag; two lemmas say what adding and removing a job does to it.

*Login* (`FileProofs`). `OneCheck` says that a check that waits or was sent is the one of the
credential the busy page waits for, so its verdict is its own. `EntriesOK` gives the types of what
wallet and file hold, `WalletSteps` sorts the actions by what they write, and `ForgottenEverywhere`
extends `ForgottenStaysForgotten` to the command line's file, from which an import would bring a
credential back.

*Presets* (`FileProofs`). `StoreInv` says that in the memory of every window and in the file the ids
are unique, that nothing was used later than now, that the order of a window names its presets, and as
long as no two saves have overlapped (`torn`) names nothing else and nothing twice, that a closed
window holds nothing and saves nothing, and that the window that wrote a group last is open and holds
what it wrote. The order has to be proved twice because the merge of two saves can leave ids in the
file that name no preset, which `load()` keeps: `OrderIsComplete` joins both. `FileIsWhatWasSaved`
rests on a lemma about the merge (`MergedIsWhole`): with the file as it was opened, `MergedFile` gives
the presets and the order of the window, whatever the file held. `OldestPresetsGo` needs what trimming
computes: which evictable presets are beyond the limit in the order of their last use. `noteUsed()`
touches the mounts of a request one after another; the proof follows that recursion and shows that
each touch keeps ids and order in agreement.

*Ports* (`PortsProofs`). `SyncShowsIncoming` is what `row_sync_plan.h` promises: when no two rows have
one key, the plan turns the current rows into the incoming ones. Its proof goes along the positions: after
position *i* is placed, the rows up to *i* have the incoming keys, and the rows after it are those whose
key is still to come. The entries of a list have keys of their own because of `OneAddress`
(`EntriesHaveOwnKeys`); with it, the rows are the entries (`RowsFollowList`), the three answers
about a port agree (`OneAnswerPerPort`), and a kept map is current (`KeptMapIsCurrent`, from
`MapInv`: a kept map is the map of the rows and the filter of the moment). `TitlesAreTrue` shows that the
ranges are the segments between the starts (`SegmentsAreRanges`), that they are apart although each
has a margin (`RangesAreApart`, because two margins fit into a gap) and hold every used port
(`RangesCover`), and that the tiles of a range which are in use are its used ports. It has a
second hypothesis, `RoomForMargin`: no listed port within the margin of the last port number. With ports
1 and 6 of 7 and a margin of 1, TLC shows `TitlesCountTiles` violated, which is the defect of
`status_controller.cpp:336` in section 5. The run `ports` gives both hypotheses true values.

*The wizard* (`PortsProofs`). The steps check their own fields only, and the lists change under them, so
what a passed step found is in general no longer true. `StepsPassed` says what is: the plain fields
are valid, no two rows of the form bind one port, no mount is given twice, because those depend on the
form alone, are edited on their own step alone, and a step is left forward only while it is valid, by
`nextStep()` and `goToStep()` alike. Names, images and ports in use depend on the lists and are what
`createContainer()` checks again; `RequestsAreSound` puts both halves together, and neither is enough.
`SuggestionsResolve` rests on what `nextFreePort()` returns (`NextFreePortIsFree`): a later port of
no entry and no other row, whatever the address.

*Sequences and recursion* (`SequencePartsProofs`). The installed provers cannot instantiate a theorem
with an operator parameter, hence no induction theorem of the library. The induction here is over a
*set* of numbers instead, which a lemma can be given: a set of numbers that is not empty has a
least element (`LeastNumber`), and one that has 0 and with every number its successor has them all
(`NatSetInduction`). With that, a recursive function is what its equations say (`RecursionExists`), which
is why the modules proved about define by recursive functions and not by `RECURSIVE` operators.
The rest are lemmas about picking from, inserting into, removing from and concatenating sequences.

*Framing* (`FramingProofs`). A reader is fed pieces nobody chose, so the invariant (`LinesInv`) cannot
speak of pieces: it says what a reader holds *between* two of them, in terms of the bytes received.
Each reader has such a description, a step of its loop keeps it or gets further (`LinePasses`,
`HttpStep`, `FrameGoesOn`), and as many passes as there are bytes reach a place where nothing more can
be found out, whatever pieces came before.
* JSON lines (`JsonRests`): everything up to the last newline is counted, and the buffer is the line
  that is open, or empty while an oversized one is being dropped. A line counts once although it may be
  too long in several pieces; `LineIsConsumed` is about the carriage return at its end.
* Responses (`HttpAt`): the parser has dealt with the first *c* symbols and holds the others, has the
  body bytes among those *c*, and is in the state that belongs to this place of the layout (`Place`).
  `Settled` says when the symbols up to *n* tell no more than those up to *c*, e.g. inside a line, or in
  a body with a length that is not complete. Two lemmas carry the rest: every response that is sent has
  the layout assumed (`ResponsesAreShaped`), and the bytes handed out are continued by those that have
  arrived since (`BodyGoesOn`).
* Logs (`LogAt`): `stripAnsi()` searches for the end of a sequence in what it has, the automaton sees
  one character after the other. `EscapeScan` shows that the search ends where the automaton is back in
  the text, and `StripText` that what is kept between two pieces is exactly the sequence that is cut.
  `LinesAt` describes the lines of *n* visible characters: those shown are handed on in order, the
  line since the last cut is open, and a carriage return at the end is undecided; `CharacterStep`
  adds a character. `FrameAt` and `FrameStep` do the same as for chunks, with a frame's header.

`FramingHolds` joins the three. The streams it is about are those of `StreamFraming`: responses with the
four ways a body can end, JSON lines of braces and line ends (the lemmas hold for any bytes), and texts in
two frames of the two streams or bare.

The inductive invariants of `reply`, `ports`, `create` and `presets` were run as invariants of those
models before they were proved. `LinesInv` was run on JSON streams of 4 bytes and texts of 3, with
quantifiers over the naturals bounded.

Only model-checked: every liveness property (`AnswerArrives`, `EveryWriteIsAnswered`, `ListsSettle`,
`CycleCloses`, `PullsSettle`), since the prover does not reason about fairness and `ENABLED`.

## 5. Where the code and its comments disagree

Met while modelling; each is under `findings` with the lines. Where a property is named, the module
states it under "It does not hold", and TLC refutes it when it is made an invariant (or a property) of
the module's configuration; `EmptyIsShown` needs more, since that configuration has no list but
`containers`: with `networks` beside it in `Lists` TLC refutes it.

Client and backend:
* `getStream()` and `postStream()` set the first-response timeout after `request()` has armed the
  timer, so it does not apply to the wait for the first byte (`FirstResponseIsFast`).
* A connection error inside `connectToServer()` is emitted before the caller is connected, which the
  comment of `failLater()` says must not happen (`EveryOutcomeIsHeard`).
* A reply that is cancelled, or times out, while a failure of it waits in `failLater()` is finished a
  second time, with another verdict (`FinishedOnce`).
* The watchdog clears the API version under a running handshake, whose end then sends what waits
  without one (`OnlyNegotiationIsUnversioned`).
* A keyed request queued for a failed handshake keeps its key: the section coalesces with a request
  that is gone, until the watchdog (`KeyHasOwner`).
* `failSection()` announces the end of loading before the failure, so a cycle whose last reply fails
  counts as clean (`FailedCycleIsCounted`).
* Two log requests of one container in the queue open two streams (`OneStreamPerContainer`).
* A build refused by a failed handshake stays listed as running, and its archive stays on disk; one
  whose archive is gone when it is sent stays listed as well.
* A sample or an inspect queued for a failed handshake is reported whosever it is, and counts against
  the container that is shown (`FailuresAreOwn`).
* Network membership keeps members that a newer container list no longer has.
* Credentials travel in the request body, and a login writes them to the command line's file.

Controllers:
* A check dropped with its handshake leaves the registry page busy (`BusyHasCheck`).
* A save drops the edits made while it was under way (`EditsAreKept`). A direct save drops keys that
  were added to the file since the page read it (`SavesKeepForeignKeys`). The refusal of one page's
  request ends the wait of the other's (`RefusalIsPrivate`). A user's file that is not writable is
  saved by the helper into the system's (`HelperServesSystemPage`).
* An inspect answer after `stop()` starts sampling again (`NoSamplingAfterLeave`); a page that comes
  back to the top of the stack shows the container of the page above it (`PageShowsOwn`).
* A container whose inspect failed once is never inspected again for the ports page.
* A second create replaces the wish and the container of the first (`AnnouncedStartIsTrue`); pause,
  unpause and pruning the build cache start over a running operation of their target.
* A list that becomes empty, or gets its first entry, keeps its former state (`EmptyIsShown`).
* A container that publishes a port on two addresses gives two rows of one key, for which the row plan
  is not idempotent; loops over a range in 16 bits do not end when its last port is 65535, and a
  range whose tiles reach 65535 is drawn with none.
* The wizard's summary does not validate again what the lists may have invalidated; a wizard takes any
  `containerCreated()` for its own; presets count as used before the engine has accepted the request.
* Moving a preset past one of the other group changes nothing that is shown (`MoveIsShown`).
* Overlapping saves of two windows leave ids without a preset, or keys of a deleted one, in the file
  (`NoGarbage`); whether `sync()` has written anything is not looked at.

The properties that hold in spite of these are stated so as to name the exception
(`SecondVerdictIsDeferred`, `SentWithVersion`, `NoStrayStream`, `ConsoleIsServed`,
`OneOperationPerTarget`, `BuildOwnsArchive`, `WishIsKept`, `PortsAreLearned`, `ForeignKeysKept`,
`OrderListsPresets`, `FileFollowsWriter`). `ports` and `create` use a container list in which a
container publishes a port on one specific address (`OneAddress`) and port numbers below the last one,
because of the two code defects above; the theorems about them carry these as the hypotheses
`OneAddress` and `RoomForMargin`.

## 6. Abstractions

Left out everywhere: logging, texts, translations, the data of lists, time stamps. A slot that calls
back into the backend is a separate step after the handler, not a nested call, except the refetches of
`Operations`, which are part of it. A reply of the wire is one whose `finished()` is heard. An error is
one kind unless a handler branches on it. In `ContainerDetail` a handshake ends well or badly
at any time something waits for it; which of its three requests failed is in `DockerBackend`.

The readers of `StreamFraming` are fed well-formed streams: a header line without a colon, a
`Content-Length` that is no number, a status out of range and chunk extensions, on which
`HttpResponseParser::parse()` fails or which it drops, are left out, and so are malformed frame headers.
`checkRegistryAuth()` answers at once with `InvalidCredentials` when there is nothing to send, which
`login()` and `testCredential()` rule out before they call it; `RegistryLogin` has no such answer.

## 7. Not modelled

* DTO parsers and domain types: conversions without state; a property of theirs would restate them.
* Endpoint, capabilities, service and deployment probes: read once, constant in a session.
* The KCM shell and QML, except the page stack of `ui/main.qml`: presentation.
* Parts of modelled components, named in `PROJECT.json` under `components`: filters of the lists,
  roles and colours, rates and figures, the rows of the detail pages, the image detail page, validators
  of single values, `.dockerignore` rules, progress figures, file dialogs.

What is left to do: the image detail page over the same keys as the container page;
`ContainerDetail` composed with `DockerBackend`; logs of more than two frames, and JSON streams of
symbols beyond braces and line ends.
