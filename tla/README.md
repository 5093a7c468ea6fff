# bethesda-devbench: a TLA+ verification project

devbench is a plugin that runs an HTTP and MCP server inside a Bethesda game
(Fallout 4, Skyrim SE/VR), plus a bridge, a Node process that starts, drives and
stops the game from outside. A tool call arrives on a listener thread, must touch
engine memory only on the game's main thread, is answered under a deadline, and
may start something (a save, a load, a rest, a held key) that goes on after the
answer. The modules here model that machinery; TLC checks them on small
instances and TLAPS proves the main theorems for every instance.

## Inventory

| Component | State | Operations | Hard part | Module |
|---|---|---|---|---|
| Main-thread marshalling (`MainThread.cpp`, `MainThreadTask.h`, `MutationDispatch.h`) | a task's CAS state, its promise, the pending counter | RunAndWait, CancelableMutationRunner::Run, the queued lambda | a deadline against a claim; a game thread that hangs | `MainThread` |
| Event bus (`EventBus.h`) | history ring, delivery queue, subscribers, two mutexes | Publish, Subscribe, Unsubscribe, Since, HeadSeq, DeliverLoop, destructor | copies used after an unlock; a barrier; draining at exit | `EventBus` |
| REST and MCP adapters | none of their own | GET /api/events, SSE, tool calls | two reads of the bus that should be one | `EventBus` (the poller) |
| Game-operation tracker (`GameTool.cpp`) | the one operation slot | TryBegin, Mark..., Observe... | late, early and foreign notifications | `OperationTracker` |
| Game backends and lifecycles (Fallout 4, Skyrim) | the dispatch work's CAS, the engine's queue, the load flags | DispatchTracked, the queued lambda, the lifecycle messages | listener, main thread and engine share the slot; the two games announce differently | `GameOps` |
| Session controller (`bridge/src/session.ts`) | active job, owned process, flags | start, run, stop, cancel, shutdown | every `await` lets another workflow in | `Session` |
| Session helper and its client (`platform.ts`, `windows-session.ps1`) | request queue, lease, owned game | start, status, close, terminate, release, dispose | late answers; a child that dies; a launch left unresolved | `SessionHelper` |
| Native launch shim (`native-launch-shim.cpp`, `LaunchShim.cs`) | a pipe with two deadlines, the handle of the game | offer, launch, find the loader's child, hand over, clean up | process ids that are used again; a broker that dies at any point | `LaunchShim` |
| Bridge transport (`remote.ts`, `index.ts`, `proxy.ts`) | a pinned game identity | connect, forward | an identity that outlives its game | `Session` (`pinned`) |
| Input tool (`InputTool.cpp`, `KeyboardInputState.cpp`) | key leases, gates | down, up, tap, sequence, releaseAll, watchdog, shutdown | a release overtaking its press; expiry; retries | `KeyboardInput` |
| VR input (`VRInput.cpp`, `VRInputState.cpp`) | the sequence's transaction, the current frame, the controller indices kept and given | start, stop, playback, hooks, lifecycle, restoration and its recovery | four threads may end one sequence; late main-thread tasks | `VRInput`, `VRFrames` |
| Rest tool and backends | service operation, tracker slot, native poll | start, wait, complete, poll, shutdown | three threads and three copies of one fact under three locks | `Rest` |
| Scenario tool | an active and a pending run, what a run owns | submit, cancel, shutdown, the worker and its steps, cleanup | cancellation, lost wake-ups, uncertain tool calls, events before their wait | `Scenario`, `ValuePredicate` |
| Recording tool | phase, samples, worker, the range of a replay's events | start, sample loop, checkpoint, stop, replay, shutdown; the planner | events delivered late; joins | `Recording`, `ReplayPlan` |
| Skyrim recording activity | frames built from samples and events | build, validate | transitions between two samples | `TrackedReplay` |
| Camera tool, free camera of Skyrim | camera states of a scene, the owner, recovery | freecam, freecamOff, drive, loads | a scene that changes under a queued command | `FreeCamera` |
| Papyrus tool and backends | a call, its outcome, what the machine was given | call, validate, bind, dispatch, complete | what was validated changes before it is used; outcomes after the answer | `Papyrus`, `PapyrusTypes` |
| Console tool | pending submissions, fences, observed commands | submit, run, read | one count lowered on two paths; a window between two lines | `Console` |
| Capture tool | requests, files, the native slot | provider and native capture, sidecars | providers that answer late; one name twice | `Capture` |
| Menu tool | none | read, mutate | check and act in two visits to the main thread | `MainThread` (the runner) |
| Stall watchdog | last frame, warnings | sample | a stalled thread told from a busy one | planned |
| Host, HTTP server, host API, registry | tables, start and shutdown order | start, shutdown, register | the order of shutdown | planned |
| Configuration, profiles, headers, calendars, inspection | none or set once | parse, look up | arithmetic of calendars | calendars planned, the rest left out |
| In-game menus, build files, tests | - | - | - | left out |

`PROJECT.json` lists every component with its sources and what is left out of it,
and the hazards that matter most, with the line where each bites and the
properties that catch it.

How they interact: a tool handler runs on a listener thread and reaches the engine
through the marshalling layer or a backend's own queued lambda; backends report to
the tracker, the tracker's owner publishes on the event bus; pollers (the bridge
among them) and subscribers (SSE, MCP, scenario waits, the recorder) read the bus;
a scenario runs steps by calling the other tools, and a replay is a scenario that
the recorder plans; the bridge calls the plugin over HTTP and its helper over a
pipe, and the helper talks to the shim over another.

## Modules

`DeferredCall` is the abstract promise of a call that runs elsewhere under a
deadline: a body starts at most once, the answer never contradicts what the body
did, and a body whose caller was told that it did not start never starts. It
models no code. `MainThread` and `GameOps`, two independent implementations of
the same promise in the source, are each shown to implement it.

`MainThread`: every call is a reader (`RunAndWait`) or a mutation
(`CancelableMutationRunner::Run`). Callers run `Enter`, `Enqueue`, `Poll`,
`FinalPoll`, `Abandon`, `Recheck`; the game thread takes a task, samples the
clock, expires or claims it, runs the body, publishes, and runs the lambda's
`Finally`. The compare-and-swap on a task's state is one step, the sampling of
the clock and the comparison with the deadline another, since the code does them
at different instants. `Tick` lets a call's deadline pass; `StopWaiting` clears
the recorder's `a_keepWaiting`.

`EventBus`: events are their sequence numbers. `log` is the ring, `out` the
delivery queue; the worker copies the batch and the callbacks in one step
(`Take`), locks the delivery mutex in another (`Acquire`) and runs the callbacks
one by one. `Erase` and `Barrier` are the two halves of Unsubscribe. `PollSince`
and `PollHead` are the two reads of GET /api/events.

`OperationTracker` holds the tracker's methods as operators on the slot (each
runs under one lock, so each is atomic). `GameOps` composes it with the
listeners that dispatch (`DispatchTracked`), the main thread's queued lambda
(`Main`) and the engine (`Engine`), which announces loads and saves of its own
(the player's) as well as the dispatched ones and may silently drop a load. The
variable `game` says which back end runs; the two share DispatchTracked line for
line and differ in what they hear: Fallout 4 announces the start and the end of a
save (`PreMessage`, `PostMessage`), Skyrim only that it saved (`SaveMessage`), and
the loading menu, a new game and Reset treat loadInProgress differently
(`FalloutLoadingMenu`, `SkyrimLoadingMenu` and so on).

`SessionHelper` is the helper process with its client: a call has an answer, a
timeout, a death of the child. `Session` composes it with the controller: the
job's pipeline (`JobStep`), the `stop` workflow, cancel and shutdown, each step
ending at an `await`, because that is where the event loop lets others in.

`KeyboardInput`: `lease[k]` is the entry of a key in both of the service's tables
(`leases` and `active`, always changed together); `press[g]` and `lift[g]` are
the gates of generation g's two commands. A call is a sequence of steps on its
listener thread; each critical section of the service's mutex is one action
(`Acquire`, `SubmitDown`, `Find`, `ReleaseGeneration`), the command then goes
through `Dispatch` into the main thread's queue and ends in a completion
(`DownComplete`, `UpComplete`) or in the deadline (`Timeout`). What `RunAndWait`
does inside is taken from `MainThread`: a queued command is run or revoked by its
caller's deadline, never both. The main thread's TryBegin and its call into the
engine are one step, since until the completion nobody sees more than the gate.
Expiry is a choice at each look of the watchdog; a retry is due whenever it
looks. Each listener serves one call; `accepting` stands for ready and accepting;
an outcome the engine leaves unknown counts as applied, as it does in the code.
`held` is what the game saw last, and `overtaken` a history variable that no
action reads.

`Rest` composes the tracker with the service's own operation and the back end's
active rest: three copies of one fact. `Start` is cut at every lock; `Main` is
the dispatch on the main thread; the poll thread (`Poll`) watches the menu and
the engine's time; `Rival` is another mutation that wants the slot. `blind` marks
a rest that the back end had to give up without knowing how it went on.

`LaunchShim` has the shim (`Shim`), the broker of the helper (`Broker`), the
script extender's loader, the player's own game, and processes whose ids are used again (`born` tells two of one id apart). A look for the game is cut as
the code cuts it: `TakeSnapshot` tells ids and parents, `OpenEntry` later opens
one of the ids and finds whoever has it by then, so that a `candidate` may carry
the parent of one process (`was`) and the creation time of another (`born`).
`Retain` opens the id once more and compares the creation time. The pipe is two
queues; `Expires` lets the deadline of the exchange pass, and `WaitFails` is a
wait for a process that Windows refuses.

`PapyrusTypes` describes types, forms and values as data and translates the
validation of arguments and their conversion for both games. `Papyrus` takes these
as parameters (`ArgumentErrors`, `Faults`, `ArgForms`) and is the way of a call
through the tool's outcome, the main thread (`Recheck`, binding, dispatch) and the
machine; `MCServices` puts the two together. `touched` is a history variable: what
was changed, and under which state.

`Console` cuts a submission at the observer's lock and the main thread's queue;
`log` is the console's buffer, which drops old lines. `Capture` has the requests,
the bus of ready events, the files and the sidecars; providers write and answer
late. A path is a request's stem with its extension; a provider's image and a
native one may have the same. `abandoned` and `before` are history variables.

`Scenario` has the callers, the canceller, the shutting thread and the worker
with one action per kind of step. A tool call may fail with an outcome that is
uncertain, or throw and end the whole run; `owns` is what the run itself believes
it holds and `held`, `free` what the game really has. The run's deadline
(`RunDeadline`) may pass anywhere between its steps and in them. A `finalizeResult`
that throws commits the run as failed; only replays install one
(`RecordingTool.cpp:1806`), and it adds fields to the result. `ValuePredicate` is the comparison of JSON values, with a
limit `SignLimit` in the place of 2^63 and floats of half integers;
`Scenario`'s predicate steps take its verdict as a choice.

`Recording` is the recorder: `generation` separates the recordings,
`startCursor` and `suppressionEnd` delimit the events of a replay, which the bus
delivers (`ObserveEvent`) later than they were published. A replay's console
commands are only queued by its steps (`ReplayQueues`); the main thread runs them
(`CommandRuns`) during the replay or after its end. `during` says of an event
whether a replay was active when it was published. `ReplayPlan` is the planner: the merge of samples, activity and checkpoints into one timeline and
that into scenario steps. `TrackedReplay` builds the frames of the hands from
samples and transitions (`Define`, `Place`, `Emit`, `Validate`).

`VRInput`: `txn` is `VRSequenceTransaction`; `thread[t]` is where a start, a
stop, a lifecycle release, the playback or a recovery is; `tasks` are the tasks
queued for the main thread, which may run after their caller has given up.
`game` is what the engine's controllers hold and `previous` what was kept.

`FreeCamera`: a camera state belongs to a scene, of which a load makes a new one.
`own` is what the module keeps of its own free camera, `call` what a command
checked before it was queued, `by`, `lost` and `touched` are history variables:
who entered the free camera last (or that a new game kept it), whether the code
could know of a change, and whose camera a command moved. The game may keep its
camera state over a load and over a new game (`NextScene`).

The `MC` modules give the sets of callers, subscribers and requests.
`MCServices` and `MCServicesEnd` put the services side by side: the variable
`which` picks one for the whole behaviour and the others have no state, so that
a run explores the sum of their state spaces and not the product. A service that
is looked at in several instances (`VRInput` with a lifecycle release and a stop,
`Scenario` with other plans, `FreeCamera` in VR and flat) has a value of `which`
for each, over the same variables. The `_proofs` modules hold the theorems.

## What each run checks

Passing runs:

| Run | Bounds | Properties |
|---|---|---|
| `MainThread.cfg` | one reader, one mutation | `PendingExact`: the counter is the number of enqueued reads whose task has not finished. `ImplementsDeferredCall`: the refinement. `CallerReturns`: a caller is answered even when the game thread never runs again. |
| `EventBus.cfg` | 2 subscribers, 2 events, a ring of 1 | `ExactlyOnceInOrder`: what a subscriber got is the events since it subscribed, once, in order. `EventuallyDelivered`. `UnsubscribeReturns`: the barrier is always passed. |
| `GameOps.cfg` | both games, 2 requests (one saves or advances time, one loads), 2 save names, one thing the player does (a save, a load, a new game, a loading menu that opens and closes) | `NoLeakedSlot`: the slot is held only for an operation that something will end. `CancelledStaysCancelled`: a cancelled operation never gets another outcome, nor its effect. `ImplementsDeferredCall`. `PhaseForward`: no phase goes back. `SlotReleased`: if the engine finishes the action, the slot comes back. |
| `Session.cfg` | 2 games, 2 jobs, 1 stale answer, one `stop` workflow at a time, `stop` without force | `KeepsItsGame`: a game that was launched and still runs stays in the helper's hands until it is released, and the controller never takes another game for its own than the helper has. `LeftRunning`: a game released with leave-running is never closed. `ShutdownSpares`: once the helper has served the release of a shutdown, no game is closed. `JobEnds`: every job ends. |
| `KeyboardInput.cfg` | one key, two owners with one call each (a sequence that presses and releases; a plain hold or releaseAll), 2 leases in all | `HeldIsLeased`: a key that the game believes pressed has a lease, unless its release overtook its press. `OnlyOwnReleased`: nobody releases another owner's lease, though the key changed hands since the look. `HoldsEnd`: every hold ends, unless its release is lost or the service stops. `ShutdownReturns`: shutdown does not hang with the main thread. |
| `Services.cfg` | see below | see below |
| `ServicesEnd.cfg` | one rest and a rival, one run, one recorder call with a shutdown, one VR sequence with a load | `RestsEnd`: a rest gives its slot back after its caller has gone, and shutdown and caller return. `ScenarioEnds`: a run ends and its caller is answered though the wake-up of a cancellation may be lost. `JoinsReturn`: nobody is stuck in the sampling thread's join. `RestorationsEnd`: after a sequence that its playback, a load or a failed start ends, the game has its own controllers back, though restorations fail. |

`Services.cfg`, by the value of `which` (each also contributes its `TypeOK` to
`TypesOK`):

| which | Bounds | Property |
|---|---|---|
| rest | 2 rests, each the other's rival for the slot, both games | `RestAccounted`: the three copies of "which rest runs" agree but for a handover; time passes for a rest only under the slot (or after the back end gave it up unknowing); a caller told "cancelled" gets no rest. |
| shim | 3 process ids, 4 processes in all, each of which may end and leave its id to another between the snapshot and the open of it | `ShimKeepsItsGame`: what is retained and later terminated is the game the own loader made; the shim outlives it. Excepted is the process that inherits the id of a snapshot's before it is opened (`Mixed`). |
| papyrus | 2 calls out of 7 requests, 2 forms, one change of mode, selection or freezing, both games | `PapyrusTrue`: the machine is touched only for arguments that fit at that moment, and no answer is contradicted later. |
| console | 3 submissions of which 2 capture, a limit of 2, a log of 5 lines, one line of the player's | `ConsoleAccounted`: the count is exact; a capture reads its own window. |
| capture | 2 requests of one name, providers' and native images with one extension, a ring of 1 | `CapturesOwn`: a conclusive result shows what the own provider made, or a screenshot that a native request of the same path moved there; a saved image has its own sidecar. |
| scenario, scenarioAlone | one run that presses, acts and waits, with an event of others; one with every other step | `RunsTrue`: an accepted cancellation is the outcome; a run leaves nothing behind that it could give back; a wait does not miss what the step before it set off. |
| recorder | 3 calls, 1 event (which may be that of a console command that runs after its replay), 1 sample, 2 entries of activity | `PlayerKept`: what the player does outside of replays is recorded; in `ReplaysFaithful`: what a replay did up to its end is not taken for the player's. |
| planner | recordings of up to 2 events and 2 samples at times 0 to 3 (3 saves) | `ReplaysFaithful`: all is played once, in order and at its time, plus the drift that tracked hands which outlast the timeline add after each item; each save once. |
| tracked | 2 samples and up to 2 transitions | `ReplaysFaithful`: each transition has its frame, in order, moved no further than needed; every sample keeps its state. |
| vr, vrReleased, vrStopped | 2 starts with a stop, 2 starts with a shutdown, a start with a forced stop and a load; 1 or 2 failures | `SequencesOwned`: the game has its own controllers before another sequence begins, the hooks agree with what it was given, the end is told once, a stop tells the truth. |
| camera, cameraFlat | 2 callers, 3 commands, 1 load or new game that may keep the camera, 2 (1) moves by others | `CameraOwned`: only an own free camera is left or moved, and a command that comes to the main thread can leave every own one, unless the game still is in a state of an unloaded scene or a new game kept it. |
| predicate | all integers of both types around `SignLimit` = 2, halves from -3 to 5, NaN, infinities, other JSON | `ComparesTrue`: the verdict is that of the numbers themselves. |

Two calls are enough for the marshalling layer because the game thread runs one
task at a time and two calls meet only in the counter and the queue; a ring of
one with two events is the smallest that drops an event; two requests are needed
for a conflict on the slot and one player action for a foreign notification; two
games are a game and its successor, and two jobs the jobs that own them. One key
is enough for the keyboard since leases of different keys share only the limit on
their number (which one key cannot reach); two owners and two generations let the
key change hands between two critical sections of the same call. Among the
services two of a kind are the rule, because each keeps one (one rest, one active
run, one recording, one sequence, one own camera) and the question is what the
second does to the first; three process ids are the loader, its game and one to
be used again; two failures let a restoration fail and its recovery fail again.
A single caller in the recorder's run of `ServicesEnd` meets the shutdown, which
is the other thread that joins. `SignLimit` is arbitrary in the proof below.

Violation runs, each showing that the code does not do what its documentation
says (`PROJECT.json` "findings" quotes both):

- `EventBus_UnsubscribedNeverRuns.cfg`: a callback can run after Unsubscribe has
  returned, when the worker has copied the callbacks and not yet taken the
  delivery mutex.
- `Session_HandsOff.cfg`: a lost answer to the scenario cancel is swallowed and
  the game is closed, though an uncertain write should end all automatic writes.
- `Session_ShutdownLetsGo.cfg`: a job that has not created its platform when
  shutdown runs starts a helper afterwards.
- `KeyboardInput_PressesGated.cfg`: a lease has no gate between `Down` and
  `SubmitDown`. A release in that window goes ahead of the press, and the press
  then runs after its lease has ended.
- `ReplayPlan_SettlesAfterLoad.cfg`: the plan asks whether the entry was restored
  before the run that restores it has begun, so the settling wait after the load
  is never planned.

`HeldIsLeased` and `HoldsEnd` leave out exactly the cases named in `overtaken`
and `ReleaseLost`, so that they say what holds in all others.

### Divergences that no run is kept for

The modules state or show these too; TLC finds each when the definition named is
given as an invariant or property.

- `PollMissesNothing` (`EventBus`): an event published between Since and HeadSeq
  is below the cursor a poller is given and not in the answer
  (`RestAdapter.cpp:132`).
- `RestartSurvives` (`Session`): without a `runtimeFile` all jobs share a remote
  whose pinned identity is never cleared (`remote.ts:101`).
- `ReleasesRetry` (`KeyboardInput`): a release that timed out before the main
  thread took it completes nowhere and is never retried (`InputBackend.cpp:195`).
- `SavedStays` (`Capture`): "existing artifacts are never overwritten"
  (`CaptureTool.cpp:669`), but the rename at 1070 overwrites what a request of
  the same name wrote since the check.
- `ConclusiveIsProviders` (`Capture`): the same rename may land on the file that a
  provider has made and its result is about to be composed from, where both have
  one extension (26, 943 and 1067 allow it): the result then calls a screenshot of
  the other request conclusive. `ConclusiveIsOwn` names this exception.
- `OwnedIsProven` (`LaunchShim`): a game of the snapshot that ends before its id is
  opened leaves it to another, and `FindExactImage` joins the parent of the one with
  the creation time and image of the other
  (`native-launch-shim.cpp:855`, 872-876). If the first was the loader's own game
  and the other is the player's, that one is retained and later terminated.
  Nothing is opened between the two looks, so the code cannot tell; asking the
  opened process for its parent would.
- `OnTime` (`ReplayPlan`): the time of tracked hands carries a tail
  (`RecordingActivity.cpp:359`) and the wait for them stands inside the loop over
  the items (`RecordingTool.cpp:1706-1713`), so that every item after the first
  comes later by what they outlast the timeline, once for each item before it.
- `NeverStranded` (`FreeCamera`): a free state of the scene before, which the engine
  carries over a load, is not one that `Recovered` knows (`VRFreeCamera.cpp:78`), and a new game
  has no CameraPreLoad (`Bootstrap.cpp:99-105`): no command leaves such a camera.
- `BudgetReplayable` (`ReplayPlan`): a recording that keeps the budget
  (`RecordingTool.cpp:1081`) may still plan to more steps than a scenario takes.
- `ReplayNotRecorded` (`Recording`): "suppress feedback recording"
    (`RecordingTool.cpp:2083`) covers only the range of the latest replay, so a
  late event of the replay before it is recorded as the player's. And the range
  ends with `onCompleted` (1848), while a console command of the last pose has only
  been queued (`ConsoleTool.cpp:228`, `RecordingTool.cpp:1605-1637`): what it
  publishes when it runs is recorded too.
- `OnSubmittedFirst` (`Scenario`): the worker needs no notification to see a run,
  and may publish its events before `onSubmitted` (`ScenarioTool.h:42`).
- `HeldStays` (`TrackedReplay`): where samples note the buttons, a second
  transition before the next sample starts again from the sample before it
  (`RecordingActivity.cpp:327`) and shows an earlier button as released.
- A stop of a VR sequence whose restoration fails schedules no recovery
  (`VRInput.cpp:337`), unlike the playback and the lifecycle; `RestorationsEnd`
    is therefore checked without stops, and with every thread started. When no thread
  can be started for the cleanup, the end is never published (`silent` in `VRInput`).
- Stop and Shutdown of the recorder may both find the sampling thread joinable
  and both join it, which is undefined (`RecordingTool.cpp:1114`); the model has
  the second return or the process end. Start does not look at `stopping` again
  after its snapshot.
- Skyrim's `MenuSink` sets loadInProgress when the loading menu opens and never
  clears it when it closes (`skyrimse/Lifecycle.cpp:111`), where Fallout 4's does
  both: after a change of cells every mutation is refused with "a game load is
  already in progress" until a load or a new game ends (`GameOps`,
  `SkyrimLoadingMenu`).

## Fairness

- `MainThread`: the listener threads are scheduled and the clock advances.
  Nothing is assumed of the game thread, which really may hang.
- `EventBus`: the worker thread is scheduled, callbacks return, and a thread
  inside Unsubscribe is scheduled. Nobody has to publish.
- `GameOps`: listeners, the main thread and the engine's own work are
  scheduled. The player does nothing by obligation, and the engine may drop a
  load; `SlotReleased` excludes the operations it dropped.
- `Session`: Node's event loop and timers run (job, stop and shutdown steps, the
  startup deadline, call timeouts). Nothing is assumed of the helper, of the
  game or of the user.
- `KeyboardInput`: listener threads, the watchdog and the shutting thread are
  scheduled, deadlines pass, and a lease expires in the end (strong fairness of
  the watchdog taking it up). Nothing is assumed of the main thread;
  `HoldsEnd` takes as a hypothesis that it runs and neither it nor the extender
  refuses for ever. Nobody has to call.
- `MCServicesEnd`: each thread is scheduled by itself (a thread that is in a call,
  the main thread, the poll thread, the worker, the sampling thread, the shutting
  thread, each VR thread), deadlines pass, and a native rest comes to its end.
  Strong fairness only of the poll that ends with nothing to do, since it may be
  put off by looks that find the menu. A wake-up without need (`scenario_noise`
  unchanged) is no progress that is asked for. Failures of VR are bounded by
  `Fails`: a main thread that refuses for ever is not made to restore. Nobody has
  to call or to shut down.

## Proofs

`MainThread_proofs`, from the assumption that the sets of readers and mutations
are finite and disjoint (`CallsAssumption`), for every such pair of sets:

- `TypeCorrect`: `TypeOK` is an invariant.
- `Refinement`: `Spec` implements `DeferredCall`'s specification. The refinement
  step needs more than the types: `IInv` adds that an answered call has left the
  protocol (`Answered`), that a task's CAS state tells what its body has done
  (`StateTellsBody`), that a call that never enqueued has no task anywhere
  (`Unqueued`), that the reply a caller carries was decided from that state
  (`Decided`), and where the game thread can be for the task it holds
  (`MainPhase`). The argument: "did not start" is answered only after the swap
  to abandoned, and the game thread's own swap fails from then on.
- `CounterExact`: `PendingExact` is an invariant. It needs `OneCopy`: a task is
  in the queue at most once and not both in the queue and in the game thread's
  hands, so that each of the ways out lowers the counter once.

`Scenario_proofs`, of the predicates from the assumption that the sign limit is a
positive number and that what is observed and expected are values of the types
(`LimitAssumption` and the ones beside it):

- `NumbersTrue`: `CompareNumbers` orders any two finite numbers as the numbers
  they are. The lemmas follow the code: `FloorTrue` (the integer below a float
  and the test of its fraction), `SignedUnsignedTrue` (the cast of a negative
  number is never reached), `SignedDoubleTrue` and `UnsignedDoubleTrue` (what is
  cut off before the cast lies outside of the type).
- `LooksTrue`: `ComparesTrue` is an invariant of the polling loop. Its inductive
  invariant is `ComparesTrue` with the types and with what parsing has
  established of the predicate (a boolean for `exists`, a number for an order).

Of the service and its worker, for any runs, any plans (also one without steps),
any bounds of the history and of the ring, and any set of callers that cancel or
shut down, from `ScenarioAssumption` (plans are made of the known steps and repeat
at least once, the bounds are numbers, the ring keeps something, and "none" is not
a run, a status or a receipt), asserted of both instances in `MCServices`:

- `CancelsTrue` (`CancelTrue`, with the one exception of a `finalizeResult` that
  throws). `Cancel` and the worker meet only at the record's
  mutex. `ServedOnceInv` says who serves which run at each place of the worker:
  the active run waits to be taken, or is the worker's until it is forgotten, so
  that no run is committed twice, nor in another's name. `FlaggedInv` adds that
  whoever was told of a cancellation has set the flag that the commit reads.
- `RunsLeaveClean` (`LeavesClean`). `HoldsInv` ties what a run believes to what
  the game has: a free camera that is this run's is known of (`acquired`) or the
  run has failed, up to its restoration, and from there the failure or the
  incomplete cleanup is remembered; a key that is held is owned until the release,
  and after it is one that could not be released. `Dispatch`
  notes the ownership of the input before the call is made, so that a press whose
  answer never comes is released too.
- `WaitForSees` (`WaitForMissesNothing`). The ring's numbers run up to the head
  without a hole (`RingInv`), and no number from which the worker is to look lies
  behind the event it looks for (`ReceiptInv`): a receipt's cursor was read before
  the call, or was named by the tool's answer, and each look moves past what it
  has seen only when none of that matched. An event that has dropped out of the
  ring shows as a gap, which ends the step.
- `ScenarioTypeCorrect`.

`WaitForMissesNothing` speaks of an act that answered with a correlation of its
own; an act without one is waited for from wherever the run has looked to.

`GameOps_proofs`, for any set of requests, what each may ask, either game and a
player who saves and loads any number of times:

- `TypeCorrect`, `SlotFreed` (`NoLeakedSlot`), `StaysCancelled`
  (`CancelledStaysCancelled`), `StatusForward` (`PhaseForward`) and `Refinement`
  (`ImplementsDeferredCall`). None of the three safety properties is inductive
  alone, because listener, main thread and engine each see a part of a request.
  `IInv` adds that a request's task is queued at most once and only by a listener
  that submitted it (`QueueInv`), that the CAS phase of the work tells who decided
  about it and what the caller may have been told (`WorkInv`), and that the slot's
  operation is still reserved as long as nobody has claimed or given up its work
  (`SlotInv`). The argument: claim and cancellation are one compare-and-swap, so a
  reserved slot has exactly one thread left that may end it, and a notification of
  the engine can only touch an operation whose work was claimed.

`EventBus_proofs`, for any set of subscribers, any positive size of the ring and
any number of events:

- `TypeCorrect` and `ExactlyOnce` (`ExactlyOnceInOrder`). The worker copies a
  batch and the callbacks, drops the lock and calls one by one, while others
  publish, subscribe and unsubscribe. The invariant follows the events from
  Publish to the callback: the delivery queue holds those after the last one the
  worker took (`QueueInv`), and for each subscriber there is a next event such
  that it was called with all before it and will be called with all from it up to
  the last one taken (`DueInv`), in that order (`OrderInv`). The calls of a batch
  are numbered by quotient and remainder, as the two loops run; `DivBound`,
  `DivUnique` and `DivOrder` are the arithmetic of that. `RingInv` and `PollInv`
  carry the types of the ring and of the poller.

`Input_proofs` is about the input tool. The keyboard's leases, for any keys, clients, owners and calls, any limit of held
keys and any number of leases, from `InputAssumption` (there is a key, the limit
is positive, the watchdog is no client) and `CallsAssumption` (a call is a
sequence of the steps that Handle makes, and those that open a lease want a fresh
one, as Sequence does):

- `TypeCorrect` (with the limit, and that no two leases share a generation and no
  command is queued twice), `HeldLeased` (`HeldIsLeased`) and `OwnReleased`
  (`OnlyOwnReleased`).
- The argument is about generations, since every check after an unlock compares
  one. A generation is known to an actor only if there was a lease of it that the
  actor might act on, and a lease keeps generation and owner to its end
  (`OwnInv`), so what a client finds again under its generation is its own.
- For `HeldIsLeased` the invariant must say what a press may still find when the
  main thread comes to it. A generation has one press and at a time one release on
  the way (`UniqueInv`); a press that has not begun still has its lease in phase
  downPending, or its release overtook it (`PressInv`); a gate that was never
  begun has no key down, one that was revoked has no lease (`GateInv`); a lease
  whose release is on the way is not released again (`UpInv`). Each kind of step
  has a lemma (`LeaseGiven`, `PressSubmitted`, `PressesRevoked`,
  `ReleaseDecided`, `Taken`, `Completed`, `CoreSame`), and `NextCommanded` sorts
  the actions of the model into them. `PressInv` without its "or overtaken" is not
  inductive: the counterexample is the window between `Down` and `SubmitDown` of
  `KeyboardInput_PressesGated.cfg`.

The tracked sets of VR (`VRInput`), for any starts, stops and lifecycle calls, any
frames, owners and tokens, from `VRAssumption` (there are finitely many starts, `None`
is not one of them and no thread, frames are records of numbers, the bounds are
numbers), which `MCServices` asserts of its three instances, one with both
controllers off and of one index:

- `ControllersBack` (`GivesBack`), `HooksTrue` (`HooksAgree`), `EndsAnnounced`
  (`Announced`), `StopsTrue` (`StoppedTrue`) and `VRTypeCorrect`, the parts of
  `SequencesOwned`.
- Up to six kinds of thread act for a sequence, each with the generation it was
  started with, and the main thread's tasks may outlive the thread that queued
  them. So every part of the invariant speaks of the transaction's generation and of
  whoever carries it. A generation is one start's (`StartInv`), a thread acts for one
  that has begun and never for a coming one (`ThreadInv`), and whoever waits for a
  task waits for that one task (`TaskInv`).
- What is kept of the game's controllers must never be another sequence's indices:
  the controllers of a sequence are given at most once, since while its task is
  queued or run nothing is applied and no second task of it exists (`ApplyInv`),
  and the sequence may not begin while another is applied or being restored, which
  is `Busy` (`TransactionInv`). `GameInv` is then `GivesBack` with what the frames
  say, from which `HooksAgree` follows, because every frame of a sequence has the
  same three indices (`Pairs`, from `Valid`).
- Whoever restores, or waits for a restoration, has a claim before it
  (`RestoreInv`), so that "nothing applied" means that the sequence is over. The
  first claim leaves the event with the transaction or publishes it (`EventInv`):
  exactly once, and by the time that the transaction is free again. The exception
  is the one that `Announced` names: after a cleanup that could not be started the
  recovery restores with no event (`silent`). A recovery's generation is noted
  as long as its thread runs or is about to be started, and only one thread
  starts it (`RecoveryInv`).

`Services_proofs` is about seven services that `MCServices` runs. The free camera,
for any callers, any number of loads and whatever others do with the camera, in
VR and in the flat game, from `CameraAssumption` (how many loads there are is a
number, and "nothing kept" is not something kept), which `MCServices` asserts of
its instances:

- `OwnTouched` (`OnlyOwnTouched`), `NoneStranded` (`NotStranded`) and
  `CameraTypeCorrect`. A command knows the camera only by what it finds, so the
  invariant relates what is kept, what the camera is and whose it is, in `Fits`:
  what is kept, or to be recovered, is a command's camera or one that was left
  with nobody looking; a free camera that a command entered is owned or to be
  recovered; and in VR what is kept belongs to the scene that is loaded. A look
    keeps this (`LookFits`), and `RecoveredWhat` and `EnabledWhat` say what else a
  command can do. `NotStranded` asks for a command that leaves the camera (`Leavable`),
  and excepts what `Recovered` cannot know: the state of a scene that is unloaded,
  and the camera that a new game has kept. That no command comes a load late needs the sessions
  (`AskedInv`): `PreLoad`, `PostLoad` and `NewGame` each begin a new one, and
  between them the gate is closed (`GateInv`).

The launch shim, for any set of process ids and any number of processes, from
`ShimAssumption` ("no process" is not a process), asserted there too:

- `KeepsItsGame` (`ShimKeepsItsGame`, the two invariants of the shim together)
  and `LaunchTypeCorrect`. That a game of the loader's pid is the loader's takes both
  halves of the test in `IsOurs` and what is held meanwhile (`ParentInv`): no
  later game has another parent under that pid, because the shim's handle keeps
  the pid from being used again, and an earlier one is older than the loader.
  The shim, though, tests what a snapshot said of one process against what it found
  when it opened the id: `SnapInv` says that the parent is right as long as the
  process of the snapshot is the one under the id, so only what is `Mixed` of two
  escapes the argument, and the theorem names it, as it names the refused wait.
  `OwnedInv` says which handle is open where the shim is, so that the broker can
  only be given the one game, and `EndInv` that a shim that has ended either
  started nothing, asked for a cleanup by hand, or saw its game end; the game
  stays ended since its pid is held too. The proof needed `Catch` to order its
  cases as the code does; the first match of a CASE is TLC's choice, and in the
  logic overlapping guards leave it open. `Scenario`'s overlapping cases are
  written as IF for the same reason.

The console tool, for any requests and captures, any limits and any size of the
game's log, from `ConsoleAssumption` (there are finitely many requests, the bounds
are numbers, and "nothing read" is not something read), asserted there too:

- `CountExact` (`PendingExact`), `OwnWindows` (`ReadsOwnWindow`) and
  `ConsoleTypeCorrect`. The log drops its oldest entries, so that positions in it
  say nothing; the invariant speaks of what is left of a window (`FencedBy`): a
  begin fence that the log still has is followed by the lines of its window, and
  these by the end fence or, while the command runs, by the end of the log. The
  queue makes that true: only its first submission runs (`SubmittedInv`), so no
  two windows are open at once and a fence of another never falls into one.
  `FencedGrows`, `FencedBegins` and `FencedEnds` are what an entry does to a window,
  `ExtractedWindow` that the cut between the fences is the window. The count falls
  on two ways, and each takes its request out of those under way (`Counted`).

The capture tool, for any requests under any names and any size of the ring, from
`CaptureAssumption` (the bounds are numbers, and "no file" is no request), asserted
there too:

- `OwnImages` (`ConclusiveIsOwn`), `OwnSidecars` (`SavedIsDescribed`) and
  `CaptureTypeCorrect`, whatever extensions the images have. The invariant follows
  an image from its provider to the result: a provider that has begun to write owns
  the file under its name, whoever else checked that name before, unless a native
  request has moved a screenshot there (`Made`); the ring tells only of such files,
  since an event is published behind the write; and a request believes only an event
  with its own number (`MadeInv`), so that what it calls conclusive is its own or
  such a screenshot (`ResultInv`). That nothing but screenshots is ever moved is
  `ShotsInv`: the folders that are scanned hold no others, and the slot of the
  player's key serves one at a time.

The rest tool with either back end, for any rests and any requests that compete
with them for the game, from `RestsAssumption` (rests are requests, and neither "no
request" nor the other threads are), asserted there too:

- `RestCopies` (`CopiesAgree`), `Covered` (`RestCovered`), `CancelledStays`
  (`CancelledNeverRests`) and `RestTypeCorrect`. No lock covers the service, the
  back end and the tracker, so the invariant follows the rest that the back end has
  taken: it is at one place, in the queue, on the main thread, with the poll thread,
  or carried away by the one thread that ends it (`TurnInv`). From that and the
  gate, which is passed or closed once, follows what the other two believe
  (`ServedInv`): they end a rest only behind the back end. The slot is a reservation
  exactly until the main thread has passed the gate (`PhaseInv`), so the
  one of `MarkCancelled`, `MarkDispatchFailed` and `MarkCompleted` that an outcome
  leads to does free it; and whoever says "cancelled", the listener, a carried outcome or the shutdown, holds the gate
  (`RevokedInv`). The engine rests for nobody but the back end's rest, except one
  that was given up while it went on (`NativeInv`), which is what `blind` is for.
  Here too a CASE with overlapping guards, in `MarkService`, had to become an IF.

The recorder, for any callers and any limits, from `RecorderAssumption` (the bounds
are numbers and `None` is not), asserted there too:

- `TailsSuppressed` (`TailSuppressed`), `PlayersKept` (`PlayerKept`) and
  `RecordingTypeCorrect`, which also says that samples, activity and checkpoints
  together keep the budget of a replay, whoever adds to them and however often a
  recording is begun anew. What makes the range right is said of the events still
  queued   (`NumberedInv`): they are in the order of their numbers; those of the
  latest replay from before its end lie in the range; and what lies in the range was
  published while a replay was active. A command that still waits is of this replay
  or an earlier one (`CommandsInv`), and what it publishes after the end is not
  claimed to be suppressed: it is not. It is kept because a replay is submitted by one call at a time
  (`SubmitInv`), so the range ends at the number that the bus has when the only
  replay is over, and because the oldest event is delivered first, so that the range
  is forgotten only when nothing in it is queued any more. `ReplayNotRecorded` shows
  why the theorem is about the latest replay.

The Papyrus tool, for any calls and requests, any forms and signatures and any way
to validate, convert and bind, from `PapyrusAssumption`, asserted there too: a
conversion binds forms that there are; and what validation accepts of a request,
against a signature of the game, conversion does not find to be of another shape.
The second is the contract between `PapyrusTool.cpp` and the two back ends; it is
the one thing about `PapyrusTypes` that the proof needs, and TLC evaluates it for
the requests and signatures of the run.

- `AnswersHold` (`AnswersTrue`). A call is in one place at a time (`PlaceInv`): a
  task that waits, with the machine, a result that waits, or over, and its outcome
  is still open until it is over. So no outcome is
  ever completed twice, and a call of which the caller was told that it was not
  dispatched has either no task and never will (`UnaskedInv`), or that outcome.
- `TouchedValid` (`TouchesValidated`). The task validates again what it is about
  to act on, first with the bindings as they are and then with the target bound;
  that the game was ready when the call was queued follows from where the task is.
- `PapyrusTypeCorrect`: also, that no call is given to the machine twice.

`Session_proofs`, for any number of games, jobs and stops, either setting of
`SharedRemote`, from `HelperAssumption` and `SessionAssumption` (which workflows
there are, and that the bounds are numbers):

- `GameKept` (`KeepsItsGame`). The controller decides on what an answer said when
  it was given, and the helper serves a request long after it was decided on, or
  after its caller gave it up; so the invariant speaks of what is on the way. A
  workflow has its request or its answer on the way, never both (`AwaitInv`). At
  most one start is on the way, and nobody owns a game meanwhile (`StartInv`):
  the start is asked for upon an answer that the helper owns none, and behind that
  answer there is none that has found one (`PriorInv`). A release is on the way
  only while letting go costs nothing, and no start comes before it
  (`ReleaseInv`), since it was asked for upon the answer that the game has
  exited, or by a run that leaves its game running. A launch that was never
  resolved leaves the helper without a game to own (`HelperInv`); a helper that
  is gone has none to keep, so the invariant says no more of it.
- Each step of the bridge is one of five forms (`TakesAnswer`, `AsksNext`,
  `OpensWith`, `Moves`, `Stays`), of which `BridgeStep` proves the first four at
  once; each request served is a launch (`ServesStart`) or settles something
  (`SettlesKeeps`).
- `LeftAlone` (`LeftRunning`). A game that a run has left running was let go of, and
  is never owned again, because a launch has a game of its own (`LeftInv`). The
  release is asked for while the client is not closed yet, so that the answer
  "ok" is the helper's own, and by then it has let go (`FinishKeeps`).
- `NoneEndedLate` (`ShutdownSpares`). Nothing that may end a game, a close or the
  status a cleanup begins with, comes behind a start (`SpareInv`); so once the
  release of the shutdown was served, and a start before it brings a game up,
  nothing is left that could end it. `ShutInv` keeps it so: the shutdown has
  aborted the job, and a job that adopts a game all the same is past every
  cleanup. `JobForms` names the ways a job can go, `JobShut` gives each step one
  of them.
- `TypeCorrect`. The types hold also of what comes to a bridge whose helper is
  gone, so they have an invariant of their own, `TypeInv`, that says nothing of
  ownership: an answer "started" names a game (`Truthful`), and a job that asks
  the helper for a game, or goes on with one, has what it needs for it (`Ties`).

`SeqLemmas` holds what these proofs need of sequences: the range and injectivity
of Append, Tail, RemoveAt and concatenation, what is left of a sequence when its
first elements are dropped, and that SetToSeq of a finite set is made of its
elements. `EventBus`, `KeyboardInput` and `FreeCamera` remove an
element with RemoveAt and select the newest events by their index, `Console`
removes with RemoveFirst, `SessionHelper` picks the pending calls by their
index, and `Scenario` looks at the events of the ring as a set of positions, where
SelectSeq would do for TLC: SelectSeq is a recursive definition,
which the prover cannot unfold. `VRInput` takes a task out with RemoveAt, and its
`Announced` speaks of positions, for the same reason.

The inductive invariants of `GameOps`, `EventBus`, `KeyboardInput`, `VRInput`, `FreeCamera`,
`LaunchShim`, `Console`, `Capture`, `Rest`, `Recording`, `Scenario`, `Papyrus` and `Session` were given to TLC as invariants of the runs' instances too.

Only model-checked: the liveness properties (under fairness, out of the prover's
reach); what `PapyrusTypes` computes (its operators are RECURSIVE, which the
prover cannot take, and what they do for every value would need an induction over
data); and the planners (`ReplayPlan`, `TrackedReplay`), which could be proved
about. Of the scenario tool, that callers are answered (`ScenarioEnds`) is
liveness; `OnSubmittedFirst` the code violates.

## Not modelled

The helper's MO2 process tree and window messages (one game process stands for
them), the text of answers and reports, HTTP and pipe framing, the reading of
saves and engine memory, the comparison of images (floating-point arithmetic,
out of TLC's reach), and the components marked planned above. Of the input tool,
the releases reserved to internal callers, its status and the events it publishes
are left out; a call that passed RequireReady before the shutdown and leases a
key after it is modelled, but nothing is promised of it. Of the scenario tool,
the parsing of plans; of the recording tool, its files; of the camera, its reads,
the other modes and Fallout 4's back end; of Skyrim's recording activity,
InterleaveReplayableActivity, which nothing that ships calls. `GameOps` leaves
the early lifecycle (`gameDataReady` before the first request), `gameLoaded`, the menus other than the loading menu and the world out: a dispatch
may be refused for them at any time (`DispatchRefused`).

Assumed of what is not under `src/`: a process id is not used again while a
handle to it is open (`LaunchShim`); the virtual machine answers a call at most
once (`Papyrus`).

## Plan

1. Done: `DeferredCall`, `MainThread` with its proofs, `EventBus`,
   `OperationTracker`, `GameOps` for both games, `SessionHelper`, `Session`,
   `KeyboardInput`.
2. Done: `Rest`, `LaunchShim`, `Papyrus`, `Console`, `Capture`, `Scenario`,
   `ValuePredicate`, `Recording`, `ReplayPlan`, `TrackedReplay`,
   `VRInput`, `FreeCamera`.
3. Proofs. Done: `GameOps` with its refinement of `DeferredCall`, `EventBus`'s
   order, the leases of `KeyboardInput`, the safety of `Session`, `LaunchShim`,
   `FreeCamera`, `Console`, `Capture`, `Rest`, `VRInput`, `Recording`, `Scenario`,
   `ValuePredicate` and `Papyrus`. Next: the planners, `ReplayPlan` and `TrackedReplay`.
4. The tool registry with the refresh of extension descriptors (one lock around
   the callback, a destructor that drains under it); the stall watchdog.
5. `Calendars`: pure operators against a reference.
6. `Host`: the order of shutdown over the modules above, and what a request finds
   that reaches a service which has let go (`Host.cpp:63`).
