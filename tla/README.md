# TLA+ verification of Orca VLN

Orca VLN lets a Go2 quadruped follow spoken or typed instructions: the NaVILA
vision-language model looks at eight camera frames and answers with a short motion
or with a stop, and a loop turns answers into motion, in the OrcaLab simulator or
on the real robot.  Around that loop stand a memory guide that remembers where things
are and plans a search, a shell script that keeps the services up, and tools that turn
recorded decisions into training data.  This directory holds TLA+ models of the parts
in which order, interruption, time-outs, files shared by processes and stale data decide
whether the program is correct, the TLC configurations that check them, and TLAPS proofs.

Paths below are relative to `src/NaVILA-Orca/` of the repository; `navila_orca/`
stands for `src/navila_orca/`.  `PROJECT.json` maps every definition to the lines it
translates and lists every hazard at its line.

## 1. Inventory

### How the parts interact

- **On the robot.** The gateway (`run_unitree_navila.py`) asks NaVILA over TCP and two seers over
  HTTPS, drives through `SafeMotionExecutor`, and reads frames from a history that a capture
  thread fills.  It starts from two files that the memory guide's `plan` wrote, with pictures
  that the landmark scan took.
- **In the simulator.** `NavigationRunner` (or the keyboard) steps the physics backend, mirrors the
  pose through a render bridge (to OrcaStudio directly, or to a loopback server) and keeps the
  same kind of history.  `memory_guide_dev.sh` supervises OrcaStudio and NaVILA's endpoint.
- **Off line.** `remember` commands rewrite the inventory; recorded decisions are labelled, exported
  and packaged, and a launcher decides whether a bundle is fit to train on.

### Components

Status: **M** modelled, **P** partly modelled, **-** not modelled.

| component | state | operations | what is hard, and what makes it correct |
|---|---|---|---|
| **P** Unitree gateway (`scripts/run_unitree_navila.py`) | counters of waypoints and decisions, the last goal result, interrupt flag, locals of acquisition and inspection | begin a waypoint, acquire a landmark, check the goal, inspect, infer, drive, accept or reject a stop, clean up | SIGINT is an exception anywhere, SIGTERM only sets flags, a goal result is read long after it was obtained: the robot rests outside chunks, no single fault leaves it walking, every step forward has the seer's authority, exit status 0 is honest |
| **M** Motion executor (`hardware/unitree_gateway.py`) | stop event | `execute` with its `finally` | a `Move` that fails may have been obeyed, a `StopMove` that fails has not |
| **M** Seer answers (`openai_router.py`) | none | `see_goal`, `see_landmark` and the predicates over them | each branch of the gateway reads another predicate |
| **P** Camera capture and history (`hardware/unitree_gateway.py`, `frames.py`) | frame list, next sequence number, retry counters, worker error, stop event | read, number, publish, wait, sample, clear, close | frames are numbered outside the lock while the mission clears the history: no gaps, one stale frame at most, a dead camera is noticed |
| **P** Simulator loop (`runner.py`) | step, history, command and its ticks, waypoint progress, pending answer | warm up, ask, parse, reject or accept, drive tick by tick, end | with `--decouple-vlm` the next answer is computed while the physics goes on: no command outlives its ticks, an answer fits the instruction in force |
| **M** Render bridge and ego camera (`render/orca.py`, `render/orca_camera.py`) | stage of the start, camera actor, fence, request counter | start, find or add and configure the actor, push, capture, pull a PNG, close | the scene is shared and outlives sessions, the studio renders on its own: a stream has this session's settings, a picture shows its step, nothing is left behind |
| **M** Loopback bridge (`render/grpc_bridge.py`) | latest frame, last token; the server's counter | push, capture, render in a thread pool | late and failing RPCs, restarts: a capture is of the caller's step, tokens only grow |
| **M** NaVILA link (`vlm_client.py`, `scripts/navila_vlm_server.py`) | one connection per request, one server thread | connect, send, receive; accept, read, infer, reply | time-outs on one side only: an answer belongs to its request, the server comes back |
| **P** Semantic map (`semantic_map.py`) | edges of recorded tours, heap and best costs | make edges, search | dear ways found before cheap ones, equal costs: cheapest ways over demonstrated passages |
| **P** Memory guide (`memory_guide.py`) | inventory file, two plan files | `remember`, `plan`, routing of inspections | commands overlap and are killed: memory is lost by overlap only, a launcher runs its own plan |
| **M** Landmark scan (`scripts/run_unitree_landmark_scan.py`) | views taken, landmark map, the robot's motion | turn, stop, picture, describe, publish, clean up | fails between any two steps and answers may name views that do not exist: ends still, its map is usable |
| **M** Keyboard teleoperation (`teleop.py`) | active command, watchdog, speed, anchors, terminal mode | every key, the prompt, step, captures, ending | prompts and captures block the loop while a velocity is latched: only a fresh key moves the robot, every end is safe |
| **P** Velocity backend (`backends/mjlab_go2.py`) | the command in three places | start, reset with warm-up, step, close | a world that is done samples a command of its own |
| **M** Decision dataset (`decision_dataset.py`) | pictures, manifest | record a decision | killed between pictures and line |
| **P** Training tools (`label_*`, `export_*`, `build_navila_training.py`) | manifest, exported records, bundle, report | label, export, deduplicate, split, package, build | files rewritten while others append, killed half way: only reviewed pairs train, what is held out is unseen |
| **P** Launchers (`memory_guide_dev.sh`, `run_unitree_memory_guide.sh`, `train_navila_lora.sh`) | pid files, traps, deadlines | start, supervise, restart, stop; plan and launch; test a bundle | signals between any two commands: no process is lost, an exit cleans up, a lost endpoint comes back |
| **P** Command line (`cli.py`) | which parts are open, which of them the `finally` block knows, results, exit status | open a session's parts, run, write results, close | any call may raise or be interrupted, also in the `finally` block: what is left open is accounted for, status 0 is honest |
| **P** Query routers (`openai_router.py`, `bedrock_router.py`, `query_router.py`) | none | goal, landmark and description answers; routing | what an unchecked answer would do to a map |
| **P** Actions and contracts (`actions.py`, `contracts.py`) | none | parse an answer, validate a frame | only the outcome matters to the loops |
| **-** Motion metrics, live monitor, voice query, OrcaLab runtime and scene profiles, Go2 locomotion task, episodes and paths | | | see section 7 |

## 2. Plan

1. `GoalSeer`, `UnitreeGateway`: the robot's safety comes first.  Done, with proofs.
2. `StagedMission` (abstract), `NavigationRunner`, which implements it, and `SimulatorRun`, the
   session around it.  Done, with proofs.
3. `CaptureHistory`: the two threads the gateway sees only as an error flag.  Done, with proofs.
4. `EgoCamera`, `RenderBridge`: what the simulator's pictures show.  Done, with proofs.
5. `MapRouting`: the route over demonstrated edges.  Done, with proofs.
6. `ItemMemory`, `LandmarkScan`, and `SearchMission`, which composes both with the launchers.
   Done, with proofs.
7. `VelocityBackend` and `KeyboardTeleop` on top of it.  Done, with proofs.
8. `RemoteCall` (abstract), `VlmLink`, which implements it, and `GrpcRender`.  Done, with proofs.
9. `DevStack`: the supervisor of the services.  Done, with proofs.
10. `DecisionSamples` and, on top of it, `TrainingBundle`.  Done, with proofs.

Worth adding next: a composition of `UnitreeGateway` and `CaptureHistory` over the worker's error,
and one of `NavigationRunner` with `RenderBridge` that carries `FrameShowsStep` into the history.

## 3. Modules

| module | what it is |
|---|---|
| `GoalSeer` | operators: what `see_goal` makes of an answer, and the predicates by which it is read |
| `UnitreeGateway` | the gateway's main thread, its executor and its signal handlers |
| `UnitreeGatewayProofs` | proofs about `UnitreeGateway` and `CaptureHistory` |
| `StagedMission` | abstract: a mission in stages |
| `NavigationRunner` | the simulator loop with the decoupled VLM thread |
| `SimulatorRun` | extends `NavigationRunner`: the session of `cli.py` that opens the parts, runs the loop, writes results and closes |
| `NavigationRunnerProofs` | proofs about both, with the refinement of `StagedMission` |
| `CaptureHistory` | capture worker and mission thread over the shared history |
| `EgoCamera` | starting, configuring and closing the camera actor in a scene that others use |
| `RenderBridge`, `RenderBridgeProofs` | extends `EgoCamera`: pushes, captures, the fence, the PNG camera, an external studio |
| `MapRouting`, `MapRoutingProofs` | edges from tours, the search over them, the order of the inspections |
| `ItemMemory` | the inventory file and the `remember` commands |
| `LandmarkScan` | a scan and the map it publishes |
| `SearchMission`, `SearchMissionProofs` | extends both: planning launchers and the missions they become; the proofs, which include those about `ItemMemory`, show that it implements `ItemMemory`'s specification |
| `VelocityBackend` | the latched command and its three places |
| `KeyboardTeleop`, `KeyboardTeleopProofs` | extends `VelocityBackend`: a teleoperation session |
| `RemoteCall` | abstract: a call that ends once, with its own answer or an error |
| `VlmLink` | clients, sockets, the single-threaded server; implements `RemoteCall` |
| `GrpcRender` | bridges, RPCs, the server's pool and its frame counter |
| `DevStack` | `memory_guide_dev.sh` as processes with traps, and the services they own |
| `ServiceProofs` | proofs about `VlmLink`, with its refinement of `RemoteCall`, `GrpcRender` and `DevStack` |
| `DecisionSamples` | sessions that record, labellers that rewrite |
| `TrainingBundle`, `TrainingBundleProofs` | extends `DecisionSamples`: export, build, packaging, the launcher's test |
| `MC*` | instances for TLC |

### UnitreeGateway

`pc` is where the main thread stands; one action is what it does between two points where a
signal makes a difference, so each blocking or moving call begins or ends an action.
`BeginWaypoint`, `NextIteration`, `Infer`, `StopDecision`, `MotionDecision` and `EndWaypoint`
are the two loops of `main`; `LookForLandmark` to `AcquisitionFails` are `_acquire_landmark`;
`CheckGoal`, `Reacquire`, `RefuseForwardMotion`, `BeginInspection`, `InspectionTurn`,
`EndInspection` are the three places that call the goal seer; `ClearStopRequest`, `Move`,
`EndOfChunk`, `Brake` are `SafeMotionExecutor.execute` with its `finally`.  `phase` and `ret`
remember which caller is served.  `Terminate` is the SIGTERM/SIGHUP handler,
`KeyboardInterrupt` the SIGINT handler and the exception it raises, with a branch for each place
where the exception is treated differently; `AbortCleanup` is a signal in the `finally` block,
where the previous handlers are already back.

A confidence is whether it reaches its minimum, a bearing whether it is within its
maximum and on which side; durations are left out, so a chunk sends any number of Moves; the
goal-check interval is a free choice except where the code resets its timer.  `robot` is what the
robot does, not what the program believes.  `faults`, `blind`, `late` and `concluded` are history and
guard nothing.

### NavigationRunner and StagedMission

`warm`, `loop`, `ask`, `act`, `chunk`, `wait`, `shutdown`, `limit` are the places of
`NavigationRunner.run`; `TickGoesOn`, `TickEnds` and `TickRefused` are `advance_one_tick`, used by
the three loops that advance the physics.  A frame is the step it shows, an instruction the waypoint
and the rejected-stop note.  `latched` says whether the backend's velocity command may be nonzero.
`VLMAnswers` is the inference thread.  The refinement maps a stage to the waypoint index and "moved"
to ticks driven in it.

### SimulatorRun

`_run` of `cli.py`, with what `main` makes of its exceptions.  `cli` is the place (`open`, `run`,
`write`, `close`, `over`) and `call` the part or result at hand.  `held` is what is open, `known`
what was assigned to the variables that the `finally` block reads: the loopback server is assigned
together with its bridge, and physics is known before it starts.  `OpenPart`, `OpenFails`,
`BeginRun` are the try block up to the run; `RunStep` and `Inference` are the steps of
`NavigationRunner`, `RunInterrupted` and `RunReturns` its end; `WriteResult`, `WriteFails`,
`ReturnZero` the results.  The `finally` block is four calls, each of which may succeed
(`ClosePart`), raise (`CloseRaises`) or be interrupted (`CloseInterrupted`): the monitor and the
bridge are forgiven, a server that raises skips physics, and Ctrl-C skips all that is left.
`refused` and `cut` are history.

### CaptureHistory

`worker` and `main` are the two threads; the condition variable is its wait set: the test of the
history and the wait are one step, as both happen under the lock.  A frame is its sequence number and
the waypoint during which it was read; numbering (`EncodeFrame`) and publication (`PublishFrame`) are
separate steps because the code does only the second under the lock.

### EgoCamera and RenderBridge

`stage` is how far `start` has come with the follower's calls; `actor` is what the scene holds
under the follower's name: which asset, whose, whether its properties can be edited yet, whether
it records and with which session's settings.  Killed sessions leave it as it was, other clients
add, change or remove it (`OtherClient`).  A scene is the pair of steps whose poses the camera and
the robot have in it. `PipelineDepth` is the number of frames between rendering and publication,
`Publish` the stream, `BeginWrite` and `EndWrite` the studio's PNG writer, all external.
`MoveCamera`, `UpdateRobot`, `RenderReturns`, `EstablishFence` are `push_state`, in the order of
its calls; `FrameReceived`, `PollAgain`, `StaleRenderFrame`, `RequestPicture`, `PictureRead`,
`PictureFails` are `capture` with either camera.

### MapRouting

A sequential algorithm, modelled step by step because its correctness lies in what holds between
the steps.  `remaining` and `current` are the outer loop of `_route_mapped_inspections`,
`untried`, `item` and `candidates` its inner loop: `BeginSearch` starts `plan_topological_route`
for the next inspection, `SelectNearest` takes the nearest candidate and adds its leg, `DeadEnd`
is the error when there is none, `AppendFallback` and `Return` follow.  In the search, `queue`,
`best` and `serial` are the heap, the best costs and its tie-breaker; `SkipStale`, `Reach` and
`Expand` are what is done with a popped entry, `Relax` is one round over its `outgoing` edges, in
the order of their identifiers.  `DemonstratedRoutes` is what `_demonstrated_routes` makes of
recorded tours.  Locations are numbers in the order of their names, times whole seconds; views,
poses and the resolution of phrases to places are left out.  The order is greedy, as
`docs/MEMORY_GUIDE_MVP.md:284` says, so the module states no completeness of the order.

### ItemMemory, LandmarkScan and SearchMission

An observation is named by the command that made it, so the inventory is a function from items to
commands, or `Torn` between the opening and the closing of a file.  A `remember` command reads
when it begins, writes a temporary file of its own and replaces the inventory.  A scan turns,
brakes, takes a picture, has it described, and replaces the map; its pictures belong to it, and
`Normalised` is what `describe_landmarks` makes of an answer.  A launcher (`stage`) runs `plan`,
which reads inventory and map, chooses between memory, landmarks and catalog, writes the plan and
then the waypoints, and becomes the mission, which reads waypoints first and plan second.  Another
launcher may write in between (`disturbed`), or a mission may be started on what an earlier one
left (`StartAgain`).

### VelocityBackend and KeyboardTeleop

The command is in three places: `latch`, what the caller set; `twist`, MJLab's buffer; `shown`,
the observation the policy acts on next.  A reset, also the one that MJLab does by itself, samples
`twist`. `KeyboardTeleop` is one thread; `phase` is its place in the session.  `left` is the time
to the watchdog, and every action that blocks lets time pass (`Elapse`).  `tty` and `saved` are
the terminal's mode and the mode that will be put back.  `asked` and `quiet` are history: the
velocity of the last motion key and the time since.

### RemoteCall, VlmLink and GrpcRender

In `VlmLink` a connection knows how much of the request has been sent, and whether each end is
still there. The server's places are `accept`, `header`, `body`, `infer`, `reply`; a client gives
up at every blocking call, and its host may vanish without closing.  The refinement hides the
sockets.  In `GrpcRender` an RPC is `queued`, rendered and numbered in a pool thread, and `sent`
or `failed`; its caller may have left by then.  The engine may answer with an older frame of its
own, which bridges must refuse.

### DevStack

`pc` holds a place for each supervisor and each `stop`, `pidFile` what the files say, `alive` and
`open` the services.  bash runs a trap between two commands and then goes on (`resume`), unless
the interrupted command failed and `set -e` ends the script.  `KillOwned` and `WaitOwned` are
`stop_owned_process`, with a deadline that a process may outlive.  `outlived` and `meddled` are
history: `meddled` marks what a property may not promise anything about (a `stop` or a second
supervisor at the same time, a kill -9, a signal that did not end the script).

### DecisionSamples and TrainingBundle

A set of eight pictures is one value, `Partial` if only some of them are written.  A manifest is a
sequence of lines, whose last one may be torn.  A labeller reads a manifest when it begins and
replaces it when it ends; a session appends meanwhile.  The inputs of a packager are a sequence of
files, and a line in them is a position, file and number, so that the first of equal lines is the
one `Before` the others (`Deduplicated`).  Labels that the labeller takes and the packager does
not (`Targets \ Canonical`) make it refuse everything (`OffCanon`), answers of the model like that are
skipped (`TargetOf`).  `bundle` says which files of the output there are, which
of them are torn and what they hold.  `Converted`, `Output` and `Packaged` lead from a job to the
bundle that results, and `HalfWritten` and `HalfCleared` are what a killed packager leaves.
`LauncherAccepts` is the test of `train_navila_lora.sh`; its argument is whether
`NAVILA_ALLOW_SMALL_DATASET=1` is set, which skips all of it but the existence of `train.jsonl`.
The session that records is opened and closed by `SimulatorRun`.

## 4. What the runs check

Each passing run checks only properties that some plausible change of the code breaks.  State
counts are those of TLC.

**gateway** (246,534 states).  Two waypoints, two decisions each, one turn per acquisition and per
inspection, with and without seer and execution.

- `StillBetweenChunks`: no inference, seer call or bookkeeping happens while the robot moves.
- `SingleFaultSafe`: a robot that walks on after the process has ended took at least two faults.
- `ForwardIsAuthorised`: with the seer, forward motion rests on the last goal check.
- `CleanExitMeansSearched`: exit status 0 without a find means that every waypoint was searched.
- `Termination`.

**capture** (8,153 states).  Four frames of history, seven in all, warm-up of two, three slots,
one retry, one error: `OnlyFirstFrameStale` and `HistoryIsContiguous` about the list the two
threads share, `SampleMatchesSimulator` (robot and simulator choose the same frames),
`CameraDeathIsNoticed`.

**runner** (1,059,984 states).  Two waypoints, four decisions, eight steps, a capture every second
step, a monitor frame every step, chunks of one and three ticks, in a session that may fail or be
interrupted at every call: `HistoryIsOfWaypoint`, `InstructionIsCurrent`, `CommandExpires`,
`ImplementsMission` (refinement of `StagedMission`), `SessionEnds`, and

- `SessionClosesAll`: of the parts that the `finally` block knows, only those whose close raised
  stay open, and physics if the server's did; of the others only the one that was being opened and
  the server with its bridge.  After Ctrl-C in the block more may stay.  Status 0 is returned only
  for a mission run to its end, with its results, and nothing open that was not forgiven.

**render** (675,506 states).  Two sessions with either camera and follower, two steps, three frames or
pictures, one step of another client: `FrameShowsStep`, `StreamsAsAsked`, `NothingIsLeft`, and
`CallsEnd` (starts and captures end, even if the studio is silent).

**routing** (114,612 states).  Three locations, one tour of five anchors or two of three, two
inspections: `PlanIsDemonstrated` and `CandidatesAreShortest`, which compares the search with a
reference definition: no route without repetition is cheaper than a candidate, and an inspection
goes without candidate only if no such route exists.

**search** (2,476,425 states).  Two items, two `remember` commands, two launchers, one scan of two
views:

- `InventoryReadable`: no reader meets half an inventory.
- `OnlyOverlapForgets`: what was saved is only lost to a command that overlapped.
- `ScanEndsStill`: a scan that its own code ends leaves the robot still unless two StopMoves were
  lost.
- `UndisturbedRunsItsOwn`: a mission under which nobody wrote runs its launcher's plan, waypoints
  and landmarks.
- `ScannedPlanIsAccepted`: a plan made from a scan's landmarks is accepted by the mission it was
  made for.

**teleop** (1,338,973 states).  Three keys, three steps, a pulse of two units against blocks of up
to three, with and without a step limit: `DrivenByKey` (a moving command is that of a motion key
younger than the hold time), `StepsAreOfThisSession` (the policy acts on the command in force, in
a world that was not reset behind the caller), `EndsSafely` (zero command, artifacts, terminal).

**vlm_link** (308,232 states).  Two clients, one of which also checks health, three calls, a queue
of one, one vanished host, one crash: `ImplementsRemoteCall`, and `ServerComesBack` (to `accept`,
unless a vanished peer holds it or it crashed).

**grpc** (345,133 states).  Two bridges, a pool of two, three RPCs, one restart: `CaptureShowsStep`,
`FramesAdvance`.

**stack** (616,881 states).  One terminal that starts as often as it likes, one `stop`, one
OrcaLab and two NaVILA processes, and another backend that was on the port first: `OwnedIsKnown`
(no live process is on no record unless it outlived a deadline), `ExitCleansUp`,
`NavilaComesBack`.

**dataset** (1,848,913 states).  Two sample directories of two episodes, two picture sets, three
targets of which one is not canonical, one labeller, three commands, one kill:

- `NothingReviewedIsLost`: a recorded sample stays listed with its last verdict.  A directory in
  which a labeller replaced lines it had not read is exempt: there the code does lose them.
- `ReviewedPairsTrain`: what trains is a target a reviewer gave to that sample (`given` holds all
  that were ever given), with its pictures.  The pictures of a directory that two sessions
  recorded into are exempt: there the code does overwrite them.
- `HeldOutIsUnseen`: no eight pictures are on both sides of a build's split.
- `LaunchedIsComplete`: as launched by default, the launcher takes only complete bundles.  With
  `NAVILA_ALLOW_SMALL_DATASET=1` it also takes what a killed packager left of the annotations, and
  the property says only that all pictures are there.  A bundle whose packager was killed while it
  removed the old one is exempt.

### A run that shows a divergence

**gateway_sigterm**: `docs/UNITREE_DEPLOYMENT.md:238` says that `StopMove()` is called on SIGTERM.
The stop request is cleared by the next chunk, and the sweep loops never read the interrupt flag:
after SIGTERM a robot at rest is set in motion again (`StopRequestStopsMotion` is violated).

### Other observations

Met while translating, and recorded here for the maintainers; no run depends on them.

- `docs/UNITREE_DEPLOYMENT.md:433-435` requires a found item to be accessible; `_goal_item_found`
  (`scripts/run_unitree_navila.py:423`) does not read that field.
- The comment at `scripts/run_unitree_navila.py:1429-1431` says never to advance while the item is
  visible but far; the inspection at 1315-1328 that ends with such a view completes the waypoint.
- `tests/test_runner.py:333` expects no VLM request at the exact step limit; the decoupled request
  at `runner.py:605` is made without looking at the limit.
- `contracts.py:121` calls a frame synchronised to a physics state; the fence at
  `render/orca.py:318` compares sequence numbers, so with one frame of latency in the encoder a
  frame of the previous pose passes it.  This is why the render run, and the theorem, assume
  `PipelineDepth = 0` for the stream.
- `stop` prints "Memory Guide stack stopped." (`memory_guide_dev.sh:487`) also if the supervisor,
  whose trap does not exit (283), lives on and starts what was stopped again.
- A `--max-history-frames` below `--camera-warmup-frames` can never be satisfied.
- With `--max-decisions 0` a NaVILA that always says stop is asked for ever (`runner.py:464`): the
  step limit counts ticks, and there are none.
- The greedy order of inspections may lead into a dead end (`memory_guide.py:699`).
- A `direct_item` plan is refused under `--landmark-seer` (`run_unitree_navila.py:313`), which
  `docs/UNITREE_DEPLOYMENT.md:303` does not mention.
- A supervisor that succeeds one that was killed overwrites the pid file of an OrcaLab that lives
  but does not answer.
- A teleoperation session that ends by an exception reports `keyboard_quit` in `teleop.json`.
- A second session into one directory overwrites the pictures of reviewed lines, and job names may
  repeat.
- `--overwrite` removes the old bundle before the inputs are read; a torn manifest line makes
  every labeller and builder refuse the file.
- With `NAVILA_ALLOW_SMALL_DATASET=1` (`docs/VLN_FINE_TUNING.md:206-208`) the launcher skips the
  test of info and report altogether (`train_navila_lora.sh:54`), not just its numbers: a
  `train.jsonl` that a killed packager left cut off is trained on.
- The launcher reads the bundle once to test it and again to train: what a build does to it in
  between is not seen by the test.
- A label like "30 cm", which the labeller parses, is not canonical for the packager: one such
  line refuses the whole build (`build_navila_training.py:187`).
- `OrcaMujocoCameraFollower` does not read what `add_actor_batch` answers
  (`render/orca_camera.py:693`): it takes a refused actor for its own, and its close may remove
  one that another client added.
- A loopback server whose bridge cannot be built is never stopped (`cli.py:226`, 344): both are
  assigned by the same statement.  If `loopback_server.stop()` raises, `backend.close()` is
  skipped (`cli.py:522`); the exit of the process covers for both.
- An actor of the pulling camera, left by a killed session, keeps streaming sessions of the same
  name from starting.

### Bounds

Two waypoints are enough to have a first, a last and a change between them; two decisions let a
rejected stop be followed by another decision; one turn per sweep lets a sweep be used up.
`MCGoalReplies` has one answer for every combination of predicate values that `GoalSeer`
distinguishes and that leads to a different branch; the theorems drop this bound.  In the
simulator loop a chunk of three ticks against a limit of eight ends before, on and behind the
limit, and a capture period of two separates ticks with a frame from ticks without.  Four kept
frames against seven delivered ones make the history trim and, with three slots, both pad and
sample.  Two render sessions let one meet what another left, and two steps with three frames allow
captures without a push between them and pushes that are never captured; `MaxPolls` are the
attempts after which a start gives up.  Three locations admit a way with a detour, a dearer direct
passage and a dead end; passages of one and of five seconds make the detour cheaper, dearer or
equal, and tours of five anchors show the same passage twice.  Two `remember` commands overlap in
every order; two launchers give one that writes under another, at either of the two files.  A
key's hold time of two against blocks of three lets a pulse die inside a prompt.  Three calls
through a queue of one fill the queue while one is served.  Two NaVILA processes are one that lost
its port and its successor.  Two directories of different episodes are the least that a split can
separate, and two equal picture sets in them the least that deduplication must find; the third target is one that no
build accepts.

`MaxSequence`, `MaxStep`, `MaxFrames`, `MaxCalls`, `MaxRpcs`, `MaxSessions`, `MaxRecords`, `MaxCommands`,
`MaxScans` bound counters the program does not bound: no further frame, step, call or session
begins.  The scene is left alone by others while a bridge is in use (`SceneStep`), and a recording
session goes on only while some command can still see it (`Observed`).  History counters
(`faults`, `blind`, `late`) stop at two because the properties distinguish no more.  Faults are
bounded by `MaxVanish`, `MaxCrashes`, `MaxRestarts`, `MaxKills`, except in the gateway, the
search, the stack and teleoperation, where they may happen at any time.

`CHECK_DEADLOCK FALSE` is set where the system really ends: when all calls are made (vlm_link,
grpc), all commands have ended (search, dataset) or the stack is down for good (stack).  Symmetry
is used for launchers, bridges, sample directories, picture sets and labellers, which the modules
only compare for identity, and only in runs without liveness.

### Fairness

Each thread of the program is weakly fair where the code lets it go on by itself: model calls,
RPCs and joins carry time-outs, so an enabled step of the gateway's main thread is taken, in
`CaptureHistory` and `RenderBridge` a deadline passes, in `VlmLink` every client and the server's
thread go on, and in `DevStack` a supervisor does, because each of its loops has a deadline.  In
`SimulatorRun` the session's thread is weakly fair because its calls return or raise, and the
inference thread because the VLM client has a socket time-out; `NavigationRunner` by itself states
no fairness.  Nothing is assumed of the camera, the studio, the services, the network or anybody's
signals.  `MapRouting`, `KeyboardTeleop`, `GrpcRender`, `SearchMission` and `TrainingBundle` state
no fairness and no liveness.  `Termination` of the gateway and `SessionEnds` rely on the bounds on
decisions, turns and ticks, which the code takes from its arguments.

## 5. What is proved

All theorems hold for every value of the constants that satisfies the named assumptions of the modules
(numbers are natural, sets have their types, `None`-like values differ from real ones).  None of the
properties is inductive by itself; each proof module states its inductive invariant as a conjunction of
named parts, shows in one lemma per part that every action preserves it, and combines them.

**UnitreeGatewayProofs**: every safety property of the gateway, for every number of waypoints,
decisions and turns, either sweep direction and every set of goal-seer answers, and also
`RejectedStopIsRechecked`, `OneBlindChunk`, `OneLateChunk` and `SeerEndsWaypoint`, which no run
lists.  `IInv` adds to `TypeOK`: `ChunkInv` (a chunk's command fits its caller), `SeerInv` (where
a goal result is read there is one), `AuthorityInv` (from leaving the judgement to the end of the
chunk the last result authorises an advance; needed because it is read three actions and a VLM
call later), `MotionInv` (one that moves outside a chunk has cost a fault), `CameraInv`,
`SignalInv`, `MissionInv` (the waypoints behind are concluded, and how the try block ended fits
where the thread is).  Lemmas about `GoalSeer` show that each result on which the gateway proceeds
authorises the advance (`ProceedIsAuthorised`).

**MapRoutingProofs**: the plan uses demonstrated passages from where the robot is, each inspection
is made once, for every map and every set of inspections.  `WalkInv`: routes in the heap lead
along edges from where the leg begins (a plan takes over a route found many steps before);
`TriedInv`, `PlanInv`, `VisitInv`, `FallbackInv`.  That the search finds the cheapest ways
(`CandidatesShortest`) rests on three more: `CostInv` (what is in the heap carries the cost of its
route), `SettledInv` (a location that was reached is still in the heap with its best cost, or its
edges have been followed at that cost, except those the loop has yet to look at) and `ShortestInv`.
The core is `WaysAreBounded`: once the edges of an entry are done with, any way to the inspection
costs at least as much as the cheapest entry left or as the best cost of the inspection's location,
so the entry popped there is cheapest, and an empty heap means there is no way.  It argues by the
first place of the way where the bound fails; the induction that takes, over the length of a route,
is done through a least counterexample (`LeastNumber`, from the library's well-foundedness of finite
sets), and `CostIsTotal` and `AppendCost` are obtained in the same manner.  TLC found the three
invariants to hold on the run's instance before they were proved.

**UnitreeGatewayProofs**, of `CaptureHistory`: the history has no gap, only its first frame may be
stale, and robot and simulator sample alike, for every length, warm-up and number of waypoints.
`WorkerInv` says what
the worker's number means between `EncodeFrame` and `PublishFrame`, `EndsAtNext` that the history
ends just before the next number, `StaleComesFirst` that a frame read before a clear can only be
the first to be appended after it.  `TrimIsSuffix` and `AppendAndTrim` are the lemmas about the
list.

**NavigationRunnerProofs**: frames are of the waypoint, answers fit the instruction in force, no
command outlives its ticks, and every step of the loop is a step of `StagedMission` or a stutter
(`RunnerImplementsMission`).  `AnswerInv` and `CurrentInv` tie a pending answer to the instruction
under which it was asked, `CommandInv` and `DrivenInv` the latched command to the ticks left.
Of the session: it takes steps of the loop or leaves it alone (`SessionRunsLoop`), so all this
holds within a session, and `SessionsClose` proves `SessionClosesAll` for every setting.  `OpenInv`
says what is held but not known at each place of the opening, `ResultsInv` which results are
written, `CloseInv` that everything known that comes before the present call of the `finally`
block is closed or has refused.

**RenderBridgeProofs**: streams have their own session's settings, nothing is left behind, and a
picture shows its step if it is pulled or if frames are published when rendered, for any number of
steps, sessions and files.  `EgoInv` is about actor and ownership; `ClosedInv`, `PushInv` (how far
the scene has got in a push), `StreamInv`, `FileInv` (a name not yet requested has no file, the
present one is written from the pushed scene), `FrameInv`.

**KeyboardTeleopProofs**: every end is safe, only fresh keys drive, no step is taken on another
command's observation, and anchors record the step they were set at (`AnchorsAreTrue`), for every
hold time and block.

**SearchMissionProofs**: the inventory is readable and forgets by overlap
only, for any number of commands; the composition implements `ItemMemory`'s specification
(`MemoryInComposition`), so both hold there too; scans end still; undisturbed missions run their
own plan; scanned plans are accepted. `ScanInv` says which pictures exist at each place of a scan
and that a published map only names views that were taken; per launcher `Before` (what it writes
is the plan it made), `PlanSound` (a plan with landmarks is one that the mission takes) and
`FilesHold` (the files hold its plan unless it was disturbed).

**ServiceProofs**, for any number of callers, calls, terminals and processes:

- `VlmLink` implements `RemoteCall` (`LinkRefinement`): a call ends at most once, with the answer
  that was computed for it.  `CallerInv` gives every calling client a request of its own that has
  no answer yet; `AnswerInv` says that whatever the server has computed or replied for a request
  is its own, also after the client has left.
- `GrpcRender`: a capture is of its caller's step and no bridge goes back to an older frame.
  `WaitInv` (the RPC a bridge waits for is of its present step) and `LatestInv` (the last token is
  that of the frame at hand) carry this from one call to the next.  `CountInv` bounds the frame
  counter by the number of RPCs that were numbered.
- `DevStack`: no process is lost and an exit takes its services with it.  `Undisturbed` holds until
  something happens after which the script promises nothing (`meddled`): one supervisor works, a
  live process is on record, is just being forked, or has outlived its deadline, and `Stage`
  says for each place of the script, the traps included, which services may be alive there.

**TrainingBundleProofs**, for any number of directories, sessions, labellers, commands and kills:
a verdict is lost only under a labeller that overlapped (`ReviewsAreKept`), only reviewed pairs
train (`ReviewedPairs`), what a build holds out is unseen (`HeldOut`), the launcher accepts by
default only complete bundles, and with its switch none without its pictures
(`LaunchedComplete`).
The pair of picture and target is made long before it is used, and copied from place to place, so
the invariant follows it: `LineSound` says of one line that its pictures are those it was recorded
with, unless a second session wrote into the directory (`Pictured`), and that its target was given
by a reviewer (`Backed`).  It holds in manifests (`ManifestSound`), temporary files
(`TemporarySound`), the memory of labellers (`ReadSound`) and what was exported; `JobSound` says
the same of the records a packager holds, and that no two of a build show the same pictures.
`SamplesGrow` is the lemma that lets these facts survive every step of sessions and labellers:
verdicts are only added, and pictures of a decision are only written again by another session.

## 6. What is only model-checked

Liveness (`Termination`, `SessionEnds`, `CameraDeathIsNoticed`, `CallsEnd`, `ServerComesBack`, `NavilaComesBack`)
is outside what TLAPS proves.  All other properties of the passing runs are theorems.

## 7. What is not modelled, and why

- Motion metrics: floating-point sums without control.  Live monitor: drawing, with a one-request
  hand-over like the one `NavigationRunner` models.  Voice query: stateless service calls.
- OrcaLab runtime and scene profiles: pose arithmetic, XML rewriting and calls of OrcaGym.  Go2
  task: declarative configuration.  Episodes and paths: loading of files.
- In modelled parts: image contents, encoding, logging, wording of prompts and reports; parsing of
  answers and queries beyond its outcome; argument parsing; wall-clock durations (any duration is
  allowed instead, but for teleoperation's clock); the retries inside one seer check; resolution
  of phrases to places; scores and ages of memories; the policy and the physics; the closing of a
  camera source under a running read; `--camera-check-output`; the file-backed instruction
  provider; a sample's `metadata.json`, which nothing reads; training itself.
- The behaviour of OpenCV, the Unitree SDK, OrcaStudio, MJLab, gRPC and the kernel's sockets is
  external and modelled only as far as the code relies on it.
