# A verification project for dronetrack

dronetrack flies a PX4 vehicle after a target it sees. A Raspberry Pi on the vehicle carries the
camera, the autopilot link and everything that decides; a laptop on the ground runs the detector
and the operator's dashboard. The programs are ROS 2 nodes in Python. This directory models the
nodes that decide, checks them with TLC on small instances, and proves some of what is checked for
every value of the constants with TLAPS.

Paths below are relative to `src/ros_ws/src/`, where the packages are.

- [1 The system](#1-the-system)
- [2 The modules](#2-the-modules)
- [3 How the models abstract](#3-how-the-models-abstract)
- [4 The runs](#4-the-runs)
- [5 Fairness](#5-fairness)
- [6 The theorems](#6-the-theorems)
- [7 What the runs found](#7-what-the-runs-found)
- [8 What is not modelled](#8-what-is-not-modelled)
- [9 The plan](#9-the-plan)

## 1 The system

```
 camera_node --frames--> laptop: yolo_node --detections--> Pi: detection_gate_node
                         laptop: heartbeat_node --5 Hz-->      |         |
                                                |              | accepted detections
                     ground_station_watchdog_node              v
                        | requests FALSE                  tracker_node
                        v                                      | TargetError, 30 Hz
 laptop: web_dashboard_node --requests, plans-->  mission_executor_node, 10 Hz
                        |                           | requests  | MissionCommand   | actions
                        v                           v           v                  |
                     autonomy_manager_node, 10 Hz --gates--> control_node, 20 Hz   |
                                  |                             | ControlCommand   |
                                  +----- Offboard gate ----+    |                  |
                                                           v    v                  v
                                             telemetry_node (MAVSDK bridge) <--> PX4
```

Every node but one is single-threaded: its callbacks and timers run one after the other
(`rclpy.spin`). `telemetry_node` also runs an asyncio loop in a second thread, and
`web_dashboard_node` one thread per HTTP request.

### The components

| component | state | operations | correct when |
|---|---|---|---|
| **autonomy_manager_node** (`drone_control`) | the last message of each input with its receive time, the requests, the decided state, the two gates | 5 subscriptions, a 10 Hz timer that decides the state and publishes the two gates | a gate is open only on fresh evidence, up to one timer period old; withdrawing a request cannot reopen one |
| **mission_executor_node** (`drone_control`) | the plan, the step index and age, one-shot keys, captured goto destinations, the last published requests, the last inputs | start, stop, plan upload, 2 inputs, a 10 Hz loop with one handler per verb | whatever ends a mission takes back both requests; PX4 is asked to move by itself only after Offboard was released; no action is lost or repeated against its rule; steps that must end do |
| **mission_plan** (`drone_control`) | none (pure) | parse, lint, default plans | what it accepts can be flown, what it does not warn of holds in flight |
| **telemetry_node** (`drone_telemetry`) | slots for the last ControlCommand, action and enable; `offboard_active`, the prime hold, `action_in_progress`; the coroutines' places | ROS callbacks in one thread; in the other the Offboard loop (20 Hz), the action loop (10 Hz), the telemetry streams and the reconnection | Offboard is entered holding where the vehicle is, ended when disabled, an action is carried out at most once and under policy |
| **control_node** (`drone_control`) | the last inputs, the hold anchor, the yaw target, the gate | 4 inputs, a 20 Hz loop, an immediate answer to a disable | nothing keeps moving without messages; nothing stands while disabled; the anchor is where the vehicle was last let hold |
| **tracker_node** (`drone_tracker`) | tracking state, filters, missed and confirmed frames, the times of the last stream, detection and loss | a detections callback, a 30 Hz publication | what is steered at is what was last seen; a lock means something was detected; a target that is gone is given up |
| **detection_gate_node** (`dronetrack_pi`) | the last sequence, beat and detections, counters | heartbeat, detections, clock check, status timer | detections pass only while the laptop lives and only if fresh |
| **ground_station_watchdog_node** (`dronetrack_pi`) | the last sequence, beat and detections, the last verdict | heartbeat, detections, a 10 Hz tick | a lost link is noticed and reacted to, a living one comes back |
| **heartbeat_node** (`dronetrack_groundstation`) | a sequence number | a 5 Hz timer | sequences grow within a run of the node |
| **web_dashboard_node** (`dronetrack_web_bridge`) | a dictionary under a lock, the catalog, the acknowledgement shown | HTTP handlers (threads), subscriptions | what the page shows of an upload is true |
| **mission_preview** (`dronetrack_web_bridge`) | none | preview with `drone_control`'s parser or with a fallback | agrees with the executor on what the executor accepts |
| **yolo_node** (`dronetrack_perception`) | the frame count, the next slot of the schedule, whether a model is loaded | one image subscription of depth 1 that decodes, throttles, infers and publishes | inference runs at the configured rate, neither in bursts nor at half of it, on recent images |
| **native_mjpeg_camera_node** (`drone_camera`) | a byte buffer, the process that writes into the pipe | a reader thread, start and stop | what is published are the images that were written |
| **camera_node, camera_compressor_node, gz_cam_republisher** | a device or a one-place subscription | read, encode, restamp, publish | what waits for a slow encoder does not grow |
| target_mover_node (`dronetrack_perception`) | the ball's place | simulation | not modelled |
| health_monitor_node, node_diagnostics (`drone_diagnostics`) | counters and ages | logging | not modelled |

### How they interact

By topics only. What matters is which topics are *different*: each is in order with itself, none
waits for another. The release of Offboard goes executor → manager → (manager's timer) → bridge;
the action that follows goes executor → bridge. The watchdog and the executor publish the same two
request topics; the manager keeps the last message, from whomever. Plans and mission requests go
from the dashboard to the executor on two topics. Inside `telemetry_node` the two threads share
plain attributes without a lock, and its two loops share `offboard_active`, `prime_hold` and
`action_in_progress` across every `await`.

### What is hard

- **Evidence and gates.** A gate is a message decided at the last tick, from inputs that may have
  expired since.
- **Hand-over between Offboard and PX4.** Three nodes, four topics, two loops, actions that take
  seconds, answers that may be lost.
- **Two coroutines and a second thread** in the bridge: an enable or disable may arrive during any
  `await`, and between any two reads of the attributes it changes.
- **The link.** Heartbeats and detections come late, lost, twice or reordered; the laptop restarts.
- **Memory in single-threaded nodes:** an anchor, a lock, a one-shot key or a captured destination
  kept across a stop, a disable, a restart or a loss.
- **Time.** Each node measures ages with its own timers and ends what has become too old.
- **Uploads.** Two browser pages, HTTP threads, a plan that is parsed twice on two machines.
- **Sessions.** The bridge connects again when a coroutine has failed, and leaves the others running;
  a loss of PX4 counts only after a grace period, kept by a task of its own.
- **Images.** Encoders and the detector are slower than the camera; a JPEG ends where a read does not.

`PROJECT.json` lists these as hazards, each at its line, with the properties that cover it.

## 2 The modules

| module | models | composes |
|---|---|---|
| `DroneInterfaces` | `drone_interfaces/msg`, `dronetrack_msgs/msg`: the sets of messages, reduced to what some node decides on | |
| `AutonomyManager` | `autonomy_manager_node.py` with `autonomy_logic.py` | |
| `GateContract` | abstract: what the two gates promise, without clocks | |
| `MissionPlan` | `mission_plan.py` and `mission_preview.py`: documents, parser, lint, fallback | |
| `MissionExecutor` | `mission_executor_node.py` | |
| `PlanUpload` | the mission builder of `web_dashboard_node.py` with the executor | `MissionExecutor` |
| `MavsdkBridge` | `telemetry_node.py` within a session, and PX4 as it is used there (external) | |
| `BridgeSessions` | `telemetry_node.py` across sessions: connecting, watching the connection, failing, connecting again, and what the coroutines of an ended session still do | |
| `ActionHistory` | `MavsdkBridge` with a history: what was done about the last action received | `MavsdkBridge` |
| `StepHistory` | `MissionExecutor` with a history: the actions published since the step began | `MissionExecutor` |
| `OffboardHandover` | executor, manager and bridge over four topics, with the buttons Abort/Hold and Land of `web_dashboard_node.py`; it extends the bridge and has an instance of each of the other two | `MissionExecutor`, `AutonomyManager`, `MavsdkBridge` |
| `DetectionGate`, `LinkWatchdog` | `detection_gate_node.py`, `ground_station_watchdog_node.py` | |
| `GroundLink` | laptop (`heartbeat_node.py`, the detector's stream), network, gate and watchdog | `DetectionGate`, `LinkWatchdog` |
| `LinkLoss` | watchdog, executor and manager over the two request topics | `LinkWatchdog`, `MissionExecutor`, `AutonomyManager` |
| `TargetTracker` | `tracker_node.py` | |
| `TrackerHistory` | `TargetTracker` with a history: the frames since the last usable detection | `TargetTracker` |
| `ControlNode` | `control_node.py` with `control_math.py` | |
| `ControlPlaces` | `ControlNode` with a history: where the vehicle has been | `ControlNode` |
| `YoloNode`, `YoloRate` | `yolo_node.py`: which images are inferred on and when; with a history of the starts | |
| `FramePath` | the ways of an image to the detector: `camera_node.py`, `camera_compressor_node.py`, `gz_cam_republisher.py` | `YoloNode` |
| `JpegStream` | `native_mjpeg_camera_node.py` | |
| `AutonomyProofs`, `ExecutorProofs`, `PlanUploadProofs`, `BridgeProofs`, `BridgeRunProofs`, `HandoverProofs`, `GroundLinkProofs`, `VisionProofs` | theorems | the module each is about; `AutonomyProofs` and `BridgeRunProofs` the parts of `MCAutonomy` and `MCBridge` |
| `MC*` | instances for TLC: inputs, plans, bounds on the environment, histories. `MCAutonomy`, `MCBridge` and `MCVision` hold several instances in one run: `part` says which of them a behaviour is of, the others do not move | |

A variable has the name of the attribute it stands for, an action the name of the callback, timer
or handler. A callback is one action, because it runs to its end without another one of the node;
in the bridge a coroutine is one action per piece of code between two `await`s (`offboard_pc` and
`action_pc` are its place), and what another thread may see half-done is two actions. What a
callback publishes is kept in the node's own output variables until its next step, or put on the
topics of the composite that the node is part of. `map` in `PROJECT.json` gives each definition's
lines.

`Plausible bug` definitions beside an action are the changed forms used to check that a property
can fail.

## 3 How the models abstract

- **Time** is discrete. `Elapse` is one unit; an age grows by one per unit and stops growing past
  the time-out it is compared with. A timer fires at least once in each unit: `timer_due`,
  `loop_due` and the like hold `Elapse` back until it did. A timer may fire more often, so nothing
  holds only because the node is slow.
- **Positions** are cells of the local frame (`place`), bearings, rates and velocities are signs,
  an estimated distance is its relation to the desired one (`Range`). The goto arithmetic is cell
  arithmetic; the filters of the tracker move one step toward their input or stay.
- **Messages** keep the fields a node decides on. A MAVSDK command is new whenever it is published
  (the bridge tells them apart by id and stamp).
- **Plans**: a document is its list of steps, each number absent, malformed (not a finite number in
  the range of its key) or given. `PlanUpload!ResolveStep` gives a step the node's defaults, and
  `MissionExecutor` walks resolved steps.
- **Topics** between modelled nodes are sequences. In `OffboardHandover` they have the KEEP_LAST
  depth of the subscriptions; in the other composites fewer messages are sent than the depth.
- **PX4** is `px4_mode`, the last setpoint and how a call to it may end: done, refused, or done
  with the answer lost (`LinkFaults`).
- **Data races** between the two threads of the bridge are separate actions: the test of the prime
  hold and its use are two steps (`telemetry_node.py:1087` and `:1107`).
- **Clocks**: a frame is stamped and judged by the Pi's own clock, which does not step, so that a frame
  stamped in the future (`detection_gate_node.py:196`) does not come.

Event logs, diagnostics, status texts and parameters that only scale a number are left out.

## 4 The runs

Twelve runs, seven that pass and five that show a disagreement (section 7). Deadlock is checked where
the system cannot stop; `Vision.cfg` and `BridgeSessions.cfg` switch the check off, as their
behaviours end at a bound (`Horizon`, `MaxSessions`).

| run | specification and bounds | states |
|---|---|---|
| `autonomy` | `AutonomyManager` (all time-outs 1, scan allowed without a lock) and `ControlPlaces` (time-outs 0 and 1, approach translation on, armed and GPS required) | 455 000 |
| `executor_safety` | `MissionExecutor` with two plans (takeoff, prime, scan, goto, goto, land; approach, track, orbit, orbit, rtl, hold, complete), 2 operator requests, time-outs 1 to 3, ages up to 4 | 208 000 |
| `plan_upload` | `PlanUpload` with 4 documents, 2 HTTP threads (symmetric), 2 sends, 2 mission requests, the fallback preview, the visual-servo orbit | 1 219 000 |
| `bridge` | `MavsdkBridge` without faults and with callbacks only at `await`s; the same with calls that fail or lose their answer and the ROS thread between any two reads; `BridgeSessions` with 2 sessions and 1 failure | 480 000 |
| `handover_land` | `OffboardHandover`, prime then land, queues of 3, LAND repeated after 2, the button Land pressed once | 1 985 000 |
| `ground_link` | `GroundLink`, heartbeats age out after 1 and are delayed by up to 1, frames by up to 2, sequences up to 2, restarts | 601 000 |
| `vision` | `TargetTracker` (frames of up to two detections, 3 missed frames, coasting 2, stream stale after 2, re-acquisition 3), `YoloRate` and `FramePath` (interval 3, period 3 with jitter 2, inference 4, encoding 3, up to time 30; with an encoder in the way period 1, every second image, up to time 24), `JpegStream` (streams of 8 bytes, a pipe of 2, reads of up to 2) | 959 000 |
| `bridge_prime_race`, `bridge_sessions`, `handover_goto`, `land_button`, `link_loss` | violations, see section 7 | |

What each shows:

- **autonomy.** `AutonomyGateFollowsEvidence` and `OffboardGateFollowsEvidence`: an open gate
  rests on a request, telemetry and a lock (or a scan) that were fresh no more than one timer period ago.
  `ImplementsContract`: the manager implements `GateContract` under the refinement mapping of
  `AutonomyManager`. Time-outs of 1 are enough: an age is within, at or beyond its time-out.
  `NothingStandsDisabled`: no command to execute is in the bridge's hands once autonomy is disabled.
  `NeverSentBack`: the place held is one reported since a message last switched autonomy off and since
  the position was last missing (the parameter `autonomy_enabled` does not count, see section 7).
  `MotionEndsWithMessages`: with executor and tracker silent the turning and moving stop.
  `HoldingResumes`: after a loss of position, telemetry or safety it holds again. Two places suffice to
  tell a kept anchor from a new one. The two nodes share a run and not a state: in each behaviour one of
  them stays as it started.
- **executor_safety.** `IdleMeansReleased`: a mission that ended, by whatever path, has taken back
  both requests although unchanged requests are suppressed. `OffboardReleasedForPX4`: an action that
  PX4 flies follows the release. `GotoDestinationFixed`: the destination does not drift with the
  vehicle. `LeaveOnlyAfterAction`: with repeated verbs, restarts and uploads, no step that hands
  over is left without its action. `TimedStepsEnd`: no step with a time-out is stayed in for ever while
  it has what it needs to go on. What that is differs: a return, a landing and a hold need nothing, a
  scan needs a vehicle fit to fly and no target, an orbit needs a target in range, which is where the
  code is weaker than its comment (section 7). The plans repeat a verb and use every verb; telemetry
  includes a low vehicle without a position and a disarmed one.
- **plan_upload.** `AckIsTrue`: when nothing is under way the page shows no PENDING, and an
  acceptance it shows is that of the staged plan. `PreviewMatchesAck`: preview and executor warn of the
  same. `RefusedNeverFlies`: no plan is flown that the executor's parser did not accept.
  `CleanPlansPrimeFirst`: the lint's silence about priming holds in flight, across restarts. Two
  sends are enough for one acknowledgement to overtake another's PENDING; two requests for a start
  before, between or after the uploads and for a stop or restart.
- **bridge, a session without faults.** `KnowsOffboard`: PX4 is in Offboard only when the bridge knows it,
  or is about to learn it from the answer to its start. `ActionOnceUnderPolicy`: an action received is
  carried out at most once, and never unless its policy allowed it at some time since. `DisableEnds`: a
  disable that stays ends Offboard. `MotionEnds`: with control_node silent PX4 does not stay in Offboard
  with a moving setpoint.
- **bridge, a session with faults.** `EntersOffboardHolding`: when PX4 enters Offboard its setpoint is a
  position to hold or zero velocity, even with another one left from an earlier session and whichever
  calls failed or lost their answer. One action (TAKEOFF) is enough to interrupt the Offboard
  loop at each of its awaits, and one command, the one that moves, to leave a setpoint that would be seen.
- **bridge, several sessions.** `LossNeedsGrace`: the bridge reports a loss of PX4 only when it has lasted for
  the grace period, or when its session ended; no timer of an ended session does it. `ConnectedFollowsLink`:
  a loss that lasts is noticed, and the bridge is connected again when PX4 is heard again, through
  time-outs, failures and reconnections. One failure is a bound that matters: after two, the grace timer
  of a first session may run out in a later one (what can happen then is the theorem `OnlyDeadServersHurry`). `Grace`, `ReconnectInterval` and `ConnectionTimeout`
  are in the order of the code (3 s, 5 s, and a time-out that is looked at only when a report comes).
- **handover_land.** `LandingSurvivesHandover`, `EndOfMissionEndsOffboard`: the repeated LAND and
  the completion win over the release that is still on its way: in every settled state (nothing queued,
  both loops of the bridge idle) the vehicle is landing, or out of Offboard. A mission ends by completing,
  by a request or by the button Land, which is pressed at most once, while priming in Offboard and with
  the topics empty: that is when most is in the bridge's hands.
- **ground_link.** `LossIsNoticed`, `LaptopBehindFrames`, `LossEndsInDeassert`, `LinkRecovers`:
  no detection passes without a laptop that lived within its time-out and delay, silence is noticed
  within the time-out, the delay of the last beat and one check, a loss ends in the withdrawal of
  the requests, and a laptop that stays up is believed again, however often it was restarted.
- **vision, the tracker.** `SteersAtTarget`: the place steered at is the one last seen, through every loss and
  grace period. `LockedMeansVisible`: LOCKED and visible are published together. `VisibleWithinGrace`:
  the published target is visible only while fewer frames than the threshold lacked it.
  `LockNeedsDetection`: a target that was not visible becomes visible only through a detection that came
  since. `UnseenIsGivenUp`: a target that is gone is given up, with frames and without. A second
  detection is enough for the choice between two.
- **vision, the images.** `ImagesAreThoseOfTheStream`: whatever pieces the pipe is read in, what is
  published are the images of the stream as it was written, in order and without one missing. `RateIsKept`: *n* inferences take more than *n* - 3 intervals, so a late schedule is not
  caught up with in a burst. `FewAreSkipped`: with the rate of the camera, an image that comes a little
  early does not cost every second image. `DetectionsAreRecent`: on each way from camera to detector,
  detections are no older than the images queued before the encoder and two inferences make them. Period and
  interval are equal, the case in which jitter makes the throttle choose; inference is longer than both;
  the encoder's part has an encoder three times slower than the camera.

Each property of a passing run has a mutant in `PROJECT.json`: a plausible bug in the code under
which TLC finds that property violated in that run. Type invariants are checked in the runs only where
they are proved.

## 5 Fairness

Fairness is assumed only of what the platform keeps doing, and it is weak but for one clause: a node's
timer keeps firing and time passes (`FairSpec`, `HFairSpec`, `FlyingFairSpec`, the fairness of each part in
`MCAutonomy`, `MCVision` and `MCBridge`, where it is that of the module the part is an instance of). In the
bridge the coroutines go on after an `await` and calls are answered, in the part without faults (and in
`bridge_prime_race`), where the properties ask what follows when PX4 answers; in `BridgeSessions` what
can go on does (`Prompt`), and time passes (`Tick`). The hand-over, the link loss and the plan upload
need none: their properties speak of settled states or of single steps. The manager's fairness asks for its timer only, the one clause
the contract's own fairness needs. The exception is `GroundLink`: besides weak fairness of `Beat`,
`WatchdogTicks` and `Elapse` it assumes strong fairness of `NewBeatReceived`, a network that keeps
being able to deliver a heartbeat not seen before does so in the end; without it a network that
drops every beat would be no error of the code. No fairness is assumed of the environment: no
message, frame, request or target need ever come, PX4 need never be heard, and where a property is
about what happens when they stay away, that is a behaviour of the model. Steps that wait for the
vehicle or a target wait for it in the property too (`TimedStepCanGoOn`).

## 6 The theorems

Eight modules, proved with TLAPS for every value of the constants that satisfies the named
assumptions of the module that declares them.

| theorem | says | argument |
|---|---|---|
| `TypeCorrect` (manager) | `Spec => []TypeOK` | `TypeOK` is inductive |
| `AutonomyGateBound`, `OffboardGateBound` | the gates follow the evidence with a lag of one timer period | strengthened by `GatesFollowEvidence`: every piece of evidence *carries over* one elapsed unit with its age plus one, and a gate changes only on the timer, which holds time back until it fires. The bound "one period" is what makes it inductive |
| `ManagerKeepsContract` | `Spec => Contract!CSafety` | step simulation: each action is a step of `GateContract` or a stutter under the mapping; needs the type invariant |
| `EndedMeansReleased` | `Spec => []IdleMeansReleased` (executor) | `ReleaseInv` adds what a request can be: nothing, or the one value published last. Every publication, suppressed or not, leaves that value (`PublishSets`); every handler is a `Pass`, which publishes TRUE only while the mission runs; the ways out (stop, complete, the idle loop) publish FALSE |
| `PX4FliesReleased` | `Spec => OffboardReleasedForPX4` | `HandlerPasses`: a pass that sends an action other than DO_ORBIT is a `Pass` with Offboard FALSE; then as above |
| `DestinationsFixed` | `Spec => GotoDestinationFixed` | a fact of each step, without an invariant: one case per way `goto_targets` is left alone, extended or cleared |
| `ActionBeforeLeaving` | `HSpec => LeaveOnlyAfterAction` (`StepHistory`): however often a plan repeats a verb, no step that hands over is left without its action | `VisitInv`: the one-shot keys kept are of this step or an earlier one, and a key of this step is of an action published since the step began. So the key of an earlier visit is never taken for that of this one |
| `EntersHoldingAlways` | `Spec => EntersOffboardHolding` (bridge), with every fault | `EnterInv`: where the Offboard loop stands determines the call it waits for; while it waits for the start, PX4's setpoint does not move, as only this loop sends setpoints and the setpoint before the start was one to hold. `CallTypes` says which loop can ask for what |
| `KnowsWithoutLoss` | `Spec => []BridgeKnowsOffboard` if `LinkFaults` and `Preemption` are FALSE | `KnowInv`: only a start can fail; the Offboard loop starts only while `offboard_active` is FALSE; while the action loop stops Offboard, the other one is neither on the way to a start nor using its prime hold; a stop that was answered has ended Offboard, and nothing starts it before the loop resumes |
| `ReliablePartKnows` | `PartSpec => []KnowsOffboard` (`MCBridge`), the same assumptions | `KnowInv` of the part of the run |
| `ActionOnce` | `HSpec => []ActionOnceUnderPolicy` (`ActionHistory`), with every fault | `ActionInv`: whether the call in hand is for the last action received (`taken`), where the loop stands, and how many calls were made for it, which the call under way determines. A new action received in the middle of an `await` makes the one in hand an older one |
| `LossIsGraced` | `PartSpec => LossNeedsGrace` (`MCBridge`) if `OneFailureShortGrace` | `SessionInv`: a grace timer that runs times the loss its watcher was told of (`TimesLoss`), or lingers, after its server died, while the node sleeps before it connects again (`Lingers`). It runs out before then, because a grace period is shorter than that sleep |
| `OnlyDeadServersHurry` | `PartSpec => LossOrDeadServer` (`MCBridge`) if `TimeoutCoversGrace`, for any number of failures and sessions: the connection is given up after a loss of the grace period, at the end of a session, or because of a server that died, by an attempt to connect through it or by the timer its session left behind | `ManyInv`: the timer of each session whose server lives times a loss that its watcher was told of (`SessionRuns`), whichever sessions are running besides; only the timer of a dead server, which no watcher can cancel, is unbound |
| `OffboardLoopSurvives` | `Spec => [](offboard_pc # "dead")` (bridge) if `Preemption` is FALSE, with every other fault | `PrimeHoldInv`: the hold is there wherever the loop is between its test and its use; a callback that clears it comes only when the loop is at an `await`, from where it tests again |
| `EndedLeavesOffboard` | `HandoverSpec => []EndOfMissionEndsOffboard` if `LinkFaults` and `Preemption` are FALSE | `HandoverInv` joins the three nodes: the newest request on `offboard_topic` (or, once it is empty, what the manager believes) is the executor's last, unless it is a withdrawal by a button (`NewestIsLast`); the executor's last is FALSE once no mission is active; KEEP_LAST drops the oldest messages, never the newest (`NewestIsKept`, `NewestOfTail`); the gate follows the manager and the bridge knows of Offboard (`KnowInv`). Any depth of the queues, any plan, any buttons |
| `LandingStands` | `HandoverSpec => []LandingSurvivesHandover` under the same assumptions and `LandingHasTime` | `LandInv`: a unit of time ends only when everything has settled, so from the second unit of the landing on nothing asks for Offboard, the bridge is out of it and only LAND is under way (`Released`, `OnlyLand`; both are kept by every step of the three nodes). Until the step ends either a LAND of that time is under way or carried out (`Landing`), or the age of the last one leaves room for another (`LandComesAgain`). A button is not pressed once the bridge is out of Offboard |
| `GotoLostAtOnceOrNever` | `HandoverSpec => GotoLeftAlone`: from the second unit of a goto step on nothing changes PX4's mode until the step is left, with any plan and any depth of the queues; `LinkFaults` and `Preemption` FALSE, and `GotoFlies` | `GotoInv`: the action is sent once, in the pass that releases Offboard; by the end of that unit both have settled, in either order, and the bridge is out of Offboard with no action left to carry out (`AtRest`), which every step of the three nodes keeps |
| `NodesKeepTheirSpecs` | `HandoverSpec` implies `Executor!Spec`, `Manager!Spec` and, for the bridge, its initial states and `[][BridgeNext]_vars`, with every fault | `NodesInv`: what the topics deliver is an input the receiving node is specified for; each step of the hand-over is a step of each node or leaves it alone. So what is proved of every behaviour of the executor or the manager holds in the hand-over. `BridgeNext` is `Next` with a callback for any action, as `Next` draws the actions from a set a run may make small |
| `NothingStands` | `PartSpec => []NothingStandsDisabled` (control, in `MCAutonomy`) | inductive: the disable publishes an idle command in its own callback |
| `HeldWhereItWas` | `PartSpec => []NeverSentBack` | `AnchorIsRemembered`: the anchor, and the place last reported, are among the places in the history |
| `LossNoticedInTime` | `Spec => []LossIsNoticed` (link) | the laptop has been silent no longer than any beat under way is old (`BeatsFollow`), so the age of an accepted beat, up to its limit, bounds the silence less the delay; the verdict lags by one check (`WatchdogFollows`) |
| `FramesFollowLaptop` | `Spec => LaptopBehindFrames` if `RequireHeartbeat` | the same at the gate (`GateFollows`), where a frame passes only on a fresh beat |
| `TrackerTypeCorrect` | `Spec => []TypeOK` | inductive with the types of the filters, which are what a step reads |
| `PublishedLockIsVisible` | a published lock is visible | from the type invariant with the message's own fields |
| `SteersAtLastSeen` | what is steered at is the place last seen | assumes `TimeoutsOrdered` (coasting ends no later than the stream is stale, and than re-acquisition); `PlaceInv` adds that the place is kept while it may still be steered at and that the published message is newer than the loss |
| `OneGracePeriod` | `HSpec => VisibleWithinGrace` (`TrackerHistory`) | assumes `TimeoutsOrdered`; `GraceInv`: within the coast time the node's own count of missed frames, which resets, is no less than the frames that lacked the target |
| `BackByDetectionOnly` | `HSpec => LockNeedsDetection` | assumes `TimeoutsOrdered` and `LockConfirmFrames = 1`; `BackInv`: a target given up stays so without a detection (`StaysGivenUp`), with the time limits in every order of expiry |
| `OnlyAcceptedPlansFly` | `UploadSpec => []RefusedNeverFlies` | `Staged`: document accepted and plan resolved from it; the only writers are the start-up and the upload |
| `ShownAckIsTrue`, `WarningsAgree` | the page is right, and warned as the executor does | `AckInv`: everything in flight is what its sender makes of a document, the last acknowledgement in the topic (or the one shown) is true, a PENDING still has something under way; `FallbackAgrees` proves the two parsers and lints equal on accepted documents |
| `YoloKeepsRate` | `RateSpec => []RateIsKept`: from the first start to the last, *n* inferences take more than *n* - 3 intervals | `SlotAhead`: the next slot is as many intervals ahead of each start as there were starts since, less two. A start moves the slot by at least one interval, whether the schedule keeps its anchor or drops it, and leaves it less than one interval behind that start |
| `NothingPilesUp` | `PathSpec => []DetectionsAreRecent` | `RecentInv` bounds the age of what is in each place of the way, the encoder's queue, the encoder, the detector's one place and its inference, and of what each is worth in waiting: one more image in the queue is one more encoding |
| `ImagesAreWhole` | `StreamSpec => []ImagesAreThoseOfTheStream`, for every stream, size of a read and of the pipe | `CutInv`: the bytes pending begin at a known place of the stream, and no image begins before that place and after the last one published; an image found in the pending bytes is then the next one of the stream. What `find` returns is the first occurrence, whichever reads brought its bytes |
| `ThrottleSkipsFew` | `PathSpec => []FewAreSkipped` | `SkipInv`, `SlotsNear`: each image skipped since the anchor brings the camera one period nearer to the next slot, and an image is skipped only before that slot |
| `PlansInOrderPrimeFirst` | `UploadSpec => CleanPlansPrimeFirst` | `NotYetPrimed`: while no prime step was completed none lies behind the step index |

The invariants were checked with TLC before they were proved. What is assumed beyond the constants' types,
and why:

- `TimeoutsOrdered` (coasting ends no later than the stream is stale, and than re-acquisition), in
  `SteersAtLastSeen`, `OneGracePeriod` and `BackByDetectionOnly`: true of `configs/pi.yaml` (3.5, 3.5, 6.0) and
  of the node's defaults (2.0, 2.5, 5.0), but no code checks it. `LockConfirmFrames = 1` is the value in both;
  with more, one unconfirmed frame is enough to be LOCKED (a hazard in `PROJECT.json`).
- `LinkFaults` and `Preemption` FALSE, in `KnowsWithoutLoss`, `ReliablePartKnows` and the theorems of the hand-over
  but `NodesKeepTheirSpecs`: both are needed. TLC shows `bridge_prime_race` with preemption, and a stop or send whose answer is lost leaves PX4 in
  Offboard with `offboard_active` FALSE (section 7 and the hazards).
- `LandingHasTime`, in `LandingStands`: the vehicle stays in the air and MAVSDK actions are allowed; a plan that
  ends with a landing gives it at least the time after which LAND is sent again (2 s; the default of
  `land_wait_s` is 10 s), and has no `complete` step before. TLC refutes the property without either: with a
  time-out shorter than the repetition only the first LAND is sent, which the release may take back.
- `Preemption` FALSE alone, in `OffboardLoopSurvives`: the code does not exclude it. The theorem says that the race
  of `bridge_prime_race` is the only thing that ends the loop.
- `GotoFlies`, in `GotoLostAtOnceOrNever`: the vehicle stays in the air with a position. As in the runs, a button is
  pressed only while priming in Offboard: who presses Land during a goto wants it to end. TLC refutes the property from
  the first unit of the step on, which is the race of `handover_goto`.
- `OneFailureShortGrace`, in `LossIsGraced`: the code has a grace period of 3 s, a wait of 5 s before it connects
  again and a connection time-out of 10 s. One failure, because with two the grace timer of a first session
  may run out in a later one. `OnlyDeadServersHurry` is without that bound and asks only that the time-out is no
  shorter than the grace period (`TimeoutCoversGrace`); TLC, with three sessions and two failures, refutes it without
  either of the cases of a dead server.

Five of the theorems are about a part of a run (`PartSpec` of `MCAutonomy` and `MCBridge`): there the property is
that of the module the part is an instance of, and the other parts do not touch its variables.

Only model-checked, and why:

- every liveness property (`MotionEndsWithMessages`, `HoldingResumes`, `TimedStepsEnd`, `DisableEnds`,
  `MotionEnds`, `ConnectedFollowsLink`, `LossEndsInDeassert`, `LinkRecovers`, `UnseenIsGivenUp`) and the
  fairness part of `ImplementsContract`: fairness and ENABLED are out of the prover's reach. `ManagerKeepsContract` is
  the safety part of the last.

Every other property of a passing run is stated by a theorem.

## 7 What the runs found

Five runs violate what the repository says of itself.

- **`bridge_prime_race` / `DisableEndsOffboard`.** `telemetry_node.py:1087` tests the prime hold in
  the asyncio thread and `:1107` unpacks it; a disable received between them in the ROS thread sets it to
  None. The exception ends the Offboard loop with PX4 in Offboard and nobody left to stop it.
- **`handover_goto` / `GotoOwnedByPX4`.** The step publishes the Offboard release and GOTO_LOCATION in the same
  pass (`mission_executor_node.py:1058`). The action goes to the bridge directly and is issued
  first; when the release arrives through the manager, the bridge stops Offboard and with it the
  goto: PX4 holds, the step waits for its time-out. LAND survives the same race because it is
  repeated (`handover_land`). A goto that got through its first unit of time is not lost any more
  (`GotoLostAtOnceOrNever`).
- **`land_button` / `LandButtonLands`.** The same race from the dashboard: `land()` (`web_dashboard_node.py:748-755`)
  publishes the three withdrawals and LAND; LAND reaches the bridge directly and is carried out, the
  bridge, still enabled, primes and starts Offboard again, and the release then leaves PX4 in Hold. LAND
  is sent once. `src/docker/sim_watchdog.sh:69` relies on this button for "a controlled land".
- **`bridge_sessions` / `ActionsUseTheConnection`.** `telemetry_node.py:4` speaks of "the single MAVSDK
  connection". `asyncio.gather` (`:411`) does not cancel the other coroutines when one raises: the action
  loop of an ended session finds an action before the new one does, marks it handled, and gives it to
  the connection that was given up.
- **`link_loss` / `ReactionStands`.** The watchdog withdraws both requests once, on the edge of the
  loss ("The reaction fires once on the UP->DOWN edge, so an operator can still re-arm/recover
  deliberately once the link returns"); the executor publishes its own again within a second (`mission_executor_node.py:512`), and the
  manager keeps the last.

Observed while modelling, without a run of their own (they are hazards in `PROJECT.json`, or
remarks on documents):

- an orbit step whose target is never ready returns before its time-out is tested
  (`mission_executor_node.py:1110`), although `mission_plan.py:65` says a time-out keeps a lost
  target from wedging the mission;
- switching autonomy off by the parameter `autonomy_enabled` keeps the anchor, by a message it does
  not: `on_parameter_change` assigns the attribute before `set_autonomy_enabled` compares it
  (`control_node.py:342`, `:345`);
- an anchor captured by one prime is kept by the next one while autonomy stays disabled
  (`control_node.py:831`): prime, goto, prime sends the vehicle back;
- approach translation is published with a status the bridge does not accept as executed
  (`control_node.py:931`);
- a land step with a `timeout_s` below 2 s, which the parser accepts, ends before LAND was repeated
  (`mission_executor_node.py:1158`, `:1167`): the mission is then COMPLETE with PX4 holding, when the release came late;
- with two failures, the grace timer of an ended session, whose server died before it could report a
  recovery, can disconnect a later session before that one's own grace period (`telemetry_node.py:444`);
- a battery of 0 is "unknown" to the manager and the bridge and "low" to the control node
  (`control_node.py:560`);
- a link that was never up is no loss to the watchdog (`ground_station_watchdog_node.py:177`),
  a beat with an older sequence is a restart (`detection_gate_node.py:153`), both unlike
  `docs/safety_contract.md`;
- `docs/missions.md:113` calls the dashboard's plan selector preview-only; the dashboard uploads
  plans and the executor stages them (`web_dashboard_node.py:670`, `mission_executor_node.py:440`).

## 8 What is not modelled

- **Inference, devices, the video stream of the dashboard, pages:** input, output and numerics; what the Pi
  sees of the detector is an array of detections with the time its frame was taken. `FramePath` ends
  where detections are published, `GroundLink` starts there; they are not composed. That `camera_node`
  gives up after 30 failed reads in a row is left out.
- **Diagnostics and event logs:** no node reads them.
- **Simulation nodes, launch files, shell scripts, containers:** they start processes. The order of
  the time-outs in `configs/pi.yaml` is kept by the constants of the runs.
- **The dashboard's other buttons** (arm, System Ready) are inputs of the models of the nodes they reach; saving missions and the catalog's listing are not
  modelled, a catalog file may hold anything when it is read.
- **Control parameters that change in flight**, but for `autonomy_enabled`: gains, limits and time-outs are
  constants of `ControlNode`.
- **What the Offboard loops of two sessions do to PX4 together:** `BridgeSessions` keeps the loops of an
  ended session running, and follows their action loops and watchers; setpoints are in `MavsdkBridge`, which has one
  session. A new MAVSDK server is assumed to hear PX4 while an older one lives.
- **Numerics:** geodesy, image geometry, smoothing constants, yaw integration.
- **Crashes of Pi nodes:** nothing is persisted; a restarted node starts from `Init`, which the runs cover, but its
  peers' memory of it is not modelled, except for the laptop's restarts in `GroundLink`.

## 9 The plan

1. *Done.* The gates (`AutonomyManager`, its contract and proofs); the executor; the bridge and its
   sessions; their hand-over, with the dashboard's buttons; the link and its loss; the tracker with
   proofs; the control node; plans and their upload with proofs; the way of an image from the camera to
   the detections, with the proof of the detector's rate.
   The proofs of the executor, the bridge, the control node and the link.
   Since then the step's action before it is left, the action loop's policy, the loss and its grace period,
   the end of a mission and of a landing through the hand-over, the tracker's grace period and return, the age of detections
   and the throttle's skipped images; last the images of the camera, the goto, the nodes' own specifications in the
   hand-over, the sessions after any number of failures, and what can end the Offboard loop.
2. *More proofs.* The type invariants of the modules that have none proved; the nodes' own specifications
   within `LinkLoss` and `PlanUpload`, as in `NodesKeepTheirSpecs`.
3. *More of the system.* `AnchorHandover`: executor, control node and the manager's contract in
   the manager's place, for prime, goto, prime. Tracker and control node together: what is steered
   at from detection to setpoint. `FramePath`, the gate, tracker and manager together: how old the
   evidence under an open gate may be, from the camera's clock. The setpoints of two sessions.
