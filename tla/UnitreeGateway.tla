--------------------------- MODULE UnitreeGateway ---------------------------
(***************************************************************************)
(* The physical-robot gateway (scripts/run_unitree_navila.py) with the     *)
(* motion executor it drives (SafeMotionExecutor): one main thread that    *)
(* walks a list of waypoints, asks the landmark seer, the goal seer and    *)
(* the NaVILA model what to do, and sends Move and StopMove to the robot;  *)
(* the signal handler that runs between two steps of that thread; and the  *)
(* camera worker, seen here only as the error it may leave behind.         *)
(*                                                                         *)
(* A step of the main thread is what it does between two points where a    *)
(* signal matters: before and after every call that blocks or moves the    *)
(* robot.  A call to a model returns any answer or raises.  Durations are  *)
(* left out: a chunk of motion sends any number of Moves until its         *)
(* deadline or a stop request ends it.                                     *)
(***************************************************************************)
EXTENDS Integers, FiniteSets, GoalSeer

CONSTANTS
    NumWaypoints,        \* lines of the waypoint file
    MaxDecisions,        \* --max-decisions, per waypoint
    MaxTurns,            \* --landmark-seer-max-turns, per acquisition
    MaxInspectionTurns,  \* turns of one in-place inspection
    SweepDirection,      \* --landmark-seer-sweep-direction
    GoalReplies,         \* the goal-seer answers that occur
    NoGoal,              \* goal_result is None
    NoSighting           \* the acquisition's result is None

ASSUME BoundsAssumption ==
    /\ NumWaypoints \in Nat \ {0}
    /\ MaxDecisions \in Nat \ {0}
    /\ MaxTurns \in Nat
    /\ MaxInspectionTurns \in Nat

ASSUME SeerAssumption ==
    /\ SweepDirection \in {"left", "right"}
    /\ GoalReplies \subseteq GoalReply
    /\ NoGoal \notin GoalResult
    /\ NoSighting \notin Sighting

VARIABLES
    seer, execute,               \* --landmark-seer, --execute-actions
    pc,                          \* where the main thread is
    outcome,                     \* how the try block ended
    interrupted, stopRequested,  \* the handler's flag, the executor's event
    armed,                       \* controller and executor exist
    robot,                       \* what the robot is doing
    cmd, ret, origErr,           \* execute(): command, caller, original_error
    wp, dec, missionFound, waypointStopped,
    phase, tries, goal, recheck, \* where goal_result came from, and its age
    turn, turnSign, sighting,    \* the acquisition's and inspection's locals
    camErr                       \* camera_worker.error is set

\* History, read by the properties only.
VARIABLES concluded,  \* waypoints whose search came to an end
          faults,     \* StopMoves that were lost, and signals during cleanup
          blind,      \* motion chunks begun after the camera failed
          late        \* motion chunks begun after a stop request

argVars     == <<seer, execute>>
motionVars  == <<armed, robot, cmd, ret, origErr>>
missionVars == <<wp, dec, missionFound, waypointStopped, concluded>>
goalVars    == <<phase, tries, goal, recheck>>
turnVars    == <<turn, turnSign, sighting>>
signalVars  == <<interrupted, stopRequested>>
ghostVars   == <<faults, blind, late>>
vars == <<argVars, pc, outcome, signalVars, motionVars, missionVars, goalVars,
          turnVars, camErr, ghostVars>>

Kinds == {"forward", "left", "right"}

Locations ==
    { "setup", "warmup", "waypoint", "acquire", "goal", "judge", "inspect",
      "decide", "infer", "act", "clear", "drive", "brake", "waypoint_end",
      "cleanup", "closing", "done" }

\* Capped counters: the properties only tell 0, 1 and more apart.
Bump(n) == IF n < 2 THEN n + 1 ELSE n

ControlType ==
    /\ seer \in BOOLEAN /\ execute \in BOOLEAN
    /\ pc \in Locations
    /\ outcome \in {"running", "ok", "error", "kbd", "aborted"}
    /\ interrupted \in BOOLEAN /\ stopRequested \in BOOLEAN
    /\ camErr \in BOOLEAN

MotionType ==
    /\ armed \in BOOLEAN
    /\ robot \in Kinds \cup {"still"}
    /\ cmd \in Kinds \cup {"stop", "garbage"}
    /\ ret \in {"acquire", "inspect", "decide"}
    /\ origErr \in {"none", "error", "kbd"}

MissionType ==
    /\ wp \in 1..NumWaypoints /\ dec \in 0..MaxDecisions
    /\ missionFound \in BOOLEAN /\ waypointStopped \in BOOLEAN
    /\ concluded \subseteq 1..NumWaypoints

SeerType ==
    /\ phase \in {"entry", "loop", "inspect"} /\ tries \in 0..2
    /\ goal \in GoalResult \cup {NoGoal} /\ recheck \in BOOLEAN
    /\ turn \in 0..MaxTurns \cup 0..MaxInspectionTurns
    /\ turnSign \in {"left", "right"}
    /\ sighting \in Sighting \cup {NoSighting}

HistoryType == faults \in 0..2 /\ blind \in 0..2 /\ late \in 0..2

\* Every variable has its type.
TypeOK == ControlType /\ MotionType /\ MissionType /\ SeerType /\ HistoryType

Init ==
    /\ seer \in BOOLEAN /\ execute \in BOOLEAN
    /\ pc = "setup" /\ outcome = "running"
    /\ interrupted = FALSE /\ stopRequested = FALSE
    /\ armed = FALSE /\ robot = "still"
    /\ cmd = "stop" /\ ret = "decide" /\ origErr = "none"
    /\ wp = 1 /\ dec = 0 /\ missionFound = FALSE /\ waypointStopped = FALSE
    /\ phase = "entry" /\ tries = 0 /\ goal = NoGoal /\ recheck = FALSE
    /\ turn = 0 /\ turnSign = SweepDirection /\ sighting = NoSighting
    /\ camErr = FALSE
    /\ concluded = {} /\ faults = 0 /\ blind = 0 /\ late = 0

-----------------------------------------------------------------------------
(* Leaving the try block: an exception, or falling out of the loop.        *)

Raise == pc' = "cleanup" /\ outcome' = "error"

Leave == pc' = "cleanup" /\ outcome' = "ok"

GoTo(location) == pc' = location /\ UNCHANGED outcome

\* ensure_healthy() returns.
EnsureHealthy == ~camErr

\* The loops' own test of the interrupt flag.
StopObserved == interrupted

-----------------------------------------------------------------------------
(* Startup.                                                                *)

\* Camera, controller and executor are constructed, in that order; any of
\* them, and balance_stand after them, may raise.
Setup ==
    /\ pc = "setup"
    /\ \/ armed' = execute /\ GoTo("warmup")
       \/ armed' \in {FALSE, execute} /\ Raise
    /\ UNCHANGED <<argVars, signalVars, robot, cmd, ret, origErr, missionVars,
                   goalVars, turnVars, camErr, ghostVars>>

\* history.wait_for: enough frames, or the timeout.
Warmup ==
    /\ pc = "warmup"
    /\ GoTo("waypoint") \/ Raise
    /\ UNCHANGED <<argVars, signalVars, motionVars, missionVars, goalVars,
                   turnVars, camErr, ghostVars>>

\* The head of the waypoint loop.  With the seer the landmark is acquired
\* and the goal judged before the first decision; two more acquisitions are
\* granted should the two seers disagree.
BeginWaypoint ==
    /\ pc = "waypoint"
    /\ \/ /\ StopObserved
          /\ Leave
          /\ UNCHANGED <<dec, waypointStopped, goalVars, turnVars>>
       \/ /\ ~StopObserved
          /\ dec' = 0 /\ waypointStopped' = FALSE
          /\ goal' = NoGoal /\ recheck' = TRUE
          /\ phase' = "entry" /\ tries' = 2
          /\ turn' = 0 /\ turnSign' = SweepDirection /\ sighting' = NoSighting
          /\ GoTo(IF seer THEN "acquire" ELSE "decide")
    /\ UNCHANGED <<argVars, signalVars, motionVars, wp, missionFound, concluded,
                   camErr, ghostVars>>

-----------------------------------------------------------------------------
(* SafeMotionExecutor.execute, called from three places: it clears the     *)
(* stop event, sends Move until the deadline or a stop request, and always *)
(* ends with StopMove.                                                     *)

\* The caller's part: the command, and where to go on afterwards.
Execute(kind, caller) ==
    /\ cmd' = kind /\ ret' = caller /\ GoTo("clear")
    /\ UNCHANGED <<armed, robot, origErr>>

ClearStopRequest ==
    /\ pc = "clear"
    /\ stopRequested' = FALSE /\ origErr' = "none"
    /\ blind' = IF camErr THEN Bump(blind) ELSE blind
    /\ late' = IF interrupted THEN Bump(late) ELSE late
    /\ GoTo("drive")
    /\ UNCHANGED <<argVars, interrupted, armed, robot, cmd, ret, missionVars,
                   goalVars, turnVars, camErr, faults>>

\* One Move.  One that reports a failure may have been obeyed all the same.
Move ==
    /\ pc = "drive" /\ ~stopRequested
    /\ \/ robot' = cmd /\ UNCHANGED <<pc, outcome, origErr>>
       \/ robot' \in {robot, cmd} /\ origErr' = "error" /\ GoTo("brake")
    /\ UNCHANGED <<argVars, signalVars, armed, cmd, ret, missionVars, goalVars,
                   turnVars, camErr, ghostVars>>

\* The deadline passes, or the loop sees the stop event.
EndOfChunk ==
    /\ pc = "drive"
    /\ GoTo("brake")
    /\ UNCHANGED <<argVars, signalVars, motionVars, missionVars, goalVars,
                   turnVars, camErr, ghostVars>>

\* Mutant of AfterBrake: the executor swallows a failed StopMove even when no
\* earlier error is on its way.
AfterBrakeSwallowing(stopped) ==
    IF origErr = "none"
    THEN GoTo(CASE ret = "acquire" -> "acquire"
                [] ret = "inspect" -> "goal"
                [] OTHER -> IF interrupted THEN "waypoint_end" ELSE "decide")
    ELSE pc' = "cleanup" /\ outcome' = origErr

\* What execute() does after its StopMove: hand an earlier error on, raise
\* the StopMove's own, or return to the caller.
AfterBrake(stopped) ==
    IF origErr = "none"
    THEN IF stopped
         THEN GoTo(CASE ret = "acquire" -> "acquire"
                     [] ret = "inspect" -> "goal"
                     [] OTHER -> IF StopObserved THEN "waypoint_end"
                                                 ELSE "decide")
         ELSE Raise
    ELSE pc' = "cleanup" /\ outcome' = origErr

\* The StopMove that ends a chunk, obeyed or lost.
Brake ==
    /\ pc = "brake"
    /\ \E stopped \in BOOLEAN :
          /\ robot' = IF stopped THEN "still" ELSE robot
          /\ faults' = IF stopped THEN faults ELSE Bump(faults)
          /\ AfterBrake(stopped)
    /\ IF ret = "decide"
       THEN UNCHANGED turnVars
       ELSE /\ turn' = turn + 1 /\ sighting' = NoSighting
            /\ UNCHANGED turnSign
    /\ UNCHANGED <<argVars, signalVars, armed, cmd, ret, origErr, missionVars,
                   goalVars, camErr, blind, late>>

-----------------------------------------------------------------------------
(* _acquire_landmark: look, and turn in place until the landmark is        *)
(* centred.                                                                *)

Sightings == {SeeLandmark(v, c, b) : v \in BOOLEAN, c \in BOOLEAN, b \in Bearing}

\* The landmark seer is asked when no result is at hand.
LookForLandmark ==
    /\ pc = "acquire" /\ sighting = NoSighting
    /\ \/ /\ EnsureHealthy
          /\ sighting' \in Sightings
          /\ UNCHANGED <<pc, outcome>>
       \/ Raise /\ UNCHANGED sighting
    /\ UNCHANGED <<argVars, signalVars, motionVars, missionVars, goalVars, turn,
                   turnSign, camErr, ghostVars>>

LandmarkAcquired ==
    /\ pc = "acquire" /\ sighting # NoSighting
    /\ TargetCentered(sighting)
    /\ GoTo("goal")
    /\ turn' = 0 /\ turnSign' = SweepDirection /\ sighting' = NoSighting
    /\ UNCHANGED <<argVars, signalVars, motionVars, missionVars, goalVars,
                   camErr, ghostVars>>

TurnsLeft(limit) == turn < limit

\* A visible landmark is turned towards, a lost one is swept for in the
\* direction of the last turn; a dry run cannot turn and raises.
TurnTowardsLandmark ==
    /\ pc = "acquire" /\ sighting # NoSighting
    /\ ~TargetCentered(sighting)
    /\ TurnsLeft(MaxTurns) /\ armed
    /\ turnSign' = IF ~sighting.visible THEN turnSign
                   ELSE IF sighting.bearing = "right" THEN "right" ELSE "left"
    /\ Execute(turnSign', "acquire")
    /\ UNCHANGED <<argVars, signalVars, missionVars, goalVars, turn, sighting,
                   camErr, ghostVars>>

AcquisitionFails ==
    /\ pc = "acquire" /\ sighting # NoSighting
    /\ ~TargetCentered(sighting)
    /\ ~TurnsLeft(MaxTurns) \/ ~armed
    /\ Raise
    /\ UNCHANGED <<argVars, signalVars, motionVars, missionVars, goalVars,
                   turnVars, camErr, ghostVars>>

-----------------------------------------------------------------------------
(* The goal check and what follows from it, on entering a waypoint, in the *)
(* decision loop and during an inspection.                                 *)

CheckGoal ==
    /\ pc = "goal"
    /\ \/ /\ EnsureHealthy
          /\ goal' \in {SeeGoal(r) : r \in GoalReplies}
          /\ recheck' = FALSE
          /\ GoTo(IF phase = "inspect" THEN "inspect" ELSE "judge")
       \/ Raise /\ UNCHANGED <<goal, recheck>>
    /\ UNCHANGED <<argVars, signalVars, motionVars, missionVars, phase, tries,
                   turnVars, camErr, ghostVars>>

\* The mission ends on a confirmed item, with a StopMove of its own.
GoalFound ==
    /\ pc \in {"judge", "inspect"} /\ GoalItemFound(goal)
    /\ \/ /\ robot' = IF armed THEN "still" ELSE robot
          /\ missionFound' = TRUE /\ waypointStopped' = TRUE
          /\ GoTo("waypoint_end")
          /\ UNCHANGED faults
       \/ /\ armed /\ faults' = Bump(faults)
          /\ Raise
          /\ UNCHANGED <<robot, missionFound, waypointStopped>>
    /\ UNCHANGED <<argVars, signalVars, armed, cmd, ret, origErr, wp, dec,
                   concluded, goalVars, turnVars, camErr, blind, late>>

\* Neither the item nor a centred landmark gives leave to go on.
MustReacquire(g) == ~GoalItemVisible(g) /\ ~GoalLandmarkCentered(g)

Reacquire ==
    /\ pc = "judge" /\ ~GoalItemFound(goal)
    /\ MustReacquire(goal) /\ tries > 0
    /\ tries' = tries - 1
    /\ turn' = 0 /\ turnSign' = SweepDirection
    /\ sighting' = LandmarkResultFromGoal(goal)
    /\ GoTo("acquire")
    /\ UNCHANGED <<argVars, signalVars, motionVars, missionVars, phase, goal,
                   recheck, camErr, ghostVars>>

\* "refusing NaVILA forward motion"
RefuseForwardMotion ==
    /\ pc = "judge" /\ ~GoalItemFound(goal)
    /\ MustReacquire(goal) /\ tries = 0
    /\ Raise
    /\ UNCHANGED <<argVars, signalVars, motionVars, missionVars, goalVars,
                   turnVars, camErr, ghostVars>>

\* _inspect_landmark_for_item begins with a StopMove.
BeginInspection ==
    /\ pc = "judge" /\ ~GoalItemFound(goal)
    /\ ~MustReacquire(goal) /\ MustInspect(goal)
    /\ phase' = "inspect" /\ turn' = 0
    /\ \/ /\ robot' = IF armed THEN "still" ELSE robot
          /\ GoTo("inspect")
          /\ UNCHANGED faults
       \/ armed /\ faults' = Bump(faults) /\ Raise /\ UNCHANGED robot
    /\ UNCHANGED <<argVars, signalVars, armed, cmd, ret, origErr, missionVars,
                   tries, goal, recheck, turnSign, sighting, camErr, blind, late>>

\* Mutant of MayProceed: the item's own veto on advancing is forgotten.
ProceedIfSeen(g) == ~MustReacquire(g)

MayProceed(g) == ~MustReacquire(g) /\ ~MustInspect(g)

Proceed ==
    /\ pc = "judge" /\ ~GoalItemFound(goal)
    /\ MayProceed(goal)
    /\ GoTo(IF phase = "entry" THEN "decide" ELSE "infer")
    /\ UNCHANGED <<argVars, signalVars, motionVars, missionVars, goalVars,
                   turnVars, camErr, ghostVars>>

InspectionTurn ==
    /\ pc = "inspect" /\ ~GoalItemFound(goal)
    /\ TurnsLeft(MaxInspectionTurns) /\ armed
    /\ Execute(SweepDirection, "inspect")
    /\ UNCHANGED <<argVars, signalVars, missionVars, goalVars, turnVars, camErr,
                   ghostVars>>

\* The sweep is over, or a dry run skips it: the waypoint is done.
EndInspection ==
    /\ pc = "inspect" /\ ~GoalItemFound(goal)
    /\ ~TurnsLeft(MaxInspectionTurns) \/ ~armed
    /\ waypointStopped' = TRUE
    /\ concluded' = concluded \cup {wp}
    /\ GoTo("waypoint_end")
    /\ UNCHANGED <<argVars, signalVars, motionVars, wp, dec, missionFound,
                   goalVars, turnVars, camErr, ghostVars>>

-----------------------------------------------------------------------------
(* The decision loop.                                                      *)

\* Mutant of NextDecision: a decision that is not counted.
SameDecision == dec

NextDecision == dec + 1

\* time.monotonic() - last_goal_check >= check_interval: either, by the time
\* that went by, but certain once last_goal_check is reset to zero.
GoalCheckDue == IF recheck THEN {TRUE} ELSE BOOLEAN

NextIteration ==
    /\ pc = "decide"
    /\ IF dec < MaxDecisions /\ ~StopObserved
       THEN /\ dec' = NextDecision
            /\ \/ /\ seer /\ TRUE \in GoalCheckDue
                  /\ phase' = "loop" /\ tries' = 1 /\ GoTo("goal")
               \/ /\ ~seer \/ FALSE \in GoalCheckDue
                  /\ UNCHANGED <<phase, tries>> /\ GoTo("infer")
       ELSE UNCHANGED <<dec, phase, tries>> /\ GoTo("waypoint_end")
    /\ UNCHANGED <<argVars, signalVars, motionVars, wp, missionFound,
                   waypointStopped, concluded, goal, recheck, turnVars, camErr,
                   ghostVars>>

\* Sample the history and ask NaVILA.
Infer ==
    /\ pc = "infer"
    /\ \/ /\ EnsureHealthy
          /\ cmd' \in Kinds \cup {"stop", "garbage"}
          /\ GoTo("act")
       \/ Raise /\ UNCHANGED cmd
    /\ UNCHANGED <<argVars, signalVars, armed, robot, ret, origErr, missionVars,
                   goalVars, turnVars, camErr, ghostVars>>

\* An answer that does not parse, a decision that cannot be recorded, or a
\* StopMove that fails ends the run.
DecisionFails ==
    /\ pc = "act"
    /\ \/ /\ cmd = "garbage" /\ robot' = IF armed THEN "still" ELSE robot
          /\ UNCHANGED faults
       \/ /\ cmd \in {"garbage", "stop"} /\ armed /\ faults' = Bump(faults)
          /\ UNCHANGED robot
       \/ cmd # "garbage" /\ UNCHANGED <<robot, faults>>
    /\ Raise
    /\ UNCHANGED <<argVars, signalVars, armed, cmd, ret, origErr, missionVars,
                   goalVars, turnVars, camErr, blind, late>>

PrematureSeerStop ==
    seer /\ goal # NoGoal /\ GoalSeerRequiresMoreApproach(goal)

\* NaVILA says stop: the waypoint is done, unless the seer still wants the
\* robot closer.
StopDecision ==
    /\ pc = "act" /\ cmd = "stop"
    /\ robot' = IF armed THEN "still" ELSE robot
    /\ \/ /\ PrematureSeerStop
          /\ recheck' = TRUE
          /\ GoTo("decide")
          /\ UNCHANGED <<waypointStopped, concluded>>
       \/ /\ ~PrematureSeerStop
          /\ waypointStopped' = TRUE
          /\ concluded' = concluded \cup {wp}
          /\ GoTo("waypoint_end")
          /\ UNCHANGED recheck
    /\ UNCHANGED <<argVars, signalVars, armed, cmd, ret, origErr, wp, dec,
                   missionFound, phase, tries, goal, turnVars, camErr, ghostVars>>

MotionDecision ==
    /\ pc = "act" /\ cmd \in Kinds
    /\ \/ armed /\ Execute(cmd, "decide")
       \/ /\ ~armed
          /\ GoTo(IF StopObserved THEN "waypoint_end" ELSE "decide")
          /\ UNCHANGED motionVars
    /\ UNCHANGED <<argVars, signalVars, missionVars, goalVars, turnVars, camErr,
                   ghostVars>>

-----------------------------------------------------------------------------
(* After the decision loop.                                                *)

\* Mutant of WaypointExhausted: the missing stop goes unnoticed.
NeverExhausted == FALSE

\* --max-decisions without a stop action.
WaypointExhausted == ~waypointStopped

EndWaypoint ==
    /\ pc = "waypoint_end"
    /\ \/ StopObserved /\ Leave /\ UNCHANGED wp
       \/ ~StopObserved /\ WaypointExhausted /\ Raise /\ UNCHANGED wp
       \/ /\ ~StopObserved /\ ~WaypointExhausted
          /\ missionFound \/ wp = NumWaypoints
          /\ Leave /\ UNCHANGED wp
       \/ /\ ~StopObserved /\ ~WaypointExhausted
          /\ ~missionFound /\ wp < NumWaypoints
          \* the history is cleared and filled again, or times out
          /\ \/ wp' = wp + 1 /\ GoTo("waypoint")
             \/ Raise /\ UNCHANGED wp
    /\ UNCHANGED <<argVars, signalVars, motionVars, dec, missionFound,
                   waypointStopped, concluded, goalVars, turnVars, camErr,
                   ghostVars>>

\* The finally block: the previous handlers come back first,
RestoreHandlers ==
    /\ pc = "cleanup"
    /\ GoTo("closing")
    /\ UNCHANGED <<argVars, signalVars, motionVars, missionVars, goalVars,
                   turnVars, camErr, ghostVars>>

\* Mutant of FinalStopDue: the robot is taken to stand still after an error.
StopUnlessError == armed /\ outcome # "error"

FinalStopDue == armed

\* then the camera worker is joined, and the last StopMove is sent; its
\* failure is only logged.
FinalStop ==
    /\ pc = "closing"
    /\ \E stopped \in BOOLEAN :
          /\ robot' = IF FinalStopDue /\ stopped THEN "still" ELSE robot
          /\ faults' = IF FinalStopDue /\ ~stopped THEN Bump(faults) ELSE faults
    /\ GoTo("done")
    /\ UNCHANGED <<argVars, signalVars, armed, cmd, ret, origErr, missionVars,
                   goalVars, turnVars, camErr, blind, late>>

\* The process's exit status.
ExitStatus == CASE outcome = "aborted" -> "killed"
                [] outcome = "error"   -> "2"
                [] interrupted         -> "130"
                [] OTHER               -> "0"

-----------------------------------------------------------------------------
(* Signals, and the camera worker.                                         *)

RequestStop == interrupted' = TRUE /\ stopRequested' = (stopRequested \/ armed)

\* SIGTERM and SIGHUP only set the flags.
Terminate ==
    /\ pc \notin {"closing", "done"}
    /\ RequestStop
    /\ UNCHANGED <<argVars, pc, outcome, motionVars, missionVars, goalVars,
                   turnVars, camErr, ghostVars>>

\* SIGINT raises KeyboardInterrupt where the main thread stands: inside
\* Move, inside the StopMove that ends a chunk, or anywhere else in the try
\* block.
KeyboardInterrupt ==
    /\ RequestStop
    /\ \/ /\ pc = "drive"
          /\ robot' \in {robot, cmd} /\ origErr' = "kbd"
          /\ GoTo("brake")
          /\ UNCHANGED faults
       \/ /\ pc = "brake"
          /\ robot' \in {robot, "still"} /\ faults' = Bump(faults)
          /\ pc' = "cleanup"
          /\ outcome' = IF origErr = "none" THEN "kbd" ELSE origErr
          /\ UNCHANGED origErr
       \/ /\ pc \notin {"drive", "brake", "cleanup", "closing", "done"}
          /\ pc' = "cleanup" /\ outcome' = "kbd"
          /\ UNCHANGED <<robot, origErr, faults>>
    /\ UNCHANGED <<argVars, armed, cmd, ret, missionVars, goalVars, turnVars,
                   camErr, blind, late>>

\* A SIGINT in the finally block, or any signal once the previous handlers
\* are back, ends the process where it is.
AbortCleanup ==
    /\ pc \in {"cleanup", "closing"}
    /\ pc' = "done" /\ outcome' = "aborted"
    /\ faults' = Bump(faults)
    /\ UNCHANGED <<argVars, signalVars, motionVars, missionVars, goalVars,
                   turnVars, camErr, blind, late>>

\* The worker gives up after too many consecutive errors.
CameraFails ==
    /\ pc \notin {"setup", "done"} /\ ~camErr
    /\ camErr' = TRUE
    /\ UNCHANGED <<argVars, pc, outcome, signalVars, motionVars, missionVars,
                   goalVars, turnVars, ghostVars>>

Finished == pc = "done" /\ UNCHANGED vars

-----------------------------------------------------------------------------

ExecutorStep == ClearStopRequest \/ Move \/ EndOfChunk \/ Brake

AcquireStep == \/ LookForLandmark \/ LandmarkAcquired
               \/ TurnTowardsLandmark \/ AcquisitionFails

GoalStep == \/ CheckGoal \/ GoalFound \/ Reacquire \/ RefuseForwardMotion
            \/ BeginInspection \/ Proceed \/ InspectionTurn \/ EndInspection

DecisionStep == \/ NextIteration \/ Infer \/ DecisionFails
                \/ StopDecision \/ MotionDecision

MainStep == \/ Setup \/ Warmup \/ BeginWaypoint
            \/ ExecutorStep \/ AcquireStep \/ GoalStep \/ DecisionStep
            \/ EndWaypoint \/ RestoreHandlers \/ FinalStop

Next == \/ MainStep \/ Terminate \/ KeyboardInterrupt \/ AbortCleanup
        \/ CameraFails \/ Finished

\* Model calls and RPCs carry timeouts, so the main thread goes on.
Spec == Init /\ [][Next]_vars /\ WF_vars(MainStep)

-----------------------------------------------------------------------------
(* Properties.                                                             *)

\* The robot is given a motion only by a chunk in progress, and a chunk whose
\* StopMove was lost ends the mission: no seer call, no inference, no
\* bookkeeping happens while it walks (unitree_gateway.py, execute()).
StillBetweenChunks ==
    robot # "still" => pc \in {"drive", "brake", "cleanup", "closing", "done"}

\* No single fault leaves the robot walking: when the process is gone and the
\* robot is not at rest, at least two of these happened: a StopMove that
\* failed, one that Ctrl-C broke off, a signal during the cleanup.
SingleFaultSafe == pc = "done" /\ robot # "still" => faults >= 2

\* What a goal-seer result must say for the robot to walk on: the item is in
\* sight at a known distance and may be approached, or the landmark is
\* centred, not yet reached, and may be approached.
AdvanceAuthorised(g) ==
    \/ /\ g.item_visible /\ g.item_confident /\ g.item_safe_to_advance
       /\ g.item_distance_state # "unknown"
    \/ /\ GoalLandmarkCentered(g) /\ g.safe_to_advance
       /\ g.landmark_distance_state \in {"far", "approach"}

\* With the seer, the robot never walks forward unless the last goal check of
\* this waypoint authorised it, whatever sweeps, rejected stops and skipped
\* checks lie in between.
ForwardIsAuthorised ==
    seer /\ robot = "forward" => goal # NoGoal /\ AdvanceAuthorised(goal)

\* With the seer, a textual stop of NaVILA never completes a waypoint: every
\* state in which one can arrive has a goal result that asks for more
\* approach, so only a find or a finished inspection does.
SeerEndsWaypoint ==
    [][seer /\ ~waypointStopped /\ waypointStopped'
          => missionFound' \/ phase = "inspect"]_vars

\* After a stop that the seer rejected, and on a fresh waypoint, nothing is
\* asked of NaVILA and nothing it said is executed before the goal has been
\* checked again.
RejectedStopIsRechecked ==
    seer /\ recheck => /\ pc \notin {"infer", "act"}
                       /\ ret = "decide" => pc \notin {"clear", "drive"}

\* Once the camera worker has given up at most one more chunk of motion is
\* begun: every path from one chunk to the next passes ensure_healthy().
OneBlindChunk == blind <= 1

\* Without the seer, at most one chunk of motion is begun after SIGTERM.
OneLateChunk == ~seer => late <= 1

\* Exit status 0 without a find means that every waypoint was searched: its
\* stop was accepted or its inspection came to an end.
CleanExitMeansSearched ==
    pc = "done" /\ ExitStatus = "0" /\ ~missionFound
        => concluded = 1..NumWaypoints

\* The gateway always comes to an end.
Termination == <>(pc = "done")

(* What the documentation says, and the code does not do.                  *)

\* docs/UNITREE_DEPLOYMENT.md:238: StopMove is called on SIGTERM.  So the
\* robot, at rest, is not set in motion by an interrupted gateway.
StopRequestStopsMotion ==
    [][interrupted /\ robot = "still" => robot' = "still"]_vars
=============================================================================
