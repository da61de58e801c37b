--------------------------- MODULE KeyboardTeleop ---------------------------
(***************************************************************************)
(* teleop.py: a person drives the simulated robot with key pulses and      *)
(* labels places. One thread polls the keys, checks the watchdog, steps    *)
(* the physics (VelocityBackend) and mirrors the pose in a renderer; the   *)
(* clock runs on while it is blocked in a prompt, a capture or a sleep.    *)
(* cli.py's _teleop builds the parts before it and closes them after it.   *)
(*                                                                         *)
(* External: the person, the terminal, the renderer (it may fail, or       *)
(* answer with a frame of an earlier step) and the clock.                  *)
(***************************************************************************)
EXTENDS VelocityBackend, Sequences

CONSTANTS
    None,
    Hold,          \* command_hold_s, in units of the clock
    MaxBlock,      \* bound: the longest the thread is blocked at a time
    MaxKeys,       \* bound: keys pressed in a session
    MaxSteps,      \* bound: the person leaves an unlimited session by then
    StreamTicks, CaptureTicks,
    Requested      \* values of max_control_steps and of the step at which
                   \* max_sim_time_s is reached; 0 is no limit

ASSUME TeleopAssumption ==
    /\ Hold \in Nat \ {0} /\ MaxBlock \in Nat \ {0}
    /\ MaxKeys \in Nat /\ MaxSteps \in Nat
    /\ StreamTicks \in Nat \ {0} /\ CaptureTicks \in Nat \ {0}
    /\ Requested \subseteq Nat
    /\ None \notin Nat /\ None \notin {"cooked", "cbreak"}

VARIABLES
    phase,      \* where the thread is
    preview,    \* a renderer was built (not --no-preview)
    live,       \* the live monitor was asked for
    requested,  \* max_control_steps of this session
    simLimit,   \* the step at which max_sim_time_s is reached
    active,     \* active_velocity
    left,       \* what is left until command_deadline, 0 when it has passed
    scale,      \* speed_scale
    pushed,     \* last_pushed_step
    anchors,    \* the anchors saved: the step of the pose and of the picture
    reset,      \* the state at hand is that of a world reset by itself
    ended,      \* what the last step reported of the world
    reason,     \* termination_reason
    tty, saved, \* the terminal's mode and the mode that will be restored
    artifact,   \* teleop.json
    keys,       \* keys pressed so far
    asked,      \* history: the velocity of the last motion key
    quiet,      \* history: time since that key, Hold once a brake came after it
    failed      \* history: which parts of the cleanup were cut short

sessionVars == <<preview, live, requested, simLimit>>
driveVars == <<active, left, scale, asked, quiet, keys>>
ttyVars == <<tty, saved>>
recordVars == <<anchors, artifact, failed>>
vars == <<backendVars, phase, sessionVars, driveVars, pushed, reset, ended, reason,
          ttyVars, recordVars>>

Phases == {"closed", "built", "open", "warmup", "first", "keys", "label", "command", "step",
           "mirror", "limits", "cleanup", "write", "leave", "over"}
Reasons == {"keyboard_quit", "terminated", "truncated", "max_control_steps", "max_sim_time"}
Anchor == [step : Nat, picture : Nat \cup {None}, reset : BOOLEAN]
Artifacts == [reason : Reasons, steps : Nat, anchors : Seq(Anchor)]

ASSUME ArtifactAssumption == None \notin Artifacts

TypeOK ==
    /\ BackendType
    /\ phase \in Phases
    /\ preview \in BOOLEAN /\ live \in BOOLEAN /\ requested \in Requested /\ simLimit \in Requested
    /\ active \in Commands /\ asked \in Commands
    /\ left \in 0..Hold /\ quiet \in 0..Hold
    /\ scale \in 1..MaxScale
    /\ pushed \in Nat \cup {None}
    /\ anchors \in Seq(Anchor)
    /\ reset \in BOOLEAN /\ ended \in {"no", "terminated", "truncated"}
    /\ reason \in Reasons
    /\ tty \in {"cooked", "cbreak"} /\ saved \in {"cooked", "cbreak", None}
    /\ keys \in Nat
    /\ failed \subseteq {"zero", "write"}
    /\ artifact \in Artifacts \cup {None}

Init ==
    /\ BackendInit
    /\ phase = "closed"
    /\ preview \in BOOLEAN /\ live \in BOOLEAN /\ requested \in Requested
    /\ simLimit \in Requested
    /\ active = Zero /\ left = 0 /\ scale = 1
    /\ pushed = None /\ anchors = <<>> /\ reset = FALSE /\ ended = "no"
    /\ reason = "keyboard_quit"
    /\ tty = "cooked" /\ saved = None
    /\ artifact = None /\ keys = 0
    /\ asked = Zero /\ quiet = Hold /\ failed = {}

-----------------------------------------------------------------------------
Goto(p) == phase' = p
Minus(a, b) == IF a > b THEN a - b ELSE 0
AtMost(a, b) == IF a < b THEN a ELSE b

\* The thread was blocked for some time: the clock ran towards the deadline.
Elapse ==
    \E d \in 0..MaxBlock :
        /\ left' = Minus(left, d)
        /\ quiet' = AtMost(quiet + d, Hold)

SameTime == UNCHANGED <<left, quiet>>

\* _teleop: physics first, then the renderer; a monitor without a preview is
\* refused. Each of them may fail.
Build ==
    /\ phase = "closed"
    /\ \/ StartBackend /\ Goto(IF live /\ ~preview THEN "leave" ELSE "built")
       \/ StartBackend /\ Goto("leave")
       \/ StartRefused /\ Goto("leave")
    /\ UNCHANGED <<sessionVars, driveVars, pushed, reset, ended, reason, ttyVars, recordVars>>

\* TerminalKeyboard.__enter__; refused without a terminal.
OpenKeyboard ==
    /\ phase = "built"
    /\ \/ saved' = tty /\ tty' = "cbreak" /\ Goto("open")
       \/ UNCHANGED ttyVars /\ Goto("leave")
    /\ UNCHANGED <<backendVars, sessionVars, driveVars, pushed, reset, ended, reason,
                   recordVars>>

\* run: the reset of the physics with its warm-up.
ResetPhysics ==
    /\ phase = "open"
    /\ BeginReset
    /\ Goto("warmup")
    /\ UNCHANGED <<sessionVars, driveVars, pushed, reset, ended, reason, ttyVars, recordVars>>

WarmUp ==
    /\ phase = "warmup"
    /\ \/ WarmupStep /\ UNCHANGED phase
       \/ EndWarmup /\ Goto("first")
       \/ EndWarmup /\ Goto("leave")      \* a step of the simulator raised
    /\ UNCHANGED <<sessionVars, driveVars, pushed, reset, ended, reason, ttyVars, recordVars>>

\* push_state: skipped without a renderer and when the step was pushed before.
PushState == pushed' = IF preview THEN stepId ELSE pushed

\* The frames the renderer may answer a capture with.
Frames == 0..stepId

\* capture refuses a frame of another step.
FrameAccepted(frame) == frame = stepId

FirstView ==
    /\ phase = "first"
    /\ PushState
    /\ IF live
       THEN \E frame \in Frames : Goto(IF FrameAccepted(frame) THEN "keys" ELSE "leave")
       ELSE Goto("keys")
    /\ Elapse
    /\ UNCHANGED <<backendVars, sessionVars, active, scale, asked, keys, reset, ended,
                   reason, ttyVars, recordVars>>

-----------------------------------------------------------------------------
\* The keys of a poll, one after another.
KeyPressed ==
    /\ phase = "keys" /\ keys < MaxKeys
    /\ keys' = keys + 1
    /\ UNCHANGED <<backendVars, sessionVars, reset, ended>>

\* X, Esc: the rest of the poll is dropped.
QuitKey ==
    /\ KeyPressed
    /\ active' = Zero /\ left' = 0 /\ quiet' = Hold
    /\ reason' = "keyboard_quit"
    /\ Goto("cleanup")
    /\ UNCHANGED <<scale, asked, pushed, ttyVars, recordVars>>

BrakeKey ==
    /\ KeyPressed
    /\ active' = Zero /\ left' = 0 /\ quiet' = Hold
    /\ UNCHANGED <<phase, scale, asked, pushed, reason, ttyVars, recordVars>>

Faster == AtMost(MaxScale, scale + 1)
Slower == IF scale > 1 THEN scale - 1 ELSE 1

SpeedKey ==
    /\ KeyPressed
    /\ scale' \in {Faster, Slower}
    /\ UNCHANGED <<phase, active, left, quiet, asked, pushed, reason, ttyVars, recordVars>>

\* _motion_for_key: the direction of the key at the scale of the moment.
MotionKey ==
    /\ KeyPressed
    /\ \E d \in Directions :
          LET motion == [dir |-> d, scale |-> scale] IN
          /\ active' = motion
          /\ asked' = motion
    /\ left' = Hold /\ quiet' = 0
    /\ UNCHANGED <<phase, scale, pushed, reason, ttyVars, recordVars>>

\* _save_anchor: the pose at hand and the step its picture is of.
AnchorOf(picture) == [step |-> stepId, picture |-> picture, reset |-> reset]

\* M: the terminal is set back for the prompt, which blocks the thread.
MarkKey ==
    /\ KeyPressed
    /\ tty' = saved /\ saved' = None
    /\ Goto("label")
    /\ UNCHANGED <<active, left, quiet, scale, asked, pushed, reason, recordVars>>

BackWithoutRestore == saved' = "cbreak" /\ tty' = "cbreak"

\* The finally block of read_label: the mode to restore is read before cbreak
\* is set again.
BackToKeys == saved' = tty /\ tty' = "cbreak"

\* A blank label cancels. A label takes a picture, which may fail, and saves an
\* anchor; without a preview it has no picture.
LabelGiven ==
    /\ phase = "label"
    /\ BackToKeys
    /\ \/ Goto("keys") /\ UNCHANGED <<pushed, anchors>>
       \/ /\ ~preview
          /\ anchors' = Append(anchors, AnchorOf(None))
          /\ Goto("keys") /\ UNCHANGED pushed
       \/ /\ preview
          /\ PushState
          /\ \E frame \in Frames :
                IF FrameAccepted(frame)
                THEN anchors' = Append(anchors, AnchorOf(frame)) /\ Goto("keys")
                ELSE Goto("cleanup") /\ UNCHANGED anchors
    /\ Elapse
    /\ UNCHANGED <<backendVars, sessionVars, active, scale, asked, keys, reset, ended,
                   reason, artifact, failed>>

\* The end of a poll.
EndOfKeys ==
    /\ phase = "keys"
    /\ stepId < MaxSteps
    /\ Goto("command")
    /\ Elapse
    /\ UNCHANGED <<backendVars, sessionVars, active, scale, asked, keys, pushed, reset,
                   ended, reason, ttyVars, recordVars>>

-----------------------------------------------------------------------------
NoWatchdog == active

\* The watchdog, on the clock as it is after the keys.
Watchdog == IF left = 0 THEN Zero ELSE active

Command ==
    /\ phase = "command"
    /\ active' = Watchdog
    /\ SetVelocityCommand(Watchdog)
    /\ Goto("step")
    /\ UNCHANGED <<env, queued, stepId, sessionVars, left, quiet, scale, asked, keys,
                   pushed, reset, ended, reason, ttyVars, recordVars>>

\* physics.step(): a world may fall or run out of time; the wrapper's flag and
\* the two buffers are what the backend reports from.
Step ==
    /\ phase = "step"
    /\ \E fell, timedOut, exposed \in BOOLEAN :
          LET done == fell \/ timedOut IN
          /\ AdvanceWorld(done)
          /\ reset' = done
          /\ ended' = IF Terminated(done, exposed, fell, timedOut) THEN "terminated"
                      ELSE IF Truncated(exposed, timedOut) THEN "truncated" ELSE "no"
    /\ Goto("mirror")
    /\ Elapse
    /\ UNCHANGED <<sessionVars, active, scale, asked, keys, pushed, reason, ttyVars,
                   recordVars>>

CaptureDue == live /\ stepId % CaptureTicks = 0
PushDue == stepId % StreamTicks = 0 \/ CaptureDue

\* The pose is mirrored every stream_ticks; the monitor's picture is taken
\* every capture_ticks, and its push may be the first of the step.
Mirror ==
    /\ phase = "mirror"
    /\ IF PushDue THEN PushState ELSE UNCHANGED pushed
    /\ IF CaptureDue
       THEN \E frame \in Frames : Goto(IF FrameAccepted(frame) THEN "limits" ELSE "cleanup")
       ELSE Goto("limits")
    /\ Elapse
    /\ UNCHANGED <<backendVars, sessionVars, active, scale, asked, keys, reset, ended,
                   reason, ttyVars, recordVars>>

Reached(limit) == limit # 0 /\ stepId >= limit

Ending ==
    IF ended # "no" THEN ended
    ELSE IF Reached(requested) THEN "max_control_steps"
    ELSE IF Reached(simLimit) THEN "max_sim_time"
    ELSE "no"

\* The three ways out of the loop, and the sleep until the next tick.
Limits ==
    /\ phase = "limits"
    /\ IF Ending = "no"
       THEN Goto("keys") /\ UNCHANGED reason /\ Elapse
       ELSE Goto("cleanup") /\ reason' = Ending /\ SameTime
    /\ UNCHANGED <<backendVars, sessionVars, active, scale, asked, keys, pushed, reset,
                   ended, ttyVars, recordVars>>

-----------------------------------------------------------------------------
\* An exception of the simulator or of the renderer, or Ctrl-C: out of the
\* loop into the finally block, before it out of run().
Raise ==
    /\ \/ phase \in {"keys", "command", "step", "mirror", "limits"} /\ Goto("cleanup")
             /\ UNCHANGED ttyVars
       \/ phase = "label" /\ BackToKeys /\ Goto("cleanup")
       \/ phase \in {"open", "first"} /\ Goto("leave") /\ UNCHANGED ttyVars
    /\ UNCHANGED <<backendVars, sessionVars, driveVars, pushed, reset, ended, reason,
                   recordVars>>

\* The zero command of the finally block. The call may raise after it set the
\* latch, or be interrupted before it.
Zeroing ==
    /\ phase = "cleanup"
    /\ \/ SetVelocityCommand(Zero) /\ UNCHANGED failed
       \/ latch' = Zero /\ UNCHANGED <<twist, shown>> /\ failed' = failed \cup {"zero"}
       \/ UNCHANGED <<latch, twist, shown>> /\ failed' = failed \cup {"zero"}
    /\ Goto("write")
    /\ UNCHANGED <<env, queued, stepId, sessionVars, driveVars, pushed, reset, ended, reason,
                   ttyVars, anchors, artifact>>

\* _write_artifacts, in a finally block of its own; the disk may refuse it.
WriteArtifacts ==
    /\ phase = "write"
    /\ \/ /\ artifact' = [reason |-> reason, steps |-> stepId, anchors |-> anchors]
          /\ UNCHANGED failed
       \/ failed' = failed \cup {"write"} /\ UNCHANGED artifact
    /\ Goto("leave")
    /\ UNCHANGED <<backendVars, sessionVars, driveVars, pushed, reset, ended, reason, ttyVars,
                   anchors>>

\* TerminalKeyboard.__exit__, then the finally block of _teleop.
Leave ==
    /\ phase = "leave"
    /\ tty' = (IF saved = None THEN tty ELSE saved) /\ saved' = None
    /\ CloseBackend
    /\ Goto("over")
    /\ UNCHANGED <<sessionVars, driveVars, pushed, reset, ended, reason, recordVars>>

\* The process has ended.
Over == phase = "over" /\ UNCHANGED vars

Next ==
    \/ Build \/ OpenKeyboard \/ ResetPhysics \/ WarmUp \/ FirstView
    \/ QuitKey \/ BrakeKey \/ SpeedKey \/ MotionKey \/ MarkKey \/ LabelGiven \/ EndOfKeys
    \/ Command \/ Step \/ Mirror \/ Limits
    \/ Raise \/ Zeroing \/ WriteArtifacts \/ Leave \/ Over

Spec == Init /\ [][Next]_vars

-----------------------------------------------------------------------------
\* A moving command is only ever given while the last motion key is younger
\* than the hold time, counted over prompts, captures and sleeps, and it is
\* that key's velocity: nothing moves after a brake or on an old pulse.
DrivenByKey ==
    [][phase' = "step" /\ latch' # Zero => quiet < Hold /\ latch' = asked]_vars

\* Every public step is taken by the policy on an observation that shows the
\* command in force, in a world that was not reset behind the caller's back.
StepsAreOfThisSession ==
    [][stepId' = stepId + 1 => shown = latch /\ ~reset]_vars

\* An anchor's picture is of the step whose pose it records, and that pose is
\* one the robot walked to, not the start of a world reset by itself.
AnchorsAreTrue ==
    \A i \in DOMAIN anchors :
        anchors[i].picture \in {None, anchors[i].step} /\ ~anchors[i].reset

\* However a session that moved ends, the robot is told to stand, what was
\* collected is written down unless the disk refuses, and the terminal is as
\* it was found.
EndsSafely ==
    phase = "over" =>
        /\ tty = "cooked"
        /\ stepId > 0 => /\ "zero" \notin failed => latch = Zero /\ twist = Zero
                         /\ "write" \notin failed =>
                               artifact # None /\ artifact.steps = stepId
                                               /\ artifact.anchors = anchors
=============================================================================
