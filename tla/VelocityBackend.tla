-------------------------- MODULE VelocityBackend --------------------------
(***************************************************************************)
(* The latched velocity command of backends/mjlab_go2.py (MjlabGo2Backend) *)
(* and the three places it has to agree in: the command the caller set     *)
(* (_velocity_command), the buffer of MJLab's command manager (twist) and  *)
(* the command shown in the observation that the policy acts on next.      *)
(* MJLab itself is external: a reset of the world, also the one it does by *)
(* itself when a world is done, samples a command of its own.              *)
(* The operators are steps of the caller's thread; KeyboardTeleop composes *)
(* them.                                                                   *)
(***************************************************************************)
EXTENDS Naturals

CONSTANTS
    Directions,   \* the directions a velocity command may have
    MaxScale,     \* the largest speed scale, in tenths in the code (30)
    WarmupSteps   \* warmup_steps, the zero-velocity steps after a reset

ASSUME BackendAssumption ==
    /\ MaxScale \in Nat \ {0}
    /\ WarmupSteps \in Nat

VARIABLES
    env,      \* "none", "running" or "closed": the simulator of the backend
    latch,    \* _velocity_command
    twist,    \* term.vel_command_b, what the simulator tracks
    shown,    \* the command in _obs, what the policy will act on
    queued,   \* requested_command of a warm-up in progress
    stepId    \* _step_id, the public navigation clock

backendVars == <<env, latch, twist, shown, queued, stepId>>

Zero == [dir |-> "none", scale |-> 0]
Commands == {Zero} \cup [dir : Directions, scale : 1..MaxScale]

BackendType ==
    /\ env \in {"none", "running", "closed"}
    /\ latch \in Commands /\ twist \in Commands /\ shown \in Commands
    /\ queued \in Commands
    /\ stepId \in Nat

BackendInit ==
    /\ env = "none" /\ stepId = 0
    /\ latch = Zero /\ twist = Zero /\ shown = Zero /\ queued = Zero

-----------------------------------------------------------------------------
\* _apply_velocity_command: the latch goes into the simulator's buffer, and
\* with refresh_observation into the observation too.
ApplyAndRefresh(c) == twist' = c /\ shown' = c

\* start: the first env.reset() samples a command, applying the latch
\* replaces it.
StartBackend ==
    /\ env = "none"
    /\ env' = "running" /\ stepId' = 0
    /\ ApplyAndRefresh(latch)
    /\ UNCHANGED <<latch, queued>>

\* start refuses a missing checkpoint or dependency, an action order or a
\* physics profile that is not the one the policy was trained for.
StartRefused == env = "none" /\ UNCHANGED backendVars

\* set_velocity_command
SetVelocityCommand(c) ==
    /\ latch' = c
    /\ ApplyAndRefresh(c)

\* The world after env.step: a world that is done was reset, with a command
\* that MJLab sampled in the buffer and in the observation.
World(done) ==
    IF done THEN \E c \in Commands : ApplyAndRefresh(c) ELSE ApplyAndRefresh(latch)

\* reset, and the first half of _run_zero_velocity_warmup: the queued command
\* is put aside and the robot told to stand.
BeginReset ==
    /\ env = "running"
    /\ queued' = latch /\ latch' = Zero
    /\ ApplyAndRefresh(Zero)
    /\ stepId' = 0
    /\ UNCHANGED env

\* One step of the warm-up. Whether the world was done is not looked at.
WarmupStep ==
    /\ \E done \in BOOLEAN : World(done)
    /\ UNCHANGED <<env, latch, queued, stepId>>

\* The finally block of the warm-up: the queued command is restored.
EndWarmup ==
    /\ latch' = queued
    /\ ApplyAndRefresh(queued)
    /\ stepId' = 0
    /\ UNCHANGED <<env, queued>>

\* The simulator's part of step(): the policy acts on the observation at hand,
\* after the latch was applied to the buffer alone.
AdvanceWorld(done) ==
    /\ World(done)
    /\ stepId' = stepId + 1
    /\ UNCHANGED <<env, latch, queued>>

TerminatedByBuffers(done, exposed, fell, timedOut) == exposed /\ fell

\* What step() reports of an environment step. done is the wrapper's flag;
\* exposed says whether MJLab exposes the two buffers it is made of.
Terminated(done, exposed, fell, timedOut) ==
    \/ exposed /\ fell
    \/ done /\ ~(exposed /\ (fell \/ timedOut))
Truncated(exposed, timedOut) == exposed /\ timedOut

\* close
CloseBackend == env' = "closed" /\ UNCHANGED <<latch, twist, shown, queued, stepId>>
=============================================================================
