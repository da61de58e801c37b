-------------------------- MODULE NavigationRunner --------------------------
(***************************************************************************)
(* The simulator mission loop (NavigationRunner.run): it steps the physics *)
(* tick by tick, records a frame every CaptureTicks, asks NaVILA what to   *)
(* do, and drives each answer for its number of ticks.  With --decouple-   *)
(* vlm the next answer is computed on a thread of its own while the        *)
(* physics goes on under a zero command.                                   *)
(*                                                                         *)
(* A frame is the number of the step it shows; an instruction is the       *)
(* waypoint it names and whether it carries the rejected-stop note; an     *)
(* answer is "stop", text that no parser accepts, or its number of ticks.  *)
(***************************************************************************)
EXTENDS Integers, Sequences

CONSTANTS
    NumWaypoints,   \* len(waypoint_instructions); 0: not staged
    MaxDecisions,   \* 0: unlimited
    MaxSteps,       \* max_control_steps; 0: unlimited
    CaptureTicks, MonitorTicks,   \* 0 monitor ticks: no monitor
    WarmupFrames,   \* history_warmup_frames
    ChunkTicks,     \* the durations an action may have
    NoAnswer        \* ready_output is None

ASSUME RunnerAssumption ==
    /\ NumWaypoints \in Nat /\ MaxDecisions \in Nat /\ MaxSteps \in Nat
    /\ CaptureTicks \in Nat \ {0} /\ MonitorTicks \in Nat
    /\ WarmupFrames \in Nat
    /\ ChunkTicks \subseteq Nat \ {0}

Answer == [kind : {"stop", "garbage"}] \cup [kind : {"drive"}, ticks : ChunkTicks]

ASSUME AnswerAssumption == NoAnswer \notin Answer

VARIABLES
    decouple,               \* --decouple-vlm
    pc,
    step,                   \* state.step_id, and control_steps
    frames, lastFrame,      \* frame_history and last_frame
    decisions,
    answer, left, executed, \* the command, and its ticks
    latched,                \* the backend's velocity command is not zero
    waypoint, completed, motionChunks, rejected,
    instr,                  \* current_instruction
    ready, vlm,             \* ready_output, and the inference thread
    physicsDone, reason

\* History, read by the properties only.
VARIABLES began,     \* the step at which the present waypoint began
          driven,    \* ticks driven for the present waypoint
          deadline   \* the last step of the last commanded chunk

physicsVars  == <<step, frames, lastFrame>>
waypointVars == <<waypoint, completed, motionChunks, rejected, began>>
chunkVars    == <<left, executed, driven, deadline>>
vars == <<decouple, pc, physicsVars, decisions, answer, chunkVars, latched,
          waypointVars, instr, ready, vlm, physicsDone, reason>>

Instruction == [waypoint : Nat, rejected : BOOLEAN]

\* Every variable has its type.
TypeOK ==
    /\ decouple \in BOOLEAN
    /\ pc \in {"warm", "loop", "ask", "act", "chunk", "report", "wait",
               "shutdown", "limit", "done"}
    /\ step \in Nat /\ lastFrame \in 0..step
    /\ frames \in Seq(0..step) /\ Len(frames) > 0
    /\ decisions \in Nat /\ (MaxDecisions # 0 => decisions <= MaxDecisions)
    /\ answer \in Answer \cup {NoAnswer}
    /\ left \in Nat /\ executed \in Nat
    /\ latched \in BOOLEAN
    /\ waypoint \in Nat /\ (NumWaypoints # 0 => waypoint < NumWaypoints)
    /\ completed \in 0..NumWaypoints
    /\ motionChunks \in Nat /\ rejected \in BOOLEAN
    /\ instr \in Instruction
    /\ ready \in Answer \cup {NoAnswer}
    /\ vlm \in {"idle", "busy", "answered", "failed"}
    /\ physicsDone \in BOOLEAN
    /\ reason \in {"max_decisions", "max_control_steps", "terminated", "stop",
                   "error"}
    /\ began \in Nat /\ driven \in Nat /\ deadline \in Nat

\* Mutant of ActiveInstruction: the note on the rejected stop is forgotten.
PlainInstruction(w, r) == [waypoint |-> w, rejected |-> FALSE]

ActiveInstruction(w, r) == [waypoint |-> w, rejected |-> r]

\* After the reset and its first frame.
Init ==
    /\ decouple \in BOOLEAN
    /\ pc = "warm"
    /\ step = 0 /\ frames = <<0>> /\ lastFrame = 0
    /\ decisions = 0 /\ answer = NoAnswer /\ left = 0 /\ executed = 0
    /\ latched = FALSE
    /\ waypoint = 0 /\ completed = 0 /\ motionChunks = 0 /\ rejected = FALSE
    /\ instr = ActiveInstruction(waypoint, rejected)
    /\ ready = NoAnswer /\ vlm = "idle"
    /\ physicsDone = FALSE /\ reason = "max_decisions"
    /\ began = 0 /\ driven = 0 /\ deadline = 0

-----------------------------------------------------------------------------
(* advance_one_tick                                                        *)

AtLimit == MaxSteps # 0 /\ step >= MaxSteps

CaptureDue(s) == s % CaptureTicks = 0

MonitorDue(s) == MonitorTicks # 0 /\ s % MonitorTicks = 0

\* The physics goes on; the monitor's own frames are not recorded.
TickGoesOn ==
    /\ step' = step + 1
    /\ frames' = IF CaptureDue(step') THEN Append(frames, step') ELSE frames
    /\ lastFrame' = IF CaptureDue(step') \/ MonitorDue(step') THEN step'
                    ELSE lastFrame
    /\ UNCHANGED <<reason, physicsDone>>

\* The physics ends the episode and has reset itself: nothing is measured.
TickEnds ==
    /\ step' = step + 1
    /\ reason' = "terminated" /\ physicsDone' = TRUE
    /\ UNCHANGED <<frames, lastFrame>>

TickRefused ==
    /\ reason' = "max_control_steps" /\ physicsDone' = TRUE
    /\ UNCHANGED <<physicsVars>>

\* An exception from any call leaves run() without a result.
Fail == pc' = "done" /\ reason' = "error"

\* warm_frame_history: stationary frames, or no mission.
WarmFrameHistory ==
    /\ pc = "warm"
    /\ latched' = (latched /\ WarmupFrames = 0)
    /\ \/ /\ Len(frames) >= WarmupFrames
          /\ pc' = "loop"
          /\ UNCHANGED <<physicsVars, reason, physicsDone>>
       \/ /\ Len(frames) < WarmupFrames /\ ~AtLimit
          /\ TickGoesOn /\ UNCHANGED pc
       \/ /\ Len(frames) < WarmupFrames
          /\ Fail
          /\ UNCHANGED <<physicsVars, physicsDone>>
    /\ UNCHANGED <<decouple, decisions, answer, chunkVars, waypointVars, instr,
                   ready, vlm>>

-----------------------------------------------------------------------------
(* One decision.                                                           *)

DecisionsSpent == MaxDecisions # 0 /\ decisions >= MaxDecisions

\* The loop's head: no decision left, an answer at hand, or a request.
NextDecision ==
    /\ pc = "loop"
    /\ IF DecisionsSpent
       THEN /\ pc' = "done"
            /\ UNCHANGED <<instr, ready, vlm, answer>>
       ELSE IF ready # NoAnswer
       THEN /\ answer' = ready /\ ready' = NoAnswer /\ pc' = "act"
            /\ UNCHANGED <<instr, vlm>>
       ELSE /\ instr' = IF decisions > 0 THEN ActiveInstruction(waypoint, rejected)
                        ELSE instr
            /\ vlm' = "busy" /\ pc' = "ask"
            /\ UNCHANGED <<answer, ready>>
    /\ UNCHANGED <<decouple, physicsVars, decisions, chunkVars, latched,
                   waypointVars, physicsDone, reason>>

\* infer() returns, or raises.
Infer ==
    /\ pc = "ask"
    /\ \/ answer' \in Answer /\ pc' = "act" /\ UNCHANGED reason
       \/ Fail /\ UNCHANGED answer
    /\ vlm' = "idle"
    /\ UNCHANGED <<decouple, physicsVars, decisions, chunkVars, latched,
                   waypointVars, instr, ready, physicsDone>>

\* Mutant of Counted: an answer that is rejected costs nothing.
CountedIfDriven == decisions' = decisions + (IF answer.kind = "stop" THEN 0 ELSE 1)

\* Every answer is counted before it is read.
Counted == decisions' = decisions + 1

\* No parser accepts the text, or the recorder fails.
AnswerFails ==
    /\ pc = "act"
    /\ Counted /\ Fail
    /\ UNCHANGED <<decouple, physicsVars, answer, chunkVars, latched,
                   waypointVars, instr, ready, vlm, physicsDone>>

\* Mutant of StopIsPremature: a stop is taken at its word.
StopIsTrusted == FALSE

StopIsPremature == NumWaypoints # 0 /\ motionChunks = 0

RejectStop ==
    /\ pc = "act" /\ answer.kind = "stop" /\ StopIsPremature
    /\ Counted
    /\ rejected' = TRUE
    /\ instr' = ActiveInstruction(waypoint, rejected')
    /\ pc' = "loop"
    /\ UNCHANGED <<decouple, physicsVars, answer, chunkVars, latched, waypoint,
                   completed, motionChunks, began, ready, vlm, physicsDone,
                   reason>>

\* Mutant of FirstFrames: the next waypoint inherits the whole history.
AllFrames == frames

FirstFrames == <<lastFrame>>

\* An intermediate waypoint is confirmed: a zero command, and a history that
\* starts afresh from the last frame.
CompleteWaypoint ==
    /\ pc = "act" /\ answer.kind = "stop" /\ ~StopIsPremature
    /\ NumWaypoints # 0 /\ waypoint + 1 < NumWaypoints
    /\ Counted
    /\ waypoint' = waypoint + 1 /\ completed' = waypoint + 1
    /\ motionChunks' = 0 /\ rejected' = FALSE
    /\ latched' = FALSE
    /\ frames' = FirstFrames
    /\ instr' = ActiveInstruction(waypoint', rejected')
    /\ began' = step /\ driven' = 0
    /\ pc' = "warm"
    /\ UNCHANGED <<decouple, step, lastFrame, answer, left, executed, deadline,
                   ready, vlm, physicsDone, reason>>

AcceptStop ==
    /\ pc = "act" /\ answer.kind = "stop" /\ ~StopIsPremature
    /\ NumWaypoints = 0 \/ waypoint + 1 >= NumWaypoints
    /\ Counted
    /\ completed' = NumWaypoints
    /\ reason' = "stop" /\ pc' = "done"
    /\ UNCHANGED <<decouple, physicsVars, answer, chunkVars, latched, waypoint,
                   motionChunks, rejected, began, instr, ready, vlm, physicsDone>>

\* The command is latched in the backend for its number of ticks.
StartChunk ==
    /\ pc = "act" /\ answer.kind = "drive"
    /\ Counted
    /\ latched' = TRUE
    /\ left' = answer.ticks /\ executed' = 0
    /\ deadline' = step + answer.ticks
    /\ pc' = "chunk"
    /\ UNCHANGED <<decouple, physicsVars, answer, driven, waypointVars, instr,
                   ready, vlm, physicsDone, reason>>

TicksLeft == left > 0

ChunkTick ==
    /\ pc = "chunk" /\ TicksLeft /\ ~physicsDone
    /\ \/ /\ ~AtLimit /\ (TickGoesOn \/ TickEnds)
          /\ left' = left - 1 /\ executed' = executed + 1
          /\ driven' = driven + 1
          /\ UNCHANGED pc
       \/ /\ AtLimit /\ TickRefused
          /\ UNCHANGED <<pc, left, executed, driven>>
       \/ /\ ~AtLimit /\ Fail
          /\ UNCHANGED <<physicsVars, left, executed, driven, physicsDone>>
    /\ UNCHANGED <<decouple, decisions, answer, deadline, latched, waypointVars,
                   instr, ready, vlm>>

MotionExecuted == executed > 0

\* Mutant of Watchdog: the last command stays in the backend.
KeepCommand == latched

Watchdog == FALSE

\* The chunk is reported; a decoupled runner asks for the next answer under a
\* zero command.
EndOfChunk ==
    /\ pc = "chunk" /\ (~TicksLeft \/ physicsDone)
    /\ IF MotionExecuted /\ NumWaypoints # 0
       THEN motionChunks' = motionChunks + 1 /\ rejected' = FALSE
       ELSE UNCHANGED <<motionChunks, rejected>>
    /\ IF ~physicsDone /\ decouple /\ ~DecisionsSpent
       THEN /\ instr' = ActiveInstruction(waypoint, rejected')
            /\ vlm' = "busy" /\ latched' = Watchdog
            /\ pc' = "wait"
       ELSE /\ pc' = "limit"
            /\ UNCHANGED <<instr, vlm, latched>>
    /\ UNCHANGED <<decouple, physicsVars, decisions, answer, chunkVars, waypoint,
                   completed, began, ready, physicsDone, reason>>

\* The inference thread.
VLMAnswers ==
    /\ vlm = "busy" /\ pc \in {"wait", "shutdown"}
    /\ \/ vlm' = "answered" /\ answer' \in Answer
       \/ vlm' = "failed" /\ UNCHANGED answer
    /\ UNCHANGED <<decouple, pc, physicsVars, decisions, chunkVars, latched,
                   waypointVars, instr, ready, physicsDone, reason>>

\* Physics goes on while the answer is pending.
WaitingTick ==
    /\ pc = "wait" /\ vlm = "busy" /\ ~physicsDone
    /\ \/ ~AtLimit /\ TickGoesOn /\ UNCHANGED pc
       \/ ~AtLimit /\ TickEnds /\ pc' = "shutdown"
       \/ AtLimit /\ TickRefused /\ pc' = "shutdown"
       \/ /\ ~AtLimit /\ pc' = "shutdown" /\ reason' = "error"
          /\ UNCHANGED <<physicsVars, physicsDone>>
    /\ UNCHANGED <<decouple, decisions, answer, chunkVars, latched, waypointVars,
                   instr, ready, vlm>>

\* The answer came in time and is kept for the next decision; a failed
\* inference raises.
TakeAnswer ==
    /\ pc = "wait" /\ vlm \in {"answered", "failed"}
    /\ vlm' = "idle"
    /\ \/ /\ vlm = "answered" /\ ready' = answer /\ pc' = "limit"
          /\ UNCHANGED reason
       \/ vlm = "failed" /\ Fail /\ UNCHANGED ready
    /\ UNCHANGED <<decouple, physicsVars, decisions, answer, chunkVars, latched,
                   waypointVars, instr, physicsDone>>

\* The pool is shut down only after its call has returned; the answer is
\* dropped.
Shutdown ==
    /\ pc = "shutdown" /\ vlm # "busy"
    /\ vlm' = "idle"
    /\ pc' = IF reason = "error" THEN "done" ELSE "limit"
    /\ UNCHANGED <<decouple, physicsVars, decisions, answer, chunkVars, latched,
                   waypointVars, instr, ready, physicsDone, reason>>

LimitReached == ~physicsDone /\ AtLimit

CheckLimit ==
    /\ pc = "limit"
    /\ reason' = IF LimitReached THEN "max_control_steps" ELSE reason
    /\ pc' = IF physicsDone \/ AtLimit THEN "done" ELSE "loop"
    /\ UNCHANGED <<decouple, physicsVars, decisions, answer, chunkVars, latched,
                   waypointVars, instr, ready, vlm, physicsDone>>

-----------------------------------------------------------------------------

RunnerStep ==
    \/ WarmFrameHistory \/ NextDecision \/ Infer \/ AnswerFails
    \/ RejectStop \/ CompleteWaypoint \/ AcceptStop
    \/ StartChunk \/ ChunkTick \/ EndOfChunk
    \/ WaitingTick \/ TakeAnswer \/ Shutdown \/ CheckLimit

Next == RunnerStep \/ VLMAnswers

\* The session that runs the loop, and may be interrupted, says what is fair.
Spec == Init /\ [][Next]_vars

-----------------------------------------------------------------------------
(* Properties.                                                             *)

\* The frames NaVILA is shown are in order and of this waypoint: all but the
\* first were taken after the last one was confirmed (runner.py:480).
HistoryIsOfWaypoint ==
    /\ \A i, j \in DOMAIN frames : i < j => frames[i] < frames[j]
    /\ \A i \in DOMAIN frames : i > 1 => frames[i] > began

\* An answer is acted on only as the answer to the instruction in force, also
\* when it was computed while the physics went on.
InstructionIsCurrent ==
    pc = "act" => instr.waypoint = waypoint /\ instr.rejected = rejected

\* No tick is driven by a command whose time is over: while an answer is
\* pending or frames are collected the robot is under a zero command.
CommandExpires ==
    [][step' # step /\ latched' => step' <= deadline]_vars

\* The runner implements the staged mission: no waypoint is confirmed before
\* the robot has been driven in it, and none is skipped.
Mission == INSTANCE StagedMission
    WITH Stages <- NumWaypoints,
         stage  <- waypoint,
         moved  <- driven > 0,
         status <- IF pc # "done" THEN "running"
                   ELSE IF reason = "stop" THEN "complete" ELSE "ended"

ImplementsMission == Mission!Spec
=============================================================================
