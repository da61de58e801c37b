------------------------ MODULE NavigationRunnerProofs ------------------------
(***************************************************************************)
(* Proofs about NavigationRunner, for every number of waypoints, every     *)
(* limit on decisions and steps, every capture and monitor cadence and     *)
(* every set of chunk lengths, with the VLM decoupled or not; and about    *)
(* SimulatorRun, the session that runs it.                                 *)
(***************************************************************************)
EXTENDS SimulatorRun, TLAPS

PhysicsType ==
    /\ step \in Nat /\ lastFrame \in 0..step
    /\ frames \in Seq(0..step) /\ Len(frames) > 0
    /\ began \in Nat /\ began <= step

MissionType ==
    /\ decouple \in BOOLEAN
    /\ pc \in {"warm", "loop", "ask", "act", "chunk", "report", "wait",
               "shutdown", "limit", "done"}
    /\ latched \in BOOLEAN
    /\ vlm \in {"idle", "busy", "answered", "failed"}
    /\ physicsDone \in BOOLEAN
    /\ reason \in {"max_decisions", "max_control_steps", "terminated", "stop", "error"}
    /\ answer \in Answer \cup {NoAnswer} /\ ready \in Answer \cup {NoAnswer}
    /\ instr \in Instruction

WaypointType ==
    /\ decisions \in Nat /\ (MaxDecisions # 0 => decisions <= MaxDecisions)
    /\ left \in Nat /\ executed \in Nat
    /\ waypoint \in Nat /\ (NumWaypoints # 0 => waypoint < NumWaypoints)
    /\ completed \in 0..NumWaypoints
    /\ motionChunks \in Nat /\ rejected \in BOOLEAN
    /\ driven \in Nat /\ deadline \in Nat

\* An answer is only read while there are decisions left.
AnswerInv ==
    /\ pc \in {"ask", "act"} => ~DecisionsSpent
    /\ pc = "act" => answer \in Answer

\* The instruction in force is the one the pending answer belongs to; an answer
\* is at hand only between the end of a chunk and the next decision.
CurrentInv ==
    /\ pc \in {"ask", "act", "wait"} \/ ready # NoAnswer =>
           instr = [waypoint |-> waypoint, rejected |-> rejected]
    /\ pc \notin {"loop", "limit", "done"} => ready = NoAnswer
    /\ decisions = 0 => /\ waypoint = 0 /\ rejected = FALSE
                        /\ instr = [waypoint |-> 0, rejected |-> FALSE]

\* The ticks left of a chunk are those up to its deadline, and a wait is under
\* a zero command.
CommandInv ==
    /\ pc = "chunk" => deadline = step + left
    /\ pc = "wait" => latched = FALSE

\* Motion that is counted has been driven in this waypoint.
DrivenInv ==
    /\ motionChunks > 0 => driven > 0
    /\ pc = "chunk" /\ executed > 0 => driven > 0
    /\ pc # "done" => reason # "stop"

IInv == /\ PhysicsType /\ MissionType /\ WaypointType /\ HistoryIsOfWaypoint
        /\ AnswerInv /\ CurrentInv /\ CommandInv /\ DrivenInv

\* What an instruction is made of.
LEMMA InstructionType ==
  ASSUME NEW w \in Nat, NEW r \in BOOLEAN
  PROVE  ActiveInstruction(w, r) \in Instruction
  BY DEF ActiveInstruction, Instruction

\* The invariant includes that of the module.
LEMMA IInvTypeOK == IInv => TypeOK
  BY DEF IInv, PhysicsType, MissionType, WaypointType, TypeOK

-----------------------------------------------------------------------------
(* The physics.                                                            *)

\* A tick of the physics, captured or not, keeps the history in order.
LEMMA TickKeepsOrder ==
  ASSUME PhysicsType, HistoryIsOfWaypoint, began' = began,
         TickGoesOn \/ TickEnds \/ UNCHANGED <<step, frames, lastFrame>>
  PROVE  PhysicsType' /\ HistoryIsOfWaypoint'
  <1>1. /\ step \in Nat /\ lastFrame \in 0..step /\ began <= step
        /\ frames \in Seq(0..step) /\ Len(frames) \in Nat \ {0}
        /\ \A i \in 1..Len(frames) : frames[i] \in 0..step
        /\ DOMAIN frames = 1..Len(frames)
    BY DEF PhysicsType
  <1>2. CASE UNCHANGED <<step, frames, lastFrame>>
    BY <1>2 DEF PhysicsType, HistoryIsOfWaypoint
  <1>3. CASE step' = step + 1 /\ frames' = frames /\ lastFrame' \in {lastFrame, step'}
    <2>1. frames' \in Seq(0..step') /\ lastFrame' \in 0..step'
      BY <1>1, <1>3
    <2> QED BY <2>1, <1>1, <1>3 DEF PhysicsType, HistoryIsOfWaypoint
  <1>4. CASE step' = step + 1 /\ frames' = Append(frames, step') /\ lastFrame' = step'
    <2> DEFINE n == Len(frames)
               t == step + 1
    <2>1. /\ n \in Nat \ {0} /\ t \in Nat /\ step < t /\ began < t
          /\ frames \in Seq(0..t) /\ t \in 0..t
      <3>1. n \in Nat \ {0} /\ t \in Nat /\ step < t /\ began < t /\ t \in 0..t
        BY <1>1 DEF PhysicsType
      <3>2. 0..step \subseteq 0..t
        BY <1>1
      <3> QED BY <1>1, <3>1, <3>2
    <2>2. /\ frames' \in Seq(0..t) /\ Len(frames') = n + 1
          /\ frames'[n + 1] = t
          /\ \A i \in 1..n : frames'[i] = frames[i]
      BY <2>1, <1>4
    <2>3. \A i \in 1..n : frames[i] < t /\ frames[i] \in Nat
      BY <1>1
    <2> HIDE DEF n
    <2>4. DOMAIN frames' = 1..(n + 1)
      BY <2>1, <2>2
    <2>5. step' = t /\ lastFrame' = t /\ began' = began
      BY <1>4
    <2> HIDE DEF t
    <2>6. PhysicsType'
      BY <2>1, <2>2, <2>5 DEF PhysicsType
    <2>7. \A i, j \in DOMAIN frames' : i < j => frames'[i] < frames'[j]
      <3> SUFFICES ASSUME NEW i \in 1..(n + 1), NEW j \in 1..(n + 1), i < j
                   PROVE  frames'[i] < frames'[j]
        BY <2>4
      <3>1. CASE j = n + 1
        <4>1. i \in 1..n
          BY <3>1, <2>1
        <4> QED BY <4>1, <3>1, <2>2, <2>3
      <3>2. CASE j # n + 1
        <4>1. i \in 1..n /\ j \in 1..n
          BY <3>2, <2>1
        <4>2. frames[i] < frames[j]
          BY <4>1, <1>1 DEF HistoryIsOfWaypoint, n
        <4> QED BY <4>1, <4>2, <2>2
      <3> QED BY <3>1, <3>2
    <2>8. \A i \in DOMAIN frames' : i > 1 => frames'[i] > began'
      <3> SUFFICES ASSUME NEW i \in 1..(n + 1), i > 1 PROVE frames'[i] > began
        BY <2>4, <2>5
      <3>1. CASE i = n + 1
        BY <3>1, <2>1, <2>2
      <3>2. CASE i # n + 1
        <4>1. i \in 1..n
          BY <3>2, <2>1
        <4>2. frames[i] > began
          BY <4>1, <1>1 DEF HistoryIsOfWaypoint, n
        <4> QED BY <4>1, <4>2, <2>2
      <3> QED BY <3>1, <3>2
    <2> QED BY <2>6, <2>7, <2>8 DEF HistoryIsOfWaypoint
  <1> QED BY <1>2, <1>3, <1>4 DEF TickGoesOn, TickEnds

\* What a tick, refused or not, does to the rest of the state.
LEMMA TickType ==
  ASSUME MissionType, TickGoesOn \/ TickEnds \/ TickRefused, pc # "done" => reason # "stop"
  PROVE  /\ physicsDone' \in BOOLEAN
         /\ reason' \in {"max_decisions", "max_control_steps", "terminated", "stop", "error"}
         /\ pc # "done" => reason' # "stop"
  BY DEF MissionType, TickGoesOn, TickEnds, TickRefused

-----------------------------------------------------------------------------
(* The actions.                                                            *)

\* After the reset there is one frame, and nothing is commanded.
LEMMA InitIInv == Init => IInv
  <1> SUFFICES ASSUME Init PROVE IInv
    OBVIOUS
  <1>1. frames = <<0>> /\ step = 0 /\ lastFrame = 0 /\ began = 0
    BY DEF Init
  <1>2. PhysicsType /\ HistoryIsOfWaypoint
    <2>1. <<0>> \in Seq(0..0) /\ Len(<<0>>) = 1
      OBVIOUS
    <2> QED BY <1>1, <2>1 DEF PhysicsType, HistoryIsOfWaypoint
  <1>3. instr = [waypoint |-> 0, rejected |-> FALSE]
    BY DEF Init, ActiveInstruction
  <1>4. MissionType
    <2>1. instr \in Instruction
      BY <1>3 DEF Instruction
    <2> QED BY <2>1 DEF Init, MissionType
  <1>5. WaypointType
    <2>1. waypoint = 0 /\ completed = 0 /\ decisions = 0 /\ left = 0 /\ executed = 0
          /\ motionChunks = 0 /\ driven = 0 /\ deadline = 0
      BY DEF Init
    <2>2. rejected \in BOOLEAN
      BY DEF Init
    <2> QED BY <2>1, <2>2, RunnerAssumption DEF WaypointType
  <1>6. AnswerInv /\ CurrentInv /\ CommandInv /\ DrivenInv
    BY <1>3 DEF Init, AnswerInv, CurrentInv, CommandInv, DrivenInv
  <1> QED BY <1>2, <1>4, <1>5, <1>6 DEF IInv

\* Collecting the first frames of a waypoint.
LEMMA WarmUp == ASSUME IInv, WarmFrameHistory PROVE IInv'
  <1>1. /\ pc = "warm" /\ began' = began
        /\ UNCHANGED <<decouple, decisions, answer, chunkVars, waypointVars, instr, ready, vlm>>
        /\ latched' = (latched /\ WarmupFrames = 0)
    BY DEF WarmFrameHistory, waypointVars
  <1>2. \/ pc' = "loop" /\ UNCHANGED <<physicsVars, reason, physicsDone>>
        \/ pc' = "warm" /\ TickGoesOn
        \/ Fail /\ UNCHANGED <<physicsVars, physicsDone>>
    BY <1>1 DEF WarmFrameHistory
  <1>3. PhysicsType' /\ HistoryIsOfWaypoint'
    BY <1>1, <1>2, TickKeepsOrder DEF IInv, physicsVars
  <1>4. MissionType'
    BY <1>1, <1>2 DEF IInv, MissionType, Fail, TickGoesOn
  <1>5. WaypointType'
    BY <1>1 DEF IInv, WaypointType, chunkVars, waypointVars
  <1>6. AnswerInv' /\ CurrentInv' /\ CommandInv' /\ DrivenInv'
    BY <1>1, <1>2 DEF IInv, AnswerInv, CurrentInv, CommandInv, DrivenInv, chunkVars,
                      waypointVars, Fail, TickGoesOn
  <1> QED BY <1>3, <1>4, <1>5, <1>6 DEF IInv

\* Asking, and reading an answer that does not drive.
LEMMA Decides ==
  ASSUME IInv, NextDecision \/ Infer \/ AnswerFails \/ RejectStop \/ AcceptStop
  PROVE  IInv'
  <1> USE RunnerAssumption, AnswerAssumption
  <1>1. UNCHANGED <<decouple, physicsVars, chunkVars, latched, waypoint, motionChunks, began,
                    physicsDone>>
    BY DEF NextDecision, Infer, AnswerFails, RejectStop, AcceptStop, waypointVars
  <1>2. PhysicsType' /\ HistoryIsOfWaypoint'
    BY <1>1 DEF IInv, PhysicsType, HistoryIsOfWaypoint, physicsVars
  <1>3. MissionType' /\ WaypointType' /\ AnswerInv' /\ CurrentInv' /\ CommandInv' /\ DrivenInv'
    <2>1. CASE NextDecision
      <3>1. instr' \in {instr, [waypoint |-> waypoint, rejected |-> rejected]}
        BY <2>1 DEF NextDecision, ActiveInstruction
      <3>2. instr' \in Instruction
        BY <3>1 DEF IInv, MissionType, WaypointType, Instruction
      <3>3. MissionType'
        BY <3>2, <2>1, <1>1 DEF NextDecision, IInv, MissionType
      <3>4. WaypointType'
        BY <2>1, <1>1 DEF NextDecision, IInv, WaypointType, chunkVars, waypointVars
      <3>5. AnswerInv' /\ CommandInv' /\ DrivenInv'
        BY <2>1, <1>1 DEF NextDecision, IInv, MissionType, AnswerInv, CommandInv, DrivenInv,
                          chunkVars, waypointVars, DecisionsSpent
      <3>6. CurrentInv'
        <4>1. /\ pc = "loop" /\ UNCHANGED <<decisions, waypoint, rejected>>
              /\ decisions \in Nat
          BY <2>1 DEF NextDecision, IInv, WaypointType, waypointVars
        <4>2. CASE DecisionsSpent
          <5>1. pc' = "done" /\ UNCHANGED <<instr, ready>>
            BY <2>1, <4>2 DEF NextDecision
          <5> QED BY <4>1, <5>1 DEF IInv, CurrentInv
        <4>3. CASE ~DecisionsSpent /\ ready # NoAnswer
          <5>1. pc' = "act" /\ ready' = NoAnswer /\ UNCHANGED instr
            BY <2>1, <4>3 DEF NextDecision
          <5> QED BY <4>1, <4>3, <5>1 DEF IInv, CurrentInv
        <4>4. CASE ~DecisionsSpent /\ ready = NoAnswer
          <5>1. /\ pc' = "ask" /\ ready' = NoAnswer
                /\ instr' = IF decisions > 0 THEN ActiveInstruction(waypoint, rejected)
                            ELSE instr
            BY <2>1, <4>4 DEF NextDecision
          <5>2. instr' = [waypoint |-> waypoint, rejected |-> rejected]
            <6>1. CASE decisions = 0
              <7>1. waypoint = 0 /\ rejected = FALSE
                BY <6>1 DEF IInv, CurrentInv
              <7>2. instr' = [waypoint |-> 0, rejected |-> FALSE]
                BY <5>1, <6>1 DEF IInv, CurrentInv
              <7> QED BY <7>1, <7>2, Zenon
            <6>2. CASE decisions > 0
              BY <5>1, <6>2 DEF ActiveInstruction
            <6> QED BY <4>1, <6>1, <6>2
          <5>3. decisions = 0 => instr' = [waypoint |-> 0, rejected |-> FALSE]
            BY <5>1 DEF IInv, CurrentInv
          <5> QED BY <4>1, <5>1, <5>2, <5>3 DEF IInv, CurrentInv
        <4> QED BY <4>2, <4>3, <4>4
      <3> QED BY <3>3, <3>4, <3>5, <3>6
    <2>2. CASE Infer
      <3>1. MissionType' /\ WaypointType'
        BY <2>2, <1>1 DEF Infer, Fail, IInv, MissionType, WaypointType, chunkVars, waypointVars
      <3>2. AnswerInv' /\ CommandInv' /\ DrivenInv' /\ CurrentInv'
        BY <2>2, <1>1 DEF Infer, Fail, IInv, AnswerInv, CommandInv, DrivenInv, CurrentInv,
                          chunkVars, waypointVars, DecisionsSpent
      <3> QED BY <3>1, <3>2
    <2>3. CASE AnswerFails
      <3>1. decisions' \in Nat /\ (MaxDecisions # 0 => decisions' <= MaxDecisions)
            /\ decisions' # 0
        BY <2>3 DEF AnswerFails, Counted, IInv, AnswerInv, DecisionsSpent, WaypointType
      <3>2. MissionType' /\ WaypointType'
        BY <3>1, <2>3, <1>1 DEF AnswerFails, Fail, IInv, MissionType, WaypointType, chunkVars,
                                waypointVars
      <3>3. AnswerInv' /\ CommandInv' /\ DrivenInv' /\ CurrentInv'
        BY <3>1, <2>3, <1>1 DEF AnswerFails, Fail, IInv, AnswerInv, CommandInv, DrivenInv,
                                CurrentInv, chunkVars, waypointVars
      <3> QED BY <3>2, <3>3
    <2>4. CASE RejectStop
      <3>1. decisions' \in Nat /\ (MaxDecisions # 0 => decisions' <= MaxDecisions)
            /\ decisions' # 0
        BY <2>4 DEF RejectStop, Counted, IInv, AnswerInv, DecisionsSpent, WaypointType
      <3>2. instr' = [waypoint |-> waypoint, rejected |-> TRUE] /\ instr' \in Instruction
        BY <2>4 DEF RejectStop, ActiveInstruction, IInv, WaypointType, Instruction
      <3>3. MissionType' /\ WaypointType'
        BY <3>1, <3>2, <2>4, <1>1 DEF RejectStop, IInv, MissionType, WaypointType, chunkVars
      <3>4. AnswerInv' /\ CommandInv' /\ DrivenInv' /\ CurrentInv'
        BY <3>1, <3>2, <2>4, <1>1 DEF RejectStop, IInv, AnswerInv, CommandInv, DrivenInv,
                                      CurrentInv, chunkVars
      <3> QED BY <3>3, <3>4
    <2>5. CASE AcceptStop
      <3>1. decisions' \in Nat /\ (MaxDecisions # 0 => decisions' <= MaxDecisions)
            /\ decisions' # 0
        BY <2>5 DEF AcceptStop, Counted, IInv, AnswerInv, DecisionsSpent, WaypointType
      <3>2. MissionType' /\ WaypointType'
        BY <3>1, <2>5, <1>1 DEF AcceptStop, IInv, MissionType, WaypointType, chunkVars
      <3>3. AnswerInv' /\ CommandInv' /\ DrivenInv' /\ CurrentInv'
        BY <3>1, <2>5, <1>1 DEF AcceptStop, IInv, AnswerInv, CommandInv, DrivenInv, CurrentInv,
                                chunkVars
      <3> QED BY <3>2, <3>3
    <2> QED BY <2>1, <2>2, <2>3, <2>4, <2>5
  <1> QED BY <1>2, <1>3 DEF IInv

\* The next waypoint begins at this step, with the last frame alone.
LEMMA Confirms == ASSUME IInv, CompleteWaypoint PROVE IInv'
  <1> USE RunnerAssumption
  <1>1. /\ frames' = <<lastFrame>> /\ began' = step /\ step' = step /\ lastFrame' = lastFrame
        /\ pc' = "warm" /\ latched' = FALSE /\ driven' = 0 /\ motionChunks' = 0
        /\ waypoint' = waypoint + 1 /\ rejected' = FALSE
        /\ waypoint + 1 < NumWaypoints /\ completed' = waypoint + 1
        /\ UNCHANGED <<decouple, answer, left, executed, deadline, ready, vlm, physicsDone,
                       reason>>
        /\ pc = "act" /\ decisions' = decisions + 1
    BY DEF CompleteWaypoint, FirstFrames, Counted
  <1>2. PhysicsType' /\ HistoryIsOfWaypoint'
    <2>1. lastFrame \in 0..step /\ step \in Nat
      BY DEF IInv, PhysicsType
    <2>2. <<lastFrame>> \in Seq(0..step) /\ Len(<<lastFrame>>) = 1
      BY <2>1
    <2> QED BY <1>1, <2>1, <2>2 DEF PhysicsType, HistoryIsOfWaypoint
  <1>3. waypoint' \in Nat /\ rejected' \in BOOLEAN /\ instr' \in Instruction
    <2>1. waypoint' \in Nat
      BY <1>1 DEF IInv, WaypointType
    <2>2. rejected' \in BOOLEAN
      BY <1>1
    <2>3. instr' = ActiveInstruction(waypoint', rejected')
      BY DEF CompleteWaypoint
    <2> QED BY <2>1, <2>2, <2>3, InstructionType
  <1>4. MissionType'
    BY <1>1, <1>3 DEF IInv, MissionType
  <1>5. decisions' \in Nat /\ (MaxDecisions # 0 => decisions' <= MaxDecisions) /\ decisions' # 0
    BY <1>1 DEF IInv, AnswerInv, DecisionsSpent, WaypointType
  <1>6. WaypointType'
    <2>1. /\ driven' = 0 /\ motionChunks' = 0 /\ waypoint' < NumWaypoints
          /\ completed' = waypoint' /\ UNCHANGED <<left, executed, deadline>>
      BY <1>1
    <2> QED BY <2>1, <1>3, <1>5 DEF IInv, WaypointType
  <1>7. AnswerInv' /\ CurrentInv' /\ CommandInv' /\ DrivenInv'
    BY <1>1, <1>5 DEF IInv, AnswerInv, CurrentInv, CommandInv, DrivenInv
  <1> QED BY <1>2, <1>4, <1>6, <1>7 DEF IInv

\* A chunk begins, ...
LEMMA ChunkBegins == ASSUME IInv, StartChunk PROVE IInv'
  <1> USE RunnerAssumption
  <1>1. answer \in Answer /\ answer.kind = "drive"
    BY DEF IInv, AnswerInv, StartChunk
  <1>2. answer.ticks \in Nat
    BY <1>1 DEF Answer
  <1>3. decisions' \in Nat /\ (MaxDecisions # 0 => decisions' <= MaxDecisions) /\ decisions' # 0
    BY DEF IInv, AnswerInv, DecisionsSpent, WaypointType, StartChunk, Counted
  <1>4. PhysicsType' /\ HistoryIsOfWaypoint'
    BY DEF IInv, PhysicsType, HistoryIsOfWaypoint, StartChunk, physicsVars, waypointVars
  <1>5. MissionType' /\ WaypointType'
    BY <1>2, <1>3 DEF IInv, PhysicsType, MissionType, WaypointType, StartChunk, physicsVars,
                      waypointVars
  <1>6. AnswerInv' /\ CurrentInv' /\ CommandInv' /\ DrivenInv'
    BY <1>3 DEF IInv, AnswerInv, CurrentInv, CommandInv, DrivenInv, StartChunk, physicsVars,
                waypointVars
  <1> QED BY <1>4, <1>5, <1>6 DEF IInv

\* ... is driven tick by tick, ...
LEMMA ChunkIsDriven == ASSUME IInv, ChunkTick PROVE IInv'
  <1>1. /\ pc = "chunk" /\ left > 0
        /\ UNCHANGED <<decouple, decisions, answer, deadline, latched, waypointVars, instr,
                       ready, vlm>>
    BY DEF ChunkTick, TicksLeft
  <1>2. \/ /\ TickGoesOn \/ TickEnds
           /\ left' = left - 1 /\ executed' = executed + 1 /\ driven' = driven + 1
           /\ pc' = pc
        \/ TickRefused /\ UNCHANGED <<pc, left, executed, driven>>
        \/ Fail /\ UNCHANGED <<physicsVars, left, executed, driven, physicsDone>>
    BY DEF ChunkTick
  <1>3. PhysicsType' /\ HistoryIsOfWaypoint'
    BY <1>1, <1>2, TickKeepsOrder DEF IInv, TickRefused, physicsVars, waypointVars
  <1>4. MissionType'
    BY <1>1, <1>2, TickType DEF IInv, MissionType, DrivenInv, Fail
  <1>5. WaypointType'
    BY <1>1, <1>2 DEF IInv, WaypointType, waypointVars
  <1>6. CommandInv'
    BY <1>1, <1>2 DEF IInv, CommandInv, PhysicsType, WaypointType, TickGoesOn, TickEnds,
                      TickRefused, Fail, physicsVars
  <1>7. DrivenInv'
    BY <1>1, <1>2, TickType DEF IInv, DrivenInv, WaypointType, Fail, waypointVars
  <1>8. AnswerInv' /\ CurrentInv'
    BY <1>1, <1>2 DEF IInv, AnswerInv, CurrentInv, Fail, waypointVars
  <1> QED BY <1>3, <1>4, <1>5, <1>6, <1>7, <1>8 DEF IInv

\* ... and is over.
LEMMA ChunkEnds == ASSUME IInv, EndOfChunk PROVE IInv'
  <1>1. /\ pc = "chunk" /\ pc' \in {"wait", "limit"}
        /\ UNCHANGED <<decouple, physicsVars, decisions, answer, chunkVars, waypoint,
                       completed, began, ready, physicsDone, reason>>
    BY DEF EndOfChunk
  <1>2. \/ executed > 0 /\ motionChunks' = motionChunks + 1 /\ rejected' = FALSE
        \/ UNCHANGED <<motionChunks, rejected>>
    BY DEF EndOfChunk, MotionExecuted
  <1>3. \/ /\ instr' = [waypoint |-> waypoint, rejected |-> rejected']
           /\ vlm' = "busy" /\ latched' = FALSE /\ pc' = "wait"
        \/ pc' = "limit" /\ UNCHANGED <<instr, vlm, latched>>
    BY DEF EndOfChunk, ActiveInstruction, Watchdog
  <1>4. PhysicsType' /\ HistoryIsOfWaypoint'
    BY <1>1 DEF IInv, PhysicsType, HistoryIsOfWaypoint, physicsVars
  <1>5. WaypointType'
    <2>1. rejected' \in BOOLEAN
      BY <1>2 DEF IInv, WaypointType
    <2>2. motionChunks' \in {motionChunks, motionChunks + 1}
      BY <1>2
    <2> QED BY <1>1, <2>1, <2>2 DEF IInv, WaypointType, chunkVars
  <1>6. instr' \in Instruction
    <2>1. waypoint \in Nat /\ rejected' \in BOOLEAN
      BY <1>1, <1>5 DEF WaypointType, IInv
    <2>2. ActiveInstruction(waypoint, rejected') \in Instruction
      BY <2>1, InstructionType
    <2> QED BY <1>3, <2>2 DEF IInv, MissionType, ActiveInstruction
  <1>7. MissionType'
    BY <1>1, <1>3, <1>6 DEF IInv, MissionType
  <1>8. AnswerInv' /\ CommandInv' /\ DrivenInv'
    BY <1>1, <1>2, <1>3 DEF IInv, AnswerInv, CommandInv, DrivenInv, WaypointType, chunkVars
  <1>9. CurrentInv'
    BY <1>1, <1>2, <1>3 DEF IInv, CurrentInv
  <1> QED BY <1>4, <1>5, <1>7, <1>8, <1>9 DEF IInv

\* The wait for an answer, with the physics going on.
LEMMA Waits ==
  ASSUME IInv, VLMAnswers \/ WaitingTick \/ TakeAnswer \/ Shutdown
  PROVE  IInv'
  <1>1. /\ pc \in {"wait", "shutdown"}
        /\ UNCHANGED <<decouple, decisions, chunkVars, latched, waypointVars, instr>>
    BY DEF VLMAnswers, WaitingTick, TakeAnswer, Shutdown
  <1>2. WaypointType'
    BY <1>1 DEF IInv, WaypointType, chunkVars, waypointVars
  <1>3. CASE WaitingTick
    <2>1. /\ pc' \in {"wait", "shutdown"} /\ ready' = ready /\ answer' = answer /\ vlm' = vlm
          /\ \/ TickGoesOn \/ TickEnds \/ TickRefused
             \/ reason' = "error" /\ UNCHANGED <<physicsVars, physicsDone>>
          /\ pc = "wait"
      BY <1>3 DEF WaitingTick
    <2>2. PhysicsType' /\ HistoryIsOfWaypoint'
      BY <1>1, <2>1, TickKeepsOrder DEF IInv, TickRefused, physicsVars, waypointVars
    <2>3. MissionType' /\ DrivenInv'
      BY <1>1, <2>1, TickType DEF IInv, MissionType, DrivenInv, chunkVars, waypointVars
    <2>4. AnswerInv' /\ CurrentInv' /\ CommandInv'
      BY <1>1, <2>1 DEF IInv, AnswerInv, CurrentInv, CommandInv, chunkVars, waypointVars
    <2> QED BY <1>2, <2>2, <2>3, <2>4 DEF IInv
  <1>4. CASE VLMAnswers \/ TakeAnswer \/ Shutdown
    <2>1. UNCHANGED <<physicsVars, physicsDone>>
      BY <1>4 DEF VLMAnswers, TakeAnswer, Shutdown
    <2>2. PhysicsType' /\ HistoryIsOfWaypoint'
      BY <1>1, <2>1 DEF IInv, PhysicsType, HistoryIsOfWaypoint, physicsVars, waypointVars
    <2>3. MissionType' /\ DrivenInv'
      BY <1>1, <1>4, <2>1 DEF IInv, MissionType, DrivenInv, VLMAnswers, TakeAnswer, Shutdown,
                              Fail, chunkVars, waypointVars
    <2>4. AnswerInv' /\ CurrentInv' /\ CommandInv'
      BY <1>1, <1>4, <2>1 DEF IInv, AnswerInv, CurrentInv, CommandInv, VLMAnswers, TakeAnswer,
                              Shutdown, Fail, chunkVars, waypointVars
    <2> QED BY <1>2, <2>2, <2>3, <2>4 DEF IInv
  <1> QED BY <1>3, <1>4

\* The limits are looked at between two decisions.
LEMMA LimitIsChecked == ASSUME IInv, CheckLimit PROVE IInv'
  <1>1. PhysicsType' /\ HistoryIsOfWaypoint'
    BY DEF IInv, PhysicsType, HistoryIsOfWaypoint, CheckLimit, physicsVars, waypointVars
  <1>2. MissionType' /\ WaypointType'
    BY DEF IInv, MissionType, WaypointType, CheckLimit, chunkVars, waypointVars
  <1>3. AnswerInv' /\ CurrentInv' /\ CommandInv' /\ DrivenInv'
    BY DEF IInv, AnswerInv, CurrentInv, CommandInv, DrivenInv, CheckLimit, chunkVars,
           waypointVars
  <1> QED BY <1>1, <1>2, <1>3 DEF IInv

-----------------------------------------------------------------------------
(* The theorems.                                                           *)

\* The inductive invariant holds in every reachable state.
THEOREM RunnerInvariance == Spec => []IInv
  <1>1. IInv /\ [Next]_vars => IInv'
    <2> SUFFICES ASSUME IInv, [Next]_vars PROVE IInv'
      OBVIOUS
    <2>1. CASE UNCHANGED vars
      BY <2>1 DEF IInv, PhysicsType, MissionType, WaypointType, HistoryIsOfWaypoint, AnswerInv,
                  CurrentInv, CommandInv, DrivenInv, DecisionsSpent, vars, physicsVars,
                  chunkVars, waypointVars
    <2>2. CASE RunnerStep
      BY <2>2, WarmUp, Decides, Confirms, ChunkBegins, ChunkIsDriven, ChunkEnds, Waits,
         LimitIsChecked DEF RunnerStep
    <2>3. CASE VLMAnswers
      BY <2>3, Waits
    <2> QED BY <2>1, <2>2, <2>3 DEF Next
  <1> QED BY <1>1, InitIInv, PTL DEF Spec

\* Every variable keeps its type.
THEOREM RunnerTypeCorrect == Spec => []TypeOK
  BY RunnerInvariance, IInvTypeOK, PTL

\* For every capture and monitor cadence: the history NaVILA is shown is in
\* order, and all of it but the first frame is of the present waypoint.
THEOREM HistoryOfWaypoint == Spec => []HistoryIsOfWaypoint
  BY RunnerInvariance, PTL DEF IInv

\* Whether the VLM is decoupled or not, an answer is acted on only under the
\* instruction it was asked for.
THEOREM AnswersFit == Spec => []InstructionIsCurrent
  <1>1. IInv => InstructionIsCurrent
    BY DEF IInv, CurrentInv, InstructionIsCurrent
  <1> QED BY <1>1, RunnerInvariance, PTL

\* For every chunk length: no tick is driven after the chunk's last one.
THEOREM CommandsExpire == Spec => CommandExpires
  <1>1. IInv /\ [Next]_vars => (step' # step /\ latched' => step' <= deadline)
    <2> SUFFICES ASSUME IInv, Next, step' # step, latched' PROVE step' <= deadline
      BY DEF vars, physicsVars
    <2>1. WarmFrameHistory \/ ChunkTick \/ WaitingTick
      BY DEF Next, RunnerStep, NextDecision, Infer, AnswerFails, RejectStop, CompleteWaypoint,
             AcceptStop, StartChunk, EndOfChunk, TakeAnswer, Shutdown, CheckLimit, VLMAnswers,
             vars, physicsVars
    <2>2. ~WarmFrameHistory
      <3> SUFFICES ASSUME WarmFrameHistory PROVE FALSE
        OBVIOUS
      <3>1. WarmupFrames = 0
        BY DEF WarmFrameHistory, IInv, MissionType
      <3>2. Len(frames) < WarmupFrames
        BY DEF WarmFrameHistory, physicsVars
      <3> QED BY <3>1, <3>2 DEF IInv, PhysicsType
    <2>3. ~WaitingTick
      BY DEF WaitingTick, IInv, CommandInv
    <2>4. ChunkTick /\ step' = step + 1 /\ left > 0 /\ deadline = step + left
      BY <2>1, <2>2, <2>3 DEF ChunkTick, TicksLeft, TickGoesOn, TickEnds, TickRefused,
                              physicsVars, IInv, CommandInv
    <2> QED BY <2>4 DEF IInv, PhysicsType, WaypointType
  <1>2. IInv /\ [Next]_vars => [step' # step /\ latched' => step' <= deadline]_vars
    BY <1>1
  <1> QED BY <1>2, RunnerInvariance, PTL DEF Spec, CommandExpires

-----------------------------------------------------------------------------
(* The runner implements the staged mission.                               *)

\* Only a chunk's tick drives, and only a confirmation ends a waypoint.
LEMMA StepsOfMission ==
  ASSUME IInv, Next
  PROVE  \/ pc' # "done" /\ UNCHANGED <<waypoint, driven>>
         \/ pc # "done" /\ pc' = "done" /\ reason' # "stop" /\ UNCHANGED <<waypoint, driven>>
         \/ pc' # "done" /\ waypoint' = waypoint /\ driven' = driven + 1
         \/ CompleteWaypoint \/ AcceptStop
         \/ UNCHANGED vars
  <1>0. reason # "stop" \/ pc = "done"
    BY DEF IInv, DrivenInv
  <1>1. CASE WarmFrameHistory
    BY <1>1, <1>0 DEF WarmFrameHistory, Fail, chunkVars, waypointVars
  <1>2. CASE NextDecision \/ Infer \/ AnswerFails \/ RejectStop \/ StartChunk
    BY <1>2, <1>0 DEF NextDecision, Infer, AnswerFails, RejectStop, StartChunk, Fail, chunkVars,
                      waypointVars
  <1>3. CASE ChunkTick
    BY <1>3, <1>0 DEF ChunkTick, Fail, waypointVars
  <1>4. CASE EndOfChunk \/ VLMAnswers \/ WaitingTick
    BY <1>4, <1>0 DEF EndOfChunk, VLMAnswers, WaitingTick, chunkVars, waypointVars
  <1>5. CASE TakeAnswer \/ Shutdown \/ CheckLimit
    BY <1>5, <1>0 DEF TakeAnswer, Shutdown, CheckLimit, Fail, chunkVars, waypointVars
  <1>6. CASE CompleteWaypoint \/ AcceptStop
    BY <1>6
  <1> QED BY <1>1, <1>2, <1>3, <1>4, <1>5, <1>6 DEF Next, RunnerStep

\* For every number of waypoints and however the model answers: the loop
\* confirms them one by one, none without motion, and reports a complete
\* mission only after the last.
THEOREM RunnerImplementsMission == Spec => ImplementsMission
  <1>1. Init => Mission!Init
    BY DEF Init, Mission!Init
  <1>2. IInv /\ [Next]_vars => [Mission!Next]_(Mission!missionVars)
    <2> SUFFICES ASSUME IInv, [Next]_vars
                 PROVE  Mission!Next \/ UNCHANGED Mission!missionVars
      OBVIOUS
    <2>0. /\ pc # "done" => reason # "stop"
          /\ driven \in Nat /\ waypoint \in Nat /\ motionChunks \in Nat
          /\ NumWaypoints # 0 => waypoint < NumWaypoints
          /\ motionChunks > 0 => driven > 0
      BY DEF IInv, DrivenInv, WaypointType
    <2>1. CASE UNCHANGED vars
      BY <2>1 DEF vars, chunkVars, waypointVars, Mission!missionVars
    <2>2. CASE pc' # "done" /\ UNCHANGED <<waypoint, driven>> /\ pc # "done"
      BY <2>2 DEF Mission!missionVars
    <2>3. CASE pc # "done" /\ pc' = "done" /\ reason' # "stop" /\ UNCHANGED <<waypoint, driven>>
      BY <2>3 DEF Mission!Next, Mission!GiveUp
    <2>4. CASE pc' # "done" /\ waypoint' = waypoint /\ driven' = driven + 1 /\ pc # "done"
      <3>1. driven' > 0
        BY <2>4, <2>0
      <3> QED BY <2>4, <3>1 DEF Mission!Next, Mission!Move
    <2>5. CASE CompleteWaypoint
      <3>1. /\ pc = "act" /\ pc' = "warm" /\ driven > 0 /\ waypoint + 1 < NumWaypoints
            /\ waypoint' = waypoint + 1 /\ driven' = 0
        BY <2>5, <2>0 DEF CompleteWaypoint, StopIsPremature
      <3> QED BY <3>1 DEF Mission!Next, Mission!CompleteStage
    <2>6. CASE AcceptStop
      <3>1. /\ pc = "act" /\ pc' = "done" /\ reason' = "stop"
            /\ UNCHANGED <<waypoint, driven>>
            /\ NumWaypoints = 0 \/ (driven > 0 /\ waypoint + 1 = NumWaypoints)
        BY <2>5, <2>6, <2>0, RunnerAssumption DEF AcceptStop, StopIsPremature, chunkVars
      <3> QED BY <3>1 DEF Mission!Next, Mission!CompleteMission
    <2>7. pc = "done" /\ Next => UNCHANGED vars
      BY DEF Next, RunnerStep, WarmFrameHistory, NextDecision, Infer, AnswerFails, RejectStop,
             CompleteWaypoint, AcceptStop, StartChunk, ChunkTick, EndOfChunk, WaitingTick,
             TakeAnswer, Shutdown, CheckLimit, VLMAnswers
    <2> QED BY <2>1, <2>2, <2>3, <2>4, <2>5, <2>6, <2>7, StepsOfMission
  <1> QED BY <1>1, <1>2, RunnerInvariance, PTL DEF Spec, ImplementsMission, Mission!Spec

-----------------------------------------------------------------------------
(* The session.                                                            *)

\* What is open while the parts are opened: all of it is known to the finally
\* block, but for a server without its bridge.
OpenInv ==
    /\ cli = "open" =>
          /\ call \in Parts \cup {"runner"}
          /\ call = "backend" => held = {} /\ known = {}
          /\ call = "server" => held = {"backend"} /\ known = {"backend"}
          /\ call = "bridge" => held \subseteq {"backend", "server"} /\ known = {"backend"}
          /\ call \in {"monitor", "runner"} => held \subseteq known
    /\ cli \in {"run", "write"} => held \subseteq known
    /\ held \ known \subseteq {"backend"} \/ held \ known \subseteq {"server", "bridge"}

\* The results are written in order, after a run that returned.
ResultsInv ==
    cli = "write" =>
        /\ pc = "done" /\ reason # "error"
        /\ call \in Results \cup {"print"}
        /\ call # "frames" => "frames" \in written
        /\ call \in {"measurements", "print"} => "alignment" \in written
        /\ call = "print" => "measurements" \in written

\* The parts before this one in the finally block.
ClosedBefore(part) ==
    CASE part = "monitor" -> {}
      [] part = "bridge"  -> {"monitor"}
      [] part = "server"  -> {"monitor", "bridge"}
      [] OTHER            -> {"monitor", "bridge", "server"}

CloseInv ==
    /\ cli \in {"open", "run", "write"} => refused = {} /\ status # 0 /\ ~cut
    /\ cli = "close" =>
          /\ call \in Parts /\ ~cut
          /\ refused \subseteq {"monitor", "bridge"}
          /\ held \cap known \cap ClosedBefore(call) \subseteq refused
          /\ status = 0 => /\ written = Results /\ held \subseteq known
                           /\ pc = "done" /\ reason # "error"

SessionInv == SessionTypeOK /\ OpenInv /\ ResultsInv /\ CloseInv /\ SessionClosesAll

\* The order of the calls, as equations.
LEMMA CallOrder ==
  /\ OpenedAfter["backend"] = "server" /\ OpenedAfter["server"] = "bridge"
  /\ OpenedAfter["bridge"] = "monitor" /\ OpenedAfter["monitor"] = "runner"
  /\ WrittenAfter["frames"] = "alignment" /\ WrittenAfter["alignment"] = "measurements"
  /\ WrittenAfter["measurements"] = "print"
  /\ ClosedAfter["monitor"] = "bridge" /\ ClosedAfter["bridge"] = "server"
  /\ ClosedAfter["server"] = "backend"
  BY DEF OpenedAfter, WrittenAfter, ClosedAfter

LEMMA OpensInOrder == ASSUME SessionInv, OpenPart PROVE SessionInv'
  <1> USE CallOrder DEF SessionInv
  <1>1. /\ cli = "open" /\ cli' = "open" /\ call \in Parts /\ call' = OpenedAfter[call]
        /\ held' = (IF Uses(call) THEN held \cup {call} ELSE held)
        /\ known' = known \cup (AssignedWith(call) \cap held')
        /\ UNCHANGED <<loopback, written, status, refused, cut, pc, reason>>
    BY DEF OpenPart, OpenInv, vars
  <1>2. CASE call = "backend"
    <2>1. held' = {"backend"} /\ known' = {"backend"} /\ call' = "server"
      BY <1>1, <1>2 DEF OpenInv, Uses, AssignedWith
    <2> QED BY <1>1, <2>1 DEF SessionTypeOK, OpenInv, ResultsInv, CloseInv, SessionClosesAll,
                              Parts
  <1>3. CASE call = "server"
    <2>1. held' \subseteq {"backend", "server"} /\ known' = {"backend"} /\ call' = "bridge"
      BY <1>1, <1>3 DEF OpenInv, Uses, AssignedWith
    <2> QED BY <1>1, <2>1 DEF SessionTypeOK, OpenInv, ResultsInv, CloseInv, SessionClosesAll,
                              Parts
  <1>4. CASE call = "bridge"
    <2>1. held' = held \cup {"bridge"} /\ call' = "monitor"
      BY <1>1, <1>4 DEF Uses
    <2>2. known' = {"backend"} \cup ({"server", "bridge"} \cap held')
      BY <1>1, <1>4 DEF OpenInv, AssignedWith
    <2>3. held' \subseteq known' /\ held' \subseteq Parts /\ known' \subseteq Parts
      BY <1>1, <1>4, <2>1, <2>2 DEF OpenInv, Parts
    <2> QED BY <1>1, <2>1, <2>3 DEF SessionTypeOK, OpenInv, ResultsInv, CloseInv,
                                   SessionClosesAll, Parts
  <1>5. CASE call = "monitor"
    <2>1. held' \subseteq known' /\ call' = "runner"
      BY <1>1, <1>5 DEF OpenInv, AssignedWith
    <2>2. held' \subseteq Parts /\ known' \subseteq Parts
      BY <1>1, <1>5 DEF SessionTypeOK, AssignedWith, Parts
    <2> QED BY <1>1, <2>1, <2>2 DEF SessionTypeOK, OpenInv, ResultsInv, CloseInv,
                                   SessionClosesAll
  <1> QED BY <1>1, <1>2, <1>3, <1>4, <1>5 DEF Parts

\* Whatever raises, or is interrupted, comes to the finally block.
LEMMA Unwinds ==
  ASSUME SessionInv, cli \in {"open", "run", "write"}, NEW code \in {0, 1, 130}, Unwind(code),
         held' \subseteq Parts, known' \subseteq Parts,
         held' \ known' \subseteq {"backend"} \/ held' \ known' \subseteq {"server", "bridge"},
         code = 0 => /\ written = Results /\ held' \subseteq known'
                     /\ pc = "done" /\ reason # "error",
         UNCHANGED <<vars, loopback, written, refused, cut>>
  PROVE  SessionInv'
  <1>1. /\ cli' = "close" /\ call' = "monitor" /\ status' = code
        /\ UNCHANGED <<loopback, written, refused, cut, pc, reason>>
    BY DEF Unwind, vars
  <1>2. SessionTypeOK'
    BY <1>1 DEF SessionInv, SessionTypeOK, Parts
  <1>3. ClosedBefore(call') = {}
    BY <1>1 DEF ClosedBefore
  <1> QED BY <1>1, <1>2, <1>3 DEF SessionInv, OpenInv, ResultsInv, CloseInv, SessionClosesAll,
                                  Parts

LEMMA OpeningFails == ASSUME SessionInv, OpenFails PROVE SessionInv'
  <1>1. PICK code \in {1, 130} :
           /\ Unwind(code)
           /\ \/ UNCHANGED <<held, known>>
              \/ call = "backend" /\ held' = {call} /\ known' \in SUBSET held'
              \/ call \in {"server", "bridge"} /\ held' = held \cup {call} /\ UNCHANGED known
    BY DEF OpenFails
  <1>2. /\ held' \subseteq Parts /\ known' \subseteq Parts
        /\ held' \ known' \subseteq {"backend"} \/ held' \ known' \subseteq {"server", "bridge"}
    <2>1. CASE UNCHANGED <<held, known>>
      BY <2>1 DEF SessionInv, SessionTypeOK, OpenInv
    <2>2. CASE call = "backend" /\ held' = {call} /\ known' \in SUBSET held'
      BY <2>2 DEF Parts
    <2>3. CASE call \in {"server", "bridge"} /\ held' = held \cup {call} /\ UNCHANGED known
      <3>1. held \subseteq {"backend", "server"} /\ known = {"backend"}
        BY <2>3 DEF OpenFails, SessionInv, OpenInv
      <3> QED BY <2>3, <3>1 DEF Parts
    <2> QED BY <1>1, <2>1, <2>2, <2>3
  <1> QED BY <1>1, <1>2, Unwinds DEF OpenFails

\* The run, up to its last result.
LEMMA RunsAndWrites ==
  ASSUME SessionInv,
         \/ BeginRun \/ RunStep \/ Inference \/ RunInterrupted \/ RunReturns
         \/ WriteResult \/ ReturnZero \/ WriteFails
  PROVE  SessionInv'
  <1> USE CallOrder
  <1>1. CASE BeginRun \/ RunStep \/ Inference
    <2>1. /\ cli \in {"open", "run"} /\ cli' = "run" /\ call' = call
          /\ cli = "open" => call = "runner"
          /\ UNCHANGED <<loopback, held, known, written, status, refused, cut>>
      BY <1>1 DEF BeginRun, RunStep, Inference, sessionVars
    <2> QED BY <2>1 DEF SessionInv, SessionTypeOK, OpenInv, ResultsInv, CloseInv,
                        SessionClosesAll
  <1>2. ASSUME NEW code \in {1, 130}, Unwind(code), cli \in {"run", "write"},
               UNCHANGED <<vars, loopback, held, known, written, refused, cut>>
        PROVE  SessionInv'
    BY <1>2, Unwinds DEF SessionInv, SessionTypeOK, OpenInv
  <1>3. CASE RunInterrupted \/ WriteFails
    BY <1>2, <1>3 DEF RunInterrupted, WriteFails
  <1>4. CASE RunReturns
    <2>1. CASE reason = "error"
      BY <1>2, <1>4, <2>1 DEF RunReturns
    <2>2. CASE reason # "error"
      <3>1. /\ cli = "run" /\ cli' = "write" /\ call' = "frames" /\ pc' = "done"
            /\ reason' # "error"
            /\ UNCHANGED <<loopback, held, known, written, status, refused, cut>>
        BY <1>4, <2>2 DEF RunReturns, vars
      <3> QED BY <3>1 DEF SessionInv, SessionTypeOK, OpenInv, ResultsInv, CloseInv,
                          SessionClosesAll, Results
    <2> QED BY <2>1, <2>2
  <1>5. CASE WriteResult
    <2>1. /\ cli = "write" /\ cli' = "write" /\ call \in Results /\ call' = WrittenAfter[call]
          /\ written' = written \cup {call}
          /\ UNCHANGED <<loopback, held, known, status, refused, cut, pc, reason>>
      BY <1>5 DEF WriteResult, vars
    <2>2. call = "frames" \/ call = "alignment" \/ call = "measurements"
      BY <2>1 DEF Results
    <2>3. ResultsInv'
      BY <2>1, <2>2 DEF SessionInv, ResultsInv, Results
    <2>4. SessionTypeOK'
      BY <2>1, <2>2 DEF SessionInv, SessionTypeOK, Results
    <2> QED BY <2>1, <2>3, <2>4 DEF SessionInv, OpenInv, CloseInv, SessionClosesAll
  <1>6. CASE ReturnZero
    <2>1. {"frames", "alignment", "measurements"} \subseteq written
          /\ pc = "done" /\ reason # "error"
      <3>1. "frames" \in written /\ "alignment" \in written /\ "measurements" \in written
        BY <1>6 DEF ReturnZero, SessionInv, ResultsInv
      <3> QED BY <1>6, <3>1 DEF ReturnZero, SessionInv, ResultsInv
    <2>2. written = Results
      <3>1. written \subseteq Results
        BY DEF SessionInv, SessionTypeOK
      <3> QED BY <2>1, <3>1 DEF Results
    <2>3. held \subseteq known /\ cli = "write" /\ UNCHANGED <<held, known>> /\ Unwind(0)
          /\ UNCHANGED <<vars, loopback, written, refused, cut>>
      BY <1>6 DEF ReturnZero, SessionInv, OpenInv
    <2>4. held' \subseteq Parts /\ known' \subseteq Parts /\ held' \subseteq known'
          /\ held' \ known' \subseteq {"backend"}
      BY <2>3 DEF SessionInv, SessionTypeOK
    <2> QED BY <2>1, <2>2, <2>3, <2>4, Unwinds
  <1> QED BY <1>1, <1>3, <1>4, <1>5, <1>6

\* The finally block.
LEMMA Closes ==
  ASSUME SessionInv, ClosePart \/ CloseRaises \/ CloseInterrupted
  PROVE  SessionInv'
  <1> USE CallOrder
  <1>1. /\ cli = "close" /\ call \in Parts
        /\ UNCHANGED <<loopback, known, written, pc, reason>>
        /\ held' \subseteq held
    BY DEF ClosePart, CloseRaises, CloseInterrupted, Closed, vars, SessionInv, CloseInv
  <1>2. held' \ known' \subseteq {"backend"} \/ held' \ known' \subseteq {"server", "bridge"}
    BY <1>1 DEF SessionInv, OpenInv
  <1>3. call = "monitor" \/ call = "bridge" \/ call = "server" \/ call = "backend"
    BY <1>1 DEF Parts
  <1>4. ASSUME NextClose, cut' = cut, status' = status,
               refused' \subseteq {"monitor", "bridge"}, refused \subseteq refused',
               call \in held' \cap known => call \in refused'
        PROVE  SessionInv'
    <2>1. CASE call = "backend"
      <3>1. cli' = "over" /\ call' = call
        BY <1>4, <2>1 DEF NextClose
      <3>2. held' \cap known' \subseteq refused'
        BY <1>1, <1>4, <2>1 DEF SessionInv, CloseInv, ClosedBefore, SessionTypeOK, Parts
      <3>3. SessionClosesAll'
        BY <1>1, <1>2, <1>4, <3>1, <3>2 DEF SessionInv, CloseInv, SessionClosesAll
      <3>4. SessionTypeOK'
        BY <1>1, <1>4, <3>1 DEF SessionInv, SessionTypeOK, Parts
      <3> QED BY <1>2, <3>1, <3>3, <3>4 DEF SessionInv, OpenInv, ResultsInv, CloseInv
    <2>2. CASE call # "backend"
      <3>1. cli' = "close" /\ call' = ClosedAfter[call]
        BY <1>1, <1>4, <2>2 DEF NextClose
      <3>2. call' \in Parts /\ ClosedBefore(call') = ClosedBefore(call) \cup {call}
        BY <1>3, <2>2, <3>1 DEF ClosedBefore, Parts
      <3>3. held' \cap known' \cap ClosedBefore(call') \subseteq refused'
        BY <1>1, <1>4, <3>2 DEF SessionInv, CloseInv
      <3>4. SessionTypeOK'
        BY <1>1, <1>4, <3>1, <3>2 DEF SessionInv, SessionTypeOK, Parts
      <3>5. CloseInv'
        BY <1>1, <1>4, <3>1, <3>2, <3>3 DEF SessionInv, CloseInv
      <3> QED BY <1>2, <3>1, <3>4, <3>5 DEF SessionInv, OpenInv, ResultsInv, SessionClosesAll
    <2> QED BY <2>1, <2>2
  <1>5. ASSUME cli' = "over", call' = call, status' \in {1, 130}, cut' \in BOOLEAN,
               refused' \subseteq Parts,
               ~cut' => held' \cap known' \subseteq
                  refused' \cup (IF "server" \in refused' THEN {"backend"} ELSE {})
        PROVE  SessionInv'
    <2>1. SessionTypeOK'
      BY <1>1, <1>5 DEF SessionInv, SessionTypeOK
    <2>2. SessionClosesAll'
      BY <1>2, <1>5 DEF SessionClosesAll
    <2> QED BY <1>2, <1>5, <2>1, <2>2 DEF SessionInv, OpenInv, ResultsInv, CloseInv
  <1>6. CASE ClosePart
    <2>1. /\ NextClose /\ UNCHANGED <<cut, status, refused>>
          /\ call \notin held' \cap known
      BY <1>6 DEF ClosePart, Closed
    <2>2. refused \subseteq {"monitor", "bridge"}
      BY <1>1 DEF SessionInv, CloseInv
    <2> QED BY <1>4, <2>1, <2>2
  <1>7. CASE CloseRaises
    <2>1. /\ refused' = refused \cup {call} /\ UNCHANGED <<held, cut>>
          /\ refused \subseteq {"monitor", "bridge"} /\ ~cut
      BY <1>1, <1>7 DEF CloseRaises, SessionInv, CloseInv
    <2>2. CASE Forgives(call)
      BY <1>4, <1>7, <2>1, <2>2 DEF CloseRaises, Forgives
    <2>3. CASE ~Forgives(call)
      <3>1. cli' = "over" /\ status' = 1 /\ call' = call
        BY <1>7, <2>3 DEF CloseRaises
      <3>2. call = "server" \/ call = "backend"
        BY <1>3, <2>3 DEF Forgives
      <3>3. held \cap known \cap {"monitor", "bridge"} \subseteq refused
            /\ (call = "backend" => "server" \notin held \cap known)
        BY <1>1, <2>1, <3>2 DEF SessionInv, CloseInv, ClosedBefore
      <3>4. held' \cap known' \subseteq
               refused' \cup (IF "server" \in refused' THEN {"backend"} ELSE {})
        BY <1>1, <2>1, <3>2, <3>3 DEF SessionInv, SessionTypeOK, Parts
      <3>5. refused' \subseteq Parts /\ cut' \in BOOLEAN /\ status' \in {1, 130}
        BY <1>1, <2>1, <3>1 DEF Parts, SessionInv, SessionTypeOK
      <3> QED BY <1>5, <3>1, <3>4, <3>5
    <2> QED BY <2>2, <2>3
  <1>8. CASE CloseInterrupted
    BY <1>5, <1>8 DEF CloseInterrupted, SessionInv, SessionTypeOK
  <1> QED BY <1>6, <1>7, <1>8

\* A session does to its mission what the loop does, or nothing: what is
\* proved of the loop holds of it within a session.
THEOREM SessionRunsLoop == SessionSpec => Spec
  <1>1. SessionInit => Init
    BY DEF SessionInit
  <1>2. [SessionNext]_allVars => [Next]_vars
    BY DEF SessionNext, SessionStep, OpenPart, OpenFails, BeginRun, RunStep, Inference,
           RunInterrupted, RunReturns, WriteResult, ReturnZero, WriteFails, ClosePart,
           CloseRaises, CloseInterrupted, Over, allVars, Next
  <1> QED BY <1>1, <1>2, PTL DEF SessionSpec, Spec

\* However far a session came, whatever raised and wherever Ctrl-C came: what
\* it leaves open is accounted for, and its status is zero only for a whole
\* mission with all results.
THEOREM SessionsClose == SessionSpec => []SessionClosesAll
  <1>1. SessionInit => SessionInv
    <2> SUFFICES ASSUME SessionInit PROVE SessionInv
      OBVIOUS
    <2>1. /\ loopback \in BOOLEAN /\ cli = "open" /\ call = "backend"
          /\ held = {} /\ known = {} /\ written = {} /\ status = 1
          /\ refused = {} /\ cut = FALSE
      BY DEF SessionInit
    <2>2. SessionTypeOK
      BY <2>1 DEF SessionTypeOK, Parts
    <2>3. OpenInv
      BY <2>1 DEF OpenInv, Parts
    <2> QED BY <2>1, <2>2, <2>3 DEF SessionInv, ResultsInv, CloseInv, SessionClosesAll
  <1>2. SessionInv /\ [SessionNext]_allVars => SessionInv'
    <2> SUFFICES ASSUME SessionInv, [SessionNext]_allVars PROVE SessionInv'
      OBVIOUS
    <2>1. CASE UNCHANGED allVars
      BY <2>1 DEF allVars, sessionVars, vars, SessionInv, SessionTypeOK, OpenInv, ResultsInv,
                  CloseInv, SessionClosesAll
    <2> QED BY <2>1, OpensInOrder, OpeningFails, RunsAndWrites, Closes
            DEF SessionNext, SessionStep, Over
  <1>3. SessionInv => SessionClosesAll
    BY DEF SessionInv
  <1> QED BY <1>1, <1>2, <1>3, PTL DEF SessionSpec
=============================================================================
