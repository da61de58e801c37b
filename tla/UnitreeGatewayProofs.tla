------------------------ MODULE UnitreeGatewayProofs ------------------------
(***************************************************************************)
(* Safety of the Unitree gateway for every number of waypoints, decisions  *)
(* and turns and every set of goal-seer answers.  The invariants of        *)
(* UnitreeGateway are not inductive; IInv adds to each what a step reads   *)
(* of the state it starts in.                                              *)
(***************************************************************************)
EXTENDS UnitreeGateway, CaptureHistory, TLAPS

InChunk == pc \in {"clear", "drive", "brake"}

Unwinding == pc \in {"cleanup", "closing", "done"}

\* A chunk belongs to its caller: only a decision drives forward, and a
\* sweep or an inspection has a turn left to spend.
ChunkInv ==
    /\ InChunk => cmd \in Kinds /\ armed
    /\ InChunk /\ ret # "decide" => cmd # "forward"
    /\ InChunk /\ ret = "acquire" => turn < MaxTurns
    /\ InChunk /\ ret = "inspect" => turn < MaxInspectionTurns

\* Where the seer's results are read there is one, and it is of this check.
SeerInv ==
    /\ pc \in {"judge", "inspect"} => goal # NoGoal /\ ~recheck
    /\ pc = "inspect" => phase = "inspect"
    /\ ~seer => /\ pc \notin {"acquire", "goal", "judge", "inspect"}
                /\ InChunk => ret = "decide"

\* A decision is on its way only after a goal result that authorises it.
Deciding == pc \in {"decide", "infer", "act"} \/ (InChunk /\ ret = "decide")

AuthorityInv ==
    /\ seer /\ Deciding => /\ goal # NoGoal
                           /\ AdvanceAuthorised(goal)
                           /\ ~GoalItemFound(goal)
    /\ ForwardIsAuthorised
    /\ seer /\ recheck => /\ pc \notin {"infer", "act"}
                          /\ InChunk => ret # "decide"

\* A robot in motion has an executor, and a fault lets it out of the chunk.
MotionInv ==
    /\ StillBetweenChunks
    /\ robot # "still" => armed
    /\ robot # "still" /\ pc \in {"cleanup", "closing"} => faults >= 1
    /\ SingleFaultSafe

\* Between ensure_healthy() and the chunk it clears no blind chunk lies.
CameraInv ==
    /\ OneBlindChunk
    /\ ~camErr => blind = 0
    /\ \/ pc \in {"judge", "inspect", "act", "clear"}
       \/ pc = "acquire" /\ sighting # NoSighting
       => blind = 0

\* Without the seer a late chunk leads straight out of the mission.
SignalInv ==
    /\ OneLateChunk
    /\ ~interrupted => late = 0
    /\ ~seer /\ late # 0 => pc \in {"drive", "brake", "waypoint_end"} \/ Unwinding

\* The waypoints behind the robot are concluded.
MissionInv ==
    /\ 1..(wp - 1) \subseteq concluded
    /\ ~Unwinding /\ pc # "waypoint" /\ waypointStopped /\ ~missionFound
          => wp \in concluded
    /\ Unwinding <=> outcome # "running"
    /\ outcome = "ok" => \/ interrupted \/ missionFound
                         \/ wp = NumWaypoints /\ wp \in concluded
    /\ outcome = "kbd" \/ origErr = "kbd" => interrupted

IInv == /\ TypeOK /\ ChunkInv /\ SeerInv /\ AuthorityInv /\ MotionInv
        /\ CameraInv /\ SignalInv /\ MissionInv

-----------------------------------------------------------------------------

\* What is not visible is not said to be safe to walk to, nor is what is too
\* close.
LEMMA ForgetLandmarkType ==
  \A r \in GoalReply :
      /\ ForgetLandmark(r) \in GoalReply
      /\ ~ForgetLandmark(r).landmark_visible => ~ForgetLandmark(r).safe_to_advance
  <1> SUFFICES ASSUME NEW r \in GoalReply
               PROVE  /\ ForgetLandmark(r) \in GoalReply
                      /\ ~ForgetLandmark(r).landmark_visible
                            => ~ForgetLandmark(r).safe_to_advance
    OBVIOUS
  <1>1. CASE r.landmark_visible
    BY <1>1 DEF ForgetLandmark
  <1>2. CASE ~r.landmark_visible
    BY <1>2 DEF ForgetLandmark, GoalReply, Distance, Bearing
  <1> QED BY <1>1, <1>2

\* The same of the item, and the landmark's part is left as it was.
LEMMA ForgetItemType ==
  \A r \in GoalReply :
      /\ ForgetItem(r) \in GoalReply
      /\ ForgetItem(r).landmark_visible = r.landmark_visible
      /\ ForgetItem(r).safe_to_advance = r.safe_to_advance
      /\ ~ForgetItem(r).item_visible => ~ForgetItem(r).item_safe_to_advance
  <1> TAKE r \in GoalReply
  <1>1. CASE r.item_visible
    BY <1>1 DEF ForgetItem
  <1>2. CASE ~r.item_visible
    BY <1>2 DEF ForgetItem, GoalReply, Distance
  <1> QED BY <1>1, <1>2

\* The veto is what makes a consistent answer a well-formed result.
LEMMA VetoCloseAdvanceType ==
  \A r \in GoalReply :
      /\ ~r.landmark_visible => ~r.safe_to_advance
      /\ ~r.item_visible => ~r.item_safe_to_advance
      => VetoCloseAdvance(r) \in GoalResult
  <1> SUFFICES ASSUME NEW r \in GoalReply,
                      ~r.landmark_visible => ~r.safe_to_advance,
                      ~r.item_visible => ~r.item_safe_to_advance
               PROVE  VetoCloseAdvance(r) \in GoalResult
    OBVIOUS
  <1>1. CASE r.landmark_distance_state \in {"near", "too_close", "unknown"}
    BY <1>1 DEF VetoCloseAdvance, GoalResult, GoalReply
  <1>2. CASE r.landmark_distance_state \in {"far", "approach"}
    BY <1>2 DEF VetoCloseAdvance, GoalResult, GoalReply
  <1> QED BY <1>1, <1>2 DEF GoalReply, Distance

\* Every answer of the model is made into a well-formed result.
LEMMA SeeGoalType == \A r \in GoalReply : SeeGoal(r) \in GoalResult
  BY ForgetLandmarkType, ForgetItemType, VetoCloseAdvanceType DEF SeeGoal

\* A result on which the gateway proceeds authorises the advance.
LEMMA ProceedIsAuthorised ==
  \A g \in GoalResult :
      MayProceed(g) /\ ~GoalItemFound(g) => AdvanceAuthorised(g)
  BY DEF MayProceed, MustReacquire, MustInspect, GoalItemRequiresInspection,
         GoalRequiresInspection, GoalItemApproachAllowed, GoalItemVisible,
         GoalResult, GoalReply, AdvanceAuthorised

\* A result that authorises the advance makes a textual stop premature.
LEMMA AuthorisedIsPremature ==
  \A g \in GoalResult :
      AdvanceAuthorised(g) /\ ~GoalItemFound(g) => GoalSeerRequiresMoreApproach(g)
  BY DEF AdvanceAuthorised, GoalSeerRequiresMoreApproach, GoalItemApproachAllowed,
         GoalItemVisible, GoalLandmarkCentered, GoalResult, GoalReply, Distance

\* The acquisition gets a well-formed sighting from either seer.
LEMMA LandmarkResultType ==
  \A g \in GoalResult : LandmarkResultFromGoal(g) \in Sighting
  BY DEF LandmarkResultFromGoal, SeeLandmark, Sighting, GoalResult, GoalReply,
         Bearing

\* Likewise for the landmark seer's own answers.
LEMMA SightingsType == Sightings \subseteq Sighting
  BY DEF Sightings, SeeLandmark, Sighting, Bearing

-----------------------------------------------------------------------------
(* The inductive invariant holds initially, and every step preserves each  *)
(* of its parts.                                                           *)

\* The initial states satisfy the inductive invariant.
THEOREM InitIInv == Init => IInv
  <1> SUFFICES ASSUME Init PROVE IInv
    OBVIOUS
  <1> USE BoundsAssumption, SeerAssumption DEF Init
  <1>1. ControlType /\ MotionType /\ HistoryType
    <2>1. ControlType BY DEF ControlType, Locations
    <2>2. MotionType  BY DEF MotionType, Kinds
    <2>3. HistoryType BY DEF HistoryType
    <2> QED BY <2>1, <2>2, <2>3
  <1>2. MissionType
    <2>1. wp \in 1..NumWaypoints /\ concluded \subseteq 1..NumWaypoints
      OBVIOUS
    <2>2. dec \in 0..MaxDecisions
      OBVIOUS
    <2> QED BY <2>1, <2>2 DEF MissionType
  <1>3. SeerType
    <2>1. turn \in 0..MaxTurns \cup 0..MaxInspectionTurns
      OBVIOUS
    <2>2. tries \in 0..2 /\ turnSign \in {"left", "right"}
      OBVIOUS
    <2> QED BY <2>1, <2>2 DEF SeerType
  <1>4. ChunkInv /\ SeerInv /\ AuthorityInv
    BY DEF ChunkInv, SeerInv, AuthorityInv, InChunk, Deciding, ForwardIsAuthorised
  <1>5. MotionInv /\ CameraInv /\ SignalInv
    BY DEF MotionInv, CameraInv, SignalInv, StillBetweenChunks, SingleFaultSafe,
           OneBlindChunk, OneLateChunk, Unwinding
  <1>6. MissionInv
    BY DEF MissionInv, Unwinding
  <1> QED BY <1>1, <1>2, <1>3, <1>4, <1>5, <1>6 DEF IInv, TypeOK

\* A step keeps the flags, the program counter and the outcome in their types.
LEMMA ControlTypeStep == IInv /\ Next => ControlType'
  <1> SUFFICES ASSUME IInv, Next PROVE ControlType'
    OBVIOUS
  <1> USE DEF IInv, TypeOK, ControlType, MotionType, Locations, Raise, Leave,
              GoTo, argVars, motionVars, missionVars, goalVars, turnVars,
              signalVars, ghostVars
  <1>1. CASE ExecutorStep
    BY <1>1 DEF ExecutorStep, ClearStopRequest, Bump, Move, EndOfChunk, Brake,
              AfterBrake, StopObserved
  <1>2. CASE AcquireStep
    BY <1>2 DEF AcquireStep, LookForLandmark, EnsureHealthy, LandmarkAcquired,
              TurnTowardsLandmark, TurnsLeft, Execute, AcquisitionFails
  <1>3. CASE GoalStep
    BY <1>3 DEF GoalStep, CheckGoal, EnsureHealthy, GoalFound, Bump, Reacquire,
              RefuseForwardMotion, BeginInspection, Proceed, InspectionTurn,
              TurnsLeft, Execute, EndInspection
  <1>4. CASE DecisionStep
    BY <1>4 DEF DecisionStep, NextIteration, NextDecision, GoalCheckDue,
              StopObserved, Infer, EnsureHealthy, DecisionFails, Bump,
              StopDecision, MotionDecision, Execute
  <1>5. CASE Setup BY <1>5 DEF Setup, motionVars
  <1>6. CASE Warmup BY <1>6 DEF Warmup
  <1>7. CASE BeginWaypoint BY <1>7 DEF BeginWaypoint, StopObserved
  <1>8. CASE EndWaypoint BY <1>8 DEF EndWaypoint, StopObserved,
        WaypointExhausted
  <1>9. CASE RestoreHandlers BY <1>9 DEF RestoreHandlers
  <1>10. CASE FinalStop BY <1>10 DEF FinalStop, FinalStopDue, Bump
  <1>11. CASE Terminate BY <1>11 DEF Terminate, RequestStop
  <1>12. CASE KeyboardInterrupt BY <1>12 DEF KeyboardInterrupt, RequestStop,
        Bump
  <1>13. CASE AbortCleanup BY <1>13 DEF AbortCleanup, Bump
  <1>14. CASE CameraFails BY <1>14 DEF CameraFails
  <1>15. CASE Finished BY <1>15 DEF Finished, vars
  <1> QED BY <1>1, <1>2, <1>3, <1>4, <1>5, <1>6, <1>7, <1>8, <1>9, <1>10,
            <1>11, <1>12, <1>13, <1>14, <1>15 DEF Next, MainStep

\* A step keeps the executor's variables in their types.
LEMMA MotionTypeStep == IInv /\ Next => MotionType'
  <1> SUFFICES ASSUME IInv, Next PROVE MotionType'
    OBVIOUS
  <1> USE SeerAssumption
  <1> USE DEF IInv, TypeOK, MotionType, ControlType, SeerType, ChunkInv,
              InChunk, Kinds, Raise, Leave, GoTo, argVars, motionVars,
              missionVars, goalVars, turnVars, signalVars, ghostVars
  <1>1. CASE ExecutorStep
    BY <1>1 DEF ExecutorStep, ClearStopRequest, Bump, Move, EndOfChunk, Brake,
              AfterBrake, StopObserved
  <1>2. CASE AcquireStep
    BY <1>2 DEF AcquireStep, LookForLandmark, EnsureHealthy, LandmarkAcquired,
              TurnTowardsLandmark, TurnsLeft, Execute, AcquisitionFails
  <1>3. CASE GoalStep
    BY <1>3 DEF GoalStep, CheckGoal, EnsureHealthy, GoalFound, Bump, Reacquire,
              RefuseForwardMotion, BeginInspection, Proceed, InspectionTurn,
              TurnsLeft, Execute, EndInspection
  <1>4. CASE DecisionStep
    <2>1. CASE NextIteration \/ Infer
      BY <2>1 DEF NextIteration, NextDecision, GoalCheckDue, StopObserved, Infer,
                  EnsureHealthy
    <2>2. CASE DecisionFails \/ StopDecision
      BY <2>2 DEF DecisionFails, Bump, StopDecision
    <2>3. CASE MotionDecision BY <2>3 DEF MotionDecision, Execute
    <2> QED BY <2>1, <2>2, <2>3, <1>4 DEF DecisionStep
  <1>5. CASE Setup BY <1>5 DEF Setup, motionVars
  <1>6. CASE Warmup BY <1>6 DEF Warmup
  <1>7. CASE BeginWaypoint BY <1>7 DEF BeginWaypoint, StopObserved
  <1>8. CASE EndWaypoint BY <1>8 DEF EndWaypoint, StopObserved,
        WaypointExhausted
  <1>9. CASE RestoreHandlers BY <1>9 DEF RestoreHandlers
  <1>10. CASE FinalStop BY <1>10 DEF FinalStop, FinalStopDue, Bump
  <1>11. CASE Terminate BY <1>11 DEF Terminate, RequestStop
  <1>12. CASE KeyboardInterrupt BY <1>12 DEF KeyboardInterrupt, RequestStop,
        Bump
  <1>13. CASE AbortCleanup BY <1>13 DEF AbortCleanup, Bump
  <1>14. CASE CameraFails BY <1>14 DEF CameraFails
  <1>15. CASE Finished BY <1>15 DEF Finished, vars
  <1> QED BY <1>1, <1>2, <1>3, <1>4, <1>5, <1>6, <1>7, <1>8, <1>9, <1>10,
            <1>11, <1>12, <1>13, <1>14, <1>15 DEF Next, MainStep

\* A step keeps waypoint and decision counters within their limits.
LEMMA MissionTypeStep == IInv /\ Next => MissionType'
  <1> SUFFICES ASSUME IInv, Next PROVE MissionType'
    OBVIOUS
  <1> USE BoundsAssumption
  <1> USE DEF IInv, TypeOK, MissionType, Raise, Leave, GoTo, argVars,
              motionVars, missionVars, goalVars, turnVars, signalVars,
              ghostVars
  <1>1. CASE ExecutorStep
    BY <1>1 DEF ExecutorStep, ClearStopRequest, Bump, Move, EndOfChunk, Brake,
              AfterBrake, StopObserved
  <1>2. CASE AcquireStep
    BY <1>2 DEF AcquireStep, LookForLandmark, EnsureHealthy, LandmarkAcquired,
              TurnTowardsLandmark, TurnsLeft, Execute, AcquisitionFails
  <1>3. CASE GoalStep
    BY <1>3 DEF GoalStep, CheckGoal, EnsureHealthy, GoalFound, Bump, Reacquire,
              RefuseForwardMotion, BeginInspection, Proceed, InspectionTurn,
              TurnsLeft, Execute, EndInspection
  <1>4. CASE DecisionStep
    <2>1. CASE NextIteration
      <3>1. dec' = dec \/ (dec < MaxDecisions /\ dec' = dec + 1)
        BY <2>1 DEF NextIteration, NextDecision
      <3>2. MaxDecisions \in Nat /\ dec \in 0..MaxDecisions
        OBVIOUS
      <3>3. dec' \in 0..MaxDecisions
        BY ONLY <3>1, <3>2
      <3> QED BY <2>1, <3>3 DEF NextIteration
    <2>2. CASE Infer BY <2>2 DEF Infer, EnsureHealthy
    <2>3. CASE DecisionFails BY <2>3 DEF DecisionFails, Bump
    <2>4. CASE StopDecision BY <2>4 DEF StopDecision
    <2>5. CASE MotionDecision BY <2>5 DEF MotionDecision, Execute, StopObserved
    <2> QED BY <1>4, <2>1, <2>2, <2>3, <2>4, <2>5 DEF DecisionStep
  <1>5. CASE Setup BY <1>5 DEF Setup, motionVars
  <1>6. CASE Warmup BY <1>6 DEF Warmup
  <1>7. CASE BeginWaypoint
    <2>1. dec' \in {0, dec} /\ waypointStopped' \in BOOLEAN
      BY <1>7 DEF BeginWaypoint
    <2>2. dec' \in 0..MaxDecisions
      BY <2>1
    <2> QED BY <1>7, <2>1, <2>2 DEF BeginWaypoint
  <1>8. CASE EndWaypoint BY <1>8 DEF EndWaypoint, StopObserved,
        WaypointExhausted
  <1>9. CASE RestoreHandlers BY <1>9 DEF RestoreHandlers
  <1>10. CASE FinalStop BY <1>10 DEF FinalStop, FinalStopDue, Bump
  <1>11. CASE Terminate BY <1>11 DEF Terminate, RequestStop
  <1>12. CASE KeyboardInterrupt BY <1>12 DEF KeyboardInterrupt, RequestStop,
        Bump
  <1>13. CASE AbortCleanup BY <1>13 DEF AbortCleanup, Bump
  <1>14. CASE CameraFails BY <1>14 DEF CameraFails
  <1>15. CASE Finished BY <1>15 DEF Finished, vars
  <1> QED BY <1>1, <1>2, <1>3, <1>4, <1>5, <1>6, <1>7, <1>8, <1>9, <1>10,
            <1>11, <1>12, <1>13, <1>14, <1>15 DEF Next, MainStep

\* A step keeps the seer's variables in their types: goal results are
\* consistent, and a turn is begun only if one is left.
LEMMA SeerTypeStep == IInv /\ Next => SeerType'
  <1> SUFFICES ASSUME IInv, Next PROVE SeerType'
    OBVIOUS
  <1> USE SeeGoalType, LandmarkResultType, SightingsType, BoundsAssumption,
         SeerAssumption
  <1> USE DEF IInv, TypeOK, ControlType, MotionType, SeerType, ChunkInv,
              InChunk, Raise, Leave, GoTo, argVars, motionVars, missionVars,
              goalVars, turnVars, signalVars, ghostVars
  <1>1. CASE ExecutorStep
    <2>1. CASE ClearStopRequest BY <2>1 DEF ClearStopRequest, Bump
    <2>2. CASE Move BY <2>2 DEF Move
    <2>3. CASE EndOfChunk BY <2>3 DEF EndOfChunk
    <2>4. CASE Brake BY <2>4 DEF Brake, AfterBrake, StopObserved, Bump
    <2> QED BY <1>1, <2>1, <2>2, <2>3, <2>4 DEF ExecutorStep
  <1>2. CASE AcquireStep
    BY <1>2 DEF AcquireStep, LookForLandmark, EnsureHealthy, LandmarkAcquired,
              TurnTowardsLandmark, TurnsLeft, Execute, AcquisitionFails
  <1>3. CASE GoalStep
    <2>1. CASE CheckGoal BY <2>1 DEF CheckGoal, EnsureHealthy
    <2>2. CASE GoalFound BY <2>2 DEF GoalFound, Bump
    <2>3. CASE Reacquire
      <3>1. tries' \in 0..2 /\ turn' \in 0..MaxTurns
        BY <2>3 DEF Reacquire
      <3>2. sighting' \in Sighting
        BY <2>3 DEF Reacquire, SeerInv
      <3> QED BY <2>3, <3>1, <3>2 DEF Reacquire
    <2>4. CASE RefuseForwardMotion BY <2>4 DEF RefuseForwardMotion
    <2>5. CASE BeginInspection BY <2>5 DEF BeginInspection, Bump
    <2>6. CASE Proceed BY <2>6 DEF Proceed
    <2>7. CASE InspectionTurn BY <2>7 DEF InspectionTurn, TurnsLeft, Execute
    <2>8. CASE EndInspection BY <2>8 DEF EndInspection
    <2> QED BY <1>3, <2>1, <2>2, <2>3, <2>4, <2>5, <2>6, <2>7, <2>8 DEF
              GoalStep
  <1>4. CASE DecisionStep
    <2>1. CASE NextIteration
      <3>1. phase' \in {phase, "loop"} /\ tries' \in {tries, 1}
        BY <2>1 DEF NextIteration
      <3> QED BY <2>1, <3>1 DEF NextIteration
    <2>2. CASE Infer BY <2>2 DEF Infer, EnsureHealthy
    <2>3. CASE DecisionFails BY <2>3 DEF DecisionFails, Bump
    <2>4. CASE StopDecision BY <2>4 DEF StopDecision
    <2>5. CASE MotionDecision BY <2>5 DEF MotionDecision, Execute, StopObserved
    <2> QED BY <1>4, <2>1, <2>2, <2>3, <2>4, <2>5 DEF DecisionStep
  <1>5. CASE Setup BY <1>5 DEF Setup, motionVars
  <1>6. CASE Warmup BY <1>6 DEF Warmup
  <1>7. CASE BeginWaypoint
    <2>1. CASE StopObserved
      BY <1>7, <2>1 DEF BeginWaypoint
    <2>2. CASE ~StopObserved
      <3>1. turn' \in 0..MaxTurns \cup 0..MaxInspectionTurns
        BY <1>7, <2>2 DEF BeginWaypoint
      <3>2. tries' \in 0..2 /\ turnSign' \in {"left", "right"}
        BY <1>7, <2>2 DEF BeginWaypoint
      <3> QED BY <1>7, <2>2, <3>1, <3>2 DEF BeginWaypoint
    <2> QED BY <2>1, <2>2
  <1>8. CASE EndWaypoint BY <1>8 DEF EndWaypoint, StopObserved,
        WaypointExhausted
  <1>9. CASE RestoreHandlers BY <1>9 DEF RestoreHandlers
  <1>10. CASE FinalStop BY <1>10 DEF FinalStop, FinalStopDue, Bump
  <1>11. CASE Terminate BY <1>11 DEF Terminate, RequestStop
  <1>12. CASE KeyboardInterrupt BY <1>12 DEF KeyboardInterrupt, RequestStop,
        Bump
  <1>13. CASE AbortCleanup BY <1>13 DEF AbortCleanup, Bump
  <1>14. CASE CameraFails BY <1>14 DEF CameraFails
  <1>15. CASE Finished BY <1>15 DEF Finished, vars
  <1> QED BY <1>1, <1>2, <1>3, <1>4, <1>5, <1>6, <1>7, <1>8, <1>9, <1>10,
            <1>11, <1>12, <1>13, <1>14, <1>15 DEF Next, MainStep

\* A step keeps the history counters within their cap.
LEMMA HistoryTypeStep == IInv /\ Next => HistoryType'
  <1> SUFFICES ASSUME IInv, Next PROVE HistoryType'
    OBVIOUS
  <1> USE DEF IInv, TypeOK, HistoryType, Bump, Raise, Leave, GoTo, argVars,
              motionVars, missionVars, goalVars, turnVars, signalVars,
              ghostVars
  <1>1. CASE ExecutorStep
    BY <1>1 DEF ExecutorStep, ClearStopRequest, Bump, Move, EndOfChunk, Brake,
              AfterBrake, StopObserved
  <1>2. CASE AcquireStep
    BY <1>2 DEF AcquireStep, LookForLandmark, EnsureHealthy, LandmarkAcquired,
              TurnTowardsLandmark, TurnsLeft, Execute, AcquisitionFails
  <1>3. CASE GoalStep
    BY <1>3 DEF GoalStep, CheckGoal, EnsureHealthy, GoalFound, Bump, Reacquire,
              RefuseForwardMotion, BeginInspection, Proceed, InspectionTurn,
              TurnsLeft, Execute, EndInspection
  <1>4. CASE DecisionStep
    <2>1. CASE NextIteration BY <2>1 DEF NextIteration, NextDecision,
          GoalCheckDue, StopObserved
    <2>2. CASE Infer BY <2>2 DEF Infer, EnsureHealthy
    <2>3. CASE DecisionFails BY <2>3 DEF DecisionFails, Bump
    <2>4. CASE StopDecision BY <2>4 DEF StopDecision
    <2>5. CASE MotionDecision BY <2>5 DEF MotionDecision, Execute, StopObserved
    <2> QED BY <1>4, <2>1, <2>2, <2>3, <2>4, <2>5 DEF DecisionStep
  <1>5. CASE Setup BY <1>5 DEF Setup, motionVars
  <1>6. CASE Warmup BY <1>6 DEF Warmup
  <1>7. CASE BeginWaypoint BY <1>7 DEF BeginWaypoint, StopObserved
  <1>8. CASE EndWaypoint BY <1>8 DEF EndWaypoint, StopObserved,
        WaypointExhausted
  <1>9. CASE RestoreHandlers BY <1>9 DEF RestoreHandlers
  <1>10. CASE FinalStop BY <1>10 DEF FinalStop, FinalStopDue, Bump
  <1>11. CASE Terminate BY <1>11 DEF Terminate, RequestStop
  <1>12. CASE KeyboardInterrupt BY <1>12 DEF KeyboardInterrupt, RequestStop,
        Bump
  <1>13. CASE AbortCleanup BY <1>13 DEF AbortCleanup, Bump
  <1>14. CASE CameraFails BY <1>14 DEF CameraFails
  <1>15. CASE Finished BY <1>15 DEF Finished, vars
  <1> QED BY <1>1, <1>2, <1>3, <1>4, <1>5, <1>6, <1>7, <1>8, <1>9, <1>10,
            <1>11, <1>12, <1>13, <1>14, <1>15 DEF Next, MainStep

\* A step begins a chunk only for a caller entitled to it.
LEMMA ChunkStep == IInv /\ Next => ChunkInv'
  <1> SUFFICES ASSUME IInv, Next PROVE ChunkInv'
    OBVIOUS
  <1> USE SeerAssumption
  <1> USE DEF IInv, TypeOK, ControlType, MotionType, MissionType, SeerType,
              HistoryType, ChunkInv, InChunk, Kinds, Raise, Leave, GoTo,
              argVars, motionVars, missionVars, goalVars, turnVars, signalVars,
              ghostVars
  <1>1. CASE ExecutorStep
    BY <1>1 DEF ExecutorStep, ClearStopRequest, Bump, Move, EndOfChunk, Brake,
              AfterBrake, StopObserved
  <1>2. CASE AcquireStep
    BY <1>2 DEF AcquireStep, LookForLandmark, EnsureHealthy, LandmarkAcquired,
              TurnTowardsLandmark, TurnsLeft, Execute, AcquisitionFails
  <1>3. CASE GoalStep
    BY <1>3 DEF GoalStep, CheckGoal, EnsureHealthy, GoalFound, Bump, Reacquire,
              RefuseForwardMotion, BeginInspection, Proceed, InspectionTurn,
              TurnsLeft, Execute, EndInspection
  <1>4. CASE DecisionStep
    BY <1>4 DEF DecisionStep, NextIteration, NextDecision, GoalCheckDue,
              StopObserved, Infer, EnsureHealthy, DecisionFails, Bump,
              StopDecision, MotionDecision, Execute
  <1>5. CASE Setup BY <1>5 DEF Setup, motionVars
  <1>6. CASE Warmup BY <1>6 DEF Warmup
  <1>7. CASE BeginWaypoint BY <1>7 DEF BeginWaypoint, StopObserved
  <1>8. CASE EndWaypoint BY <1>8 DEF EndWaypoint, StopObserved,
        WaypointExhausted
  <1>9. CASE RestoreHandlers BY <1>9 DEF RestoreHandlers
  <1>10. CASE FinalStop BY <1>10 DEF FinalStop, FinalStopDue, Bump
  <1>11. CASE Terminate BY <1>11 DEF Terminate, RequestStop
  <1>12. CASE KeyboardInterrupt BY <1>12 DEF KeyboardInterrupt, RequestStop,
        Bump
  <1>13. CASE AbortCleanup BY <1>13 DEF AbortCleanup, Bump
  <1>14. CASE CameraFails BY <1>14 DEF CameraFails
  <1>15. CASE Finished BY <1>15 DEF Finished, vars
  <1> QED BY <1>1, <1>2, <1>3, <1>4, <1>5, <1>6, <1>7, <1>8, <1>9, <1>10,
            <1>11, <1>12, <1>13, <1>14, <1>15 DEF Next, MainStep

\* A step reads a goal result only where a check has just left one.
LEMMA SeerStep == IInv /\ Next => SeerInv'
  <1> SUFFICES ASSUME IInv, Next PROVE SeerInv'
    OBVIOUS
  <1> USE SeeGoalType, SeerAssumption
  <1> USE DEF IInv, TypeOK, ControlType, MotionType, MissionType, SeerType,
              HistoryType, SeerInv, ChunkInv, InChunk, Raise, Leave, GoTo,
              argVars, motionVars, missionVars, goalVars, turnVars, signalVars,
              ghostVars
  <1>1. CASE ExecutorStep
    BY <1>1 DEF ExecutorStep, ClearStopRequest, Bump, Move, EndOfChunk, Brake,
              AfterBrake, StopObserved
  <1>2. CASE AcquireStep
    BY <1>2 DEF AcquireStep, LookForLandmark, EnsureHealthy, LandmarkAcquired,
              TurnTowardsLandmark, TurnsLeft, Execute, AcquisitionFails
  <1>3. CASE GoalStep
    BY <1>3 DEF GoalStep, CheckGoal, EnsureHealthy, GoalFound, Bump, Reacquire,
              RefuseForwardMotion, BeginInspection, Proceed, InspectionTurn,
              TurnsLeft, Execute, EndInspection
  <1>4. CASE DecisionStep
    BY <1>4 DEF DecisionStep, NextIteration, NextDecision, GoalCheckDue,
              StopObserved, Infer, EnsureHealthy, DecisionFails, Bump,
              StopDecision, MotionDecision, Execute
  <1>5. CASE Setup BY <1>5 DEF Setup, motionVars
  <1>6. CASE Warmup BY <1>6 DEF Warmup
  <1>7. CASE BeginWaypoint BY <1>7 DEF BeginWaypoint, StopObserved
  <1>8. CASE EndWaypoint BY <1>8 DEF EndWaypoint, StopObserved,
        WaypointExhausted
  <1>9. CASE RestoreHandlers BY <1>9 DEF RestoreHandlers
  <1>10. CASE FinalStop BY <1>10 DEF FinalStop, FinalStopDue, Bump
  <1>11. CASE Terminate BY <1>11 DEF Terminate, RequestStop
  <1>12. CASE KeyboardInterrupt BY <1>12 DEF KeyboardInterrupt, RequestStop,
        Bump
  <1>13. CASE AbortCleanup BY <1>13 DEF AbortCleanup, Bump
  <1>14. CASE CameraFails BY <1>14 DEF CameraFails
  <1>15. CASE Finished BY <1>15 DEF Finished, vars
  <1> QED BY <1>1, <1>2, <1>3, <1>4, <1>5, <1>6, <1>7, <1>8, <1>9, <1>10,
            <1>11, <1>12, <1>13, <1>14, <1>15 DEF Next, MainStep

\* A step comes to a decision only past a result that authorises it.
LEMMA AuthorityStep == IInv /\ Next => AuthorityInv'
  <1> SUFFICES ASSUME IInv, Next PROVE AuthorityInv'
    OBVIOUS
  <1> USE ProceedIsAuthorised
  <1> USE DEF IInv, TypeOK, ControlType, MotionType, MissionType, SeerType,
              HistoryType, AuthorityInv, ForwardIsAuthorised, Deciding,
              SeerInv, ChunkInv, MotionInv, StillBetweenChunks, InChunk, Kinds,
              Raise, Leave, GoTo, argVars, motionVars, missionVars, goalVars,
              turnVars, signalVars, ghostVars
  <1>1. CASE ExecutorStep
    BY <1>1 DEF ExecutorStep, ClearStopRequest, Bump, Move, EndOfChunk, Brake,
              AfterBrake, StopObserved
  <1>2. CASE AcquireStep
    BY <1>2 DEF AcquireStep, LookForLandmark, EnsureHealthy, LandmarkAcquired,
              TurnTowardsLandmark, TurnsLeft, Execute, AcquisitionFails
  <1>3. CASE GoalStep
    BY <1>3 DEF GoalStep, CheckGoal, EnsureHealthy, GoalFound, Bump, Reacquire,
              RefuseForwardMotion, BeginInspection, Proceed, InspectionTurn,
              TurnsLeft, Execute, EndInspection
  <1>4. CASE DecisionStep
    <2>1. CASE NextIteration BY <2>1 DEF NextIteration, NextDecision,
          GoalCheckDue, StopObserved
    <2>2. CASE Infer BY <2>2 DEF Infer, EnsureHealthy
    <2>3. CASE DecisionFails BY <2>3 DEF DecisionFails, Bump
    <2>4. CASE StopDecision BY <2>4 DEF StopDecision
    <2>5. CASE MotionDecision BY <2>5 DEF MotionDecision, Execute, StopObserved
    <2> QED BY <1>4, <2>1, <2>2, <2>3, <2>4, <2>5 DEF DecisionStep
  <1>5. CASE Setup BY <1>5 DEF Setup, motionVars
  <1>6. CASE Warmup BY <1>6 DEF Warmup
  <1>7. CASE BeginWaypoint BY <1>7 DEF BeginWaypoint, StopObserved
  <1>8. CASE EndWaypoint BY <1>8 DEF EndWaypoint, StopObserved,
        WaypointExhausted
  <1>9. CASE RestoreHandlers BY <1>9 DEF RestoreHandlers
  <1>10. CASE FinalStop BY <1>10 DEF FinalStop, FinalStopDue, Bump
  <1>11. CASE Terminate BY <1>11 DEF Terminate, RequestStop
  <1>12. CASE KeyboardInterrupt BY <1>12 DEF KeyboardInterrupt, RequestStop,
        Bump
  <1>13. CASE AbortCleanup BY <1>13 DEF AbortCleanup, Bump
  <1>14. CASE CameraFails BY <1>14 DEF CameraFails
  <1>15. CASE Finished BY <1>15 DEF Finished, vars
  <1> QED BY <1>1, <1>2, <1>3, <1>4, <1>5, <1>6, <1>7, <1>8, <1>9, <1>10,
            <1>11, <1>12, <1>13, <1>14, <1>15 DEF Next, MainStep

\* A step lets the robot out of a chunk in motion only at the price of a fault.
LEMMA MotionStep == IInv /\ Next => MotionInv'
  <1> SUFFICES ASSUME IInv, Next PROVE MotionInv'
    OBVIOUS
  <1> USE DEF IInv, TypeOK, ControlType, MotionType, MissionType, SeerType,
              HistoryType, MotionInv, StillBetweenChunks, SingleFaultSafe,
              ChunkInv, InChunk, Kinds, Raise, Leave, GoTo, argVars,
              motionVars, missionVars, goalVars, turnVars, signalVars,
              ghostVars
  <1>1. CASE ExecutorStep
    BY <1>1 DEF ExecutorStep, ClearStopRequest, Bump, Move, EndOfChunk, Brake,
              AfterBrake, StopObserved
  <1>2. CASE AcquireStep
    BY <1>2 DEF AcquireStep, LookForLandmark, EnsureHealthy, LandmarkAcquired,
              TurnTowardsLandmark, TurnsLeft, Execute, AcquisitionFails
  <1>3. CASE GoalStep
    BY <1>3 DEF GoalStep, CheckGoal, EnsureHealthy, GoalFound, Bump, Reacquire,
              RefuseForwardMotion, BeginInspection, Proceed, InspectionTurn,
              TurnsLeft, Execute, EndInspection
  <1>4. CASE DecisionStep
    BY <1>4 DEF DecisionStep, NextIteration, NextDecision, GoalCheckDue,
              StopObserved, Infer, EnsureHealthy, DecisionFails, Bump,
              StopDecision, MotionDecision, Execute
  <1>5. CASE Setup BY <1>5 DEF Setup, motionVars
  <1>6. CASE Warmup BY <1>6 DEF Warmup
  <1>7. CASE BeginWaypoint BY <1>7 DEF BeginWaypoint, StopObserved
  <1>8. CASE EndWaypoint BY <1>8 DEF EndWaypoint, StopObserved,
        WaypointExhausted
  <1>9. CASE RestoreHandlers BY <1>9 DEF RestoreHandlers
  <1>10. CASE FinalStop BY <1>10 DEF FinalStop, FinalStopDue, Bump
  <1>11. CASE Terminate BY <1>11 DEF Terminate, RequestStop
  <1>12. CASE KeyboardInterrupt BY <1>12 DEF KeyboardInterrupt, RequestStop,
        Bump
  <1>13. CASE AbortCleanup BY <1>13 DEF AbortCleanup, Bump
  <1>14. CASE CameraFails BY <1>14 DEF CameraFails
  <1>15. CASE Finished BY <1>15 DEF Finished, vars
  <1> QED BY <1>1, <1>2, <1>3, <1>4, <1>5, <1>6, <1>7, <1>8, <1>9, <1>10,
            <1>11, <1>12, <1>13, <1>14, <1>15 DEF Next, MainStep

\* A step passes ensure_healthy() on its way from chunk to chunk.
LEMMA CameraStep == IInv /\ Next => CameraInv'
  <1> SUFFICES ASSUME IInv, Next PROVE CameraInv'
    OBVIOUS
  <1> USE DEF IInv, TypeOK, ControlType, MotionType, MissionType, SeerType,
              HistoryType, CameraInv, OneBlindChunk, Raise, Leave, GoTo,
              argVars, motionVars, missionVars, goalVars, turnVars, signalVars,
              ghostVars
  <1>1. CASE ExecutorStep
    BY <1>1 DEF ExecutorStep, ClearStopRequest, Bump, Move, EndOfChunk, Brake,
              AfterBrake, StopObserved
  <1>2. CASE AcquireStep
    BY <1>2 DEF AcquireStep, LookForLandmark, EnsureHealthy, LandmarkAcquired,
              TurnTowardsLandmark, TurnsLeft, Execute, AcquisitionFails
  <1>3. CASE GoalStep
    BY <1>3 DEF GoalStep, CheckGoal, EnsureHealthy, GoalFound, Bump, Reacquire,
              RefuseForwardMotion, BeginInspection, Proceed, InspectionTurn,
              TurnsLeft, Execute, EndInspection
  <1>4. CASE DecisionStep
    BY <1>4 DEF DecisionStep, NextIteration, NextDecision, GoalCheckDue,
              StopObserved, Infer, EnsureHealthy, DecisionFails, Bump,
              StopDecision, MotionDecision, Execute
  <1>5. CASE Setup BY <1>5 DEF Setup, motionVars
  <1>6. CASE Warmup BY <1>6 DEF Warmup
  <1>7. CASE BeginWaypoint BY <1>7 DEF BeginWaypoint, StopObserved
  <1>8. CASE EndWaypoint BY <1>8 DEF EndWaypoint, StopObserved,
        WaypointExhausted
  <1>9. CASE RestoreHandlers BY <1>9 DEF RestoreHandlers
  <1>10. CASE FinalStop BY <1>10 DEF FinalStop, FinalStopDue, Bump
  <1>11. CASE Terminate BY <1>11 DEF Terminate, RequestStop
  <1>12. CASE KeyboardInterrupt BY <1>12 DEF KeyboardInterrupt, RequestStop,
        Bump
  <1>13. CASE AbortCleanup BY <1>13 DEF AbortCleanup, Bump
  <1>14. CASE CameraFails BY <1>14 DEF CameraFails
  <1>15. CASE Finished BY <1>15 DEF Finished, vars
  <1> QED BY <1>1, <1>2, <1>3, <1>4, <1>5, <1>6, <1>7, <1>8, <1>9, <1>10,
            <1>11, <1>12, <1>13, <1>14, <1>15 DEF Next, MainStep

\* A step leaves the mission after a late chunk, if there is no seer.
LEMMA SignalStep == IInv /\ Next => SignalInv'
  <1> SUFFICES ASSUME IInv, Next PROVE SignalInv'
    OBVIOUS
  <1> USE DEF IInv, TypeOK, ControlType, MotionType, MissionType, SeerType,
              HistoryType, SignalInv, OneLateChunk, SeerInv, Unwinding,
              InChunk, Raise, Leave, GoTo, argVars, motionVars, missionVars,
              goalVars, turnVars, signalVars, ghostVars
  <1>1. CASE ExecutorStep
    BY <1>1 DEF ExecutorStep, ClearStopRequest, Bump, Move, EndOfChunk, Brake,
              AfterBrake, StopObserved
  <1>2. CASE AcquireStep
    BY <1>2 DEF AcquireStep, LookForLandmark, EnsureHealthy, LandmarkAcquired,
              TurnTowardsLandmark, TurnsLeft, Execute, AcquisitionFails
  <1>3. CASE GoalStep
    BY <1>3 DEF GoalStep, CheckGoal, EnsureHealthy, GoalFound, Bump, Reacquire,
              RefuseForwardMotion, BeginInspection, Proceed, InspectionTurn,
              TurnsLeft, Execute, EndInspection
  <1>4. CASE DecisionStep
    BY <1>4 DEF DecisionStep, NextIteration, NextDecision, GoalCheckDue,
              StopObserved, Infer, EnsureHealthy, DecisionFails, Bump,
              StopDecision, MotionDecision, Execute
  <1>5. CASE Setup BY <1>5 DEF Setup, motionVars
  <1>6. CASE Warmup BY <1>6 DEF Warmup
  <1>7. CASE BeginWaypoint BY <1>7 DEF BeginWaypoint, StopObserved
  <1>8. CASE EndWaypoint BY <1>8 DEF EndWaypoint, StopObserved,
        WaypointExhausted
  <1>9. CASE RestoreHandlers BY <1>9 DEF RestoreHandlers
  <1>10. CASE FinalStop BY <1>10 DEF FinalStop, FinalStopDue, Bump
  <1>11. CASE Terminate BY <1>11 DEF Terminate, RequestStop
  <1>12. CASE KeyboardInterrupt BY <1>12 DEF KeyboardInterrupt, RequestStop,
        Bump
  <1>13. CASE AbortCleanup BY <1>13 DEF AbortCleanup, Bump
  <1>14. CASE CameraFails BY <1>14 DEF CameraFails
  <1>15. CASE Finished BY <1>15 DEF Finished, vars
  <1> QED BY <1>1, <1>2, <1>3, <1>4, <1>5, <1>6, <1>7, <1>8, <1>9, <1>10,
            <1>11, <1>12, <1>13, <1>14, <1>15 DEF Next, MainStep

\* A step leaves no waypoint behind that is not concluded.
LEMMA MissionStep == IInv /\ Next => MissionInv'
  <1> SUFFICES ASSUME IInv, Next PROVE MissionInv'
    OBVIOUS
  <1> USE DEF IInv, TypeOK, ControlType, MotionType, MissionType, SeerType,
              HistoryType, MissionInv, Unwinding, Raise, Leave, GoTo, argVars,
              motionVars, missionVars, goalVars, turnVars, signalVars,
              ghostVars
  <1>1. CASE ExecutorStep
    BY <1>1 DEF ExecutorStep, ClearStopRequest, Bump, Move, EndOfChunk, Brake,
              AfterBrake, StopObserved
  <1>2. CASE AcquireStep
    BY <1>2 DEF AcquireStep, LookForLandmark, EnsureHealthy, LandmarkAcquired,
              TurnTowardsLandmark, TurnsLeft, Execute, AcquisitionFails
  <1>3. CASE GoalStep
    BY <1>3 DEF GoalStep, CheckGoal, EnsureHealthy, GoalFound, Bump, Reacquire,
              RefuseForwardMotion, BeginInspection, Proceed, InspectionTurn,
              TurnsLeft, Execute, EndInspection
  <1>4. CASE DecisionStep
    <2>1. CASE NextIteration BY <2>1 DEF NextIteration, NextDecision,
          GoalCheckDue, StopObserved
    <2>2. CASE Infer BY <2>2 DEF Infer, EnsureHealthy
    <2>3. CASE DecisionFails BY <2>3 DEF DecisionFails, Bump
    <2>4. CASE StopDecision BY <2>4 DEF StopDecision
    <2>5. CASE MotionDecision BY <2>5 DEF MotionDecision, Execute, StopObserved
    <2> QED BY <1>4, <2>1, <2>2, <2>3, <2>4, <2>5 DEF DecisionStep
  <1>5. CASE Setup BY <1>5 DEF Setup, motionVars
  <1>6. CASE Warmup BY <1>6 DEF Warmup
  <1>7. CASE BeginWaypoint BY <1>7 DEF BeginWaypoint, StopObserved
  <1>8. CASE EndWaypoint BY <1>8 DEF EndWaypoint, StopObserved,
        WaypointExhausted
  <1>9. CASE RestoreHandlers BY <1>9 DEF RestoreHandlers
  <1>10. CASE FinalStop BY <1>10 DEF FinalStop, FinalStopDue, Bump
  <1>11. CASE Terminate BY <1>11 DEF Terminate, RequestStop
  <1>12. CASE KeyboardInterrupt BY <1>12 DEF KeyboardInterrupt, RequestStop,
        Bump
  <1>13. CASE AbortCleanup BY <1>13 DEF AbortCleanup, Bump
  <1>14. CASE CameraFails BY <1>14 DEF CameraFails
  <1>15. CASE Finished BY <1>15 DEF Finished, vars
  <1> QED BY <1>1, <1>2, <1>3, <1>4, <1>5, <1>6, <1>7, <1>8, <1>9, <1>10,
            <1>11, <1>12, <1>13, <1>14, <1>15 DEF Next, MainStep

-----------------------------------------------------------------------------
(* What follows for the specification.                                     *)

\* The inductive invariant is an invariant of the gateway.
THEOREM Invariance == Spec => []IInv
  <1>1. IInv /\ UNCHANGED vars => IInv'
    BY DEF IInv, TypeOK, ControlType, MotionType, MissionType, SeerType,
           HistoryType, ChunkInv, SeerInv, AuthorityInv, MotionInv, CameraInv,
           SignalInv, MissionInv, InChunk, Unwinding, Deciding,
           ForwardIsAuthorised, StillBetweenChunks, SingleFaultSafe,
           OneBlindChunk, OneLateChunk, vars, argVars, motionVars, missionVars,
           goalVars, turnVars, signalVars, ghostVars
  <1>2. IInv /\ Next => IInv'
    BY ControlTypeStep, MotionTypeStep, MissionTypeStep, SeerTypeStep,
       HistoryTypeStep, ChunkStep, SeerStep, AuthorityStep, MotionStep,
       CameraStep, SignalStep, MissionStep
    DEF IInv, TypeOK
  <1>3. IInv /\ [Next]_vars => IInv'
    BY <1>1, <1>2
  <1> QED BY InitIInv, <1>3, PTL DEF Spec

\* Every variable keeps its type.
THEOREM TypeCorrect == Spec => []TypeOK
  <1>1. IInv => TypeOK BY DEF IInv
  <1> QED BY Invariance, <1>1, PTL

\* The robot rests whenever the main thread is not inside a chunk, unless the
\* mission is already over.
THEOREM RestBetweenChunks == Spec => []StillBetweenChunks
  <1>1. IInv => StillBetweenChunks BY DEF IInv, MotionInv
  <1> QED BY Invariance, <1>1, PTL

\* One lost StopMove or one untimely signal never leaves the robot walking.
THEOREM SingleFaultTolerance == Spec => []SingleFaultSafe
  <1>1. IInv => SingleFaultSafe BY DEF IInv, MotionInv
  <1> QED BY Invariance, <1>1, PTL

\* With the seer the robot walks forward only as the last check authorises.
THEOREM ForwardAuthority == Spec => []ForwardIsAuthorised
  <1>1. IInv => ForwardIsAuthorised BY DEF IInv, AuthorityInv
  <1> QED BY Invariance, <1>1, PTL

\* A rejected stop is followed by a goal check before anything else is decided.
THEOREM RejectedStops == Spec => []RejectedStopIsRechecked
  <1>1. IInv => RejectedStopIsRechecked
    BY DEF IInv, AuthorityInv, RejectedStopIsRechecked, InChunk
  <1> QED BY Invariance, <1>1, PTL

\* A dead camera costs at most one blind chunk.
THEOREM BlindMotion == Spec => []OneBlindChunk
  <1>1. IInv => OneBlindChunk BY DEF IInv, CameraInv
  <1> QED BY Invariance, <1>1, PTL

\* Without the seer, a stop request is outlived by at most one chunk.
THEOREM LateMotion == Spec => []OneLateChunk
  <1>1. IInv => OneLateChunk BY DEF IInv, SignalInv
  <1> QED BY Invariance, <1>1, PTL

\* Exit status 0 without a find means that every waypoint was searched.
THEOREM CleanExit == Spec => []CleanExitMeansSearched
  <1>1. IInv => CleanExitMeansSearched
    <2> SUFFICES ASSUME IInv, pc = "done", ExitStatus = "0", ~missionFound
                 PROVE  concluded = 1..NumWaypoints
      BY DEF CleanExitMeansSearched
    <2>1. outcome = "ok" /\ ~interrupted
      BY DEF ExitStatus, IInv, MissionInv, TypeOK, ControlType, Unwinding
    <2>2. wp = NumWaypoints /\ wp \in concluded /\ 1..(wp - 1) \subseteq concluded
      BY <2>1 DEF IInv, MissionInv
    <2>3. concluded \subseteq 1..NumWaypoints
      BY DEF IInv, TypeOK, MissionType
    <2>4. concluded = 1..(NumWaypoints - 1) \cup {NumWaypoints}
      BY <2>2, <2>3, BoundsAssumption
    <2> QED BY <2>4, BoundsAssumption
  <1> QED BY Invariance, <1>1, PTL

\* With the seer no textual stop of NaVILA completes a waypoint.
THEOREM SeerAuthority == Spec => SeerEndsWaypoint
  <1> DEFINE P == seer /\ ~waypointStopped /\ waypointStopped'
                    => missionFound' \/ phase = "inspect"
  <1>1. IInv /\ Next => P
    <2> SUFFICES ASSUME IInv, Next, seer, ~waypointStopped, waypointStopped'
                 PROVE  missionFound' \/ phase = "inspect"
      OBVIOUS
    <2>1. CASE GoalFound BY <2>1 DEF GoalFound
    <2>2. CASE EndInspection BY <2>2 DEF EndInspection, IInv, SeerInv
    <2>3. CASE StopDecision
      <3>1. goal \in GoalResult /\ AdvanceAuthorised(goal) /\ ~GoalItemFound(goal)
        BY <2>3 DEF StopDecision, IInv, AuthorityInv, Deciding, TypeOK, SeerType
      <3>2. PrematureSeerStop
        BY <3>1, AuthorisedIsPremature, SeerAssumption DEF PrematureSeerStop
      <3> QED BY <2>3, <3>2 DEF StopDecision
    <2>4. ~GoalFound /\ ~EndInspection /\ ~StopDecision => FALSE
      BY DEF Next, MainStep, ExecutorStep, AcquireStep, GoalStep, DecisionStep,
             Setup, Warmup, BeginWaypoint, ClearStopRequest, Move, EndOfChunk,
             Brake, LookForLandmark, LandmarkAcquired, TurnTowardsLandmark,
             AcquisitionFails, CheckGoal, Reacquire, RefuseForwardMotion,
             BeginInspection, Proceed, InspectionTurn, NextIteration, Infer,
             DecisionFails, MotionDecision, EndWaypoint, RestoreHandlers,
             FinalStop, Terminate, KeyboardInterrupt, AbortCleanup, CameraFails,
             Finished, missionVars, vars
    <2> QED BY <2>1, <2>2, <2>3, <2>4
  <1>2. IInv /\ [Next]_vars => [P]_vars BY <1>1
  <1> QED BY Invariance, <1>2, PTL DEF Spec, SeerEndsWaypoint

-----------------------------------------------------------------------------
(* The gateway's camera, for every --max-history-frames, every number of   *)
(* retries and every number of waypoints: what the history holds while the *)
(* worker thread appends to it and the mission thread clears it, and that  *)
(* the gateway samples it as the simulator does.                           *)

\* The frame in the worker's hands, not yet in the history.
InHand == worker \in {"append", "publish"}

WorkerInv ==
    /\ InHand => image \in Frame /\ nextSequence < MaxSequence
    /\ worker = "publish" => image.sequence = nextSequence
    /\ worker # "exited" => consecutive <= MaxErrors

\* The history ends just before the next sequence number.
EndsAtNext == frames # <<>> => frames[Len(frames)].sequence = nextSequence - 1

\* A frame that was read before the last clear() is the first to be appended
\* after it.
StaleComesFirst == InHand /\ frames # <<>> => image.waypoint = waypoint

CaptureIInv == /\ CaptureType /\ WorkerInv /\ EndsAtNext /\ StaleComesFirst
        /\ OnlyFirstFrameStale /\ HistoryIsContiguous

-----------------------------------------------------------------------------
(* Trimming.                                                               *)

\* A trimmed history is the end of the longer one: its frames are those of
\* the longer one, so many places further on.
LEMMA TrimIsSuffix ==
  ASSUME NEW s \in Seq(Frame), s # <<>>
  PROVE  \E d \in Nat :
            /\ Trim(s) \in Seq(Frame) /\ Len(Trim(s)) = Len(s) - d
            /\ d < Len(s)
            /\ \A i \in 1..Len(Trim(s)) : i + d \in 1..Len(s) /\ Trim(s)[i] = s[i + d]
            /\ MaxFrames # 0 => Len(Trim(s)) <= MaxFrames
  <1> USE CaptureAssumption
  <1>1. CASE MaxFrames # 0 /\ Len(s) > MaxFrames
    <2> DEFINE d == Len(s) - MaxFrames
    <2>1. d \in Nat /\ d < Len(s) /\ Trim(s) = SubSeq(s, d + 1, Len(s))
      BY <1>1 DEF Trim
    <2>2. Trim(s) \in Seq(Frame) /\ Len(Trim(s)) = Len(s) - d
      BY <2>1
    <2>3. \A i \in 1..Len(Trim(s)) : i + d \in 1..Len(s) /\ Trim(s)[i] = s[i + d]
      BY <2>1, <2>2
    <2>4. MaxFrames # 0 => Len(Trim(s)) <= MaxFrames
      BY <2>1, <2>2
    <2> HIDE DEF d
    <2> QED BY <2>1, <2>2, <2>3, <2>4
  <1>2. CASE ~(MaxFrames # 0 /\ Len(s) > MaxFrames)
    <2>1. Trim(s) = s
      BY <1>2 DEF Trim
    <2>2. 0 < Len(s) /\ \A i \in 1..Len(s) : i + 0 = i
      OBVIOUS
    <2> QED BY <2>1, <2>2, <1>2
  <1> QED BY <1>1, <1>2

\* A frame that is appended, and the history trimmed: the last frame is the
\* new one, and each other frame follows the frame it followed before.
LEMMA AppendAndTrim ==
  ASSUME NEW s \in Seq(Frame), NEW f \in Frame
  PROVE  LET t == Trim(Append(s, f)) IN
         /\ t \in Seq(Frame) /\ t # <<>> /\ t[Len(t)] = f
         /\ MaxFrames # 0 => Len(t) <= MaxFrames
         /\ \A i \in 2..Len(t) :
              \/ i = Len(t) /\ s # <<>> /\ t[i-1] = s[Len(s)]
              \/ \E j \in 2..Len(s) : t[i] = s[j] /\ t[i-1] = s[j-1]
  <1> DEFINE a == Append(s, f)
             t == Trim(a)
  <1>1. /\ a \in Seq(Frame) /\ a # <<>> /\ Len(a) = Len(s) + 1 /\ a[Len(a)] = f
        /\ \A i \in 1..Len(s) : a[i] = s[i]
    OBVIOUS
  <1> HIDE DEF a
  <1>2. PICK d \in Nat :
            /\ t \in Seq(Frame) /\ Len(t) = Len(a) - d
            /\ d < Len(a)
            /\ \A i \in 1..Len(t) : i + d \in 1..Len(a) /\ t[i] = a[i + d]
            /\ MaxFrames # 0 => Len(t) <= MaxFrames
    BY <1>1, TrimIsSuffix
  <1> HIDE DEF t
  <1>3. Len(t) \in Nat \ {0} /\ t # <<>> /\ t[Len(t)] = f
    BY <1>1, <1>2
  <1>4. ASSUME NEW i \in 2..Len(t)
        PROVE  \/ i = Len(t) /\ s # <<>> /\ t[i-1] = s[Len(s)]
               \/ \E j \in 2..Len(s) : t[i] = s[j] /\ t[i-1] = s[j-1]
    <2>1. /\ i \in Nat /\ i - 1 \in 1..Len(t) /\ t[i] = a[i + d] /\ t[i-1] = a[i - 1 + d]
          /\ Len(t) = Len(s) + 1 - d /\ Len(s) \in Nat
      BY <1>1, <1>2, <1>3
    <2>2. CASE i = Len(t)
      <3>1. i - 1 + d = Len(s) /\ Len(s) >= 1
        BY <2>1, <2>2
      <3> QED BY <2>1, <2>2, <3>1, <1>1
    <2>3. CASE i # Len(t)
      <3>1. i + d \in 2..Len(s) /\ i - 1 + d = (i + d) - 1 /\ i - 1 + d \in 1..Len(s)
        BY <2>1, <2>3
      <3>2. t[i] = s[i + d] /\ t[i-1] = s[(i + d) - 1]
        BY <2>1, <3>1, <1>1
      <3> QED BY <3>1, <3>2
    <2> QED BY <2>2, <2>3
  <1> QED BY <1>2, <1>3, <1>4 DEF t, a

-----------------------------------------------------------------------------
(* The choice of frames.                                                   *)

\* What the mission samples is a choice of frames and padding.
LEMMA SampleType ==
  ASSUME NEW s \in Seq(Frame), s # <<>>
  PROVE  SampleFrames(s) \in [1..NumSlots -> Frame \cup {Black}]
  <1> USE CaptureAssumption
  <1>1. CASE Len(s) < NumSlots
    <2> DEFINE pad == [i \in 1..(NumSlots - Len(s)) |-> Black]
    <2>1. pad \in Seq(Frame \cup {Black}) /\ Len(pad) = NumSlots - Len(s)
      BY <1>1
    <2>2. s \in Seq(Frame \cup {Black})
      OBVIOUS
    <2> HIDE DEF pad
    <2> DEFINE both == pad \o s
    <2>3. both \in Seq(Frame \cup {Black}) /\ Len(both) = NumSlots
      BY <2>1, <2>2
    <2>4. SampleFrames(s) = both
      BY <1>1 DEF SampleFrames, Padding, pad
    <2> HIDE DEF both
    <2>5. both \in [1..Len(both) -> Frame \cup {Black}]
      BY <2>3
    <2> QED BY <2>3, <2>4, <2>5
  <1>2. CASE Len(s) >= NumSlots
    <2>1. SampleFrames(s) = [i \in 1..NumSlots |->
             IF i < NumSlots THEN s[SlotIndex(i, Len(s))] ELSE s[Len(s)]]
      BY <1>2 DEF SampleFrames
    <2>2. ASSUME NEW i \in 1..NumSlots, i < NumSlots
          PROVE  SlotIndex(i, Len(s)) \in 1..Len(s)
      <3> DEFINE m == NumSlots - 1
                 n == Len(s) - 1
                 x == (i - 1) * n
      <3>1. m \in Nat /\ m > 0 /\ n \in Nat /\ i - 1 \in 0..m
        BY <1>2
      <3>2. x \in Nat /\ x <= m * n
        BY <3>1
      <3>3. x \div m \in 0..n
        BY <3>1, <3>2
      <3> QED BY <3>3 DEF SlotIndex
    <2> QED BY <2>1, <2>2
  <1> QED BY <1>1, <1>2

\* A division that leaves nothing.
LEMMA ExactDivision ==
  ASSUME NEW a \in Nat, NEW b \in Nat \ {0}
  PROVE  (a * b) \div b = a
  OBVIOUS

\* The gateway's choice is the simulator's, for every history that is not
\* empty: unitree_gateway.py pads only a short history, frames.py pads first
\* and then spreads its choice over what it has.
LEMMA SampleIsHistory ==
  ASSUME NEW s \in Seq(Frame), s # <<>>
  PROVE  SampleFrames(s) = SampleHistory(s)
  <1> USE CaptureAssumption
  <1> DEFINE missing == IF Len(s) < NumSlots THEN NumSlots - Len(s) ELSE 0
             padded  == [i \in 1..missing |-> Black] \o s
             count   == Len(padded)
  <1>0. SampleHistory(s) = [i \in 1..NumSlots |->
            IF i = NumSlots THEN padded[count]
            ELSE padded[((i - 1) * (count - 1)) \div (NumSlots - 1) + 1]]
    BY DEF SampleHistory
  <1>1. CASE Len(s) < NumSlots
    <2>1. padded = Padding(s) /\ SampleFrames(s) = padded
      BY <1>1 DEF Padding, SampleFrames
    <2>2. count = NumSlots
      BY <1>1
    <2>3. SampleFrames(s) \in [1..NumSlots -> Frame \cup {Black}]
      BY SampleType
    <2>4. \A i \in 1..NumSlots : ((i - 1) * (NumSlots - 1)) \div (NumSlots - 1) = i - 1
      BY ExactDivision
    <2>5. SampleHistory(s) = [i \in 1..NumSlots |-> padded[i]]
      <3> HIDE DEF padded, count
      <3>1. padded[count] = padded[NumSlots]
        BY <2>2
      <3>2. ASSUME NEW i \in 1..NumSlots
            PROVE  ((i - 1) * (count - 1)) \div (NumSlots - 1) + 1 = i
        BY <2>2, <2>4
      <3> QED BY <1>0, <3>1, <3>2
    <2> HIDE DEF padded, count
    <2> QED BY <2>1, <2>3, <2>5
  <1>2. CASE Len(s) >= NumSlots
    <2>1. missing = 0 /\ padded = s
      BY <1>2
    <2> HIDE DEF missing, padded
    <2> QED BY <1>0, <1>2, <2>1 DEF SampleFrames, SlotIndex
  <1> QED BY <1>1, <1>2

-----------------------------------------------------------------------------
(* The invariant.                                                          *)

\* The worker has been started on an empty history.
LEMMA InitCaptureIInv == CaptureInit => CaptureIInv
  <1> SUFFICES ASSUME CaptureInit PROVE CaptureIInv
    OBVIOUS
  <1>1. CaptureType
    <2>1. frames \in Seq(Frame) /\ Len(frames) = 0
      BY DEF CaptureInit
    <2>2. waypoint \in 1..MissionWaypoints /\ nextSequence \in 0..MaxSequence
      BY CaptureAssumption DEF CaptureInit
    <2>3. attempt \in 0..FrameRetries /\ consecutive \in 0..MaxErrors + 1
      BY CaptureAssumption DEF CaptureInit
    <2>4. (MaxFrames # 0 => Len(frames) <= MaxFrames) /\ image \in Frame \cup {Black}
      BY <2>1, CaptureAssumption DEF CaptureInit
    <2>5. /\ worker \in {"test", "read", "append", "publish", "exited"}
          /\ error \in BOOLEAN /\ stop \in BOOLEAN /\ expired \in BOOLEAN
          /\ main \in {"wait", "asleep", "timed_out", "healthy", "sample", "decide",
                       "close", "join", "closed"}
      BY DEF CaptureInit
    <2>6. sampled = <<>>
      BY DEF CaptureInit
    <2> QED BY <2>1, <2>2, <2>3, <2>4, <2>5, <2>6 DEF CaptureType
  <1>2. frames = <<>> /\ worker = "test" /\ consecutive = 0
    BY DEF CaptureInit
  <1> QED BY <1>1, <1>2, CaptureAssumption
          DEF CaptureIInv, WorkerInv, InHand, EndsAtNext, StaleComesFirst, OnlyFirstFrameStale,
              HistoryIsContiguous

\* The worker reads, fails, numbers and stops: the history is left alone.
LEMMA WorkerReads ==
  ASSUME CaptureIInv, TestStop \/ ReadFrame \/ RetryRead \/ ReadFails \/ EncodeFrame
  PROVE  CaptureIInv'
  <1> USE CaptureAssumption
  <1>0. UNCHANGED <<frames, nextSequence, mainVars>>
    BY DEF TestStop, ReadFrame, RetryRead, ReadFails, EncodeFrame, historyVars
  <1>1. /\ EndsAtNext' /\ OnlyFirstFrameStale' /\ HistoryIsContiguous'
    BY <1>0 DEF CaptureIInv, EndsAtNext, OnlyFirstFrameStale, HistoryIsContiguous, mainVars
  <1>2. CASE TestStop
    <2>1. CaptureType' /\ WorkerInv' /\ StaleComesFirst'
      BY <1>2 DEF CaptureIInv, CaptureType, WorkerInv, InHand, StaleComesFirst, TestStop, historyVars,
                  mainVars
    <2> QED BY <1>1, <2>1 DEF CaptureIInv
  <1>3. CASE ReadFrame
    <2>1. image' \in Frame /\ image'.waypoint = waypoint
      BY <1>3 DEF CaptureIInv, CaptureType, ReadFrame, Frame
    <2>2. CaptureType' /\ WorkerInv' /\ StaleComesFirst'
      BY <2>1, <1>3 DEF CaptureIInv, CaptureType, WorkerInv, InHand, StaleComesFirst, ReadFrame,
                        historyVars, mainVars
    <2> QED BY <1>1, <2>2 DEF CaptureIInv
  <1>4. CASE RetryRead
    <2>1. CaptureType' /\ WorkerInv' /\ StaleComesFirst'
      BY <1>4 DEF CaptureIInv, CaptureType, WorkerInv, InHand, StaleComesFirst, RetryRead, historyVars,
                  mainVars
    <2> QED BY <1>1, <2>1 DEF CaptureIInv
  <1>5. CASE ReadFails
    <2>1. consecutive \in Nat /\ consecutive <= MaxErrors /\ consecutive' = consecutive + 1
      BY <1>5 DEF CaptureIInv, CaptureType, WorkerInv, ReadFails
    <2>2. consecutive' \in 0..MaxErrors + 1
      BY <2>1
    <2>3. \/ worker' = "exited" /\ error' = TRUE /\ stop' = TRUE
          \/ worker' = "test" /\ consecutive' <= MaxErrors /\ UNCHANGED <<error, stop>>
      BY <1>5, <2>1 DEF ReadFails, TooManyErrors
    <2>4. CaptureType'
      BY <2>2, <2>3, <1>5 DEF CaptureIInv, CaptureType, ReadFails, historyVars, mainVars
    <2>5. WorkerInv' /\ StaleComesFirst'
      BY <2>3 DEF WorkerInv, InHand, StaleComesFirst
    <2> QED BY <1>1, <2>4, <2>5 DEF CaptureIInv
  <1>6. CASE EncodeFrame
    <2>1. /\ image \in Frame /\ nextSequence \in Nat /\ nextSequence < MaxSequence
      BY <1>6 DEF CaptureIInv, CaptureType, WorkerInv, InHand, EncodeFrame
    <2>2. /\ image' \in Frame /\ image'.waypoint = image.waypoint
          /\ image'.sequence = nextSequence
      BY <2>1, <1>6 DEF EncodeFrame, Frame
    <2>3. CaptureType' /\ WorkerInv' /\ StaleComesFirst'
      BY <2>1, <2>2, <1>6 DEF CaptureIInv, CaptureType, WorkerInv, InHand, StaleComesFirst, EncodeFrame,
                              historyVars, mainVars
    <2> QED BY <1>1, <2>3 DEF CaptureIInv
  <1> QED BY <1>2, <1>3, <1>4, <1>5, <1>6

\* A frame goes into the history.
LEMMA FrameIsPublished == ASSUME CaptureIInv, PublishFrame PROVE CaptureIInv'
  <1> USE CaptureAssumption
  <1>1. /\ frames \in Seq(Frame) /\ image \in Frame /\ image.sequence = nextSequence
        /\ nextSequence \in Nat /\ nextSequence < MaxSequence /\ MaxSequence \in Nat
        /\ waypoint \in 1..MissionWaypoints
    BY DEF CaptureIInv, CaptureType, WorkerInv, InHand, PublishFrame
  <1>2. /\ frames' = Trim(Append(frames, image)) /\ nextSequence' = nextSequence + 1
        /\ waypoint' = waypoint /\ worker' = "test"
    BY DEF PublishFrame
  <1>3. /\ frames' \in Seq(Frame) /\ frames' # <<>> /\ frames'[Len(frames')] = image
        /\ MaxFrames # 0 => Len(frames') <= MaxFrames
        /\ \A i \in 2..Len(frames') :
             \/ i = Len(frames') /\ frames # <<>> /\ frames'[i-1] = frames[Len(frames)]
             \/ \E j \in 2..Len(frames) : frames'[i] = frames[j] /\ frames'[i-1] = frames[j-1]
    <2> DEFINE t == Trim(Append(frames, image))
    <2>1. /\ t \in Seq(Frame) /\ t # <<>> /\ t[Len(t)] = image
          /\ MaxFrames # 0 => Len(t) <= MaxFrames
          /\ \A i \in 2..Len(t) :
               \/ i = Len(t) /\ frames # <<>> /\ t[i-1] = frames[Len(frames)]
               \/ \E j \in 2..Len(frames) : t[i] = frames[j] /\ t[i-1] = frames[j-1]
      BY <1>1, AppendAndTrim
    <2>2. t = frames'
      BY <1>2
    <2> HIDE DEF t
    <2> QED BY <2>1, <2>2
  <1>4. DOMAIN frames' = 1..Len(frames') /\ DOMAIN frames = 1..Len(frames) /\ Len(frames) \in Nat
    BY <1>1, <1>3
  <1>5. CaptureType'
    BY <1>1, <1>2, <1>3 DEF CaptureIInv, CaptureType, PublishFrame, NotifyAll
  <1>6. WorkerInv' /\ StaleComesFirst' /\ EndsAtNext'
    BY <1>1, <1>2, <1>3 DEF CaptureIInv, WorkerInv, InHand, StaleComesFirst, EndsAtNext, PublishFrame
  <1>7. OnlyFirstFrameStale'
    <2> SUFFICES ASSUME NEW i \in 2..Len(frames') PROVE frames'[i].waypoint = waypoint
      BY <1>2, <1>4 DEF OnlyFirstFrameStale
    <2>1. CASE i = Len(frames') /\ frames # <<>>
      BY <2>1, <1>3 DEF CaptureIInv, StaleComesFirst, InHand, PublishFrame
    <2>2. CASE \E j \in 2..Len(frames) : frames'[i] = frames[j] /\ frames'[i-1] = frames[j-1]
      BY <2>2, <1>4 DEF CaptureIInv, OnlyFirstFrameStale
    <2> QED BY <1>3, <2>1, <2>2
  <1>8. HistoryIsContiguous'
    <2> SUFFICES ASSUME NEW i \in 2..Len(frames')
                 PROVE  frames'[i].sequence = frames'[i-1].sequence + 1
      BY <1>4 DEF HistoryIsContiguous
    <2>1. CASE i = Len(frames') /\ frames # <<>> /\ frames'[i-1] = frames[Len(frames)]
      <3>1. frames'[i].sequence = nextSequence
        BY <2>1, <1>1, <1>3
      <3>2. frames'[i-1].sequence = nextSequence - 1
        BY <2>1 DEF CaptureIInv, EndsAtNext
      <3> QED BY <3>1, <3>2, <1>1
    <2>2. CASE \E j \in 2..Len(frames) : frames'[i] = frames[j] /\ frames'[i-1] = frames[j-1]
      <3>1. PICK j \in 2..Len(frames) : frames'[i] = frames[j] /\ frames'[i-1] = frames[j-1]
        BY <2>2
      <3>2. j \in DOMAIN frames /\ j > 1
        BY <1>4
      <3>3. frames[j].sequence = frames[j-1].sequence + 1
        BY <3>2 DEF CaptureIInv, HistoryIsContiguous
      <3> QED BY <3>1, <3>3
    <2> QED BY <1>3, <2>1, <2>2
  <1> QED BY <1>5, <1>6, <1>7, <1>8 DEF CaptureIInv

\* The mission thread waits, samples and decides: it leaves the history alone.
LEMMA MissionWaits ==
  ASSUME CaptureIInv,
         \/ WaitFor \/ Deadline \/ ReportTimeout \/ EnsureWorkerHealthy \/ Sample
         \/ DecideAgain \/ MissionEnds \/ Close \/ JoinReturns
  PROVE  CaptureIInv'
  <1> USE CaptureAssumption
  <1>1. UNCHANGED <<historyVars, workerVars, waypoint>>
    BY DEF WaitFor, Deadline, ReportTimeout, EnsureWorkerHealthy, Sample, DecideAgain, MissionEnds,
           Close, JoinReturns, mainVars
  <1>2. /\ WorkerInv' /\ EndsAtNext' /\ StaleComesFirst' /\ OnlyFirstFrameStale'
        /\ HistoryIsContiguous'
    BY <1>1 DEF CaptureIInv, WorkerInv, InHand, EndsAtNext, StaleComesFirst, OnlyFirstFrameStale,
                HistoryIsContiguous, historyVars, workerVars
  <1>3. /\ main' \in {"wait", "asleep", "timed_out", "healthy", "sample", "decide", "close",
                      "join", "closed"}
        /\ expired' \in BOOLEAN /\ stop' \in BOOLEAN
    BY DEF CaptureIInv, CaptureType, WaitFor, Deadline, ReportTimeout, EnsureWorkerHealthy, Sample, DecideAgain,
           MissionEnds, Close, JoinReturns, mainVars
  <1>4. sampled' = <<>> \/ sampled' \in [1..NumSlots -> Frame \cup {Black}]
    <2>1. CASE Sample
      BY <2>1, SampleType DEF CaptureIInv, CaptureType, Sample
    <2>2. CASE ~Sample
      BY <2>2 DEF CaptureIInv, CaptureType, WaitFor, Deadline, ReportTimeout, EnsureWorkerHealthy, DecideAgain,
                  MissionEnds, Close, JoinReturns, mainVars
    <2> QED BY <2>1, <2>2
  <1>5. CaptureType'
    BY <1>1, <1>3, <1>4 DEF CaptureIInv, CaptureType, historyVars, workerVars
  <1> QED BY <1>2, <1>5 DEF CaptureIInv

\* A waypoint is left behind: the history is cleared under whatever the worker
\* is doing.
LEMMA HistoryIsCleared == ASSUME CaptureIInv, NextWaypoint PROVE CaptureIInv'
  <1>1. /\ frames' = <<>> /\ nextSequence' = nextSequence /\ waypoint' = waypoint + 1
        /\ UNCHANGED <<worker, image, consecutive>>
    BY DEF NextWaypoint, Cleared, SequenceAfterClear, workerVars
  <1>2. CaptureType'
    <2>1. frames' \in Seq(Frame) /\ Len(frames') = 0
      BY <1>1
    <2>2. waypoint' \in 1..MissionWaypoints
      BY CaptureAssumption DEF CaptureIInv, CaptureType, NextWaypoint
    <2>3. MaxFrames # 0 => Len(frames') <= MaxFrames
      BY <2>1, CaptureAssumption
    <2>4. main' = "wait" /\ expired' = FALSE /\ sampled' = <<>> /\ UNCHANGED <<workerVars, stop>>
      BY DEF NextWaypoint
    <2> QED BY <2>1, <2>2, <2>3, <2>4, <1>1 DEF CaptureIInv, CaptureType, workerVars
  <1>3. /\ WorkerInv' /\ EndsAtNext' /\ StaleComesFirst' /\ OnlyFirstFrameStale'
        /\ HistoryIsContiguous'
    BY <1>1 DEF CaptureIInv, WorkerInv, InHand, EndsAtNext, StaleComesFirst, OnlyFirstFrameStale,
                HistoryIsContiguous
  <1> QED BY <1>2, <1>3 DEF CaptureIInv

-----------------------------------------------------------------------------
(* The theorems.                                                           *)

\* The inductive invariant holds in every reachable state.
THEOREM CaptureInvariance == CaptureSpec => []CaptureIInv
  <1>1. CaptureIInv /\ [CaptureNext]_captureVars => CaptureIInv'
    <2> SUFFICES ASSUME CaptureIInv, [CaptureNext]_captureVars PROVE CaptureIInv'
      OBVIOUS
    <2>1. CASE UNCHANGED captureVars
      BY <2>1 DEF CaptureIInv, CaptureType, WorkerInv, InHand, EndsAtNext, StaleComesFirst,
                  OnlyFirstFrameStale, HistoryIsContiguous, captureVars, historyVars, workerVars,
                  mainVars
    <2>2. CASE WorkerStep
      BY <2>2, WorkerReads, FrameIsPublished DEF WorkerStep
    <2>3. CASE MissionThreadStep \/ Deadline
      BY <2>3, MissionWaits, HistoryIsCleared DEF MissionThreadStep
    <2> QED BY <2>1, <2>2, <2>3 DEF CaptureNext, CaptureFinished
  <1> QED BY <1>1, InitCaptureIInv, PTL DEF CaptureSpec

\* Every variable keeps its type, and the history its length.
THEOREM CaptureTypeCorrect == CaptureSpec => []CaptureType
  BY CaptureInvariance, PTL DEF CaptureIInv

\* However the worker's reading, numbering and publishing fall between two
\* waypoints: only the first frame of the history may be of an earlier one.
THEOREM StaleFrameIsFirst == CaptureSpec => []OnlyFirstFrameStale
  BY CaptureInvariance, PTL DEF CaptureIInv

\* For every limit on the history, clears included: no gap and no repetition.
THEOREM HistoryHasNoGap == CaptureSpec => []HistoryIsContiguous
  BY CaptureInvariance, PTL DEF CaptureIInv

\* For every history and every number of slots the gateway samples what the
\* simulator would.
THEOREM SamplesAreThoseOfTheSimulator == CaptureSpec => SampleMatchesSimulator
  <1>1. CaptureIInv /\ [CaptureNext]_captureVars =>
          (main = "sample" /\ main' = "decide" => sampled' = SampleHistory(frames))
    <2> SUFFICES ASSUME CaptureIInv, CaptureNext, main = "sample", main' = "decide"
                 PROVE  sampled' = SampleHistory(frames)
      BY DEF captureVars, mainVars
    <2>1. Sample
      BY DEF CaptureNext, WorkerStep, TestStop, ReadFrame, RetryRead, ReadFails, EncodeFrame,
             PublishFrame, NotifyAll, MissionThreadStep, WaitFor, ReportTimeout, EnsureWorkerHealthy,
             DecideAgain, NextWaypoint, MissionEnds, Close, JoinReturns, Deadline, CaptureFinished,
             mainVars, captureVars
    <2>2. frames \in Seq(Frame) /\ frames # <<>> /\ sampled' = SampleFrames(frames)
      BY <2>1 DEF Sample, CaptureIInv, CaptureType
    <2> QED BY <2>2, SampleIsHistory
  <1>2. CaptureIInv /\ [CaptureNext]_captureVars =>
          [main = "sample" /\ main' = "decide" => sampled' = SampleHistory(frames)]_captureVars
    BY <1>1
  <1> QED BY <1>2, CaptureInvariance, PTL DEF CaptureSpec, SampleMatchesSimulator
=============================================================================
