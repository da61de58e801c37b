------------------------ MODULE KeyboardTeleopProofs ------------------------
(***************************************************************************)
(* Proofs about KeyboardTeleop for every hold time, every blocking time,   *)
(* every number of keys and steps: only a fresh key moves the robot, the   *)
(* policy acts on the command in force, anchors are true, and a session    *)
(* ends with the robot told to stand, its record written and the terminal  *)
(* as it was found.                                                        *)
(***************************************************************************)
EXTENDS KeyboardTeleop, SequenceTheorems, TLAPS

\* The pulse in force and the age of its key never exceed the hold time
\* together, so a deadline that has not passed belongs to a fresh key.
PulseInv ==
    active # Zero => active = asked /\ quiet + left <= Hold

\* Where the thread may be with which world: past a step the report says
\* whether the world was reset, and the loop goes on only if it was not.
WorldInv ==
    /\ phase = "step" => shown = latch
    /\ phase \in {"mirror", "limits"} => (reset <=> ended # "no")
    /\ phase \in {"closed", "built", "open", "warmup", "first", "keys", "label", "command",
                  "step"} => ~reset

\* Outside the keyboard's context and in a prompt the terminal is canonical;
\* otherwise the canonical mode is the one that will be restored.
TerminalInv ==
    /\ phase \in {"closed", "built", "label", "over"} => tty = "cooked" /\ saved = None
    /\ phase \in {"open", "warmup", "first", "keys", "command", "step", "mirror", "limits",
                  "cleanup", "write"} => saved = "cooked"
    /\ phase = "leave" => saved = "cooked" \/ (saved = None /\ tty = "cooked")

\* What the finally block has done by each of its phases.
CleanupInv ==
    /\ phase \in {"closed", "built", "open", "warmup", "first"} => stepId = 0
    /\ phase \in {"write", "leave", "over"} /\ stepId > 0 /\ "zero" \notin failed =>
          latch = Zero /\ twist = Zero
    /\ phase \in {"leave", "over"} /\ stepId > 0 /\ "write" \notin failed =>
          artifact # None /\ artifact.steps = stepId /\ artifact.anchors = anchors


-----------------------------------------------------------------------------
\* Every variable keeps its type.

\* Every action keeps every variable in its type.
LEMMA TypeStep ==
  TypeOK /\ TerminalInv /\ [Next]_vars => TypeOK'
<1> SUFFICES ASSUME TypeOK, TerminalInv, [Next]_vars
             PROVE  TypeOK'
  OBVIOUS
<1> USE TeleopAssumption, BackendAssumption, ArtifactAssumption DEF TerminalInv, TypeOK, BackendType, Commands, Zero, Phases, vars, backendVars, sessionVars, driveVars, ttyVars, recordVars, Reasons
<1>1. CASE Build
  BY <1>1 DEF Build, StartBackend, StartRefused, ApplyAndRefresh, Goto
<1>2. CASE OpenKeyboard
  BY <1>2 DEF OpenKeyboard, Goto
<1>3. CASE ResetPhysics
  BY <1>3 DEF ResetPhysics, BeginReset, ApplyAndRefresh, Goto
<1>4. CASE WarmUp
  BY <1>4 DEF WarmUp, WarmupStep, EndWarmup, World, ApplyAndRefresh, Goto
<1>5. CASE FirstView
  BY <1>5 DEF FirstView, PushState, FrameAccepted, Frames, Elapse, Minus, AtMost, Goto
<1>6. CASE QuitKey
  BY <1>6 DEF QuitKey, KeyPressed, Goto
<1>7. CASE BrakeKey
  BY <1>7 DEF BrakeKey, KeyPressed
<1>8. CASE SpeedKey
  BY <1>8 DEF SpeedKey, KeyPressed, Faster, Slower, AtMost
<1>9. CASE MotionKey
  BY <1>9 DEF MotionKey, KeyPressed
<1>10. CASE MarkKey
  BY <1>10 DEF MarkKey, KeyPressed, Goto
<1>11. CASE LabelGiven
  <2>1. AnchorOf(None) \in Anchor /\ \A frame \in Frames : AnchorOf(frame) \in Anchor
    BY DEF AnchorOf, Frames, Anchor
  <2>2. anchors' = anchors \/ \E a \in Anchor : anchors' = Append(anchors, a)
    BY <1>11, <2>1 DEF LabelGiven
  <2>3. anchors' \in Seq(Anchor)
    <3>1. anchors \in Seq(Anchor)
      BY DEF TypeOK
    <3>2. CASE anchors' = anchors
      BY <3>1, <3>2
    <3>3. ASSUME NEW a \in Anchor, anchors' = Append(anchors, a)
          PROVE  anchors' \in Seq(Anchor)
      <4>1. Append(anchors, a) \in Seq(Anchor)
        BY <3>1, AppendProperties
      <4> QED BY <4>1, <3>3
    <3> QED BY <2>2, <3>2, <3>3
  <2>4. phase' \in Phases /\ pushed' \in Nat \cup {None}
    BY <1>11 DEF LabelGiven, PushState, Goto
  <2>5. left' \in 0..Hold /\ quiet' \in 0..Hold
    BY <1>11 DEF LabelGiven, Elapse, Minus, AtMost
  <2>6. tty' \in {"cooked", "cbreak"} /\ saved' \in {"cooked", "cbreak", None}
    BY <1>11 DEF LabelGiven, BackToKeys
  <2> QED BY <1>11, <2>3, <2>4, <2>5, <2>6 DEF LabelGiven
<1>12. CASE EndOfKeys
  BY <1>12 DEF EndOfKeys, Elapse, Minus, AtMost, Goto
<1>13. CASE Command
  BY <1>13 DEF Command, Watchdog, SetVelocityCommand, ApplyAndRefresh, Goto
<1>14. CASE Step
  BY <1>14 DEF Step, AdvanceWorld, World, ApplyAndRefresh, Terminated, Truncated, Elapse, Minus, AtMost, Goto
<1>15. CASE Mirror
  BY <1>15 DEF Mirror, PushState, PushDue, CaptureDue, FrameAccepted, Frames, Elapse, Minus, AtMost, Goto
<1>16. CASE Limits
  BY <1>16 DEF Limits, Ending, Reached, Elapse, SameTime, Minus, AtMost, Goto
<1>17. CASE Raise
  BY <1>17 DEF Raise, BackToKeys, Goto
<1>18. CASE Zeroing
  <2>1. failed' = failed \/ failed' = failed \cup {"zero"}
    BY <1>18 DEF Zeroing
  <2>2. failed' \subseteq {"zero", "write"}
    BY <2>1 DEF TypeOK
  <2>3. latch' \in Commands /\ twist' \in Commands /\ shown' \in Commands /\ phase' \in Phases
    BY <1>18 DEF Zeroing, SetVelocityCommand, ApplyAndRefresh, Goto
  <2> QED BY <1>18, <2>2, <2>3 DEF Zeroing
<1>19. CASE WriteArtifacts
  <2>1. failed' = failed \/ failed' = failed \cup {"write"}
    BY <1>19 DEF WriteArtifacts
  <2>2. failed' \subseteq {"zero", "write"}
    BY <2>1 DEF TypeOK
  <2>3. [reason |-> reason, steps |-> stepId, anchors |-> anchors] \in Artifacts
    BY DEF TypeOK, BackendType, Artifacts
  <2>4. artifact' \in Artifacts \cup {None} /\ phase' \in Phases
    BY <1>19, <2>3 DEF WriteArtifacts, Goto
  <2> QED BY <1>19, <2>2, <2>4 DEF WriteArtifacts
<1>20. CASE Leave
  BY <1>20 DEF Leave, CloseBackend, Goto
<1>21. CASE Over
  BY <1>21 DEF Over
<1>22. CASE UNCHANGED vars
  BY <1>22
<1> QED BY <1>1, <1>2, <1>3, <1>4, <1>5, <1>6, <1>7, <1>8, <1>9, <1>10, <1>11, <1>12, <1>13, <1>14, <1>15, <1>16, <1>17, <1>18, <1>19, <1>20, <1>21, <1>22 DEF Next

\* A pulse ages as fast as its deadline comes near.
LEMMA PulseStep ==
  TypeOK /\ PulseInv /\ [Next]_vars => PulseInv'
<1> SUFFICES ASSUME TypeOK, PulseInv, [Next]_vars
             PROVE  PulseInv'
  OBVIOUS
<1> USE TeleopAssumption, BackendAssumption, ArtifactAssumption DEF PulseInv, TypeOK, BackendType, Commands, Zero, Phases, vars, backendVars, sessionVars, driveVars, ttyVars, recordVars
<1>1. CASE Build
  BY <1>1 DEF Build, StartBackend, StartRefused, ApplyAndRefresh, Goto
<1>2. CASE OpenKeyboard
  BY <1>2 DEF OpenKeyboard, Goto
<1>3. CASE ResetPhysics
  BY <1>3 DEF ResetPhysics, BeginReset, ApplyAndRefresh, Goto
<1>4. CASE WarmUp
  BY <1>4 DEF WarmUp, WarmupStep, EndWarmup, World, ApplyAndRefresh, Goto
<1>5. CASE FirstView
  BY <1>5 DEF FirstView, PushState, FrameAccepted, Frames, Elapse, Minus, AtMost, Goto
<1>6. CASE QuitKey
  BY <1>6 DEF QuitKey, KeyPressed, Goto
<1>7. CASE BrakeKey
  BY <1>7 DEF BrakeKey, KeyPressed
<1>8. CASE SpeedKey
  BY <1>8 DEF SpeedKey, KeyPressed, Faster, Slower, AtMost
<1>9. CASE MotionKey
  BY <1>9 DEF MotionKey, KeyPressed
<1>10. CASE MarkKey
  BY <1>10 DEF MarkKey, KeyPressed, Goto
<1>11. CASE LabelGiven
  BY <1>11 DEF LabelGiven, BackToKeys, PushState, FrameAccepted, Frames, AnchorOf, Elapse, Minus, AtMost, Goto
<1>12. CASE EndOfKeys
  BY <1>12 DEF EndOfKeys, Elapse, Minus, AtMost, Goto
<1>13. CASE Command
  BY <1>13 DEF Command, Watchdog, SetVelocityCommand, ApplyAndRefresh, Goto
<1>14. CASE Step
  BY <1>14 DEF Step, AdvanceWorld, World, ApplyAndRefresh, Terminated, Truncated, Elapse, Minus, AtMost, Goto
<1>15. CASE Mirror
  BY <1>15 DEF Mirror, PushState, PushDue, CaptureDue, FrameAccepted, Frames, Elapse, Minus, AtMost, Goto
<1>16. CASE Limits
  BY <1>16 DEF Limits, Ending, Reached, Elapse, SameTime, Minus, AtMost, Goto
<1>17. CASE Raise
  BY <1>17 DEF Raise, BackToKeys, Goto
<1>18. CASE Zeroing
  BY <1>18 DEF Zeroing, SetVelocityCommand, ApplyAndRefresh, Goto
<1>19. CASE WriteArtifacts
  BY <1>19 DEF WriteArtifacts, Goto
<1>20. CASE Leave
  BY <1>20 DEF Leave, CloseBackend, Goto
<1>21. CASE Over
  BY <1>21 DEF Over
<1>22. CASE UNCHANGED vars
  BY <1>22
<1> QED BY <1>1, <1>2, <1>3, <1>4, <1>5, <1>6, <1>7, <1>8, <1>9, <1>10, <1>11, <1>12, <1>13, <1>14, <1>15, <1>16, <1>17, <1>18, <1>19, <1>20, <1>21, <1>22 DEF Next

\* A world that reset itself is always reported, so no step follows it.
LEMMA WorldStep ==
  TypeOK /\ WorldInv /\ [Next]_vars => WorldInv'
<1> SUFFICES ASSUME TypeOK, WorldInv, [Next]_vars
             PROVE  WorldInv'
  OBVIOUS
<1> USE TeleopAssumption, BackendAssumption, ArtifactAssumption DEF WorldInv, TypeOK, BackendType, Commands, Zero, Phases, vars, backendVars, sessionVars, driveVars, ttyVars, recordVars
<1>1. CASE Build
  BY <1>1 DEF Build, StartBackend, StartRefused, ApplyAndRefresh, Goto
<1>2. CASE OpenKeyboard
  BY <1>2 DEF OpenKeyboard, Goto
<1>3. CASE ResetPhysics
  BY <1>3 DEF ResetPhysics, BeginReset, ApplyAndRefresh, Goto
<1>4. CASE WarmUp
  BY <1>4 DEF WarmUp, WarmupStep, EndWarmup, World, ApplyAndRefresh, Goto
<1>5. CASE FirstView
  BY <1>5 DEF FirstView, PushState, FrameAccepted, Frames, Elapse, Minus, AtMost, Goto
<1>6. CASE QuitKey
  BY <1>6 DEF QuitKey, KeyPressed, Goto
<1>7. CASE BrakeKey
  BY <1>7 DEF BrakeKey, KeyPressed
<1>8. CASE SpeedKey
  BY <1>8 DEF SpeedKey, KeyPressed, Faster, Slower, AtMost
<1>9. CASE MotionKey
  BY <1>9 DEF MotionKey, KeyPressed
<1>10. CASE MarkKey
  BY <1>10 DEF MarkKey, KeyPressed, Goto
<1>11. CASE LabelGiven
  BY <1>11 DEF LabelGiven, BackToKeys, PushState, FrameAccepted, Frames, AnchorOf, Elapse, Minus, AtMost, Goto
<1>12. CASE EndOfKeys
  BY <1>12 DEF EndOfKeys, Elapse, Minus, AtMost, Goto
<1>13. CASE Command
  BY <1>13 DEF Command, Watchdog, SetVelocityCommand, ApplyAndRefresh, Goto
<1>14. CASE Step
  BY <1>14 DEF Step, AdvanceWorld, World, ApplyAndRefresh, Terminated, Truncated, Elapse, Minus, AtMost, Goto
<1>15. CASE Mirror
  BY <1>15 DEF Mirror, PushState, PushDue, CaptureDue, FrameAccepted, Frames, Elapse, Minus, AtMost, Goto
<1>16. CASE Limits
  BY <1>16 DEF Limits, Ending, Reached, Elapse, SameTime, Minus, AtMost, Goto
<1>17. CASE Raise
  BY <1>17 DEF Raise, BackToKeys, Goto
<1>18. CASE Zeroing
  BY <1>18 DEF Zeroing, SetVelocityCommand, ApplyAndRefresh, Goto
<1>19. CASE WriteArtifacts
  BY <1>19 DEF WriteArtifacts, Goto
<1>20. CASE Leave
  BY <1>20 DEF Leave, CloseBackend, Goto
<1>21. CASE Over
  BY <1>21 DEF Over
<1>22. CASE UNCHANGED vars
  BY <1>22
<1> QED BY <1>1, <1>2, <1>3, <1>4, <1>5, <1>6, <1>7, <1>8, <1>9, <1>10, <1>11, <1>12, <1>13, <1>14, <1>15, <1>16, <1>17, <1>18, <1>19, <1>20, <1>21, <1>22 DEF Next

\* Anchors are added in a live world, with a picture of the step at hand.
LEMMA AnchorStep ==
  TypeOK /\ WorldInv /\ AnchorsAreTrue /\ [Next]_vars => AnchorsAreTrue'
<1> SUFFICES ASSUME TypeOK, WorldInv, AnchorsAreTrue, [Next]_vars
             PROVE  AnchorsAreTrue'
  OBVIOUS
<1> USE TeleopAssumption, BackendAssumption, ArtifactAssumption DEF AnchorsAreTrue, WorldInv, TypeOK, BackendType, Commands, Zero, Phases, vars, backendVars, sessionVars, driveVars, ttyVars, recordVars, Anchor
<1>1. CASE Build
  BY <1>1 DEF Build, StartBackend, StartRefused, ApplyAndRefresh, Goto
<1>2. CASE OpenKeyboard
  BY <1>2 DEF OpenKeyboard, Goto
<1>3. CASE ResetPhysics
  BY <1>3 DEF ResetPhysics, BeginReset, ApplyAndRefresh, Goto
<1>4. CASE WarmUp
  BY <1>4 DEF WarmUp, WarmupStep, EndWarmup, World, ApplyAndRefresh, Goto
<1>5. CASE FirstView
  BY <1>5 DEF FirstView, PushState, FrameAccepted, Frames, Elapse, Minus, AtMost, Goto
<1>6. CASE QuitKey
  BY <1>6 DEF QuitKey, KeyPressed, Goto
<1>7. CASE BrakeKey
  BY <1>7 DEF BrakeKey, KeyPressed
<1>8. CASE SpeedKey
  BY <1>8 DEF SpeedKey, KeyPressed, Faster, Slower, AtMost
<1>9. CASE MotionKey
  BY <1>9 DEF MotionKey, KeyPressed
<1>10. CASE MarkKey
  BY <1>10 DEF MarkKey, KeyPressed, Goto
<1>11. CASE LabelGiven
  <2>1. CASE anchors' = anchors
    BY <2>1
  <2>2. CASE \E a : a.step = stepId /\ ~a.reset /\ a.picture \in {None, stepId}
                   /\ anchors' = Append(anchors, a)
    <3>1. PICK a : a.step = stepId /\ ~a.reset /\ a.picture \in {None, stepId}
                   /\ anchors' = Append(anchors, a)
      BY <2>2
    <3>2. \A i \in DOMAIN anchors' :
             (i \in DOMAIN anchors /\ anchors'[i] = anchors[i]) \/ anchors'[i] = a
      BY <3>1 DEF TypeOK
    <3> QED BY <3>1, <3>2
  <2>3. AnchorOf(None).step = stepId /\ ~AnchorOf(None).reset /\ AnchorOf(None).picture = None
    BY <1>11 DEF AnchorOf, LabelGiven
  <2>4. AnchorOf(stepId).step = stepId /\ ~AnchorOf(stepId).reset
            /\ AnchorOf(stepId).picture = stepId
    BY <1>11 DEF AnchorOf, LabelGiven
  <2>5. anchors' = anchors \/ anchors' = Append(anchors, AnchorOf(None))
                          \/ anchors' = Append(anchors, AnchorOf(stepId))
    BY <1>11 DEF LabelGiven, FrameAccepted
  <2> QED BY <2>1, <2>2, <2>3, <2>4, <2>5
<1>12. CASE EndOfKeys
  BY <1>12 DEF EndOfKeys, Elapse, Minus, AtMost, Goto
<1>13. CASE Command
  BY <1>13 DEF Command, Watchdog, SetVelocityCommand, ApplyAndRefresh, Goto
<1>14. CASE Step
  BY <1>14 DEF Step, AdvanceWorld, World, ApplyAndRefresh, Terminated, Truncated, Elapse, Minus, AtMost, Goto
<1>15. CASE Mirror
  BY <1>15 DEF Mirror, PushState, PushDue, CaptureDue, FrameAccepted, Frames, Elapse, Minus, AtMost, Goto
<1>16. CASE Limits
  BY <1>16 DEF Limits, Ending, Reached, Elapse, SameTime, Minus, AtMost, Goto
<1>17. CASE Raise
  BY <1>17 DEF Raise, BackToKeys, Goto
<1>18. CASE Zeroing
  BY <1>18 DEF Zeroing, SetVelocityCommand, ApplyAndRefresh, Goto
<1>19. CASE WriteArtifacts
  BY <1>19 DEF WriteArtifacts, Goto
<1>20. CASE Leave
  BY <1>20 DEF Leave, CloseBackend, Goto
<1>21. CASE Over
  BY <1>21 DEF Over
<1>22. CASE UNCHANGED vars
  BY <1>22
<1> QED BY <1>1, <1>2, <1>3, <1>4, <1>5, <1>6, <1>7, <1>8, <1>9, <1>10, <1>11, <1>12, <1>13, <1>14, <1>15, <1>16, <1>17, <1>18, <1>19, <1>20, <1>21, <1>22 DEF Next

\* The mode to restore is always the canonical one.
LEMMA TerminalStep ==
  TypeOK /\ TerminalInv /\ [Next]_vars => TerminalInv'
<1> SUFFICES ASSUME TypeOK, TerminalInv, [Next]_vars
             PROVE  TerminalInv'
  OBVIOUS
<1> USE TeleopAssumption, BackendAssumption, ArtifactAssumption DEF TerminalInv, TypeOK, BackendType, Commands, Zero, Phases, vars, backendVars, sessionVars, driveVars, ttyVars, recordVars
<1>1. CASE Build
  BY <1>1 DEF Build, StartBackend, StartRefused, ApplyAndRefresh, Goto
<1>2. CASE OpenKeyboard
  BY <1>2 DEF OpenKeyboard, Goto
<1>3. CASE ResetPhysics
  BY <1>3 DEF ResetPhysics, BeginReset, ApplyAndRefresh, Goto
<1>4. CASE WarmUp
  BY <1>4 DEF WarmUp, WarmupStep, EndWarmup, World, ApplyAndRefresh, Goto
<1>5. CASE FirstView
  BY <1>5 DEF FirstView, PushState, FrameAccepted, Frames, Elapse, Minus, AtMost, Goto
<1>6. CASE QuitKey
  BY <1>6 DEF QuitKey, KeyPressed, Goto
<1>7. CASE BrakeKey
  BY <1>7 DEF BrakeKey, KeyPressed
<1>8. CASE SpeedKey
  BY <1>8 DEF SpeedKey, KeyPressed, Faster, Slower, AtMost
<1>9. CASE MotionKey
  BY <1>9 DEF MotionKey, KeyPressed
<1>10. CASE MarkKey
  BY <1>10 DEF MarkKey, KeyPressed, Goto
<1>11. CASE LabelGiven
  BY <1>11 DEF LabelGiven, BackToKeys, PushState, FrameAccepted, Frames, AnchorOf, Elapse, Minus, AtMost, Goto
<1>12. CASE EndOfKeys
  BY <1>12 DEF EndOfKeys, Elapse, Minus, AtMost, Goto
<1>13. CASE Command
  BY <1>13 DEF Command, Watchdog, SetVelocityCommand, ApplyAndRefresh, Goto
<1>14. CASE Step
  BY <1>14 DEF Step, AdvanceWorld, World, ApplyAndRefresh, Terminated, Truncated, Elapse, Minus, AtMost, Goto
<1>15. CASE Mirror
  BY <1>15 DEF Mirror, PushState, PushDue, CaptureDue, FrameAccepted, Frames, Elapse, Minus, AtMost, Goto
<1>16. CASE Limits
  BY <1>16 DEF Limits, Ending, Reached, Elapse, SameTime, Minus, AtMost, Goto
<1>17. CASE Raise
  BY <1>17 DEF Raise, BackToKeys, Goto
<1>18. CASE Zeroing
  BY <1>18 DEF Zeroing, SetVelocityCommand, ApplyAndRefresh, Goto
<1>19. CASE WriteArtifacts
  BY <1>19 DEF WriteArtifacts, Goto
<1>20. CASE Leave
  BY <1>20 DEF Leave, CloseBackend, Goto
<1>21. CASE Over
  BY <1>21 DEF Over
<1>22. CASE UNCHANGED vars
  BY <1>22
<1> QED BY <1>1, <1>2, <1>3, <1>4, <1>5, <1>6, <1>7, <1>8, <1>9, <1>10, <1>11, <1>12, <1>13, <1>14, <1>15, <1>16, <1>17, <1>18, <1>19, <1>20, <1>21, <1>22 DEF Next

\* The finally block runs to its end on every way out.
LEMMA CleanupStep ==
  TypeOK /\ CleanupInv /\ [Next]_vars => CleanupInv'
<1> SUFFICES ASSUME TypeOK, CleanupInv, [Next]_vars
             PROVE  CleanupInv'
  OBVIOUS
<1> USE TeleopAssumption, BackendAssumption, ArtifactAssumption DEF CleanupInv, TypeOK, BackendType, Commands, Zero, Phases, vars, backendVars, sessionVars, driveVars, ttyVars, recordVars, Reasons, Anchor, Artifacts
<1>1. CASE Build
  BY <1>1 DEF Build, StartBackend, StartRefused, ApplyAndRefresh, Goto
<1>2. CASE OpenKeyboard
  BY <1>2 DEF OpenKeyboard, Goto
<1>3. CASE ResetPhysics
  BY <1>3 DEF ResetPhysics, BeginReset, ApplyAndRefresh, Goto
<1>4. CASE WarmUp
  BY <1>4 DEF WarmUp, WarmupStep, EndWarmup, World, ApplyAndRefresh, Goto
<1>5. CASE FirstView
  BY <1>5 DEF FirstView, PushState, FrameAccepted, Frames, Elapse, Minus, AtMost, Goto
<1>6. CASE QuitKey
  BY <1>6 DEF QuitKey, KeyPressed, Goto
<1>7. CASE BrakeKey
  BY <1>7 DEF BrakeKey, KeyPressed
<1>8. CASE SpeedKey
  BY <1>8 DEF SpeedKey, KeyPressed, Faster, Slower, AtMost
<1>9. CASE MotionKey
  BY <1>9 DEF MotionKey, KeyPressed
<1>10. CASE MarkKey
  BY <1>10 DEF MarkKey, KeyPressed, Goto
<1>11. CASE LabelGiven
  BY <1>11 DEF LabelGiven, BackToKeys, PushState, FrameAccepted, Frames, AnchorOf, Elapse, Minus, AtMost, Goto
<1>12. CASE EndOfKeys
  BY <1>12 DEF EndOfKeys, Elapse, Minus, AtMost, Goto
<1>13. CASE Command
  BY <1>13 DEF Command, Watchdog, SetVelocityCommand, ApplyAndRefresh, Goto
<1>14. CASE Step
  BY <1>14 DEF Step, AdvanceWorld, World, ApplyAndRefresh, Terminated, Truncated, Elapse, Minus, AtMost, Goto
<1>15. CASE Mirror
  BY <1>15 DEF Mirror, PushState, PushDue, CaptureDue, FrameAccepted, Frames, Elapse, Minus, AtMost, Goto
<1>16. CASE Limits
  BY <1>16 DEF Limits, Ending, Reached, Elapse, SameTime, Minus, AtMost, Goto
<1>17. CASE Raise
  BY <1>17 DEF Raise, BackToKeys, Goto
<1>18. CASE Zeroing
  BY <1>18 DEF Zeroing, SetVelocityCommand, ApplyAndRefresh, Goto
<1>19. CASE WriteArtifacts
  BY <1>19 DEF WriteArtifacts, Goto
<1>20. CASE Leave
  BY <1>20 DEF Leave, CloseBackend, Goto
<1>21. CASE Over
  BY <1>21 DEF Over
<1>22. CASE UNCHANGED vars
  BY <1>22
<1> QED BY <1>1, <1>2, <1>3, <1>4, <1>5, <1>6, <1>7, <1>8, <1>9, <1>10, <1>11, <1>12, <1>13, <1>14, <1>15, <1>16, <1>17, <1>18, <1>19, <1>20, <1>21, <1>22 DEF Next

-----------------------------------------------------------------------------
IInv == TypeOK /\ PulseInv /\ WorldInv /\ AnchorsAreTrue /\ TerminalInv /\ CleanupInv

\* The strengthened invariant holds in every reachable state.
THEOREM Invariance == Spec => []IInv
<1>1. Init => IInv
  <2> SUFFICES ASSUME Init PROVE IInv
    OBVIOUS
  <2> USE TeleopAssumption, BackendAssumption DEF Init, BackendInit
  <2>1. Zero \in Commands /\ 1 \in 1..MaxScale
    BY DEF Commands
  <2>2. BackendType /\ phase \in Phases /\ reason \in Reasons
    BY <2>1 DEF BackendType, Phases, Reasons
  <2>3. preview \in BOOLEAN /\ live \in BOOLEAN /\ reset \in BOOLEAN
    OBVIOUS
  <2>4. anchors \in Seq(Anchor) /\ artifact \in Artifacts \cup {None}
    OBVIOUS
  <2>5. failed \subseteq {"zero", "write"}
    OBVIOUS
  <2>6. TypeOK
    BY <2>1, <2>2, <2>3, <2>4, <2>5 DEF TypeOK
  <2>7. PulseInv /\ WorldInv /\ AnchorsAreTrue
    BY DEF PulseInv, WorldInv, AnchorsAreTrue
  <2>8. TerminalInv /\ CleanupInv
    BY DEF TerminalInv, CleanupInv
  <2> QED BY <2>6, <2>7, <2>8 DEF IInv
<1>2. IInv /\ [Next]_vars => IInv'
  BY TypeStep, PulseStep, WorldStep, AnchorStep, TerminalStep, CleanupStep DEF IInv
<1> QED BY <1>1, <1>2, PTL DEF Spec

\* Type correctness, for every value of the constants.
THEOREM TypeCorrect == Spec => []TypeOK
<1>1. IInv => TypeOK
  BY DEF IInv
<1> QED BY <1>1, Invariance, PTL

\* An anchor's picture and pose are of one step of the session.
THEOREM AnchorsTrue == Spec => []AnchorsAreTrue
<1>1. IInv => AnchorsAreTrue
  BY DEF IInv
<1> QED BY <1>1, Invariance, PTL

\* Every session that moved ends with the robot told to stand, its record
\* written, and the terminal as it was found.
THEOREM SessionsEndSafely == Spec => []EndsSafely
<1>1. IInv => EndsSafely
  BY DEF IInv, EndsSafely, TerminalInv, CleanupInv
<1> QED BY <1>1, Invariance, PTL

\* Only a key younger than the hold time moves the robot.
THEOREM OnlyFreshKeysDrive == Spec => DrivenByKey
<1>1. IInv /\ [Next]_vars => [phase' = "step" /\ latch' # Zero => quiet < Hold /\ latch' = asked]_vars
  <2> SUFFICES ASSUME IInv, Next, phase' = "step", latch' # Zero
               PROVE  quiet < Hold /\ latch' = asked
    OBVIOUS
  <2>1. Command
    BY DEF Next, Build, OpenKeyboard, ResetPhysics, WarmUp, FirstView, KeyPressed, QuitKey,
           BrakeKey, SpeedKey, MotionKey, MarkKey, LabelGiven, EndOfKeys, Command, Step,
           Mirror, Limits, Raise, Zeroing, WriteArtifacts, Leave, Over, Goto, vars
  <2>3. left # 0 /\ latch' = active /\ active # Zero
    BY <2>1 DEF Command, Watchdog, SetVelocityCommand
  <2> QED BY <2>1, <2>3, TeleopAssumption DEF IInv, TypeOK, PulseInv
<1> QED BY <1>1, Invariance, PTL DEF Spec, DrivenByKey

\* The policy never acts on another command than the one in force, nor in a
\* world that was reset behind the caller's back.
THEOREM StepsOfThisSession == Spec => StepsAreOfThisSession
<1>1. IInv /\ [Next]_vars => [stepId' = stepId + 1 => shown = latch /\ ~reset]_vars
  <2> SUFFICES ASSUME IInv, Next, stepId' = stepId + 1
               PROVE  shown = latch /\ ~reset
    OBVIOUS
  <2>1. stepId \in Nat
    BY DEF IInv, TypeOK, BackendType
  <2>2. Step
    BY <2>1 DEF Next, backendVars, vars, Build, StartBackend, StartRefused, OpenKeyboard, ResetPhysics,
           BeginReset, WarmUp, WarmupStep, EndWarmup, FirstView, KeyPressed, QuitKey, BrakeKey,
           SpeedKey, MotionKey, MarkKey, LabelGiven, EndOfKeys, Command, Mirror, Limits, Raise,
           Zeroing, WriteArtifacts, Leave, CloseBackend, Over
  <2> QED BY <2>2 DEF Step, IInv, WorldInv
<1> QED BY <1>1, Invariance, PTL DEF Spec, StepsAreOfThisSession
=============================================================================
