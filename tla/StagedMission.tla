---------------------------- MODULE StagedMission ----------------------------
(***************************************************************************)
(* What a simulator mission promises its operator: the stages are done one *)
(* after the other, none is skipped, none is left without the robot having *)
(* moved in it, and a mission that is reported complete has done them all. *)
(* A mission without stages may be declared complete at any time.          *)
(***************************************************************************)
EXTENDS Naturals

CONSTANT Stages

VARIABLES stage,  \* stages completed so far
          moved,  \* the robot has moved in the present stage
          status

missionVars == <<stage, moved, status>>

Init == stage = 0 /\ moved = FALSE /\ status = "running"

Move ==
    /\ status = "running"
    /\ moved' = TRUE
    /\ UNCHANGED <<stage, status>>

CompleteStage ==
    /\ status = "running" /\ moved
    /\ stage + 1 < Stages
    /\ stage' = stage + 1 /\ moved' = FALSE
    /\ UNCHANGED status

CompleteMission ==
    /\ status = "running"
    /\ Stages = 0 \/ (moved /\ stage + 1 = Stages)
    /\ status' = "complete"
    /\ UNCHANGED <<stage, moved>>

GiveUp ==
    /\ status = "running"
    /\ status' = "ended"
    /\ UNCHANGED <<stage, moved>>

Next == Move \/ CompleteStage \/ CompleteMission \/ GiveUp

Spec == Init /\ [][Next]_missionVars
=============================================================================
