------------------------------ MODULE GoalSeer ------------------------------
(***************************************************************************)
(* The goal seer: a vision model that is shown the live camera image and   *)
(* the reference image of a landmark, and answers what it sees of the      *)
(* landmark and of the searched item (OpenAIQueryRouter.see_goal), and     *)
(* the predicates by which the Unitree gateway reads that answer.          *)
(*                                                                         *)
(* Numbers are kept only as far as a predicate tells them apart: a         *)
(* confidence is whether it reaches the configured minimum, a bearing is   *)
(* whether it lies within the configured maximum or beyond it, and on      *)
(* which side.                                                             *)
(***************************************************************************)

Bearing == {"left", "centre", "right"}

Distance == {"far", "approach", "near", "too_close", "unknown"}

\* What the model may answer for one image: the JSON object after its
\* per-field type and range checks.
GoalReply ==
    [ landmark_visible        : BOOLEAN,
      landmark_confident      : BOOLEAN,
      landmark_bearing        : Bearing,
      landmark_distance_state : Distance,
      safe_to_advance         : BOOLEAN,
      item_visible            : BOOLEAN,
      item_confident          : BOOLEAN,
      item_distance_state     : Distance \ {"too_close"},
      item_accessible         : BOOLEAN,
      item_safe_to_advance    : BOOLEAN ]

-----------------------------------------------------------------------------
(* The fields of an answer are made consistent before anything reads them. *)

ForgetLandmark(r) ==
    IF r.landmark_visible THEN r
    ELSE [r EXCEPT !.landmark_bearing        = "centre",
                   !.landmark_distance_state = "unknown",
                   !.safe_to_advance         = FALSE]

ForgetItem(r) ==
    IF r.item_visible THEN r
    ELSE [r EXCEPT !.item_distance_state  = "unknown",
                   !.item_accessible      = FALSE,
                   !.item_safe_to_advance = FALSE]

\* Near an obstacle, or without a distance, the model's own advance flag is
\* overruled.
VetoCloseAdvance(r) ==
    IF r.landmark_distance_state \in {"near", "too_close", "unknown"}
    THEN [r EXCEPT !.safe_to_advance = FALSE]
    ELSE r

\* The result see_goal returns for an answer.
SeeGoal(r) == VetoCloseAdvance(ForgetItem(ForgetLandmark(r)))

GoalResult == {r \in GoalReply :
    /\ r.safe_to_advance => /\ r.landmark_visible
                            /\ r.landmark_distance_state \in {"far", "approach"}
    /\ r.item_safe_to_advance => r.item_visible}

-----------------------------------------------------------------------------
(* How the gateway reads a result.                                         *)

GoalItemVisible(g) == g.item_visible /\ g.item_confident

GoalItemFound(g) ==
    /\ GoalItemVisible(g)
    /\ g.landmark_distance_state \in {"near", "too_close"}
    /\ g.item_distance_state = "near"

GoalItemApproachAllowed(g) ==
    /\ GoalItemVisible(g)
    /\ ~GoalItemFound(g)
    /\ g.item_distance_state \in {"far", "approach", "near"}
    /\ g.item_safe_to_advance

GoalItemRequiresInspection(g) ==
    /\ GoalItemVisible(g)
    /\ ~GoalItemFound(g)
    /\ ~GoalItemApproachAllowed(g)

GoalLandmarkCentered(g) ==
    /\ g.landmark_visible
    /\ g.landmark_confident
    /\ g.landmark_bearing = "centre"

GoalRequiresInspection(g) == GoalLandmarkCentered(g) /\ ~g.safe_to_advance

GoalSeerRequiresMoreApproach(g) ==
    \/ GoalItemApproachAllowed(g)
    \/ /\ g.landmark_visible
       /\ g.landmark_confident
       /\ g.landmark_distance_state \in {"far", "approach"}
       /\ g.safe_to_advance

\* The gateway's guard in front of the in-place inspection.
MustInspect(g) ==
    \/ GoalItemRequiresInspection(g)
    \/ ~GoalItemApproachAllowed(g) /\ GoalRequiresInspection(g)

-----------------------------------------------------------------------------
(* The landmark seer answers about the landmark alone; acquisition reads   *)
(* only whether it is visible, and where.                                  *)

Sighting == [visible : BOOLEAN, bearing : Bearing]

\* _seer_target_visible of a see_landmark result, and its bearing, which
\* see_landmark sets to zero for a landmark it does not report.
SeeLandmark(target_visible, confident, bearing) ==
    [visible |-> target_visible /\ confident,
     bearing |-> IF target_visible THEN bearing ELSE "centre"]

TargetCentered(s) == s.visible /\ s.bearing = "centre"

LandmarkResultFromGoal(g) ==
    SeeLandmark(g.landmark_visible, g.landmark_confident, g.landmark_bearing)
=============================================================================
