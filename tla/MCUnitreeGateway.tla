-------------------------- MODULE MCUnitreeGateway --------------------------
(***************************************************************************)
(* Small instances of the gateway: two waypoints, two decisions each, one  *)
(* turn per acquisition and inspection, and one goal-seer answer for every *)
(* way in which the gateway can read one.                                  *)
(***************************************************************************)
EXTENDS UnitreeGateway, TLC

Landmark(visible, confident, bearing, distance, safe) ==
    [ landmark_visible        |-> visible,
      landmark_confident      |-> confident,
      landmark_bearing        |-> bearing,
      landmark_distance_state |-> distance,
      safe_to_advance         |-> safe ]

Item(visible, confident, distance, accessible, safe) ==
    [ item_visible         |-> visible,
      item_confident       |-> confident,
      item_distance_state  |-> distance,
      item_accessible      |-> accessible,
      item_safe_to_advance |-> safe ]

NoLandmark  == Landmark(FALSE, FALSE, "left", "far", TRUE)
OffCentre   == Landmark(TRUE, TRUE, "right", "approach", TRUE)
OnCourse    == Landmark(TRUE, TRUE, "centre", "approach", TRUE)
AtLandmark  == Landmark(TRUE, TRUE, "centre", "near", TRUE)

NoItem      == Item(FALSE, FALSE, "near", TRUE, TRUE)
FarItem     == Item(TRUE, TRUE, "far", TRUE, TRUE)
BlockedItem == Item(TRUE, TRUE, "approach", FALSE, FALSE)
NearItem    == Item(TRUE, TRUE, "near", TRUE, FALSE)
ShutItem    == Item(TRUE, TRUE, "near", FALSE, FALSE)

MCGoalReplies ==
    { NoLandmark @@ NoItem, OffCentre @@ NoItem, OnCourse @@ NoItem,
      AtLandmark @@ NoItem, NoLandmark @@ FarItem, OnCourse @@ FarItem,
      NoLandmark @@ BlockedItem, AtLandmark @@ NearItem, AtLandmark @@ ShutItem }
=============================================================================
