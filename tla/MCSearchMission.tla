-------------------------- MODULE MCSearchMission --------------------------
(* Two overlapping remember commands, two launchers, a scan of two views;  *)
(* the vision model may see one thing twice, or name a view that was not    *)
(* taken.                                                                   *)
EXTENDS SearchMission, TLC

CONSTANTS keys, bread, r1, r2, l1, l2

MCItemOf == (r1 :> keys) @@ (r2 :> bread)
MCSeen(view, confidence) == [name |-> "table", view |-> view, confidence |-> confidence]
MCAnswers == {{MCSeen(0, 1), MCSeen(1, 2)}, {MCSeen(2, 1)}}

MCSymmetry == Permutations(Launchers)
=============================================================================
