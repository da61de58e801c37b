---------------------------- MODULE MCMapRouting ----------------------------
(***************************************************************************)
(* Three locations; one tour of five anchors whose passages take no time   *)
(* or five seconds, or two tours of three; two inspections at two places,  *)
(* at one, and one without a place.                                        *)
(***************************************************************************)
EXTENDS MapRouting

\* The tour through the locations of path with the given times between them.
Tour(path, gaps) ==
    LET time[k \in DOMAIN path] == IF k = 1 THEN 0 ELSE time[k-1] + gaps[k-1]
    IN  [k \in DOMAIN path |-> [location |-> path[k], time |-> time[k]]]

Moving(path) == \A k \in 1..(Len(path) - 1) : path[k] # path[k+1]

LongTours ==
    {Tour(path, gaps) : path \in {p \in [1..5 -> Location] : Moving(p)},
                        gaps \in [1..4 -> {0, 5}]}

\* One of the anchors of a short tour may repeat a location.
ShortTours == {Tour(path, <<2, 2>>) : path \in [1..3 -> Location]}

MCCaptures ==
    {<<t>> : t \in LongTours} \cup {<<s, t>> : s, t \in ShortTours}

MCTargets == { <<2, 3>>, <<3, 2>>, <<2, 2>>, <<NoLocation, 3>> }
=============================================================================
