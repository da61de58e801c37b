-------------------------- MODULE MCTrainingBundle --------------------------
(* Two sample directories of different episodes, two sessions (of the same *)
(* directory or not), and three commands that label, export or package.    *)
EXTENDS TrainingBundle

CONSTANTS s1, s2, hall, table, turn, move, creep, l1

\* The labeller takes "move forward 30 cm", the packager does not.
MCCanonical == {turn, move}

MCBaselineOf == [p \in Pictures |-> turn]
MCEpisodeOf == [d \in Samples |-> d]

MCSymmetry == Permutations(Labellers) \cup Permutations(Samples) \cup Permutations(Pictures)
=============================================================================
