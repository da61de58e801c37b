-------------------------- MODULE MCCaptureHistory --------------------------
(***************************************************************************)
(* Three slots and a history of four frames, so that it is padded, sampled *)
(* and trimmed; a warm-up of two; two waypoints; one retry per read and    *)
(* one tolerated error.                                                    *)
(***************************************************************************)
EXTENDS CaptureHistory
=============================================================================
