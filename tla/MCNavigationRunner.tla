------------------------- MODULE MCNavigationRunner -------------------------
(***************************************************************************)
(* Two waypoints, a frame every second tick with the monitor on every      *)
(* tick, chunks of one and three ticks, and limits that cut a mission off  *)
(* in the middle of a chunk, of a wait and of a warm-up; the session may   *)
(* fail or be interrupted at every call.                                   *)
(***************************************************************************)
EXTENDS SimulatorRun

MCChunkTicks == {1, 3}
=============================================================================
