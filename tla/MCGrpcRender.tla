---------------------------- MODULE MCGrpcRender ----------------------------
(* Two programs with bridges to one server of two threads, three RPCs, two
   states each and one restart of the server. *)
EXTENDS GrpcRender, TLC
MCSymmetry == Permutations(Bridges)
=============================================================================
