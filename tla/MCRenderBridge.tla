--------------------------- MODULE MCRenderBridge ---------------------------
(***************************************************************************)
(* Three steps of the physics and four frames or pictures: pushes that are *)
(* never captured, captures that are repeated at one step, and frames that *)
(* arrive before, inside and after every call.                             *)
(***************************************************************************)
EXTENDS RenderBridge
=============================================================================
