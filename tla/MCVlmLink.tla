----------------------------- MODULE MCVlmLink -----------------------------
(* A caller of infer and one of check_endpoint, three calls over a queue of
   one, one caller that may vanish, one crash of the server. *)
EXTENDS VlmLink
=============================================================================
