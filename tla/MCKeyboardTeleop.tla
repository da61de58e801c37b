------------------------- MODULE MCKeyboardTeleop -------------------------
(* Two directions and two speeds, a pulse of two units of the clock against
   blocks of up to three, sessions of up to three steps and three keys. *)
EXTENDS KeyboardTeleop

MCDirections == {"ahead", "turn"}
MCRequested == {0, 2}
=============================================================================
