---------------------------- MODULE MCDevStack ----------------------------
(* One terminal for each command, one OrcaLab and two NaVILA processes.     *)
EXTENDS DevStack

CONSTANT o1

MCKind == [p \in Pids |-> IF p = o1 THEN "orcalab" ELSE "navila"]
=============================================================================
