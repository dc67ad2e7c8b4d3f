--------------------------- MODULE MCRunnerFleet ---------------------------
(* One deploy meets what earlier ones left on the host: Init chooses it.   *)
EXTENDS RunnerFleet

CONSTANT d1
=============================================================================
