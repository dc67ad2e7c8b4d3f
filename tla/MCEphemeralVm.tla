---------------------------- MODULE MCEphemeralVm ----------------------------
(* Two runs of one scenario in one year: the names of their VMs are equal. *)
(* The first has a second VM as well.                                      *)
EXTENDS EphemeralVm

CONSTANTS r1, r2

OneYear == [r \in Runs |-> 1]

OneOrTwo == [r \in Runs |-> IF r = r1 THEN 2 ELSE 1]

=============================================================================
