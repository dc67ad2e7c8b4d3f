------------------------------- MODULE MCCloud -------------------------------
(* Three EC2 instances from before, one without a TTL tag and one that     *)
(* cannot be terminated; a request for a fourth, which is more than a page *)
(* while all of them are there, and two Azure requests for the same name.  *)
EXTENDS Cloud, TLC

CONSTANTS r0, r1, r2, r3, r4, r5

MCCost == [r \in Reqs |-> IF r = r2 THEN 1 ELSE 2]

MCBefore == r0 :> 0 @@ r1 :> 1 @@ r3 :> 1
=============================================================================
