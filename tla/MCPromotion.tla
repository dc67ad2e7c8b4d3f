---------------------------- MODULE MCPromotion ----------------------------
(* Two processes, and policies named after their gates: "both" has a delay *)
(* and a health gate.                                                      *)
EXTENDS Promotion, TLC

CONSTANTS a1, a2, auto, manual, delay, health, both

MCProcs    == {a1, a2}
MCOne      == {a1}
MCPolicies == {auto, manual, delay, health, both}

\* Two processes at once, or one after the other with all policies.
MCScopes == {[procs |-> 2, policies |-> {auto, health}, minPass |-> 1],
             [procs |-> 2, policies |-> {both}, minPass |-> 1],
             [procs |-> 1, policies |-> MCPolicies, minPass |-> 2]}

\* Two processes on the policies with a delay.
MCDelayed == {[procs |-> 2, policies |-> {p}, minPass |-> 1] : p \in {delay, both}}

MCGated == {health, both}
MCKind  == [p \in Policies |->
              CASE p \in {auto, health} -> "auto"
                [] p = manual -> "manual"
                [] p \in {delay, both} -> "time_delay"]

MCSymmetry == Permutations(MCProcs)
=============================================================================
