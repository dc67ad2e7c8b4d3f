--------------------------- MODULE TargetRegister ---------------------------
(***************************************************************************)
(* What the deployments of a target amount to, without deployers, calls or *)
(* failures: a register that holds at most one release at a time.  A       *)
(* deployment is opened once, for a release that stays its own, and names  *)
(* as the one before it none or one that has stood; it stands at most once *)
(* and only where no other stands; and it is over for good afterwards, as  *)
(* a former one that can be gone back to, or closed without having stood.  *)
(***************************************************************************)
CONSTANTS
    Slots,      \* deployments
    Contents,   \* releases
    NoSlot,     \* no deployment
    Empty       \* no release

VARIABLES
    phase,      \* "absent", "open", "standing", "former" or "closed"
    holds,      \* the release of each deployment
    prior       \* the deployment each one names as the one before it

vars == <<phase, holds, prior>>

Init ==
    /\ phase = [s \in Slots |-> "absent"]
    /\ holds = [s \in Slots |-> Empty]
    /\ prior = [s \in Slots |-> NoSlot]

HasStood == {s \in Slots : phase[s] \in {"standing", "former"}}

Open(s) ==
    /\ phase[s] = "absent"
    /\ phase' = [phase EXCEPT ![s] = "open"]
    /\ \E x \in Contents : holds' = [holds EXCEPT ![s] = x]
    /\ \E p \in HasStood \cup {NoSlot} : prior' = [prior EXCEPT ![s] = p]

Move(s, from, to) ==
    /\ phase[s] = from
    /\ phase' = [phase EXCEPT ![s] = to]
    /\ UNCHANGED <<holds, prior>>

Stand(s) ==
    /\ Move(s, "open", "standing")
    /\ \A t \in Slots : phase[t] # "standing"

Retire(s) == Move(s, "standing", "former")
Close(s)  == Move(s, "open", "closed")

\* Every step moves a deployment on.
Next ==
    /\ phase' # phase
    /\ \E s \in Slots : Open(s) \/ Stand(s) \/ Retire(s) \/ Close(s)

Spec == Init /\ [][Next]_vars
=============================================================================
