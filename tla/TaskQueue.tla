----------------------------- MODULE TaskQueue ------------------------------
(***************************************************************************)
(* What the job queue promises, without rows, workers or calls: a task is  *)
(* queued once, taken once, its work is started at most once and only      *)
(* while it is taken, and a finished task stays finished.  The promise is  *)
(* at-most-once: nothing here says that a taken task is ever finished.     *)
(***************************************************************************)
CONSTANT Tasks

VARIABLES
    phase,      \* "absent", "queued", "taken" or "done"
    started     \* the tasks whose work was started

vars == <<phase, started>>

Init ==
    /\ phase = [t \in Tasks |-> "absent"]
    /\ started = {}

Move(t, from, to) ==
    /\ phase[t] = from
    /\ phase' = [phase EXCEPT ![t] = to]
    /\ UNCHANGED started

Enqueue(t) == Move(t, "absent", "queued")
Take(t)    == Move(t, "queued", "taken")
Finish(t)  == Move(t, "taken", "done")

Start(t) ==
    /\ phase[t] = "taken"
    /\ t \notin started
    /\ started' = started \cup {t}
    /\ UNCHANGED phase

Next == \E t \in Tasks : Enqueue(t) \/ Take(t) \/ Start(t) \/ Finish(t)

Spec == Init /\ [][Next]_vars
=============================================================================
