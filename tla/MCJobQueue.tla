----------------------------- MODULE MCJobQueue -----------------------------
(* Two jobs and two workers, of which w1 may be reliable.                  *)
EXTENDS JobQueue, TLC

CONSTANTS j1, j2, w1, w2

MCJobs     == {j1, j2}
MCWorkers  == {w1, w2}
MCReliable == {w1}

\* Jobs are interchangeable, and so are workers when none is reliable.
JobSymmetry == Permutations(MCJobs)
MCSymmetry  == JobSymmetry \cup Permutations(MCWorkers)
=============================================================================
