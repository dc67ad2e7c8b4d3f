------------------------------ MODULE JobQueue ------------------------------
(***************************************************************************)
(* The submit-mode job queue: the `job` table of the control plane, the    *)
(* five /v1/jobs endpoints that change it, the `signalman runner start`    *)
(* worker loop and the CLI that submits a job and polls it.                *)
(*                                                                         *)
(* Every endpoint is one atomic step: a handler only awaits microtasks     *)
(* between the end of the request body and its last SQLite statement, so   *)
(* no other request of the same server runs in between.  A worker's call   *)
(* is three steps (sent, served, answered) and can fail towards the worker *)
(* at each of them; a request the worker has given up on may still reach   *)
(* the server later (`late`).  There is no lease and no requeue: a job     *)
(* whose worker is gone stays claimed or running for good.                 *)
(***************************************************************************)
EXTENDS Integers, FiniteSets

CONSTANTS
    Jobs,       \* job ids
    Workers,    \* worker names (claimed_by)
    Reliable,   \* the workers that stay up and whose calls get through
    NoJob,      \* "no job": a null claim answer, an idle worker
    MaxLate,    \* bound: requests given up on and still travelling
    MaxTime     \* bound: largest created_at

ASSUME JobQueueAssumption ==
    /\ NoJob \notin Jobs
    /\ Reliable \subseteq Workers
    /\ MaxLate \in Nat
    /\ MaxTime \in Nat

VARIABLES
    status,     \* job.status; "absent" before the INSERT
    kind,       \* job.kind: does the worker have a handler for it?
    createdAt,  \* job.created_at
    claimedBy,  \* job.claimed_by (empty or the claiming worker)
    result,     \* job.result IS NOT NULL
    error,      \* job.error IS NOT NULL
    pc,         \* where each worker's loop stands
    held,       \* the worker's local variable `job`
    call,       \* its outstanding HTTP call: "idle", "sent", "served"
    reply,      \* the job in the answer to its claim
    late,       \* requests whose sender has stopped waiting
    told,       \* what the submitting CLI has reported for the job
    runs,       \* history: how often a handler was started on the job
    outcome     \* history: how the handler ended

rowVars    == <<status, kind, createdAt, claimedBy, result, error>>
workerVars == <<pc, held, call, reply>>
histVars   == <<runs, outcome>>
vars       == <<rowVars, workerVars, late, told, histVars>>

Statuses == {"absent", "pending", "claimed", "running", "succeeded", "failed"}
Terminal == {"succeeded", "failed"}
Kinds    == {"handled", "unhandled"}

\* "poll" is the head of the while loop; the next four await one HTTP call
\* each, "handle" awaits the handler, "down" is a process that is not running.
Calls     == {"claim", "start", "complete", "fail"}
Locations == Calls \cup {"poll", "handle", "down"}
JobOrNone == Jobs \cup {NoJob}
Requests  == [op : Calls, job : JobOrNone, by : Workers]

TypeOK ==
    /\ status \in [Jobs -> Statuses]
    /\ kind \in [Jobs -> Kinds]
    /\ createdAt \in [Jobs -> 0..MaxTime]
    /\ claimedBy \in [Jobs -> SUBSET Workers]
    /\ result \in [Jobs -> BOOLEAN]
    /\ error \in [Jobs -> BOOLEAN]
    /\ pc \in [Workers -> Locations]
    /\ held \in [Workers -> JobOrNone]
    /\ call \in [Workers -> {"idle", "sent", "served"}]
    /\ reply \in [Workers -> JobOrNone]
    /\ late \subseteq Requests
    /\ told \in [Jobs -> {"nothing", "polling", "succeeded", "failed", "error"}]
    /\ runs \in [Jobs -> Nat]
    /\ outcome \in [Jobs -> {"none", "ok", "threw"}]

Init ==
    /\ status = [j \in Jobs |-> "absent"]
    /\ kind = [j \in Jobs |-> "handled"]
    /\ createdAt = [j \in Jobs |-> 0]
    /\ claimedBy = [j \in Jobs |-> {}]
    /\ result = [j \in Jobs |-> FALSE]
    /\ error = [j \in Jobs |-> FALSE]
    /\ pc = [w \in Workers |-> "poll"]
    /\ held = [w \in Workers |-> NoJob]
    /\ call = [w \in Workers |-> "idle"]
    /\ reply = [w \in Workers |-> NoJob]
    /\ late = {}
    /\ told = [j \in Jobs |-> "nothing"]
    /\ runs = [j \in Jobs |-> 0]
    /\ outcome = [j \in Jobs |-> "none"]

-----------------------------------------------------------------------------
(***************************************************************************)
(* The submitting CLI: POST /v1/jobs, then followJob until terminal.       *)
(***************************************************************************)

\* INSERT with status pending.  The clock has millisecond resolution, so two
\* jobs may share a created_at.  The answer may be lost ("error": exit 4,
\* the job stays queued).
Submit(j) ==
    /\ status[j] = "absent"
    /\ \E k \in Kinds, t \in 0..MaxTime, seen \in {"polling", "error"} :
         /\ \A i \in Jobs : status[i] # "absent" => createdAt[i] <= t
         /\ kind' = [kind EXCEPT ![j] = k]
         /\ createdAt' = [createdAt EXCEPT ![j] = t]
         /\ told' = [told EXCEPT ![j] = seen]
    /\ status' = [status EXCEPT ![j] = "pending"]
    /\ UNCHANGED <<claimedBy, result, error, workerVars, late, histVars>>

\* One getJob of followJob that finds the row terminal.
Follow(j) ==
    /\ told[j] = "polling"
    /\ status[j] \in Terminal
    /\ told' = [told EXCEPT ![j] = status[j]]
    /\ UNCHANGED <<rowVars, workerVars, late, histVars>>

\* getJob is not retried: one failed poll ends the follow.
FollowFails(j) ==
    /\ told[j] = "polling"
    /\ told' = [told EXCEPT ![j] = "error"]
    /\ UNCHANGED <<rowVars, workerVars, late, histVars>>

-----------------------------------------------------------------------------
(***************************************************************************)
(* The server.  Each operator is the effect of one endpoint on the table.  *)
(***************************************************************************)

Pending == {j \in Jobs : status[j] = "pending"}

\* SELECT ... ORDER BY created_at LIMIT 1: ties are the database's choice.
Oldest(j) == j \in Pending /\ \A i \in Pending : createdAt[j] <= createdAt[i]

\* Mutant: a stale claim is handed out again.
ClaimNextStale(w, r) ==
    /\ r \in Jobs
    /\ status[r] \in {"pending", "claimed"}
    /\ status' = [status EXCEPT ![r] = "claimed"]
    /\ claimedBy' = [claimedBy EXCEPT ![r] = {w}]
    /\ UNCHANGED <<kind, createdAt, result, error>>

\* SqliteJobRepo.claimNext: answers r, or NoJob when nothing is pending.
ClaimNext(w, r) ==
    \/ /\ Pending = {}
       /\ r = NoJob
       /\ UNCHANGED rowVars
    \/ /\ r \in Jobs
       /\ Oldest(r)
       /\ status' = [status EXCEPT ![r] = "claimed"]
       /\ claimedBy' = [claimedBy EXCEPT ![r] = {w}]
       /\ UNCHANGED <<kind, createdAt, result, error>>

\* SqliteJobRepo.update: the row is patched whatever its current status.
Update(j, s) == status' = [status EXCEPT ![j] = s]

\* PATCH /v1/jobs/:id as setJobRunning sends it.
SetRunning(j) ==
    /\ Update(j, "running")
    /\ UNCHANGED <<kind, createdAt, claimedBy, result, error>>

\* POST /v1/jobs/:id/complete: no look at the current status, error kept.
Complete(j) ==
    /\ Update(j, "succeeded")
    /\ result' = [result EXCEPT ![j] = TRUE]
    /\ UNCHANGED <<kind, createdAt, claimedBy, error>>

\* Mutant: a failed job goes back to the queue.
FailRequeues(j) ==
    /\ Update(j, "pending")
    /\ error' = [error EXCEPT ![j] = TRUE]
    /\ UNCHANGED <<kind, createdAt, claimedBy, result>>

\* POST /v1/jobs/:id/fail: no look at the current status, result kept.
Fail(j) ==
    /\ Update(j, "failed")
    /\ error' = [error EXCEPT ![j] = TRUE]
    /\ UNCHANGED <<kind, createdAt, claimedBy, result>>

\* The endpoint that request op on job j reaches; r is the claimed job.
Endpoint(op, j, w, r) ==
    \/ op = "claim" /\ ClaimNext(w, r)
    \/ op = "start" /\ r = NoJob /\ SetRunning(j)
    \/ op = "complete" /\ r = NoJob /\ Complete(j)
    \/ op = "fail" /\ r = NoJob /\ Fail(j)

\* The server handles the request worker w is waiting on.
Serve(w) ==
    /\ call[w] = "sent"
    /\ call' = [call EXCEPT ![w] = "served"]
    /\ \E r \in JobOrNone :
         /\ Endpoint(pc[w], held[w], w, r)
         /\ reply' = [reply EXCEPT ![w] = r]
    /\ UNCHANGED <<pc, held, late, told, histVars>>

\* The server handles a request nobody waits for any more.
ServeLate(m) ==
    /\ m \in late
    /\ late' = late \ {m}
    /\ \E r \in JobOrNone : Endpoint(m.op, m.job, m.by, r)
    /\ UNCHANGED <<workerVars, told, histVars>>

\* ... or it never arrives.
LoseLate(m) ==
    /\ m \in late
    /\ late' = late \ {m}
    /\ UNCHANGED <<rowVars, workerVars, told, histVars>>

-----------------------------------------------------------------------------
(***************************************************************************)
(* The worker loop (runWorker).                                            *)
(***************************************************************************)

\* Go to location loc with job j and send its call, if it makes one.
Goto(w, loc, j) ==
    /\ pc' = [pc EXCEPT ![w] = loc]
    /\ held' = [held EXCEPT ![w] = j]
    /\ call' = [call EXCEPT ![w] = IF loc \in Calls THEN "sent" ELSE "idle"]
    /\ reply' = [reply EXCEPT ![w] = NoJob]

\* Head of the loop: client.claimJob(workerName).
Poll(w) ==
    /\ pc[w] = "poll"
    /\ Goto(w, "claim", NoJob)
    /\ UNCHANGED <<rowVars, late, told, histVars>>

\* The claim is answered: sleep and poll again on null, else setJobRunning.
Claimed(w) ==
    /\ pc[w] = "claim" /\ call[w] = "served"
    /\ IF reply[w] = NoJob THEN Goto(w, "poll", NoJob)
                           ELSE Goto(w, "start", reply[w])
    /\ UNCHANGED <<rowVars, late, told, histVars>>

\* setJobRunning is answered and handlers[job.kind] exists: start it.
StartHandler(w) ==
    /\ pc[w] = "start" /\ call[w] = "served"
    /\ kind[held[w]] = "handled"
    /\ Goto(w, "handle", held[w])
    /\ runs' = [runs EXCEPT ![held[w]] = @ + 1]
    /\ UNCHANGED <<rowVars, late, told, outcome>>

\* Mutant: a job without a handler is skipped without a report.
NoHandlerSkips(w) ==
    /\ pc[w] = "start" /\ call[w] = "served"
    /\ kind[held[w]] = "unhandled"
    /\ Goto(w, "poll", NoJob)
    /\ UNCHANGED <<rowVars, late, told, histVars>>

\* ... or there is no handler: safeFail.
NoHandler(w) ==
    /\ pc[w] = "start" /\ call[w] = "served"
    /\ kind[held[w]] = "unhandled"
    /\ Goto(w, "fail", held[w])
    /\ UNCHANGED <<rowVars, late, told, histVars>>

\* The handler resolves: completeJob.
HandlerOk(w) ==
    /\ pc[w] = "handle"
    /\ Goto(w, "complete", held[w])
    /\ outcome' = [outcome EXCEPT ![held[w]] = "ok"]
    /\ UNCHANGED <<rowVars, late, told, runs>>

\* The handler rejects: safeFail.
HandlerThrows(w) ==
    /\ pc[w] = "handle"
    /\ Goto(w, "fail", held[w])
    /\ outcome' = [outcome EXCEPT ![held[w]] = "threw"]
    /\ UNCHANGED <<rowVars, late, told, runs>>

\* completeJob or failJob is answered: next iteration.
Reported(w) ==
    /\ pc[w] \in {"complete", "fail"} /\ call[w] = "served"
    /\ Goto(w, "poll", NoJob)
    /\ UNCHANGED <<rowVars, late, told, histVars>>

\* A call rejects in the worker: the request is lost, still travelling, or
\* was served and only its answer is lost.
Abandon(w) ==
    \/ late' = late
    \/ /\ call[w] = "sent"
       /\ Cardinality(late) < MaxLate
       /\ late' = late \cup {[op |-> pc[w], job |-> held[w], by |-> w]}

\* Mutant: a rejected failJob is followed by completeJob.
AfterErrorCompletes(w) ==
    IF pc[w] = "fail" THEN Goto(w, "complete", held[w])
                      ELSE Goto(w, "poll", NoJob)

\* What runWorker does next: a rejected completeJob is reported as a failure
\* of the job; after any other rejected call the loop goes on and the job,
\* if there is one, is dropped.
AfterError(w) ==
    IF pc[w] = "complete" THEN Goto(w, "fail", held[w])
                          ELSE Goto(w, "poll", NoJob)

CallFails(w) ==
    /\ w \notin Reliable
    /\ call[w] \in {"sent", "served"}
    /\ Abandon(w)
    /\ AfterError(w)
    /\ UNCHANGED <<rowVars, told, histVars>>

\* The process is killed, wherever it stands; its request may still arrive.
Crash(w) ==
    /\ w \notin Reliable
    /\ pc[w] # "down"
    /\ Abandon(w)
    /\ Goto(w, "down", NoJob)
    /\ UNCHANGED <<rowVars, told, histVars>>

\* `signalman runner start` again, under the same name.
Restart(w) ==
    /\ pc[w] = "down"
    /\ Goto(w, "poll", NoJob)
    /\ UNCHANGED <<rowVars, late, told, histVars>>

-----------------------------------------------------------------------------
Submitter(j) == Submit(j) \/ Follow(j) \/ FollowFails(j)

\* The steps a running worker takes by itself.
WorkerStep(w) ==
    \/ Poll(w) \/ Claimed(w) \/ StartHandler(w) \/ NoHandler(w)
    \/ HandlerOk(w) \/ HandlerThrows(w) \/ Reported(w)

Fault(w) == CallFails(w) \/ Crash(w) \/ Restart(w)

Next ==
    \/ \E j \in Jobs : Submitter(j)
    \/ \E w \in Workers : Serve(w) \/ WorkerStep(w) \/ Fault(w)
    \/ \E m \in late : ServeLate(m) \/ LoseLate(m)

Spec == Init /\ [][Next]_vars

\* The event loop of a reliable worker keeps turning and its requests are
\* served; followJob polls until it sees a terminal status.
Fairness ==
    /\ \A w \in Reliable : WF_vars(WorkerStep(w)) /\ WF_vars(Serve(w))
    /\ \A j \in Jobs : WF_vars(Follow(j))

FairSpec == Spec /\ Fairness

-----------------------------------------------------------------------------
(***************************************************************************)
(* Correctness.                                                            *)
(***************************************************************************)

\* The job worker w is responsible for, or about to learn it is.
Carries(w, j) == held[w] = j \/ reply[w] = j

\* The worker that works on a job is the one its row names, so a job is never
\* in the hands of two workers (claimNext's UPDATE ... WHERE status =
\* 'pending'), whatever calls are lost or delayed and whoever crashes.
HolderIsClaimer ==
    \A j \in Jobs : \A w \in Workers : Carries(w, j) => claimedBy[j] = {w}

\* A handler (a release build) is started at most once per job: a job that
\* was handed out is never handed out again.
AtMostOnce == \A j \in Jobs : runs[j] <= 1

\* A job reported succeeded, in the row or to the submitter, is a job whose
\* handler returned: no late or lost call turns a failed run into a success.
SuccessIsReal ==
    \A j \in Jobs :
        (status[j] = "succeeded" \/ told[j] = "succeeded") => outcome[j] = "ok"

\* How far along its life cycle (0003_jobs.sql) a status is.
Rank(s) ==
    CASE s = "absent" -> 0
      [] s = "pending" -> 1
      [] s = "claimed" -> 2
      [] s = "running" -> 3
      [] s \in Terminal -> 4

\* The row never moves back towards the queue: a setJobRunning that arrives
\* late never reopens a job that was already reported.
NeverReopened ==
    [][\A j \in Jobs : Rank(status[j]) <= Rank(status'[j])]_vars

\* The phase of a row in the queue's abstract specification.
PhaseOf(s) ==
    CASE s = "absent" -> "absent"
      [] s = "pending" -> "queued"
      [] s \in {"claimed", "running"} -> "taken"
      [] s \in Terminal -> "done"

TQ == INSTANCE TaskQueue WITH
    Tasks   <- Jobs,
    phase   <- [j \in Jobs |-> PhaseOf(status[j])],
    started <- {j \in Jobs : runs[j] > 0}

\* The table, the endpoints and the workers together implement the
\* at-most-once queue of TaskQueue.
ImplementsTaskQueue == TQ!Spec

\* Beside one reliable worker every submitted job is handed out, whatever the
\* other workers lose, drop or hold on to.
EveryJobClaimed ==
    \A j \in Jobs : status[j] = "pending" ~> status[j] # "pending"

\* A job that a reliable worker claimed is finished, with a handler or without
\* one, and a submitter that keeps polling for it is told.
EveryJobFinishes ==
    \A j \in Jobs : \A w \in Reliable :
        /\ claimedBy[j] = {w} ~> status[j] \in Terminal
        /\ claimedBy[j] = {w} /\ told[j] = "polling" ~> told[j] # "polling"

\* Every job gets through the queue: it is claimed, and finished by a worker
\* that stays up.
EveryJobServed == EveryJobClaimed /\ EveryJobFinishes
=============================================================================
