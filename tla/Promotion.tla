----------------------------- MODULE Promotion -----------------------------
(***************************************************************************)
(* Auto-promotion of one release onto one destination target: the approval *)
(* rows, and the processes that work on them.  A process fires a policy    *)
(* (the listener, after a build or a deploy), approves or rejects a        *)
(* pending row (an operator), or runs the promotion tick (cron, an MCP     *)
(* tool).  Every awaited call is one step, and processes interleave.       *)
(*                                                                         *)
(* Approvals of other releases or destinations share neither rows nor the  *)
(* unique index, so one pair is enough.  The clock is abstracted to "the   *)
(* delay of this row has elapsed", the health log of the source tier to    *)
(* the length of its current run of passes and whether the newest check is *)
(* within the window, now and at the `now` of every tick under way.        *)
(***************************************************************************)
EXTENDS Integers, FiniteSets

CONSTANTS
    Procs,      \* processes: CLI calls, MCP calls, the build and deploy verbs
    Steady,     \* those whose calls never fail and that are never killed
    Policies,   \* policies with this destination
    NoPolicy,   \* no policy
    Kind,       \* gate_kind of each policy
    Gated,      \* the policies with a source target and a health gate
    MaxRows,    \* bound: approval rows ever created
    Scopes      \* bounds: how many processes take part in a behaviour, which
                \* policies are in place, health_gate.min_pass_count

ASSUME PromotionAssumption ==
    /\ Steady \subseteq Procs /\ IsFiniteSet(Procs)
    /\ NoPolicy \notin Policies
    /\ Kind \in [Policies -> {"auto", "manual", "time_delay"}]
    /\ Gated \subseteq Policies
    /\ MaxRows \in Nat
    /\ Scopes \subseteq [procs : Nat, policies : SUBSET Policies, minPass : Nat \ {0}]

Rows == 1..MaxRows      \* in order of created_at
None == 0

VARIABLES
    status,     \* approval.status ("none": not inserted)
    policy,     \* approval.policy_id
    attempted,  \* rows whose deploy_attempted_at is set
    outcome,    \* deploy_outcome
    removed,    \* policies soft-deleted
    elapsed,    \* rows whose auto_approve_at has passed
    passes,     \* newest health checks of the source in a row that pass
    recent,     \* the newest one is within window_minutes of the present
    pc,         \* where each process stands
    op,         \* what it is doing
    pol,        \* fire: the policy, as the matching list gave it
    row,        \* the approval it works on
    todo,       \* tick: rows of the current list still to look at
    due,        \* tick: rows elapsed at its `now`
    window,     \* ticks whose `now` has the newest check within window_minutes
    result,     \* what its deploy returned
    deploys,    \* history: deploys invoked for each row, 0, 1, or 2 and more
    worked,     \* history: rows with a deploy that succeeded
    rejected,   \* history: rows some operator's reject was applied to
    opened,     \* history: ticks that had the health gate open since their
                \* start, the window being taken at their `now`
    scope       \* who takes part; never changes

rowVars    == <<status, policy, attempted, outcome>>
worldVars  == <<removed, elapsed, passes, recent>>
localVars  == <<op, pol, row, todo, due, result>>
tickVars   == <<window, opened>>
histVars   == <<deploys, worked, rejected>>
vars       == <<rowVars, worldVars, pc, localVars, tickVars, histVars, scope>>

\* health_gate.min_pass_count.
MinPass == scope.minPass

Working == {"lookup", "create", "decide", "approve", "reject", "deploy",
            "record", "recordFail", "list", "path1", "flip1", "list2",
            "path2", "flip2"}

TypeOK ==
    /\ status \in [Rows -> {"none", "pending", "approved", "rejected",
                            "auto_approved"}]
    /\ policy \in [Rows -> Policies \cup {NoPolicy}]
    /\ attempted \subseteq Rows
    /\ outcome \in [Rows -> {"none", "success", "failed"}]
    /\ removed \subseteq Policies
    /\ elapsed \subseteq Rows
    /\ passes \in 0..MinPass
    /\ recent \in BOOLEAN
    /\ pc \in [Procs -> Working \cup {"idle"}]
    /\ op \in [Procs -> {"none", "fire", "approve", "reject", "tick"}]
    /\ pol \in [Procs -> Policies \cup {NoPolicy}]
    /\ row \in [Procs -> Rows \cup {None}]
    /\ todo \in [Procs -> SUBSET Rows]
    /\ due \in [Procs -> SUBSET Rows]
    /\ result \in [Procs -> {"none", "success", "failed"}]
    /\ deploys \in [Rows -> 0..2]
    /\ worked \subseteq Rows
    /\ rejected \subseteq Rows
    /\ window \subseteq Procs
    /\ opened \subseteq Procs
    /\ scope \in [procs : SUBSET Procs, minPass : Nat]

\* The release is built; the policies are in place; nothing has fired.
Init ==
    /\ status = [r \in Rows |-> "none"]
    /\ policy = [r \in Rows |-> NoPolicy]
    /\ attempted = {}
    /\ outcome = [r \in Rows |-> "none"]
    /\ \E s \in Scopes :
         /\ removed = Policies \ s.policies
         /\ scope \in [procs : {S \in SUBSET Procs : Cardinality(S) = s.procs},
                      minPass : {s.minPass}]
    /\ elapsed = {}
    /\ passes = 0
    /\ recent = FALSE
    /\ pc = [a \in Procs |-> "idle"]
    /\ op = [a \in Procs |-> "none"]
    /\ pol = [a \in Procs |-> NoPolicy]
    /\ row = [a \in Procs |-> None]
    /\ todo = [a \in Procs |-> {}]
    /\ due = [a \in Procs |-> {}]
    /\ result = [a \in Procs |-> "none"]
    /\ deploys = [r \in Rows |-> 0]
    /\ worked = {}
    /\ rejected = {}
    /\ window = {}
    /\ opened = {}

\* Whatever is done, is done before the next thing begins.
Serial == Cardinality(scope.procs) = 1

Busy(a)  == pc[a] \in Working
Inserted == {r \in Rows : status[r] # "none"}
Pending  == {r \in Rows : status[r] = "pending"}

\* requires_health_gate, as firePolicy sets it.
HealthGated(r) == policy[r] \in Gated /\ Kind[policy[r]] # "manual"

\* isHealthGateOpen of the newest checks of the source's active deployment, at
\* the present.
GateOpen == passes = MinPass /\ recent

\* Mutant: the age of the newest check is not looked at.
GateIgnoresWindow(a) == passes = MinPass

\* ... and for the nowMs that tick a read when it started.
GateOpenAt(a) == passes = MinPass /\ a \in window

Ticking == {a \in Procs : op[a] = "tick"}

\* approval_release_dest_unique holds for a row with these columns.
Indexed(s, att) == s = "pending" \/ att
NoConflict(r, s, att) ==
    Indexed(s, att) =>
        \A q \in Inserted \ {r} : ~Indexed(status[q], q \in attempted)

Goto(a, loc) == pc' = [pc EXCEPT ![a] = loc]

\* The process returned or threw: it keeps nothing.
Finish(a) ==
    /\ Goto(a, "idle")
    /\ op' = [op EXCEPT ![a] = "none"]
    /\ pol' = [pol EXCEPT ![a] = NoPolicy]
    /\ row' = [row EXCEPT ![a] = None]
    /\ todo' = [todo EXCEPT ![a] = {}]
    /\ due' = [due EXCEPT ![a] = {}]
    /\ result' = [result EXCEPT ![a] = "none"]
    /\ window' = window \ {a}
    /\ opened' = opened \ {a}

\* A dispatch is through: a tick goes on with its list.
EndDispatch(a, onward) ==
    \/ op[a] = "tick" /\ Goto(a, onward) /\ UNCHANGED <<localVars, tickVars>>
    \/ op[a] # "tick" /\ Finish(a)

SetStatus(r, s) == status' = [status EXCEPT ![r] = s]

-----------------------------------------------------------------------------
(***************************************************************************)
(* The world: time, the source tier's health, the operator's policies.     *)
(***************************************************************************)

Elapse ==
    /\ \E r \in Inserted \ elapsed :
         /\ Kind[policy[r]] = "time_delay"
         /\ elapsed' = elapsed \cup {r}
    /\ UNCHANGED <<rowVars, removed, passes, recent, pc, localVars, tickVars,
                   histVars>>

\* healthChecks.append on the source's active deployment.
RecordCheck ==
    /\ \/ passes' = 0
       \/ passes' = IF passes < MinPass THEN passes + 1 ELSE MinPass
    /\ recent' = TRUE
    /\ window' = Ticking
    /\ opened' = IF passes' = MinPass THEN Ticking ELSE opened
    /\ UNCHANGED <<rowVars, removed, elapsed, pc, localVars, histVars>>

\* The newest check leaves the window; a tick under way goes on with its `now`.
CheckAges ==
    /\ recent
    /\ recent' = FALSE
    /\ UNCHANGED <<rowVars, removed, elapsed, passes, pc, localVars,
                   tickVars, histVars>>

\* Another release replaces this one on the source, or it is deployed anew:
\* the active deployment has no checks of this release.
SourceReplaced ==
    /\ passes > 0 \/ recent \/ window # {}
    /\ passes' = 0
    /\ recent' = FALSE
    /\ window' = {}
    /\ UNCHANGED <<rowVars, removed, elapsed, pc, localVars, opened, histVars>>

\* runPromotionPolicyRemove.
RemovePolicy ==
    /\ \E p \in Policies \ removed : removed' = removed \cup {p}
    /\ UNCHANGED <<rowVars, elapsed, passes, recent, pc, localVars, tickVars,
                   histVars>>

World == Elapse \/ RecordCheck \/ CheckAges \/ SourceReplaced \/ RemovePolicy

-----------------------------------------------------------------------------
(***************************************************************************)
(* firePolicy.                                                             *)
(***************************************************************************)

\* Bound: a row is left for every process that may still create one.
RowLeft ==
    Cardinality(Inserted)
      + Cardinality({a \in Procs : pc[a] \in {"lookup", "create"}}) < MaxRows

\* onReleaseBuilt, onReleaseDeployed: the matching policies are read once.
StartFire(a) ==
    /\ pc[a] = "idle"
    /\ RowLeft
    /\ \E p \in Policies \ removed : pol' = [pol EXCEPT ![a] = p]
    /\ op' = [op EXCEPT ![a] = "fire"]
    /\ Goto(a, "lookup")
    /\ UNCHANGED <<rowVars, worldVars, row, todo, due, result, tickVars,
                   histVars>>

\* approvals.getForReleaseAndTarget: any row makes this fire a duplicate.
Lookup(a) ==
    /\ pc[a] = "lookup"
    /\ \/ Inserted # {} /\ Finish(a)
       \/ /\ Inserted = {}
          /\ Goto(a, "create")
          /\ UNCHANGED <<localVars, tickVars>>
    /\ UNCHANGED <<rowVars, worldVars, histVars>>

\* A plain auto gate is decided at once, the others wait.
FirstStatus(p) ==
    IF Kind[p] = "auto" /\ p \notin Gated THEN "auto_approved" ELSE "pending"

\* approvals.create, or the StorageConflictError of the unique index, which
\* leaves firePolicy.
Create(a) ==
    LET s == FirstStatus(pol[a])
    IN  /\ pc[a] = "create"
        /\ \E r \in Rows \ Inserted :
             /\ \A q \in Rows : q < r => q \in Inserted
             /\ \/ /\ NoConflict(r, s, FALSE)
                   /\ SetStatus(r, s)
                   /\ policy' = [policy EXCEPT ![r] = pol[a]]
                   /\ \/ /\ s = "auto_approved"
                         /\ row' = [row EXCEPT ![a] = r]
                         /\ Goto(a, "decide")
                         /\ UNCHANGED <<op, pol, todo, due, result, tickVars>>
                      \/ s = "pending" /\ Finish(a)
                \/ /\ ~NoConflict(r, s, FALSE)
                   /\ Finish(a)
                   /\ UNCHANGED <<status, policy>>
        /\ UNCHANGED <<attempted, outcome, worldVars, histVars>>

\* markApprovalDecided, and the row is read again.
Decide(a) ==
    /\ pc[a] = "decide"
    /\ Goto(a, "deploy")
    /\ UNCHANGED <<rowVars, worldVars, localVars, tickVars, histVars>>

-----------------------------------------------------------------------------
(***************************************************************************)
(* runPromotionApprove, runPromotionReject.                                *)
(***************************************************************************)

\* Mutant: rows that are already approved can be approved again.
StartApproveAgain(a) ==
    /\ pc[a] = "idle"
    /\ \E r \in Inserted :
         /\ status[r] # "rejected"
         /\ policy[r] \notin removed
         /\ row' = [row EXCEPT ![a] = r]
    /\ op' = [op EXCEPT ![a] = "approve"]
    /\ Goto(a, "approve")
    /\ UNCHANGED <<rowVars, worldVars, pol, todo, due, result, tickVars,
                   histVars>>

\* The row must be pending and its policy there, when they are read.
StartApprove(a) ==
    /\ pc[a] = "idle"
    /\ \E r \in Pending :
         /\ policy[r] \notin removed
         /\ row' = [row EXCEPT ![a] = r]
    /\ op' = [op EXCEPT ![a] = "approve"]
    /\ Goto(a, "approve")
    /\ UNCHANGED <<rowVars, worldVars, pol, todo, due, result, tickVars,
                   histVars>>

\* approvals.update(approved): whatever the row is by now.
Approve(a) ==
    /\ pc[a] = "approve"
    /\ SetStatus(row[a], "approved")
    /\ Goto(a, "deploy")
    /\ UNCHANGED <<policy, attempted, outcome, worldVars, localVars,
                   tickVars, histVars>>

StartReject(a) ==
    /\ pc[a] = "idle"
    /\ \E r \in Pending :
         /\ policy[r] \notin removed
         /\ row' = [row EXCEPT ![a] = r]
    /\ op' = [op EXCEPT ![a] = "reject"]
    /\ Goto(a, "reject")
    /\ UNCHANGED <<rowVars, worldVars, pol, todo, due, result, tickVars,
                   histVars>>

\* approvals.update(rejected): whatever the row is by now.
Reject(a) ==
    /\ pc[a] = "reject"
    /\ SetStatus(row[a], "rejected")
    /\ rejected' = rejected \cup {row[a]}
    /\ Finish(a)
    /\ UNCHANGED <<policy, attempted, outcome, worldVars, deploys, worked>>

-----------------------------------------------------------------------------
(***************************************************************************)
(* Firing the deploy: dispatchDeploy, and its copy in the approve verb.    *)
(***************************************************************************)

\* The deploy invoker: it never throws.
Deploy(a) ==
    /\ pc[a] = "deploy"
    /\ deploys' = [deploys EXCEPT ![row[a]] = IF @ < 2 THEN @ + 1 ELSE 2]
    /\ \E res \in {"success", "failed"} :
         /\ result' = [result EXCEPT ![a] = res]
         /\ worked' = IF res = "success" THEN worked \cup {row[a]} ELSE worked
    /\ Goto(a, "record")
    /\ UNCHANGED <<rowVars, worldVars, op, pol, row, todo, due, tickVars,
                   rejected>>

\* Where the tick goes on after a dispatch.
Onward(a) == IF HealthGated(row[a]) THEN "path2" ELSE "path1"

Attempt(r, res) ==
    /\ attempted' = attempted \cup {r}
    /\ outcome' = [outcome EXCEPT ![r] = res]
    /\ UNCHANGED <<status, policy>>

\* approvals.update(deployAttemptedAt): the unique index may refuse it.
Record(a) ==
    /\ pc[a] = "record"
    /\ \/ /\ NoConflict(row[a], status[row[a]], TRUE)
          /\ Attempt(row[a], result[a])
          /\ EndDispatch(a, Onward(a))
       \/ /\ ~NoConflict(row[a], status[row[a]], TRUE)
          /\ \/ op[a] = "approve" /\ Finish(a)
             \/ op[a] # "approve" /\ Goto(a, "recordFail")
                                /\ UNCHANGED <<localVars, tickVars>>
          /\ UNCHANGED rowVars
    /\ UNCHANGED <<worldVars, histVars>>

\* The catch block of dispatchDeploy: the same update, outcome failed.
RecordFail(a) ==
    /\ pc[a] = "recordFail"
    /\ \/ /\ NoConflict(row[a], status[row[a]], TRUE)
          /\ Attempt(row[a], "failed")
          /\ EndDispatch(a, Onward(a))
       \/ /\ ~NoConflict(row[a], status[row[a]], TRUE)
          /\ Finish(a)
          /\ UNCHANGED rowVars
    /\ UNCHANGED <<worldVars, histVars>>

-----------------------------------------------------------------------------
(***************************************************************************)
(* runPromotionTick.                                                       *)
(***************************************************************************)

\* `now` is read once.
StartTick(a) ==
    /\ pc[a] = "idle"
    /\ op' = [op EXCEPT ![a] = "tick"]
    /\ due' = [due EXCEPT ![a] = elapsed]
    /\ window' = IF recent THEN window \cup {a} ELSE window
    /\ opened' = IF GateOpen THEN opened \cup {a} ELSE opened
    /\ Goto(a, "list")
    /\ UNCHANGED <<rowVars, worldVars, pol, row, todo, result, histVars>>

\* Mutant: the test that skips rows is inverted.
ListInverted(a) ==
    /\ pc[a] = "list"
    /\ todo' = [todo EXCEPT ![a] = {r \in Pending \cap due[a] : HealthGated(r)}]
    /\ Goto(a, "path1")
    /\ UNCHANGED <<rowVars, worldVars, op, pol, row, due, result, tickVars,
                   histVars>>

\* approvals.listPendingAutoApprove; health-gated rows are skipped.
List(a) ==
    /\ pc[a] = "list"
    /\ todo' = [todo EXCEPT ![a] = {r \in Pending \cap due[a] : ~HealthGated(r)}]
    /\ Goto(a, "path1")
    /\ UNCHANGED <<rowVars, worldVars, op, pol, row, due, result, tickVars,
                   histVars>>

\* The next row of the list, if its policy is still there.
Path1(a) ==
    /\ pc[a] = "path1"
    /\ \/ /\ todo[a] = {}
          /\ Goto(a, "list2")
          /\ UNCHANGED localVars
       \/ \E r \in todo[a] :
            /\ todo' = [todo EXCEPT ![a] = @ \ {r}]
            /\ \/ /\ policy[r] \in removed
                  /\ Goto(a, "path1")
                  /\ UNCHANGED row
               \/ /\ policy[r] \notin removed
                  /\ row' = [row EXCEPT ![a] = r]
                  /\ Goto(a, "flip1")
            /\ UNCHANGED <<op, pol, due, result>>
    /\ UNCHANGED <<rowVars, worldVars, tickVars, histVars>>

\* Mutant: the attempt is recorded before the deploy is made.
FlipMarks(a) ==
    /\ pc[a] \in {"flip1", "flip2"}
    /\ SetStatus(row[a], "auto_approved")
    /\ attempted' = attempted \cup {row[a]}
    /\ Goto(a, "deploy")
    /\ UNCHANGED <<policy, outcome, worldVars, localVars, tickVars, histVars>>

\* approvals.update(auto_approved): whatever the row is by now.
Flip(a) ==
    /\ pc[a] \in {"flip1", "flip2"}
    /\ SetStatus(row[a], "auto_approved")
    /\ Goto(a, "deploy")
    /\ UNCHANGED <<policy, attempted, outcome, worldVars, localVars,
                   tickVars, histVars>>

\* approvals.listPendingHealthGated.
List2(a) ==
    /\ pc[a] = "list2"
    /\ todo' = [todo EXCEPT ![a] = {r \in Pending : HealthGated(r)}]
    /\ Goto(a, "path2")
    /\ UNCHANGED <<rowVars, worldVars, op, pol, row, due, result, tickVars,
                   histVars>>

\* Policy there, delay (if any) over and gate open at the tick's `now`.
MayFire(a, r) ==
    /\ policy[r] \notin removed
    /\ Kind[policy[r]] = "time_delay" => r \in due[a]
    /\ GateOpenAt(a)

Path2(a) ==
    /\ pc[a] = "path2"
    /\ \/ todo[a] = {} /\ Finish(a)
       \/ \E r \in todo[a] :
            /\ todo' = [todo EXCEPT ![a] = @ \ {r}]
            /\ \/ ~MayFire(a, r) /\ Goto(a, "path2") /\ UNCHANGED row
               \/ MayFire(a, r) /\ Goto(a, "flip2") /\ row' = [row EXCEPT ![a] = r]
            /\ UNCHANGED <<op, pol, due, result, tickVars>>
    /\ UNCHANGED <<rowVars, worldVars, histVars>>

-----------------------------------------------------------------------------
\* The process is killed, or a call throws where nothing catches.
Abort(a) ==
    /\ a \notin Steady
    /\ Busy(a)
    /\ Finish(a)
    /\ UNCHANGED <<rowVars, worldVars, histVars>>

\* The update in dispatchDeploy's try block fails for another reason.
RecordError(a) ==
    /\ a \notin Steady
    /\ pc[a] = "record" /\ op[a] # "approve"
    /\ Goto(a, "recordFail")
    /\ UNCHANGED <<rowVars, worldVars, localVars, tickVars, histVars>>

Start(a) == StartFire(a) \/ StartApprove(a) \/ StartReject(a) \/ StartTick(a)

Progress(a) ==
    \/ Lookup(a) \/ Create(a) \/ Decide(a) \/ Approve(a) \/ Reject(a)
    \/ Deploy(a) \/ Record(a) \/ RecordFail(a)
    \/ List(a) \/ Path1(a) \/ Flip(a) \/ List2(a) \/ Path2(a)

Next ==
    /\ \/ World
       \/ \E a \in scope.procs : Start(a) \/ Progress(a) \/ Abort(a) \/ RecordError(a)
    /\ UNCHANGED scope

Spec == Init /\ [][Next]_vars

\* Time passes; a steady process finishes what it started and cron keeps
\* calling the tick.
FairSpec ==
    /\ Spec
    /\ WF_vars(Elapse /\ UNCHANGED scope)
    /\ \A a \in Steady :
         /\ WF_vars(Progress(a) /\ UNCHANGED scope)
         /\ SF_vars(StartTick(a) /\ UNCHANGED scope)

-----------------------------------------------------------------------------
(***************************************************************************)
(* Correctness.                                                            *)
(***************************************************************************)

\* Whenever the listener or a tick stands at a deploy, the row's policy lets it:
\* it is not manual, its delay is over, and a health-gated row is there by a
\* tick that itself had the gate open since it started, for a window taken at
\* its `now`.  A gate that was open for an earlier tick, or for another row, is
\* no excuse; one that closes after the tick looked is not seen by it.  Racing
\* ticks, approvals and aborts included.
GateRespected ==
    \A a \in Procs :
        pc[a] = "deploy" /\ op[a] # "approve" =>
            /\ Kind[policy[row[a]]] # "manual"
            /\ Kind[policy[row[a]]] = "time_delay" => row[a] \in elapsed
            /\ HealthGated(row[a]) => a \in opened

\* A row says a deploy was attempted only after one was, and success only if
\* one succeeded.
RecordedIsReal ==
    \A r \in Rows :
        /\ r \in attempted => deploys[r] > 0
        /\ outcome[r] = "success" => r \in worked

\* 0070_promotion_policy.sql, "pending -> rejected": where processes follow one
\* another, no deploy of a row is started once a reject has been applied.
RejectedNotDeployed ==
    [][Serial => \A r \in rejected : deploys'[r] = deploys[r]]_vars

\* 0070_promotion_policy.sql, "After deploy_attempted_at is set the row is
\* terminal": where processes follow one another, neither its status nor the
\* number of its deploys changes.
AttemptedIsTerminal ==
    [][Serial => \A r \in attempted :
                   status'[r] = status[r] /\ deploys'[r] = deploys[r]]_vars

\* A decided promotion is not decided again: neither a rejected nor an
\* attempted row is deployed once more.
DecidedIsFinal == RejectedNotDeployed /\ AttemptedIsTerminal

\* A delayed promotion is decided sooner or later, however the other processes
\* abort, unless the operator removes its policy.
DelayedIsDecided ==
    \A r \in Rows :
        (status[r] = "pending" /\ Kind[policy[r]] = "time_delay" /\ ~HealthGated(r))
            ~> (status[r] # "pending" \/ policy[r] \in removed)

\* ... and a health-gated one once the gate stays open.
GatedIsDecided ==
    \A r \in Rows :
        (<>[]GateOpen) =>
            ((status[r] = "pending" /\ HealthGated(r))
                ~> (status[r] # "pending" \/ policy[r] \in removed))

\* No promotion that is due waits for ever, delayed or health-gated.
DueIsDecided == DelayedIsDecided /\ GatedIsDecided
=============================================================================
