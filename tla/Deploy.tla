------------------------------- MODULE Deploy -------------------------------
(***************************************************************************)
(* runDeploy and runRollback, run by several deployers against one target: *)
(* the deployment rows of the target, the files staged on its VM, and the  *)
(* checkpoint each deployment takes first.  Every awaited call to the      *)
(* control plane or to the hypervisor is one step; between two of them any *)
(* other deployer may run.  A call can be refused, can take effect and     *)
(* still report an error, and a deployer can be killed anywhere.           *)
(*                                                                         *)
(* The target is a VM here; RemoteDeploy extends this module by the other  *)
(* kinds of target, which share the rows and the calls on them.            *)
(*                                                                         *)
(* Targets share neither rows nor VM, so one target is enough.  Release    *)
(* contents never change once ready, so what a staged file holds is known  *)
(* by its release and its position; the last one is manifest.json.  A blob *)
(* is staged under the name of its component: of two artifacts of one      *)
(* component, which a build may declare, the later one replaces the other. *)
(***************************************************************************)
EXTENDS Integers, FiniteSets, FiniteSetsExt

CONSTANTS
    Deployers,      \* concurrent callers (CLI, MCP server, promotion tick)
    Releases,       \* ready releases of the product
    Component(_, _),\* art.component of the f-th artifact of release x
    NoRel,          \* no release
    HistoryLimit,   \* rows runRollback looks at (10 in the code)
    MaxRows,        \* bound: deployment rows ever created
    Scopes          \* the target's kind, and bounds: how many deployers and
                    \* releases take part in a behaviour, the blob artifacts
                    \* of a release and its manifest.json, and failed calls

\* target.kind, with k8s_test and k8s_demo as one.
Kinds == {"vm", "k8s", "cloud_vm", "cloud_stack"}

ASSUME DeployAssumption ==
    /\ IsFiniteSet(Deployers)
    /\ NoRel \notin Releases
    /\ HistoryLimit \in Nat
    /\ MaxRows \in Nat
    /\ Scopes \subseteq [kind : Kinds, deployers : Nat, releases : Nat,
                        files : Nat \ {0}, errors : Nat]

Rows   == 1..MaxRows        \* in order of created_at
None   == 0                 \* no row
NoCkpt == [taken |-> FALSE, image |-> {}]

VARIABLES
    status,     \* deployment.status ("none": not inserted)
    relOf,      \* deployment.release_id
    prevOf,     \* deployment.previous_deployment_id
    vm,         \* the files in the staging directories of the VM
    ckpt,       \* the checkpoint signalman-pre-<row>
    pc,         \* where each deployer stands
    op,         \* which of the two operations it runs
    rel,        \* `release`
    prev,       \* `previousActive`, as getActiveForTarget returned it
    mine,       \* `deployment.id`
    copied,     \* files copied so far
    everActive, \* history: rows that were active once
    base,       \* history: the VM when this deployment's checkpoint was taken
    clean,      \* history: no call failed and nobody else moved meanwhile
    errors,     \* history: calls that failed
    killed,     \* history: some deployer was killed
    scope       \* who takes part, with which releases; never changes

Files  == 1..scope.files
Images == SUBSET (Releases \X Files)

rowVars   == <<status, relOf, prevOf>>
vmVars    == <<vm, ckpt>>
localVars == <<op, rel, prev, mine, copied>>
callVars  == <<rel, prev, copied>>
histVars  == <<everActive, base, clean, errors, killed>>
vars      == <<rowVars, vmVars, pc, localVars, histVars, scope>>

\* Each name is the call that comes next.  Thrown out of the executor:
\* "aborted" before its try block, "failed" by its catch block, "broken" by
\* an error of the catch block itself (not in runDeploy).
BeforeTry == {"lookup", "create", "auditStart", "checkpoint", "deploying"}
InTry     == {"stage", "probe", "supersede", "activate", "dropCkpt",
              "auditDone"}
InCatch   == {"restore", "discard", "markFailed", "auditFail"}
Remote    == {"apply", "ready", "markUnready", "auditUnready", "connect",
              "reach", "install", "close", "closeFail", "failCheck",
              "recheck", "undo", "markBack", "auditBegin", "auditBack",
              "auditBackFail"}     \* calls only RemoteDeploy makes
Working   == BeforeTry \cup InTry \cup InCatch \cup Remote
Ended     == {"done", "aborted", "failed", "broken", "killed"}

Statuses == {"none", "pending", "deploying", "active", "failed",
             "superseded", "rolled_back"}

TypeOK ==
    /\ status \in [Rows -> Statuses]
    /\ relOf \in [Rows -> Releases \cup {NoRel}]
    /\ prevOf \in [Rows -> Rows \cup {None}]
    /\ vm \in Images
    /\ ckpt \in [Rows -> [taken : BOOLEAN, image : Images]]
    /\ pc \in [Deployers -> Working \cup Ended \cup {"idle"}]
    /\ op \in [Deployers -> {"deploy", "rollback"}]
    /\ rel \in [Deployers -> Releases \cup {NoRel}]
    /\ prev \in [Deployers -> Rows \cup {None}]
    /\ mine \in [Deployers -> Rows \cup {None}]
    /\ copied \in [Deployers -> 0..scope.files]
    /\ everActive \subseteq Rows
    /\ base \in [Deployers -> Images]
    /\ clean \in [Deployers -> BOOLEAN]
    /\ scope \in [kind : Kinds, deployers : SUBSET Deployers,
                  releases : SUBSET Releases, files : Nat, errors : Nat]
    /\ errors \in 0..scope.errors
    /\ killed \in BOOLEAN

Init ==
    /\ status = [r \in Rows |-> "none"]
    /\ relOf = [r \in Rows |-> NoRel]
    /\ prevOf = [r \in Rows |-> None]
    /\ vm = {}
    /\ ckpt = [r \in Rows |-> NoCkpt]
    /\ pc = [d \in Deployers |-> "idle"]
    /\ op = [d \in Deployers |-> "deploy"]
    /\ rel = [d \in Deployers |-> NoRel]
    /\ prev = [d \in Deployers |-> None]
    /\ mine = [d \in Deployers |-> None]
    /\ copied = [d \in Deployers |-> 0]
    /\ everActive = {}
    /\ base = [d \in Deployers |-> {}]
    /\ clean = [d \in Deployers |-> TRUE]
    /\ errors = 0
    /\ killed = FALSE
    /\ \E s \in Scopes :
         scope \in [kind : {s.kind},
                   deployers : kSubset(s.deployers, Deployers),
                   releases : kSubset(s.releases, Releases),
                   files : {s.files}, errors : {s.errors}]

Active(d)  == pc[d] \in Working
Inserted   == {r \in Rows : status[r] # "none"}
ActiveRows == {r \in Rows : status[r] = "active"}
Quiet      == \A d \in Deployers : ~Active(d)

\* Deploys of the target follow one another.
Serial == Cardinality(scope.deployers) = 1

\* No call has failed and nobody was killed.
Undisturbed == errors = 0 /\ ~killed

-----------------------------------------------------------------------------
(***************************************************************************)
(* How a step ends.                                                        *)
(***************************************************************************)

\* d moves to loc; every other deployer at work was interleaved with.
Goto(d, loc, ok) ==
    /\ pc' = [pc EXCEPT ![d] = loc]
    /\ clean' = [c \in Deployers |-> IF c = d THEN clean[d] /\ ok
                                              ELSE clean[c] /\ ~Active(c)]

\* The call of this step returned, or the executor threw by itself.
Returns(d, loc) == Goto(d, loc, TRUE) /\ UNCHANGED <<errors, killed>>

\* Where an error of the call at pc[d] leads: out of runDeploy before the try
\* block, to the catch block inside it; the catch block goes on by itself.
OnError(d) ==
    CASE pc[d] \in BeforeTry -> "aborted"
      [] pc[d] \in InTry     -> "restore"
      [] pc[d] = "restore"   -> "discard"
      [] pc[d] = "discard"   -> "markFailed"
      [] pc[d] = "markFailed" -> "auditFail"
      [] pc[d] = "auditFail" -> "failed"

CallError(d) ==
    /\ Active(d)
    /\ errors < scope.errors
    /\ errors' = errors + 1
    /\ Goto(d, OnError(d), FALSE)
    /\ UNCHANGED killed

-----------------------------------------------------------------------------
(***************************************************************************)
(* The effects of the calls.                                               *)
(***************************************************************************)

\* SqliteDeploymentRepo.create.
Insert(r, x, p) ==
    /\ status[r] = "none"
    /\ \A q \in Rows : q < r => status[q] # "none"
    /\ status' = [status EXCEPT ![r] = "pending"]
    /\ relOf' = [relOf EXCEPT ![r] = x]
    /\ prevOf' = [prevOf EXCEPT ![r] = p]
    /\ UNCHANGED <<vmVars, everActive>>

\* SqliteDeploymentRepo.update: it never looks at the status it replaces.
SetStatus(r, s) ==
    /\ status' = [status EXCEPT ![r] = s]
    /\ everActive' = everActive \cup {q \in {r} : s = "active"}
    /\ UNCHANGED <<relOf, prevOf, vmVars>>

TakeCheckpoint(r) ==
    /\ ckpt' = [ckpt EXCEPT ![r] = [taken |-> TRUE, image |-> vm]]
    /\ UNCHANGED <<rowVars, vm, everActive>>

\* The hypervisor refuses a checkpoint that is not there.
RestoreCheckpoint(r) ==
    /\ ckpt[r].taken
    /\ vm' = ckpt[r].image
    /\ UNCHANGED <<rowVars, ckpt, everActive>>

DeleteCheckpoint(r) ==
    /\ ckpt[r].taken
    /\ ckpt' = [ckpt EXCEPT ![r] = NoCkpt]
    /\ UNCHANGED <<rowVars, vm, everActive>>

\* Artifacts f and g of x have one guestPath, <component>.bin in the staging
\* directory of the release; manifest.json is nobody else's.
SamePath(x, f, g) ==
    f = g \/ (/\ f < scope.files /\ g < scope.files
              /\ Component(x, f) = Component(x, g))

\* The image without the guest file that artifact f of x is staged to.
Without(image, x, f) ==
    image \ {<<x, g>> : g \in {h \in Files : SamePath(x, f, h)}}

CopyFile(x, f) ==
    /\ vm' = Without(vm, x, f) \cup {<<x, f>>}
    /\ UNCHANGED <<rowVars, ckpt, everActive>>

\* A copy that broke off: the guest file is not usable any more.
TearFile(x, f) ==
    /\ vm' = Without(vm, x, f)
    /\ UNCHANGED <<rowVars, ckpt, everActive>>

NoEffect == UNCHANGED <<rowVars, vmVars, everActive>>

\* Effects that never collide with the unique index on the active row.
Freely(d) ==
    \/ pc[d] = "checkpoint" /\ TakeCheckpoint(mine[d])
    \/ pc[d] = "deploying"  /\ SetStatus(mine[d], "deploying")
    \/ pc[d] = "supersede"  /\ SetStatus(prev[d], "superseded")
    \/ pc[d] = "dropCkpt"   /\ DeleteCheckpoint(mine[d])
    \/ pc[d] = "restore"    /\ RestoreCheckpoint(mine[d])
    \/ pc[d] = "discard"    /\ DeleteCheckpoint(mine[d])
    \/ pc[d] = "markFailed" /\ SetStatus(mine[d], "failed")

-----------------------------------------------------------------------------
(***************************************************************************)
(* Starting a deploy or a rollback.                                        *)
(***************************************************************************)

\* Bound: a row is left for every deployer that has yet to create its own.
RowLeft ==
    Cardinality(Inserted)
      + Cardinality({d \in Deployers :
                       pc[d] \in {"auditBegin", "lookup", "create"}}) < MaxRows

Start(d, o, x, loc) ==
    /\ pc' = [pc EXCEPT ![d] = loc]
    /\ op' = [op EXCEPT ![d] = o]
    /\ rel' = [rel EXCEPT ![d] = x]
    /\ prev' = [prev EXCEPT ![d] = None]
    /\ mine' = [mine EXCEPT ![d] = None]
    /\ copied' = [copied EXCEPT ![d] = 0]
    /\ base' = [base EXCEPT ![d] = {}]
    /\ clean' = [c \in Deployers |-> c = d \/ (clean[c] /\ ~Active(c))]

\* Thrown before anything happened; nothing to roll back to if o = rollback.
Blocked(d, o) ==
    /\ pc' = [pc EXCEPT ![d] = "aborted"]
    /\ op' = [op EXCEPT ![d] = o]
    /\ mine' = [mine EXCEPT ![d] = None]
    /\ UNCHANGED <<callVars, base, clean>>

\* release deploy: the release is ready, or DeployBlockedError.
BeginDeploy(d) ==
    /\ ~Active(d)
    /\ \/ RowLeft /\ \E x \in scope.releases : Start(d, "deploy", x, "lookup")
       \/ Blocked(d, "deploy")
    /\ UNCHANGED <<rowVars, vmVars, everActive, errors, killed>>

\* deployments.listForTarget(target, limit): the newest rows.
Recent == {r \in Inserted : Cardinality({q \in Inserted : q > r}) < HistoryLimit}

\* release rollback: the release the caller names, or that of the newest
\* superseded row among them.
BeginRollback(d) ==
    LET found == {r \in Recent : status[r] = "superseded"}
    IN  /\ ~Active(d)
        /\ \/ \E r \in found :
                /\ RowLeft
                /\ \A q \in found : q <= r
                /\ Start(d, "rollback", relOf[r], "lookup")
           \/ RowLeft /\ \E x \in scope.releases :
                             Start(d, "rollback", x, "lookup")
           \/ found = {} /\ Blocked(d, "rollback")
        /\ UNCHANGED <<rowVars, vmVars, everActive, errors, killed>>

-----------------------------------------------------------------------------
(***************************************************************************)
(* runDeploy.                                                              *)
(***************************************************************************)

\* Mutant: the newest row is taken for the active one.
LookupNewest(d) ==
    /\ pc[d] = "lookup"
    /\ prev' = [prev EXCEPT ![d] = Cardinality(Inserted)]
    /\ Returns(d, "create")
    /\ UNCHANGED <<rowVars, vmVars, op, rel, mine, copied, everActive, base>>

\* getActiveForTarget, listForRelease and resolveVm.
Lookup(d) ==
    /\ pc[d] = "lookup"
    /\ \/ /\ ActiveRows = {}
          /\ UNCHANGED prev
       \/ \E r \in ActiveRows : prev' = [prev EXCEPT ![d] = r]
    /\ Returns(d, "create")
    /\ UNCHANGED <<rowVars, vmVars, op, rel, mine, copied, everActive, base>>

Create(d) ==
    /\ pc[d] = "create"
    /\ \E r \in Rows :
         /\ Insert(r, rel[d], prev[d])
         /\ mine' = [mine EXCEPT ![d] = r]
    /\ Returns(d, "auditStart")
    /\ UNCHANGED <<op, callVars, base>>

\* auditLog.append(release.deploy.started).
AuditStart(d) ==
    /\ pc[d] = "auditStart"
    /\ Returns(d, "checkpoint")
    /\ NoEffect
    /\ UNCHANGED <<localVars, base>>

Checkpoint(d) ==
    /\ pc[d] = "checkpoint"
    /\ Freely(d)
    /\ base' = [base EXCEPT ![d] = vm]
    /\ Returns(d, "deploying")
    /\ UNCHANGED localVars

\* The last call outside the try block.
SetDeploying(d) ==
    /\ pc[d] = "deploying"
    /\ Freely(d)
    /\ Returns(d, "stage")
    /\ UNCHANGED <<localVars, base>>

\* Mutant: manifest.json is not staged.
StageNoManifest(d) ==
    /\ pc[d] = "stage"
    /\ \/ /\ copied[d] + 1 < scope.files
          /\ CopyFile(rel[d], copied[d] + 1)
          /\ copied' = [copied EXCEPT ![d] = @ + 1]
          /\ Returns(d, "stage")
       \/ /\ copied[d] + 1 >= scope.files
          /\ Returns(d, "probe")
          /\ NoEffect
          /\ UNCHANGED copied
    /\ UNCHANGED <<op, rel, prev, mine, base>>

\* One copyFileToVM per blob artifact, then the manifest.
Stage(d) ==
    /\ pc[d] = "stage"
    /\ CopyFile(rel[d], copied[d] + 1)
    /\ copied' = [copied EXCEPT ![d] = @ + 1]
    /\ Returns(d, IF copied[d] + 1 < scope.files THEN "stage" ELSE "probe")
    /\ UNCHANGED <<op, rel, prev, mine, base>>

\* Mutant: the previous deployment is superseded before the probes answer.
ProbeLate(d) ==
    /\ pc[d] = "probe"
    /\ \/ prev[d] = None /\ NoEffect
       \/ prev[d] # None /\ SetStatus(prev[d], "superseded")
    /\ Returns(d, "activate") \/ Returns(d, "restore")
    /\ UNCHANGED <<localVars, base>>

\* vm_reachable and the declared probes: any failing one throws
\* DeployHealthFailedError; degraded ones do not.
Probe(d) ==
    /\ pc[d] = "probe"
    /\ \/ Returns(d, IF prev[d] # None THEN "supersede" ELSE "activate")
       \/ Returns(d, "restore")
    /\ NoEffect
    /\ UNCHANGED <<localVars, base>>

Supersede(d) ==
    /\ pc[d] = "supersede"
    /\ Freely(d)
    /\ Returns(d, "activate")
    /\ UNCHANGED <<localVars, base>>

\* Refused by deployment_target_active_unique while another row is active.
Activate(d) ==
    /\ pc[d] = "activate"
    /\ \/ /\ ActiveRows \subseteq {mine[d]}
          /\ SetStatus(mine[d], "active")
          /\ Returns(d, "dropCkpt")
       \/ /\ ~(ActiveRows \subseteq {mine[d]})
          /\ NoEffect
          /\ Returns(d, "restore")
    /\ UNCHANGED <<localVars, base>>

DropCheckpoint(d) ==
    /\ pc[d] = "dropCkpt"
    /\ Freely(d)
    /\ Returns(d, "auditDone")
    /\ UNCHANGED <<localVars, base>>

\* auditLog.append(release.deploy.completed), inside the try block.
AuditDone(d) ==
    /\ pc[d] = "auditDone"
    /\ Returns(d, "done")
    /\ NoEffect
    /\ UNCHANGED <<localVars, base>>

-----------------------------------------------------------------------------
(***************************************************************************)
(* Its catch block: three steps that swallow their own errors, the audit   *)
(* record, and the original error again.                                   *)
(***************************************************************************)

Restore(d) ==
    /\ pc[d] = "restore"
    /\ Freely(d) \/ (~ckpt[mine[d]].taken /\ NoEffect)
    /\ Returns(d, "discard")
    /\ UNCHANGED <<localVars, base>>

Discard(d) ==
    /\ pc[d] = "discard"
    /\ Freely(d) \/ (~ckpt[mine[d]].taken /\ NoEffect)
    /\ Returns(d, "markFailed")
    /\ UNCHANGED <<localVars, base>>

MarkFailed(d) ==
    /\ pc[d] = "markFailed"
    /\ Freely(d)
    /\ Returns(d, "auditFail")
    /\ UNCHANGED <<localVars, base>>

AuditFail(d) ==
    /\ pc[d] = "auditFail"
    /\ Returns(d, "failed")
    /\ NoEffect
    /\ UNCHANGED <<localVars, base>>

-----------------------------------------------------------------------------
(***************************************************************************)
(* Failures.                                                               *)
(***************************************************************************)

\* The call changes nothing and throws.
CallRefused(d) ==
    /\ CallError(d)
    /\ NoEffect
    /\ UNCHANGED <<localVars, base>>

\* The call takes effect and throws all the same: a lost HTTP answer, a
\* PowerShell timeout, the Get-VMCheckpoint that follows Checkpoint-VM.
ErrorAfterEffect(d) ==
    /\ CallError(d)
    /\ \/ Freely(d)
       \/ pc[d] = "create" /\ \E r \in Rows : Insert(r, rel[d], prev[d])
       \/ pc[d] = "activate" /\ ActiveRows \subseteq {mine[d]}
            /\ SetStatus(mine[d], "active")
       \/ pc[d] = "stage" /\ TearFile(rel[d], copied[d] + 1)
    /\ UNCHANGED <<localVars, base>>

\* Bound: where several deployers take part, one of them is killed.
KillLeft == Serial \/ ~killed

\* The process dies; rows, VM and checkpoint stay as they are.
Kill(d) ==
    /\ Active(d) /\ KillLeft
    /\ Goto(d, "killed", FALSE)
    /\ killed' = TRUE
    /\ NoEffect \/ (pc[d] = "stage" /\ TearFile(rel[d], copied[d] + 1))
    /\ UNCHANGED <<localVars, base, errors>>

Step(d) ==
    \/ BeginDeploy(d) \/ BeginRollback(d)
    \/ Lookup(d) \/ Create(d) \/ AuditStart(d) \/ Checkpoint(d)
    \/ SetDeploying(d) \/ Stage(d) \/ Probe(d) \/ Supersede(d) \/ Activate(d)
    \/ DropCheckpoint(d) \/ AuditDone(d)
    \/ Restore(d) \/ Discard(d) \/ MarkFailed(d) \/ AuditFail(d)

Fault(d) == CallRefused(d) \/ ErrorAfterEffect(d) \/ Kill(d)

Next ==
    /\ scope.kind = "vm"
    /\ \E d \in scope.deployers : Step(d) \/ Fault(d)
    /\ UNCHANGED scope

Spec == Init /\ [][Next]_vars

-----------------------------------------------------------------------------
(***************************************************************************)
(* Correctness.                                                            *)
(***************************************************************************)

\* A superseded row was active once, so a rollback goes to a release that has
\* passed its probes on this target, however the deploys interleaved.
SupersededWasActive ==
    \A r \in Rows : status[r] = "superseded" => r \in everActive

\* A deploy that returned to its caller is active until another one replaces
\* it, or a Kubernetes rollback takes it back: no catch block of another
\* deployer marks it failed.
DoneStaysGood ==
    \A d \in Deployers :
        pc[d] = "done" /\ mine[d] # None =>
            status[mine[d]] \in {"active", "superseded", "rolled_back"}

\* meta-build-system.md 7.2, "on health-fail it's discarded and the previous
\* deployment remains active": where deploys follow one another, one that
\* nothing disturbed and that threw left the previous row and, on a VM, image
\* and checkpoints as it found them.
HealthFailKeepsPrevious ==
    \A d \in Deployers :
        Serial /\ pc[d] = "failed" /\ clean[d] =>
            /\ scope.kind = "vm" => vm = base[d] /\ ~ckpt[mine[d]].taken
            /\ prev[d] # None => status[prev[d]] = "active"

\* What earlier deploys of the target left behind, by a kill, by an error
\* before the try block or by an error of the catch block, is in nobody's way:
\* the next one that nothing disturbs is not refused its active row.
LeftoversBlockNothing ==
    \A d \in Deployers :
        Serial /\ clean[d] /\ pc[d] = "activate" => ActiveRows = {}

\* What a release leaves under its guest paths: of the artifacts of one
\* component the last, and the manifest.
Lasting(x) ==
    {f \in Files : \A g \in Files : g > f => ~SamePath(x, f, g)}

\* meta-build-system.md 7.2, "the deploy is staged on the target before
\* becoming active": where deploys follow one another, between them the VM
\* holds, under every guest path of the active release, what its own staging
\* put there last, after at most one failed call and whatever was staged over
\* it meanwhile.  An artifact with a later one of the same component is not on
\* the VM, although manifest.json lists it with its digest.
ActiveIsStaged ==
    scope.kind = "vm" /\ Serial /\ Quiet /\ errors <= 1 /\ ~killed =>
        \A r \in ActiveRows : {relOf[r]} \X Lasting(relOf[r]) \subseteq vm

\* Racing deploys whose calls all work do not leave the target without an
\* active deployment once it had one, unless a Kubernetes rollback took it
\* away: the one that loses the race for the unique index has superseded only
\* what the winner replaced.
QuietTargetHasActive ==
    Quiet /\ Undisturbed /\ everActive # {} =>
        ActiveRows # {} \/ \E r \in Rows : status[r] = "rolled_back"

\* ... and no deploy leaves its checkpoint behind.
NoCheckpointLeak ==
    Quiet /\ Undisturbed => \A r \in Rows : ~ckpt[r].taken
=============================================================================
