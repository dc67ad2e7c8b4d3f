---------------------------- MODULE RemoteDeploy ----------------------------
(***************************************************************************)
(* `release deploy` and `release rollback` on targets that are not VMs of  *)
(* the hypervisor (verbs/control-plane.ts): Kubernetes targets, cloud VMs  *)
(* and OpenTofu stacks.  They work on the same deployment rows as runDeploy*)
(* (module Deploy) and make many of its calls, but there is no checkpoint: *)
(* a failed deploy restores nothing.  An adapter is described by the       *)
(* sequence of its awaited calls and by that of its catch block.           *)
(*                                                                         *)
(* The bundle applied to a cluster, and the one installed on a cloud VM,   *)
(* are named by the target and not by the release, so only the contents of *)
(* a stack, which gets the release as a variable, are modelled.            *)
(***************************************************************************)
EXTENDS Deploy, Sequences

VARIABLES
    tunnel      \* `dialerHandle` of a cloud VM behind SSM or Bastion: none,
                \* open, closed, or signalled when it was not ready in time

RemoteTypeOK ==
    tunnel \in [Deployers -> {"none", "open", "closed", "signalled"}]

RemoteInit ==
    /\ Init
    /\ tunnel = [d \in Deployers |-> "none"]

-----------------------------------------------------------------------------
(***************************************************************************)
(* The adapters.                                                           *)
(***************************************************************************)

BeforeApply == <<"lookup", "create", "auditStart", "deploying">>
Finalise    == <<"supersede", "activate", "auditDone">>
RecordFail  == <<"recheck", "markFailed", "auditFail">>

\* runK8sReleaseDeploy: apply and kubectl wait.
K8sCalls == BeforeApply \o <<"apply", "ready">> \o Finalise
K8sCatch == RecordFail

\* Mutant: the catch block forgets the tunnel.
CloudVmCatchBare == RecordFail

\* runCloudVmReleaseDeploy: the address or a tunnel, the reachability probe,
\* the install bundle; the tunnel is closed last, or first in the catch block.
CloudVmCalls == BeforeApply \o <<"connect", "reach", "install">> \o Finalise
                            \o <<"close">>
CloudVmCatch == <<"closeFail">> \o RecordFail

\* runCloudStackReleaseDeploy: tofu apply; the catch block begins with a
\* failed health check, which may itself fail.
CloudStackCalls == BeforeApply \o <<"apply">> \o Finalise
CloudStackCatch == <<"failCheck">> \o RecordFail

\* runK8sReleaseRollback has no try block and creates no row.
K8sUndo == <<"lookup", "undo", "markBack", "auditBack">>

IsCloud == scope.kind \in {"cloud_vm", "cloud_stack"}
Wrapped(d) == IsCloud /\ op[d] = "rollback"

\* runCloudReleaseRollback wraps the deploy in audit entries of its own.
RollbackCalls(calls) == <<"auditBegin">> \o calls \o <<"auditBack">>
RollbackCatch(calls) == calls \o <<"auditBackFail">>

Calls(d) ==
    LET calls == CASE scope.kind = "k8s" /\ op[d] = "deploy" -> K8sCalls
                   [] scope.kind = "k8s" /\ op[d] = "rollback" -> K8sUndo
                   [] scope.kind = "cloud_vm" -> CloudVmCalls
                   [] scope.kind = "cloud_stack" -> CloudStackCalls
    IN  (IF Wrapped(d) THEN RollbackCalls(calls) ELSE calls) \o <<"done">>

Catch(d) ==
    LET calls == CASE scope.kind = "k8s" -> K8sCatch
                   [] scope.kind = "cloud_vm" -> CloudVmCatch
                   [] scope.kind = "cloud_stack" -> CloudStackCatch
    IN  (IF Wrapped(d) THEN RollbackCatch(calls) ELSE calls) \o <<"failed">>

InSeq(p, s) == \E i \in 1..Len(s) : s[i] = p

\* The place that follows p in s; there is nothing to supersede on a target
\* without an active deployment.
Follows(d, p, s) ==
    LET i == CHOOSE j \in 1..Len(s) : s[j] = p
    IN  IF s[i + 1] = "supersede" /\ prev[d] = None THEN s[i + 2] ELSE s[i + 1]

Proceeds(d) ==
    Returns(d, Follows(d, pc[d], IF InSeq(pc[d], Catch(d)) THEN Catch(d)
                                                           ELSE Calls(d)))

\* The adapter throws inside its try block.
Throws(d) == Returns(d, Catch(d)[1])

\* Where an error of the call at pc[d] leads: the calls of a Kubernetes
\* rollback and those before a try block throw out of the adapter, as does
\* its catch block.  Closing a tunnel reports none, it waits for the exit.
OnRemoteError(d) ==
    CASE pc[d] = "auditBegin" -> "aborted"
      [] pc[d] = "auditBackFail" -> "failed"
      [] pc[d] \in {"lookup", "create", "auditStart", "deploying", "undo",
                    "markBack"} ->
            IF Wrapped(d) THEN "auditBackFail" ELSE "aborted"
      [] pc[d] = "auditBack" ->
            IF Wrapped(d) THEN "auditBackFail" ELSE "aborted"
      [] pc[d] \in {"failCheck", "recheck", "markFailed", "auditFail"} ->
            IF Wrapped(d) THEN "auditBackFail" ELSE "broken"
      [] OTHER -> Catch(d)[1]

RemoteError(d) ==
    /\ Active(d) /\ pc[d] \notin {"close", "closeFail"}
    /\ errors < scope.errors
    /\ errors' = errors + 1
    /\ Goto(d, OnRemoteError(d), FALSE)
    /\ UNCHANGED killed

-----------------------------------------------------------------------------
(***************************************************************************)
(* Starting.                                                               *)
(***************************************************************************)

\* A new call has no tunnel yet.
Begins(d) ==
    /\ tunnel' = [tunnel EXCEPT ![d] = "none"]
    /\ UNCHANGED <<rowVars, vmVars, everActive, errors, killed>>

RemoteBegin(d) ==
    /\ ~Active(d)
    /\ \/ RowLeft /\ \E x \in scope.releases : Start(d, "deploy", x, "lookup")
       \/ Blocked(d, "deploy")
    /\ Begins(d)

K8sRollback(d) ==
    /\ scope.kind = "k8s"
    /\ ~Active(d)
    /\ Start(d, "rollback", NoRel, "lookup")
    /\ Begins(d)

\* The release the caller names, or that of the deployment before the active
\* one, whatever has become of it.
CloudRollback(d) ==
    LET prior == {prevOf[r] : r \in ActiveRows} \ {None}
    IN  /\ IsCloud
        /\ ~Active(d)
        /\ \/ RowLeft /\ \E x \in scope.releases \cup {relOf[r] : r \in prior} :
                             Start(d, "rollback", x, "auditBegin")
           \/ prior = {} /\ Blocked(d, "rollback")
        /\ Begins(d)

-----------------------------------------------------------------------------
(***************************************************************************)
(* The calls, each followed by the next of the adapter.                    *)
(***************************************************************************)

\* A call of the adapter at p that changes rows, contents or the tunnel at
\* most.
At(d, p) == pc[d] = p /\ UNCHANGED <<localVars, base>>

\* Audit entries, the health check of a failed stack and the two audit
\* entries around a cloud rollback change nothing here.
RemoteAudit(d) ==
    /\ \E p \in {"auditStart", "auditDone", "auditFail", "auditBegin",
                 "auditBack", "auditBackFail", "failCheck"} : At(d, p)
    /\ Proceeds(d)
    /\ NoEffect
    /\ UNCHANGED tunnel

\* Kubernetes has nothing to roll back without an active deployment.
RemoteLookup(d) ==
    /\ pc[d] = "lookup"
    /\ \/ /\ ActiveRows = {}
          /\ IF InSeq("undo", Calls(d)) THEN Returns(d, "aborted")
                                       ELSE Proceeds(d)
          /\ UNCHANGED prev
       \/ \E r \in ActiveRows :
            /\ prev' = [prev EXCEPT ![d] = r]
            /\ Proceeds(d)
    /\ UNCHANGED <<rowVars, vmVars, op, rel, mine, copied, everActive, base,
                   tunnel>>

RemoteCreate(d) ==
    /\ pc[d] = "create"
    /\ \E r \in Rows :
         /\ Insert(r, rel[d], prev[d])
         /\ mine' = [mine EXCEPT ![d] = r]
    /\ Proceeds(d)
    /\ UNCHANGED <<op, callVars, base, tunnel>>

\* Updates of rows, which never collide with the index on the active one.
RowUpdate(d) ==
    \/ pc[d] = "deploying"   /\ SetStatus(mine[d], "deploying")
    \/ pc[d] = "supersede"   /\ SetStatus(prev[d], "superseded")
    \/ pc[d] \in {"markFailed", "markUnready"} /\ SetStatus(mine[d], "failed")
    \/ pc[d] = "markBack"    /\ SetStatus(prev[d], "rolled_back")

RemoteUpdate(d) ==
    /\ \E p \in {"deploying", "supersede", "markFailed", "markBack"} : At(d, p)
    /\ RowUpdate(d)
    /\ Proceeds(d)
    /\ UNCHANGED tunnel

\* Refused by the unique index while another row is active.
RemoteActivate(d) ==
    /\ At(d, "activate")
    /\ \/ /\ ActiveRows \subseteq {mine[d]}
          /\ SetStatus(mine[d], "active")
          /\ Proceeds(d)
       \/ /\ ~(ActiveRows \subseteq {mine[d]})
          /\ NoEffect
          /\ Throws(d)
    /\ UNCHANGED tunnel

\* kubectl apply, helm upgrade or tofu apply.  A stack whose apply fails is
\* as it was, as it should be, or between the two.
Apply(d) ==
    /\ At(d, "apply")
    /\ UNCHANGED <<rowVars, ckpt, everActive, tunnel>>
    /\ \/ /\ vm' = IF scope.kind = "k8s" THEN vm ELSE {<<rel[d], 1>>}
          /\ Proceeds(d)
       \/ /\ vm' \in IF scope.kind = "k8s" THEN {vm}
                                           ELSE {vm, {}, {<<rel[d], 1>>}}
          /\ Throws(d)

\* kubectl wait and its health check: pods that are not ready are no error
\* yet, a refused login or a missing namespace is.
Ready(d) ==
    /\ At(d, "ready")
    /\ Proceeds(d) \/ Returns(d, "markUnready") \/ Throws(d)
    /\ NoEffect
    /\ UNCHANGED tunnel

\* The row is marked failed inside the try block already.
MarkUnready(d) ==
    /\ At(d, "markUnready")
    /\ RowUpdate(d)
    /\ Returns(d, "auditUnready")
    /\ UNCHANGED tunnel

AuditUnready(d) ==
    /\ At(d, "auditUnready")
    /\ NoEffect
    /\ Throws(d)
    /\ UNCHANGED tunnel

\* The public address, or a tunnel that is ready.  A tunnel that is not ready
\* in time is sent a SIGTERM and forgotten.
Connect(d) ==
    /\ At(d, "connect")
    /\ \/ tunnel' \in {tunnel, [tunnel EXCEPT ![d] = "open"]} /\ Proceeds(d)
       \/ tunnel' \in {tunnel, [tunnel EXCEPT ![d] = "signalled"]} /\ Throws(d)
    /\ NoEffect

\* The TCP probe with its health check, then the install bundle if the target
\* names one, with one health check per package.
ReachInstall(d) ==
    /\ At(d, "reach") \/ At(d, "install")
    /\ Proceeds(d) \/ Throws(d)
    /\ NoEffect
    /\ UNCHANGED tunnel

\* dialerHandle.close: SIGTERM, SIGKILL after the grace period.
CloseTunnel(d) ==
    /\ At(d, "close") \/ At(d, "closeFail")
    /\ tunnel' = [tunnel EXCEPT ![d] = IF @ = "open" THEN "closed" ELSE @]
    /\ Proceeds(d)
    /\ NoEffect

\* Mutant: the catch block marks a row that is still deploying.
RecheckDeploying(d) ==
    /\ At(d, "recheck")
    /\ IF status[mine[d]] = "deploying"
         THEN Proceeds(d)
         ELSE Returns(d, Follows(d, "auditFail", Catch(d)))
    /\ NoEffect
    /\ UNCHANGED tunnel

\* The catch block marks a row that is not marked failed yet.
Recheck(d) ==
    /\ At(d, "recheck")
    /\ IF status[mine[d]] # "failed"
         THEN Proceeds(d)
         ELSE Returns(d, Follows(d, "auditFail", Catch(d)))
    /\ NoEffect
    /\ UNCHANGED tunnel

\* kubectl rollout undo: the cluster's own revision history.
Undo(d) ==
    /\ At(d, "undo")
    /\ Proceeds(d) \/ Returns(d, "aborted")
    /\ NoEffect
    /\ UNCHANGED tunnel

-----------------------------------------------------------------------------
(***************************************************************************)
(* Failures.                                                               *)
(***************************************************************************)

RemoteRefused(d) ==
    /\ RemoteError(d)
    /\ NoEffect
    /\ UNCHANGED <<localVars, base, tunnel>>

RemoteErrorAfterEffect(d) ==
    /\ RemoteError(d)
    /\ \/ RowUpdate(d)
       \/ pc[d] = "create" /\ \E r \in Rows : Insert(r, rel[d], prev[d])
       \/ /\ pc[d] = "activate"
          /\ ActiveRows \subseteq {mine[d]}
          /\ SetStatus(mine[d], "active")
    /\ UNCHANGED <<localVars, base, tunnel>>

\* A killed host leaves the processes of its tunnels.
RemoteKill(d) ==
    /\ Active(d) /\ KillLeft
    /\ Goto(d, "killed", FALSE)
    /\ killed' = TRUE
    /\ \/ NoEffect
       \/ /\ pc[d] = "apply" /\ scope.kind = "cloud_stack"
          /\ vm' \in {{}, {<<rel[d], 1>>}}
          /\ UNCHANGED <<rowVars, ckpt, everActive>>
    /\ UNCHANGED <<localVars, base, errors, tunnel>>

RemoteStep(d) ==
    \/ RemoteBegin(d) \/ K8sRollback(d) \/ CloudRollback(d)
    \/ RemoteAudit(d) \/ RemoteLookup(d) \/ RemoteCreate(d) \/ RemoteUpdate(d)
    \/ RemoteActivate(d) \/ Apply(d) \/ Ready(d) \/ MarkUnready(d)
    \/ AuditUnready(d) \/ Connect(d) \/ ReachInstall(d) \/ CloseTunnel(d)
    \/ Recheck(d) \/ Undo(d)

RemoteFault(d) ==
    RemoteRefused(d) \/ RemoteErrorAfterEffect(d) \/ RemoteKill(d)

RemoteNext ==
    /\ scope.kind # "vm"
    /\ \E d \in scope.deployers : RemoteStep(d) \/ RemoteFault(d)
    /\ UNCHANGED scope

\* A target of any kind.
TargetNext == (Next /\ UNCHANGED tunnel) \/ RemoteNext

TargetSpec == RemoteInit /\ [][TargetNext]_<<vars, tunnel>>

-----------------------------------------------------------------------------
(***************************************************************************)
(* Correctness.                                                            *)
(***************************************************************************)

\* "so we can close the tunnel after install-bundle finishes (or on any error
\* path below)": whichever call fails, in the try block, in the catch block
\* or around them, a deploy that is over has no tunnel open.
TunnelClosed ==
    \A d \in Deployers :
        pc[d] \in Ended \ {"killed"} => tunnel[d] # "open"

\* A deploy that threw does not stay active, although it may have been for a
\* while (the audit entry comes after the update), as long as one call fails
\* at most; a cloud rollback may throw because of its own last audit entry.
ThrownIsNotActive ==
    \A d \in Deployers :
        /\ pc[d] \in {"failed", "broken"} /\ mine[d] # None
        /\ errors <= 1 /\ ~Wrapped(d)
        => status[mine[d]] # "active"

\* A stack holds the release of the deploy that returned last, where deploys
\* follow one another, whatever earlier ones have left applied in part.
StackHoldsActive ==
    \A d \in Deployers :
        Serial /\ scope.kind = "cloud_stack" /\ pc[d] = "done" =>
            \A r \in ActiveRows : vm = {<<relOf[r], 1>>}

\* A cloud rollback goes to a deployment that was active on the target: so
\* was the one before the active row, in every interleaving.
PriorWasActive ==
    \A r \in Rows : prevOf[r] # None => prevOf[r] \in everActive /\ prevOf[r] < r

\* Whatever a rollback may go back to, on a target of any kind, was active
\* once: no interleaving makes it a release that never passed its probes.
RollbackWasActive == SupersededWasActive /\ PriorWasActive

\* The rows as deployments of the register: one that failed after it was
\* active is a former one, one that failed before is closed.
PhaseOfStatus ==
    [none |-> "absent", pending |-> "open", deploying |-> "open",
     active |-> "standing", superseded |-> "former", rolled_back |-> "former",
     failed |-> "closed"]

RowPhase ==
    [r \in Rows |-> IF status[r] = "failed" /\ r \in everActive
                      THEN "former" ELSE PhaseOfStatus[status[r]]]

Register == INSTANCE TargetRegister WITH
                Slots <- Rows, Contents <- Releases, NoSlot <- None,
                Empty <- NoRel,
                phase <- RowPhase, holds <- relOf, prior <- prevOf

\* The rows of a target are a register, although no update looks at the status
\* it replaces and every one is made by a deployer that read it much earlier:
\* however deploys, rollbacks, failing calls, catch blocks and kills
\* interleave, a row is active at most once, alone, after it was opened and
\* never after it failed; a row that is superseded or rolled back was active,
\* and so was the one any row names as the one before it.
ImplementsRegister == Register!Spec

\* The caller is told the truth: a deploy that returned stays good, one that
\* threw does not stay active.
OutcomeIsHonest == DoneStaysGood /\ ThrownIsNotActive

\* No path through a deploy leaves its checkpoint or its tunnel behind.
NothingLeaks == NoCheckpointLeak /\ TunnelClosed

\* VM and stack hold what the active row says, where deploys follow one
\* another, after a failed health check too.
ActiveIsInstalled ==
    ActiveIsStaged /\ StackHoldsActive /\ HealthFailKeepsPrevious

\* The target does not lose its active row to a race, and no leftover keeps
\* the next deploy from having it.
TargetKeepsActive == QuietTargetHasActive /\ LeftoversBlockNothing
=============================================================================
