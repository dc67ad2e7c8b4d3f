# A TLA+ model of signalman

signalman drives Windows and Linux test machines: it builds releases of a
product, deploys them to virtual machines, clusters and clouds, promotes them
from tier to tier, hands builds to runners on other hosts, and runs test
scenarios on throw-away VMs with a kernel debugger attached. This directory
models the part of it that decides what is *recorded* and what is *done* when
several processes work at once and calls fail. Paths below are
relative to `src/host/src/` unless they begin with `src/`.

1. [Inventory](#1-inventory)
2. [Plan](#2-plan)
3. [Modules and the code](#3-modules-and-the-code)
4. [Runs](#4-runs)
5. [Fairness](#5-fairness)
6. [Proofs](#6-proofs)
7. [Where code and documents disagree](#7-where-code-and-documents-disagree)
8. [Abstractions and what is not modelled](#8-abstractions-and-what-is-not-modelled)

## 1. Inventory

### The parts and how they meet

One *control plane* owns a database (SQLite, or PostgreSQL) of products,
releases, artifacts, targets, deployments, approvals, jobs, runners and an audit
log. It is reached in two ways: in process, by the command line and the MCP
server, which open the database themselves, and over HTTP, by runners and remote
command lines. Nothing else synchronises these processes. There are no leases,
and no lock survives an `await`; what holds is what one SQL statement or one
partial unique index guarantees.

| component | state | operations | used by |
|---|---|---|---|
| job queue (`http/app.ts`, `control-plane/storage/sqlite.ts`) | `job` rows: status, claimed_by, result, error | submit, claim, set running, complete, fail, get | command line, workers |
| runner worker (`runner/worker.ts`, `runner/client.ts`) | the job it holds, its place in the loop | poll, claim, run the handler, report; heartbeat timer | job queue, build executor |
| build executor (`control-plane/build/executor.ts`) | `release` and `artifact` rows | replace a leftover row, create, capture artifacts, mark ready or failed | command line, workers (through `runner/http-control-plane.ts`) |
| deploy executor (`control-plane/deploy/`) | `deployment` rows, the VM's disk, its checkpoints | deploy, rollback | command line, MCP tools, promotion |
| auto-promotion (`control-plane/promotion/listener.ts`, `verbs/control-plane.ts`) | `approval` rows, policies | fire, approve, reject, tick | build and deploy verbs, operators, cron |
| runner registry | `runner` rows: last_seen_at, deleted_at | heartbeat, deregister, list with a stale flag | worker, operators |
| health scheduler (`control-plane/scheduler/runner.ts`) | `health_schedule.last_run_at` | tick | cron or a daemon; feeds the health log promotion reads |
| event dispatcher (`control-plane/events/`) | deliveries | dispatch to webhook, Slack, mail | verbs |
| signing (`control-plane/signing/`) | keys, signatures on releases | sign, verify, rotate | build, deploy |
| blob drivers (`control-plane/blobs/`) | content-addressed files | put, get | build, deploy |
| cloud (`cloud/`) | budgets, usage rows, tofu state, instances | check budget, provision, record, reap | provisioning |
| Kubernetes and cloud deploys (`verbs/control-plane.ts`, `k8s/`, `cloud/tofu.ts`, `cloud/dialers/`) | the same deployment rows, a tunnel, the stack | deploy, rollback | verbs |
| hypervisor and Docker backends (`hypervisors/`, `docker/`) | external programs | VM and checkpoint operations | deploy, scenarios, tools |
| provisioning (`provisioning/`) | bootstrap state file, ephemeral VMs | create, resume, reap | tools, scenarios |
| scenario engine (`scenarios/`) | the run's steps and results | setup, steps, teardown | command line, MCP |
| kernel debugger (`kernel-debug/`) | session, pending command | open, command, break, close | MCP tools |
| guest client and agent (`guest/`, `src/guest/`) | files and processes in the guest | copy, exec, probe, UI | deploy, scenarios |
| host service (`src/service/`) | Hyper-V | VM operations | hypervisor backend |
| package registry (`src/registry/`) | packages, OCI uploads, virtual upstreams | publish, resolve, upload sessions | external clients, blob driver |

### What is hard

* **Calls that fail after they took effect.** A runner that loses the answer of
  a call cannot tell whether it was applied (`runner/client.ts:77`), and both
  the worker loop and the build executor go on as if it was not.
* **Requests that arrive late.** A worker that gave up on a call has moved on
  while the request still travels.
* **Values read before an `await` and used after it.** The previous active
  deployment (`control-plane/deploy/executor.ts:102`), the release found by tag
  (`control-plane/build/executor.ts:209`), the approval's status
  (`verbs/control-plane.ts:2849`), the list a tick works through
  (`control-plane/promotion/listener.ts:452` ff.).
* **Several steps of which one fails.** Supersede, then activate; deploy, then
  record; restore, delete the checkpoint, mark failed.
* **Crashes.** A process may stop between any two calls, and no one resumes it.
* **Names that are not identities.** A runner's name outlives its process, an
  Azure VM's its deletion, an ephemeral VM's the run it was made for; what is
  decided about the name is then done to another bearer.
* **Clean-up by others.** Reapers and sweeps judge by age and by name while the
  owners are still at work.
* **An external program's output.** `kd.exe` answers late, twice or never, and
  what it prints is all the session has.

`PROJECT.json` lists these hazards with their lines and the properties that
would notice each of them going wrong.

### What makes each component correct

* *Job queue*: a job is in one worker's hands, its handler is started at most
  once, a recorded success is real, no job moves back, every job is claimed.
* *Build*: a release that says ready has all its artifacts; a build that
  returned has a ready release; leftovers of crashed builds block nothing.
* *Deploy*: a rollback goes to something that once passed its probes; the VM
  holds what the active row says; a failed health check changes nothing; no
  checkpoint leaks; racing deploys do not leave the target without an active
  deployment.
* *Other targets*: a deploy that threw is not active, its tunnel is closed, a
  stack holds the active release, what a rollback goes to was active.
* *Promotion*: the system deploys only through the policy's gate; a rejected
  promotion is not deployed; what is recorded happened; a due promotion is
  decided.
* *Runners*: a verified deploy was heard from, a deregistered runner stays gone,
  one that runs is listed.
* *Health scheduler*: no probe before its time, none after the operator stopped
  it, no outcome unreported, and probing goes on.
* *Package registry*: bytes under a digest have that digest, an acknowledged
  blob is there, sessions and their files agree and are swept; a published
  version never changes and stays downloadable; a pushed image can be pulled.
* *Cloud*: the budget's overrun is bounded, nothing young is reaped, everything
  old is.
* *Ephemeral VMs*: one holder per name, everything left can be found and is
  reclaimed, nothing young is, and the verdict is honest.
* *Debugger session*: output goes to the command that asked for it, reported
  breaks happened, no `kd.exe` is left, no tool waits for ever.

## 2. Plan

The queue comes first: everything that is remote goes through it, and its
promise (at most once) is the simplest to state and the easiest to lose. Then
the executors that act on what is queued, built and approved, and then the
components around them, those with the most concurrency first.

| order | module | state of the work |
|---|---|---|
| 1 | `TaskQueue`, `JobQueue`, `JobQueueProofs` | modelled, checked, proved |
| 2 | `ReleaseBuild`, `ReleaseBuildProofs` | modelled, checked, proved |
| 3 | `Deploy`, and `RemoteDeploy` for Kubernetes, cloud VM and stack targets, `TargetRegister`, `DeployProofs` | modelled, checked, proved |
| 4 | `Promotion`, `PromotionProofs` | modelled, checked, safety proved |
| 5 | `RunnerFleet`: registry, heartbeats, runner deployment | modelled, checked, safety proved (`OperationsProofs`) |
| 6 | `Health`: the scheduler with its watermark | modelled, checked, safety proved (`OperationsProofs`) |
| 7 | `Cloud`: budget, provisioning, reaper | modelled, checked, safety proved (`OperationsProofs`) |
| 8 | `OciBlobs` (upload sessions, content-addressed store), `Packages` (five package protocols), `OciManifests` (manifests and tags), `RegistryProofs` | modelled, checked, safety proved |
| 9 | `EphemeralVm`, `EphemeralVmProofs`: scenario runs, their VMs and the reaper | modelled, checked, safety proved |
| 10 | `KdSession`, `KdSessionProofs`: the kernel debugger session | modelled, checked, safety proved |
| 11 | the resumable bootstrap of `provisioning/`, the guest agent's process table, release verification | later |

Compositions: `RemoteDeploy` extends `Deploy`, and both kinds of target are
checked together; `OciManifests` extends `Packages`, which extends `OciBlobs`,
and one run and one proof are about all three. Still open: `ReleaseBuild` as the handler of a `JobQueue`
worker (a job that succeeded has a ready release), and `Promotion` with a
`Deploy` of the destination.

Abstract specifications: `TaskQueue` for the queue, also meant for the
PostgreSQL driver, and `TargetRegister` for the deployments of a target; both are
shown to be implemented, by TLC and by proof. A decision that is taken once would
be the one for `Promotion`, but the code keeps that promise only where processes
follow one another (section 7), so it is the action property `DecidedIsFinal`
with that condition instead.

No module declares a recursive operator, and all keep their constants'
assumptions named, so that proofs about what is still open can follow the layout
of the existing ones.

## 3. Modules and the code

In all of these models an action is one awaited call together with the synchronous
code up to the next `await`. That is the grain at which Node interleaves the
requests of one process and at which two processes on one SQLite file
interleave. Every module names its source function in the comment of each
action, and `PROJECT.json` maps each definition to its lines.

**JobQueue.** `status`, `kind`, `createdAt`, `claimedBy`, `result`, `error` are
columns of the job table. `Submit` is `POST /v1/jobs`; `ClaimNext`,
`SetRunning`, `Complete` and `Fail` are the four endpoints a worker calls, each
one atomic step of the server (`Serve`). `pc`, `held`, `call` and `reply` are
the worker's loop: `Poll`, `Claimed`, `StartHandler`, `NoHandler`, `HandlerOk`,
`HandlerThrows`, `Reported`. `CallFails` rejects a call in the worker before or
after it was served, and leaves the request in `late` if it still travels
(`ServeLate`, `LoseLate`); `AfterError` is the `catch` of the loop, in which a
rejected `completeJob` leads to `failJob`. `Crash` and `Restart` are the
process's. `Follow` is the command line that polls a job it submitted.

**TaskQueue** says what this amounts to: a task is queued once, taken once,
started at most once while it is taken, and finished for good.

**ReleaseBuild.** One (product, tag) pair. `Lookup` and `Delete` are the
replacement of a row that is not ready, `Create` the insert under the unique
index, `Build` and `Capture` the component loop, `Finish` the update to ready,
`Catch` and `AuditFail` the error path. `Remote` builders go through
`HttpControlPlane`: the artifact endpoint looks the release up first, and the
client may give up on a request that has been served or still travels
(`AnswerLost`); what still travels is in `late` and may be served at any later
time (`ServeLate`), also after the builder was killed (`Kill`). `CallRefused`
fails a call without effect.

**Deploy.** One target. `BeginDeploy` and `BeginRollback` are the guards of
`runDeploy` and `runRollback`; then one action per call: `Lookup`, `Create`,
`AuditStart`, `Checkpoint`, `SetDeploying`, `Stage` (a file at a time, the
manifest last), `Probe`, `Supersede`, `Activate`, `DropCheckpoint`,
`AuditDone`, and the catch block `Restore`, `Discard`, `MarkFailed`,
`AuditFail`. `vm` is the set of staged files, `ckpt` the image each deployment
saved. Blobs are staged as `<component>.bin`, so a copy replaces an earlier blob
of the same component (`SamePath`, `Without`); `Lasting` are the files that no
later one replaces. A call can be refused, can take effect and report an error, and a
deployer can be killed. `scope` is chosen once, by `Init`: the kind of target,
which deployers and releases take part, and how many calls may fail. One run
thus covers both a race with few failures and a serial history with more.

**RemoteDeploy** adds the targets that are no VM of the hypervisor. An adapter
of `verbs/control-plane.ts` is a sequence of calls (`K8sCalls`, `CloudVmCalls`,
`CloudStackCalls`, `K8sUndo`) and one for its catch block; `Proceeds` goes to
the next call and `Throws` into the catch block. A cloud rollback wraps both in
audit entries of its own (`RollbackCalls`, `RollbackCatch`). `tunnel` is the
SSM or Bastion process of a cloud VM deploy, and `vm` the release a stack was
last applied with, or nothing after an apply that broke off. What goes to a cluster or onto a cloud
VM is named by the target and does not depend on the release.

**TargetRegister** says what both amount to: a deployment is opened once, stands
at most once, alone, and is over for good afterwards, as a former one or closed
without having stood; the one before it has stood. A pending or deploying row is
open, the active one stands, a superseded or rolled back one is former, and so is
a failed one that was active (`RowPhase`).

**Promotion.** One release and destination. `StartFire` to `Decide` is
`firePolicy`, `StartApprove`/`Approve` and `StartReject`/`Reject` the two verbs,
`StartTick` to `Path2` the tick with its two lists (time delay first, then
health gates), `Deploy`, `Record` and `RecordFail` the dispatch of the deploy
and the record of its outcome, with the unique index that may refuse it. A tick
reads its clock once: `due` is what was elapsed and `window` whether the newest
check was recent at that moment, and both are used for the rows it comes to
later, whatever has aged or been created since (`GateOpenAt`). The health log is the environment: checks are recorded, age, and start anew when the
source's deployment is replaced. As in `Deploy`, `scope` says who takes part.

**RunnerFleet.** One runner name on one host. Worker processes start, stop and
respawn, and send heartbeats (`Send`) that outlive them on the way; `Serve` to
`Write` is the registry's upsert, in one step on SQLite and statement by
statement on PostgreSQL. Operators deregister; `runRunnerDeploy` replaces the
service over SSH, Docker or a script and polls for a fresh heartbeat.

**Health.** `DueSchedules` and the tick of `runSchedulerTick`, per due row:
probe, read and write the watermark (`HealthScheduleRepo.update` is a read and a
write of the whole row), audit, and the catch block that tries the watermark
again. `due` is what is left of the tick's list; ids are in the order of
`created_at`, so the next schedule is the least (`Cur`). The daemon, a run-once
beside it and the operator's commands interleave. `gap`, `lost`, `want` and
`clob` are history: when a schedule was last probed, whether that watermark went
missing, what the operator was told, and whether a write from an older read put
a flag back.

**OciBlobs.** A session is a row and a tmp file, a blob a file, a sidecar and a
mirror row. The request handlers (POST, PATCH, PUT, DELETE, `putBlob`) take one
step per awaited file-system call; the reaper sweeps expired sessions; a crash
can come between any two, and each call may fail instead: an append after part
of its bytes, the unlink of a tmp file or a sidecar, the write of the sidecar
after the rename. Files are inodes, so that a file that was renamed or
unlinked while open keeps its content.

**Packages.** One package of npm, Cargo, PyPI, NuGet or Maven over that store:
`pkg` is table `manifest`, a row per version with the digest it vouches for.
`PublishBegin` stores the bytes and `PublishNew` or `PublishOnce` write the row,
in the same turn as the mirror row. `ReadIndex` lists what the table has;
nothing there sends the request upstream, and the `Proxy...` actions cache and
list what came back, NuGet by downloading one version after the other
(`Hydrate`, `HydrateStored`). A download (`Download`) goes from the row to the
mirror, the disk and the upstream in the order its handler does (`StatFile`,
`OpenBlob`, `FetchFile`, and the five `Proxy` actions after the store). Beside
them there are blob DELETEs, crashes and Cargo's yanks. `told` is what clients
were told of each version, `wrong` and `missed` what they were served or refused
in spite of it. npm passes on what it fetches without a comparison, so what it
serves for a version whose blob was deleted is not held against it.

**OciManifests.** Manifests, indexes and tags of one repository. `PutImage`
looks children up in the table and blobs in the mirror, and goes to the disk for
those the mirror misses (`PutImageStat`). `ServeManifest` answers from the table
or goes upstream, whose answer `ProxyOciManifest` writes with its tag. The three
DELETEs are by tag, by digest, and the administrator's, which knows nothing of
tags. A behaviour is about one `scope`, which `Init` chooses: upload sessions, a
package protocol, or images. The three share nothing but the blob store, whose
steps are the same actions in each of them.

**Cloud.** A provision passes the gate (the sum of the month's usage rows, kept
per month in `usage`, since rows are only added), launches, waits, and records
its cost; the reaper lists a backend and ends what is past its time to live, by
id on EC2 and by name on Azure. What has no TTL tag, or one that is no positive
number, is left alone; no instance this version launches is like that, so there
are instances from before the host started (`Before`). A list of more than a
page throws (`Overflow`); on Azure so does a full page of managed VMs with one
of somebody else after it (`foreign`, `OthersLaunch`), because the count is
tested before the tags.

**EphemeralVm.** `runScenario` with its ephemeral VMs: disk, VM and boot per VM,
setup, workflow with retries, the `finally` block with the declared teardown and
the clean-up; `signalman ephemeral reap` beside them. Names are those
`ephemeral-vm.ts` composes, so runs of one scenario in a year share them. Three
histories name what may be left or lost, per disk and VM and not per run:
`strays` what a failed call left behind, `taken` the names whose disk the reaper
unlinked under a live run, `missed` those it unlinked although there was a VM
that its listVMs had not returned.

**KdSession.** The session's event handlers on the output and the exit of
`kd.exe`, the command queue with its timeouts, `expect_bugcheck` and `break_on`,
and the teardown of the orchestrator and of the exit hook. `kd.exe` and the
target are external: they may break in, stop answering, die, or fail to start,
and print lines of no command: the banner of a break, the answers to the startup
script (`Startup`). The break log has times in milliseconds (`now`, `Tick`), and
`break_on` compares them (`Since`). A command that cannot be written, because
the stdin of a dead child is destroyed, stays pending until its timer (`stuck`).

The `MC` modules only name model values and symmetries. Definitions whose
comment begins with "Mutant" are plausible mistakes in the code next to them;
no specification uses them. Each property is known to fail for one of them.

## 4. Runs

| run | configuration | what it shows |
|---|---|---|
| `job_queue_safety` | 2 jobs, 2 workers, both fallible, 1 late request, 2 creation times | one holder, at most once, real successes, refinement of `TaskQueue` |
| `job_queue_liveness` | the same with one reliable worker, no late requests, equal creation times | every job is claimed; what the reliable worker claims is finished and told |
| `release_build_safety` | a local and a remote builder, 2 artifacts, 2 rows, 2 failed calls per build, 1 late request | complete ready rows, honest outcomes, recovery from leftovers; a ready row is only replaced on a lookup that found it not ready |
| `deploy_safety` | VM: 2 deployers, 1 release, 1 failed call, or 1 deployer, 2 releases of two blobs of one component and the manifest, 2 failed calls; Kubernetes and stacks: 2 deployers, no failed call; Kubernetes, cloud VM, stack: 1 deployer, 2 releases, 2 failed calls; 3 rows; kills | the rows implement `TargetRegister`, returned deploys stay good, without failures an active row remains and no checkpoint stays; in series a failed health check changes nothing, the VM holds the active release, leftovers block nothing. Elsewhere: tunnels closed, no active row for a deploy that threw, the stack holds the active release |
| `promotion_safety` | 2 processes, an auto and a health-gated policy or one with delay and gate, or 1 process and all five kinds of gate with 2 passes wanted; 2 rows; aborts | gates hold, records are real; in series a rejected row is not deployed and an attempted one is final |
| `promotion_liveness` | a steady process beside one that aborts, a delayed policy or one with delay and gate, 1 row | delayed and gated promotions are decided |
| `registry` | sessions: 1 session, 2 requests at a time, 3 in all, files of 2 chunks, 1 crash or failed call; packages: each of the 5 protocols, 2 versions of which clients ask for one, 2 contents, 3 requests, a DELETE or a crash; images: an image, an index of it and a tag, 3 requests, a DELETE or a crash | content addressing, cursors agree with files and no tmp file is left, acknowledged blobs are stored and the mirror is true, expired sessions are swept; versions are immutable and found; pushed images are whole and their tags stay |
| `runner_fleet` | both drivers, 2 processes, 1 deploy, 1 lost heartbeat, what was there before chosen by `Init` | verified deploys are new, retired runners stay gone, a running worker is listed |
| `health` | daemon, run-once, operator with 3 commands, 2 schedules, 1 fault | no early probe, stopped stays stopped, every outcome reported, probing goes on |
| `ephemeral_vm` | 2 runs with equal names, one with a second VM, 1 fault or crash, reaper | one holder per name, a VM is findable unless a named call or pass left it otherwise, clean finish, honest verdict, young survive, all that is findable is reclaimed |
| `kd_session` | 3 commands, 3 breaks, 1 loss, death or failed spawn, 2 milliseconds | output bracketed, breaks real but for the named cases, no orphan, tools return |
| `cloud` | 3 EC2 instances from before, 1 EC2 and 2 Azure requests, 2 at a time, limit 2, 1 VM of others, 1 fault | bounded overrun, time to live respected, everything with one reclaimed as long as sweeps and lists go on |

Most properties are conjunctions of named parts, each with its own comment in the
module: `NothingLeaks` is `NoCheckpointLeak` and `TunnelClosed`, `ActiveIsInstalled` is
`ActiveIsStaged`, `StackHoldsActive` and `HealthFailKeepsPrevious`,
`TargetKeepsActive` is `QuietTargetHasActive` and `LeftoversBlockNothing`,
`TickIsSound` is `ListedWhenDue` and `OutcomeReported`, `DecidedIsFinal` is
`RejectedNotDeployed` and `AttemptedIsTerminal`, `SessionAgrees` is
`CursorAgrees` and `NoTmpLeak`, `StoredIsThere` is `AckedIsStored` and
`MirrorHasBytes`, `VersionIsImmutable` is `OneContentTold`, `ServedAsTold` and
`YankSticks`, `PushedIsPullable` is `TagResolves`, `PushedTagStays` and
`ImageIsWhole`. One mutant per property shows that it can fail.

### Bounds

* *Two of everything concurrent.* Each race in the code is between a read and
  the write that depends on it; a second process provides every write that can
  come between. Where there are proofs they cover any number.
* *Rows* (`MaxRows`). Three deployments are one to be active, one to replace it
  and one to interfere or to roll back. Two release rows are a leftover and the
  one that replaces it, or one for each builder. Two approvals are the first and the duplicate.
* *Failed calls* (`scope.errors`, `MaxHits`, `MaxFaults`). Two are the error and
  the error of its own cleanup, the deepest nesting of `catch` in the code. With
  two concurrent processes one is enough for every property that is stated under
  failures, since the other provides the second disturbance. `KillLeft` allows
  one kill among concurrent deployers, and any number in series.
* *Concurrent remote deploys* make no failing calls in the run: they share rows
  and row updates with the VM deploys, whose races are checked with failures. A
  tunnel belongs to one deploy, so cloud VMs are checked in series.
* *Files of a release*: three are two blobs of one component, of which the second
  replaces the first, and the manifest; concurrent deploys have one.
* *Late requests* (`MaxLate` = 1 in `JobQueue` and `ReleaseBuild`): one request that overtakes or is overtaken by
  the live ones. The proofs hold for any number.
* *Creation times* (`MaxTime`): two values give both the ordered and the tied
  case of `ORDER BY created_at`.
* *History window* (`HistoryLimit` = 2 for the code's 10): with three rows it can
  be both sufficient and exceeded. Likewise `AwsPage` = 3, with four EC2 instances
  of which one goes away by itself, and `AzurePage` = 1, with one managed VM and
  perhaps one of somebody else (`MaxOthers`).
* *Debugger* (`MaxEvents` = 1, `MaxMs` = 1): one loss of the target, death or
  failed spawn; combinations of two are left to the proofs, which are for any
  bounds. Two milliseconds are an earlier one and the same one.
* *Clocks.* `Health` and `EphemeralVm` keep ages that saturate where the code
  stops telling them apart, so their time is unbounded. `Cloud` (`Horizon`) and
  `RunnerFleet` (`MaxTime`) have a small last moment, one more than the
  intervals compared.
* *Packages*: two versions are the one asked for and one that comes in with a
  list; the upstream's bytes for the first may be those published here or others.
  Three requests are two that race and one that looks afterwards. An upstream
  does not change while a behaviour goes on, and one with nothing at all is one
  whose every fetch fails (`MCUpstreams`).
* *Sessions*: one session's one-chunk file and the other clients' uploads and
  DELETEs meet on one digest (`Common`). Crashes and failed calls together are at
  most `MaxCrashes`, requests at most `MaxRequests`; failed calls are part of the
  scope of upload sessions, where the files are written piece by piece.
* *Symmetry* is used only in runs without liveness, over values no definition
  tells apart.

Deadlock is checked where the system never comes to rest. It is not in
`registry`, `runner_fleet` and `health`, whose requests, processes and
operator commands are bounded, so that the model may stop when they are used up.

## 5. Fairness

`JobQueue!FairSpec`: weak fairness of the steps and of the service of *reliable*
workers, those that stay up and whose calls get through, and of the command
line's polling. A worker's loop is a `while` with a `sleep`, the server answers
every request, and `followJob` polls until it sees a terminal status. Nothing is
assumed of the other workers: they may hold a job for ever, which is why only
claiming is promised for all jobs and finishing for those a reliable worker
claimed.

`Promotion!FairSpec`: weak fairness of time passing and of the steps of a
*steady* process, and strong fairness of its starting a tick. The tick is meant
to be called from cron (`verbs/control-plane.ts`, `promotion tick`), so it is
started again and again; strong, because the process may be busy with something
else each time. Health checks are not assumed to come: `GatedIsDecided` asks for
a decision only if the gate stays open from some point on.

`HealthFairness`: the clock, and the steps of the daemon (`schedule start`, an
endless loop); nothing of the run-once or the operator. `RunnerFleet!Fairness`:
a live worker's heartbeat timer, and the server that answers.
`RegistrySpec`: the reaper's interval (`src/registry/src/oci/reaper.ts`);
requests may be abandoned. `CloudFairness`: the clock, and that sweeps are started and go on; not the
provisions. This is an assumption about the operator: `runOnce` is called by the
tool and by the command line only, nothing calls `CloudReaper.start`
(`server.ts:1822-1831` leaves that to whoever wants it). `EphemeralVm`: the steps of a run (an `async` function goes on once
its call settled; crashes are separate), the clock, and the reaper, which an
operator or a scheduled task must call. `KdSession!Fairness`: the timers and
the continuations of settled promises; `kd.exe` owes nothing, so every tool
returns by its timeouts alone.

## 6. Proofs

`JobQueueProofs` proves, for every set of jobs and workers and every bound:

| theorem | states |
|---|---|
| `JobQueueTypeOK` | `Spec => []TypeOK` |
| `JobQueueHolder` | `Spec => []HolderIsClaimer` |
| `JobQueueAtMostOnce` | `Spec => []AtMostOnce` |
| `JobQueueSuccess` | `Spec => []SuccessIsReal` |
| `JobQueueNeverReopened` | `Spec => NeverReopened` |
| `JobQueueImplementsTaskQueue` | `Spec => ImplementsTaskQueue` |

The only assumption is `JobQueueAssumption`: "no job" is not a job, reliable
workers are workers, the bounds are natural numbers.

None of the safety properties is inductive. At most once, for instance, needs to
know that a worker which is about to start the handler is the first to do so,
hence that the job was never handed out before, hence that a claimed row never
becomes pending again *and* that no late request can make it so. The inductive
invariant `IInv` says this in six parts beside the types:

* `WorkerShape`: what a worker holds and awaits at each place of its loop;
* `CarriedIsClaimed`: a job in a worker's hands, or in the answer on its way to
  it, is claimed, by that worker;
* `FreshUntilStart`: until the handler starts, nothing has run and nothing was
  reported, so a job before its start is claimed or running, never terminal;
* `OutcomeShape`: a completion is only ever reported after the handler returned;
* `LateShape`: a late `setJobRunning` belongs to a job its worker dropped before
  the handler ran, a late report to one past its handler, and the two never
  concern the same job. This is the part that makes `NeverReopened` true: the
  endpoint writes `running` without looking at the status, and what prevents a
  late one from reopening a finished job is only that the worker drops a job
  whose `setJobRunning` was rejected (`runner/worker.ts:116` ff.);
* `AtMostOnce` itself.

There is one lemma per action, and the refinement theorem shows that each step
is a step of `TaskQueue` or leaves its variables alone, by way of what each
endpoint does to a row's phase (`EndpointRefines`).

`ReleaseBuildProofs`, for any sets of builders, artifacts, rows and failed calls
(`ReleaseBuildAssumption`: the remote builders are builders, the bounds are
natural numbers):

| theorem | states |
|---|---|
| `ReleaseBuildTypeOK` | `Spec => []TypeOK` |
| `ReleaseReadyIsComplete` | `Spec => []ReadyIsComplete` |
| `ReleaseOutcomeIsHonest` | `Spec => []OutcomeIsHonest` |
| `ReleaseCleanBuildSucceeds` | `Spec => []CleanBuildSucceeds` |
| `ReleaseReadyReplacedByRacer` | `Spec => ReadyReplacedByRacer` |

That a ready row is complete rests on `Exclusive` (no two builds work on one
row: each inserted its own) and `Captured` (what a build believes it captured is
in the artifact table of that row). `StatusOf` gives a row's status from its
builder's position, with the two cases in which a build that threw has a live
ready row: the catch block's own update failed, or the ready update was given up
on over HTTP and served late. `LateOf` and `Past` say of a request that still
travels that its sender is past that call and was told of its failure or died,
and `Decided` that a builder or a DELETE on its way found the row not ready.
`CleanAt` is what a build
that nobody moved beside knows of the live row, by the unique index (`OneLive`).

`DeployProofs`, about `TargetSpec`, a target of any kind, for any finite set of
deployers and any releases, rows, files, components of files and failed calls
(`DeployAssumption`:
"no release" is not a release, the bounds are natural numbers, a release has at
least its manifest; finiteness makes `Serial` mean that any two deployers that
take part are the same):

| theorem | states |
|---|---|
| `DeployTypeOK` | `TargetSpec => [](TypeOK /\ RemoteTypeOK)` |
| `DeployRollbackWasActive` | `TargetSpec => []RollbackWasActive` |
| `DeployOutcomeIsHonest` | `TargetSpec => []OutcomeIsHonest` |
| `DeployTargetKeepsActive` | `TargetSpec => []TargetKeepsActive` |
| `DeployNothingLeaks` | `TargetSpec => []NothingLeaks` |
| `DeployActiveIsInstalled` | `TargetSpec => []ActiveIsInstalled` |
| `DeployImplementsRegister` | `TargetSpec => ImplementsRegister` |

Thirty-odd actions of four adapters do few different things to a row, so the
proof goes through `Move`: every step of `runDeploy` or of an adapter begins,
looks up, creates, makes a call that returns, turns to the catch block, throws
or is killed, and goes where `Edge` or `ErrorEdge` says. That the adapters'
sequences of calls lead where `Edge` says is `RemoteFlow`, which rests on one
lemma per sequence. The rows' part of the invariant (`RowInv`) is proved of
moves, whatever the kind of the target: what a deployer holds at each place
(`HeldOK`), that its row is nobody else's (`MineApart`) and was never active
before the deploy activated it (`FateOK`), that a target without an active row
has a deployer between its two updates (`StaysActive`), and what the only
deployer knows of the active row (`AloneOK`). Image, checkpoints and tunnels
need the actions themselves (`VmStep`, `RemoteImage`): a taken checkpoint has a
deployer that will delete it (`CkptOK`), an undisturbed deploy can go back to
the image it found (`BaseOK`), after one failed call image or checkpoint hold
the lasting files of every active row but the one about to be marked failed
(`StagedOK`; a file just copied is on the VM as long as none of its path came
after it, `Uncovered`), a stack holds what was applied last (`StackOK`), and an open
tunnel has a deployer on the way to closing it, or killed (`TunnelOK`).

The refinement needs one more invariant, `OpenInv`: a row that was active is
never pending or deploying again, and a deployer comes to its activation with an
open row. No update looks at the status it replaces, so that this holds is a fact
about who still writes to a row: only its own deployer, and those that read it
when it was active. Every update then is a move of the register or none
(`UpdateWrites`, `UpdateRefines`), and an insert opens a deployment whose prior
one has stood (`CreateRefines`). `RollbackWasActive` (`SupersededWasActive` and
`PriorWasActive`) is the part of it that rollbacks rely on.

`OperationsProofs` has three parts, about the three components that keep an
installation running. Its first part is about `RunnerFleet`, for any sets of
deploys, processes, rows and times (`RunnerFleetAssumption`: what ran before is
no deploy, the wait is positive):

| theorem | states |
|---|---|
| `RunnerFleetTypeOK` | `Spec => []TypeOK` |
| `RunnerFleetOneActive` | `Spec => []OneActive` |
| `RunnerVerifiedIsNew` | `Spec => []VerifiedIsNew` |
| `RunnerRetiredStaysGone` | `Spec => []RetiredStaysGone` |

A verified deploy was heard because, unless another runner was beside it, all
that runs and all that is on the way is its own (`AloneIsHeard`), and nothing on
the way is from the future (`Timely`). `OneActive` is the unique index, through
the separate statements of the PostgreSQL driver. `RunningIsListed` is a
liveness property and stays with TLC.

Its second part is about `Cloud`, for any sets of requests, prices, limit, number
of provisions at a time, time to live, length of a month and of the pages, and
instances from before (`CloudAssumption`: prices are positive and at most the
dearest, times and sizes are positive, a request belongs to one backend, and an
Azure name is no EC2 id):

| theorem | states |
|---|---|
| `CloudTypes` | `CloudSpec => []CloudTypeOK` |
| `CloudOverrun` | `CloudSpec => []Overrun` |
| `CloudTtlRespected` | `CloudSpec => TtlRespected` |

`Overrun` alone is not inductive: a provision may be recorded long after its
check, beside others that were checked against the same sum. `BudgetOK` adds that
months to come are empty, and that the current month and every later one have
room for all that is in flight: there is a provision among them such that the
month's total, its price, and the dearest price for each of the others stay under
the bound (`Room`). It is the last one to have passed the gate while anything was
in flight: when it did, the total and its price fitted the limit. When another
one is recorded or gives up, its share becomes free; when that one is, any of
those left takes its place, since no price exceeds the dearest. For the reaper,
`VendorOK` says that what is at a key was launched by a request of that key that
will not launch again (`Launched`), `HandlesOK` that a listed handle names such a
request, has the expiry of what is at its key as long as that is still that
request's, and that an Azure list has one name; `SweepOK` that the sweep's clock
is not ahead. Cardinalities of the sets of
provisions come from `FiniteSetTheorems`.

Its third part is about `Health`, for any set of schedulers, any number of
schedules, any interval, faults and commands (`IntervalAssumption`,
`HealthBoundsAssumption`, `DaemonAssumption`: the interval is positive, there is
room for a schedule, the daemon is a scheduler):

| theorem | states |
|---|---|
| `HealthTypes` | `HealthSpec => []HealthTypeOK` |
| `HealthNoEarlyRun` | `HealthSpec => NoEarlyRun` |
| `HealthStoppedStaysStopped` | `HealthSpec => StoppedStaysStopped` |
| `HealthOutcomeReported` | `HealthSpec => OutcomeReported` |
| `HealthTickIsSound` | `HealthSpec => TickIsSound` |

The probe runs before its watermark is written, so in between the row looks
older than it is. `SpacedOut` says of every schedule that the row is no older
than the newest tick that probed it, or the watermark is known to be lost, or a
scheduler past the probe still owes it (`Owes`). `Wanted` says that a row is active only if the operator
was told so or a write from an older read put it back, and `ProcOK` what a
scheduler has emitted at each place of its tick. The least element of a tick's
list exists by the well-foundedness of the natural numbers
(`WellFoundedInduction`). `Reclaimed` and `KeepsProbing` are liveness and stay
with TLC.

`PromotionProofs`, for any finite set of processes and any policies and rows
(`PromotionAssumption`; finiteness is what makes "at most one process takes
part" mean that any two are the same):

| theorem | states |
|---|---|
| `PromotionTypeOK` | `Spec => []TypeOK` |
| `PromotionGateRespected` | `Spec => []GateRespected` |
| `PromotionRecordedIsReal` | `Spec => []RecordedIsReal` |
| `PromotionDecidedIsFinal` | `Spec => DecidedIsFinal` |

The gate is tested when a list is read and acted on much later. `ListsPassed`
says that what is left of a tick's list still passes the test that put it there,
`DispatchPassed` that whatever is dispatched without an operator passed its gate,
and `OpenIsSeen` that a tick whose window has the newest check, while enough of
them pass, is among those that had the gate open (`opened`, emptied when a tick
starts and ends: a gate open for an earlier tick does not count).
`RecordFollows` puts the deploy before its record, `SerialRows` holds the rows
still between a decision's read and its write when there is one process.

`RegistryProofs`, about `RegistrySpec` and so about all three modules of the
registry at once, for any sets of requests, sessions, chunks, versions, upstream
contents, manifests and tags (`OciBlobsAssumption`, `PackagesAssumption`,
`OciManifestsAssumption`: the bounds are natural numbers, `None` is neither a
manifest nor a tag, what manifests reference are digests and manifests):

| theorem | states |
|---|---|
| `RegistryTypeOK` | `RegistrySpec => []OciManifestsTypeOK` |
| `RegistryContentAddressed` | `RegistrySpec => []ContentAddressed` |
| `RegistrySessionAgrees` | `RegistrySpec => []SessionAgrees` |
| `RegistryStoredIsThere` | `RegistrySpec => []StoredIsThere` |
| `RegistryVersionIsImmutable` | `RegistrySpec => []VersionIsImmutable` |
| `RegistryToldIsFound` | `RegistrySpec => []ToldIsFound` |
| `RegistryPushedIsPullable` | `RegistrySpec => []PushedIsPullable` |

`RegistryInv` has four parts. `BlobInv` is about the store alone: every step of
the registry is a step of the store, a `putBlob` inside a package request, or
leaves the store as it is (`RegistryStep`), so it is proved once. Content
addressing needs to know which request may still write to an inode, also after
a rename or an unlink (`NamesDiffer`, `OpenFiles`), that the bytes hashed are
the bytes renamed (`HashedStays`), and that two requests on one session are in
the history `overlap` (`Meetings`): neither a crash nor the reaper nor a DELETE
is an excuse there. The cursors need the position of each upload between its
file and its row (`SessionProgress`), where a session is `parted` only when the
reaper listed it under a request or a crash or failed call came between the two.
The mirror needs the order in which a store writes file, sidecar and row, and a
DELETE removes them (`BytesFirst`), with the digests whose DELETE met a store or
broke off (`raced`, until a store or a DELETE puts that right) and the stores
that met a DELETE or believed a sidecar without its file (`dubious`). `StoreInv` says that outside upload sessions the history has
every DELETE. `PackageInv` says that what clients were told is what the row says
(`ToldIsRow`), that a row written after its bytes has them until a DELETE
(`RowHasBytes`), and of each download that the row, the bytes or the upstream it
counted on when it began are still there (`DownloadMatches`, `OwedBytes`,
`OwedFetch`); it is here that a `putBlob` in flight has to be shown to be the
one its request waits for (`StoreMatches`). `ImageInv` adds that a GET out
upstream found its tag empty, or the push since then is known
(`FetchMeetsPush`), and that what a PUT saw before it went to the disk still
holds or was deleted (`StatIsSound`). `ExpiredIsSwept` is liveness and stays
with TLC.

`KdSessionProofs`, for any bounds on commands, breaks of the target, bad events
and milliseconds (`BoundsAssumption`: they are natural numbers):

| theorem | states |
|---|---|
| `KdTypeOK` | `Spec => []TypeOK` |
| `KdNoOrphan` | `Spec => []NoOrphanKd` |
| `KdOutputIsItsOwn` | `Spec => OutputIsItsOwn` |

`LifeInv` says that a kd.exe which lives while the session counts as
disconnected was marked so by its own words. For the output the place of every
command has to be known: one is pending at a time and a tool block waits for its
own (`WaitInv`); a command is in stdin, under way in kd.exe or in stdout, and
nothing of it follows its sentinel (`PipeInv`); nothing of a command is on its
way before it is issued or after it resolved (`UsedInv`). Then what is collected
for the pending command before its sentinel is its own, ambient, or of commands
given up (`BracketInv`), what the break log got since `kernel_break_on` began is
the target's or an echo of such a command, and what it had before is no later
than that moment, so that only an entry of the same millisecond can match
(`EchoInv`). A new command is the least
unused one, which exists by the well-foundedness of the natural numbers.
`ToolReturns` is liveness and stays with TLC.

`EphemeralVmProofs`, for any set of runs of any years, any number of VMs per run,
steps, retries, age limit and faults (`RunAssumption`, `SizeAssumption`,
`BoundsAssumption`: a missing disk's owner is no run, a scenario has a VM and a
step, the age limit is positive):

| theorem | states |
|---|---|
| `EphemeralVmTypeOK` | `Spec => []TypeOK` |
| `EphemeralVmDiskStandsForVm` | `Spec => []DiskStandsForVm` |
| `EphemeralVmFinishIsHonest` | `Spec => []FinishIsHonest` |
| `EphemeralVmYoungSurvives` | `Spec => YoungSurvives` |

`RunsOK` ties a run's records to the VM it is at (`Shape`) and its status so far
to what went wrong (`Honest`); `BodyVerdict` shows the latter for the stretch of
setup, workflow, assertions and declared teardown from the definitions of its
parts. `Hold` says that the disk a run has is its own unless the reaper took it,
from which follows that of two holders one was robbed. `NoVm` says that under a
name whose disk a run has there is only its own VM, between its createVM and its
deleteVM, or one that may lack a disk anyway (`Loose`: a failed call left it, or
the reaper had unlinked its disk): this is what keeps a VM from losing its disk
when a run unlinks it. `Own` is the converse of `Hold`: what belongs to a run is
among what its records will tear down, or one of its `strays`, so nothing else of
it is left when it ends. `ReaperOK` says that whatever the reaper has queued is
old, gone, or was made after it read the directory, and `Clear` that the VMs of a
disk it is about to unlink are gone or were not in its listVMs (`unseen`). The proof has one lemma per way a
step touches the machine (`PureMove`, `DiskMade`, `VmMade`, `VmRemoved`,
`DiskRemoved`, `ReapMove`, `UnlinkMove`), and each action is shown to be one of
them. `EventuallyClean` is liveness and stays with TLC.

Each inductive invariant was checked by TLC on the run's instance before it was
proved. Some definitions of the models have the form they have for the proofs'
sake, with the same meaning: sets of rows instead of Boolean columns
(`live` and `clean` of `ReleaseBuild`, `attempted` of `Promotion`),
constructors for the records of requests in `Packages`, one record for the
outcomes of a scenario's body in `EphemeralVm`, sets of ids and flags of 0 and 1
in `Health`, and the month's total instead of its rows in `Cloud`.

Only model-checked is liveness, which is outside the prover's reach, as is
`ENABLED`: `EveryJobServed`, `DueIsDecided`, `ExpiredIsSwept`, `RunningIsListed`,
`KeepsProbing`, `Reclaimed`, `EventuallyClean` and `ToolReturns`. Every invariant
and every action property of the runs is also a theorem.

## 7. Where code and documents disagree

Met while modelling. The models do what the code does, and the properties say
what holds all the same. Four of these were runs of their own in an earlier
state of the project; each is reproduced by the counterexample TLC gives when
the named condition is dropped from the property.

*Job queue.*
* `runWorker` puts the handler and `completeJob` into one `try`
  (`runner/worker.ts:133`). If the completion is applied and its answer lost, the
  worker calls `failJob`, which overwrites the succeeded row
  (`http/app.ts:583`). The life cycle in `0003_jobs.sql:6-8` ends at the terminal
  statuses. `SuccessIsReal` shows that the opposite cannot happen.

*Build.*
* The status of the release found by tag is tested before the soft delete, not
  by it (`control-plane/build/executor.ts:216`), so a release that became ready
  in between is deleted and built again, against line 85 and
  `src/docs/design/meta-build-system.md:130`. `ReadyReplacedByRacer` says by whom;
  it may be a DELETE that arrives after its sender gave up or died.
* A ready update that a remote builder gave up on can be served after the catch
  block's update: the build has thrown and its release is ready
  (`FailureIsNotReady` without its second case).

*Deploy.*
* Nothing serialises deploys of one target: the checkpoint a failing deploy
  restores (`control-plane/deploy/executor.ts:264`) removes what another has
  staged, and the other becomes active without its files (`ActiveIsStaged`
  without `Serial`).
* An error between the insert of a deployment and the `try` block (lines
  108-135) leaves the row pending or deploying, and possibly the checkpoint,
  although line 13 says that on any failure the deployment is marked failed.
* A rollback marks the row it replaces superseded, where
  `src/docs/design/meta-build-system.md:328` says rolled back, so a second
  rollback goes forward again; so does a second cloud rollback. It looks for a
  superseded row among the ten newest rows only.
* `build/yaml.ts:70` allows several blobs of one component. They are all staged
  as `<component>.bin` (`control-plane/deploy/executor.ts:146`), so the last one
  is what the VM has, while the `manifest.json` beside it lists each of them with
  its own digest under that one name (line 437). `ActiveIsStaged` asks for the
  last ones (`Lasting`); without that it fails.

*Other targets* (`verbs/control-plane.ts`).
* The comment at 1394-1396 says that a Kubernetes rollback promotes the prior
  superseded deployment back to active; the code only marks the active one
  rolled back. The target is left without an active row and a second rollback is
  refused. A release applied with helm is undone with `kubectl rollout undo`,
  and a rollback that races a deploy undoes the new rollout and marks a row that
  is superseded already.
* A Kubernetes or stack deploy that fails restores nothing while the previous
  row stays active. An audit entry that fails after the activation marks the row
  failed with the previous one superseded.
* The catch block of a stack deploy appends a health check first (2142); when
  that fails the row stays deploying.
* Kubernetes deploys fire neither the event nor the next tier's promotion
  (797-805), cloud deploys both.
* A tunnel that is not ready in time gets a SIGTERM and is not waited for
  (`cloud/dialers/aws-ssm.ts:224`).
* A cloud rollback whose own last audit entry fails throws although its row is
  active.

*Promotion.*
* Approve, reject and tick write the status without looking at it again
  (`verbs/control-plane.ts:2869`); a rejected promotion can be deployed by a
  tick or an approval that read the row earlier (`RejectedNotDeployed` without
  `Serial`), against `0070_promotion_policy.sql:24-26`.
* A tick takes the window at its start (`control-plane/promotion/listener.ts:455`)
  and looks at rows and checks later: a row created while it runs can be deployed
  on a check that is outside the window by then, and one recorded meanwhile does
  not count as too old.
* Two concurrent fires of an auto gate each insert a row, because the partial
  unique index covers pending and attempted rows and the new row is neither.

*Runners.* The wait for a heartbeat counts from the start of the bootstrap
(`runner/deploy/heartbeat-wait.ts:12-15`), so a heartbeat of the runner that is
being replaced can verify the deploy.

*Health.* The comment at `control-plane/scheduler/runner.ts:157` says the
watermark is advanced first; it is after the probe. A disable that races a
watermark update is lost (`control-plane/storage/sqlite.ts:1995`).

*Registry* (`src/registry/src/oci/`). A crash between file and row makes
`upload-fs.ts:12` ("never desync") and the resumption promised at
`upload-store.ts:19` untrue for one chunk; the dedupe at `upload-fs.ts:122-129` asks
for the sidecar file, not for the blob, so that after a DELETE that broke off
between the two a PUT drops its bytes and answers 201 (`AckedIsStored` without
`dubious`). Two requests on one session can change a file between its hash and
its rename (`ContentAddressed` without `overlap`). A tmp file that could not be
unlinked stays for good, as `reaper.ts:57-63` knows. A GET by tag that is out upstream while
the tag is pushed moves the tag to the upstream's manifest when it returns
(`PushedTagStays` without `overtaken`). Deleting a blob or a child manifest looks
for no manifest that references it, and the administrator's DELETE leaves the
tags of the row behind.

*Package protocols* (`src/registry/src/`). npm and Cargo call an identical
republish a no-op, but the row's canonical bytes contain `createdAt`, so it is
refused unless both fall into one millisecond. Of two first reads of an npm or
Cargo index, or two first downloads of a NuGet or Maven file, the second finds
the rows the first has written meanwhile and answers 404. An npm tarball that was
cached is never served from the cache, because the cached row's digest is derived
from the integrity string and names no file; the upstream's bytes are passed on
unchecked (`npm/read.ts:243-253`), although `npm/virtual.ts:206-207` says that
the download endpoint validates them. After a DELETE of a published version's
blob a client can so get other bytes than it was told of (`ServedAsTold` without
its exception). After one direct NuGet or Maven download the version index lists only
what is cached.

*Ephemeral VMs.* `provisioning/ephemeral-vm.ts:26-27` claims unique names, but
the first eight characters of a run id are `run_` and the year
(`verbs/run-store.ts:39`). A VM whose disk is gone is never reaped, because the
reaper starts from disk files. `provisioning/ephemeral-vm.ts:36-39` and 424-426
call the orphaned child disk the only resource leaked, but createVM is New-VM and
then Set-VMProcessor (`hypervisors/hyperv.ts:354-355`), and when the second fails
the VM stays and nothing removes it; a New-VHD that runs into its timeout may
leave its disk. The reaper lists VMs once and unlinks later: a VM that a slow run
makes in between, over a disk that is old already, loses that disk, and is never
found again if the run is killed. `hypervisors/hyperv.ts:315-362` ignores the
template, and stopping a VM that is not there waits for its whole timeout.

*Debugger.* After a disconnect marker while `kd.exe` lives, detach and force
terminate return at once and leave the process (`scenarios/orchestrator.ts:1466`).
Late lines of a command that timed out are attributed to the next one, as
`kernel-debug/kd-session.ts:31-34` admits, although
`kd-session.test.ts:315-320` expects that a fresh command does not get the stale
output; so are the debugger's own lines, which belong to no command
(`kd-session.ts:559-566`). `break_on` accepts an entry with its own timestamp
(`break-log.ts:157`, `kernel-handlers.ts:249`), also one recorded before it began
in that millisecond. The bug check line printed by
`!analyze -v` is logged as another break. `resume()` never leaves "broken".

*Cloud.* `setBudgetGate` is not called outside tests, and the MCP server never
starts the periodic reaper. A list longer than a page makes the reaper skip that
backend, and on Azure so do a thousand managed VMs and one more VM of anybody in
the subscription (`azure.ts:365-373` counts before it looks at the tags), in
every sweep, so that nothing there is reaped any more. A handle that `provisionInstance` returned has no tags, so its
termination is recorded for the default organisation; an instance whose start
failed runs unbilled until its time to live. On Azure the list spans the
subscription while deletion uses the configured resource group, and creating a
VM under an existing name takes that VM over.

## 8. Abstractions and what is not modelled

* An endpoint's handler, and a repository's `update` (a read, then a write), are
  one step: `DatabaseSync` is synchronous, and between the two there is no
  `await` on anything but a resolved promise.
* One tag, one target and one (release, destination) pair: rows of different
  ones share no index and no variable. Builds share content-addressed blobs,
  which are only added.
* A release's content is fixed once it is ready, so a staged file is known by
  its release and position; which of them share a guest path is given by their
  components. A failed copy leaves the file torn or absent.
* Rows are numbered in the order of their creation; in the job table creation
  times may be equal, since `ORDER BY created_at` has no second key there.
* Clock times are reduced to the comparisons the code makes: the delay of a row
  has elapsed, the newest health check is inside the window, now or at a tick's
  start. The health log is its current run of passes.
* Probes, handlers and build commands are nondeterministic verdicts.
* Audit entries are calls that may fail; their content plays no part.
* External programs (kubectl, helm, tofu, the vendors' APIs, Hyper-V, `kd.exe`)
  are modelled by what the code relies on: they succeed, fail, or fail half-way.
* A write cut off by a crash is a failed write followed by the crash. A sidecar
  that is torn and cannot be parsed, and the temporary file of `putBlob`, are left
  out.
* `NoCheckpointLeak` is about deploys in which no call failed: a
  `deleteCheckpoint` that fails is swallowed by the catch block
  (`control-plane/deploy/executor.ts:271-274`), and the checkpoint stays.
* SHA-256 has no collisions; bytes are short sequences of chunks.
* Not modelled inside the modelled components: soft deletion of jobs, the
  approver allow-list, the cascade by which a promotion's deploy fires the
  policies of the next tier, `terminated_at` of a usage row (nothing reads it),
  and what a scenario step does in the guest. In the registry: Hugging Face
  repositories, Maven's checksum, signature and snapshot files, the catalogue,
  cosign referrers and authentication.

The models cover the parts of the repository that coordinate. Most of its lines
are something else: command-line and MCP argument handling (`cli.ts`,
`server.ts`), wrappers of command-line programs (the hypervisor and Docker
backends), SQL repositories that map columns to fields, codecs for six package
protocols, schema definitions, reports, and a guest agent around operating
system calls. These have no interleaving, failure or ordering of their own
beyond one call and its error, or are functions on text. Not modelled although
they could be: the resumable bootstrap of a Windows image, the guest agent's process table, the verification of signed
releases. `PROJECT.json` gives the reason for each component.
