----------------------------- MODULE EphemeralVm -----------------------------
(***************************************************************************)
(* Scenario runs on ephemeral VMs: ScenarioOrchestrator.runScenario        *)
(* (scenarios/orchestrator.ts), the provisioning and teardown it calls     *)
(* (provisioning/ephemeral-vm.ts), the Hyper-V calls under them and the    *)
(* operator's `signalman ephemeral reap` (provisioning/ephemeral-reaper.ts)*)
(*                                                                         *)
(* A run is a process.  It resolves its VMs one by one (differencing disk, *)
(* VM, boot), runs setup, workflow and assertions, then the finally block: *)
(* declared teardown, and stop, delete and unlink of every VM it recorded. *)
(* A run may be killed anywhere; what it leaves is the reaper's work, which*)
(* knows a resource only by its name and by the age of its disk file.      *)
(*                                                                         *)
(* Names are <scenario>-<vm>-<first 8 characters of the run id>, and run   *)
(* ids begin with `run_` and the year (verbs/run-store.ts): all runs of    *)
(* one scenario in one year give their VM the same name.  Hyper-V accepts  *)
(* several VMs of one name, and its cmdlets are called with the name only. *)
(***************************************************************************)
EXTENDS Naturals, FiniteSets

CONSTANTS
    Runs,       \* runs of one scenario
    NoRun,      \* owner of a disk file that is not there
    Year,       \* per run: the year its id begins with
    NVms,       \* per run: VMs its setup.yaml declares, all of them ephemeral
                \* (the file may be edited between two runs)
    Steps,      \* steps of setup, and of the declared teardown
    Retries,    \* retry.count of a step
    MinAge,     \* --older-than, in units of the model's clock
    MaxFaults   \* errors of Hyper-V or the file system, and crashes

ASSUME RunAssumption == NoRun \notin Runs
ASSUME SizeAssumption ==
    NVms \in [Runs -> Nat \ {0}] /\ Steps \in Nat \ {0} /\ MinAge \in Nat \ {0}
ASSUME BoundsAssumption == Retries \in Nat /\ MaxFaults \in Nat

VARIABLES
    run,      \* per run: where runScenario is and its local variables
    disk,     \* per name: the child VHDX, its creator and the age of its mtime
    vm,       \* per name: the creators of the Hyper-V VMs of that name
    reaper,   \* the pass of `ephemeral reap` under way: where it is, the aged
              \* disks, what is left to reap, and (history) the names whose
              \* disk was created since the pass read the directory and those
              \* with a VM its listVMs did not return
    faults,   \* errors and crashes so far
    flaw,     \* per run: something failed for good, an error was thrown
    strays,   \* (history) what failed calls left: VMs of a failed createVM or
              \* deleteVM, disks of a failed New-VHD or unlink
    taken,    \* (history) names whose disk the reaper unlinked under a live run
    missed    \* (history) names whose disk the reaper unlinked while there was
              \* a VM that its listVMs had not returned

vars == <<run, disk, vm, reaper, faults, flaw, strays, taken, missed>>

(* Of run_<year>-<month>-... the first eight characters.                   *)
RunIdShort(r) == Year[r]

EphemeralName(r, v) == <<v, RunIdShort(r)>>

Names == UNION {{EphemeralName(r, v) : v \in 1 .. NVms[r]} : r \in Runs}

Ages == 0 .. MinAge

Statuses == {"passed", "failed", "error"}

Run == [pc : {"idle", "disk", "create", "undo", "boot", "body",
              "delete", "unlink", "done", "gone"},
        idx : Nat \ {0},
        recs : Nat,
        status : Statuses,
        err : BOOLEAN,
        tdErr : BOOLEAN]

NewRun == [pc |-> "idle", idx |-> 1, recs |-> 0, status |-> "passed",
           err |-> FALSE, tdErr |-> FALSE]

NoDisk == [owner |-> NoRun, age |-> 0]

Flaws == {"verdict", "threw"}

StrayDisk(r, n) == <<"disk", r, n>>

StrayVm(r, n) == <<"vm", r, n>>

Strays == {"disk", "vm"} \X Runs \X Names

IdleReaper == [pc |-> "idle", aged |-> {}, vmq |-> {}, diskq |-> {},
               fresh |-> {}, unseen |-> {}]

(* Shapes and ranges; records are collected in the order of the VMs, so    *)
(* their number stands for the list.                                       *)
TypeOK ==
    /\ run \in [Runs -> Run]
    /\ \A r \in Runs : run[r].idx <= NVms[r] /\ run[r].recs <= NVms[r]
    /\ disk \in [Names -> [owner : Runs \cup {NoRun}, age : Ages]]
    /\ vm \in [Names -> SUBSET Runs]
    /\ reaper \in [pc : {"idle", "list", "delete", "unlink", "disks"},
                   aged : SUBSET Names, vmq : SUBSET Names, diskq : SUBSET Names,
                   fresh : SUBSET Names, unseen : SUBSET Names]
    /\ reaper.pc \in {"delete", "unlink"} => reaper.vmq # {}
    /\ faults \in 0 .. MaxFaults
    /\ flaw \in [Runs -> SUBSET Flaws]
    /\ strays \subseteq Strays
    /\ taken \subseteq Names /\ missed \subseteq Names

Init ==
    /\ run = [r \in Runs |-> NewRun]
    /\ disk = [n \in Names |-> NoDisk]
    /\ vm = [n \in Names |-> {}]
    /\ reaper = IdleReaper
    /\ faults = 0
    /\ flaw = [r \in Runs |-> {}]
    /\ strays = {}
    /\ taken = {}
    /\ missed = {}

Live(r) == run[r].pc \notin {"idle", "gone"}

At(r, pc) == run[r].pc = pc

(* The VM the run is provisioning, booting or tearing down.                *)
Cur(r) == EphemeralName(r, run[r].idx)

OnDisk(n) == disk[n] # NoDisk

Fault == faults < MaxFaults /\ faults' = faults + 1

Go(r, pc) == run' = [run EXCEPT ![r].pc = pc]

(* A run has created the disk and its teardown has not yet unlinked it.    *)
Holds(r, n) ==
    \E v \in 1 .. NVms[r] :
        /\ n = EphemeralName(r, v)
        /\ \/ At(r, "create") /\ v <= run[r].idx
           \/ At(r, "undo") /\ v <= run[r].idx
           \/ run[r].pc \in {"disk", "boot", "body"}
              /\ v <= run[r].recs
           \/ run[r].pc \in {"delete", "unlink"}
              /\ v \in run[r].idx .. run[r].recs

-----------------------------------------------------------------------------
(* The end of the try block, the finally block *)

(* runScenario returns; of its locals only the verdict matters from here.  *)
Result(s) == [NewRun EXCEPT !.pc = "done", !.status = s.status]

(* Teardown of the recorded VMs, one after the other, or the result.       *)
Cleanup(s) ==
    IF s.recs > 0 THEN [s EXCEPT !.pc = "delete", !.idx = 1]
                  ELSE Result(s)

(* The catch block, for an error of resolveVms: there is no map of VMs yet *)
(* and the finally block skips the declared teardown.                      *)
Throw(s) == Cleanup([s EXCEPT !.status = "error", !.err = TRUE])

Blot(r, what) == flaw' = [flaw EXCEPT ![r] = @ \cup what]

(* A failed call left something that no later step of the run removes.     *)
Leaves(stray) == strays' = strays \cup {stray}

Throws(r) ==
    /\ run' = [run EXCEPT ![r] = Throw(@)]
    /\ Blot(r, {"verdict", "threw"})

-----------------------------------------------------------------------------
(* resolveVms *)

(* loadScenario, its parameters and capabilities, and backend.listVMs:     *)
(* each of them may throw before anything was provisioned.                 *)
Begin(r) ==
    /\ At(r, "idle")
    /\ \/ Go(r, "disk") /\ UNCHANGED flaw
       \/ Throws(r)
    /\ UNCHANGED <<disk, vm, reaper, faults, strays, taken, missed>>

(* createDifferencingDisk refuses a child path that exists.                *)
ChildExists(r) ==
    /\ At(r, "disk")
    /\ OnDisk(Cur(r))
    /\ Throws(r)
    /\ UNCHANGED <<disk, vm, reaper, faults, strays, taken, missed>>

Branch(r) ==
    /\ disk' = [disk EXCEPT ![Cur(r)] = [owner |-> r, age |-> 0]]
    /\ reaper' = IF Cur(r) \in reaper.aged \cup reaper.vmq \cup reaper.diskq
                 THEN [reaper EXCEPT !.fresh = @ \cup {Cur(r)}] ELSE reaper

CreateDifferencingDisk(r) ==
    /\ At(r, "disk")
    /\ ~OnDisk(Cur(r))
    /\ Branch(r)
    /\ Go(r, "create")
    /\ UNCHANGED <<vm, faults, flaw, strays, taken, missed>>

(* The template did not resolve, or New-VHD failed or ran into its timeout:*)
(* in the last case the file may be there, and nothing unlinks it.         *)
NewVhdFails(r) ==
    /\ At(r, "disk")
    /\ ~OnDisk(Cur(r))
    /\ Fault
    /\ \/ Branch(r) /\ Leaves(StrayDisk(r, Cur(r)))
       \/ UNCHANGED <<disk, reaper, strays>>
    /\ Throws(r)
    /\ UNCHANGED <<vm, taken, missed>>

(* A VM of the name, which a pass that has the name queued does not see:   *)
(* its listVMs is over.                                                    *)
NewVm(r) ==
    /\ vm' = [vm EXCEPT ![Cur(r)] = @ \cup {r}]
    /\ reaper' = IF Cur(r) \in reaper.vmq \cup reaper.diskq
                 THEN [reaper EXCEPT !.unseen = @ \cup {Cur(r)}] ELSE reaper

(* Mutant: the record is not pushed until the VM has booted.               *)
CreateVmUnrecorded(r) ==
    /\ At(r, "create")
    /\ NewVm(r)
    /\ Go(r, "boot")
    /\ UNCHANGED <<disk, faults, flaw, strays, taken, missed>>

(* createVM and, once it returned, the record for the finally block.       *)
CreateVm(r) ==
    /\ At(r, "create")
    /\ NewVm(r)
    /\ run' = [run EXCEPT ![r].pc = "boot", ![r].recs = run[r].idx]
    /\ UNCHANGED <<disk, faults, flaw, strays, taken, missed>>

(* createVM threw.  Its script is New-VM followed by Set-VMProcessor: the  *)
(* VM may exist.  It has no record, and nothing tries to remove it.        *)
CreateVmFails(r) ==
    /\ At(r, "create")
    /\ Fault
    /\ \/ NewVm(r) /\ Leaves(StrayVm(r, Cur(r)))
       \/ UNCHANGED <<vm, reaper, strays>>
    /\ Go(r, "undo")
    /\ UNCHANGED <<disk, flaw, taken, missed>>

(* The roll-back of step 3: the child disk is unlinked, best effort, and   *)
(* create_vm_failed thrown.                                                *)
UndoDisk(r) ==
    /\ At(r, "undo")
    /\ \/ /\ disk' = [disk EXCEPT ![Cur(r)] = NoDisk]
          /\ UNCHANGED <<faults, strays>>
       \/ /\ OnDisk(Cur(r)) /\ Fault
          /\ Leaves(StrayDisk(r, Cur(r)))
          /\ UNCHANGED disk
    /\ Throws(r)
    /\ UNCHANGED <<vm, reaper, taken, missed>>

(* getStatus, startVM and the wait for `running`; then the next VM, or the *)
(* map of all of them.                                                     *)
BootVm(r) ==
    /\ At(r, "boot")
    /\ vm[Cur(r)] # {}
    /\ run' = [run EXCEPT ![r] =
                 IF @.idx < NVms[r]
                 THEN [@ EXCEPT !.pc = "disk", !.idx = run[r].idx + 1]
                 ELSE [@ EXCEPT !.pc = "body"]]
    /\ UNCHANGED <<disk, vm, reaper, faults, flaw, strays, taken, missed>>

(* The VM is gone, or one of the calls failed, or 60 seconds were over.    *)
BootVmFails(r) ==
    /\ At(r, "boot")
    /\ IF vm[Cur(r)] = {} THEN UNCHANGED faults ELSE Fault
    /\ Throws(r)
    /\ UNCHANGED <<disk, vm, reaper, strays, taken, missed>>

-----------------------------------------------------------------------------
(* Setup, workflow, assertions and declared teardown.  They change neither *)
(* disks nor VMs, so that each stretch of them is one step; the reaper and *)
(* a crash may come before it and after it.                                *)

(* executeSetup: every step has its attempts, one that passes ends them,   *)
(* and a step that failed for good does not keep the next from running.    *)
Attempts == [1 .. Steps -> [1 .. Retries + 1 -> BOOLEAN]]

StepPasses(attempts) == \E a \in DOMAIN attempts : attempts[a]

StepsPass(att) == \A k \in 1 .. Steps : StepPasses(att[k])

(* The status after a stretch that failed, after one that passed.          *)
Failed(status, ok) == IF ok THEN status ELSE "failed"

(* waitForGuestAgents throws for an agent that is not reachable in time;   *)
(* the agent of every VM is waited for before anything runs.               *)
AgentsReady == {"ok", "throw"}

(* applyScenarioSoftware catches what a bundle throws and goes on with the *)
(* next: it only ever reports a failure.                                   *)
SoftwareApplied == {"ok", "fail"}

Outcomes == {"ok", "fail", "throw"}

(* Tool blocks run after a failed setup too, assertions after failed tool  *)
(* blocks; each only adds its failure.                                     *)
Assess(status, workflow, assertions) ==
    Failed(Failed(status, workflow = "ok"), assertions = "ok")

(* The try block from the resolved VMs on: debugger sessions and guest     *)
(* agents, software bundles, setup, tool blocks, assertions.  A throw goes *)
(* to the catch block; a failure does not stop what follows.               *)
TryBody(ready, software, att, workflow, assertions) ==
    IF "throw" \in {ready, workflow, assertions} THEN "error"
    ELSE Assess(Failed(Failed("passed", software = "ok"), StepsPass(att)),
                workflow, assertions)

(* executeTeardown in the finally block: a step that failed turns only     *)
(* `passed` into `failed`, and should it throw the scenario is an error.   *)
DeclaredTeardown(status, att, threw) ==
    IF threw THEN "error"
    ELSE IF status = "passed" THEN Failed(status, StepsPass(att)) ELSE status

(* The flaws of such a stretch: something failed for good, something threw.*)
BodyFlaw(outcomes, attempts) ==
    (IF "throw" \in outcomes THEN {"threw"} ELSE {})
      \cup (IF outcomes = {"ok"}
               /\ \A att \in attempts, k \in 1 .. Steps : TRUE \in {att[k][a] : a \in 1 .. Retries + 1}
            THEN {} ELSE {"verdict"})

(* What may happen in the stretch.                                         *)
Stretches == [ready : AgentsReady, software : SoftwareApplied, setup : Attempts,
              workflow : Outcomes, assertions : Outcomes, teardown : Attempts,
              tdThrow : {"ok", "throw"}]

Body(o) ==
    [status |-> DeclaredTeardown(TryBody(o.ready, o.software, o.setup,
                                         o.workflow, o.assertions),
                                 o.teardown, o.tdThrow = "throw"),
     flaw |-> BodyFlaw({o.ready, o.software, o.workflow, o.assertions, o.tdThrow},
                       {o.setup, o.teardown})]

Bodies == {Body(o) : o \in Stretches}

(* From the resolved VMs to the end of the declared teardown.              *)
RunBody(r) ==
    /\ At(r, "body")
    /\ \E b \in Bodies :
          /\ run' = [run EXCEPT ![r] = Cleanup([@ EXCEPT !.status = b.status,
                                                        !.err = b.status = "error"])]
          /\ Blot(r, b.flaw)
    /\ UNCHANGED <<disk, vm, reaper, faults, strays, taken, missed>>

-----------------------------------------------------------------------------
(* teardownEphemeralVm *)

(* Remove-VM by name takes every VM of that name.                          *)
RemoveVm(n) == vm[n] # {} /\ vm' = [vm EXCEPT ![n] = {}]

(* stopVM and deleteVM, each in a try of its own: a VM that is not there   *)
(* is an error of both, an error of the first does not keep from the       *)
(* second.                                                                 *)
StopAndDeleteVm(r) ==
    /\ At(r, "delete")
    /\ \/ /\ RemoveVm(Cur(r))
          /\ \/ Go(r, "unlink") /\ UNCHANGED <<faults, flaw>>
             \/ /\ Fault
                /\ run' = [run EXCEPT ![r].pc = "unlink", ![r].tdErr = TRUE]
                /\ Blot(r, {"verdict"})
          /\ UNCHANGED strays
       \/ /\ IF vm[Cur(r)] = {} THEN UNCHANGED <<faults, strays>>
             ELSE Fault /\ Leaves(StrayVm(r, Cur(r)))
          /\ run' = [run EXCEPT ![r].pc = "unlink", ![r].tdErr = TRUE]
          /\ Blot(r, {"verdict"})
          /\ UNCHANGED vm
    /\ UNCHANGED <<disk, reaper, taken, missed>>

(* After the record: its first error becomes the scenario's if there is    *)
(* none yet, and then turns `passed` into `error`; the next record.        *)
NextRecord(s) ==
    LET e == [s EXCEPT !.err = @ \/ s.tdErr,
                       !.status = IF s.tdErr /\ ~s.err /\ @ = "passed"
                                  THEN "error" ELSE @,
                       !.tdErr = FALSE]
    IN IF e.idx < e.recs THEN [e EXCEPT !.pc = "delete", !.idx = @ + 1]
       ELSE Result(e)

UnlinkDisk(r) ==
    /\ At(r, "unlink")
    /\ \/ /\ disk' = [disk EXCEPT ![Cur(r)] = NoDisk]
          /\ run' = [run EXCEPT ![r] = NextRecord(@)]
          /\ UNCHANGED <<faults, flaw, strays>>
       \/ /\ OnDisk(Cur(r)) /\ Fault
          /\ run' = [run EXCEPT ![r] = NextRecord([@ EXCEPT !.tdErr = TRUE])]
          /\ Blot(r, {"verdict"})
          /\ Leaves(StrayDisk(r, Cur(r)))
          /\ UNCHANGED disk
    /\ UNCHANGED <<vm, reaper, taken, missed>>

Forget(r) ==
    /\ run' = [run EXCEPT ![r] = [NewRun EXCEPT !.pc = "gone"]]
    /\ flaw' = [flaw EXCEPT ![r] = {}]

(* runRun turns the result into the envelope and the run is over.          *)
Report(r) ==
    /\ At(r, "done")
    /\ Forget(r)
    /\ UNCHANGED <<disk, vm, reaper, faults, strays, taken, missed>>

(* The process is killed, or the host goes down: no finally block.         *)
Crash(r) ==
    /\ Live(r)
    /\ Fault
    /\ Forget(r)
    /\ UNCHANGED <<disk, vm, reaper, strays, taken, missed>>

RunStep(r) ==
    \/ Begin(r)
    \/ ChildExists(r) \/ CreateDifferencingDisk(r) \/ NewVhdFails(r)
    \/ CreateVm(r) \/ CreateVmFails(r) \/ UndoDisk(r)
    \/ BootVm(r) \/ BootVmFails(r)
    \/ RunBody(r) \/ StopAndDeleteVm(r) \/ UnlinkDisk(r)
    \/ Report(r)

-----------------------------------------------------------------------------
(* reapOrphanedEphemeralResources *)

(* Mutant: the age is not looked at.                                       *)
AgedAnyAge == {n \in Names : OnDisk(n)}

Aged == {n \in Names : OnDisk(n) /\ disk[n].age >= MinAge}

(* readdir and stat: the disks and their ages, in one synchronous stretch. *)
ReapEnumerate ==
    /\ reaper.pc = "idle"
    /\ Aged # {}
    /\ reaper' = [IdleReaper EXCEPT !.pc = "list", !.aged = Aged]
    /\ UNCHANGED <<run, disk, vm, faults, flaw, strays, taken, missed>>

(* The VMs to reap, then the disks; with nothing left the pass is over.    *)
Reaping(s) ==
    IF s.vmq # {} THEN [s EXCEPT !.pc = "delete"]
    ELSE IF s.diskq # {} THEN [s EXCEPT !.pc = "disks"]
    ELSE IdleReaper

VmNames == {n \in Names : vm[n] # {}}

(* Mutant: disks without a VM are nobody's.                                *)
ClassifyVmsOnly(listed) ==
    LET aged == reaper.aged
    IN reaper' = Reaping([reaper EXCEPT !.aged = {}, !.vmq = aged \cap listed,
                                        !.unseen = aged \cap (VmNames \ listed)])

(* Mutant: the names are compared with their case and no VM matches.       *)
ClassifyNoMatch(listed) ==
    LET aged == reaper.aged
    IN reaper' = Reaping([reaper EXCEPT !.aged = {}, !.diskq = aged,
                                        !.unseen = aged \cap (VmNames \ listed)])

Classify(listed) ==
    LET aged == reaper.aged
    IN reaper' = Reaping([reaper EXCEPT !.aged = {},
                                        !.vmq = aged \cap listed,
                                        !.diskq = aged \ listed,
                                        !.unseen = aged \cap (VmNames \ listed)])

(* listVMs; when it fails the pass goes on with an empty list of VMs.      *)
ReapClassify ==
    /\ reaper.pc = "list"
    /\ \/ Classify(VmNames) /\ UNCHANGED faults
       \/ Fault /\ Classify({})
    /\ UNCHANGED <<run, disk, vm, flaw, strays, taken, missed>>

(* The VM the loop is at; the order of listVMs is Hyper-V's.               *)
ReapVm == CHOOSE n \in reaper.vmq : TRUE

NextVm == Reaping([reaper EXCEPT !.vmq = @ \ {ReapVm}])

(* The VM is gone and the pass comes to its disk.                          *)
VmReaped == [reaper EXCEPT !.pc = "unlink", !.unseen = @ \ {ReapVm}]

(* stopVM, whose error is only noted, and deleteVM; when that fails the    *)
(* disk stays, for a later pass.                                           *)
ReapDelete ==
    /\ reaper.pc = "delete"
    /\ \/ RemoveVm(ReapVm) /\ reaper' = VmReaped /\ UNCHANGED faults
       \/ /\ IF vm[ReapVm] = {} THEN UNCHANGED faults ELSE Fault
          /\ reaper' = NextVm
          /\ UNCHANGED vm
    /\ UNCHANGED <<run, disk, flaw, strays, taken, missed>>

(* Removal of the file by the reaper.  The disk may be another one than    *)
(* the one the pass enumerated, or that of a VM the pass did not see.      *)
Unlink(n) ==
    \/ /\ disk' = [disk EXCEPT ![n] = NoDisk]
       /\ taken' = IF OnDisk(n) /\ \E r \in Runs : Holds(r, n)
                   THEN taken \cup {n} ELSE taken
       /\ missed' = IF vm[n] # {} /\ n \in reaper.unseen
                    THEN missed \cup {n} ELSE missed
       /\ UNCHANGED faults
    \/ Fault /\ OnDisk(n) /\ UNCHANGED <<disk, taken, missed>>

ReapUnlink ==
    /\ reaper.pc = "unlink"
    /\ Unlink(ReapVm)
    /\ reaper' = NextVm
    /\ UNCHANGED <<run, vm, flaw, strays>>

ReapDisk ==
    /\ reaper.pc = "disks"
    /\ \E n \in reaper.diskq :
          /\ Unlink(n)
          /\ reaper' = Reaping([reaper EXCEPT !.diskq = @ \ {n}])
    /\ UNCHANGED <<run, vm, flaw, strays>>

(* The reaper's process is killed between two of its calls.                *)
ReapCrash ==
    /\ reaper.pc # "idle"
    /\ Fault
    /\ reaper' = IdleReaper
    /\ UNCHANGED <<run, disk, vm, flaw, strays, taken, missed>>

ReapStep == ReapEnumerate \/ ReapClassify \/ ReapDelete
              \/ ReapUnlink \/ ReapDisk

(* One unit of time.                                                       *)
Clock ==
    /\ disk' = [n \in Names |->
                  IF OnDisk(n) /\ disk[n].age < MinAge
                  THEN [disk[n] EXCEPT !.age = @ + 1] ELSE disk[n]]
    /\ disk' # disk
    /\ UNCHANGED <<run, vm, reaper, faults, flaw, strays, taken, missed>>

Terminated ==
    /\ \A r \in Runs : At(r, "gone")
    /\ reaper.pc = "idle"
    /\ \A n \in Names : ~OnDisk(n)
    /\ UNCHANGED vars

Next ==
    \/ \E r \in Runs : RunStep(r) \/ Crash(r)
    \/ ReapStep \/ ReapCrash
    \/ Clock
    \/ Terminated

(* A run's awaits all end, time passes, and the operator runs the reaper   *)
(* from a timer.                                                           *)
Spec ==
    /\ Init /\ [][Next]_vars
    /\ \A r \in Runs : WF_vars(RunStep(r))
    /\ WF_vars(ReapStep)
    /\ WF_vars(Clock)

-----------------------------------------------------------------------------
(* Properties *)

(* The disk file is the only lock between runs whose VMs have one name: it *)
(* is created first and unlinked last.  Two live runs hold one name only   *)
(* after the reaper unlinked the disk of the first under it.               *)
OneHolder ==
    \A n \in Names, r, q \in Runs :
        Holds(r, n) /\ Holds(q, n) /\ r # q => n \in taken

(* A VM that may be without its disk file.  Three things do that: createVM *)
(* or deleteVM failed and left the VM, and the run unlinked the disk all   *)
(* the same; the reaper unlinked the disk under a live run, as old as it   *)
(* or younger than its list; or it did so under a VM it had not seen, made *)
(* since its listVMs or hidden by a listVMs that failed.                   *)
MayLackDisk(r, n) == StrayVm(r, n) \in strays \/ n \in taken \cup missed

(* The reaper finds a VM by its disk file only.  Wherever runs and reaper  *)
(* are killed, and whichever of their other calls fail, a VM keeps its     *)
(* disk: neither ever unlinks that of a VM it knows of and has not removed.*)
Reapable ==
    \A n \in Names : ~OnDisk(n) => \A r \in vm[n] : MayLackDisk(r, n)

(* The disk file stands for its VM: it is the lock of the name while the   *)
(* VM's run lives and what the reaper finds the VM by afterwards.          *)
DiskStandsForVm == OneHolder /\ Reapable

(* What a run holds, and is younger than the age the reaper was given, is  *)
(* removed by nobody else: unless its disk was taken before, or was made   *)
(* while a pass was going that had enumerated an older disk of that name.  *)
YoungSurvives ==
    [][\A r \in Runs, n \in Names :
          /\ (r \in vm[n] /\ r \notin vm'[n]) \/ (OnDisk(n) /\ disk'[n] = NoDisk)
          /\ disk[n].owner = r /\ disk[n].age < MinAge /\ Holds(r, n)
          => run'[r] # run[r] \/ n \in taken \cup reaper.fresh]_vars

(* A run that ended, in whatever phase it threw, left neither a VM nor a   *)
(* disk behind, but for the very ones a failed call left: a removing call, *)
(* or a creating call that failed after it had made the disk (New-VHD ran  *)
(* into its timeout) or the VM (Set-VMProcessor failed after New-VM).  The *)
(* other VMs and disks of that run are gone.                               *)
CleanFinish ==
    \A r \in Runs :
        At(r, "done") =>
            \A n \in Names :
                /\ disk[n].owner = r => StrayDisk(r, n) \in strays
                /\ r \in vm[n] => StrayVm(r, n) \in strays

(* The verdict: passed exactly when no step, teardown or cleanup failed    *)
(* for good; an error thrown is never reported as a mere failure.          *)
Verdict ==
    \A r \in Runs :
        At(r, "done") =>
            /\ run[r].status = "passed" <=> "verdict" \notin flaw[r]
            /\ "threw" \in flaw[r] => run[r].status = "error"

(* A run that ended left nothing and says truly how it ended.              *)
FinishIsHonest == CleanFinish /\ Verdict

(* All runs end, and in the end no disk is left, and no VM but one that    *)
(* lost its disk as MayLackDisk says.                                      *)
EventuallyClean ==
    <>[](/\ \A r \in Runs : At(r, "gone")
         /\ \A n \in Names : ~OnDisk(n) /\ \A r \in vm[n] : MayLackDisk(r, n))

=============================================================================
