-------------------------------- MODULE Cloud --------------------------------
(***************************************************************************)
(* Cloud provisioning under a monthly budget, and the reaper that ends     *)
(* what is past its time to live: cloud/budget.ts (the gate),              *)
(* cloud/aws.ts and cloud/azure.ts (the backends), cloud/reaper.ts and     *)
(* SQLite's usage rows.                                                    *)
(*                                                                         *)
(* Every await is a point where others run: between the gate's sum and     *)
(* the row that makes the next sum larger lie the launch and the wait for  *)
(* the instance; between the reaper's list and each of its terminations    *)
(* lie the other terminations.  An EC2 instance is known by an id of its   *)
(* own; an Azure VM by the name the caller gave it, which a later create   *)
(* call may use again, and which the terminate call goes by.               *)
(***************************************************************************)
EXTENDS Integers, Sequences, FiniteSets

CONSTANTS
    Aws, Azure,  \* requests for an instance, by backend
    Cost,        \* estimateInstanceCostCents of a request
    MaxCost,     \* the dearest entry of the price table
    Limit,       \* monthlyCentsLimit of the organisation
    Workers,     \* provisions in flight at a time
    Ttl,         \* time to live of an instance
    MonthLength, \* of the calendar month
    Horizon,     \* the clock stops here
    AwsPage, AzurePage, \* entries of one page of a backend's list
    Before,      \* EC2 instances launched before the host started, and when
                 \* they expire
    Protected,   \* requests whose instance the vendor refuses to terminate
    MaxOthers,   \* bound on the VMs of others in the Azure subscription
    MaxCloudFaults \* failed vendor calls of a sweep and crashes of the host

(* All Azure requests use one name; an EC2 id is never used again.         *)
AzureName == "name"

ASSUME CloudAssumption ==
    /\ Aws \cap Azure = {}
    /\ AzureName \notin Aws
    /\ MaxCost \in Nat /\ Cost \in [Aws \cup Azure -> 1 .. MaxCost]
    /\ Limit \in Nat
    /\ {Workers, Ttl, MonthLength, AwsPage, AzurePage} \subseteq Nat \ {0}
    /\ Horizon \in Nat /\ MaxOthers \in Nat /\ MaxCloudFaults \in Nat
    /\ DOMAIN Before \subseteq Aws
    /\ Before \in [DOMAIN Before -> 0 .. Horizon]
    /\ Protected \subseteq Aws \cup Azure

VARIABLES
    clock,   \* the clock
    pc,      \* per request: where provisionInstance is; "done" when the
             \* caller has the handle, "over" when there is none or no more
    vm,      \* the vendor's side: per id or name, the managed instance there
    foreign, \* VMs without the managed tag that the list of the Azure
             \* subscription has after the managed ones
    usage,   \* cloud_org_usage: estimated_cents of its rows, by the month of
             \* started_at; rows are only added
    reaper,  \* the sweep in flight
    cloudFaults \* faults so far

cloudVars == <<clock, pc, vm, foreign, usage, reaper, cloudFaults>>

Reqs == Aws \cup Azure

(* monthBoundsUtc, as the number of the month.                             *)
Month(t) == t \div MonthLength

Months == 0 .. Month(Horizon)

Key(r) == IF r \in Azure THEN AzureName ELSE r

Keys == {Key(r) : r \in Reqs}

NoVm == [owner |-> "none", expires |-> 0]

(* An instance; it expires at 0 when it has no TTL tag, or one that is no  *)
(* positive number.                                                        *)
Vms == [owner : Reqs, expires : 0 .. Horizon]

Handles == [key : Keys, owner : Reqs, expires : 0 .. Horizon]

Backends == <<"aws", "azure">>

BackendOf(k) == IF k = AzureName THEN "azure" ELSE "aws"

Idle == [pc |-> "idle", now |-> 0, todo |-> <<>>, handles |-> {}]

(* Shapes and ranges of the requests, the vendor, the rows and the sweep.  *)
CloudTypeOK ==
    /\ clock \in 0 .. Horizon
    /\ pc \in [Reqs -> {"idle", "checked", "waiting", "done", "over"}]
    /\ vm \in [Keys -> Vms \cup {NoVm}]
    /\ foreign \in 0 .. MaxOthers
    /\ usage \in [Months -> Nat]
    /\ reaper \in [pc : {"idle", "list", "sweep"}, now : 0 .. Horizon,
                   todo : Seq({"aws", "azure"}), handles : SUBSET Handles]
    /\ cloudFaults \in 0 .. MaxCloudFaults

CloudInit ==
    /\ clock = 0
    /\ pc = [r \in Reqs |-> IF r \in DOMAIN Before THEN "over" ELSE "idle"]
    /\ vm = [k \in Keys |-> IF k \in DOMAIN Before
                              THEN [owner |-> k, expires |-> Before[k]] ELSE NoVm]
    /\ foreign = 0
    /\ usage = [m \in Months |-> 0]
    /\ reaper = Idle
    /\ cloudFaults = 0

TimePasses ==
    /\ clock < Horizon
    /\ clock' = clock + 1
    /\ UNCHANGED <<pc, vm, foreign, usage, reaper, cloudFaults>>

(* Somebody else starts a VM in the Azure subscription.                    *)
OthersLaunch ==
    /\ foreign < MaxOthers
    /\ foreign' = foreign + 1
    /\ UNCHANGED <<clock, pc, vm, usage, reaper, cloudFaults>>

CloudFault == cloudFaults < MaxCloudFaults /\ cloudFaults' = cloudFaults + 1

-----------------------------------------------------------------------------
(* provisionInstance *)

(* sumForRange.                                                            *)
SumForRange(m) == usage[m]

Provisioning == {r \in Reqs : pc[r] \in {"checked", "waiting"}}

SetPc(r, to) == pc' = [pc EXCEPT ![r] = to]

(* Mutant: the estimate is left out.                                       *)
FitsBefore(r) == SumForRange(Month(clock)) <= Limit

(* check: the month's rows and the estimate against the limit.             *)
Fits(r) == SumForRange(Month(clock)) + Cost[r] <= Limit

Check(r) ==
    /\ pc[r] = "idle" /\ Cardinality(Provisioning) < Workers
    /\ SetPc(r, IF Fits(r) THEN "checked" ELSE "over")
    /\ UNCHANGED <<clock, vm, foreign, usage, reaper, cloudFaults>>

(* The tags, with the time of expiry.                                      *)
Tagged(r) == [owner |-> r, expires |-> clock + Ttl]

(* RunInstances: an instance with an id of its own.                        *)
RunInstances(r) ==
    /\ pc[r] = "checked" /\ r \in Aws
    /\ clock + Ttl <= Horizon
    /\ vm' = [vm EXCEPT ![r] = Tagged(r)]
    /\ SetPc(r, "waiting")
    /\ UNCHANGED <<clock, foreign, usage, reaper, cloudFaults>>

(* beginCreateOrUpdate takes over a VM that has the name already.          *)
CreateOrUpdate(r) ==
    /\ pc[r] = "checked" /\ r \in Azure
    /\ clock + Ttl <= Horizon
    /\ vm' = [vm EXCEPT ![AzureName] = Tagged(r)]
    /\ SetPc(r, "waiting")
    /\ UNCHANGED <<clock, foreign, usage, reaper, cloudFaults>>

(* The vendor refuses; nothing is created.                                 *)
LaunchFails(r) ==
    /\ pc[r] = "checked"
    /\ SetPc(r, "over")
    /\ UNCHANGED <<clock, vm, foreign, usage, reaper, cloudFaults>>

(* The instance runs (waitUntilRunning, or the end of Azure's create       *)
(* operation) and recordStart dates its row at this moment; a storage      *)
(* error is swallowed.  The wait covers the await between the two.         *)
RecordStart(r) ==
    /\ pc[r] = "waiting" /\ vm[Key(r)] # NoVm
    /\ SetPc(r, "done")
    /\ \/ usage' = [usage EXCEPT ![Month(clock)] = @ + Cost[r]]
       \/ UNCHANGED usage
    /\ UNCHANGED <<clock, vm, foreign, reaper, cloudFaults>>

(* It is terminated, or gone, or does not run in time: the caller gets an  *)
(* error and no handle, and no row is written.                             *)
StartFails(r) ==
    /\ pc[r] = "waiting"
    /\ SetPc(r, "over")
    /\ UNCHANGED <<clock, vm, foreign, usage, reaper, cloudFaults>>

(* terminateInstance: what has the id or the name, if anything.            *)
Terminated(k) ==
    IF vm[k].owner \in Protected THEN vm ELSE [vm EXCEPT ![k] = NoVm]

(* The caller ends what it provisioned.                                    *)
Terminate(r) ==
    /\ pc[r] = "done" /\ vm[Key(r)].owner \notin Protected
    /\ SetPc(r, "over")
    /\ vm' = Terminated(Key(r))
    /\ UNCHANGED <<clock, foreign, usage, reaper, cloudFaults>>

-----------------------------------------------------------------------------
(* CloudReaper.runOnce *)

(* A sweep begins unless one is in flight.  Its clock is read once.        *)
SweepStart ==
    /\ reaper.pc = "idle"
    /\ reaper' = [pc |-> "list", now |-> clock, todo |-> Backends, handles |-> {}]
    /\ UNCHANGED <<clock, pc, vm, foreign, usage, cloudFaults>>

Listed(b) ==
    {[key |-> k, owner |-> vm[k].owner, expires |-> vm[k].expires] :
        k \in {l \in Keys : BackendOf(l) = b /\ vm[l] # NoVm}}

(* listInstances throws: EC2's filter is the vendor's, and a second page   *)
(* is one of managed instances; Azure's loop over the subscription looks   *)
(* at the count before it looks at the next VM's tags, and throws at any   *)
(* VM that comes after a page of managed ones.                             *)
Overflow(b) ==
    LET n == Cardinality(Listed(b)) IN
    IF b = "aws" THEN n > AwsPage
    ELSE n > AzurePage \/ (n = AzurePage /\ foreign > 0)

(* The loops over backends and handles: the handles left of this backend,  *)
(* the next backend, or the end of the sweep.                              *)
GoOn(handles, todo) ==
    reaper' = IF handles # {}
                THEN [reaper EXCEPT !.pc = "sweep", !.handles = handles]
              ELSE IF todo # <<>>
                THEN [reaper EXCEPT !.pc = "list", !.handles = {}, !.todo = todo]
              ELSE Idle

SkipBackend == GoOn({}, Tail(reaper.todo))

(* Mutant: an error of one backend ends the sweep.                         *)
ListAborts ==
    /\ reaper.pc = "list"
    /\ LET b == Head(reaper.todo) IN
       \/ ~Overflow(b) /\ GoOn(Listed(b), Tail(reaper.todo)) /\ UNCHANGED cloudFaults
       \/ Overflow(b) /\ reaper' = Idle /\ UNCHANGED cloudFaults
       \/ CloudFault /\ reaper' = Idle
    /\ UNCHANGED <<clock, pc, vm, foreign, usage>>

(* listInstances of the next backend; an error costs that backend its      *)
(* sweep and no other.                                                     *)
List ==
    /\ reaper.pc = "list"
    /\ LET b == Head(reaper.todo) IN
       \/ ~Overflow(b) /\ GoOn(Listed(b), Tail(reaper.todo)) /\ UNCHANGED cloudFaults
       \/ Overflow(b) /\ SkipBackend /\ UNCHANGED cloudFaults
       \/ CloudFault /\ SkipBackend
    /\ UNCHANGED <<clock, pc, vm, foreign, usage>>

(* Mutant: one unit early.                                                 *)
PastTtlEarly(h) == h.expires \in 1 .. reaper.now + 1

(* An instance without a TTL tag, or with a malformed one, is left alone.  *)
PastTtl(h) == h.expires \in 1 .. reaper.now

Handled(h) == GoOn(reaper.handles \ {h}, Tail(reaper.todo))

(* One handle: left alone while it may live; terminated otherwise, by id   *)
(* or by name; an instance that is gone counts as terminated.              *)
Reap(h) ==
    /\ reaper.pc = "sweep"
    /\ Handled(h)
    /\ vm' = IF PastTtl(h) THEN Terminated(h.key) ELSE vm
    /\ UNCHANGED <<clock, pc, foreign, usage, cloudFaults>>

(* A termination that fails is counted, and the sweep goes on.             *)
ReapFails(h) ==
    /\ reaper.pc = "sweep" /\ PastTtl(h)
    /\ CloudFault
    /\ Handled(h)
    /\ UNCHANGED <<clock, pc, vm, foreign, usage>>

(* The host ends: the sweep and the provisions in flight with it; the      *)
(* vendor keeps what was launched.                                         *)
HostCrash ==
    /\ CloudFault
    /\ reaper' = Idle
    /\ pc' = [r \in Reqs |-> IF r \in Provisioning THEN "over" ELSE pc[r]]
    /\ UNCHANGED <<clock, vm, foreign, usage>>

-----------------------------------------------------------------------------
Provision(r) ==
    Check(r) \/ RunInstances(r) \/ CreateOrUpdate(r) \/ LaunchFails(r) \/ StartFails(r)
    \/ RecordStart(r) \/ Terminate(r)

Sweep ==
    SweepStart \/ List \/ (\E h \in reaper.handles : Reap(h))

CloudNext ==
    \/ TimePasses \/ OthersLaunch \/ Sweep \/ HostCrash
    \/ \E h \in reaper.handles : ReapFails(h)
    \/ \E r \in Reqs : Provision(r)

(* Time passes, and sweeps are started and go on: an assumption about the  *)
(* operator, whose tool calls and CLI runs are what calls runOnce; nothing *)
(* in the host calls CloudReaper.start, which would do so at an interval.  *)
CloudFairness == WF_cloudVars(TimePasses) /\ WF_cloudVars(Sweep)

CloudSpec == CloudInit /\ [][CloudNext]_cloudVars /\ CloudFairness

-----------------------------------------------------------------------------
(* What concurrent provisions can spend beyond the limit is bounded: the   *)
(* rows of a month exceed it by at most the cost of the provisions that    *)
(* can run beside one another, less one, also where a provision is checked *)
(* in one month and recorded in the next (CloudBudgetGate.check against    *)
(* recordStart).                                                           *)
Overrun ==
    \A m \in Months :
        SumForRange(m) <= Limit + (Workers - 1) * MaxCost

(* The reaper terminates nothing before its time, and nothing that has no  *)
(* time, however long the sweep takes and whatever is provisioned          *)
(* meanwhile; unless an Azure name that the sweep had listed was given to  *)
(* a new VM, which then dies young.                                        *)
TtlRespected ==
    [][\A k \in Keys :
          vm[k] # NoVm /\ vm'[k] = NoVm /\ reaper' # reaper =>
             \/ vm[k].expires \in 1 .. clock
             \/ BackendOf(k) = "azure" /\ \A h \in reaper.handles : h.owner # vm[k].owner]_cloudVars

(* Every instance launched is ended, provided sweeps go on, the ones whose *)
(* provision failed or whose host crashed and that no row and no handle    *)
(* tells of included: neither another backend's failing list nor an        *)
(* instance that refuses to be terminated or has no TTL is in the way.     *)
(* Only its own backend's list is, when from some time on it throws in     *)
(* every sweep: more than a page of managed instances, or on Azure exactly *)
(* a page of them with one VM of somebody else after it.                   *)
Reclaimed ==
    \A k \in Keys :
        []<>(~Overflow(BackendOf(k))) =>
            []<>(vm[k] = NoVm \/ vm[k].owner \in Protected \/ vm[k].expires = 0)
=============================================================================
