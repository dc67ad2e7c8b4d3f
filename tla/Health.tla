------------------------------- MODULE Health -------------------------------
(***************************************************************************)
(* The health scheduler (control-plane/scheduler/runner.ts), the schedule  *)
(* rows it works from (SqliteHealthScheduleRepo) and the operator's        *)
(* `schedule add | enable | disable | remove`.                             *)
(*                                                                         *)
(* A scheduler is a process: `schedule start` loops over ticks, `schedule  *)
(* run-once` runs one.  Nothing keeps two of them, or a scheduler and the  *)
(* operator's commands, apart.  A tick reads the clock once, lists the     *)
(* active rows, and for every due one probes the target, appends the       *)
(* health_check rows, writes last_run_at, emits its events and audits; an  *)
(* error anywhere takes it to the catch block, which tries the watermark   *)
(* again.                                                                  *)
(*                                                                         *)
(* HealthScheduleRepo.update is a read of the whole row followed by a      *)
(* write of the whole row, two statements another process may come         *)
(* between.                                                                *)
(*                                                                         *)
(* Time is relative: instead of last_run_at a row has its age, which       *)
(* saturates at Interval, where the row is due.  The model therefore has   *)
(* no clock bound and liveness can be checked on it.                       *)
(***************************************************************************)
EXTENDS Naturals, FiniteSetsExt

CONSTANTS
    MaxSchedules, \* health_schedule rows
    Schedulers,  \* scheduler processes
    Daemon,      \* the one of them that is `schedule start`
    Interval,    \* intervalSeconds, in units of the model's clock
    MaxFaults,   \* storage errors and crashes of one behaviour
    MaxCommands  \* commands of the operator in one behaviour

ASSUME IntervalAssumption == Interval \in Nat \ {0}
ASSUME HealthBoundsAssumption ==
    MaxSchedules \in Nat \ {0} /\ MaxFaults \in Nat /\ MaxCommands \in Nat
ASSUME DaemonAssumption == Daemon \in Schedulers

VARIABLES
    rows,    \* the rows ever inserted; their ids are in the order of created_at
    sched,   \* per id: its row, with active and whether deleted_at is set as 0
             \* or 1, and the age of last_run_at ?? created_at
    proc,    \* per scheduler: where it is, its tick's age and list
    op,      \* the operator's command between its read and its write
    cmds,    \* commands so far
    faults,  \* storage errors and crashes so far
    gap,     \* per id: age of the newest tick that probed it
    lost,    \* ids whose watermark of the newest probing tick went missing
    want,    \* ids the operator was last told are enabled
    clob     \* ids where a write put back an `active` read before the operator's

healthVars == <<rows, sched, proc, op, cmds, faults, gap, lost, want, clob>>

Schedules == 1 .. MaxSchedules

Ages == 0 .. Interval

Older(a) == IF a < Interval THEN a + 1 ELSE a

Outcomes == {"pass", "fail"}

Flag == 0 .. 1

Row == [active : Flag, deleted : Flag, age : Ages]

Proc == [pc : {"idle", "invoke", "read", "write", "audit",
               "readAgain", "writeAgain", "auditError"},
         since : Ages,
         due : SUBSET Schedules,
         out : Outcomes,
         active : Flag,
         said : SUBSET {"health-tick", "health-failed", "schedule-error"}]

IdleProc == [pc |-> "idle", since |-> 0, due |-> {}, out |-> "pass",
             active |-> 1, said |-> {}]

(* Before the next probe of a tick that began so long since.               *)
Invoking(due, since) ==
    [pc |-> "invoke", since |-> since, due |-> due, out |-> "pass",
     active |-> 1, said |-> {}]

Cmd == [pc : {"idle", "write"}, id : Schedules,
        active : Flag, age : Ages]

IdleCmd == [pc |-> "idle", id |-> 1,
            active |-> 1, age |-> 0]

(* Shapes and ranges of the rows, the scheduler processes and the          *)
(* operator's command.                                                     *)
HealthTypeOK ==
    /\ rows \in 0 .. MaxSchedules
    /\ sched \in [Schedules -> Row]
    /\ proc \in [Schedulers -> Proc]
    /\ \A p \in Schedulers : proc[p].pc # "idle" => proc[p].due # {}
    /\ op \in Cmd
    /\ cmds \in 0 .. MaxCommands
    /\ faults \in 0 .. MaxFaults
    /\ gap \in [Schedules -> Ages]
    /\ lost \subseteq Schedules /\ want \subseteq Schedules /\ clob \subseteq Schedules

HealthInit ==
    /\ rows = 0
    /\ sched = [s \in Schedules |-> [active |-> 0, deleted |-> 0, age |-> 0]]
    /\ proc = [p \in Schedulers |-> IdleProc]
    /\ op = IdleCmd
    /\ cmds = 0
    /\ faults = 0
    /\ gap = [s \in Schedules |-> Interval]
    /\ lost = {} /\ want = {} /\ clob = {}

Exists(s) == s <= rows /\ sched[s].deleted = 0

(* The list is worked through in its order, that of created_at.            *)
Cur(p) == Min(proc[p].due)

Holds(p, s) == s \in proc[p].due

(* S with x in it if b, and without it otherwise.                          *)
Put(S, x, b) == IF b THEN S \cup {x} ELSE S \ {x}

Fault == faults < MaxFaults /\ faults' = faults + 1

ProcAt(p, pc) == proc[p].pc = pc

Go(p, pc) == proc' = [proc EXCEPT ![p].pc = pc]

Command == op.pc = "idle" /\ cmds < MaxCommands /\ cmds' = cmds + 1

-----------------------------------------------------------------------------
(* The clock *)

(* One unit of time: everything that is a distance to now grows by one.    *)
Clock ==
    /\ sched' = [s \in Schedules |-> [sched[s] EXCEPT !.age = Older(@)]]
    /\ proc' = [p \in Schedulers |->
                  IF ProcAt(p, "idle") THEN proc[p]
                  ELSE [proc[p] EXCEPT !.since = Older(@)]]
    /\ op' = IF op.pc = "write" THEN [op EXCEPT !.age = Older(@)] ELSE op
    /\ gap' = [s \in Schedules |-> Older(gap[s])]
    /\ <<sched, proc, op, gap>>' # <<sched, proc, op, gap>>
    /\ UNCHANGED <<rows, cmds, faults, lost, want, clob>>

-----------------------------------------------------------------------------
(* The scheduler *)

(* The rows listActive returns that are due: dueSchedules.                 *)
DueSchedules ==
    {s \in Schedules : Exists(s) /\ sched[s].active = 1 /\ sched[s].age >= Interval}

(* A tick begins: the clock is read and the due rows listed.               *)
TickBegin(p) ==
    /\ ProcAt(p, "idle")
    /\ DueSchedules # {}
    /\ proc' = [proc EXCEPT ![p] = Invoking(DueSchedules, 0)]
    /\ UNCHANGED <<rows, sched, op, cmds, faults, gap, lost, want, clob>>

(* The next due schedule, or the end of the tick.                          *)
NextDue(p) ==
    LET rest == proc[p].due \ {Cur(p)}
    IN  proc' = [proc EXCEPT ![p] =
                   IF rest = {} THEN IdleProc
                   ELSE Invoking(rest, proc[p].since)]

(* A probe of s by p has started: s was last probed by p's tick, or by a   *)
(* younger one.                                                            *)
Probed(p) == gap' = [gap EXCEPT ![Cur(p)] = IF proc[p].since < @ THEN proc[p].since ELSE @]

(* opts.invoke answers: runHealthCheck found the target, its active        *)
(* deployment and its VM, probed it and appended the health_check rows.    *)
RunHealthCheck(p) ==
    /\ ProcAt(p, "invoke")
    /\ \E reachable \in BOOLEAN, probesPass \in BOOLEAN :
         proc' = [proc EXCEPT ![p].pc = "read",
                              ![p].out = IF reachable /\ probesPass THEN "pass" ELSE "fail"]
    /\ Probed(p)
    /\ UNCHANGED <<rows, sched, op, cmds, faults, lost, want, clob>>

(* opts.invoke throws: no target, no active deployment, no VM, or a        *)
(* health_check row that could not be appended.                            *)
InvokeThrows(p) ==
    /\ ProcAt(p, "invoke")
    /\ Go(p, "readAgain")
    /\ Probed(p)
    /\ UNCHANGED <<rows, sched, op, cmds, faults, lost, want, clob>>

(* healthSchedules.update: the read.  A row removed since throws.          *)
UpdateRead(p) ==
    /\ ProcAt(p, "read") \/ ProcAt(p, "readAgain")
    /\ Exists(Cur(p))
    /\ proc' = [proc EXCEPT ![p].pc = IF @ = "read" THEN "write" ELSE "writeAgain",
                            ![p].active = sched[Cur(p)].active]
    /\ UNCHANGED <<rows, sched, op, cmds, faults, gap, lost, want, clob>>

(* healthSchedules.update: the write of the whole row, which does not look *)
(* at deleted_at again.                                                    *)
WriteWatermark(p) ==
    LET s == Cur(p)
    IN  /\ sched' = [sched EXCEPT ![s].age = proc[p].since,
                              ![s].active = proc[p].active]
        /\ lost' = Put(lost, s, proc[p].since # gap[s])
        /\ clob' = IF proc[p].active # sched[s].active THEN clob \cup {s} ELSE clob

(* The emits and the test of the outcome that follow the watermark.        *)
OutcomeEvents(p) ==
    {"health-tick"} \cup (IF proc[p].out = "fail" THEN {"health-failed"} ELSE {})

UpdateWrite(p) ==
    /\ ProcAt(p, "write")
    /\ WriteWatermark(p)
    /\ proc' = [proc EXCEPT ![p].pc = "audit", ![p].active = 1,
                            ![p].said = @ \cup OutcomeEvents(p)]
    /\ UNCHANGED <<rows, op, cmds, faults, gap, want>>

(* An update that throws: into the catch block.                            *)
UpdateFails(p) ==
    /\ \/ ProcAt(p, "read") /\ ~Exists(Cur(p)) /\ UNCHANGED faults
       \/ ProcAt(p, "read") /\ Fault
       \/ ProcAt(p, "write") /\ Fault
    /\ Go(p, "readAgain")
    /\ UNCHANGED <<rows, sched, op, cmds, gap, lost, want, clob>>

(* The audit entry of a run; its failure goes to the catch block too.      *)
AuditOutcome(p) ==
    /\ ProcAt(p, "audit")
    /\ \/ NextDue(p) /\ UNCHANGED faults
       \/ Go(p, "readAgain") /\ Fault
    /\ UNCHANGED <<rows, sched, op, cmds, gap, lost, want, clob>>

(* Mutant: the catch block only reports.                                   *)
CatchWriteReportsOnly(p) ==
    /\ ProcAt(p, "writeAgain")
    /\ proc' = [proc EXCEPT ![p].pc = "auditError", ![p].active = 1,
                            ![p].said = @ \cup {"schedule-error"}]
    /\ UNCHANGED <<rows, sched, op, cmds, faults, gap, lost, want, clob>>

(* The catch block's watermark: written, or given up.                      *)
CatchWrite(p) ==
    /\ ProcAt(p, "writeAgain")
    /\ WriteWatermark(p)
    /\ proc' = [proc EXCEPT ![p].pc = "auditError", ![p].active = 1,
                            ![p].said = @ \cup {"schedule-error"}]
    /\ UNCHANGED <<rows, op, cmds, faults, gap, want>>

CatchGivesUp(p) ==
    /\ \/ ProcAt(p, "readAgain") /\ ~Exists(Cur(p)) /\ UNCHANGED faults
       \/ ProcAt(p, "readAgain") /\ Fault
       \/ ProcAt(p, "writeAgain") /\ Fault
    /\ proc' = [proc EXCEPT ![p].pc = "auditError", ![p].active = 1,
                            ![p].said = @ \cup {"schedule-error"}]
    /\ lost' = lost \cup {Cur(p)}
    /\ UNCHANGED <<rows, sched, op, cmds, gap, want, clob>>

(* Mutant: an error ends the tick.                                         *)
AuditErrorEndsTick(p) ==
    /\ ProcAt(p, "auditError")
    /\ proc' = [proc EXCEPT ![p] = IdleProc]
    /\ UNCHANGED <<rows, sched, op, cmds, faults, gap, lost, want, clob>>

(* The catch block's audit entry, whose failure is swallowed.              *)
AuditError(p) ==
    /\ ProcAt(p, "auditError")
    /\ NextDue(p)
    /\ UNCHANGED <<rows, sched, op, cmds, faults, gap, lost, want, clob>>

(* The process is killed.                                                  *)
Crash(p) ==
    /\ ~ProcAt(p, "idle")
    /\ Fault
    /\ proc' = [proc EXCEPT ![p] = IdleProc]
    /\ lost' = lost \cup {Cur(p)}
    /\ UNCHANGED <<rows, sched, op, cmds, gap, want, clob>>

-----------------------------------------------------------------------------
(* The operator *)

(* runScheduleAdd; a schedule may be added inactive.                       *)
ScheduleAdd(active) ==
    /\ Command
    /\ rows < MaxSchedules
    /\ rows' = rows + 1
    /\ sched' = [sched EXCEPT ![rows'] = [active |-> active, deleted |-> 0, age |-> 0]]
    /\ want' = Put(want, rows', active = 1)
    /\ UNCHANGED <<proc, op, faults, gap, lost, clob>>

(* runScheduleEnable and runScheduleDisable: update's read ...             *)
SetActiveRead(s, active) ==
    /\ Command
    /\ Exists(s)
    /\ op' = [pc |-> "write", id |-> s, active |-> active, age |-> sched[s].age]
    /\ UNCHANGED <<rows, sched, proc, faults, gap, lost, want, clob>>

(* ... and its write, with the last_run_at it read.                        *)
SetActiveWrite ==
    /\ op.pc = "write"
    /\ sched' = [sched EXCEPT ![op.id].active = op.active, ![op.id].age = op.age]
    /\ lost' = IF op.age # sched[op.id].age THEN lost \cup {op.id} ELSE lost
    /\ clob' = clob \ {op.id}
    /\ want' = Put(want, op.id, op.active = 1)
    /\ op' = IdleCmd
    /\ UNCHANGED <<rows, proc, cmds, faults, gap>>

(* runScheduleRemove: softDelete.                                          *)
ScheduleRemove(s) ==
    /\ Command
    /\ Exists(s)
    /\ sched' = [sched EXCEPT ![s].deleted = 1]
    /\ UNCHANGED <<rows, proc, op, faults, gap, lost, want, clob>>

-----------------------------------------------------------------------------
SchedulerStep(p) ==
    \/ TickBegin(p)
    \/ RunHealthCheck(p)
    \/ InvokeThrows(p)
    \/ UpdateRead(p)
    \/ UpdateWrite(p)
    \/ UpdateFails(p)
    \/ AuditOutcome(p)
    \/ CatchWrite(p)
    \/ CatchGivesUp(p)
    \/ AuditError(p)

OperatorStep ==
    \/ \E active \in Flag : ScheduleAdd(active)
    \/ \E s \in Schedules, active \in Flag : SetActiveRead(s, active)
    \/ SetActiveWrite
    \/ \E s \in Schedules : ScheduleRemove(s)

HealthNext ==
    \/ Clock
    \/ OperatorStep
    \/ \E p \in Schedulers : SchedulerStep(p) \/ Crash(p)

(* The loop of `schedule start` takes its next step and the clock runs;    *)
(* nothing is assumed of the other schedulers or of the operator.          *)
HealthFairness == WF_healthVars(Clock) /\ WF_healthVars(SchedulerStep(Daemon))

HealthSpec == HealthInit /\ [][HealthNext]_healthVars /\ HealthFairness

-----------------------------------------------------------------------------
(* Properties *)

(* p lists s in this step.                                                 *)
Lists(p, s) == ProcAt(p, "idle") /\ s \in proc'[p].due

(* A schedule is not listed again within its interval of the tick that     *)
(* last probed it, whatever the probe, the audit log or the storage did -  *)
(* except while another scheduler still holds it, or after a crash, a      *)
(* double write error or a write from an older read took the watermark     *)
(* away.  In particular a schedule whose invoke throws on every tick does  *)
(* not burn every tick.                                                    *)
NoEarlyRun ==
    [][\A p \in Schedulers, s \in Schedules :
         Lists(p, s) => \/ gap[s] >= Interval
                        \/ s \in lost
                        \/ \E q \in Schedulers \ {p} : Holds(q, s)]_healthVars

(* A schedule the operator removed, or was told is disabled, is in no tick *)
(* that begins afterwards - except that a scheduler between the read and   *)
(* the write of its watermark puts a disabled schedule back.               *)
StoppedStaysStopped ==
    [][\A p \in Schedulers, s \in Schedules :
         Lists(p, s) => Exists(s) /\ s \in want \cup clob]_healthVars

(* A tick takes up a schedule only when it is due and wanted.              *)
ListedWhenDue == NoEarlyRun /\ StoppedStaysStopped

(* No outcome is dropped: a scheduler that goes on from a schedule has     *)
(* emitted health-failed for a failed probe, or schedule-error when        *)
(* invoking, writing or auditing failed; and health-failed only after a    *)
(* failed probe.                                                           *)
OutcomeReported ==
    [][\A p \in Schedulers :
         (proc[p].due # {} /\ proc'[p].due = proc[p].due \ {Cur(p)} /\ faults' = faults)
           => /\ proc[p].out = "fail" => proc[p].said \cap {"health-failed", "schedule-error"} # {}
              /\ proc[p].said # {}
              /\ "health-failed" \in proc[p].said => proc[p].out = "fail"]_healthVars

(* A tick takes up what is due and wanted, and reports what came of it.    *)
TickIsSound == ListedWhenDue /\ OutcomeReported

(* As long as a schedule stays enabled it is probed again and again: no    *)
(* other schedule, probe that throws or crash that is recovered from       *)
(* starves it.                                                             *)
KeepsProbing ==
    \A s \in Schedules :
        <>[](Exists(s) /\ sched[s].active = 1)
            => []<>(\E p \in Schedulers : ProcAt(p, "invoke") /\ Cur(p) = s)

=============================================================================
