---------------------------- MODULE RunnerFleet ----------------------------
(***************************************************************************)
(* The runner registry and runner deployment, for one runner name on one   *)
(* host: worker processes and their heartbeats on the way to the control   *)
(* plane, the runner table on either storage driver, deregistration, and   *)
(* runRunnerDeploy, which installs a runner over a transport and then      *)
(* waits until the name's heartbeat is fresh.                              *)
(*                                                                         *)
(* The SQLite driver runs a heartbeat's statements in one synchronous      *)
(* step; the PostgreSQL driver awaits each, so others come in between.     *)
(* A heartbeat outlives the process that sent it.                          *)
(***************************************************************************)
EXTENDS Integers

CONSTANTS
    Deploys,    \* runRunnerDeploy calls
    Earlier,    \* what runners that were there before run
    Wait,       \* waitTimeoutMs, in clock ticks
    MaxProcs,   \* bound: processes ever started
    MaxRows,    \* bound: rows ever inserted
    MaxTime,    \* bound: the clock
    MaxLosses   \* bound: heartbeats lost on the way

ASSUME RunnerFleetAssumption ==
    /\ Earlier \notin Deploys
    /\ Wait \in Nat \ {0}
    /\ MaxProcs \in Nat /\ MaxRows \in Nat
    /\ MaxTime \in Nat /\ MaxLosses \in Nat

Procs   == 1..MaxProcs
Ids     == 1..MaxRows       \* runner.id, in order of insertion
None    == 0
Times   == 0..MaxTime
Sources == Deploys \cup {Earlier}
Nothing == {}               \* no binary, no container

VARIABLES
    driver,     \* which storage driver the control plane runs on
    now,        \* the clock
    row,        \* table runner
    started,    \* processes started so far
    up,         \* processes that run
    kind,       \* what supervises a process
    bin,        \* what a process runs
    beat,       \* a process's heartbeat: on its way, or half served
    disk,       \* ~/.local/bin/signalman-runner and runner.yaml
    unit,       \* the systemd unit is installed
    container,  \* the container signalman-runner-<name>
    dep,        \* the deploys
    dereg,      \* the row a deregistration has looked up
    losses,     \* history: heartbeats lost
    others,     \* history: deploys that had another runner beside them
    heard,      \* history: deploys whose runner had a heartbeat stored
    retired     \* history: deregistered, nothing started since

hostVars == <<started, up, kind, bin, disk, unit, container>>
histVars == <<losses, others, heard, retired>>
vars == <<driver, now, row, hostVars, beat, dep, dereg, histVars>>

NoBeat == [at |-> "none", time |-> 0, saw |-> None, deleted |-> FALSE]
NoRow  == [state |-> "none", seen |-> 0]

Stages == {"idle", "install", "config", "service", "pull", "remove", "run",
           "emit", "wait", "emitted", "failed", "verified", "unverified"}
Ended  == {"emitted", "failed", "verified", "unverified"}

TypeOK ==
    /\ driver \in {"sqlite", "postgres"}
    /\ now \in Times
    /\ row \in [Ids -> [state : {"none", "active", "deleted"},
                        seen : Times]]
    /\ started \in 0..MaxProcs
    /\ up \subseteq 1..started
    /\ kind \in [Procs -> {"hand", "unit", "container"}]
    /\ bin \in [Procs -> Sources]
    /\ beat \in [Procs -> [at : {"none", "sent", "read"}, time : Times,
                           saw : Ids \cup {None}, deleted : BOOLEAN]]
    /\ disk \in {Nothing} \cup {{b} : b \in Sources}
    /\ unit \in BOOLEAN
    /\ container \in {Nothing} \cup {{b} : b \in Sources}
    /\ dep \in [Deploys -> [at : Stages, start : Times, since : Times]]
    /\ dereg \in Ids \cup {None}
    /\ losses \in 0..MaxLosses
    /\ others \subseteq Deploys
    /\ heard \subseteq Deploys
    /\ retired \in BOOLEAN

Init ==
    /\ driver \in {"sqlite", "postgres"}
    /\ now = 0
    /\ row = [i \in Ids |-> NoRow]
    /\ started = 0
    /\ up = {}
    /\ kind = [p \in Procs |-> "hand"]
    /\ bin = [p \in Procs |-> Earlier]
    /\ beat = [p \in Procs |-> NoBeat]
    /\ disk \in {Nothing, {Earlier}}
    /\ unit = (disk # Nothing)
    /\ container \in {Nothing, {Earlier} \ disk}
    /\ dep = [d \in Deploys |-> [at |-> "idle", start |-> 0, since |-> 0]]
    /\ dereg = None
    /\ losses = 0
    /\ others = {}
    /\ heard = {}
    /\ retired = FALSE

Active    == {i \in Ids : row[i].state = "active"}
Inserted  == {i \in Ids : row[i].state # "none"}
InFlight  == {p \in Procs : beat[p].at # "none"}
Deploying == {d \in Deploys : dep[d].at \notin Ended \cup {"idle"}}
Supervised(k) == {p \in up : kind[p] = k}

-----------------------------------------------------------------------------
(***************************************************************************)
(* Worker processes.                                                       *)
(***************************************************************************)

\* One more process of kind k that runs b.
Start(k, b) ==
    /\ started < MaxProcs
    /\ started' = started + 1
    /\ up' = up \cup {started + 1}
    /\ kind' = [kind EXCEPT ![started + 1] = k]
    /\ bin' = [bin EXCEPT ![started + 1] = b]
    /\ others' = others \cup (Deploying \ {b})
    /\ retired' = FALSE

\* The operator runs the script a deploy has emitted.
StartByHand(d) ==
    /\ dep[d].at = "emitted"
    /\ Start("hand", d)
    /\ UNCHANGED <<driver, now, row, beat, disk, unit, container, dep, dereg,
                   losses, heard>>

\* A worker stops, or crashes; its heartbeat in flight does not come back.
Stop(p) ==
    /\ p \in up
    /\ up' = up \ {p}
    /\ UNCHANGED <<driver, now, row, started, kind, bin, beat, disk, unit,
                   container, dep, dereg, histVars>>

\* Restart=on-failure of the unit, --restart on-failure of the container.
Respawn ==
    /\ \/ unit /\ Supervised("unit") = {} /\ \E d \in disk : Start("unit", d)
       \/ Supervised("container") = {}
            /\ \E d \in container : Start("container", d)
    /\ UNCHANGED <<driver, now, row, beat, disk, unit, container, dep, dereg,
                   losses, heard>>

\* runHeartbeatLoop: the next one is sent when the last one was answered.
Send(p) ==
    /\ p \in up
    /\ beat[p].at = "none"
    /\ beat' = [beat EXCEPT ![p].at = "sent"]
    /\ UNCHANGED <<driver, now, row, hostVars, dep, dereg, histVars>>

\* postRunnerHeartbeat throws; the loop goes on.
Lose(p) ==
    /\ beat[p].at = "sent"
    /\ losses < MaxLosses
    /\ losses' = losses + 1
    /\ beat' = [beat EXCEPT ![p] = NoBeat]
    /\ UNCHANGED <<driver, now, row, hostVars, dep, dereg, others, heard,
                   retired>>

-----------------------------------------------------------------------------
(***************************************************************************)
(* RunnerRepo.heartbeat.                                                   *)
(***************************************************************************)

\* ORDER BY deleted_at IS NULL DESC, last_seen_at DESC LIMIT 1
Lookup ==
    LET pool == IF Active # {} THEN Active ELSE Inserted
    IN  {i \in pool : \A j \in pool : row[j].seen <= row[i].seen}

\* Mutant: a row that comes back keeps its deleted_at.
WriteKeepsDeleted(saw, deleted, t) ==
    IF saw # None
      THEN row' = [row EXCEPT ![saw].seen = t]
      ELSE /\ Active = {}
           /\ \E i \in Ids \ Inserted :
                /\ \A j \in Ids \ Inserted : i <= j
                /\ row' = [row EXCEPT ![i] =
                             [state |-> "active", seen |-> t]]

\* Mutant: a first sighting is inserted whatever the index says.
WriteTwice(saw, deleted, t) ==
    IF saw # None
      THEN row' = [row EXCEPT ![saw] =
             [state |-> IF deleted THEN "active" ELSE @.state, seen |-> t]]
      ELSE \E i \in Ids \ Inserted :
             /\ \A j \in Ids \ Inserted : i <= j
             /\ row' = [row EXCEPT ![i] =
                          [state |-> "active", seen |-> t]]

\* The statement after the lookup: update, resurrect or insert.  The unique
\* index on the active name refuses a second active row.
Write(saw, deleted, t) ==
    IF saw # None
      THEN /\ deleted => Active \subseteq {saw}
           /\ row' = [row EXCEPT ![saw] =
                [state |-> IF deleted THEN "active" ELSE @.state, seen |-> t]]
      ELSE /\ Active = {}
           /\ \E i \in Ids \ Inserted :
                /\ \A j \in Ids \ Inserted : i <= j
                /\ row' = [row EXCEPT ![i] =
                             [state |-> "active", seen |-> t]]

\* The answer to p; ok: its heartbeat is stored.
Answer(p, ok) ==
    /\ beat' = [beat EXCEPT ![p] = NoBeat]
    /\ heard' = heard \cup {d \in Deploys : ok /\ bin[p] = d}
    /\ UNCHANGED <<driver, now, hostVars, dep, dereg, losses, others, retired>>

SqliteHeartbeat(p) ==
    /\ driver = "sqlite"
    /\ beat[p].at = "sent"
    /\ \/ Lookup = {} /\ Write(None, FALSE, now)
       \/ \E i \in Lookup : Write(i, row[i].state = "deleted", now)
    /\ Answer(p, TRUE)

PgLookup(p) ==
    /\ driver = "postgres"
    /\ beat[p].at = "sent"
    /\ LET found(i, del) == beat' = [beat EXCEPT ![p] =
             [at |-> "read", time |-> now, saw |-> i, deleted |-> del]]
       IN  \/ Lookup = {} /\ found(None, FALSE)
           \/ \E i \in Lookup : found(i, row[i].state = "deleted")
    /\ UNCHANGED <<driver, now, row, hostVars, dep, dereg, histVars>>

\* A refused statement is an error answer to the worker.
PgWrite(p) ==
    /\ beat[p].at = "read"
    /\ \/ /\ Write(beat[p].saw, beat[p].deleted, beat[p].time)
          /\ Answer(p, TRUE)
       \/ /\ Active \ {beat[p].saw} # {}
          /\ beat[p].saw = None \/ beat[p].deleted
          /\ UNCHANGED row
          /\ Answer(p, FALSE)

-----------------------------------------------------------------------------
(***************************************************************************)
(* runRunnerDeregister and DELETE /v1/runners/:id: look up, then delete.   *)
(***************************************************************************)

DeregisterFind ==
    /\ dereg = None
    /\ \E i \in Active : dereg' = i
    /\ UNCHANGED <<driver, now, row, hostVars, beat, dep, histVars>>

\* softDelete only finds a row that is still active.
DeregisterDelete ==
    /\ dereg # None
    /\ dereg' = None
    /\ \/ /\ dereg \in Active
          /\ row' = [row EXCEPT ![dereg].state = "deleted"]
          /\ retired' = (up = {} /\ InFlight = {})
       \/ /\ dereg \notin Active
          /\ UNCHANGED <<row, retired>>
    /\ UNCHANGED <<driver, now, hostVars, beat, dep, losses, others, heard>>

-----------------------------------------------------------------------------
(***************************************************************************)
(* runRunnerDeploy.  Every remote command may fail, which ends the deploy. *)
(***************************************************************************)

DeployStart(d, first) ==
    /\ dep[d].at = "idle"
    /\ dep' = [dep EXCEPT ![d] = [at |-> first, start |-> now, since |-> 0]]
    /\ others' = others \cup {x \in {d} : \/ up \cup InFlight # {}
                                        \/ \E i \in Active : row[i].seen = now}
    /\ UNCHANGED <<driver, now, row, hostVars, beat, dereg, losses, heard,
                   retired>>

At(d, stage)   == dep[d].at = stage
Goto(d, stage) == dep' = [dep EXCEPT ![d].at = stage]

\* waitForRunnerHeartbeat starts its own deadline.
StartWaiting(d) == dep' = [dep EXCEPT ![d].at = "wait", ![d].since = now]

CommandFails(d) ==
    /\ dep[d].at \in {"install", "config", "service", "pull", "run"}
    /\ Goto(d, "failed")
    /\ UNCHANGED <<driver, now, row, hostVars, beat, dereg, histVars>>

\* curl, checksum, mv.
SshInstall(d) ==
    /\ At(d, "install")
    /\ disk' = {d}
    /\ Goto(d, "config")
    /\ UNCHANGED <<driver, now, row, started, up, kind, bin, unit, container,
                   beat, dereg, histVars>>

SshConfig(d) ==
    /\ At(d, "config")
    /\ Goto(d, "service")
    /\ UNCHANGED <<driver, now, row, hostVars, beat, dereg, histVars>>

\* systemctl enable --now leaves a unit that runs already alone.
SshService(d) ==
    /\ At(d, "service")
    /\ unit' = TRUE
    /\ StartWaiting(d)
    /\ IF Supervised("unit") = {}
         THEN \E b \in disk : Start("unit", b)
         ELSE UNCHANGED <<started, up, kind, bin, others, retired>>
    /\ UNCHANGED <<driver, now, row, disk, container, beat, dereg, losses,
                   heard>>

DockerPull(d) ==
    /\ At(d, "pull")
    /\ Goto(d, "remove")
    /\ UNCHANGED <<driver, now, row, hostVars, beat, dereg, histVars>>

\* docker rm -f; its exit code is not looked at.
DockerRemove(d) ==
    /\ At(d, "remove")
    /\ Goto(d, "run")
    /\ \/ container' = Nothing /\ up' = up \ Supervised("container")
       \/ UNCHANGED <<container, up>>
    /\ UNCHANGED <<driver, now, row, started, kind, bin, disk, unit, beat,
                   dereg, histVars>>

\* docker run --name fails while the name is taken.
DockerRun(d) ==
    /\ At(d, "run")
    /\ container = Nothing
    /\ container' = {d}
    /\ StartWaiting(d)
    /\ Start("container", d)
    /\ UNCHANGED <<driver, now, row, disk, unit, beat, dereg, losses, heard>>

\* The script transport writes a script and does not wait.
ScriptEmit(d) ==
    /\ At(d, "emit")
    /\ Goto(d, "emitted")
    /\ UNCHANGED <<driver, now, row, hostVars, beat, dereg, histVars>>

\* Mutant: any row of the name verifies the deploy.
PollAny(d) ==
    /\ At(d, "wait")
    /\ now < dep[d].since + Wait
    /\ Active # {}
    /\ Goto(d, "verified")
    /\ UNCHANGED <<driver, now, row, hostVars, beat, dereg, histVars>>

\* listForOrg, and a row of the name seen since the bootstrap began.
Poll(d) ==
    /\ At(d, "wait")
    /\ now < dep[d].since + Wait
    /\ \E i \in Active : row[i].seen >= dep[d].start
    /\ Goto(d, "verified")
    /\ UNCHANGED <<driver, now, row, hostVars, beat, dereg, histVars>>

GiveUp(d) ==
    /\ At(d, "wait")
    /\ now >= dep[d].since + Wait
    /\ Goto(d, "unverified")
    /\ UNCHANGED <<driver, now, row, hostVars, beat, dereg, histVars>>

Tick ==
    /\ now < MaxTime
    /\ now' = now + 1
    /\ UNCHANGED <<driver, row, hostVars, beat, dep, dereg, histVars>>

Deploy(d) ==
    \/ \E first \in {"install", "pull", "emit"} : DeployStart(d, first)
    \/ CommandFails(d) \/ SshInstall(d) \/ SshConfig(d) \/ SshService(d)
    \/ DockerPull(d) \/ DockerRemove(d) \/ DockerRun(d) \/ ScriptEmit(d)
    \/ Poll(d) \/ GiveUp(d)

Serve(p) == SqliteHeartbeat(p) \/ PgLookup(p) \/ PgWrite(p)

Next ==
    \/ \E d \in Deploys : StartByHand(d) \/ Deploy(d)
    \/ \E p \in Procs : Stop(p) \/ Send(p) \/ Lose(p) \/ Serve(p)
    \/ Respawn
    \/ DeregisterFind \/ DeregisterDelete
    \/ Tick

\* The heartbeat loop of a running worker goes on, and the control plane
\* answers what it receives.
Fairness == \A p \in Procs : WF_vars(Send(p)) /\ WF_vars(Serve(p))

Spec == Init /\ [][Next]_vars /\ Fairness

-----------------------------------------------------------------------------
(***************************************************************************)
(* Correctness.                                                            *)
(***************************************************************************)

\* heartbeat-wait.ts, "a successfully running signal": the heartbeat that
\* verifies a deploy came from what it installed, when no other runner of the
\* name was up or starting, and none of its heartbeats was on the way or
\* stored in the millisecond the deploy began.
VerifiedIsNew ==
    \A d \in Deploys \ others : dep[d].at = "verified" => d \in heard

\* A runner that was deregistered when nothing of its name ran and nothing
\* was on the way stays off the list until a process starts, whichever row a
\* race had left behind.
RetiredStaysGone == retired => Active = {}

\* A worker that stays up is listed in the end, after a deregistration and
\* after any refused heartbeat.
RunningIsListed ==
    \A p \in Procs : p \in up ~> (p \notin up \/ Active # {})
=============================================================================
