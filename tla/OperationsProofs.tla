-------------------------- MODULE OperationsProofs --------------------------
(***************************************************************************)
(* Proofs about the three components that work beside the releases: the    *)
(* runner registry with runner deployment (RunnerFleet), cloud             *)
(* provisioning with its reaper (Cloud) and the health scheduler (Health). *)
(* They share no state; each part proves an inductive invariant of its     *)
(* component's specification, for all values of its constants, and draws   *)
(* the component's properties from it.                                     *)
(***************************************************************************)
EXTENDS RunnerFleet, Cloud, Health, FiniteSetTheorems, WellFoundedInduction, TLAPS

(***************************************************************************)
(* The runner registry and runner deployment, for any number of deploys,   *)
(* processes and rows, on either storage driver.                           *)
(***************************************************************************)


\* The unique index on the active name: however the statements of two
\* heartbeats and a deregistration interleave, one row is active at most.
OneActive == \A i, j \in Active : i = j

\* Nothing on the way is from the future, and only processes that were
\* started beat.
Timely ==
    /\ \A i \in Ids : row[i].seen <= now
    /\ \A p \in Procs : beat[p].time <= now
    /\ \A p \in InFlight : p <= started

\* After a deregistration with nothing up and nothing on the way, nothing can
\* write the table before a process starts.
RetiredIsQuiet == retired => up = {} /\ InFlight = {} /\ Active = {}

\* A deploy that had no other runner beside it: all that runs and all that is
\* on the way is its own, so that a row seen since it began was its runner's.
AloneIsHeard ==
    \A d \in Deploying \ others :
        /\ \A p \in up \cup InFlight : bin[p] = d
        /\ \A i \in Active : row[i].seen >= dep[d].start => d \in heard

IInv ==
    /\ TypeOK /\ OneActive /\ Timely /\ RetiredIsQuiet /\ AloneIsHeard
    /\ VerifiedIsNew

-----------------------------------------------------------------------------

\* Start keeps the types of the host's state.
LEMMA StartTypes ==
    ASSUME TypeOK, NEW k \in {"hand", "unit", "container"}, NEW b \in Sources,
           Start(k, b)
    PROVE  /\ started' \in 0..MaxProcs
           /\ up' \subseteq 1..started'
           /\ kind' \in [Procs -> {"hand", "unit", "container"}]
           /\ bin' \in [Procs -> Sources]
           /\ others' \subseteq Deploys
           /\ retired' \in BOOLEAN
<1>1. started + 1 \in Procs /\ started' = started + 1
  BY RunnerFleetAssumption DEF TypeOK, Start, Procs
<1>2. up' \subseteq 1..started'
  BY <1>1 DEF TypeOK, Start
<1>3. others' \subseteq Deploys
  BY DEF TypeOK, Start, Deploying
<1>4. /\ kind' \in [Procs -> {"hand", "unit", "container"}]
      /\ bin' \in [Procs -> Sources]
  BY <1>1 DEF TypeOK, Start
<1>5. started' \in 0..MaxProcs
  BY <1>1 DEF Procs
<1> QED BY <1>2, <1>3, <1>4, <1>5 DEF Start

\* Whatever the lookup had seen, the statement after it leaves one active
\* row at most and no time later than the clock.
LEMMA WriteEffect ==
    ASSUME TypeOK, OneActive, Timely, NEW saw \in Ids \cup {None},
           NEW deleted \in BOOLEAN, NEW t \in Times, t <= now,
           Write(saw, deleted, t)
    PROVE  /\ row' \in [Ids -> [state : {"none", "active", "deleted"},
                                seen : Times]]
           /\ OneActive'
           /\ \A i \in Ids : row'[i].seen <= now
<1>1. CASE saw # None
  <2>1. PICK s \in {"none", "active", "deleted"} :
          /\ row' = [row EXCEPT ![saw] = [state |-> s, seen |-> t]]
          /\ s = "active" => Active \subseteq {saw}
    BY <1>1 DEF Write, TypeOK, OneActive, Active
  <2> QED BY <1>1, <2>1 DEF TypeOK, OneActive, Timely, Active
<1>2. CASE saw = None
  BY <1>2 DEF Write, TypeOK, OneActive, Timely, Active, Inserted
<1> QED BY <1>1, <1>2

\* An answered heartbeat leaves the other ones as they were.
LEMMA BeatTypes ==
    ASSUME TypeOK, NEW p \in Procs, beat' = [beat EXCEPT ![p] = NoBeat]
    PROVE  /\ beat' \in [Procs -> [at : {"none", "sent", "read"}, time : Times,
                                  saw : Ids \cup {None}, deleted : BOOLEAN]]
           /\ \A q \in Procs : beat'[q].at # "none" => beat'[q] = beat[q]
           /\ \A q \in Procs : beat'[q].time \in {0, beat[q].time}
  BY RunnerFleetAssumption DEF TypeOK, NoBeat, Times

LEMMA StartByHandKeeps ==
    ASSUME IInv, NEW d \in Deploys, StartByHand(d)
    PROVE  IInv'
<1>1. TypeOK'
  BY StartTypes DEF IInv, TypeOK, StartByHand, Sources
<1>2. OneActive'
  BY DEF IInv, OneActive, Active, StartByHand
<1>3. Timely'
  BY DEF IInv, TypeOK, Timely, InFlight, Procs, StartByHand, Start
<1>4. RetiredIsQuiet'
  BY DEF IInv, RetiredIsQuiet, StartByHand, Start
<1>5. AloneIsHeard'
  BY DEF IInv, AloneIsHeard, Deploying, Ended, StartByHand, Start
<1>6. VerifiedIsNew'
  BY DEF IInv, VerifiedIsNew, StartByHand, Start
<1> QED BY <1>1, <1>2, <1>3, <1>4, <1>5, <1>6 DEF IInv

LEMMA StopKeeps ==
    ASSUME IInv, NEW p \in Procs, Stop(p)
    PROVE  IInv'
<1>1. TypeOK'
  BY DEF IInv, TypeOK, Stop, histVars
<1>2. OneActive'
  BY DEF IInv, OneActive, Active, Stop
<1>3. Timely'
  BY DEF IInv, Timely, InFlight, Stop
<1>4. RetiredIsQuiet'
  BY DEF IInv, RetiredIsQuiet, Stop, histVars
<1>5. AloneIsHeard'
  BY DEF IInv, AloneIsHeard, InFlight, Active, Deploying, Stop, histVars
<1>6. VerifiedIsNew'
  BY DEF IInv, VerifiedIsNew, Stop, histVars
<1> QED BY <1>1, <1>2, <1>3, <1>4, <1>5, <1>6 DEF IInv

LEMMA RespawnKeeps ==
    ASSUME IInv, Respawn
    PROVE  IInv'
<1>1. TypeOK' /\ AloneIsHeard'
  <2>1. PICK k \in {"unit", "container"}, b \in Sources : Start(k, b)
    BY DEF IInv, TypeOK, Respawn, Nothing
  <2>2. TypeOK'
    BY <2>1, StartTypes DEF IInv, TypeOK, Respawn
  <2>3. AloneIsHeard'
    BY <2>1, RunnerFleetAssumption DEF IInv, TypeOK, Respawn, Start,
       AloneIsHeard, InFlight, Active, Deploying, Procs
  <2> QED BY <2>2, <2>3
<1>2. OneActive'
  BY DEF IInv, OneActive, Active, Respawn
<1>3. Timely'
  BY DEF IInv, TypeOK, Timely, InFlight, Procs, Ids, Times, None, Respawn,
     Start
<1>4. RetiredIsQuiet'
  BY DEF IInv, RetiredIsQuiet, Respawn, Start
<1>5. VerifiedIsNew'
  BY DEF IInv, VerifiedIsNew, Respawn, Start
<1> QED BY <1>1, <1>2, <1>3, <1>4, <1>5 DEF IInv

LEMMA SendKeeps ==
    ASSUME IInv, NEW p \in Procs, Send(p)
    PROVE  IInv'
<1>1. TypeOK'
  BY RunnerFleetAssumption DEF IInv, TypeOK, Procs, Ids, Times, Sources,
     Nothing, None, Stages, Active, Inserted, Send, hostVars, histVars
<1>2. OneActive'
  BY DEF IInv, OneActive, Active, Send
<1>3. Timely'
  BY RunnerFleetAssumption DEF IInv, TypeOK, Timely, InFlight, Procs, Ids,
     Times, Active, Inserted, None, Send, hostVars, histVars
<1>4. RetiredIsQuiet'
  BY DEF IInv, RetiredIsQuiet, Send, histVars
<1>5. AloneIsHeard'
  BY DEF IInv, AloneIsHeard, InFlight, Active, Deploying, Send, hostVars,
     histVars
<1>6. VerifiedIsNew'
  BY DEF IInv, VerifiedIsNew, Send, histVars
<1> QED BY <1>1, <1>2, <1>3, <1>4, <1>5, <1>6 DEF IInv

LEMMA LoseKeeps ==
    ASSUME IInv, NEW p \in Procs, Lose(p)
    PROVE  IInv'
<1>1. TypeOK'
  <2>1. losses' \in 0..MaxLosses
    BY RunnerFleetAssumption DEF IInv, TypeOK, Lose
  <2> QED BY <2>1, BeatTypes DEF IInv, TypeOK, Lose, hostVars
<1>2. OneActive'
  BY DEF IInv, OneActive, Active, Lose
<1>3. Timely'
  BY DEF IInv, TypeOK, Timely, InFlight, Times, Lose, NoBeat, hostVars
<1>4. RetiredIsQuiet'
  BY DEF IInv, RetiredIsQuiet, InFlight, Lose
<1>5. AloneIsHeard'
  BY DEF IInv, AloneIsHeard, InFlight, Active, Deploying, Lose, hostVars
<1>6. VerifiedIsNew'
  BY DEF IInv, VerifiedIsNew, Lose
<1> QED BY <1>1, <1>2, <1>3, <1>4, <1>5, <1>6 DEF IInv

LEMMA SqliteHeartbeatKeeps ==
    ASSUME IInv, NEW p \in Procs, SqliteHeartbeat(p)
    PROVE  IInv'
<1>1. TypeOK' /\ OneActive' /\ Timely'
  <2>1. PICK saw \in Ids \cup {None}, deleted \in BOOLEAN :
          Write(saw, deleted, now)
    <3>1. CASE Write(None, FALSE, now) BY <3>1
    <3>2. CASE \E i \in Lookup : Write(i, row[i].state = "deleted", now)
      <4>1. PICK i \in Ids : Write(i, row[i].state = "deleted", now)
        BY <3>2 DEF Lookup, Active, Inserted
      <4> QED BY <4>1
    <3> QED BY <3>1, <3>2 DEF SqliteHeartbeat
  <2>2. /\ row' \in [Ids -> [state : {"none", "active", "deleted"},
                             seen : Times]]
        /\ OneActive'
        /\ \A i \in Ids : row'[i].seen <= now
    <3>1. now \in Times /\ now <= now BY DEF IInv, TypeOK, Times
    <3> QED BY <2>1, <3>1, WriteEffect DEF IInv
  <2>3. heard' \subseteq Deploys
    BY DEF IInv, TypeOK, SqliteHeartbeat, Answer
  <2>4. TypeOK'
    BY <2>2, <2>3, BeatTypes DEF IInv, TypeOK, SqliteHeartbeat, Answer,
       hostVars
  <2>5. Timely'
    <3>1. \A q \in Procs : beat'[q].time <= now
      <4>1. \A q \in Procs : beat'[q].time \in {0, beat[q].time}
        BY BeatTypes DEF IInv, SqliteHeartbeat, Answer
      <4>2. now \in Nat /\ \A q \in Procs : beat[q].time <= now
        BY DEF IInv, TypeOK, Timely, Times
      <4> QED BY <4>1, <4>2
    <3>2. \A q \in InFlight' : q \in InFlight
      BY DEF IInv, SqliteHeartbeat, Answer, InFlight
    <3> QED BY <2>2, <3>1, <3>2 DEF IInv, Timely, SqliteHeartbeat, Answer,
         hostVars
  <2> QED BY <2>2, <2>4, <2>5
<1>2. RetiredIsQuiet'
  BY DEF IInv, RetiredIsQuiet, InFlight, SqliteHeartbeat, Answer
<1>3. AloneIsHeard'
  BY DEF IInv, AloneIsHeard, InFlight, Deploying, SqliteHeartbeat, Answer,
     hostVars
<1>4. VerifiedIsNew'
  BY DEF IInv, VerifiedIsNew, SqliteHeartbeat, Answer
<1> QED BY <1>1, <1>2, <1>3, <1>4 DEF IInv

LEMMA PgLookupKeeps ==
    ASSUME IInv, NEW p \in Procs, PgLookup(p)
    PROVE  IInv'
<1>1. TypeOK' /\ Timely'
  <2>1. PICK i \in Ids \cup {None}, del \in BOOLEAN :
          beat' = [beat EXCEPT ![p] = [at |-> "read", time |-> now, saw |-> i,
                                       deleted |-> del]]
    <3>1. CASE beat' = [beat EXCEPT ![p] = [at |-> "read", time |-> now,
                                            saw |-> None, deleted |-> FALSE]]
      BY <3>1
    <3>2. CASE \E i \in Lookup :
                 beat' = [beat EXCEPT ![p] =
                   [at |-> "read", time |-> now, saw |-> i,
                    deleted |-> row[i].state = "deleted"]]
      <4>1. Lookup \subseteq Ids BY DEF Lookup, Active, Inserted
      <4>2. PICK i \in Lookup :
              beat' = [beat EXCEPT ![p] =
                   [at |-> "read", time |-> now, saw |-> i,
                    deleted |-> row[i].state = "deleted"]]
        BY <3>2
      <4>3. (row[i].state = "deleted") \in BOOLEAN OBVIOUS
      <4> QED BY <4>1, <4>2, <4>3, Zenon
    <3> QED BY <3>1, <3>2, Zenon DEF PgLookup
  <2>2. beat' \in [Procs -> [at : {"none", "sent", "read"}, time : Times,
                             saw : Ids \cup {None}, deleted : BOOLEAN]]
    BY <2>1 DEF IInv, TypeOK
  <2>3. TypeOK' BY <2>2 DEF IInv, TypeOK, PgLookup, hostVars, histVars
  <2>4. \A q \in Procs : beat'[q].time <= now
    BY <2>1 DEF IInv, TypeOK, Timely, Times
  <2>5. \A q \in Procs : beat'[q].at # "none" => beat[q].at # "none"
    BY <2>1 DEF IInv, PgLookup
  <2>6. Timely' BY <2>4, <2>5 DEF IInv, Timely, PgLookup, InFlight, hostVars
  <2> QED BY <2>3, <2>6
<1>2. OneActive'
  BY DEF IInv, OneActive, Active, PgLookup
<1>3. RetiredIsQuiet'
  BY DEF IInv, RetiredIsQuiet, InFlight, PgLookup, histVars
<1>4. AloneIsHeard'
  BY RunnerFleetAssumption, SMTT(60) DEF IInv, TypeOK, Timely, AloneIsHeard, InFlight,
     Active, Inserted, Deploying, Ended, Procs, Times, None, Ids, PgLookup,
     Lookup, hostVars, histVars
<1>5. VerifiedIsNew'
  BY DEF IInv, VerifiedIsNew, PgLookup, histVars
<1> QED BY <1>1, <1>2, <1>3, <1>4, <1>5 DEF IInv

LEMMA PgWriteKeeps ==
    ASSUME IInv, NEW p \in Procs, PgWrite(p)
    PROVE  IInv'
<1>1. TypeOK' /\ Timely' /\ AloneIsHeard'
  <2>1. PICK ok \in BOOLEAN : Answer(p, ok) /\ (ok \/ UNCHANGED row)
    BY DEF PgWrite
  <2>2. /\ row' \in [Ids -> [state : {"none", "active", "deleted"},
                             seen : Times]]
        /\ \A i \in Ids : row'[i].seen <= now
    <3>1. CASE Write(beat[p].saw, beat[p].deleted, beat[p].time)
      <4>1. /\ beat[p].saw \in Ids \cup {None}
            /\ beat[p].deleted \in BOOLEAN
            /\ beat[p].time \in Times
            /\ beat[p].time <= now
        BY DEF IInv, TypeOK, Timely
      <4> QED BY <3>1, <4>1, WriteEffect DEF IInv
    <3>2. CASE UNCHANGED row BY <3>2 DEF IInv, TypeOK, Timely
    <3> QED BY <3>1, <3>2 DEF PgWrite
  <2>3. heard' \subseteq Deploys BY <2>1 DEF IInv, TypeOK, Answer
  <2>4. TypeOK'
    BY <2>1, <2>2, <2>3, BeatTypes DEF IInv, TypeOK, Answer, hostVars
  <2>5. Timely'
    <3>1. \A q \in Procs : beat'[q].time <= now
      <4>1. \A q \in Procs : beat'[q].time \in {0, beat[q].time}
        BY <2>1, BeatTypes DEF IInv, Answer
      <4>2. now \in Nat /\ \A q \in Procs : beat[q].time <= now
        BY DEF IInv, TypeOK, Timely, Times
      <4> QED BY <4>1, <4>2
    <3>2. \A q \in InFlight' : q \in InFlight
      BY <2>1, BeatTypes DEF IInv, Answer, InFlight
    <3> QED BY <2>1, <2>2, <3>1, <3>2 DEF IInv, Timely, Answer, hostVars
  <2>6. AloneIsHeard'
    <3>1. \A q \in InFlight' : q \in InFlight
      BY <2>1, BeatTypes DEF IInv, Answer, InFlight
    <3>2. p \in InFlight BY DEF PgWrite, InFlight
    <3>3. CASE ok
      BY <2>1, <3>1, <3>2, <3>3 DEF IInv, AloneIsHeard, Answer, Deploying,
         hostVars
    <3>4. CASE UNCHANGED row
      BY <2>1, <3>1, <3>4 DEF IInv, AloneIsHeard, Answer, Deploying, Active,
         hostVars
    <3> QED BY <2>1, <3>3, <3>4
  <2> QED BY <2>4, <2>5, <2>6
<1>2. OneActive'
  BY RunnerFleetAssumption DEF IInv, TypeOK, OneActive, Active, Inserted,
     None, PgWrite, Write, Answer, NoBeat, hostVars
<1>3. RetiredIsQuiet'
  BY DEF IInv, RetiredIsQuiet, InFlight, PgWrite, Answer
<1>4. VerifiedIsNew'
  BY DEF IInv, VerifiedIsNew, PgWrite, Answer
<1> QED BY <1>1, <1>2, <1>3, <1>4 DEF IInv

LEMMA DeregisterFindKeeps ==
    ASSUME IInv, DeregisterFind
    PROVE  IInv'
<1>1. TypeOK'
  BY DEF IInv, TypeOK, Active, DeregisterFind, hostVars, histVars
<1>2. OneActive'
  BY DEF IInv, OneActive, Active, DeregisterFind
<1>3. Timely'
  BY DEF IInv, Timely, InFlight, DeregisterFind, hostVars
<1>4. RetiredIsQuiet'
  BY DEF IInv, RetiredIsQuiet, DeregisterFind, histVars
<1>5. AloneIsHeard'
  BY DEF IInv, AloneIsHeard, InFlight, Active, Deploying, DeregisterFind,
     hostVars, histVars
<1>6. VerifiedIsNew'
  BY DEF IInv, VerifiedIsNew, DeregisterFind, histVars
<1> QED BY <1>1, <1>2, <1>3, <1>4, <1>5, <1>6 DEF IInv

LEMMA DeregisterDeleteKeeps ==
    ASSUME IInv, DeregisterDelete
    PROVE  IInv'
<1>1. TypeOK' /\ Timely' /\ RetiredIsQuiet' /\ AloneIsHeard'
  <2>1. CASE dereg \in Active /\ row' = [row EXCEPT ![dereg].state = "deleted"]
               /\ retired' = (up = {} /\ InFlight = {})
    <3>1. dereg \in Ids BY <2>1 DEF Active
    <3>2. /\ row' \in [Ids -> [state : {"none", "active", "deleted"},
                               seen : Times]]
          /\ \A i \in Ids : row'[i].seen = row[i].seen
          /\ \A i \in Ids : i # dereg => row'[i] = row[i]
          /\ row'[dereg].state = "deleted"
      BY <2>1, <3>1 DEF IInv, TypeOK
    <3>3. retired' \in BOOLEAN /\ (retired' => up = {} /\ InFlight = {})
      BY <2>1
    <3>4. TypeOK' BY <3>2, <3>3 DEF IInv, TypeOK, DeregisterDelete, hostVars
    <3>5. Timely'
      BY <3>2 DEF IInv, Timely, DeregisterDelete, InFlight, hostVars
    <3>6. Active' = {} BY <2>1, <3>2 DEF IInv, OneActive, Active
    <3>7. RetiredIsQuiet'
      BY <3>3, <3>6 DEF RetiredIsQuiet, DeregisterDelete, InFlight, hostVars
    <3>8. AloneIsHeard'
      BY <3>6 DEF IInv, AloneIsHeard, DeregisterDelete, Deploying, InFlight,
         hostVars
    <3> QED BY <3>4, <3>5, <3>7, <3>8
  <2>2. CASE UNCHANGED <<row, retired>>
    BY <2>2 DEF IInv, TypeOK, Timely, RetiredIsQuiet, AloneIsHeard,
       DeregisterDelete, Deploying, InFlight, Active, hostVars
  <2> QED BY <2>1, <2>2 DEF DeregisterDelete
<1>2. OneActive'
  BY DEF IInv, TypeOK, OneActive, Active, DeregisterDelete
<1>3. VerifiedIsNew'
  BY DEF IInv, VerifiedIsNew, DeregisterDelete
<1> QED BY <1>1, <1>2, <1>3 DEF IInv

LEMMA DeployStartKeeps ==
    ASSUME IInv, NEW d \in Deploys, NEW first \in {"install", "pull", "emit"},
           DeployStart(d, first)
    PROVE  IInv'
<1>1. TypeOK'
  BY RunnerFleetAssumption DEF IInv, TypeOK, Procs, Times, Stages,
     DeployStart, hostVars
<1>2. OneActive'
  BY DEF IInv, OneActive, Active, DeployStart
<1>3. Timely'
  BY DEF IInv, Timely, InFlight, DeployStart, hostVars
<1>4. RetiredIsQuiet'
  BY DEF IInv, RetiredIsQuiet, InFlight, Active, DeployStart, hostVars
<1>5. AloneIsHeard'
  <2> SUFFICES ASSUME NEW c \in (Deploying \ others)'
               PROVE  /\ \A p \in (up \cup InFlight)' : bin'[p] = c
                      /\ \A i \in Active' :
                          row'[i].seen >= dep'[c].start => c \in heard'
    BY DEF AloneIsHeard
  <2>1. CASE c = d
    <3>1. /\ up \cup InFlight = {}
          /\ \A i \in Active : row[i].seen # now
          /\ dep'[d].start = now
      BY <2>1 DEF IInv, TypeOK, DeployStart
    <3>2. \A i \in Active : ~(row[i].seen >= now)
      <4>1. now \in Nat
        BY DEF IInv, TypeOK, Times
      <4>2. \A i \in Active : row[i].seen \in Nat /\ row[i].seen <= now
        BY DEF IInv, TypeOK, Timely, Active, Times
      <4> QED BY <3>1, <4>1, <4>2
    <3> QED BY <2>1, <3>1, <3>2 DEF DeployStart, InFlight, Active, hostVars
  <2>2. CASE c # d
    <3>1. c \in Deploying \ others /\ dep'[c] = dep[c]
      BY <2>2 DEF IInv, DeployStart, Deploying
    <3> QED BY <3>1 DEF IInv, AloneIsHeard, DeployStart, InFlight, Active,
         hostVars
  <2> QED BY <2>1, <2>2
<1>6. VerifiedIsNew'
  BY DEF IInv, VerifiedIsNew, DeployStart
<1> QED BY <1>1, <1>2, <1>3, <1>4, <1>5, <1>6 DEF IInv

LEMMA CommandFailsKeeps ==
    ASSUME IInv, NEW d \in Deploys, CommandFails(d)
    PROVE  IInv'
<1>1. TypeOK'
  BY RunnerFleetAssumption DEF IInv, TypeOK, Procs, Ids, Times, Sources,
     Nothing, None, Stages, Active, Inserted, CommandFails, Goto, hostVars,
     histVars
<1>2. OneActive'
  BY DEF IInv, OneActive, Active, CommandFails
<1>3. Timely'
  BY DEF IInv, Timely, InFlight, CommandFails, hostVars
<1>4. RetiredIsQuiet'
  BY DEF IInv, RetiredIsQuiet, InFlight, Active, CommandFails, hostVars,
     histVars
<1>5. AloneIsHeard'
  BY RunnerFleetAssumption DEF IInv, TypeOK, Timely, AloneIsHeard, InFlight,
     Active, Inserted, Deploying, Ended, Procs, Times, None, Ids,
     CommandFails, Goto, hostVars, histVars
<1>6. VerifiedIsNew'
  BY DEF IInv, VerifiedIsNew, CommandFails, Goto, histVars
<1> QED BY <1>1, <1>2, <1>3, <1>4, <1>5, <1>6 DEF IInv

LEMMA SshInstallKeeps ==
    ASSUME IInv, NEW d \in Deploys, SshInstall(d)
    PROVE  IInv'
<1>1. TypeOK'
  BY RunnerFleetAssumption DEF IInv, TypeOK, Procs, Ids, Times, Sources,
     Nothing, None, Stages, Active, Inserted, SshInstall, At, Goto,
     hostVars, histVars
<1>2. OneActive'
  BY DEF IInv, OneActive, Active, SshInstall
<1>3. Timely'
  BY DEF IInv, Timely, InFlight, SshInstall
<1>4. RetiredIsQuiet'
  BY DEF IInv, RetiredIsQuiet, InFlight, Active, SshInstall, histVars
<1>5. AloneIsHeard'
  BY DEF IInv, AloneIsHeard, InFlight, Active, Deploying, Ended, SshInstall,
     At, Goto, histVars
<1>6. VerifiedIsNew'
  BY DEF IInv, VerifiedIsNew, SshInstall, Goto, histVars
<1> QED BY <1>1, <1>2, <1>3, <1>4, <1>5, <1>6 DEF IInv

LEMMA SshConfigKeeps ==
    ASSUME IInv, NEW d \in Deploys, SshConfig(d)
    PROVE  IInv'
<1>1. TypeOK'
  BY RunnerFleetAssumption DEF IInv, TypeOK, Procs, Ids, Times, Sources,
     Nothing, None, Stages, Active, Inserted, SshConfig, At, Goto, hostVars,
     histVars
<1>2. OneActive'
  BY DEF IInv, OneActive, Active, SshConfig
<1>3. Timely'
  BY DEF IInv, Timely, InFlight, SshConfig, hostVars
<1>4. RetiredIsQuiet'
  BY DEF IInv, RetiredIsQuiet, InFlight, Active, SshConfig, hostVars, histVars
<1>5. AloneIsHeard'
  BY DEF IInv, AloneIsHeard, InFlight, Active, Deploying, Ended, SshConfig,
     At, Goto, hostVars, histVars
<1>6. VerifiedIsNew'
  BY DEF IInv, VerifiedIsNew, SshConfig, Goto, histVars
<1> QED BY <1>1, <1>2, <1>3, <1>4, <1>5, <1>6 DEF IInv

LEMMA SshServiceKeeps ==
    ASSUME IInv, NEW d \in Deploys, SshService(d)
    PROVE  IInv'
<1>1. TypeOK' /\ AloneIsHeard'
  <2>1. dep' \in [Deploys -> [at : Stages, start : Times, since : Times]]
    BY DEF IInv, TypeOK, SshService, StartWaiting, Stages
  <2>2. /\ Deploying' \subseteq Deploying
        /\ \A c \in Deploys : dep'[c].start = dep[c].start
    BY DEF IInv, TypeOK, SshService, At, StartWaiting, Deploying, Ended
  <2>3. CASE \E b \in disk : Start("unit", b)
    <3>1. PICK b \in Sources : Start("unit", b)
      BY <2>3 DEF IInv, TypeOK, Nothing
    <3>2. TypeOK'
      BY <2>1, <3>1, StartTypes DEF IInv, TypeOK, SshService
    <3>3. AloneIsHeard'
      <4>1. /\ InFlight' = InFlight /\ Active' = Active
            /\ row' = row /\ heard' = heard
        BY DEF SshService, InFlight, Active
      <4>2. /\ others' = others \cup (Deploying \ {b})
            /\ up' = up \cup {started + 1}
            /\ bin' = [bin EXCEPT ![started + 1] = b]
            /\ started + 1 \in Procs
        BY <3>1, RunnerFleetAssumption DEF IInv, TypeOK, Start, Procs
      <4>3. \A p \in up \cup InFlight : p \in Procs /\ p # started + 1
        BY RunnerFleetAssumption DEF IInv, TypeOK, Timely, InFlight, Procs
      <4>4. \A p \in up \cup InFlight : bin'[p] = bin[p]
        BY <4>2, <4>3 DEF IInv
      <4>5. bin'[started + 1] = b
        BY <4>2 DEF IInv, TypeOK
      <4>6. \A c \in (Deploying \ others)' : c = b /\ c \in Deploying \ others
        BY <2>2, <4>2
      <4>7. \A p \in (up \cup InFlight)' : 
                  p = started + 1 \/ p \in up \cup InFlight
        BY <4>1, <4>2
      <4> QED BY <2>2, <4>1, <4>4, <4>5, <4>6, <4>7 DEF IInv, AloneIsHeard,
           Deploying
    <3> QED BY <3>2, <3>3
  <2>4. CASE UNCHANGED <<started, up, kind, bin, others, retired>>
    <3>1. TypeOK' BY <2>1, <2>4 DEF IInv, TypeOK, SshService
    <3>2. AloneIsHeard'
      BY <2>2, <2>4 DEF IInv, SshService, AloneIsHeard, InFlight, Active,
         Deploying
    <3> QED BY <3>1, <3>2
  <2> QED BY <2>3, <2>4 DEF SshService
<1>2. OneActive'
  BY DEF IInv, OneActive, Active, SshService
<1>3. Timely'
  BY RunnerFleetAssumption DEF IInv, TypeOK, Timely, InFlight, Procs, Ids,
     Times, Active, Inserted, None, SshService, At, StartWaiting, Start,
     Supervised, hostVars, histVars
<1>4. RetiredIsQuiet'
  BY DEF IInv, RetiredIsQuiet, SshService, Start, Supervised
<1>5. VerifiedIsNew'
  BY DEF IInv, TypeOK, VerifiedIsNew, SshService, StartWaiting, Start
<1> QED BY <1>1, <1>2, <1>3, <1>4, <1>5 DEF IInv

LEMMA DockerPullKeeps ==
    ASSUME IInv, NEW d \in Deploys, DockerPull(d)
    PROVE  IInv'
<1>1. TypeOK'
  BY RunnerFleetAssumption DEF IInv, TypeOK, Procs, Ids, Times, Sources,
     Nothing, None, Stages, Active, Inserted, DockerPull, At, Goto,
     hostVars, histVars
<1>2. OneActive'
  BY DEF IInv, OneActive, Active, DockerPull
<1>3. Timely'
  BY DEF IInv, Timely, InFlight, DockerPull, hostVars
<1>4. RetiredIsQuiet'
  BY DEF IInv, RetiredIsQuiet, InFlight, Active, DockerPull, hostVars,
     histVars
<1>5. AloneIsHeard'
  BY DEF IInv, AloneIsHeard, InFlight, Active, Deploying, Ended, DockerPull,
     At, Goto, hostVars, histVars
<1>6. VerifiedIsNew'
  BY DEF IInv, VerifiedIsNew, DockerPull, Goto, histVars
<1> QED BY <1>1, <1>2, <1>3, <1>4, <1>5, <1>6 DEF IInv

LEMMA DockerRemoveKeeps ==
    ASSUME IInv, NEW d \in Deploys, DockerRemove(d)
    PROVE  IInv'
<1>1. TypeOK'
  BY RunnerFleetAssumption DEF IInv, TypeOK, Procs, Ids, Times, Sources,
     Nothing, None, Stages, Active, Inserted, DockerRemove, At, Goto,
     Supervised, hostVars, histVars
<1>2. OneActive'
  BY DEF IInv, OneActive, Active, DockerRemove
<1>3. Timely'
  BY DEF IInv, Timely, InFlight, DockerRemove
<1>4. RetiredIsQuiet'
  BY DEF IInv, RetiredIsQuiet, InFlight, Active, DockerRemove, histVars
<1>5. AloneIsHeard'
  BY DEF IInv, AloneIsHeard, InFlight, Active, Deploying, Ended,
     DockerRemove, At, Goto, histVars
<1>6. VerifiedIsNew'
  BY DEF IInv, VerifiedIsNew, DockerRemove, Goto, histVars
<1> QED BY <1>1, <1>2, <1>3, <1>4, <1>5, <1>6 DEF IInv

LEMMA DockerRunKeeps ==
    ASSUME IInv, NEW d \in Deploys, DockerRun(d)
    PROVE  IInv'
<1>1. TypeOK'
  <2>1. dep' \in [Deploys -> [at : Stages, start : Times, since : Times]]
    BY DEF IInv, TypeOK, DockerRun, StartWaiting, Stages
  <2>2. d \in Sources BY DEF Sources
  <2> QED BY <2>1, <2>2, StartTypes DEF IInv, TypeOK, DockerRun
<1>2. OneActive'
  BY DEF IInv, OneActive, Active, DockerRun
<1>3. Timely'
  BY RunnerFleetAssumption DEF IInv, TypeOK, Timely, InFlight, Procs, Ids,
     Times, Active, Inserted, None, DockerRun, At, StartWaiting, Start,
     hostVars, histVars
<1>4. RetiredIsQuiet'
  BY DEF IInv, RetiredIsQuiet, DockerRun, Start
<1>5. AloneIsHeard'
  BY RunnerFleetAssumption DEF IInv, TypeOK, Timely, AloneIsHeard, InFlight,
     Active, Inserted, Deploying, Ended, Procs, Times, None, Ids, DockerRun,
     At, StartWaiting, Start, hostVars, histVars
<1>6. VerifiedIsNew'
  BY DEF IInv, TypeOK, VerifiedIsNew, DockerRun, StartWaiting, Start
<1> QED BY <1>1, <1>2, <1>3, <1>4, <1>5, <1>6 DEF IInv

LEMMA ScriptEmitKeeps ==
    ASSUME IInv, NEW d \in Deploys, ScriptEmit(d)
    PROVE  IInv'
<1>1. TypeOK'
  BY RunnerFleetAssumption DEF IInv, TypeOK, Procs, Ids, Times, Sources,
     Nothing, None, Stages, Active, Inserted, ScriptEmit, At, Goto,
     hostVars, histVars
<1>2. OneActive'
  BY DEF IInv, OneActive, Active, ScriptEmit
<1>3. Timely'
  BY DEF IInv, Timely, InFlight, ScriptEmit, hostVars
<1>4. RetiredIsQuiet'
  BY DEF IInv, RetiredIsQuiet, InFlight, Active, ScriptEmit, hostVars,
     histVars
<1>5. AloneIsHeard'
  BY DEF IInv, AloneIsHeard, InFlight, Active, Deploying, Ended, ScriptEmit,
     Goto, hostVars, histVars
<1>6. VerifiedIsNew'
  BY DEF IInv, VerifiedIsNew, ScriptEmit, Goto, histVars
<1> QED BY <1>1, <1>2, <1>3, <1>4, <1>5, <1>6 DEF IInv

LEMMA PollKeeps ==
    ASSUME IInv, NEW d \in Deploys, Poll(d)
    PROVE  IInv'
<1>1. TypeOK'
  BY RunnerFleetAssumption DEF IInv, TypeOK, Procs, Ids, Times, Sources,
     Nothing, None, Stages, Active, Inserted, Poll, At, Goto, hostVars,
     histVars
<1>2. OneActive'
  BY DEF IInv, OneActive, Active, Poll
<1>3. Timely'
  BY DEF IInv, Timely, InFlight, Poll, hostVars
<1>4. RetiredIsQuiet'
  BY DEF IInv, RetiredIsQuiet, Poll, histVars
<1>5. AloneIsHeard'
  BY RunnerFleetAssumption DEF IInv, TypeOK, Timely, AloneIsHeard, InFlight,
     Active, Inserted, Deploying, Ended, Procs, Times, None, Ids, Poll, At,
     Goto, hostVars, histVars
<1>6. VerifiedIsNew'
  BY DEF IInv, AloneIsHeard, VerifiedIsNew, Deploying, Ended, Poll, At,
     Goto, histVars
<1> QED BY <1>1, <1>2, <1>3, <1>4, <1>5, <1>6 DEF IInv

LEMMA GiveUpKeeps ==
    ASSUME IInv, NEW d \in Deploys, GiveUp(d)
    PROVE  IInv'
<1>1. TypeOK'
  BY RunnerFleetAssumption DEF IInv, TypeOK, Procs, Ids, Times, Sources,
     Nothing, None, Stages, Active, Inserted, GiveUp, At, Goto, hostVars,
     histVars
<1>2. OneActive'
  BY DEF IInv, OneActive, Active, GiveUp
<1>3. Timely'
  BY DEF IInv, Timely, InFlight, GiveUp, hostVars
<1>4. RetiredIsQuiet'
  BY DEF IInv, RetiredIsQuiet, InFlight, Active, GiveUp, hostVars, histVars
<1>5. AloneIsHeard'
  BY RunnerFleetAssumption DEF IInv, TypeOK, Timely, AloneIsHeard, InFlight,
     Active, Inserted, Deploying, Ended, Procs, Times, None, Ids, GiveUp,
     At, Goto, hostVars, histVars
<1>6. VerifiedIsNew'
  BY DEF IInv, VerifiedIsNew, GiveUp, Goto, histVars
<1> QED BY <1>1, <1>2, <1>3, <1>4, <1>5, <1>6 DEF IInv

LEMMA TickKeeps ==
    ASSUME IInv, Tick
    PROVE  IInv'
<1>1. TypeOK'
  <2>1. now' \in Times BY RunnerFleetAssumption DEF IInv, TypeOK, Tick, Times
  <2> QED BY <2>1 DEF IInv, TypeOK, Tick, hostVars, histVars
<1>2. OneActive'
  BY DEF IInv, OneActive, Active, Tick
<1>3. Timely'
  BY RunnerFleetAssumption DEF IInv, TypeOK, Timely, InFlight, Procs, Ids,
     Times, Active, Inserted, None, Tick, hostVars, histVars
<1>4. RetiredIsQuiet'
  BY DEF IInv, RetiredIsQuiet, InFlight, Active, Tick, hostVars, histVars
<1>5. AloneIsHeard'
  BY DEF IInv, AloneIsHeard, InFlight, Active, Deploying, Tick, hostVars,
     histVars
<1>6. VerifiedIsNew'
  BY DEF IInv, VerifiedIsNew, Tick, histVars
<1> QED BY <1>1, <1>2, <1>3, <1>4, <1>5, <1>6 DEF IInv

-----------------------------------------------------------------------------

LEMMA InitKeeps == ASSUME Init PROVE IInv
<1>1. TypeOK
  <2>1. /\ 0 \in Times /\ 0 \in 0..MaxProcs /\ 0 \in 0..MaxLosses
        /\ Earlier \in Sources
    BY RunnerFleetAssumption DEF Times, Sources
  <2>2. disk \in {Nothing} \cup {{b} : b \in Sources}
    BY <2>1 DEF Init
  <2>3. container \in {Nothing} \cup {{b} : b \in Sources}
    <3>1. {Earlier} \ disk \in {Nothing, {Earlier}}
      BY DEF Nothing
    <3> QED BY <2>1, <3>1 DEF Init
  <2>4. beat \in [Procs -> [at : {"none", "sent", "read"}, time : Times,
                            saw : Ids \cup {None}, deleted : BOOLEAN]]
    BY <2>1 DEF Init, NoBeat
  <2>5. row \in [Ids -> [state : {"none", "active", "deleted"},
                         seen : Times]]
    BY <2>1 DEF Init, NoRow
  <2>6. dep \in [Deploys -> [at : Stages, start : Times, since : Times]]
    BY <2>1 DEF Init, Stages
  <2> QED BY <2>1, <2>2, <2>3, <2>4, <2>5, <2>6 DEF Init, TypeOK
<1>2. OneActive /\ RetiredIsQuiet /\ VerifiedIsNew
  BY DEF Init, OneActive, RetiredIsQuiet, VerifiedIsNew, Active, NoRow
<1>3. Timely
  BY DEF Init, Timely, NoRow, NoBeat, InFlight
<1>4. AloneIsHeard
  BY DEF Init, AloneIsHeard, Deploying
<1> QED BY <1>1, <1>2, <1>3, <1>4 DEF IInv

LEMMA StutterKeeps == ASSUME IInv, UNCHANGED vars PROVE IInv'
  BY DEF IInv, vars, hostVars, histVars, TypeOK, OneActive, Timely,
     RetiredIsQuiet, AloneIsHeard, VerifiedIsNew, Active, InFlight,
     Deploying

LEMMA NextKeeps == ASSUME IInv, [Next]_vars PROVE IInv'
<1>1. ASSUME NEW d \in Deploys, Deploy(d) PROVE IInv'
  BY <1>1, DeployStartKeeps, CommandFailsKeeps, SshInstallKeeps,
     SshConfigKeeps, SshServiceKeeps, DockerPullKeeps, DockerRemoveKeeps,
     DockerRunKeeps, ScriptEmitKeeps, PollKeeps, GiveUpKeeps DEF Deploy
<1>2. ASSUME NEW p \in Procs, Stop(p) \/ Send(p) \/ Lose(p) \/ Serve(p)
      PROVE  IInv'
  BY <1>2, StopKeeps, SendKeeps, LoseKeeps, SqliteHeartbeatKeeps,
     PgLookupKeeps, PgWriteKeeps DEF Serve
<1> QED
  BY <1>1, <1>2, StartByHandKeeps, RespawnKeeps, DeregisterFindKeeps,
     DeregisterDeleteKeeps, TickKeeps, StutterKeeps DEF Next

\* The inductive invariant of the registry and the deploys, for every set of
\* deploys and every bound.
THEOREM RunnerFleetInvariant == Spec => []IInv
  BY InitKeeps, NextKeeps, PTL DEF Spec

\* Every variable keeps its type.
THEOREM RunnerFleetTypeOK == Spec => []TypeOK
<1>1. IInv => TypeOK BY DEF IInv
<1> QED BY <1>1, RunnerFleetInvariant, PTL

\* Two heartbeats that both saw no row, or that both revive a deleted one,
\* never leave two active rows of the name (RunnerRepo.heartbeat and the
\* unique index on the active name).
THEOREM RunnerFleetOneActive == Spec => []OneActive
<1>1. IInv => OneActive BY DEF IInv
<1> QED BY <1>1, RunnerFleetInvariant, PTL

\* waitForRunnerHeartbeat reports a verified deploy only after a heartbeat of
\* what the deploy installed was stored, unless another runner of the name
\* was beside it.
THEOREM RunnerVerifiedIsNew == Spec => []VerifiedIsNew
<1>1. IInv => VerifiedIsNew BY DEF IInv
<1> QED BY <1>1, RunnerFleetInvariant, PTL

\* A runner deregistered when nothing of its name ran or was on the way stays
\* off the list until a process starts.
THEOREM RunnerRetiredStaysGone == Spec => []RetiredStaysGone
<1>1. IInv => RetiredStaysGone BY DEF IInv, RetiredIsQuiet, RetiredStaysGone
<1> QED BY <1>1, RunnerFleetInvariant, PTL

(***************************************************************************)
(* Cloud provisioning under a budget and the reaper, for any requests,     *)
(* prices, limit, number of workers and length of the month.               *)
(***************************************************************************)

\* What the rows of a month may come to: the limit and what the provisions
\* beside one another may add to it.
CloudBound == Limit + (Workers - 1) * MaxCost

\* With total u in its rows, a month has room for the provisions fl: one of
\* them was the last to be checked, and the others are what the bound allows
\* for.
Room(fl, u) ==
    fl = {} \/ \E r \in fl : u + Cost[r] + (Cardinality(fl) - 1) * MaxCost <= CloudBound

\* The budget: no more provisions than workers; the months to come are empty;
\* each month keeps the bound; and this month and those to come have room for
\* the provisions in flight, which may be recorded in any of them.
BudgetOK(fl, u, t) ==
    /\ IsFiniteSet(fl) /\ Cardinality(fl) <= Workers
    /\ \A m \in Months : u[m] <= CloudBound
    /\ \A m \in Months : m > Month(t) => u[m] = 0
    /\ \A m \in Months : m >= Month(t) => Room(fl, u[m])

\* What there is at the vendor was launched by a request of its key that will
\* not launch again.
Launched(ps) == {r \in Reqs : ps[r] \notin {"idle", "checked"}}

VendorOK(v, ps) ==
    \A k \in Keys : v[k] # NoVm => Key(v[k].owner) = k /\ v[k].owner \in Launched(ps)

\* A handle of the sweep names a request that launched under its key, and
\* its expiry while what is there is still that request's; the handles of a
\* list of Azure VMs are one.
HandlesOK(hs, v, ps) ==
    /\ \A h \in hs :
         /\ Key(h.owner) = h.key /\ h.owner \in Launched(ps)
         /\ v[h.key] # NoVm /\ v[h.key].owner = h.owner => v[h.key].expires = h.expires
    /\ \A g, h \in hs : h.key = AzureName => g = h

\* A sweep's clock is not ahead, and it has a backend to work on.
SweepOK(rp, t) ==
    /\ rp.now <= t
    /\ rp.pc # "idle" => rp.todo # <<>>

CloudIInv ==
    /\ CloudTypeOK
    /\ BudgetOK(Provisioning, usage, clock)
    /\ VendorOK(vm, pc)
    /\ HandlesOK(reaper.handles, vm, pc)
    /\ SweepOK(reaper, clock)

-----------------------------------------------------------------------------
(* Arithmetic of months and costs. *)

\* The constants, one by one.
LEMMA CloudConstants ==
    /\ Workers \in Nat \ {0} /\ MaxCost \in Nat /\ Limit \in Nat
    /\ Ttl \in Nat \ {0} /\ MonthLength \in Nat \ {0} /\ Horizon \in Nat
    /\ MaxOthers \in Nat /\ MaxCloudFaults \in Nat
    /\ \A r \in Reqs : Cost[r] \in Nat /\ Cost[r] <= MaxCost
    BY CloudAssumption DEF Reqs

\* A greater factor makes a greater product.
LEMMA TimesMonotone ==
    ASSUME NEW a \in Nat, NEW b \in Nat, NEW c \in Nat, a <= b
    PROVE  a * c <= b * c
<1>1. b * c = a * c + (b - a) * c  OBVIOUS
<1>2. (b - a) \in Nat  OBVIOUS
<1>3. (b - a) * c \in Nat  BY <1>2
<1> QED BY <1>1, <1>3

\* One less, times a number.
LEMMA TimesOneLess ==
    ASSUME NEW n \in Int, NEW c \in Nat
    PROVE  (n - 1) * c = (n - 2) * c + c /\ (n - 2) * c \in Int
    OBVIOUS

\* The month of a time.
LEMMA MonthBounds ==
    ASSUME NEW t \in Nat
    PROVE  /\ Month(t) \in Nat
           /\ Month(t) * MonthLength <= t
           /\ t < (Month(t) + 1) * MonthLength
    BY CloudConstants DEF Month

\* Months do not go back.
LEMMA MonthMonotone ==
    ASSUME NEW t \in Nat, NEW u \in Nat, t <= u
    PROVE  Month(t) <= Month(u)
<1>1. Month(t) \in Nat /\ Month(u) \in Nat  BY MonthBounds
<1>2. SUFFICES ASSUME Month(u) + 1 <= Month(t) PROVE FALSE  BY <1>1
<1>3. (Month(u) + 1) * MonthLength <= Month(t) * MonthLength
    BY <1>1, <1>2, TimesMonotone, CloudConstants
<1>4. (Month(u) + 1) * MonthLength \in Nat /\ Month(t) * MonthLength \in Nat
    BY <1>1, CloudConstants
<1> QED BY <1>3, <1>4, MonthBounds

\* The months of the clock are months of the table.
LEMMA MonthInMonths ==
    ASSUME NEW t \in 0 .. Horizon
    PROVE  Month(t) \in Months
    BY MonthBounds, MonthMonotone, CloudConstants DEF Months

\* The bound is a number, no less than the limit.
LEMMA BoundAboveLimit == CloudBound \in Nat /\ Limit <= CloudBound
<1>1. (Workers - 1) * MaxCost \in Nat  BY CloudConstants
<1> QED BY <1>1, CloudConstants DEF CloudBound

-----------------------------------------------------------------------------
(* Room for the provisions in flight. *)

\* A provision that the limit has room for may join fewer than Workers others.
LEMMA RoomJoin ==
    ASSUME NEW fl, IsFiniteSet(fl), Cardinality(fl) < Workers,
           NEW r \in Reqs \ fl, NEW u \in Nat, u + Cost[r] <= Limit
    PROVE  Room(fl \cup {r}, u)
<1>1. Cardinality(fl) \in Nat  BY FS_CardinalityType
<1>2. Cardinality(fl \cup {r}) = Cardinality(fl) + 1  BY FS_AddElement
<1>3. Cardinality(fl) <= Workers - 1 /\ Workers - 1 \in Nat  BY <1>1, CloudConstants
<1>4. Cardinality(fl) * MaxCost <= (Workers - 1) * MaxCost
    BY <1>1, <1>3, TimesMonotone, CloudConstants
<1>5. (Cardinality(fl \cup {r}) - 1) * MaxCost = Cardinality(fl) * MaxCost
    BY <1>1, <1>2
<1>6. /\ Cardinality(fl) * MaxCost \in Nat
      /\ (Workers - 1) * MaxCost \in Nat
      /\ Cost[r] \in Nat
    BY <1>1, CloudConstants
<1>7. u + Cost[r] + (Cardinality(fl \cup {r}) - 1) * MaxCost <= CloudBound
    BY <1>4, <1>5, <1>6, CloudConstants DEF CloudBound
<1> QED BY <1>7 DEF Room

\* A provision leaves, having added to the month what it costs or nothing.
LEMMA RoomLeave ==
    ASSUME NEW fl \in SUBSET Reqs, IsFiniteSet(fl), NEW r \in fl, NEW u \in Nat,
           Room(fl, u), NEW c \in {0, Cost[r]}
    PROVE  u + c <= CloudBound /\ Room(fl \ {r}, u + c)
<1> DEFINE n == Cardinality(fl)
<1>1. n \in Nat /\ Cardinality(fl \ {r}) = n - 1 /\ IsFiniteSet(fl \ {r})
    BY FS_CardinalityType, FS_RemoveElement
<1>2. PICK w \in fl : u + Cost[w] + (n - 1) * MaxCost <= CloudBound  BY DEF Room
<1>3. Cardinality(fl \ {r}) \in Nat  BY <1>1, FS_CardinalityType
<1>4. (n - 1) * MaxCost \in Nat  BY <1>1, <1>3, CloudConstants
<1>5. Cost[w] \in Nat /\ c \in Nat /\ c <= MaxCost /\ CloudBound \in Nat
    BY CloudConstants, BoundAboveLimit
<1>6. (n - 1) * MaxCost = (n - 2) * MaxCost + MaxCost /\ (n - 2) * MaxCost \in Int
  <2>1. n \in Int /\ MaxCost \in Nat  BY <1>1, CloudConstants
  <2> QED BY <2>1, TimesOneLess, Zenon
<1>7. CASE fl \ {r} = {}
  <2>1. w = r  BY <1>7
  <2>2. u + c <= CloudBound  BY <1>2, <1>4, <1>5, <2>1
  <2> QED BY <1>7, <2>2 DEF Room
<1>8. CASE fl \ {r} # {}
  <2>1. PICK v \in fl \ {r} : w = r \/ v = w  BY <1>8
  <2>2. Cost[v] \in Nat /\ Cost[v] <= MaxCost  BY CloudConstants
  <2>3. u + c + Cost[v] + (n - 2) * MaxCost <= CloudBound
    <3>1. CASE v = w  BY <1>2, <1>5, <1>6, <3>1, CloudConstants
    <3>2. CASE w = r
      <4>1. c <= Cost[w]  BY <1>5, <3>2
      <4> QED BY <1>2, <1>5, <1>6, <2>2, <4>1, CloudConstants
    <3> QED BY <2>1, <3>1, <3>2
  <2>4. n - 2 >= 0
    <3>1. Cardinality(fl \ {r}) # 0  BY <1>1, <1>8, FS_EmptySet
    <3> QED BY <1>1, <1>3, <3>1
  <2>5. (n - 2) * MaxCost \in Nat  BY <1>1, <2>4, CloudConstants
  <2>6. u + c <= CloudBound  BY <1>5, <2>2, <2>3, <2>5
  <2>7. (Cardinality(fl \ {r}) - 1) * MaxCost = (n - 2) * MaxCost  BY <1>1
  <2>8. u + c + Cost[v] + (Cardinality(fl \ {r}) - 1) * MaxCost <= CloudBound
    BY <2>3, <2>7
  <2> QED BY <2>6, <2>8 DEF Room
<1> QED BY <1>7, <1>8

\* The budget is kept when a provision that fits joins.
LEMMA BudgetJoin ==
    ASSUME NEW fl \in SUBSET Reqs, NEW u \in [Months -> Nat], NEW t \in 0 .. Horizon,
           BudgetOK(fl, u, t), Cardinality(fl) < Workers,
           NEW r \in Reqs \ fl, u[Month(t)] + Cost[r] <= Limit
    PROVE  BudgetOK(fl \cup {r}, u, t)
<1>1. IsFiniteSet(fl) /\ Cardinality(fl) \in Nat  BY FS_CardinalityType DEF BudgetOK
<1>2. IsFiniteSet(fl \cup {r}) /\ Cardinality(fl \cup {r}) <= Workers
  <2>1. IsFiniteSet(fl \cup {r}) /\ Cardinality(fl \cup {r}) = Cardinality(fl) + 1
      BY <1>1, FS_AddElement
  <2> QED BY <1>1, <2>1, CloudConstants
<1>3. ASSUME NEW m \in Months, m >= Month(t)
      PROVE  Room(fl \cup {r}, u[m])
  <2>1. m \in Nat /\ Month(t) \in Nat /\ u[Month(t)] \in Nat /\ Cost[r] \in Nat
      BY MonthInMonths, CloudConstants DEF Months
  <2>2. u[m] \in Nat /\ u[m] + Cost[r] <= Limit
    <3>1. CASE m = Month(t)  BY <2>1, <3>1
    <3>2. CASE m > Month(t)
      <4>1. u[m] = 0  BY <3>2 DEF BudgetOK
      <4> QED BY <2>1, <4>1, CloudConstants
    <3> QED BY <1>3, <2>1, <3>1, <3>2
  <2> QED BY <1>1, <2>2, RoomJoin
<1> QED BY <1>2, <1>3 DEF BudgetOK

\* The budget is kept when a provision leaves, recorded at this moment or not.
LEMMA BudgetLeave ==
    ASSUME NEW fl \in SUBSET Reqs, NEW u \in [Months -> Nat], NEW t \in 0 .. Horizon,
           BudgetOK(fl, u, t), NEW r \in fl, NEW c \in {0, Cost[r]},
           NEW w \in [Months -> Nat],
           \A m \in Months : w[m] = IF m = Month(t) THEN u[m] + c ELSE u[m]
    PROVE  BudgetOK(fl \ {r}, w, t)
<1>1. IsFiniteSet(fl) /\ Cardinality(fl) \in Nat  BY FS_CardinalityType DEF BudgetOK
<1>2. IsFiniteSet(fl \ {r}) /\ Cardinality(fl \ {r}) <= Workers
  <2>1. IsFiniteSet(fl \ {r}) /\ Cardinality(fl \ {r}) = Cardinality(fl) - 1
      BY <1>1, FS_RemoveElement
  <2>2. Cardinality(fl) <= Workers  BY DEF BudgetOK
  <2> QED BY <1>1, <2>1, <2>2, CloudConstants
<1>3. ASSUME NEW m \in Months, m >= Month(t)
      PROVE  w[m] <= CloudBound /\ Room(fl \ {r}, w[m])
  <2>1. Room(fl, u[m]) /\ u[m] \in Nat  BY <1>3 DEF BudgetOK
  <2>2. CASE m = Month(t)
    <3>1. w[m] = u[m] + c  BY <2>2
    <3>2. u[m] + c <= CloudBound /\ Room(fl \ {r}, u[m] + c)  BY <1>1, <2>1, RoomLeave
    <3> QED BY <3>1, <3>2
  <2>3. CASE m # Month(t)
    <3>1. w[m] = u[m] + 0  BY <2>1, <2>3
    <3>2. u[m] + 0 <= CloudBound /\ Room(fl \ {r}, u[m] + 0)  BY <1>1, <2>1, RoomLeave
    <3> QED BY <3>1, <3>2
  <2> QED BY <2>2, <2>3
<1>4. \A m \in Months : w[m] <= CloudBound
  <2> TAKE m \in Months
  <2>1. m \in Nat /\ Month(t) \in Nat  BY MonthInMonths DEF Months
  <2>2. CASE m >= Month(t)  BY <1>3, <2>2
  <2>3. CASE m < Month(t)  BY <2>1, <2>3 DEF BudgetOK
  <2> QED BY <2>1, <2>2, <2>3
<1>5. \A m \in Months : m > Month(t) => w[m] = 0
    BY MonthInMonths DEF BudgetOK, Months
<1> QED BY <1>2, <1>3, <1>4, <1>5 DEF BudgetOK

\* The budget is kept when every provision ends at once.
LEMMA BudgetEmpty ==
    ASSUME NEW fl, NEW u, NEW t, BudgetOK(fl, u, t)
    PROVE  BudgetOK({}, u, t)
    BY FS_EmptySet, CloudConstants DEF BudgetOK, Room

\* The budget is kept as time passes: a month less has to have room.
LEMMA BudgetLater ==
    ASSUME NEW fl, NEW u, NEW t \in 0 .. Horizon, NEW v \in 0 .. Horizon, t <= v,
           BudgetOK(fl, u, t)
    PROVE  BudgetOK(fl, u, v)
<1>1. Month(t) <= Month(v) /\ Month(t) \in Nat /\ Month(v) \in Nat
    BY MonthMonotone, MonthBounds
<1>2. \A m \in Months : m \in Nat  BY DEF Months
<1> QED BY <1>1, <1>2 DEF BudgetOK

-----------------------------------------------------------------------------
(* The vendor and the sweep. *)

CloudPcs == {"idle", "checked", "waiting", "done", "over"}

\* Requests that launched have launched for good.
LEMMA LaunchedGrows ==
    ASSUME NEW ps, NEW qs, NEW v, NEW hs \in SUBSET Handles,
           Launched(ps) \subseteq Launched(qs)
    PROVE  /\ VendorOK(v, ps) => VendorOK(v, qs)
           /\ HandlesOK(hs, v, ps) => HandlesOK(hs, v, qs)
    BY DEF VendorOK, HandlesOK

\* A request that launches for the first time is in no handle, and what it
\* puts under its key is its own.
LEMMA LaunchKeeps ==
    ASSUME NEW ps \in [Reqs -> CloudPcs], NEW qs \in [Reqs -> CloudPcs],
           NEW v \in [Keys -> Vms \cup {NoVm}],
           NEW hs \in SUBSET Handles, NEW r \in Reqs,
           VendorOK(v, ps), HandlesOK(hs, v, ps),
           r \notin Launched(ps), Launched(qs) = Launched(ps) \cup {r},
           NEW w \in [Keys -> Vms \cup {NoVm}],
           w[Key(r)].owner = r, \A k \in Keys : k # Key(r) => w[k] = v[k]
    PROVE  VendorOK(w, qs) /\ HandlesOK(hs, w, qs)
<1>2. w[Key(r)].owner = r /\ \A k \in Keys : k # Key(r) => w[k] = v[k]  OBVIOUS
<1>3. VendorOK(w, qs)
  <2> SUFFICES ASSUME NEW k \in Keys, w[k] # NoVm
               PROVE  Key(w[k].owner) = k /\ w[k].owner \in Launched(qs)
      BY DEF VendorOK
  <2>1. CASE k = Key(r)  BY <1>2, <2>1
  <2>2. CASE k # Key(r)  BY <1>2, <2>2 DEF VendorOK
  <2> QED BY <2>1, <2>2
<1>4. HandlesOK(hs, w, qs)
  <2>1. ASSUME NEW h \in hs
        PROVE  /\ Key(h.owner) = h.key /\ h.owner \in Launched(qs)
               /\ w[h.key] # NoVm /\ w[h.key].owner = h.owner => w[h.key].expires = h.expires
    <3>1. h.key \in Keys /\ h.owner \in Launched(ps) /\ Key(h.owner) = h.key
        BY DEF HandlesOK, Handles
    <3>2. h.owner # r  BY <3>1
    <3>3. CASE h.key = Key(r)  BY <1>2, <3>1, <3>2, <3>3
    <3>4. CASE h.key # Key(r)  BY <1>2, <3>1, <3>4 DEF HandlesOK
    <3> QED BY <3>3, <3>4
  <2> QED BY <2>1 DEF HandlesOK
<1> QED BY <1>3, <1>4

\* Terminating leaves less.
LEMMA TerminatedKeeps ==
    ASSUME NEW ps, NEW hs \in SUBSET Handles, NEW k \in Keys,
           CloudTypeOK, VendorOK(vm, ps), HandlesOK(hs, vm, ps)
    PROVE  /\ Terminated(k) \in [Keys -> Vms \cup {NoVm}]
           /\ VendorOK(Terminated(k), ps) /\ HandlesOK(hs, Terminated(k), ps)
<1> DEFINE w == Terminated(k)
<1>1. w \in [Keys -> Vms \cup {NoVm}]  BY DEF Terminated, CloudTypeOK
<1>2. \A l \in Keys : w[l] = vm[l] \/ w[l] = NoVm  BY DEF Terminated, CloudTypeOK
<1> HIDE DEF w
<1>3. VendorOK(w, ps)  BY <1>2 DEF VendorOK
<1>4. \A h \in hs : h.key \in Keys  BY DEF Handles
<1>5. HandlesOK(hs, w, ps)  BY <1>2, <1>4 DEF HandlesOK
<1> QED BY <1>1, <1>3, <1>5 DEF w

\* The handles left of a list are handles of it.
LEMMA FewerHandles ==
    ASSUME NEW ps, NEW v, NEW hs, NEW gs \in SUBSET hs, HandlesOK(hs, v, ps)
    PROVE  HandlesOK(gs, v, ps)
    BY DEF HandlesOK

\* A fresh list tells of what is there, and Azure's list of one VM.
LEMMA ListedOK ==
    ASSUME CloudTypeOK, VendorOK(vm, pc), NEW b \in {"aws", "azure"}
    PROVE  Listed(b) \in SUBSET Handles /\ HandlesOK(Listed(b), vm, pc)
<1>1. ASSUME NEW h \in Listed(b)
      PROVE  /\ h \in Handles /\ h.key \in Keys /\ BackendOf(h.key) = b
             /\ vm[h.key] # NoVm
             /\ h = [key |-> h.key, owner |-> vm[h.key].owner, expires |-> vm[h.key].expires]
  <2>1. PICK k \in Keys : /\ BackendOf(k) = b /\ vm[k] # NoVm
                          /\ h = [key |-> k, owner |-> vm[k].owner, expires |-> vm[k].expires]
      BY DEF Listed
  <2>2. vm[k] \in Vms  BY <2>1 DEF CloudTypeOK
  <2>3. h \in Handles  BY <2>1, <2>2 DEF Handles, Vms
  <2> QED BY <2>1, <2>3
<1>2. \A g, h \in Listed(b) : h.key = AzureName => g = h
  <2> SUFFICES ASSUME NEW g \in Listed(b), NEW h \in Listed(b), h.key = AzureName
               PROVE  g = h
      OBVIOUS
  <2>1. g.key = AzureName  BY <1>1 DEF BackendOf
  <2> QED BY <1>1, <2>1
<1>3. \A h \in Listed(b) :
         /\ Key(h.owner) = h.key /\ h.owner \in Launched(pc)
         /\ vm[h.key] # NoVm /\ vm[h.key].owner = h.owner => vm[h.key].expires = h.expires
  <2> TAKE h \in Listed(b)
  <2>1. h.owner = vm[h.key].owner /\ h.expires = vm[h.key].expires  BY <1>1
  <2>2. h.key \in Keys /\ vm[h.key] # NoVm  BY <1>1
  <2> QED BY <2>1, <2>2 DEF VendorOK
<1>4. Listed(b) \in SUBSET Handles  BY <1>1
<1> QED BY <1>2, <1>3, <1>4 DEF HandlesOK

\* The loops of the sweep keep what is said of it.
LEMMA GoOnKeeps ==
    ASSUME CloudTypeOK, SweepOK(reaper, clock), reaper.pc # "idle",
           NEW hs \in SUBSET Handles, GoOn(hs, Tail(reaper.todo))
    PROVE  /\ reaper' \in [pc : {"idle", "list", "sweep"}, now : 0 .. Horizon,
                           todo : Seq({"aws", "azure"}), handles : SUBSET Handles]
           /\ reaper'.handles = hs
           /\ SweepOK(reaper', clock)
<1>1. /\ reaper.todo \in Seq({"aws", "azure"}) /\ reaper.todo # <<>>
      /\ Tail(reaper.todo) \in Seq({"aws", "azure"})
    BY DEF CloudTypeOK, SweepOK
<1>2. 0 <= clock /\ clock \in Nat /\ reaper.now <= clock /\ 0 \in 0 .. Horizon
    BY CloudConstants DEF CloudTypeOK, SweepOK
<1>3. CASE hs # {}
  <2>1. reaper' = [reaper EXCEPT !.pc = "sweep", !.handles = hs]  BY <1>3 DEF GoOn
  <2> QED BY <1>1, <1>2, <2>1 DEF CloudTypeOK, SweepOK
<1>4. CASE hs = {} /\ Tail(reaper.todo) # <<>>
  <2>1. reaper' = [reaper EXCEPT !.pc = "list", !.handles = {}, !.todo = Tail(reaper.todo)]
      BY <1>4 DEF GoOn
  <2> QED BY <1>1, <1>2, <1>4, <2>1 DEF CloudTypeOK, SweepOK
<1>5. CASE hs = {} /\ Tail(reaper.todo) = <<>>
  <2>1. reaper' = Idle  BY <1>5 DEF GoOn
  <2> QED BY <1>2, <1>5, <2>1 DEF Idle, SweepOK
<1> QED BY <1>3, <1>4, <1>5

-----------------------------------------------------------------------------
(* The steps. *)

\* One request moves on.
LEMMA PcStep ==
    ASSUME CloudTypeOK, NEW r \in Reqs, NEW to \in CloudPcs, SetPc(r, to)
    PROVE  /\ pc' \in [Reqs -> CloudPcs]
           /\ Provisioning' = IF to \in {"checked", "waiting"}
                                THEN Provisioning \cup {r} ELSE Provisioning \ {r}
           /\ Launched(pc') = IF to \in {"waiting", "done", "over"}
                                THEN Launched(pc) \cup {r} ELSE Launched(pc) \ {r}
<1>1. pc' \in [Reqs -> CloudPcs]  BY DEF CloudTypeOK, SetPc, CloudPcs
<1>2. \A q \in Reqs : pc'[q] = IF q = r THEN to ELSE pc[q]  BY DEF CloudTypeOK, SetPc
<1>3. Provisioning' = IF to \in {"checked", "waiting"}
                        THEN Provisioning \cup {r} ELSE Provisioning \ {r}
    BY <1>2 DEF Provisioning
<1>4. Launched(pc') = IF to \in {"waiting", "done", "over"}
                        THEN Launched(pc) \cup {r} ELSE Launched(pc) \ {r}
    BY <1>2 DEF Launched, CloudPcs
<1> QED BY <1>1, <1>3, <1>4

\* Provisions are requests; a launched one is none that has yet to launch.
LEMMA ProvisioningType == Provisioning \in SUBSET Reqs
    BY DEF Provisioning

\* Time passes.
LEMMA TimePassesKeeps ==
    ASSUME CloudIInv, TimePasses
    PROVE  CloudIInv'
<1>1. clock' \in 0 .. Horizon /\ clock <= clock'
    BY CloudConstants DEF CloudIInv, CloudTypeOK, TimePasses
<1>2. CloudTypeOK'  BY <1>1 DEF CloudIInv, CloudTypeOK, TimePasses
<1>3. Provisioning' = Provisioning  BY DEF Provisioning, TimePasses
<1>4. BudgetOK(Provisioning, usage, clock')
    BY <1>1, BudgetLater DEF CloudIInv, CloudTypeOK
<1>5. SweepOK(reaper, clock')
    BY <1>1, CloudConstants DEF SweepOK, CloudIInv, CloudTypeOK
<1> QED BY <1>2, <1>3, <1>4, <1>5 DEF CloudIInv, TimePasses

\* Somebody else starts a VM.
LEMMA OthersLaunchKeeps ==
    ASSUME CloudIInv, OthersLaunch
    PROVE  CloudIInv'
<1>1. foreign' \in 0 .. MaxOthers
    BY CloudConstants DEF CloudIInv, CloudTypeOK, OthersLaunch
<1>2. CloudTypeOK'  BY <1>1 DEF CloudIInv, CloudTypeOK, OthersLaunch
<1>3. Provisioning' = Provisioning  BY DEF Provisioning, OthersLaunch
<1> QED BY <1>2, <1>3 DEF CloudIInv, OthersLaunch

\* The gate lets a provision in, or refuses it.
LEMMA CheckKeeps ==
    ASSUME CloudIInv, NEW r \in Reqs, Check(r)
    PROVE  CloudIInv'
<1>1. CloudTypeOK  BY DEF CloudIInv
<1>2. UNCHANGED <<clock, vm, foreign, usage, reaper, cloudFaults>>  BY DEF Check
<1>3. r \notin Provisioning /\ r \notin Launched(pc)  BY DEF Check, Provisioning, Launched
<1>4. CASE Fits(r)
  <2>1. SetPc(r, "checked")  BY <1>4 DEF Check
  <2>2. /\ pc' \in [Reqs -> CloudPcs] /\ Provisioning' = Provisioning \cup {r}
        /\ Launched(pc') = Launched(pc) \ {r}
      BY <1>1, <2>1, PcStep DEF CloudPcs
  <2>3. BudgetOK(Provisioning \cup {r}, usage, clock)
    <3>1. Cardinality(Provisioning) < Workers  BY DEF Check
    <3>2. usage[Month(clock)] + Cost[r] <= Limit  BY <1>4 DEF Fits, SumForRange
    <3> QED BY <1>1, <1>3, <3>1, <3>2, BudgetJoin, ProvisioningType DEF CloudIInv, CloudTypeOK
  <2>4. Launched(pc) \subseteq Launched(pc')  BY <1>3, <2>2
  <2>5. VendorOK(vm, pc') /\ HandlesOK(reaper.handles, vm, pc')
      BY <1>1, <2>4, LaunchedGrows DEF CloudIInv, CloudTypeOK
  <2>6. CloudTypeOK'  BY <1>1, <1>2, <2>2 DEF CloudTypeOK, CloudPcs
  <2> QED BY <1>2, <2>2, <2>3, <2>5, <2>6 DEF CloudIInv
<1>5. CASE ~Fits(r)
  <2>1. SetPc(r, "over")  BY <1>5 DEF Check
  <2>2. /\ pc' \in [Reqs -> CloudPcs] /\ Provisioning' = Provisioning \ {r}
        /\ Launched(pc') = Launched(pc) \cup {r}
      BY <1>1, <2>1, PcStep DEF CloudPcs
  <2>3. Provisioning' = Provisioning  BY <1>3, <2>2
  <2>4. Launched(pc) \subseteq Launched(pc')  BY <2>2
  <2>5. VendorOK(vm, pc') /\ HandlesOK(reaper.handles, vm, pc')
      BY <1>1, <2>4, LaunchedGrows DEF CloudIInv, CloudTypeOK
  <2>6. CloudTypeOK'  BY <1>1, <1>2, <2>2 DEF CloudTypeOK, CloudPcs
  <2> QED BY <1>2, <2>3, <2>5, <2>6 DEF CloudIInv
<1> QED BY <1>4, <1>5

\* A launch puts the request's own instance under its key.
LEMMA LaunchStepKeeps ==
    ASSUME CloudIInv, NEW r \in Reqs, pc[r] = "checked", SetPc(r, "waiting"),
           clock + Ttl <= Horizon, vm' = [vm EXCEPT ![Key(r)] = Tagged(r)],
           UNCHANGED <<clock, foreign, usage, reaper, cloudFaults>>
    PROVE  CloudIInv'
<1>1. CloudTypeOK  BY DEF CloudIInv
<1>2. /\ pc' \in [Reqs -> CloudPcs] /\ Provisioning' = Provisioning \cup {r}
      /\ Launched(pc') = Launched(pc) \cup {r}
    BY <1>1, PcStep DEF CloudPcs
<1>3. Provisioning' = Provisioning /\ r \notin Launched(pc)
    BY <1>2 DEF Provisioning, Launched
<1>4. Tagged(r) \in Vms  BY <1>1, CloudConstants DEF Tagged, Vms, CloudTypeOK
<1>5. vm' \in [Keys -> Vms \cup {NoVm}]  BY <1>1, <1>4 DEF CloudTypeOK
<1>6. VendorOK(vm', pc') /\ HandlesOK(reaper.handles, vm', pc')
  <2>1. Key(r) \in Keys  BY DEF Keys
  <2>2. vm'[Key(r)].owner = r /\ \A k \in Keys : k # Key(r) => vm'[k] = vm[k]
      BY <1>1, <2>1 DEF CloudTypeOK, Tagged
  <2>3. /\ pc \in [Reqs -> CloudPcs]
        /\ vm \in [Keys -> Vms \cup {NoVm}] /\ reaper.handles \in SUBSET Handles
        /\ VendorOK(vm, pc) /\ HandlesOK(reaper.handles, vm, pc)
      BY DEF CloudIInv, CloudTypeOK, CloudPcs
  <2>4. PICK hs \in SUBSET Handles : hs = reaper.handles  BY <2>3
  <2>5. PICK qs \in [Reqs -> CloudPcs] : qs = pc'  BY <1>2
  <2>6. PICK w \in [Keys -> Vms \cup {NoVm}] : w = vm'  BY <1>5
  <2>7. w[Key(r)].owner = r /\ \A k \in Keys : k # Key(r) => w[k] = vm[k]  BY <2>2, <2>6
  <2>8. Launched(qs) = Launched(pc) \cup {r}  BY <1>2, <2>5
  <2>9. HandlesOK(hs, vm, pc)  BY <2>3, <2>4
  <2>10. r \notin Launched(pc)  BY <1>3
  <2>11. VendorOK(w, qs) /\ HandlesOK(hs, w, qs)
      BY <2>3, <2>7, <2>8, <2>9, <2>10, LaunchKeeps
  <2> QED BY <2>4, <2>5, <2>6, <2>11
<1>7. CloudTypeOK'  BY <1>1, <1>2, <1>5 DEF CloudTypeOK, CloudPcs
<1> QED BY <1>3, <1>6, <1>7 DEF CloudIInv

\* An EC2 launch.
LEMMA RunInstancesKeeps ==
    ASSUME CloudIInv, NEW r \in Reqs, RunInstances(r)
    PROVE  CloudIInv'
<1>1. Key(r) = r  BY CloudAssumption DEF RunInstances, Key
<1> QED BY <1>1, LaunchStepKeeps DEF RunInstances

\* An Azure launch, over whatever has the name.
LEMMA CreateOrUpdateKeeps ==
    ASSUME CloudIInv, NEW r \in Reqs, CreateOrUpdate(r)
    PROVE  CloudIInv'
<1>1. Key(r) = AzureName  BY DEF CreateOrUpdate, Key
<1> QED BY <1>1, LaunchStepKeeps DEF CreateOrUpdate

\* A provision ends, with its row, without one, or with no instance.
LEMMA LeaveKeeps ==
    ASSUME CloudIInv, NEW r \in Provisioning, NEW to \in {"done", "over"}, SetPc(r, to),
           \/ usage' = [usage EXCEPT ![Month(clock)] = @ + Cost[r]]
           \/ UNCHANGED usage,
           UNCHANGED <<clock, vm, foreign, reaper, cloudFaults>>
    PROVE  CloudIInv'
<1>1. CloudTypeOK /\ r \in Reqs  BY DEF CloudIInv, Provisioning
<1>2. /\ pc' \in [Reqs -> CloudPcs] /\ Provisioning' = Provisioning \ {r}
      /\ Launched(pc') = Launched(pc) \cup {r}
    BY <1>1, PcStep DEF CloudPcs
<1>3. VendorOK(vm, pc') /\ HandlesOK(reaper.handles, vm, pc')
    BY <1>1, <1>2, LaunchedGrows DEF CloudIInv, CloudTypeOK
<1>4. Month(clock) \in Months /\ Cost[r] \in Nat
    BY <1>1, MonthInMonths, CloudConstants DEF CloudTypeOK
<1>5. usage' \in [Months -> Nat]
  <2>1. usage \in [Months -> Nat]  BY <1>1 DEF CloudTypeOK
  <2>2. usage[Month(clock)] + Cost[r] \in Nat  BY <1>4, <2>1
  <2>3. CASE usage' = [usage EXCEPT ![Month(clock)] = @ + Cost[r]]  BY <2>1, <2>2, <2>3
  <2> QED BY <2>1, <2>3
<1>6. PICK c \in {0, Cost[r]} :
        \A m \in Months : usage'[m] = IF m = Month(clock) THEN usage[m] + c ELSE usage[m]
  <2>1. CASE usage' = [usage EXCEPT ![Month(clock)] = @ + Cost[r]]
      BY <1>1, <1>4, <2>1 DEF CloudTypeOK
  <2>2. CASE UNCHANGED usage
    <3>1. \A m \in Months : usage[m] + 0 = usage[m]  BY <1>1 DEF CloudTypeOK
    <3> QED BY <2>2, <3>1
  <2> QED BY <2>1, <2>2
<1>7. BudgetOK(Provisioning \ {r}, usage', clock)
  <2>1. /\ usage \in [Months -> Nat] /\ clock \in 0 .. Horizon
        /\ BudgetOK(Provisioning, usage, clock)
      BY DEF CloudIInv, CloudTypeOK
  <2> QED BY <1>5, <1>6, <2>1, BudgetLeave, ProvisioningType
<1>8. CloudTypeOK'  BY <1>1, <1>2, <1>5 DEF CloudTypeOK, CloudPcs
<1> QED BY <1>2, <1>3, <1>7, <1>8 DEF CloudIInv

\* The three ways out of a provision.
LEMMA ProvisionEndsKeeps ==
    ASSUME CloudIInv, NEW r \in Reqs, LaunchFails(r) \/ RecordStart(r) \/ StartFails(r)
    PROVE  CloudIInv'
<1>1. r \in Provisioning  BY DEF LaunchFails, RecordStart, StartFails, Provisioning
<1>2. CASE LaunchFails(r)  BY <1>1, <1>2, LeaveKeeps DEF LaunchFails
<1>3. CASE RecordStart(r)  BY <1>1, <1>3, LeaveKeeps DEF RecordStart
<1>4. CASE StartFails(r)  BY <1>1, <1>4, LeaveKeeps DEF StartFails
<1> QED BY <1>2, <1>3, <1>4

\* The caller terminates what it provisioned.
LEMMA TerminateKeeps ==
    ASSUME CloudIInv, NEW r \in Reqs, Terminate(r)
    PROVE  CloudIInv'
<1>1. CloudTypeOK /\ SetPc(r, "over") /\ vm' = Terminated(Key(r)) /\ Key(r) \in Keys
    BY DEF CloudIInv, Terminate, Keys
<1>2. /\ pc' \in [Reqs -> CloudPcs] /\ Provisioning' = Provisioning \ {r}
      /\ Launched(pc') = Launched(pc) \cup {r}
    BY <1>1, PcStep DEF CloudPcs
<1>3. Provisioning' = Provisioning  BY <1>2 DEF Provisioning, Terminate
<1>4. reaper.handles \in SUBSET Handles  BY <1>1 DEF CloudTypeOK
<1>5. VendorOK(vm, pc') /\ HandlesOK(reaper.handles, vm, pc')
    BY <1>2, <1>4, LaunchedGrows DEF CloudIInv
<1>6. /\ vm' \in [Keys -> Vms \cup {NoVm}]
      /\ VendorOK(vm', pc') /\ HandlesOK(reaper.handles, vm', pc')
    BY <1>1, <1>4, <1>5, TerminatedKeeps
<1>7. CloudTypeOK'  BY <1>1, <1>2, <1>6 DEF CloudTypeOK, CloudPcs, Terminate
<1> QED BY <1>3, <1>6, <1>7 DEF CloudIInv, Terminate

\* A sweep begins.
LEMMA SweepStartKeeps ==
    ASSUME CloudIInv, SweepStart
    PROVE  CloudIInv'
<1>1. CloudTypeOK  BY DEF CloudIInv
<1>2. reaper' = [pc |-> "list", now |-> clock, todo |-> <<"aws", "azure">>, handles |-> {}]
    BY DEF SweepStart, Backends
<1>3. reaper' \in [pc : {"idle", "list", "sweep"}, now : 0 .. Horizon,
                   todo : Seq({"aws", "azure"}), handles : SUBSET Handles]
    BY <1>1, <1>2 DEF CloudTypeOK
<1>4. CloudTypeOK'  BY <1>1, <1>3 DEF CloudTypeOK, SweepStart
<1>5. SweepOK(reaper', clock)  BY <1>1, <1>2 DEF SweepOK, CloudTypeOK
<1>6. HandlesOK(reaper'.handles, vm, pc)  BY <1>2 DEF HandlesOK
<1>7. Provisioning' = Provisioning  BY DEF Provisioning, SweepStart
<1> QED BY <1>4, <1>5, <1>6, <1>7 DEF CloudIInv, SweepStart

\* The sweep goes on with the handles hs.
LEMMA SweepGoesOn ==
    ASSUME CloudIInv, reaper.pc # "idle", NEW hs \in SUBSET Handles,
           GoOn(hs, Tail(reaper.todo)),
           UNCHANGED <<clock, pc, foreign, usage>>, cloudFaults' \in 0 .. MaxCloudFaults,
           vm' \in [Keys -> Vms \cup {NoVm}], VendorOK(vm', pc), HandlesOK(hs, vm', pc)
    PROVE  CloudIInv'
<1>1. CloudTypeOK /\ SweepOK(reaper, clock)  BY DEF CloudIInv
<1>2. /\ reaper' \in [pc : {"idle", "list", "sweep"}, now : 0 .. Horizon,
                      todo : Seq({"aws", "azure"}), handles : SUBSET Handles]
      /\ reaper'.handles = hs
      /\ SweepOK(reaper', clock)
    BY <1>1, GoOnKeeps
<1>3. CloudTypeOK'  BY <1>1, <1>2 DEF CloudTypeOK
<1>4. Provisioning' = Provisioning  BY DEF Provisioning
<1> QED BY <1>2, <1>3, <1>4 DEF CloudIInv

\* A fault is counted up to its bound.
LEMMA CloudFaultType ==
    ASSUME CloudTypeOK, CloudFault \/ UNCHANGED cloudFaults
    PROVE  cloudFaults' \in 0 .. MaxCloudFaults
    BY CloudConstants DEF CloudTypeOK, CloudFault

\* A backend is listed, or skipped.
LEMMA ListKeeps ==
    ASSUME CloudIInv, List
    PROVE  CloudIInv'
<1>1. CloudTypeOK /\ UNCHANGED <<clock, pc, vm, foreign, usage>> /\ reaper.pc = "list"
    BY DEF CloudIInv, List
<1>2. PICK hs \in {{}, Listed(Head(reaper.todo))} :
        GoOn(hs, Tail(reaper.todo)) /\ (CloudFault \/ UNCHANGED cloudFaults)
    BY DEF List, SkipBackend
<1>3. Head(reaper.todo) \in {"aws", "azure"}
  <2>1. reaper.todo \in Seq({"aws", "azure"}) /\ reaper.todo # <<>>
      BY <1>1 DEF CloudTypeOK, CloudIInv, SweepOK
  <2> QED BY <2>1
<1>4. hs \in SUBSET Handles /\ HandlesOK(hs, vm, pc)
  <2>1. CASE hs = {}  BY <2>1 DEF HandlesOK
  <2>2. CASE hs = Listed(Head(reaper.todo))  BY <1>1, <1>3, <2>2, ListedOK DEF CloudIInv
  <2> QED BY <2>1, <2>2
<1>5. cloudFaults' \in 0 .. MaxCloudFaults  BY <1>1, <1>2, CloudFaultType
<1>6. vm' \in [Keys -> Vms \cup {NoVm}] /\ VendorOK(vm', pc) /\ HandlesOK(hs, vm', pc)
    BY <1>1, <1>4 DEF CloudIInv, CloudTypeOK
<1>7. reaper.pc # "idle"  BY <1>1
<1> QED BY <1>1, <1>2, <1>4, <1>5, <1>6, <1>7, SweepGoesOn

\* A handle is reaped, left alone, or fails to be.
LEMMA ReapKeeps ==
    ASSUME CloudIInv, NEW h \in reaper.handles, Reap(h) \/ ReapFails(h)
    PROVE  CloudIInv'
<1>1. /\ CloudTypeOK /\ UNCHANGED <<clock, pc, foreign, usage>> /\ reaper.pc = "sweep"
      /\ GoOn(reaper.handles \ {h}, Tail(reaper.todo))
      /\ vm' \in {vm, Terminated(h.key)}
      /\ CloudFault \/ UNCHANGED cloudFaults
    BY DEF CloudIInv, Reap, ReapFails, Handled
<1>2. reaper.handles \ {h} \in SUBSET Handles /\ h.key \in Keys
    BY <1>1 DEF CloudTypeOK, Handles
<1>3. VendorOK(vm, pc) /\ HandlesOK(reaper.handles \ {h}, vm, pc)
    BY FewerHandles DEF CloudIInv
<1>4. /\ vm' \in [Keys -> Vms \cup {NoVm}]
      /\ VendorOK(vm', pc) /\ HandlesOK(reaper.handles \ {h}, vm', pc)
  <2>1. CASE vm' = vm  BY <1>1, <1>3, <2>1 DEF CloudTypeOK
  <2>2. CASE vm' = Terminated(h.key)  BY <1>1, <1>2, <1>3, <2>2, TerminatedKeeps
  <2> QED BY <1>1, <2>1, <2>2
<1>5. cloudFaults' \in 0 .. MaxCloudFaults  BY <1>1, CloudFaultType
<1>6. reaper.pc # "idle"  BY <1>1
<1> QED BY <1>1, <1>2, <1>4, <1>5, <1>6, SweepGoesOn

\* The host ends: no provision and no sweep is left.
LEMMA HostCrashKeeps ==
    ASSUME CloudIInv, HostCrash
    PROVE  CloudIInv'
<1>1. CloudTypeOK /\ reaper' = Idle  BY DEF CloudIInv, HostCrash
<1>2. \A r \in Reqs : pc'[r] = IF r \in Provisioning THEN "over" ELSE pc[r]
    BY DEF HostCrash
<1>3. pc' \in [Reqs -> CloudPcs]  BY <1>1 DEF HostCrash, CloudTypeOK, CloudPcs
<1>4. Provisioning' = {}  BY <1>2 DEF Provisioning
<1>5. Launched(pc) \subseteq Launched(pc')  BY <1>2 DEF Launched
<1>6. {} \in SUBSET Handles /\ HandlesOK({}, vm, pc')  BY DEF HandlesOK
<1>7. VendorOK(vm, pc')  BY <1>5, <1>6, LaunchedGrows DEF CloudIInv
<1>8. BudgetOK({}, usage, clock)  BY BudgetEmpty DEF CloudIInv
<1>9. cloudFaults' \in 0 .. MaxCloudFaults  BY <1>1, CloudFaultType DEF HostCrash
<1>10. /\ reaper' \in [pc : {"idle", "list", "sweep"}, now : 0 .. Horizon,
                       todo : Seq({"aws", "azure"}), handles : SUBSET Handles]
       /\ reaper'.handles = {} /\ SweepOK(reaper', clock)
    BY <1>1, CloudConstants DEF Idle, SweepOK, CloudTypeOK
<1>11. CloudTypeOK'  BY <1>1, <1>3, <1>9, <1>10 DEF CloudTypeOK, CloudPcs, HostCrash
<1> QED BY <1>4, <1>6, <1>7, <1>8, <1>10, <1>11 DEF CloudIInv, HostCrash

-----------------------------------------------------------------------------
(* The theorems. *)

\* The first state.
LEMMA CloudInitKeeps == CloudInit => CloudIInv
<1> SUFFICES ASSUME CloudInit PROVE CloudIInv  OBVIOUS
<1>1. ASSUME NEW k \in Keys, k \in DOMAIN Before
      PROVE  /\ vm[k] \in Vms /\ vm[k].owner = k
             /\ k \in Reqs /\ Key(k) = k /\ pc[k] = "over"
  <2>1. k \in Aws /\ k \notin Azure /\ Before[k] \in 0 .. Horizon  BY <1>1, CloudAssumption
  <2>2. vm[k] = [owner |-> k, expires |-> Before[k]]  BY <1>1 DEF CloudInit
  <2>3. k \in Reqs /\ Key(k) = k  BY <2>1 DEF Reqs, Key
  <2>4. pc[k] = "over"  BY <1>1, <2>3 DEF CloudInit
  <2> QED BY <2>1, <2>2, <2>3, <2>4 DEF Vms
<1>7. CloudTypeOK
  <2>1. vm \in [Keys -> Vms \cup {NoVm}]
    <3>1. vm = [k \in Keys |-> vm[k]]  BY DEF CloudInit
    <3>2. \A k \in Keys : vm[k] \in Vms \cup {NoVm}  BY <1>1 DEF CloudInit
    <3> QED BY <3>1, <3>2
  <2> QED BY <2>1, CloudConstants DEF CloudInit, CloudTypeOK, Idle
<1>2. Provisioning = {}  BY DEF CloudInit, Provisioning
<1>3. BudgetOK({}, usage, clock)
  <2>1. \A m \in Months : usage[m] = 0  BY DEF CloudInit
  <2>2. 0 <= CloudBound  BY BoundAboveLimit
  <2> QED BY <2>1, <2>2, FS_EmptySet, CloudConstants DEF BudgetOK, Room
<1>4. VendorOK(vm, pc)
  <2> SUFFICES ASSUME NEW k \in Keys, vm[k] # NoVm
               PROVE  Key(vm[k].owner) = k /\ vm[k].owner \in Launched(pc)
      BY DEF VendorOK
  <2>1. k \in DOMAIN Before  BY DEF CloudInit
  <2>2. vm[k].owner = k /\ k \in Reqs /\ Key(k) = k /\ pc[k] = "over"  BY <1>1, <2>1, Zenon
  <2> QED BY <2>2 DEF Launched
<1>5. HandlesOK(reaper.handles, vm, pc)  BY DEF CloudInit, Idle, HandlesOK
<1>6. SweepOK(reaper, clock)  BY DEF CloudInit, Idle, SweepOK
<1> QED BY <1>2, <1>3, <1>4, <1>5, <1>6, <1>7 DEF CloudIInv

\* Every step.
LEMMA CloudNextKeeps == CloudIInv /\ [CloudNext]_cloudVars => CloudIInv'
<1> SUFFICES ASSUME CloudIInv, [CloudNext]_cloudVars PROVE CloudIInv'  OBVIOUS
<1>0. CASE OthersLaunch  BY <1>0, OthersLaunchKeeps
<1>1. CASE TimePasses  BY <1>1, TimePassesKeeps
<1>2. CASE Sweep
  <2>1. CASE SweepStart  BY <2>1, SweepStartKeeps
  <2>2. CASE List  BY <2>2, ListKeeps
  <2>3. CASE \E h \in reaper.handles : Reap(h)  BY <2>3, ReapKeeps
  <2> QED BY <1>2, <2>1, <2>2, <2>3 DEF Sweep
<1>3. CASE HostCrash  BY <1>3, HostCrashKeeps
<1>4. CASE \E h \in reaper.handles : ReapFails(h)  BY <1>4, ReapKeeps
<1>5. CASE \E r \in Reqs : Provision(r)
  <2>1. PICK r \in Reqs : Provision(r)  BY <1>5
  <2>2. CASE Check(r)  BY <2>2, CheckKeeps
  <2>3. CASE RunInstances(r)  BY <2>3, RunInstancesKeeps
  <2>4. CASE CreateOrUpdate(r)  BY <2>4, CreateOrUpdateKeeps
  <2>5. CASE LaunchFails(r) \/ StartFails(r) \/ RecordStart(r)  BY <2>5, ProvisionEndsKeeps
  <2>6. CASE Terminate(r)  BY <2>6, TerminateKeeps
  <2> QED BY <2>1, <2>2, <2>3, <2>4, <2>5, <2>6 DEF Provision
<1>6. CASE UNCHANGED cloudVars
    BY <1>6 DEF cloudVars, CloudIInv, CloudTypeOK, Provisioning
<1> QED BY <1>0, <1>1, <1>2, <1>3, <1>4, <1>5, <1>6 DEF CloudNext

\* The inductive invariant of the budget, the vendor and the sweep.
THEOREM CloudInvariant == CloudSpec => []CloudIInv
    BY CloudInitKeeps, CloudNextKeeps, PTL DEF CloudSpec

\* The types.
THEOREM CloudTypes == CloudSpec => []CloudTypeOK
<1>1. CloudIInv => CloudTypeOK  BY DEF CloudIInv
<1> QED BY <1>1, CloudInvariant, PTL

\* CloudBudgetGate.check against recordStart: whatever number of provisions
\* run beside one another and across the end of a month, a month's rows exceed
\* the limit by at most the cost of the workers, less one.
THEOREM CloudOverrun == CloudSpec => []Overrun
<1>1. CloudIInv => Overrun
    BY DEF CloudIInv, BudgetOK, CloudBound, Overrun, SumForRange
<1> QED BY <1>1, CloudInvariant, PTL

\* A step in which something goes and the sweep moves on reaped it.
LEMMA ReapedBy ==
    ASSUME CloudIInv, CloudNext, NEW k \in Keys,
           vm[k] # NoVm, vm'[k] = NoVm, reaper' # reaper
    PROVE  \E h \in reaper.handles : Reap(h) /\ PastTtl(h) /\ h.key = k
<1>1. vm' # vm /\ reaper' # reaper  OBVIOUS
<1>2. ~TimePasses /\ ~OthersLaunch /\ ~HostCrash /\ ~SweepStart /\ ~List
    BY <1>1 DEF TimePasses, OthersLaunch, HostCrash, SweepStart, List
<1>3. \A h \in reaper.handles : ~ReapFails(h)  BY <1>1 DEF ReapFails
<1>4. \A r \in Reqs : ~Provision(r)
    BY <1>1 DEF Provision, Check, RunInstances, CreateOrUpdate, LaunchFails, StartFails,
                RecordStart, Terminate
<1>5. PICK h \in reaper.handles : Reap(h)  BY <1>2, <1>3, <1>4 DEF CloudNext, Sweep
<1>6. PastTtl(h) /\ vm' = Terminated(h.key)  BY <1>1, <1>5 DEF Reap
<1>7. h.key = k
  <2>1. vm \in [Keys -> Vms \cup {NoVm}]  BY DEF CloudIInv, CloudTypeOK
  <2> QED BY <1>6, <2>1 DEF Terminated
<1> QED BY <1>5, <1>6, <1>7

\* CloudReaper.runOnce: a sweep of any length, over any page of instances,
\* ends nothing before its time and nothing without a time, but a VM that took
\* over an Azure name it had listed.
THEOREM CloudTtlRespected == CloudSpec => TtlRespected
<1> DEFINE Young(k) ==
       vm[k] # NoVm /\ vm'[k] = NoVm /\ reaper' # reaper =>
          \/ vm[k].expires \in 1 .. clock
          \/ BackendOf(k) = "azure" /\ \A h \in reaper.handles : h.owner # vm[k].owner
<1>1. CloudIInv /\ [CloudNext]_cloudVars => [\A k \in Keys : Young(k)]_cloudVars
  <2> SUFFICES ASSUME CloudIInv, CloudNext, NEW k \in Keys,
                      vm[k] # NoVm, vm'[k] = NoVm, reaper' # reaper
               PROVE  \/ vm[k].expires \in 1 .. clock
                      \/ /\ BackendOf(k) = "azure"
                         /\ \A h \in reaper.handles : h.owner # vm[k].owner
      OBVIOUS
  <2>1. PICK h \in reaper.handles : PastTtl(h) /\ h.key = k  BY ReapedBy
  <2>2. h \in Handles /\ reaper.now \in Nat /\ clock \in Nat /\ vm[k] \in Vms
      BY DEF CloudIInv, CloudTypeOK
  <2>3. h.expires \in Nat /\ vm[k].expires \in Nat /\ vm[k].owner \in Reqs /\ h.owner \in Reqs
      BY <2>2 DEF Handles, Vms
  <2>4. h.expires \in 1 .. clock
    <3>1. h.expires \in 1 .. reaper.now /\ reaper.now <= clock
        BY <2>1 DEF PastTtl, CloudIInv, SweepOK
    <3> QED BY <2>2, <2>3, <3>1
  <2>5. CASE h.owner = vm[k].owner
    <3>1. vm[k].expires = h.expires  BY <2>1, <2>5 DEF CloudIInv, HandlesOK
    <3> QED BY <2>4, <3>1
  <2>6. CASE h.owner # vm[k].owner
    <3>1. Key(h.owner) = k /\ Key(vm[k].owner) = k
        BY <2>1 DEF CloudIInv, HandlesOK, VendorOK
    <3>2. k = AzureName  BY <2>3, <2>6, <3>1 DEF Key
    <3>3. \A g \in reaper.handles : g = h  BY <2>1, <3>2 DEF CloudIInv, HandlesOK
    <3> QED BY <2>6, <3>2, <3>3 DEF BackendOf
  <2> QED BY <2>5, <2>6
<1> QED BY <1>1, CloudInvariant, PTL DEF TtlRespected, CloudSpec

(***************************************************************************)
(* The health scheduler, for any number of schedulers, schedules, faults   *)
(* and commands and any interval.                                          *)
(***************************************************************************)

\* A scheduler has a list while it is in a tick.  It starts a schedule with
\* nothing said; it has reported the outcome when it is past its events, and
\* an error when it is past the catch block; it reports no failure of a probe
\* that passed.
ProcOK(r) ==
    /\ r.pc = "idle" <=> r.due = {}
    /\ r.pc = "invoke" => r.said = {}
    /\ r.pc = "audit" => /\ "health-tick" \in r.said
                         /\ r.out = "fail" => "health-failed" \in r.said
    /\ r.pc = "auditError" => "schedule-error" \in r.said
    /\ "health-failed" \in r.said => r.out = "fail"

\* Between a probe and its watermark, the scheduler is at s.
Owes(r, s) ==
    r.pc \in {"read", "write", "readAgain", "writeAgain"} /\ Min(r.due) = s

\* A row is no older than the newest probe of its schedule, unless its
\* watermark went missing or a scheduler has yet to write it.
Spaced(s, sc, gp, ls, pr) ==
    gp[s] >= sc[s].age \/ s \in ls \/ \E q \in Schedulers : Owes(pr[q], s)

SpacedOut(sc, gp, ls, pr) == \A s \in Schedules : Spaced(s, sc, gp, ls, pr)

\* An active row is wanted, or was put back by a stale write.
Wanted(sc, wt, cl) == \A s \in Schedules : sc[s].active = 1 => s \in wt \cup cl

HealthIInv ==
    /\ HealthTypeOK
    /\ \A p \in Schedulers : ProcOK(proc[p])
    /\ SpacedOut(sched, gap, lost, proc)
    /\ Wanted(sched, want, clob)

-----------------------------------------------------------------------------
(* The schedule a scheduler is at. *)

\* Among numbers there is a least one.
LEMMA LeastId ==
    ASSUME NEW S, S \subseteq Nat, S # {}
    PROVE  \E x \in S : \A y \in S : x <= y
<1> DEFINE R == {ss \in Nat \X Nat : ss[1] < ss[2]}
<1>1. IsWellFoundedOn(R, Nat)  BY NatLessThanWellFounded DEF OpToRel
<1>2. PICK x \in S : \A y \in S : <<y, x>> \notin R
  <2> HIDE DEF R
  <2> QED BY <1>1, WFMin
<1>3. ASSUME NEW y \in S PROVE x <= y
  <2>1. <<y, x>> \notin R /\ <<y, x>> \in Nat \X Nat  BY <1>2
  <2>2. ~(y < x)  BY <2>1
  <2> QED BY <2>2
<1> QED BY <1>3

\* The next of a list is one of it.
LEMMA MinIn ==
    ASSUME NEW S \in SUBSET Schedules, S # {}
    PROVE  Min(S) \in S
<1>1. S \subseteq Nat  BY HealthBoundsAssumption DEF Schedules
<1>2. \E x \in S : \A y \in S : x <= y  BY <1>1, LeastId
<1> QED BY <1>2 DEF Min

\* Stages of a scheduler and what it says.
HealthPcs == {"idle", "invoke", "read", "write", "audit", "readAgain", "writeAgain",
              "auditError"}
Sayings == {"health-tick", "health-failed", "schedule-error"}

\* The fields of a scheduler's record.
LEMMA ProcFields ==
    ASSUME NEW r \in Proc
    PROVE  /\ r.pc \in HealthPcs /\ r.since \in Ages /\ r.due \in SUBSET Schedules
           /\ r.out \in Outcomes /\ r.active \in Flag /\ r.said \in SUBSET Sayings
    BY DEF Proc, HealthPcs, Sayings

\* A scheduler in a tick is at a schedule of its list.
LEMMA CurIn ==
    ASSUME HealthIInv, NEW p \in Schedulers, ~ProcAt(p, "idle")
    PROVE  /\ proc[p] \in Proc /\ proc[p].due \in SUBSET Schedules
           /\ Cur(p) \in proc[p].due /\ Cur(p) \in Schedules
<1>1. proc[p] \in Proc  BY DEF HealthIInv, HealthTypeOK
<1>2. proc[p].due \in SUBSET Schedules  BY <1>1, ProcFields
<1>3. proc[p].due # {}  BY DEF HealthIInv, ProcOK, ProcAt
<1> QED BY <1>1, <1>2, <1>3, MinIn DEF Cur

\* A scheduler begins with a list.
LEMMA ProcBegins ==
    ASSUME NEW d \in SUBSET Schedules, NEW t \in Ages
    PROVE  /\ Invoking(d, t) \in Proc
           /\ d # {} => ProcOK(Invoking(d, t))
<1>1. 1 \in Flag /\ "pass" \in Outcomes  BY DEF Flag, Outcomes
<1>2. Invoking(d, t) \in Proc  BY <1>1 DEF Invoking, Proc
<1>3. d # {} => ProcOK(Invoking(d, t))  BY DEF Invoking, ProcOK
<1> QED BY <1>2, <1>3

\* The scheduler between two ticks.
LEMMA IdleProcOK == IdleProc \in Proc /\ ProcOK(IdleProc) /\ \A s : ~Owes(IdleProc, s)
<1>1. 0 \in Ages /\ 1 \in Flag  BY IntervalAssumption DEF Ages, Flag
<1>2. IdleProc \in Proc  BY <1>1 DEF Proc, IdleProc, Outcomes
<1>3. ProcOK(IdleProc) /\ \A s : ~Owes(IdleProc, s)  BY DEF ProcOK, Owes, IdleProc
<1> QED BY <1>2, <1>3

\* One scheduler's record changes: what it owes, it owes still.
LEMMA OwesStill ==
    ASSUME NEW pr \in [Schedulers -> Proc], NEW p \in Schedulers, NEW n \in Proc,
           NEW sc, NEW gp, NEW ls, NEW s \in Schedules,
           Spaced(s, sc, gp, ls, pr), Owes(pr[p], s) => Owes(n, s)
    PROVE  Spaced(s, sc, gp, ls, [pr EXCEPT ![p] = n])
<1>1. CASE gp[s] >= sc[s].age \/ s \in ls  BY <1>1 DEF Spaced
<1>2. CASE \E q \in Schedulers : Owes(pr[q], s)
  <2>1. PICK q \in Schedulers : Owes(pr[q], s)  BY <1>2
  <2>2. Owes([pr EXCEPT ![p] = n][q], s)  BY <2>1
  <2> QED BY <2>2 DEF Spaced
<1> QED BY <1>1, <1>2 DEF Spaced

\* A step of one scheduler that concerns the schedule c.
LEMMA SchedulerKeeps ==
    ASSUME HealthIInv, NEW p \in Schedulers, NEW n \in Proc, ProcOK(n),
           proc' = [proc EXCEPT ![p] = n],
           UNCHANGED <<rows, op, cmds, want>>, faults' \in 0 .. MaxFaults,
           NEW c \in Schedules, \A s \in Schedules : Owes(proc[p], s) => s = c,
           sched' \in [Schedules -> Row], gap' \in [Schedules -> Ages],
           lost' \in SUBSET Schedules, clob' \in SUBSET Schedules,
           \A s \in Schedules \ {c} :
              /\ sched'[s] = sched[s] /\ gap'[s] = gap[s]
              /\ s \in lost => s \in lost'
              /\ s \in clob => s \in clob',
           Spaced(c, sched', gap', lost', proc'),
           sched'[c].active = 1 => c \in want \cup clob'
    PROVE  HealthIInv'
<1>1. HealthTypeOK /\ proc \in [Schedulers -> Proc]  BY DEF HealthIInv, HealthTypeOK
<1>2. \A q \in Schedulers : ProcOK(proc'[q])  BY <1>1 DEF HealthIInv
<1>3. HealthTypeOK'  BY <1>1, <1>2 DEF HealthTypeOK, ProcOK
<1>4. SpacedOut(sched', gap', lost', proc')
  <2> SUFFICES ASSUME NEW s \in Schedules, s # c
               PROVE  Spaced(s, sched', gap', lost', proc')
      BY DEF SpacedOut
  <2>1. Spaced(s, sched, gap, lost, proc)  BY DEF HealthIInv, SpacedOut
  <2>2. Spaced(s, sched, gap, lost, proc')  BY <1>1, <2>1, OwesStill
  <2> QED BY <2>2 DEF Spaced
<1>5. Wanted(sched', want, clob')  BY DEF HealthIInv, Wanted
<1> QED BY <1>2, <1>3, <1>4, <1>5 DEF HealthIInv

\* A step of one scheduler that leaves the table alone.
LEMMA SchedulerOnlyKeeps ==
    ASSUME HealthIInv, NEW p \in Schedulers, NEW n \in Proc, ProcOK(n),
           proc' = [proc EXCEPT ![p] = n],
           \A s \in Schedules : Owes(proc[p], s) => Owes(n, s),
           UNCHANGED <<rows, sched, op, cmds, gap, lost, want, clob>>,
           faults' \in 0 .. MaxFaults
    PROVE  HealthIInv'
<1>1. HealthTypeOK /\ proc \in [Schedulers -> Proc]  BY DEF HealthIInv, HealthTypeOK
<1>2. \A q \in Schedulers : ProcOK(proc'[q])  BY <1>1 DEF HealthIInv
<1>3. HealthTypeOK'  BY <1>1, <1>2 DEF HealthTypeOK, ProcOK
<1>4. SpacedOut(sched, gap, lost, proc')
    BY <1>1, OwesStill DEF HealthIInv, SpacedOut
<1> QED BY <1>2, <1>3, <1>4 DEF HealthIInv

-----------------------------------------------------------------------------
(* The scheduler's steps. *)

\* A fault is counted up to its bound.
LEMMA HealthFaultType ==
    ASSUME HealthTypeOK, Fault \/ UNCHANGED faults
    PROVE  faults' \in 0 .. MaxFaults
    BY HealthBoundsAssumption DEF HealthTypeOK, Fault

\* A scheduler moves on to another stage of the same schedule.
LEMMA GoKeeps ==
    ASSUME HealthIInv, NEW p \in Schedulers, ~ProcAt(p, "idle"), ~ProcAt(p, "invoke"),
           Go(p, "readAgain"),
           UNCHANGED <<rows, sched, op, cmds, gap, lost, want, clob>>,
           Fault \/ UNCHANGED faults
    PROVE  HealthIInv'
<1>1. HealthTypeOK /\ proc \in [Schedulers -> Proc] /\ proc[p] \in Proc /\ ProcOK(proc[p])
    BY DEF HealthIInv, HealthTypeOK
<1> DEFINE n == [proc[p] EXCEPT !.pc = "readAgain"]
<1>2. proc' = [proc EXCEPT ![p] = n]  BY <1>1 DEF Go
<1>3. /\ n \in Proc /\ n.pc = "readAgain" /\ n.due = proc[p].due /\ n.said = proc[p].said
      /\ n.out = proc[p].out
    BY <1>1 DEF Proc
<1> HIDE DEF n
<1>4. ProcOK(n)  BY <1>1, <1>3 DEF ProcOK, ProcAt
<1>5. \A s \in Schedules : Owes(proc[p], s) => Owes(n, s)  BY <1>3 DEF Owes
<1>6. faults' \in 0 .. MaxFaults  BY <1>1, HealthFaultType
<1> QED BY <1>2, <1>3, <1>4, <1>5, <1>6, SchedulerOnlyKeeps

\* A tick begins with the due schedules.
LEMMA TickBeginKeeps ==
    ASSUME HealthIInv, NEW p \in Schedulers, TickBegin(p)
    PROVE  HealthIInv'
<1>1. HealthTypeOK /\ proc[p] \in Proc  BY DEF HealthIInv, HealthTypeOK
<1> DEFINE n == Invoking(DueSchedules, 0)
<1>2. proc' = [proc EXCEPT ![p] = n]  BY DEF TickBegin
<1>3. DueSchedules \in SUBSET Schedules /\ DueSchedules # {}
    BY DEF DueSchedules, TickBegin
<1>4. 0 \in Ages  BY IntervalAssumption DEF Ages
<1>6. n \in Proc /\ ProcOK(n)  BY <1>3, <1>4, ProcBegins
<1> HIDE DEF n
<1>8. \A s \in Schedules : Owes(proc[p], s) => Owes(n, s)
    BY DEF Owes, TickBegin, ProcAt
<1>9. faults' \in 0 .. MaxFaults  BY <1>1 DEF HealthTypeOK, TickBegin
<1> QED BY <1>2, <1>6, <1>8, <1>9, SchedulerOnlyKeeps DEF TickBegin

\* The next schedule of the tick, or its end.
LEMMA NextDueKeeps ==
    ASSUME HealthIInv, NEW p \in Schedulers, ProcAt(p, "audit") \/ ProcAt(p, "auditError"),
           NextDue(p),
           UNCHANGED <<rows, sched, op, cmds, faults, gap, lost, want, clob>>
    PROVE  HealthIInv'
<1>1. HealthTypeOK /\ proc[p] \in Proc /\ proc[p].due \in SUBSET Schedules
      /\ proc[p].since \in Ages
    BY ProcFields DEF HealthIInv, HealthTypeOK
<1>2. \A s \in Schedules : ~Owes(proc[p], s)  BY DEF Owes, ProcAt
<1>3. faults' \in 0 .. MaxFaults  BY <1>1 DEF HealthTypeOK
<1> DEFINE rest == proc[p].due \ {Cur(p)}
<1>4. CASE rest = {}
  <2>1. proc' = [proc EXCEPT ![p] = IdleProc]  BY <1>4 DEF NextDue
  <2> QED BY <1>2, <1>3, <2>1, IdleProcOK, SchedulerOnlyKeeps
<1>5. CASE rest # {}
  <2> DEFINE n == Invoking(rest, proc[p].since)
  <2>1. proc' = [proc EXCEPT ![p] = n]  BY <1>5 DEF NextDue
  <2>2. rest \in SUBSET Schedules  BY <1>1
  <2>3. n \in Proc /\ ProcOK(n)  BY <1>1, <1>5, <2>2, ProcBegins
  <2> HIDE DEF n
  <2> QED BY <1>2, <1>3, <2>1, <2>3, SchedulerOnlyKeeps
<1> QED BY <1>4, <1>5

\* A probe starts and answers, or throws: the schedule is owed a watermark.
LEMMA InvokeKeeps ==
    ASSUME HealthIInv, NEW p \in Schedulers, RunHealthCheck(p) \/ InvokeThrows(p)
    PROVE  HealthIInv'
<1>1. HealthTypeOK /\ proc \in [Schedulers -> Proc] /\ proc[p] \in Proc /\ ProcOK(proc[p])
    BY DEF HealthIInv, HealthTypeOK
<1>2. /\ ProcAt(p, "invoke") /\ Probed(p)
      /\ UNCHANGED <<rows, sched, op, cmds, faults, lost, want, clob>>
    BY DEF RunHealthCheck, InvokeThrows
<1>3. Cur(p) \in Schedules /\ proc[p].due # {}
    BY <1>2, CurIn DEF ProcAt
<1>4. PICK n \in Proc : /\ proc' = [proc EXCEPT ![p] = n]
                        /\ n.pc \in {"read", "readAgain"} /\ n.due = proc[p].due
                        /\ n.said = proc[p].said
  <2>1. CASE RunHealthCheck(p)
    <3>1. PICK o \in Outcomes : proc' = [proc EXCEPT ![p].pc = "read", ![p].out = o]
        BY <2>1 DEF RunHealthCheck, Outcomes
    <3> DEFINE m == [proc[p] EXCEPT !.pc = "read", !.out = o]
    <3>2. proc' = [proc EXCEPT ![p] = m]  BY <1>1, <3>1
    <3>3. m \in Proc /\ m.pc = "read" /\ m.due = proc[p].due /\ m.said = proc[p].said
        BY <1>1 DEF Proc
    <3> QED BY <3>2, <3>3
  <2>2. CASE InvokeThrows(p)
    <3> DEFINE m == [proc[p] EXCEPT !.pc = "readAgain"]
    <3>1. proc' = [proc EXCEPT ![p] = m]  BY <1>1, <2>2 DEF InvokeThrows, Go
    <3>2. m \in Proc /\ m.pc = "readAgain" /\ m.due = proc[p].due /\ m.said = proc[p].said
        BY <1>1 DEF Proc
    <3> QED BY <3>1, <3>2
  <2> QED BY <2>1, <2>2
<1>5. ProcOK(n)
  <2>1. proc[p].said = {}  BY <1>1, <1>2 DEF ProcOK, ProcAt
  <2> QED BY <1>3, <1>4, <2>1 DEF ProcOK
<1>6. /\ gap' \in [Schedules -> Ages]
      /\ \A s \in Schedules \ {Cur(p)} : gap'[s] = gap[s]
  <2>1. gap \in [Schedules -> Ages] /\ proc[p].since \in Ages
      BY <1>1, ProcFields DEF HealthTypeOK
  <2> QED BY <1>2, <1>3, <2>1 DEF Probed
<1>7. Spaced(Cur(p), sched', gap', lost', proc')
  <2>1. Owes(proc'[p], Cur(p))  BY <1>1, <1>4 DEF Owes, Cur
  <2> QED BY <2>1 DEF Spaced
<1>8. \A s \in Schedules : Owes(proc[p], s) => s = Cur(p)  BY DEF Owes, Cur
<1>9. /\ sched' \in [Schedules -> Row] /\ lost' \in SUBSET Schedules
      /\ clob' \in SUBSET Schedules /\ faults' \in 0 .. MaxFaults
    BY <1>1, <1>2 DEF HealthTypeOK
<1>10. sched'[Cur(p)].active = 1 => Cur(p) \in want \cup clob'
    BY <1>2, <1>3 DEF HealthIInv, Wanted
<1> QED BY <1>2, <1>3, <1>4, <1>5, <1>6, <1>7, <1>8, <1>9, <1>10, SchedulerKeeps

\* The read of an update.
LEMMA UpdateReadKeeps ==
    ASSUME HealthIInv, NEW p \in Schedulers, UpdateRead(p)
    PROVE  HealthIInv'
<1>1. HealthTypeOK /\ proc \in [Schedulers -> Proc] /\ proc[p] \in Proc /\ ProcOK(proc[p])
    BY DEF HealthIInv, HealthTypeOK
<1>2. Cur(p) \in Schedules /\ proc[p].due # {}
    BY CurIn DEF ProcAt, UpdateRead
<1>3. PICK a \in Flag : a = sched[Cur(p)].active  BY <1>1, <1>2 DEF HealthTypeOK, Row
<1>4. PICK to \in {"write", "writeAgain"} :
        to = IF proc[p].pc = "read" THEN "write" ELSE "writeAgain"
    OBVIOUS
<1> DEFINE n == [proc[p] EXCEPT !.pc = to, !.active = a]
<1>5. proc' = [proc EXCEPT ![p] = n]  BY <1>1, <1>3, <1>4 DEF UpdateRead
<1>6. /\ n \in Proc /\ n.pc = to /\ n.due = proc[p].due /\ n.said = proc[p].said
      /\ n.out = proc[p].out
    BY <1>1 DEF Proc
<1> HIDE DEF n
<1>7. ProcOK(n)  BY <1>1, <1>2, <1>6 DEF ProcOK
<1>8. \A s \in Schedules : Owes(proc[p], s) => Owes(n, s)  BY <1>6 DEF Owes
<1>9. faults' \in 0 .. MaxFaults  BY <1>1 DEF HealthTypeOK, UpdateRead
<1> QED BY <1>5, <1>6, <1>7, <1>8, <1>9, SchedulerOnlyKeeps DEF UpdateRead

\* The write of a watermark: the row is as old as the newest probe, or the
\* watermark counts as lost; an `active` it puts back counts as clobbered.
LEMMA WatermarkEffect ==
    ASSUME HealthIInv, NEW p \in Schedulers, ~ProcAt(p, "idle"), WriteWatermark(p),
           UNCHANGED gap
    PROVE  /\ sched' \in [Schedules -> Row] /\ lost' \in SUBSET Schedules
           /\ clob' \in SUBSET Schedules
           /\ \A s \in Schedules \ {Cur(p)} :
                 /\ sched'[s] = sched[s]
                 /\ s \in lost => s \in lost'
                 /\ s \in clob => s \in clob'
           /\ gap[Cur(p)] >= sched'[Cur(p)].age \/ Cur(p) \in lost'
           /\ sched'[Cur(p)].active = 1 => Cur(p) \in want \cup clob'
<1> DEFINE c == Cur(p)
<1>1. HealthTypeOK /\ proc[p] \in Proc /\ c \in Schedules
    BY CurIn DEF HealthIInv
<1>2. proc[p].since \in Ages /\ proc[p].active \in Flag  BY <1>1, ProcFields
<1>3. sched \in [Schedules -> Row] /\ sched[c] \in Row /\ gap[c] \in Ages
    BY <1>1 DEF HealthTypeOK
<1>4. /\ sched' = [sched EXCEPT ![c].age = proc[p].since, ![c].active = proc[p].active]
      /\ lost' = Put(lost, c, proc[p].since # gap[c])
      /\ clob' = IF proc[p].active # sched[c].active THEN clob \cup {c} ELSE clob
    BY DEF WriteWatermark
<1>5. lost \in SUBSET Schedules /\ clob \in SUBSET Schedules  BY <1>1 DEF HealthTypeOK
<1>6. c \in want \cup clob \/ sched[c].active # 1  BY <1>1 DEF HealthIInv, Wanted
<1> HIDE DEF c
<1>7. PICK r \in Row : /\ r.age = proc[p].since /\ r.active = proc[p].active
                       /\ sched' = [sched EXCEPT ![c] = r]
  <2> DEFINE r == [sched[c] EXCEPT !.age = proc[p].since, !.active = proc[p].active]
  <2>1. r \in Row /\ r.age = proc[p].since /\ r.active = proc[p].active
      BY <1>2, <1>3 DEF Row
  <2>2. sched' = [sched EXCEPT ![c] = r]  BY <1>3, <1>4
  <2> QED BY <2>1, <2>2
<1>8. sched' \in [Schedules -> Row] /\ sched'[c] = r
      /\ \A s \in Schedules \ {c} : sched'[s] = sched[s]
    BY <1>1, <1>3, <1>7
<1>9. /\ lost' \in SUBSET Schedules
      /\ \A s \in Schedules \ {c} : s \in lost => s \in lost'
      /\ proc[p].since # gap[c] => c \in lost'
    BY <1>1, <1>4, <1>5 DEF Put
<1>10. /\ clob' \in SUBSET Schedules
       /\ \A s \in Schedules : s \in clob => s \in clob'
       /\ proc[p].active # sched[c].active => c \in clob'
    BY <1>1, <1>4, <1>5
<1>11. gap[c] >= sched'[c].age \/ c \in lost'
  <2>1. CASE proc[p].since = gap[c]  BY <1>3, <1>7, <1>8, <2>1, IntervalAssumption DEF Ages
  <2> QED BY <1>9, <2>1
<1>12. sched'[c].active = 1 => c \in want \cup clob'
    BY <1>6, <1>7, <1>8, <1>10
<1> QED BY <1>8, <1>9, <1>10, <1>11, <1>12 DEF c

\* A scheduler is done with its schedule: it has said x and goes on to the
\* audit.
LEMMA SaidEffect ==
    ASSUME HealthIInv, NEW p \in Schedulers, ~ProcAt(p, "idle"),
           NEW to \in {"audit", "auditError"}, NEW x \in SUBSET Sayings,
           proc' = [proc EXCEPT ![p].pc = to, ![p].active = 1, ![p].said = @ \cup x],
           to = "audit" => /\ "health-tick" \in x
                           /\ proc[p].out = "fail" => "health-failed" \in x,
           to = "auditError" => "schedule-error" \in x,
           "health-failed" \in x => proc[p].out = "fail"
    PROVE  \E n \in Proc : ProcOK(n) /\ proc' = [proc EXCEPT ![p] = n]
<1>1. proc \in [Schedulers -> Proc] /\ proc[p] \in Proc /\ ProcOK(proc[p])
    BY DEF HealthIInv, HealthTypeOK
<1>2. PICK y \in SUBSET Sayings : y = proc[p].said \cup x  BY <1>1, ProcFields
<1>3. 1 \in Flag  BY DEF Flag
<1> DEFINE n == [proc[p] EXCEPT !.pc = to, !.active = 1, !.said = y]
<1>4. proc' = [proc EXCEPT ![p] = n]  BY <1>1, <1>2
<1>5. /\ n \in Proc /\ n.pc = to /\ n.due = proc[p].due /\ n.said = y /\ n.out = proc[p].out
    BY <1>1, <1>3 DEF Proc, Sayings
<1> HIDE DEF n
<1>6. proc[p].due # {}  BY <1>1 DEF ProcOK, ProcAt
<1>7. ProcOK(n)  BY <1>1, <1>2, <1>5, <1>6 DEF ProcOK
<1> QED BY <1>4, <1>5, <1>7

\* The watermark is written, in the tick or in its catch block.
LEMMA WriteKeeps ==
    ASSUME HealthIInv, NEW p \in Schedulers, UpdateWrite(p) \/ CatchWrite(p)
    PROVE  HealthIInv'
<1>1. /\ ~ProcAt(p, "idle") /\ WriteWatermark(p)
      /\ UNCHANGED <<rows, op, cmds, faults, gap, want>>
    BY DEF UpdateWrite, CatchWrite, ProcAt
<1>2. HealthTypeOK /\ Cur(p) \in Schedules  BY <1>1, CurIn DEF HealthIInv
<1>3. PICK n \in Proc : ProcOK(n) /\ proc' = [proc EXCEPT ![p] = n]
  <2>1. CASE UpdateWrite(p)
    <3>1. /\ OutcomeEvents(p) \in SUBSET Sayings /\ "health-tick" \in OutcomeEvents(p)
          /\ proc[p].out = "fail" <=> "health-failed" \in OutcomeEvents(p)
        BY DEF OutcomeEvents, Sayings
    <3>2. proc' = [proc EXCEPT ![p].pc = "audit", ![p].active = 1,
                               ![p].said = @ \cup OutcomeEvents(p)]
        BY <2>1 DEF UpdateWrite
    <3> QED BY <1>1, <3>1, <3>2, SaidEffect
  <2>2. CASE CatchWrite(p)
    <3>1. {"schedule-error"} \in SUBSET Sayings  BY DEF Sayings
    <3>2. proc' = [proc EXCEPT ![p].pc = "auditError", ![p].active = 1,
                               ![p].said = @ \cup {"schedule-error"}]
        BY <2>2 DEF CatchWrite
    <3> QED BY <1>1, <3>1, <3>2, SaidEffect
  <2> QED BY <2>1, <2>2
<1>4. /\ sched' \in [Schedules -> Row] /\ lost' \in SUBSET Schedules
      /\ clob' \in SUBSET Schedules
      /\ \A s \in Schedules \ {Cur(p)} :
            /\ sched'[s] = sched[s]
            /\ s \in lost => s \in lost'
            /\ s \in clob => s \in clob'
      /\ gap[Cur(p)] >= sched'[Cur(p)].age \/ Cur(p) \in lost'
      /\ sched'[Cur(p)].active = 1 => Cur(p) \in want \cup clob'
    BY <1>1, WatermarkEffect
<1>5. Spaced(Cur(p), sched', gap', lost', proc')  BY <1>1, <1>4 DEF Spaced
<1>6. \A s \in Schedules : Owes(proc[p], s) => s = Cur(p)  BY DEF Owes, Cur
<1>7. gap' \in [Schedules -> Ages] /\ faults' \in 0 .. MaxFaults /\ gap' = gap
    BY <1>1, <1>2 DEF HealthTypeOK
<1> QED BY <1>1, <1>2, <1>3, <1>4, <1>5, <1>6, <1>7, SchedulerKeeps

\* The watermark is given up: by the catch block, or with the process.
LEMMA GiveUpWatermark ==
    ASSUME HealthIInv, NEW p \in Schedulers, ~ProcAt(p, "idle"), NEW n \in Proc, ProcOK(n),
           proc' = [proc EXCEPT ![p] = n], lost' = lost \cup {Cur(p)},
           UNCHANGED <<rows, sched, op, cmds, gap, want, clob>>,
           Fault \/ UNCHANGED faults
    PROVE  HealthIInv'
<1>1. HealthTypeOK /\ Cur(p) \in Schedules  BY CurIn DEF HealthIInv
<1>2. Spaced(Cur(p), sched', gap', lost', proc')  BY DEF Spaced
<1>3. \A s \in Schedules : Owes(proc[p], s) => s = Cur(p)  BY DEF Owes, Cur
<1>4. /\ sched' \in [Schedules -> Row] /\ lost' \in SUBSET Schedules
      /\ clob' \in SUBSET Schedules /\ gap' \in [Schedules -> Ages]
    BY <1>1 DEF HealthTypeOK
<1>5. faults' \in 0 .. MaxFaults  BY <1>1, HealthFaultType
<1>6. sched'[Cur(p)].active = 1 => Cur(p) \in want \cup clob'
    BY <1>1 DEF HealthIInv, Wanted
<1> QED BY <1>1, <1>2, <1>3, <1>4, <1>5, <1>6, SchedulerKeeps

\* The catch block gives up.
LEMMA CatchGivesUpKeeps ==
    ASSUME HealthIInv, NEW p \in Schedulers, CatchGivesUp(p)
    PROVE  HealthIInv'
<1>1. ~ProcAt(p, "idle") /\ (Fault \/ UNCHANGED faults)  BY DEF CatchGivesUp, ProcAt
<1>2. PICK n \in Proc : ProcOK(n) /\ proc' = [proc EXCEPT ![p] = n]
  <2>1. {"schedule-error"} \in SUBSET Sayings  BY DEF Sayings
  <2>2. proc' = [proc EXCEPT ![p].pc = "auditError", ![p].active = 1,
                             ![p].said = @ \cup {"schedule-error"}]
      BY DEF CatchGivesUp
  <2> QED BY <1>1, <2>1, <2>2, SaidEffect
<1> QED BY <1>1, <1>2, GiveUpWatermark DEF CatchGivesUp

\* The process is killed.
LEMMA CrashKeeps ==
    ASSUME HealthIInv, NEW p \in Schedulers, Crash(p)
    PROVE  HealthIInv'
    BY IdleProcOK, GiveUpWatermark DEF Crash

\* The steps of a scheduler.
LEMMA SchedulerStepKeeps ==
    ASSUME HealthIInv, NEW p \in Schedulers, SchedulerStep(p)
    PROVE  HealthIInv'
<1>1. CASE TickBegin(p)  BY <1>1, TickBeginKeeps
<1>2. CASE RunHealthCheck(p) \/ InvokeThrows(p)  BY <1>2, InvokeKeeps
<1>3. CASE UpdateRead(p)  BY <1>3, UpdateReadKeeps
<1>4. CASE UpdateWrite(p) \/ CatchWrite(p)  BY <1>4, WriteKeeps
<1>5. CASE UpdateFails(p)
  <2>1. ~ProcAt(p, "idle") /\ ~ProcAt(p, "invoke")  BY <1>5 DEF UpdateFails, ProcAt
  <2> QED BY <1>5, <2>1, GoKeeps DEF UpdateFails
<1>6. CASE AuditOutcome(p)
  <2>1. ~ProcAt(p, "idle") /\ ~ProcAt(p, "invoke")  BY <1>6 DEF AuditOutcome, ProcAt
  <2> QED BY <1>6, <2>1, GoKeeps, NextDueKeeps DEF AuditOutcome
<1>7. CASE CatchGivesUp(p)  BY <1>7, CatchGivesUpKeeps
<1>8. CASE AuditError(p)  BY <1>8, NextDueKeeps DEF AuditError
<1> QED BY <1>1, <1>2, <1>3, <1>4, <1>5, <1>6, <1>7, <1>8 DEF SchedulerStep

-----------------------------------------------------------------------------
(* The clock and the operator. *)

\* Growing older keeps to the ages and to their order.
LEMMA OlderMonotone ==
    ASSUME NEW a \in Ages, NEW b \in Ages
    PROVE  Older(a) \in Ages /\ (a >= b => Older(a) >= Older(b))
    BY IntervalAssumption DEF Older, Ages

\* A unit of time.
LEMMA ClockKeeps ==
    ASSUME HealthIInv, Clock
    PROVE  HealthIInv'
<1>1. HealthTypeOK  BY DEF HealthIInv
<1>2. \A s \in Schedules : /\ sched[s] \in Row /\ sched[s].age \in Ages /\ gap[s] \in Ages
    BY <1>1 DEF HealthTypeOK, Row
<1>3. \A s \in Schedules :
        /\ sched'[s] \in Row /\ sched'[s].active = sched[s].active
        /\ sched'[s].age = Older(sched[s].age)
        /\ gap'[s] \in Ages /\ gap'[s] = Older(gap[s])
  <2> TAKE s \in Schedules
  <2>1. PICK a \in Ages : a = Older(sched[s].age)  BY <1>2, OlderMonotone
  <2>2. sched'[s] = [sched[s] EXCEPT !.age = a]  BY <2>1 DEF Clock
  <2>3. /\ sched'[s] \in Row /\ sched'[s].active = sched[s].active /\ sched'[s].age = a
      BY <1>2, <2>2 DEF Row
  <2>4. gap'[s] = Older(gap[s]) /\ gap'[s] \in Ages  BY <1>2, OlderMonotone DEF Clock
  <2> QED BY <2>1, <2>3, <2>4
<1>4. sched' \in [Schedules -> Row] /\ gap' \in [Schedules -> Ages]
  <2>1. /\ sched' = [s \in Schedules |-> sched'[s]]
        /\ gap' = [s \in Schedules |-> gap'[s]]
      BY DEF Clock
  <2> QED BY <1>3, <2>1
<1>5. \A p \in Schedulers :
        /\ proc'[p] \in Proc /\ proc'[p].pc = proc[p].pc /\ proc'[p].due = proc[p].due
        /\ proc'[p].said = proc[p].said /\ proc'[p].out = proc[p].out
  <2> TAKE p \in Schedulers
  <2>1. proc[p] \in Proc /\ proc[p].since \in Ages
      BY <1>1, ProcFields DEF HealthTypeOK
  <2>2. PICK a \in Ages : a = Older(proc[p].since)  BY <2>1, OlderMonotone
  <2>3. proc'[p] = proc[p] \/ proc'[p] = [proc[p] EXCEPT !.since = a]
      BY <2>2 DEF Clock
  <2> QED BY <2>1, <2>3 DEF Proc
<1>6. proc' \in [Schedulers -> Proc]
  <2>1. proc' = [p \in Schedulers |-> proc'[p]]  BY DEF Clock
  <2> QED BY <1>5, <2>1
<1>7. op' \in Cmd
  <2>1. op \in Cmd /\ op.age \in Ages  BY <1>1 DEF HealthTypeOK, Cmd
  <2>2. PICK a \in Ages : a = Older(op.age)  BY <2>1, OlderMonotone
  <2>3. op' = op \/ op' = [op EXCEPT !.age = a]  BY <2>2 DEF Clock
  <2> QED BY <2>1, <2>3 DEF Cmd
<1>8. \A p \in Schedulers : ProcOK(proc'[p])  BY <1>5 DEF HealthIInv, ProcOK
<1>9. HealthTypeOK'
    BY <1>1, <1>4, <1>6, <1>7, <1>8 DEF HealthTypeOK, ProcOK, Clock
<1>10. SpacedOut(sched', gap', lost, proc')
  <2> SUFFICES ASSUME NEW s \in Schedules PROVE Spaced(s, sched', gap', lost, proc')
      BY DEF SpacedOut
  <2>1. Spaced(s, sched, gap, lost, proc)  BY DEF HealthIInv, SpacedOut
  <2>2. CASE gap[s] >= sched[s].age
    <3>1. gap'[s] >= sched'[s].age  BY <1>2, <1>3, <2>2, OlderMonotone
    <3> QED BY <3>1 DEF Spaced
  <2>3. CASE s \in lost  BY <2>3 DEF Spaced
  <2>4. CASE \E q \in Schedulers : Owes(proc[q], s)
    <3>1. \E q \in Schedulers : Owes(proc'[q], s)  BY <1>5, <2>4 DEF Owes
    <3> QED BY <3>1 DEF Spaced
  <2> QED BY <2>1, <2>2, <2>3, <2>4 DEF Spaced
<1>11. Wanted(sched', want, clob)  BY <1>3 DEF HealthIInv, Wanted
<1> QED BY <1>8, <1>9, <1>10, <1>11 DEF HealthIInv, Clock

\* A step of the operator that writes the row c, or none.
LEMMA OperatorKeeps ==
    ASSUME HealthIInv, NEW c \in Schedules, NEW r \in Row,
           sched' = [sched EXCEPT ![c] = r],
           gap[c] >= r.age \/ c \in lost' \/ (r.age = sched[c].age /\ lost' = lost),
           r.active = 1 => c \in want' \cup clob',
           lost \subseteq lost', want \ {c} \subseteq want', clob \ {c} \subseteq clob',
           lost' \in SUBSET Schedules, want' \in SUBSET Schedules, clob' \in SUBSET Schedules,
           rows' \in 0 .. MaxSchedules, op' \in Cmd, cmds' \in 0 .. MaxCommands,
           UNCHANGED <<proc, faults, gap>>
    PROVE  HealthIInv'
<1>1. HealthTypeOK /\ sched \in [Schedules -> Row]  BY DEF HealthIInv, HealthTypeOK
<1>2. /\ sched' \in [Schedules -> Row] /\ sched'[c] = r
      /\ \A s \in Schedules \ {c} : sched'[s] = sched[s]
    BY <1>1
<1>3. HealthTypeOK'  BY <1>1, <1>2 DEF HealthTypeOK
<1>4. SpacedOut(sched', gap, lost', proc)
  <2> SUFFICES ASSUME NEW s \in Schedules PROVE Spaced(s, sched', gap, lost', proc)
      BY DEF SpacedOut
  <2>1. Spaced(s, sched, gap, lost, proc)  BY DEF HealthIInv, SpacedOut
  <2>2. CASE s = c  BY <1>2, <2>1, <2>2 DEF Spaced
  <2>3. CASE s # c  BY <1>2, <2>1, <2>3 DEF Spaced
  <2> QED BY <2>2, <2>3
<1>5. Wanted(sched', want', clob')
  <2> SUFFICES ASSUME NEW s \in Schedules, sched'[s].active = 1 PROVE s \in want' \cup clob'
      BY DEF Wanted
  <2>1. CASE s = c  BY <1>2, <2>1
  <2>2. CASE s # c  BY <1>2, <2>2 DEF HealthIInv, Wanted
  <2> QED BY <2>1, <2>2
<1> QED BY <1>3, <1>4, <1>5 DEF HealthIInv

\* A command is counted up to its bound.
LEMMA CommandType ==
    ASSUME HealthTypeOK, Command
    PROVE  cmds' \in 0 .. MaxCommands
    BY HealthBoundsAssumption DEF HealthTypeOK, Command

\* schedule add.
LEMMA ScheduleAddKeeps ==
    ASSUME HealthIInv, NEW active \in Flag, ScheduleAdd(active)
    PROVE  HealthIInv'
<1>1. HealthTypeOK  BY DEF HealthIInv
<1> DEFINE c == rows + 1
           r == [active |-> active, deleted |-> 0, age |-> 0]
<1>2. c \in Schedules /\ rows' = c /\ rows' \in 0 .. MaxSchedules
    BY <1>1, HealthBoundsAssumption DEF HealthTypeOK, Schedules, ScheduleAdd
<1>3. 0 \in Flag /\ 0 \in Ages  BY IntervalAssumption DEF Flag, Ages
<1>4. r \in Row /\ r.age = 0 /\ r.active = active  BY <1>3 DEF Row
<1>5. sched' = [sched EXCEPT ![c] = r]  BY <1>2 DEF ScheduleAdd
<1>6. gap[c] >= r.age  BY <1>1, <1>2, <1>4, IntervalAssumption DEF HealthTypeOK, Ages
<1>7. want' = Put(want, c, active = 1)  BY <1>2 DEF ScheduleAdd
<1>8. /\ want \ {c} \subseteq want' /\ want' \in SUBSET Schedules
      /\ r.active = 1 => c \in want'
    BY <1>1, <1>2, <1>4, <1>7 DEF HealthTypeOK, Put
<1>9. cmds' \in 0 .. MaxCommands  BY <1>1, CommandType DEF ScheduleAdd
<1> HIDE DEF c, r
<1>10. /\ op' \in Cmd /\ lost' \in SUBSET Schedules /\ clob' \in SUBSET Schedules
       /\ lost \subseteq lost' /\ clob \ {c} \subseteq clob'
    BY <1>1 DEF HealthTypeOK, ScheduleAdd
<1>11. UNCHANGED <<proc, faults, gap>>  BY DEF ScheduleAdd
<1> QED BY <1>2, <1>4, <1>5, <1>6, <1>8, <1>9, <1>10, <1>11, OperatorKeeps

\* The read of schedule enable and disable.
LEMMA SetActiveReadKeeps ==
    ASSUME HealthIInv, NEW s \in Schedules, NEW active \in Flag, SetActiveRead(s, active)
    PROVE  HealthIInv'
<1>1. HealthTypeOK  BY DEF HealthIInv
<1>2. sched[s].age \in Ages  BY <1>1 DEF HealthTypeOK, Row
<1>3. op' \in Cmd  BY <1>2 DEF SetActiveRead, Cmd
<1>4. cmds' \in 0 .. MaxCommands  BY <1>1, CommandType DEF SetActiveRead
<1>5. HealthTypeOK'  BY <1>1, <1>3, <1>4 DEF HealthTypeOK, SetActiveRead
<1> QED BY <1>5 DEF HealthIInv, SetActiveRead

\* The write of schedule enable and disable.
LEMMA SetActiveWriteKeeps ==
    ASSUME HealthIInv, SetActiveWrite
    PROVE  HealthIInv'
<1>1. HealthTypeOK  BY DEF HealthIInv
<1> DEFINE c == op.id
           r == [sched[c] EXCEPT !.active = op.active, !.age = op.age]
<1>2. c \in Schedules /\ op.active \in Flag /\ op.age \in Ages
    BY <1>1 DEF HealthTypeOK, Cmd
<1>3. sched \in [Schedules -> Row] /\ sched[c] \in Row  BY <1>1, <1>2 DEF HealthTypeOK
<1>4. r \in Row /\ r.age = op.age /\ r.active = op.active  BY <1>2, <1>3 DEF Row
<1>5. sched' = [sched EXCEPT ![c] = r]  BY <1>2, <1>3 DEF SetActiveWrite
<1>6. lost' = IF op.age # sched[c].age THEN lost \cup {c} ELSE lost
    BY DEF SetActiveWrite
<1>7. want' = Put(want, c, op.active = 1) /\ clob' = clob \ {c}
    BY DEF SetActiveWrite
<1>8. /\ want \ {c} \subseteq want' /\ want' \in SUBSET Schedules
      /\ r.active = 1 => c \in want'
    BY <1>1, <1>2, <1>4, <1>7 DEF HealthTypeOK, Put
<1>9. IdleCmd \in Cmd
  <2>1. 1 \in Schedules /\ 1 \in Flag /\ 0 \in Ages
      BY HealthBoundsAssumption, IntervalAssumption DEF Schedules, Flag, Ages
  <2> QED BY <2>1 DEF IdleCmd, Cmd
<1> HIDE DEF c, r
<1>10. /\ lost' \in SUBSET Schedules /\ lost \subseteq lost'
       /\ c \in lost' \/ (r.age = sched[c].age /\ lost' = lost)
    BY <1>1, <1>2, <1>4, <1>6 DEF HealthTypeOK
<1>11. /\ clob' \in SUBSET Schedules /\ clob \ {c} \subseteq clob'
       /\ rows' \in 0 .. MaxSchedules /\ op' \in Cmd /\ cmds' \in 0 .. MaxCommands
    BY <1>1, <1>7, <1>9 DEF HealthTypeOK, SetActiveWrite
<1>12. UNCHANGED <<proc, faults, gap>>  BY DEF SetActiveWrite
<1> QED BY <1>2, <1>4, <1>5, <1>8, <1>10, <1>11, <1>12, OperatorKeeps

\* schedule remove.
LEMMA ScheduleRemoveKeeps ==
    ASSUME HealthIInv, NEW c \in Schedules, ScheduleRemove(c)
    PROVE  HealthIInv'
<1>1. HealthTypeOK /\ sched \in [Schedules -> Row] /\ sched[c] \in Row
    BY DEF HealthIInv, HealthTypeOK
<1> DEFINE r == [sched[c] EXCEPT !.deleted = 1]
<1>2. 1 \in Flag  BY DEF Flag
<1>3. r \in Row /\ r.age = sched[c].age /\ r.active = sched[c].active
    BY <1>1, <1>2 DEF Row
<1>4. sched' = [sched EXCEPT ![c] = r]  BY <1>1 DEF ScheduleRemove
<1> HIDE DEF r
<1>5. cmds' \in 0 .. MaxCommands  BY <1>1, CommandType DEF ScheduleRemove
<1>6. /\ rows' \in 0 .. MaxSchedules /\ op' \in Cmd
      /\ lost' \in SUBSET Schedules /\ want' \in SUBSET Schedules /\ clob' \in SUBSET Schedules
    BY <1>1 DEF HealthTypeOK, ScheduleRemove
<1>7. UNCHANGED <<proc, faults, gap, lost, want, clob>>  BY DEF ScheduleRemove
<1>8. r.active = 1 => c \in want' \cup clob'  BY <1>3, <1>7 DEF HealthIInv, Wanted
<1> QED BY <1>3, <1>4, <1>5, <1>6, <1>7, <1>8, OperatorKeeps

-----------------------------------------------------------------------------
(* The theorems. *)

\* The first state.
LEMMA HealthInitKeeps == HealthInit => HealthIInv
<1> SUFFICES ASSUME HealthInit PROVE HealthIInv  OBVIOUS
<1>1. 0 \in Ages /\ Interval \in Ages /\ 0 \in Flag /\ 1 \in Flag /\ 1 \in Schedules
    BY IntervalAssumption, HealthBoundsAssumption DEF Ages, Flag, Schedules
<1>2. IdleCmd \in Cmd  BY <1>1 DEF IdleCmd, Cmd
<1>3. proc \in [Schedulers -> Proc] /\ \A p \in Schedulers : ProcOK(proc[p])
    BY IdleProcOK DEF HealthInit
<1>4. sched \in [Schedules -> Row] /\ gap \in [Schedules -> Ages]
    BY <1>1 DEF HealthInit, Row
<1>5. HealthTypeOK
    BY <1>2, <1>3, <1>4, HealthBoundsAssumption DEF HealthInit, HealthTypeOK, ProcOK
<1>6. SpacedOut(sched, gap, lost, proc)
    BY IntervalAssumption DEF SpacedOut, Spaced, HealthInit
<1>7. Wanted(sched, want, clob)  BY DEF Wanted, HealthInit
<1> QED BY <1>3, <1>5, <1>6, <1>7 DEF HealthIInv

\* Every step.
LEMMA HealthNextKeeps == HealthIInv /\ [HealthNext]_healthVars => HealthIInv'
<1> SUFFICES ASSUME HealthIInv, [HealthNext]_healthVars PROVE HealthIInv'  OBVIOUS
<1>1. CASE Clock  BY <1>1, ClockKeeps
<1>2. CASE OperatorStep
    BY <1>2, ScheduleAddKeeps, SetActiveReadKeeps, SetActiveWriteKeeps, ScheduleRemoveKeeps
       DEF OperatorStep
<1>3. CASE \E p \in Schedulers : SchedulerStep(p) \/ Crash(p)
    BY <1>3, SchedulerStepKeeps, CrashKeeps
<1>4. CASE UNCHANGED healthVars  BY <1>4 DEF healthVars, HealthIInv, HealthTypeOK
<1> QED BY <1>1, <1>2, <1>3, <1>4 DEF HealthNext

\* The inductive invariant of the schedulers and the table.
THEOREM HealthInvariant == HealthSpec => []HealthIInv
    BY HealthInitKeeps, HealthNextKeeps, PTL DEF HealthSpec

\* The types.
THEOREM HealthTypes == HealthSpec => []HealthTypeOK
<1>1. HealthIInv => HealthTypeOK  BY DEF HealthIInv
<1> QED BY <1>1, HealthInvariant, PTL

\* A step in which an idle scheduler gets a list begins a tick.
LEMMA ListingBegins ==
    ASSUME HealthIInv, HealthNext, NEW p \in Schedulers, NEW s \in Schedules, Lists(p, s)
    PROVE  TickBegin(p) /\ s \in DueSchedules
<1>1. proc[p].due = {} /\ ProcAt(p, "idle") /\ proc \in [Schedulers -> Proc]
    BY DEF Lists, HealthIInv, HealthTypeOK, ProcOK, ProcAt
<1>2. proc'[p] # proc[p]  BY <1>1 DEF Lists
<1>3. ~Clock  BY <1>1, <1>2 DEF Clock
<1>4. ~OperatorStep
    BY <1>2 DEF OperatorStep, ScheduleAdd, SetActiveRead, SetActiveWrite, ScheduleRemove
<1>5. PICK q \in Schedulers : SchedulerStep(q) \/ Crash(q)  BY <1>3, <1>4 DEF HealthNext
<1>6. q = p
  <2>1. SUFFICES ASSUME q # p PROVE proc'[p] = proc[p]  BY <1>2
  <2> QED BY <1>1, <1>5, <2>1
          DEF SchedulerStep, Crash, TickBegin, RunHealthCheck, InvokeThrows, UpdateRead,
              UpdateWrite, UpdateFails, AuditOutcome, CatchWrite, CatchGivesUp, AuditError,
              Go, NextDue
<1>7. TickBegin(p)
    BY <1>1, <1>5, <1>6
       DEF SchedulerStep, Crash, RunHealthCheck, InvokeThrows, UpdateRead,
           UpdateWrite, UpdateFails, AuditOutcome, CatchWrite, CatchGivesUp, AuditError,
           ProcAt
<1>8. proc'[p].due = DueSchedules  BY <1>1, <1>7 DEF TickBegin, Invoking
<1> QED BY <1>7, <1>8 DEF Lists

\* runSchedulerTick and the watermark: however schedulers, the operator and
\* faults interleave, no schedule is listed within its interval of its last
\* probe unless another scheduler holds it or its watermark went missing.
THEOREM HealthNoEarlyRun == HealthSpec => NoEarlyRun
<1> DEFINE Late(p, s) == Lists(p, s) => \/ gap[s] >= Interval
                                        \/ s \in lost
                                        \/ \E q \in Schedulers \ {p} : Holds(q, s)
<1>1. HealthIInv /\ [HealthNext]_healthVars
        => [\A p \in Schedulers, s \in Schedules : Late(p, s)]_healthVars
  <2> SUFFICES ASSUME HealthIInv, HealthNext, NEW p \in Schedulers, NEW s \in Schedules,
                      Lists(p, s)
               PROVE  \/ gap[s] >= Interval
                      \/ s \in lost
                      \/ \E q \in Schedulers \ {p} : Holds(q, s)
      OBVIOUS
  <2>1. sched[s].age >= Interval  BY ListingBegins DEF DueSchedules
  <2>2. Spaced(s, sched, gap, lost, proc)  BY DEF HealthIInv, SpacedOut
  <2>3. CASE gap[s] >= sched[s].age
    <3>1. gap[s] \in Nat /\ sched[s].age \in Nat /\ Interval \in Nat
      <4>1. gap[s] \in Ages /\ sched[s] \in Row  BY DEF HealthIInv, HealthTypeOK
      <4> QED BY <4>1, IntervalAssumption DEF Ages, Row
    <3> QED BY <2>1, <2>3, <3>1
  <2>4. CASE \E q \in Schedulers : Owes(proc[q], s)
    <3>1. PICK q \in Schedulers : Owes(proc[q], s)  BY <2>4
    <3>2. ~ProcAt(q, "idle") /\ Cur(q) = s  BY <3>1 DEF Owes, ProcAt, Cur
    <3>3. s \in proc[q].due  BY <3>2, CurIn
    <3>4. q # p  BY <3>2 DEF Lists
    <3> QED BY <3>3, <3>4 DEF Holds
  <2> QED BY <2>2, <2>3, <2>4 DEF Spaced
<1> QED BY <1>1, HealthInvariant, PTL DEF NoEarlyRun, HealthSpec

\* HealthScheduleRepo.update: a tick lists no removed schedule, and a disabled
\* one only after a write that put `active` back.
THEOREM HealthStoppedStaysStopped == HealthSpec => StoppedStaysStopped
<1> DEFINE Rightly(p, s) == Lists(p, s) => Exists(s) /\ s \in want \cup clob
<1>1. HealthIInv /\ [HealthNext]_healthVars
        => [\A p \in Schedulers, s \in Schedules : Rightly(p, s)]_healthVars
  <2> SUFFICES ASSUME HealthIInv, HealthNext, NEW p \in Schedulers, NEW s \in Schedules,
                      Lists(p, s)
               PROVE  Exists(s) /\ s \in want \cup clob
      OBVIOUS
  <2>1. Exists(s) /\ sched[s].active = 1  BY ListingBegins DEF DueSchedules
  <2> QED BY <2>1 DEF HealthIInv, Wanted
<1> QED BY <1>1, HealthInvariant, PTL DEF StoppedStaysStopped, HealthSpec

\* A scheduler that goes on from a schedule without a fault comes from one of
\* the two audits.
LEMMA GoingOn ==
    ASSUME HealthIInv, HealthNext, NEW p \in Schedulers, proc[p].due # {},
           proc'[p].due = proc[p].due \ {Cur(p)}, faults' = faults
    PROVE  ProcAt(p, "audit") \/ ProcAt(p, "auditError")
<1>1. proc \in [Schedulers -> Proc] /\ proc[p] \in Proc /\ ~ProcAt(p, "idle")
    BY DEF HealthIInv, HealthTypeOK, ProcOK, ProcAt
<1>2. proc'[p].due # proc[p].due  BY <1>1, CurIn
<1>3. ~Clock
  <2>1. SUFFICES ASSUME Clock PROVE proc'[p].due = proc[p].due  BY <1>2
  <2>2. proc'[p] = [proc[p] EXCEPT !.since = Older(proc[p].since)]
      BY <1>1, <2>1 DEF Clock
  <2> QED BY <1>1, <2>2 DEF Proc
<1>4. ~OperatorStep
    BY <1>2 DEF OperatorStep, ScheduleAdd, SetActiveRead, SetActiveWrite, ScheduleRemove
<1>5. PICK q \in Schedulers : SchedulerStep(q) \/ Crash(q)  BY <1>3, <1>4 DEF HealthNext
<1>6. q = p
  <2>1. SUFFICES ASSUME q # p PROVE proc'[p] = proc[p]  BY <1>2
  <2> QED BY <1>1, <1>5, <2>1
          DEF SchedulerStep, Crash, TickBegin, RunHealthCheck, InvokeThrows, UpdateRead,
              UpdateWrite, UpdateFails, AuditOutcome, CatchWrite, CatchGivesUp, AuditError,
              Go, NextDue
<1>7. ~Crash(p)
  <2>1. faults \in Nat  BY HealthBoundsAssumption DEF HealthIInv, HealthTypeOK
  <2> QED BY <2>1 DEF Crash, Fault
<1>8. ~TickBegin(p)  BY <1>1 DEF TickBegin
<1>9. /\ ~RunHealthCheck(p) /\ ~InvokeThrows(p) /\ ~UpdateRead(p) /\ ~UpdateWrite(p)
      /\ ~UpdateFails(p) /\ ~CatchWrite(p) /\ ~CatchGivesUp(p)
    BY <1>1, <1>2 DEF RunHealthCheck, InvokeThrows, UpdateRead, UpdateWrite, UpdateFails,
                      CatchWrite, CatchGivesUp, Go, Proc
<1> QED BY <1>5, <1>6, <1>7, <1>8, <1>9 DEF SchedulerStep, AuditOutcome, AuditError

\* runSchedulerTick's events: no outcome of a probe is dropped and none is
\* made up, whichever of the writes and the audits failed.
THEOREM HealthOutcomeReported == HealthSpec => OutcomeReported
<1> DEFINE Reported(p) ==
       (proc[p].due # {} /\ proc'[p].due = proc[p].due \ {Cur(p)} /\ faults' = faults)
         => /\ proc[p].out = "fail" => proc[p].said \cap {"health-failed", "schedule-error"} # {}
            /\ proc[p].said # {}
            /\ "health-failed" \in proc[p].said => proc[p].out = "fail"
<1>1. HealthIInv /\ [HealthNext]_healthVars => [\A p \in Schedulers : Reported(p)]_healthVars
  <2> SUFFICES ASSUME HealthIInv, HealthNext, NEW p \in Schedulers, proc[p].due # {},
                      proc'[p].due = proc[p].due \ {Cur(p)}, faults' = faults
               PROVE  /\ proc[p].out = "fail"
                           => proc[p].said \cap {"health-failed", "schedule-error"} # {}
                      /\ proc[p].said # {}
                      /\ "health-failed" \in proc[p].said => proc[p].out = "fail"
      OBVIOUS
  <2>1. ProcAt(p, "audit") \/ ProcAt(p, "auditError")  BY GoingOn
  <2>2. ProcOK(proc[p])  BY DEF HealthIInv
  <2> QED BY <2>1, <2>2 DEF ProcAt, ProcOK
<1> QED BY <1>1, HealthInvariant, PTL DEF OutcomeReported, HealthSpec

\* A tick takes up what is due and wanted, and reports what came of it.
THEOREM HealthTickIsSound == HealthSpec => TickIsSound
    BY HealthNoEarlyRun, HealthStoppedStaysStopped, HealthOutcomeReported, PTL
       DEF TickIsSound, ListedWhenDue
=============================================================================
