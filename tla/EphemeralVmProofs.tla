-------------------------- MODULE EphemeralVmProofs --------------------------
(***************************************************************************)
(* Proofs about scenario runs on ephemeral VMs and the reaper, for any     *)
(* runs, years, numbers of VMs, steps, retries, ages and faults.           *)
(***************************************************************************)
EXTENDS EphemeralVm, TLAPS

-----------------------------------------------------------------------------
(***************************************************************************)
(* The inductive invariant, of the runs rn, the disks dk, the VMs m, ...   *)
(***************************************************************************)

\* How far a run's records are behind the VM it is at.
Shape(r, s) ==
    /\ s.idx \in 1 .. NVms[r] /\ s.recs \in 0 .. NVms[r]
    /\ s.pc \in {"idle", "done", "gone"} => s.idx = 1 /\ s.recs = 0
    /\ s.pc \in {"disk", "create", "undo"} => s.recs + 1 = s.idx
    /\ s.pc \in {"boot", "body"} => s.recs = s.idx
    /\ s.pc \in {"delete", "unlink"} => s.idx <= s.recs

\* The status a run has so far, against the flaws f it had.
Honest(s, f) ==
    /\ s.pc \in {"idle", "disk", "create", "undo", "boot", "body"} =>
         /\ s.status = "passed" /\ ~s.err /\ ~s.tdErr
         /\ "verdict" \notin f /\ "threw" \notin f
    /\ s.pc \in {"delete", "unlink"} =>
         /\ s.tdErr \/ s.status # "passed" => "verdict" \in f
         /\ "verdict" \in f /\ s.status = "passed" => s.tdErr
         /\ s.err => s.status # "passed"
         /\ "threw" \in f => s.status = "error"
         /\ s.pc = "delete" => ~s.tdErr
    /\ s.pc = "done" =>
         /\ s.status = "passed" <=> "verdict" \notin f
         /\ "threw" \in f => s.status = "error"

RunsOK(rn, fl) ==
    /\ rn \in [Runs -> Run]
    /\ fl \in [Runs -> SUBSET Flaws]
    /\ \A r \in Runs : Shape(r, rn[r]) /\ Honest(rn[r], fl[r])

\* A run in state s has disk v, and has VM v.
HasDisk(s, v) ==
    \/ s.pc \in {"create", "undo"} /\ v <= s.idx
    \/ s.pc \in {"disk", "boot", "body"} /\ v <= s.recs
    \/ s.pc \in {"delete", "unlink"} /\ s.idx <= v /\ v <= s.recs

HasVm(s, v) ==
    \/ s.pc \in {"disk", "create", "undo", "boot", "body"} /\ v <= s.recs
    \/ s.pc = "delete" /\ s.idx <= v /\ v <= s.recs
    \/ s.pc = "unlink" /\ s.idx < v /\ v <= s.recs

\* What a run has is its own, unless the reaper took it.
Hold(rn, dk, tk) ==
    \A r \in Runs : \A v \in 1 .. NVms[r] :
      HasDisk(rn[r], v) =>
        dk[EphemeralName(r, v)].owner = r \/ EphemeralName(r, v) \in tk

\* VM n of run q may be without a disk: a failed call left it, or the reaper
\* unlinked its disk.
Loose(st, lost, q, n) == StrayVm(q, n) \in st \/ n \in lost

\* Under a name whose disk a run has there is its own VM, from its createVM to
\* its deleteVM, and no other but such ones.
NoVm(rn, m, st, lost) ==
    \A r \in Runs : \A v \in 1 .. NVms[r] : HasDisk(rn[r], v) =>
      \A q \in m[EphemeralName(r, v)] :
        \/ q = r /\ HasVm(rn[r], v)
        \/ Loose(st, lost, q, EphemeralName(r, v))

\* A run has all that is its own, but for what failed calls left.
Own(rn, st, dk, m) ==
    \A r \in Runs : rn[r].pc # "gone" =>
      \A n \in Names :
        /\ dk[n].owner = r =>
             \/ StrayDisk(r, n) \in st
             \/ \E v \in 1 .. NVms[r] : n = EphemeralName(r, v) /\ HasDisk(rn[r], v)
        /\ r \in m[n] =>
             \/ StrayVm(r, n) \in st
             \/ \E v \in 1 .. NVms[r] : n = EphemeralName(r, v) /\ HasVm(rn[r], v)

\* A disk file has an owner, and a VM has a disk.
DisksOK(dk, m, st, lost) ==
    /\ dk \in [Names -> [owner : Runs \cup {NoRun}, age : Ages]]
    /\ m \in [Names -> SUBSET Runs]
    /\ \A n \in Names : dk[n].owner = NoRun => dk[n].age = 0
    /\ \A n \in Names : dk[n] = NoDisk => \A q \in m[n] : Loose(st, lost, q, n)

\* What the reaper is about to remove is old, or younger than its list, and the
\* VMs of the disks it is about to unlink are gone, or it has not seen them.
ReaperType == [pc : {"idle", "list", "delete", "unlink", "disks"},
               aged : SUBSET Names, vmq : SUBSET Names, diskq : SUBSET Names,
               fresh : SUBSET Names, unseen : SUBSET Names]

Queued(rp) == rp.aged \cup rp.vmq \cup rp.diskq

Victim(rp) == CHOOSE n \in rp.vmq : TRUE

Clear(rp, m) ==
    /\ \A n \in rp.diskq : m[n] = {} \/ n \in rp.unseen
    /\ rp.pc = "unlink" => m[Victim(rp)] = {} \/ Victim(rp) \in rp.unseen

ReaperOK(rp, dk, m) ==
    /\ rp \in ReaperType
    /\ rp.pc \in {"delete", "unlink"} => rp.vmq # {}
    /\ rp.pc = "idle" => Queued(rp) = {}
    /\ \A n \in Queued(rp) :
         dk[n] = NoDisk \/ dk[n].age >= MinAge \/ n \in rp.fresh
    /\ Clear(rp, m)

IInv ==
    /\ RunsOK(run, flaw)
    /\ Hold(run, disk, taken)
    /\ NoVm(run, vm, strays, missed \cup taken)
    /\ Own(run, strays, disk, vm)
    /\ DisksOK(disk, vm, strays, missed \cup taken)
    /\ ReaperOK(reaper, disk, vm)
    /\ faults \in 0 .. MaxFaults
    /\ strays \subseteq Strays
    /\ taken \subseteq Names /\ missed \subseteq Names

-----------------------------------------------------------------------------
(***************************************************************************)
(* What the blocks of runScenario make of its local variables.             *)
(***************************************************************************)

\* The status s may carry into the finally block, with the flaws f.
Settled(s, f) ==
    /\ s.status # "passed" <=> "verdict" \in f
    /\ s.err => s.status # "passed"
    /\ "threw" \in f => s.status = "error"
    /\ s.tdErr = FALSE

\* The locals of runScenario after an assignment to some of them.
Pcs == {"idle", "disk", "create", "undo", "boot", "body", "delete", "unlink",
        "done", "gone"}

\* After assignments to its place, its VM, its records or its teardown error a
\* run is still one.
LEMMA RunPoints ==
    ASSUME NEW s \in Run, NEW p \in Pcs, NEW i \in Nat \ {0}, NEW k \in Nat
    PROVE  /\ [s EXCEPT !.pc = p] \in Run
           /\ [s EXCEPT !.pc = p, !.idx = i] \in Run
           /\ [s EXCEPT !.pc = p, !.recs = k] \in Run
           /\ [s EXCEPT !.pc = p, !.tdErr = TRUE] \in Run
           /\ [s EXCEPT !.tdErr = TRUE] \in Run
<1>1. [s EXCEPT !.pc = p] \in Run
  BY DEF Run, Pcs
<1>2. [s EXCEPT !.pc = p, !.idx = i] \in Run
  BY DEF Run, Pcs
<1>3. [s EXCEPT !.pc = p, !.recs = k] \in Run
  BY DEF Run, Pcs
<1>4. [s EXCEPT !.pc = p, !.tdErr = TRUE] \in Run
  BY DEF Run, Pcs
<1>5. [s EXCEPT !.tdErr = TRUE] \in Run
  BY DEF Run
<1> QED
  BY <1>1, <1>2, <1>3, <1>4, <1>5

\* A run that has not begun.
LEMMA NewRunFacts == NewRun \in Run
  BY DEF NewRun, Run, Statuses

\* The end of runScenario keeps the verdict only.
LEMMA ResultFacts ==
    ASSUME NEW s \in Run
    PROVE  /\ Result(s) \in Run /\ Result(s).pc = "done" /\ Result(s).idx = 1
           /\ Result(s).recs = 0 /\ Result(s).status = s.status
<1>1. s.status \in Statuses
  BY DEF Run
<1>2. NewRun \in Run /\ NewRun.idx = 1 /\ NewRun.recs = 0
  BY NewRunFacts DEF NewRun
<1> QED
  BY <1>1, <1>2 DEF Run, Result

\* The finally block begins with all that was recorded.
LEMMA CleanupFacts ==
    ASSUME NEW r \in Runs, NEW s \in Run, s.recs \in 0 .. NVms[r], NEW f, Settled(s, f)
    PROVE  /\ Cleanup(s) \in Run /\ Shape(r, Cleanup(s)) /\ Honest(Cleanup(s), f)
           /\ Cleanup(s).pc \in {"delete", "done"}
           /\ \A v \in 1 .. NVms[r] : HasDisk(Cleanup(s), v) <=> v <= s.recs
           /\ \A v \in 1 .. NVms[r] : HasVm(Cleanup(s), v) <=> v <= s.recs
<1>0. NVms[r] \in Nat \ {0}
  BY SizeAssumption
<1>1. CASE s.recs > 0
  <2>1. Cleanup(s) = [s EXCEPT !.pc = "delete", !.idx = 1]
    BY <1>1 DEF Cleanup
  <2>2. PICK c : c = Cleanup(s)
    OBVIOUS
  <2>9. c \in Run
    <3>1. 1 \in Nat \ {0} /\ 0 \in Nat /\ "delete" \in Pcs
      BY DEF Pcs
    <3>2. [s EXCEPT !.pc = "delete", !.idx = 1] \in Run
      BY <3>1, RunPoints, Zenon
    <3> QED
      BY <2>1, <2>2, <3>2
  <2>3. /\ c \in Run /\ c.pc = "delete" /\ c.idx = 1 /\ c.recs = s.recs
        /\ c.status = s.status
    BY <2>1, <2>2, <2>9 DEF Run
  <2>8. (c.err <=> s.err) /\ c.tdErr = FALSE
    BY <2>1, <2>2 DEF Run, Settled
  <2>4. Shape(r, c)
    BY <1>0, <1>1, <2>3 DEF Shape
  <2>5. Honest(c, f)
    BY <2>3, <2>8 DEF Honest, Settled
  <2>6. \A v \in 1 .. NVms[r] : HasDisk(c, v) <=> v <= s.recs
    BY <2>3 DEF HasDisk
  <2>7. \A v \in 1 .. NVms[r] : HasVm(c, v) <=> v <= s.recs
    BY <2>3 DEF HasVm
  <2> QED
    BY <2>2, <2>3, <2>4, <2>5, <2>6, <2>7
<1>2. CASE ~(s.recs > 0)
  <2>1. Cleanup(s) = Result(s)
    BY <1>2 DEF Cleanup
  <2>2. PICK c : c = Cleanup(s)
    OBVIOUS
  <2>3. /\ c \in Run /\ c.pc = "done" /\ c.idx = 1 /\ c.recs = 0
        /\ c.status = s.status
    BY <2>1, <2>2, ResultFacts
  <2>4. s.recs = 0
    BY <1>2
  <2>5. Shape(r, c)
    BY <1>0, <2>3 DEF Shape
  <2>6. Honest(c, f)
    BY <2>3 DEF Honest, Settled
  <2>7. \A v \in 1 .. NVms[r] : ~HasDisk(c, v)
    BY <2>3 DEF HasDisk
  <2>8. \A v \in 1 .. NVms[r] : ~HasVm(c, v)
    BY <2>3 DEF HasVm
  <2> QED
    BY <2>2, <2>3, <2>4, <2>5, <2>6, <2>7, <2>8
<1> QED
  BY <1>1, <1>2

\* An error of resolveVms goes there with the verdict `error`.
LEMMA ThrowFacts ==
    ASSUME NEW r \in Runs, NEW s \in Run, s.recs \in 0 .. NVms[r], s.tdErr = FALSE,
           NEW f, "verdict" \in f
    PROVE  /\ Throw(s) \in Run /\ Shape(r, Throw(s)) /\ Honest(Throw(s), f)
           /\ Throw(s).pc \in {"delete", "done"}
           /\ \A v \in 1 .. NVms[r] : HasDisk(Throw(s), v) <=> v <= s.recs
           /\ \A v \in 1 .. NVms[r] : HasVm(Throw(s), v) <=> v <= s.recs
<1>1. PICK e : e = [s EXCEPT !.status = "error", !.err = TRUE]
  OBVIOUS
<1>2. /\ e \in Run /\ e.recs = s.recs /\ e.status = "error" /\ e.tdErr = FALSE
  BY <1>1 DEF Run, Statuses
<1>3. Settled(e, f)
  BY <1>2 DEF Settled
<1>4. Throw(s) = Cleanup(e)
  BY <1>1 DEF Throw
<1> QED
  BY <1>2, <1>3, <1>4, CleanupFacts

\* After a record, the next one; the teardown's first error counts.
LEMMA NextRecordFacts ==
    ASSUME NEW r \in Runs, NEW s \in Run, Shape(r, s), s.pc = "unlink", NEW f,
           s.tdErr \/ s.status # "passed" => "verdict" \in f,
           "verdict" \in f /\ s.status = "passed" => s.tdErr,
           s.err => s.status # "passed",
           "threw" \in f => s.status = "error"
    PROVE  /\ NextRecord(s) \in Run /\ Shape(r, NextRecord(s))
           /\ Honest(NextRecord(s), f) /\ NextRecord(s).pc \in {"delete", "done"}
           /\ \A v \in 1 .. NVms[r] :
                HasDisk(NextRecord(s), v) <=> s.idx < v /\ v <= s.recs
           /\ \A v \in 1 .. NVms[r] :
                HasVm(NextRecord(s), v) <=> s.idx < v /\ v <= s.recs
<1>0. NVms[r] \in Nat \ {0}
  BY SizeAssumption
<1>1. PICK e : e = [s EXCEPT !.err = @ \/ s.tdErr,
                             !.status = IF s.tdErr /\ ~s.err /\ @ = "passed"
                                        THEN "error" ELSE @,
                             !.tdErr = FALSE]
  OBVIOUS
<1>2. NextRecord(s) = IF e.idx < e.recs THEN [e EXCEPT !.pc = "delete", !.idx = @ + 1]
                      ELSE Result(e)
  BY <1>1 DEF NextRecord
<1>3. /\ s.pc = "unlink" /\ s.idx \in 1..NVms[r] /\ s.recs \in 0..NVms[r]
      /\ s.idx <= s.recs /\ s.status \in Statuses
      /\ s.err \in BOOLEAN /\ s.tdErr \in BOOLEAN
  BY DEF Run, Shape
<1>4. /\ e.idx = s.idx /\ e.recs = s.recs /\ e.tdErr = FALSE
      /\ e.err = (s.err \/ s.tdErr)
      /\ e.status = IF s.tdErr /\ ~s.err /\ s.status = "passed" THEN "error"
                    ELSE s.status
      /\ e \in Run
  BY <1>1 DEF Run, Statuses
<1>5. Settled(e, f)
  BY <1>3, <1>4 DEF Settled, Statuses
<1>6. CASE e.idx < e.recs
  <2>1. PICK c : c = NextRecord(s)
    OBVIOUS
  <2>2. c = [e EXCEPT !.pc = "delete", !.idx = @ + 1]
    BY <1>2, <1>6, <2>1
  <2>9. c \in Run
    <3>1. e.idx + 1 \in Nat \ {0} /\ 0 \in Nat
      BY <1>3, <1>4
    <3> QED
      BY <1>4, <2>2, <3>1, RunPoints DEF Pcs
  <2>3. /\ c \in Run /\ c.pc = "delete" /\ c.idx = s.idx + 1 /\ c.recs = s.recs
        /\ c.status = e.status
    BY <1>3, <1>4, <2>2, <2>9 DEF Run
  <2>8. (c.err <=> e.err) /\ c.tdErr = FALSE
    BY <1>4, <2>2 DEF Run
  <2>4. Shape(r, c)
    BY <1>0, <1>3, <1>4, <1>6, <2>3 DEF Shape
  <2>5. Honest(c, f)
    BY <1>5, <2>3, <2>8 DEF Honest, Settled
  <2>6. \A v \in 1 .. NVms[r] : HasDisk(c, v) <=> s.idx < v /\ v <= s.recs
    BY <1>3, <2>3 DEF HasDisk
  <2>7. \A v \in 1 .. NVms[r] : HasVm(c, v) <=> s.idx < v /\ v <= s.recs
    BY <1>3, <2>3 DEF HasVm
  <2> QED
    BY <2>1, <2>3, <2>4, <2>5, <2>6, <2>7
<1>7. CASE ~(e.idx < e.recs)
  <2>1. PICK c : c = NextRecord(s)
    OBVIOUS
  <2>2. c = Result(e)
    BY <1>2, <1>7, <2>1
  <2>3. c \in Run /\ c.pc = "done" /\ c.idx = 1 /\ c.recs = 0 /\ c.status = e.status
    BY <1>4, <2>2, ResultFacts
  <2>4. Shape(r, c)
    BY <1>0, <2>3 DEF Shape
  <2>5. Honest(c, f)
    BY <1>5, <2>3 DEF Honest, Settled
  <2>6. \A v \in 1 .. NVms[r] : ~(s.idx < v /\ v <= s.recs)
    BY <1>3, <1>4, <1>7
  <2>7. \A v \in 1 .. NVms[r] : ~HasDisk(c, v) /\ ~HasVm(c, v)
    BY <2>3 DEF HasDisk, HasVm
  <2> QED
    BY <2>1, <2>3, <2>4, <2>5, <2>6, <2>7
<1> QED
  BY <1>6, <1>7

\* After a record runScenario tears down the next one or returns.
LEMMA NextRecordPc ==
    ASSUME NEW s \in Run
    PROVE  NextRecord(s).pc \in {"delete", "done"}
<1>1. PICK e : e = [s EXCEPT !.err = @ \/ s.tdErr,
                             !.status = IF s.tdErr /\ ~s.err /\ @ = "passed"
                                        THEN "error" ELSE @,
                             !.tdErr = FALSE]
  OBVIOUS
<1>2. NextRecord(s) = IF e.idx < e.recs THEN [e EXCEPT !.pc = "delete", !.idx = @ + 1]
                      ELSE Result(e)
  BY <1>1 DEF NextRecord
<1>3. e \in Run
  BY <1>1 DEF Run, Statuses
<1>4. Result(e).pc = "done"
  BY <1>3, ResultFacts
<1>5. [e EXCEPT !.pc = "delete", !.idx = @ + 1].pc = "delete"
  BY <1>3 DEF Run
<1> QED
  BY <1>2, <1>4, <1>5

\* The verdict of the stretch from the resolved VMs to the declared teardown is
\* what happened in it.
LEMMA BodyVerdict ==
    ASSUME NEW b \in Bodies
    PROVE  /\ b.status \in Statuses /\ b.flaw \subseteq {"verdict", "threw"}
           /\ b.status # "passed" <=> "verdict" \in b.flaw
           /\ "threw" \in b.flaw => b.status = "error"
<1>0. PICK o \in Stretches : b = Body(o)
  BY DEF Bodies
<1> DEFINE ready == o.ready
           software == o.software
           att == o.setup
           workflow == o.workflow
           assertions == o.assertions
           td == o.teardown
           tdThrow == o.tdThrow
<1>1. /\ ready \in AgentsReady /\ software \in SoftwareApplied /\ att \in Attempts
      /\ workflow \in Outcomes /\ assertions \in Outcomes /\ td \in Attempts
      /\ tdThrow \in {"ok", "throw"}
      /\ b = [status |-> DeclaredTeardown(
                          TryBody(ready, software, att, workflow, assertions),
                          td, tdThrow = "throw"),
               flaw |-> BodyFlaw({ready, software, workflow, assertions, tdThrow},
                                 {att, td})]
  BY <1>0 DEF Stretches, Body
<1> HIDE DEF ready, software, att, workflow, assertions, td, tdThrow
<1>2. \A x \in Attempts :
        StepsPass(x) <=> \A k \in 1 .. Steps : TRUE \in {x[k][a] : a \in 1 .. Retries + 1}
  <2> SUFFICES ASSUME NEW x \in Attempts, NEW k \in 1 .. Steps
               PROVE  StepPasses(x[k]) <=> TRUE \in {x[k][a] : a \in 1 .. Retries + 1}
    BY DEF StepsPass
  <2>1. x[k] \in [1 .. Retries + 1 -> BOOLEAN]
    BY DEF Attempts
  <2>2. \A a \in 1 .. Retries + 1 : x[k][a] <=> x[k][a] = TRUE
    BY <2>1, Zenon
  <2> QED
    BY <2>1, <2>2, Zenon DEF StepPasses
<1>3. PICK out : out = {ready, software, workflow, assertions, tdThrow}
  OBVIOUS
<1>4. out = {"ok"} <=> /\ ready = "ok" /\ software = "ok" /\ workflow = "ok"
                       /\ assertions = "ok" /\ tdThrow = "ok"
  BY <1>3
<1>5. "throw" \in out <=> \/ ready = "throw" \/ workflow = "throw"
                          \/ assertions = "throw" \/ tdThrow = "throw"
  BY <1>1, <1>3 DEF SoftwareApplied
<1>6. /\ b.status = DeclaredTeardown(
                      TryBody(ready, software, att, workflow, assertions),
                      td, tdThrow = "throw")
      /\ b.flaw = BodyFlaw(out, {att, td})
  BY <1>1, <1>3
<1>7. /\ "threw" \in b.flaw <=> "throw" \in out
      /\ "verdict" \in b.flaw <=> ~(out = {"ok"} /\ StepsPass(att) /\ StepsPass(td))
      /\ b.flaw \subseteq {"verdict", "threw"}
  <2>1. (\A x \in {att, td}, k \in 1 .. Steps :
            TRUE \in {x[k][a] : a \in 1 .. Retries + 1})
        <=> StepsPass(att) /\ StepsPass(td)
    BY <1>1, <1>2
  <2> QED
    BY <1>6, <2>1 DEF BodyFlaw
<1>8. PICK t : t = TryBody(ready, software, att, workflow, assertions)
  OBVIOUS
<1>9. /\ t \in Statuses
      /\ t = "error" <=> "throw" \in {ready, workflow, assertions}
      /\ t = "passed" <=> /\ ready # "throw" /\ software = "ok" /\ workflow = "ok"
                          /\ assertions = "ok" /\ StepsPass(att)
  BY <1>1, <1>8 DEF TryBody, Assess, Failed, Statuses, Outcomes, AgentsReady
<1>10. b.status = IF tdThrow = "throw" THEN "error"
                  ELSE IF t = "passed" THEN (IF StepsPass(td) THEN t ELSE "failed")
                  ELSE t
  BY <1>6, <1>8 DEF DeclaredTeardown, Failed
<1>11. ready \in {"ok", "throw"} /\ tdThrow \in {"ok", "throw"}
  BY <1>1 DEF AgentsReady
<1> QED
  BY <1>4, <1>5, <1>7, <1>9, <1>10, <1>11 DEF Statuses

-----------------------------------------------------------------------------
(***************************************************************************)
(* A run moves: what it has of disks and VMs, and what others have.        *)
(***************************************************************************)

\* A name is of the one VM of a setup.yaml, in any run of the year.
LEMMA NameFacts ==
    /\ \A r \in Runs : \A v \in 1 .. NVms[r] : EphemeralName(r, v) \in Names
    /\ \A r, q, v, w : EphemeralName(r, v) = EphemeralName(q, w) => v = w
  BY DEF EphemeralName, Names

\* What the invariant says of each run and each name.
LEMMA Points ==
    ASSUME IInv
    PROVE  /\ \A r \in Runs : /\ run[r] \in Run /\ flaw[r] \in SUBSET Flaws
                              /\ Shape(r, run[r]) /\ Honest(run[r], flaw[r])
                              /\ run[r].pc \in Pcs /\ NVms[r] \in Nat
                              /\ run[r].idx \in 1 .. NVms[r]
                              /\ run[r].recs \in 0 .. NVms[r]
                              /\ Cur(r) \in Names
           /\ \A n \in Names : /\ disk[n].owner \in Runs \cup {NoRun}
                               /\ disk[n].age \in 0 .. MinAge
                               /\ vm[n] \in SUBSET Runs
<1>1. \A r \in Runs : /\ run[r] \in Run /\ flaw[r] \in SUBSET Flaws
                      /\ Shape(r, run[r]) /\ Honest(run[r], flaw[r])
  BY DEF IInv, RunsOK
<1>2. \A s \in Run : s.pc \in Pcs
  BY DEF Run, Pcs
<1>3. \A r \in Runs : /\ run[r].idx \in 1 .. NVms[r] /\ run[r].recs \in 0 .. NVms[r]
  BY <1>1 DEF Shape
<1>4. \A n \in Names : /\ disk[n] \in [owner : Runs \cup {NoRun}, age : Ages]
                       /\ vm[n] \in SUBSET Runs
  BY DEF IInv, DisksOK
<1>5. \A r \in Runs : Cur(r) \in Names
  BY <1>3, NameFacts DEF Cur
<1>6. \A r \in Runs : NVms[r] \in Nat
  BY SizeAssumption
<1> QED
  BY <1>1, <1>2, <1>3, <1>4, <1>5, <1>6 DEF Ages

\* A disk file is there when it has an owner.
LEMMA OnDiskFacts ==
    ASSUME IInv
    PROVE  \A n \in Names : (OnDisk(n) <=> disk[n].owner # NoRun)
                            /\ (disk[n] = NoDisk <=> disk[n].owner = NoRun)
<1> SUFFICES ASSUME NEW n \in Names
             PROVE  disk[n] = NoDisk <=> disk[n].owner = NoRun
  BY DEF OnDisk
<1>1. disk[n] \in [owner : Runs \cup {NoRun}, age : Ages]
  BY DEF IInv, DisksOK
<1>2. disk[n].owner = NoRun => disk[n].age = 0
  BY DEF IInv, DisksOK
<1> QED
  BY <1>1, <1>2 DEF NoDisk

\* Run r goes on with the locals s and the flaws f.
Moves(r, s, f) ==
    /\ run' = [run EXCEPT ![r] = s]
    /\ flaw' = [flaw EXCEPT ![r] = f]

\* Such a step is seen in the state of that run alone.
LEMMA MovePoints ==
    ASSUME IInv, NEW r \in Runs, NEW s, NEW f, Moves(r, s, f)
    PROVE  /\ run'[r] = s /\ flaw'[r] = f
           /\ \A q \in Runs : q # r => run'[q] = run[q] /\ flaw'[q] = flaw[q]
<1>1. run \in [Runs -> Run] /\ flaw \in [Runs -> SUBSET Flaws]
  BY DEF IInv, RunsOK
<1> QED
  BY <1>1 DEF Moves

\* A run whose new locals fit keeps the runs as they must be.
LEMMA MoveRun ==
    ASSUME IInv, NEW r \in Runs, NEW s \in Run, NEW f \in SUBSET Flaws,
           Moves(r, s, f), Shape(r, s), Honest(s, f)
    PROVE  RunsOK(run', flaw')
<1>1. run \in [Runs -> Run] /\ flaw \in [Runs -> SUBSET Flaws]
  BY DEF IInv, RunsOK
<1>2. run' \in [Runs -> Run] /\ flaw' \in [Runs -> SUBSET Flaws]
  BY <1>1 DEF Moves
<1>3. \A q \in Runs : Shape(q, run'[q]) /\ Honest(run'[q], flaw'[q])
  BY MovePoints DEF IInv, RunsOK
<1> QED
  BY <1>2, <1>3 DEF RunsOK

\* Errors and crashes stay within their bound.
LEMMA FaultType ==
    ASSUME IInv, Fault \/ UNCHANGED faults
    PROVE  faults' \in 0 .. MaxFaults
  BY BoundsAssumption DEF IInv, Fault

\* A step of a run that leaves the machine as it is.
LEMMA PureMove ==
    ASSUME IInv, NEW r \in Runs, NEW s \in Run, NEW f \in SUBSET Flaws,
           Moves(r, s, f), Shape(r, s), Honest(s, f),
           UNCHANGED <<disk, vm, reaper, taken, missed>>, Fault \/ UNCHANGED faults,
           strays \subseteq strays', strays' \subseteq Strays,
           \A v \in 1 .. NVms[r] : HasDisk(s, v) => HasDisk(run[r], v),
           s.pc # "gone" =>
             /\ run[r].pc # "gone"
             /\ \A v \in 1 .. NVms[r] : HasDisk(run[r], v) =>
                  HasDisk(s, v) \/ StrayDisk(r, EphemeralName(r, v)) \in strays'
             /\ \A v \in 1 .. NVms[r] : HasVm(run[r], v) =>
                  \/ HasVm(s, v) \/ StrayVm(r, EphemeralName(r, v)) \in strays'
                  \/ r \notin vm[EphemeralName(r, v)]
    PROVE  IInv'
<1>1. RunsOK(run', flaw')
  BY MoveRun
<1>2. /\ run'[r] = s /\ flaw'[r] = f
      /\ \A q \in Runs : q # r => run'[q] = run[q] /\ flaw'[q] = flaw[q]
  BY MovePoints
<1>3. Hold(run', disk', taken')
  BY <1>2 DEF IInv, Hold
<1>4. NoVm(run', vm', strays', missed' \cup taken')
  <2> SUFFICES ASSUME NEW q \in Runs, NEW v \in 1 .. NVms[q], HasDisk(run'[q], v),
                      NEW p \in vm'[EphemeralName(q, v)]
               PROVE  \/ p = q /\ HasVm(run'[q], v)
                      \/ Loose(strays', missed' \cup taken', p, EphemeralName(q, v))
    BY DEF NoVm
  <2>0. /\ EphemeralName(q, v) \in Names
        /\ HasDisk(run[q], v) =>
             \A x \in vm[EphemeralName(q, v)] :
               \/ x = q /\ HasVm(run[q], v)
               \/ Loose(strays, missed \cup taken, x, EphemeralName(q, v))
    BY NameFacts DEF IInv, NoVm
  <2>1. CASE q = r
    <3>1. s.pc # "gone"
      BY <1>2, <2>1 DEF HasDisk
    <3> QED
      BY <1>2, <2>0, <2>1, <3>1 DEF Loose
  <2>2. CASE q # r
    BY <1>2, <2>0, <2>2 DEF Loose
  <2> QED
    BY <2>1, <2>2
<1>5. Own(run', strays', disk', vm')
  BY <1>2 DEF IInv, Own
<1>6. DisksOK(disk', vm', strays', missed' \cup taken') /\ ReaperOK(reaper', disk', vm')
  BY DEF IInv, DisksOK, Loose
<1>7. faults' \in 0 .. MaxFaults
  BY FaultType
<1> QED
  BY <1>1, <1>3, <1>4, <1>5, <1>6, <1>7 DEF IInv

\* New-VHD made the file of the VM that run r is at.
LEMMA DiskMade ==
    ASSUME IInv, NEW r \in Runs, NEW s \in Run, NEW f \in SUBSET Flaws,
           Moves(r, s, f), Shape(r, s), Honest(s, f),
           run[r].pc = "disk", ~OnDisk(Cur(r)), Branch(r),
           UNCHANGED <<vm, taken, missed>>, Fault \/ UNCHANGED faults,
           strays \subseteq strays', strays' \subseteq Strays,
           \A v \in 1 .. NVms[r] :
             HasDisk(s, v) => HasDisk(run[r], v) \/ v = run[r].idx,
           s.pc # "gone" =>
             /\ \A v \in 1 .. NVms[r] :
                  HasDisk(run[r], v) \/ v = run[r].idx =>
                    HasDisk(s, v) \/ StrayDisk(r, EphemeralName(r, v)) \in strays'
             /\ \A v \in 1 .. NVms[r] : HasVm(run[r], v) => HasVm(s, v)
    PROVE  IInv'
<1>1. RunsOK(run', flaw')
  BY MoveRun
<1>2. /\ run'[r] = s /\ flaw'[r] = f
      /\ \A q \in Runs : q # r => run'[q] = run[q] /\ flaw'[q] = flaw[q]
  BY MovePoints
<1>3. /\ Cur(r) \in Names /\ run[r].idx \in 1 .. NVms[r]
      /\ Cur(r) = EphemeralName(r, run[r].idx)
  BY Points DEF Cur
<1>4. PICK n \in Names : n = Cur(r)
  BY <1>3
<1>5. /\ disk \in [Names -> [owner : Runs \cup {NoRun}, age : Ages]]
      /\ disk' = [disk EXCEPT ![n] = [owner |-> r, age |-> 0]]
  BY <1>4 DEF IInv, DisksOK, Branch
<1>6. /\ disk'[n] = [owner |-> r, age |-> 0] /\ disk'[n].owner = r /\ disk'[n].age = 0
      /\ \A k \in Names : k # n => disk'[k] = disk[k]
  BY <1>5
<1>7. disk[n] = NoDisk /\ disk[n].owner = NoRun
  BY <1>4, OnDiskFacts DEF OnDisk
<1>8. Hold(run', disk', taken')
  <2> SUFFICES ASSUME NEW q \in Runs, NEW v \in 1 .. NVms[q], HasDisk(run'[q], v)
               PROVE  \/ disk'[EphemeralName(q, v)].owner = q
                      \/ EphemeralName(q, v) \in taken
    BY DEF Hold
  <2>1. EphemeralName(q, v) \in Names
    BY NameFacts
  <2>2. HasDisk(run[q], v) =>
          disk[EphemeralName(q, v)].owner = q \/ EphemeralName(q, v) \in taken
    BY DEF IInv, Hold
  <2>3. CASE q = r
    BY <1>2, <1>3, <1>4, <1>6, <2>1, <2>2, <2>3
  <2>4. CASE q # r
    BY <1>2, <1>6, <1>7, <2>1, <2>2, <2>4, RunAssumption
  <2> QED
    BY <2>3, <2>4
<1>9. \A q \in vm[n] : Loose(strays', missed \cup taken, q, n)
  BY <1>7 DEF IInv, DisksOK, Loose
<1>10. NoVm(run', vm', strays', missed' \cup taken')
  <2> SUFFICES ASSUME NEW q \in Runs, NEW v \in 1 .. NVms[q], HasDisk(run'[q], v),
                      NEW p \in vm'[EphemeralName(q, v)]
               PROVE  \/ p = q /\ HasVm(run'[q], v)
                      \/ Loose(strays', missed' \cup taken', p, EphemeralName(q, v))
    BY DEF NoVm
  <2>0. /\ EphemeralName(q, v) \in Names
        /\ HasDisk(run[q], v) =>
             \A x \in vm[EphemeralName(q, v)] :
               \/ x = q /\ HasVm(run[q], v)
               \/ Loose(strays, missed \cup taken, x, EphemeralName(q, v))
    BY NameFacts DEF IInv, NoVm
  <2>1. CASE q = r
    <3>1. s.pc # "gone"
      BY <1>2, <2>1 DEF HasDisk
    <3> QED
      BY <1>2, <1>3, <1>4, <1>9, <2>0, <2>1, <3>1 DEF Loose
  <2>2. CASE q # r
    BY <1>2, <2>0, <2>2 DEF Loose
  <2> QED
    BY <2>1, <2>2
<1>11. Own(run', strays', disk', vm')
  <2> SUFFICES ASSUME NEW q \in Runs, run'[q].pc # "gone", NEW k \in Names
               PROVE  /\ disk'[k].owner = q =>
                           \/ StrayDisk(q, k) \in strays'
                           \/ \E v \in 1 .. NVms[q] :
                                k = EphemeralName(q, v) /\ HasDisk(run'[q], v)
                      /\ q \in vm[k] =>
                           \/ StrayVm(q, k) \in strays'
                           \/ \E v \in 1 .. NVms[q] :
                                k = EphemeralName(q, v) /\ HasVm(run'[q], v)
    BY DEF Own
  <2>1. run[q].pc # "gone" =>
          /\ disk[k].owner = q =>
               \/ StrayDisk(q, k) \in strays
               \/ \E v \in 1 .. NVms[q] :
                    k = EphemeralName(q, v) /\ HasDisk(run[q], v)
          /\ q \in vm[k] =>
               \/ StrayVm(q, k) \in strays
               \/ \E v \in 1 .. NVms[q] :
                    k = EphemeralName(q, v) /\ HasVm(run[q], v)
    BY DEF IInv, Own
  <2>2. CASE q = r
    BY <1>2, <1>3, <1>4, <1>6, <2>1, <2>2
  <2>3. CASE q # r
    BY <1>2, <1>6, <2>1, <2>3
  <2> QED
    BY <2>2, <2>3
<1>12. DisksOK(disk', vm', strays', missed' \cup taken')
  <2>1. disk' \in [Names -> [owner : Runs \cup {NoRun}, age : Ages]]
    BY <1>5, SizeAssumption DEF Ages
  <2>2. \A k \in Names : disk'[k].owner = NoRun => disk'[k].age = 0
    BY <1>6, RunAssumption DEF IInv, DisksOK
  <2>3. \A k \in Names : disk'[k] = NoDisk => disk[k] = NoDisk
    BY <1>6, <1>7
  <2> QED
    BY <2>1, <2>2, <2>3 DEF IInv, DisksOK, Loose
<1>13. ReaperOK(reaper', disk', vm')
  <2>1. ReaperOK(reaper, disk, vm) /\ \A k \in Queued(reaper) : k \in Names
    BY DEF IInv, ReaperOK, ReaperType, Queued
  <2>2. CASE n \notin Queued(reaper)
    <3>1. reaper' = reaper
      BY <1>4, <2>2 DEF Branch, Queued
    <3> QED
      BY <1>6, <2>1, <2>2, <3>1 DEF ReaperOK
  <2>3. CASE n \in Queued(reaper)
    <3>1. reaper' = [reaper EXCEPT !.fresh = @ \cup {n}]
      BY <1>4, <2>3 DEF Branch, Queued
    <3>2. /\ reaper' \in ReaperType /\ reaper'.pc = reaper.pc
          /\ reaper'.vmq = reaper.vmq /\ Queued(reaper') = Queued(reaper)
          /\ reaper'.diskq = reaper.diskq /\ reaper'.unseen = reaper.unseen
          /\ reaper'.fresh = reaper.fresh \cup {n}
      BY <2>1, <3>1 DEF ReaperOK, ReaperType, Queued
    <3>3. Clear(reaper', vm')
      BY <2>1, <3>2 DEF ReaperOK, Clear, Victim
    <3> QED
      BY <1>6, <2>1, <3>2, <3>3 DEF ReaperOK
  <2> QED
    BY <2>2, <2>3
<1>14. faults' \in 0 .. MaxFaults
  BY FaultType
<1> QED
  BY <1>1, <1>8, <1>10, <1>11, <1>12, <1>13, <1>14 DEF IInv

\* Two runs that have one disk: the reaper took it from one of them.
LEMMA TwoHolders ==
    ASSUME IInv, NEW r \in Runs, NEW q \in Runs, r # q,
           NEW v \in 1 .. NVms[r], NEW w \in 1 .. NVms[q],
           HasDisk(run[r], v), HasDisk(run[q], w),
           EphemeralName(r, v) = EphemeralName(q, w)
    PROVE  EphemeralName(r, v) \in taken
<1>1. disk[EphemeralName(r, v)].owner = r \/ EphemeralName(r, v) \in taken
  BY DEF IInv, Hold
<1>2. disk[EphemeralName(q, w)].owner = q \/ EphemeralName(q, w) \in taken
  BY DEF IInv, Hold
<1> QED
  BY <1>1, <1>2

\* Where a run creates, deletes or unlinks, it has the disk.
LEMMA AtDisk ==
    ASSUME IInv, NEW r \in Runs, run[r].pc \in {"create", "undo", "delete", "unlink"}
    PROVE  HasDisk(run[r], run[r].idx)
  BY Points DEF HasDisk, Shape

\* New-VM made a VM of the name run r is at.
LEMMA VmMade ==
    ASSUME IInv, NEW r \in Runs, NEW s \in Run, NEW f \in SUBSET Flaws,
           Moves(r, s, f), Shape(r, s), Honest(s, f), run[r].pc = "create",
           NewVm(r), UNCHANGED <<disk, taken, missed>>, Fault \/ UNCHANGED faults,
           strays \subseteq strays', strays' \subseteq Strays,
           \A v \in 1 .. NVms[r] : HasDisk(s, v) => HasDisk(run[r], v),
           s.pc # "gone" =>
             /\ \A v \in 1 .. NVms[r] : HasDisk(run[r], v) => HasDisk(s, v)
             /\ \A v \in 1 .. NVms[r] : HasVm(run[r], v) \/ v = run[r].idx =>
                  HasVm(s, v) \/ StrayVm(r, EphemeralName(r, v)) \in strays'
    PROVE  IInv'
<1>1. RunsOK(run', flaw')
  BY MoveRun
<1>2. /\ run'[r] = s /\ flaw'[r] = f
      /\ \A q \in Runs : q # r => run'[q] = run[q] /\ flaw'[q] = flaw[q]
  BY MovePoints
<1>3. /\ Cur(r) \in Names /\ run[r].idx \in 1 .. NVms[r]
      /\ Cur(r) = EphemeralName(r, run[r].idx)
  BY Points DEF Cur
<1>4. PICK n \in Names : n = Cur(r)
  BY <1>3
<1>5. vm \in [Names -> SUBSET Runs] /\ vm' = [vm EXCEPT ![n] = @ \cup {r}]
  BY <1>4 DEF IInv, DisksOK, NewVm
<1>6. /\ vm' \in [Names -> SUBSET Runs] /\ vm'[n] = vm[n] \cup {r}
      /\ \A k \in Names : k # n => vm'[k] = vm[k]
  <2>1. vm[n] \cup {r} \in SUBSET Runs
    BY <1>5
  <2> QED
    BY <1>5, <2>1
<1>7. HasDisk(run[r], run[r].idx)
  BY AtDisk
<1>8. disk[n].owner = r \/ n \in taken
  BY <1>3, <1>4, <1>7 DEF IInv, Hold
<1>9. Hold(run', disk', taken')
  BY <1>2 DEF IInv, Hold
<1>10. NoVm(run', vm', strays', missed' \cup taken')
  <2> SUFFICES ASSUME NEW q \in Runs, NEW v \in 1 .. NVms[q], HasDisk(run'[q], v),
                      NEW p \in vm'[EphemeralName(q, v)]
               PROVE  \/ p = q /\ HasVm(run'[q], v)
                      \/ Loose(strays', missed' \cup taken', p, EphemeralName(q, v))
    BY DEF NoVm
  <2>0. /\ EphemeralName(q, v) \in Names
        /\ HasDisk(run[q], v) =>
             \A x \in vm[EphemeralName(q, v)] :
               \/ x = q /\ HasVm(run[q], v)
               \/ Loose(strays, missed \cup taken, x, EphemeralName(q, v))
    BY NameFacts DEF IInv, NoVm
  <2>1. CASE q = r
    <3>1. s.pc # "gone"
      BY <1>2, <2>1 DEF HasDisk
    <3>2. ~HasVm(run[r], run[r].idx)
      BY Points DEF HasVm, Shape
    <3>3. HasDisk(run[r], v) /\ run'[q] = s
      BY <1>2, <2>1
    <3>4. CASE v = run[r].idx
      <4>1. EphemeralName(q, v) = n /\ (p = r \/ p \in vm[n])
        BY <1>3, <1>4, <1>6, <2>1, <3>4
      <4>2. HasVm(s, v) \/ StrayVm(r, n) \in strays'
        BY <2>1, <3>1, <3>4, <4>1
      <4> QED
        BY <2>0, <2>1, <3>2, <3>3, <3>4, <4>1, <4>2 DEF Loose
    <3>5. CASE v # run[r].idx
      <4>1. EphemeralName(q, v) # n
        BY <1>3, <1>4, <2>1, <3>5, NameFacts
      <4>2. vm'[EphemeralName(q, v)] = vm[EphemeralName(q, v)]
        BY <1>6, <2>0, <4>1
      <4> QED
        BY <2>0, <2>1, <3>1, <3>3, <4>2 DEF Loose
    <3> QED
      BY <3>4, <3>5
  <2>2. CASE q # r
    <3>1. run'[q] = run[q]
      BY <1>2, <2>2
    <3>3. CASE EphemeralName(q, v) = n
      BY <1>3, <1>4, <1>7, <2>2, <3>1, <3>3, TwoHolders DEF Loose
    <3>4. CASE EphemeralName(q, v) # n
      BY <1>6, <2>0, <3>1, <3>4 DEF Loose
    <3> QED
      BY <3>3, <3>4
  <2> QED
    BY <2>1, <2>2
<1>11. Own(run', strays', disk', vm')
  <2> SUFFICES ASSUME NEW q \in Runs, run'[q].pc # "gone", NEW k \in Names
               PROVE  /\ disk[k].owner = q =>
                           \/ StrayDisk(q, k) \in strays'
                           \/ \E v \in 1 .. NVms[q] :
                                k = EphemeralName(q, v) /\ HasDisk(run'[q], v)
                      /\ q \in vm'[k] =>
                           \/ StrayVm(q, k) \in strays'
                           \/ \E v \in 1 .. NVms[q] :
                                k = EphemeralName(q, v) /\ HasVm(run'[q], v)
    BY DEF Own
  <2>1. run[q].pc # "gone" =>
          /\ disk[k].owner = q =>
               \/ StrayDisk(q, k) \in strays
               \/ \E v \in 1 .. NVms[q] :
                    k = EphemeralName(q, v) /\ HasDisk(run[q], v)
          /\ q \in vm[k] =>
               \/ StrayVm(q, k) \in strays
               \/ \E v \in 1 .. NVms[q] :
                    k = EphemeralName(q, v) /\ HasVm(run[q], v)
    BY DEF IInv, Own
  <2>2. CASE q = r
    BY <1>2, <1>3, <1>4, <1>6, <2>1, <2>2
  <2>3. CASE q # r
    BY <1>2, <1>6, <2>1, <2>3
  <2> QED
    BY <2>2, <2>3
<1>12. DisksOK(disk', vm', strays', missed' \cup taken')
  <2>1. disk[n] = NoDisk => n \in taken
    BY <1>8, RunAssumption DEF NoDisk
  <2> QED
    BY <1>6, <2>1 DEF IInv, DisksOK, Loose
<1>13. ReaperOK(reaper', disk', vm') /\ faults' \in 0 .. MaxFaults
  <2>1. ReaperOK(reaper, disk, vm) /\ reaper \in ReaperType
    BY DEF IInv, ReaperOK
  <2>2. /\ reaper.diskq \in SUBSET Names /\ reaper.vmq \in SUBSET Names
        /\ reaper.pc = "unlink" => Victim(reaper) \in reaper.vmq
    BY <2>1 DEF ReaperType, ReaperOK, Victim
  <2>3. CASE n \notin reaper.vmq \cup reaper.diskq
    <3>1. reaper' = reaper
      BY <1>4, <2>3 DEF NewVm
    <3>2. Clear(reaper, vm')
      BY <1>6, <2>1, <2>2, <2>3 DEF ReaperOK, Clear
    <3> QED
      BY <2>1, <3>1, <3>2, FaultType DEF ReaperOK
  <2>4. CASE n \in reaper.vmq \cup reaper.diskq
    <3>1. reaper' = [reaper EXCEPT !.unseen = @ \cup {n}]
      BY <1>4, <2>4 DEF NewVm
    <3>2. /\ reaper' \in ReaperType /\ reaper'.pc = reaper.pc
          /\ reaper'.vmq = reaper.vmq /\ Queued(reaper') = Queued(reaper)
          /\ reaper'.diskq = reaper.diskq /\ reaper'.fresh = reaper.fresh
          /\ reaper'.unseen = reaper.unseen \cup {n}
      BY <2>1, <3>1 DEF ReaperType, Queued
    <3>3. Victim(reaper') = Victim(reaper)
      BY <3>2 DEF Victim
    <3>4. Clear(reaper', vm')
      BY <1>6, <2>1, <2>2, <3>2, <3>3 DEF ReaperOK, Clear
    <3> QED
      BY <2>1, <3>2, <3>4, FaultType DEF ReaperOK
  <2> QED
    BY <2>3, <2>4
<1> QED
  BY <1>1, <1>9, <1>10, <1>11, <1>12, <1>13 DEF IInv

\* Run r removed the VM it is at.
LEMMA VmRemoved ==
    ASSUME IInv, NEW r \in Runs, NEW s \in Run, NEW f \in SUBSET Flaws,
           Moves(r, s, f), Shape(r, s), Honest(s, f),
           run[r].pc = "delete", s.pc = "unlink", s.idx = run[r].idx,
           s.recs = run[r].recs,
           vm' = [vm EXCEPT ![Cur(r)] = {}],
           UNCHANGED <<disk, reaper, strays, taken, missed>>, Fault \/ UNCHANGED faults
    PROVE  IInv'
<1>1. RunsOK(run', flaw')
  BY MoveRun
<1>2. /\ run'[r] = s /\ flaw'[r] = f
      /\ \A q \in Runs : q # r => run'[q] = run[q] /\ flaw'[q] = flaw[q]
  BY MovePoints
<1>3. /\ Cur(r) \in Names /\ run[r].idx \in 1 .. NVms[r] /\ NVms[r] \in Nat
      /\ run[r].recs \in 0 .. NVms[r] /\ Cur(r) = EphemeralName(r, run[r].idx)
  BY Points DEF Cur
<1>4. PICK n \in Names : n = Cur(r)
  BY <1>3
<1>5. vm \in [Names -> SUBSET Runs] /\ vm' = [vm EXCEPT ![n] = {}]
  BY <1>4 DEF IInv, DisksOK
<1>6. /\ vm' \in [Names -> SUBSET Runs] /\ vm'[n] = {}
      /\ \A k \in Names : k # n => vm'[k] = vm[k]
  BY <1>5
<1>7. /\ \A v \in 1 .. NVms[r] : HasDisk(s, v) <=> HasDisk(run[r], v)
      /\ \A v \in 1 .. NVms[r] : HasVm(run[r], v) /\ v # run[r].idx => HasVm(s, v)
  BY <1>3 DEF HasDisk, HasVm
<1>8. Hold(run', disk', taken')
  BY <1>2, <1>7 DEF IInv, Hold
<1>9. NoVm(run', vm', strays', missed' \cup taken')
  <2> SUFFICES ASSUME NEW q \in Runs, NEW v \in 1 .. NVms[q], HasDisk(run'[q], v),
                      NEW p \in vm'[EphemeralName(q, v)]
               PROVE  \/ p = q /\ HasVm(run'[q], v)
                      \/ Loose(strays', missed' \cup taken', p, EphemeralName(q, v))
    BY DEF NoVm
  <2>0. /\ EphemeralName(q, v) \in Names
        /\ HasDisk(run[q], v) =>
             \A x \in vm[EphemeralName(q, v)] :
               \/ x = q /\ HasVm(run[q], v)
               \/ Loose(strays, missed \cup taken, x, EphemeralName(q, v))
    BY NameFacts DEF IInv, NoVm
  <2>1. CASE q = r
    BY <1>2, <1>3, <1>4, <1>6, <1>7, <2>0, <2>1
  <2>2. CASE q # r
    BY <1>2, <1>6, <2>0, <2>2
  <2> QED
    BY <2>1, <2>2
<1>10. Own(run', strays', disk', vm')
  <2> SUFFICES ASSUME NEW q \in Runs, run'[q].pc # "gone", NEW k \in Names
               PROVE  /\ disk[k].owner = q =>
                           \/ StrayDisk(q, k) \in strays'
                           \/ \E v \in 1 .. NVms[q] :
                                k = EphemeralName(q, v) /\ HasDisk(run'[q], v)
                      /\ q \in vm'[k] =>
                           \/ StrayVm(q, k) \in strays'
                           \/ \E v \in 1 .. NVms[q] :
                                k = EphemeralName(q, v) /\ HasVm(run'[q], v)
    BY DEF Own
  <2>1. run[q].pc # "gone" =>
          /\ disk[k].owner = q =>
               \/ StrayDisk(q, k) \in strays
               \/ \E v \in 1 .. NVms[q] :
                    k = EphemeralName(q, v) /\ HasDisk(run[q], v)
          /\ q \in vm[k] =>
               \/ StrayVm(q, k) \in strays
               \/ \E v \in 1 .. NVms[q] :
                    k = EphemeralName(q, v) /\ HasVm(run[q], v)
    BY DEF IInv, Own
  <2>2. CASE q = r
    BY <1>2, <1>3, <1>4, <1>6, <1>7, <2>1, <2>2
  <2>3. CASE q # r
    BY <1>2, <1>6, <2>1, <2>3
  <2> QED
    BY <2>2, <2>3
<1>11. DisksOK(disk', vm', strays', missed' \cup taken')
  BY <1>6 DEF IInv, DisksOK
<1>12. ReaperOK(reaper', disk', vm') /\ faults' \in 0 .. MaxFaults
  <2>1. ReaperOK(reaper, disk, vm) /\ reaper \in ReaperType
    BY DEF IInv, ReaperOK
  <2>2. /\ reaper.diskq \in SUBSET Names
        /\ reaper.pc = "unlink" => Victim(reaper) \in Names
    BY <2>1 DEF ReaperType, ReaperOK, Victim
  <2>3. Clear(reaper, vm')
    BY <1>6, <2>1, <2>2 DEF ReaperOK, Clear
  <2> QED
    BY <2>1, <2>3, FaultType DEF ReaperOK
<1> QED
  BY <1>1, <1>8, <1>9, <1>10, <1>11, <1>12 DEF IInv

\* Run r unlinked the disk it is at.
LEMMA DiskRemoved ==
    ASSUME IInv, NEW r \in Runs, NEW s \in Run, NEW f \in SUBSET Flaws,
           Moves(r, s, f), Shape(r, s), Honest(s, f),
           run[r].pc \in {"undo", "unlink"}, s.pc \in {"delete", "done"},
           disk' = [disk EXCEPT ![Cur(r)] = NoDisk],
           UNCHANGED <<vm, reaper, strays, taken, missed>>, Fault \/ UNCHANGED faults,
           \A v \in 1 .. NVms[r] :
             HasDisk(s, v) <=> HasDisk(run[r], v) /\ v # run[r].idx,
           \A v \in 1 .. NVms[r] : HasVm(run[r], v) => HasVm(s, v)
    PROVE  IInv'
<1>1. RunsOK(run', flaw')
  BY MoveRun
<1>2. /\ run'[r] = s /\ flaw'[r] = f
      /\ \A q \in Runs : q # r => run'[q] = run[q] /\ flaw'[q] = flaw[q]
  BY MovePoints
<1>3. /\ Cur(r) \in Names /\ run[r].idx \in 1 .. NVms[r]
      /\ Cur(r) = EphemeralName(r, run[r].idx)
  BY Points DEF Cur
<1>4. PICK n \in Names : n = Cur(r)
  BY <1>3
<1>5. /\ disk \in [Names -> [owner : Runs \cup {NoRun}, age : Ages]]
      /\ disk' = [disk EXCEPT ![n] = NoDisk]
  BY <1>4 DEF IInv, DisksOK
<1>6. /\ disk'[n] = NoDisk /\ disk'[n].owner = NoRun
      /\ \A k \in Names : k # n => disk'[k] = disk[k]
  BY <1>5 DEF NoDisk
<1>7. HasDisk(run[r], run[r].idx)
  BY AtDisk
<1>8. Hold(run', disk', taken')
  <2> SUFFICES ASSUME NEW q \in Runs, NEW v \in 1 .. NVms[q], HasDisk(run'[q], v)
               PROVE  \/ disk'[EphemeralName(q, v)].owner = q
                      \/ EphemeralName(q, v) \in taken
    BY DEF Hold
  <2>1. EphemeralName(q, v) \in Names
    BY NameFacts
  <2>2. HasDisk(run[q], v)
    BY <1>2
  <2>3. disk[EphemeralName(q, v)].owner = q \/ EphemeralName(q, v) \in taken
    BY <2>2 DEF IInv, Hold
  <2>4. CASE EphemeralName(q, v) # n
    BY <1>6, <2>1, <2>3, <2>4
  <2>5. CASE EphemeralName(q, v) = n
    <3>1. q # r
      BY <1>2, <1>3, <1>4, <2>5, NameFacts
    <3> QED
      BY <1>3, <1>4, <1>7, <2>2, <2>5, <3>1, TwoHolders
  <2> QED
    BY <2>4, <2>5
<1>9. NoVm(run', vm', strays', missed' \cup taken')
  <2> SUFFICES ASSUME NEW q \in Runs, NEW v \in 1 .. NVms[q], HasDisk(run'[q], v),
                      NEW p \in vm'[EphemeralName(q, v)]
               PROVE  \/ p = q /\ HasVm(run'[q], v)
                      \/ Loose(strays', missed' \cup taken', p, EphemeralName(q, v))
    BY DEF NoVm
  <2>0. /\ EphemeralName(q, v) \in Names
        /\ HasDisk(run[q], v) =>
             \A x \in vm[EphemeralName(q, v)] :
               \/ x = q /\ HasVm(run[q], v)
               \/ Loose(strays, missed \cup taken, x, EphemeralName(q, v))
    BY NameFacts DEF IInv, NoVm
  <2> QED
    BY <1>2, <2>0
<1>10. Own(run', strays', disk', vm')
  <2> SUFFICES ASSUME NEW q \in Runs, run'[q].pc # "gone", NEW k \in Names
               PROVE  /\ disk'[k].owner = q =>
                           \/ StrayDisk(q, k) \in strays'
                           \/ \E v \in 1 .. NVms[q] :
                                k = EphemeralName(q, v) /\ HasDisk(run'[q], v)
                      /\ q \in vm[k] =>
                           \/ StrayVm(q, k) \in strays'
                           \/ \E v \in 1 .. NVms[q] :
                                k = EphemeralName(q, v) /\ HasVm(run'[q], v)
    BY DEF Own
  <2>1. run[q].pc # "gone" =>
          /\ disk[k].owner = q =>
               \/ StrayDisk(q, k) \in strays
               \/ \E v \in 1 .. NVms[q] :
                    k = EphemeralName(q, v) /\ HasDisk(run[q], v)
          /\ q \in vm[k] =>
               \/ StrayVm(q, k) \in strays
               \/ \E v \in 1 .. NVms[q] :
                    k = EphemeralName(q, v) /\ HasVm(run[q], v)
    BY DEF IInv, Own
  <2>4. disk'[k].owner = q => k # n /\ disk[k].owner = q
    BY <1>6, RunAssumption
  <2>2. CASE q = r
    BY <1>2, <1>3, <1>4, <2>1, <2>2, <2>4
  <2>3. CASE q # r
    BY <1>2, <2>1, <2>3, <2>4
  <2> QED
    BY <2>2, <2>3
<1>11. \A q \in vm[n] : Loose(strays, missed \cup taken, q, n)
  <2>1. ~HasVm(run[r], run[r].idx)
    BY Points DEF HasVm, Shape
  <2> QED
    BY <1>3, <1>4, <1>7, <2>1 DEF IInv, NoVm
<1>12. DisksOK(disk', vm', strays', missed' \cup taken')
  <2>1. disk' \in [Names -> [owner : Runs \cup {NoRun}, age : Ages]]
    <3>1. NoDisk \in [owner : Runs \cup {NoRun}, age : Ages]
      BY SizeAssumption DEF Ages, NoDisk
    <3> QED
      BY <1>5, <3>1
  <2>2. \A k \in Names : disk'[k].owner = NoRun => disk'[k].age = 0
    BY <1>6 DEF IInv, DisksOK, NoDisk
  <2> QED
    BY <1>6, <1>11, <2>1, <2>2 DEF IInv, DisksOK
<1>13. ReaperOK(reaper', disk', vm')
  <2>1. ReaperOK(reaper, disk, vm)
    BY DEF IInv
  <2>2. \A k \in Queued(reaper) : k \in Names
    BY <2>1 DEF ReaperOK, ReaperType, Queued
  <2> QED
    BY <1>6, <2>1, <2>2 DEF ReaperOK
<1>14. faults' \in 0 .. MaxFaults
  BY FaultType
<1> QED
  BY <1>1, <1>8, <1>9, <1>10, <1>12, <1>13, <1>14 DEF IInv

-----------------------------------------------------------------------------
(***************************************************************************)
(* The steps of a run.                                                     *)
(***************************************************************************)

\* A run without errors so far.
Early == {"idle", "disk", "create", "undo", "boot", "body"}

\* What is known of a run at its step.
LEMMA RunFacts ==
    ASSUME IInv, NEW r \in Runs
    PROVE  /\ run[r] \in Run /\ flaw[r] \in SUBSET Flaws
           /\ run[r].err \in BOOLEAN /\ run[r].tdErr \in BOOLEAN
           /\ run[r].status \in Statuses
           /\ Shape(r, run[r]) /\ Honest(run[r], flaw[r])
           /\ NVms[r] \in Nat \ {0} /\ run[r].idx \in 1 .. NVms[r]
           /\ run[r].recs \in 0 .. NVms[r] /\ Cur(r) \in Names
           /\ run[r].pc \in Early =>
                /\ run[r].tdErr = FALSE /\ "verdict" \notin flaw[r]
                /\ "threw" \notin flaw[r]
<1>1. run[r] \in Run /\ Honest(run[r], flaw[r])
  BY Points
<1>2. /\ run[r].err \in BOOLEAN /\ run[r].tdErr \in BOOLEAN
      /\ run[r].status \in Statuses
  BY <1>1 DEF Run
<1>3. run[r].pc \in Early =>
        /\ run[r].tdErr = FALSE /\ "verdict" \notin flaw[r] /\ "threw" \notin flaw[r]
  BY <1>1, <1>2 DEF Honest, Early
<1> QED
  BY <1>2, <1>3, Points, SizeAssumption

\* A failed call left the disk that run r is at.
LEMMA DiskLeft ==
    ASSUME IInv, NEW r \in Runs, Leaves(StrayDisk(r, Cur(r)))
    PROVE  /\ strays \subseteq strays' /\ strays' \subseteq Strays
           /\ StrayDisk(r, EphemeralName(r, run[r].idx)) \in strays'
<1>1. Cur(r) \in Names
  BY RunFacts
<1> QED
  BY <1>1 DEF IInv, Leaves, StrayDisk, Strays, Cur

\* A step that leaves the flaws alone.
LEMMA Flawless ==
    ASSUME IInv, NEW r \in Runs, NEW s, run' = [run EXCEPT ![r] = s], UNCHANGED flaw
    PROVE  Moves(r, s, flaw[r])
<1>1. flaw \in [Runs -> SUBSET Flaws]
  BY DEF IInv, RunsOK
<1> QED
  BY <1>1 DEF Moves

\* The pc of a run without errors goes on.
LEMMA GoFacts ==
    ASSUME IInv, NEW r \in Runs, run[r].pc \in Early, NEW p \in Early,
           NEW i \in Nat \ {0}, NEW k \in Nat, NEW s \in Run,
           s.pc = p, s.idx = i, s.recs = k, s.status = run[r].status,
           s.err = run[r].err,
           s.tdErr = run[r].tdErr
    PROVE  Honest(s, flaw[r])
<1>1. Honest(run[r], flaw[r])
  BY RunFacts
<1>3. run[r].err \in BOOLEAN /\ run[r].tdErr \in BOOLEAN
  BY RunFacts
<1> QED
  BY <1>1, <1>3 DEF Honest, Early

\* An error before the VMs are resolved, when no file is left of the call.
LEMMA ThrowMove ==
    ASSUME IInv, NEW r \in Runs, run[r].pc \in {"idle", "disk", "boot"},
           Moves(r, Throw(run[r]), flaw[r] \cup {"verdict", "threw"}),
           UNCHANGED <<disk, vm, reaper, strays, taken, missed>>, Fault \/ UNCHANGED faults
    PROVE  IInv'
<1>1. PICK f : f = flaw[r] \cup {"verdict", "threw"}
  OBVIOUS
<1>2. f \in SUBSET Flaws /\ "verdict" \in f
  BY <1>1, RunFacts DEF Flaws
<1>3. PICK s : s = Throw(run[r])
  OBVIOUS
<1>4. /\ run[r] \in Run /\ run[r].recs \in 0 .. NVms[r] /\ run[r].tdErr = FALSE
      /\ NVms[r] \in Nat /\ Shape(r, run[r])
  BY RunFacts DEF Early
<1>5. /\ s \in Run /\ Shape(r, s) /\ Honest(s, f) /\ s.pc \in {"delete", "done"}
      /\ \A v \in 1 .. NVms[r] : HasDisk(s, v) <=> v <= run[r].recs
      /\ \A v \in 1 .. NVms[r] : HasVm(s, v) <=> v <= run[r].recs
  BY <1>2, <1>3, <1>4, ThrowFacts
<1>6. \A v \in 1 .. NVms[r] : /\ HasDisk(run[r], v) <=> v <= run[r].recs
                              /\ HasVm(run[r], v) <=> v <= run[r].recs
  BY <1>4 DEF HasDisk, HasVm, Shape
<1>7. Moves(r, s, f) /\ strays \subseteq strays' /\ strays' \subseteq Strays
  BY <1>1, <1>3 DEF IInv
<1> QED
  BY <1>2, <1>5, <1>6, <1>7, PureMove

\* A throw as a move.
LEMMA ThrowsMoves ==
    ASSUME NEW r \in Runs, Throws(r)
    PROVE  Moves(r, Throw(run[r]), flaw[r] \cup {"verdict", "threw"})
  BY DEF Throws, Moves, Blot

\* Loading the scenario, or its error, before anything was provisioned.
LEMMA BeginStep ==
    ASSUME IInv, NEW r \in Runs, Begin(r)
    PROVE  IInv'
<1>1. run[r].pc = "idle" /\ UNCHANGED <<disk, vm, reaper, faults, strays, taken, missed>>
  BY DEF Begin, At
<1>2. CASE Throws(r)
  BY <1>1, <1>2, ThrowsMoves, ThrowMove
<1>3. CASE Go(r, "disk") /\ UNCHANGED flaw
  <2>1. PICK s : s = [run[r] EXCEPT !.pc = "disk"]
    OBVIOUS
  <2>2. s \in Run
    <3>1. "disk" \in Pcs /\ 1 \in Nat \ {0} /\ 0 \in Nat
      BY DEF Pcs
    <3> QED
      BY <2>1, <3>1, RunFacts, RunPoints
  <2>3. /\ s.pc = "disk" /\ s.idx = run[r].idx /\ s.recs = run[r].recs
        /\ s.status = run[r].status /\ s.err = run[r].err /\ s.tdErr = run[r].tdErr
    BY <2>1, RunFacts DEF Run
  <2>4. run[r].idx = 1 /\ run[r].recs = 0 /\ NVms[r] \in Nat \ {0}
    BY <1>1, RunFacts DEF Shape
  <2>5. Shape(r, s)
    BY <2>3, <2>4 DEF Shape
  <2>6. Honest(s, flaw[r])
    <3>1. s.pc \in Early /\ run[r].pc \in Early
      BY <1>1, <2>3 DEF Early
    <3>2. s.idx \in Nat \ {0} /\ s.recs \in Nat
      BY <2>3, <2>4
    <3> QED
      BY <2>2, <2>3, <3>1, <3>2, GoFacts, RunFacts
  <2>7. Moves(r, s, flaw[r])
    BY <1>3, <2>1, Flawless DEF Go
  <2>8. \A v \in 1 .. NVms[r] : ~HasDisk(s, v) /\ ~HasDisk(run[r], v) /\ ~HasVm(run[r], v)
    BY <1>1, <2>3, <2>4 DEF HasDisk, HasVm
  <2>9. strays \subseteq strays' /\ strays' \subseteq Strays
    BY <1>1 DEF IInv
  <2> QED
    BY <1>1, <2>2, <2>3, <2>5, <2>6, <2>7, <2>8, <2>9, RunFacts, PureMove
<1> QED
  BY <1>2, <1>3 DEF Begin

\* createDifferencingDisk refuses an existing child.
LEMMA ChildExistsStep ==
    ASSUME IInv, NEW r \in Runs, ChildExists(r)
    PROVE  IInv'
<1>1. run[r].pc = "disk" /\ UNCHANGED <<disk, vm, reaper, faults, strays, taken, missed>>
      /\ Throws(r)
  BY DEF ChildExists, At
<1> QED
  BY <1>1, ThrowsMoves, ThrowMove

\* The child disk is made: the name is now locked.
LEMMA CreateDifferencingDiskStep ==
    ASSUME IInv, NEW r \in Runs, CreateDifferencingDisk(r)
    PROVE  IInv'
<1>1. /\ run[r].pc = "disk" /\ ~OnDisk(Cur(r)) /\ Branch(r)
      /\ run' = [run EXCEPT ![r] = [run[r] EXCEPT !.pc = "create"]]
      /\ UNCHANGED <<vm, faults, flaw, strays, taken, missed>>
  BY DEF CreateDifferencingDisk, At, Go
<1>2. PICK s : s = [run[r] EXCEPT !.pc = "create"]
  OBVIOUS
<1>3. s \in Run
  <2>1. "create" \in Pcs /\ 1 \in Nat \ {0} /\ 0 \in Nat
    BY DEF Pcs
  <2> QED
    BY <1>2, <2>1, RunFacts, RunPoints
<1>4. /\ s.pc = "create" /\ s.idx = run[r].idx /\ s.recs = run[r].recs
      /\ s.status = run[r].status /\ s.err = run[r].err /\ s.tdErr = run[r].tdErr
  BY <1>2, RunFacts DEF Run
<1>5. /\ run[r].recs + 1 = run[r].idx /\ NVms[r] \in Nat \ {0}
      /\ run[r].idx \in 1 .. NVms[r] /\ run[r].recs \in 0 .. NVms[r]
  BY <1>1, RunFacts DEF Shape
<1>6. Shape(r, s)
  BY <1>4, <1>5 DEF Shape
<1>7. Honest(s, flaw[r])
  <2>1. s.pc \in Early /\ run[r].pc \in Early
    BY <1>1, <1>4 DEF Early
  <2>2. s.idx \in Nat \ {0} /\ s.recs \in Nat
    BY <1>4, <1>5
  <2> QED
    BY <1>3, <1>4, <2>1, <2>2, GoFacts, RunFacts
<1>8. Moves(r, s, flaw[r])
  BY <1>1, <1>2, Flawless
<1>9. \A v \in 1 .. NVms[r] :
        /\ HasDisk(s, v) <=> HasDisk(run[r], v) \/ v = run[r].idx
        /\ HasVm(run[r], v) => HasVm(s, v)
  BY <1>1, <1>4, <1>5 DEF HasDisk, HasVm
<1>10. strays \subseteq strays' /\ strays' \subseteq Strays /\ flaw[r] \in SUBSET Flaws
  BY <1>1, RunFacts DEF IInv
<1> QED
  BY <1>1, <1>3, <1>4, <1>6, <1>7, <1>8, <1>9, <1>10, DiskMade

\* New-VHD failed, with or without a file left behind.
LEMMA NewVhdFailsStep ==
    ASSUME IInv, NEW r \in Runs, NewVhdFails(r)
    PROVE  IInv'
<1>1. /\ run[r].pc = "disk" /\ ~OnDisk(Cur(r)) /\ Fault
      /\ Throws(r) /\ UNCHANGED <<vm, taken, missed>>
  BY DEF NewVhdFails, At
<1>2. CASE UNCHANGED <<disk, reaper, strays>>
  BY <1>1, <1>2, ThrowsMoves, ThrowMove
<1>3. CASE Branch(r) /\ Leaves(StrayDisk(r, Cur(r)))
  <2>1. PICK s : s = Throw(run[r])
    OBVIOUS
  <2>0. PICK f : f = flaw[r] \cup {"verdict", "threw"}
    OBVIOUS
  <2>2. Moves(r, s, f)
    BY <1>1, <2>0, <2>1, ThrowsMoves
  <2>3. f \in SUBSET Flaws /\ "verdict" \in f
    BY <2>0, RunFacts DEF Flaws
  <2>4. /\ run[r] \in Run /\ run[r].recs \in 0 .. NVms[r] /\ run[r].tdErr = FALSE
    BY <1>1, RunFacts DEF Early
  <2>5. /\ s \in Run /\ Shape(r, s) /\ Honest(s, f) /\ s.pc \in {"delete", "done"}
        /\ \A v \in 1 .. NVms[r] : HasDisk(s, v) <=> v <= run[r].recs
        /\ \A v \in 1 .. NVms[r] : HasVm(s, v) <=> v <= run[r].recs
    BY <2>1, <2>3, <2>4, ThrowFacts
  <2>6. \A v \in 1 .. NVms[r] :
          (HasDisk(s, v) <=> HasDisk(run[r], v)) /\ (HasVm(run[r], v) => HasVm(s, v))
    BY <1>1, <2>5 DEF HasDisk, HasVm
  <2>7. /\ strays \subseteq strays' /\ strays' \subseteq Strays
        /\ StrayDisk(r, EphemeralName(r, run[r].idx)) \in strays'
    BY <1>3, DiskLeft
  <2>8. \A v \in 1 .. NVms[r] : HasDisk(run[r], v) \/ v = run[r].idx =>
          HasDisk(s, v) \/ StrayDisk(r, EphemeralName(r, v)) \in strays'
    BY <2>6, <2>7
  <2> QED
    BY <1>1, <1>3, <2>2, <2>3, <2>5, <2>6, <2>7, <2>8, DiskMade
<1> QED
  BY <1>2, <1>3 DEF NewVhdFails

LEMMA CreateVmStep ==
    ASSUME IInv, NEW r \in Runs, CreateVm(r)
    PROVE  IInv'
<1>0. run \in [Runs -> Run]
  BY DEF IInv, RunsOK
<1>1. /\ run[r].pc = "create" /\ NewVm(r)
      /\ run' = [run EXCEPT ![r].pc = "boot", ![r].recs = run[r].idx]
      /\ UNCHANGED <<disk, faults, flaw, strays, taken, missed>>
  BY DEF CreateVm, At
<1>2. PICK s : s = [run[r] EXCEPT !.pc = "boot", !.recs = run[r].idx]
  OBVIOUS
<1>5. /\ run[r].recs + 1 = run[r].idx /\ NVms[r] \in Nat \ {0}
      /\ run[r].idx \in 1 .. NVms[r] /\ run[r].recs \in 0 .. NVms[r]
  BY <1>1, RunFacts DEF Shape
<1>3. s \in Run
  <2>1. "boot" \in Pcs /\ 1 \in Nat \ {0} /\ run[r].idx \in Nat
    BY <1>5 DEF Pcs
  <2> QED
    BY <1>2, <2>1, RunFacts, RunPoints, Zenon
<1>4. /\ s.pc = "boot" /\ s.idx = run[r].idx /\ s.recs = run[r].idx
      /\ s.status = run[r].status /\ s.err = run[r].err /\ s.tdErr = run[r].tdErr
  BY <1>2, RunFacts DEF Run
<1>6. Shape(r, s)
  BY <1>4, <1>5 DEF Shape
<1>7. Honest(s, flaw[r])
  <2>1. s.pc \in Early /\ run[r].pc \in Early
    BY <1>1, <1>4 DEF Early
  <2>2. s.idx \in Nat \ {0} /\ s.recs \in Nat
    BY <1>4, <1>5
  <2> QED
    BY <1>3, <1>4, <2>1, <2>2, GoFacts, RunFacts
<1>8. Moves(r, s, flaw[r])
  <2>1. run' = [run EXCEPT ![r] = s]
    BY <1>0, <1>1, <1>2
  <2> QED
    BY <1>1, <2>1, Flawless
<1>9. \A v \in 1 .. NVms[r] :
        /\ HasDisk(s, v) <=> HasDisk(run[r], v)
        /\ HasVm(run[r], v) \/ v = run[r].idx => HasVm(s, v)
  BY <1>1, <1>4, <1>5 DEF HasDisk, HasVm
<1>10. strays \subseteq strays' /\ strays' \subseteq Strays
  BY <1>1 DEF IInv
<1> QED
  BY <1>1, <1>3, <1>4, <1>6, <1>7, <1>8, <1>9, <1>10, RunFacts, VmMade

\* createVM threw, with or without a VM left behind.
LEMMA CreateVmFailsStep ==
    ASSUME IInv, NEW r \in Runs, CreateVmFails(r)
    PROVE  IInv'
<1>1. /\ run[r].pc = "create" /\ Fault
      /\ run' = [run EXCEPT ![r] = [run[r] EXCEPT !.pc = "undo"]]
      /\ UNCHANGED <<disk, flaw, taken, missed>>
  BY DEF CreateVmFails, At, Go
<1>2. PICK s : s = [run[r] EXCEPT !.pc = "undo"]
  OBVIOUS
<1>3. s \in Run
  <2>1. "undo" \in Pcs /\ 1 \in Nat \ {0} /\ 0 \in Nat
    BY DEF Pcs
  <2> QED
    BY <1>2, <2>1, RunFacts, RunPoints
<1>4. /\ s.pc = "undo" /\ s.idx = run[r].idx /\ s.recs = run[r].recs
      /\ s.status = run[r].status /\ s.err = run[r].err /\ s.tdErr = run[r].tdErr
  BY <1>2, RunFacts DEF Run
<1>5. /\ run[r].recs + 1 = run[r].idx /\ NVms[r] \in Nat \ {0}
      /\ run[r].idx \in 1 .. NVms[r] /\ run[r].recs \in 0 .. NVms[r]
      /\ flaw[r] \in SUBSET Flaws /\ Cur(r) \in Names
  BY <1>1, RunFacts DEF Shape
<1>6. Shape(r, s)
  BY <1>4, <1>5 DEF Shape
<1>7. Honest(s, flaw[r])
  <2>1. s.pc \in Early /\ run[r].pc \in Early
    BY <1>1, <1>4 DEF Early
  <2>2. s.idx \in Nat \ {0} /\ s.recs \in Nat
    BY <1>4, <1>5
  <2> QED
    BY <1>3, <1>4, <2>1, <2>2, GoFacts
<1>8. \A v \in 1 .. NVms[r] :
        /\ HasDisk(s, v) <=> HasDisk(run[r], v)
        /\ HasVm(run[r], v) => HasVm(s, v)
  BY <1>1, <1>4, <1>5 DEF HasDisk, HasVm
<1>11. Moves(r, s, flaw[r])
  BY <1>1, <1>2, Flawless
<1>9. CASE UNCHANGED <<vm, reaper, strays>>
  <2>2. strays \subseteq strays' /\ strays' \subseteq Strays
    BY <1>9 DEF IInv
  <2> QED
    BY <1>1, <1>3, <1>4, <1>5, <1>6, <1>7, <1>8, <1>9, <1>11, <2>2, PureMove
<1>10. CASE NewVm(r) /\ Leaves(StrayVm(r, Cur(r)))
  <2>1. /\ strays \subseteq strays' /\ strays' \subseteq Strays
        /\ StrayVm(r, EphemeralName(r, run[r].idx)) \in strays'
    BY <1>5, <1>10 DEF IInv, Leaves, StrayVm, Strays, Cur
  <2> QED
    BY <1>1, <1>3, <1>4, <1>5, <1>6, <1>7, <1>8, <1>10, <1>11, <2>1, VmMade
<1> QED
  BY <1>9, <1>10 DEF CreateVmFails

\* The roll-back of a failed createVM unlinks the disk, or fails to.
LEMMA UndoDiskStep ==
    ASSUME IInv, NEW r \in Runs, UndoDisk(r)
    PROVE  IInv'
<1>1. /\ run[r].pc = "undo" /\ Throws(r) /\ UNCHANGED <<vm, reaper, taken, missed>>
  BY DEF UndoDisk, At
<1>2. PICK s : s = Throw(run[r])
  OBVIOUS
<1>3. /\ run[r] \in Run /\ run[r].recs \in 0 .. NVms[r] /\ run[r].tdErr = FALSE
      /\ NVms[r] \in Nat \ {0} /\ run[r].idx \in 1 .. NVms[r]
      /\ run[r].recs + 1 = run[r].idx /\ flaw[r] \in SUBSET Flaws
  BY <1>1, RunFacts DEF Early, Shape
<1>4. \A f : "verdict" \in f =>
        /\ s \in Run /\ Shape(r, s) /\ Honest(s, f) /\ s.pc \in {"delete", "done"}
        /\ \A v \in 1 .. NVms[r] : HasDisk(s, v) <=> v <= run[r].recs
        /\ \A v \in 1 .. NVms[r] : HasVm(s, v) <=> v <= run[r].recs
  BY <1>2, <1>3, ThrowFacts
<1>5. \A v \in 1 .. NVms[r] : /\ HasDisk(run[r], v) <=> v <= run[r].idx
                              /\ HasVm(run[r], v) <=> v <= run[r].recs
  BY <1>1, <1>3 DEF HasDisk, HasVm
<1>8. PICK f : f = flaw[r] \cup {"verdict", "threw"}
  OBVIOUS
<1>9. f \in SUBSET Flaws /\ "verdict" \in f /\ Moves(r, s, f)
  BY <1>1, <1>2, <1>3, <1>8, ThrowsMoves DEF Flaws
<1>10. s \in Run /\ Shape(r, s) /\ Honest(s, f) /\ s.pc \in {"delete", "done"}
  BY <1>4, <1>9
<1>11. \A v \in 1 .. NVms[r] :
         /\ HasDisk(s, v) <=> HasDisk(run[r], v) /\ v # run[r].idx
         /\ HasVm(run[r], v) => HasVm(s, v)
  BY <1>3, <1>4, <1>5, <1>9
<1>6. CASE /\ disk' = [disk EXCEPT ![Cur(r)] = NoDisk]
           /\ UNCHANGED <<faults, strays>>
  BY <1>1, <1>6, <1>9, <1>10, <1>11, DiskRemoved
<1>7. CASE /\ OnDisk(Cur(r)) /\ Fault
           /\ Leaves(StrayDisk(r, Cur(r)))
           /\ UNCHANGED disk
  <2>1. /\ strays \subseteq strays' /\ strays' \subseteq Strays
        /\ StrayDisk(r, EphemeralName(r, run[r].idx)) \in strays'
    BY <1>7, DiskLeft
  <2>20. \A v \in 1 .. NVms[r] : HasDisk(run[r], v) =>
           HasDisk(s, v) \/ StrayDisk(r, EphemeralName(r, v)) \in strays'
    BY <2>1, <1>11
  <2>21. s.pc # "gone" /\ run[r].pc # "gone"
    BY <1>1, <1>10
  <2> QED
    BY <1>1, <1>7, <1>9, <1>10, <1>11, <2>1, <2>20, <2>21, PureMove
<1> QED
  BY <1>6, <1>7 DEF UndoDisk

\* A VM booted: the next one, or the body.
LEMMA BootVmStep ==
    ASSUME IInv, NEW r \in Runs, BootVm(r)
    PROVE  IInv'
<1>1. /\ run[r].pc = "boot" /\ UNCHANGED <<disk, vm, reaper, faults, flaw, strays, taken, missed>>
  BY DEF BootVm, At
<1>2. /\ run[r].recs = run[r].idx /\ NVms[r] \in Nat \ {0} /\ run[r] \in Run
      /\ run[r].idx \in 1 .. NVms[r] /\ run[r].recs \in 0 .. NVms[r]
      /\ flaw[r] \in SUBSET Flaws
  BY <1>1, RunFacts DEF Shape
<1>3. PICK s : s = IF run[r].idx < NVms[r]
                   THEN [run[r] EXCEPT !.pc = "disk", !.idx = run[r].idx + 1]
                   ELSE [run[r] EXCEPT !.pc = "body"]
  OBVIOUS
<1>4. Moves(r, s, flaw[r])
  <2>1. run' = [run EXCEPT ![r] = s]
    BY <1>3 DEF BootVm
  <2> QED
    BY <1>1, <2>1, Flawless
<1>5. s \in Run
  <2>1. "disk" \in Pcs /\ "body" \in Pcs /\ run[r].idx + 1 \in Nat \ {0} /\ 0 \in Nat
        /\ 1 \in Nat \ {0}
    BY <1>2 DEF Pcs
  <2>2. [run[r] EXCEPT !.pc = "disk", !.idx = run[r].idx + 1] \in Run
    BY <1>2, <2>1, RunPoints, Zenon
  <2>3. [run[r] EXCEPT !.pc = "body"] \in Run
    BY <1>2, <2>1, RunPoints, Zenon
  <2> QED
    BY <1>3, <2>2, <2>3
<1>6. /\ s.recs = run[r].recs /\ s.status = run[r].status /\ s.err = run[r].err
      /\ s.tdErr = run[r].tdErr
      /\ \/ s.pc = "disk" /\ s.idx = run[r].idx + 1 /\ run[r].idx < NVms[r]
         \/ s.pc = "body" /\ s.idx = run[r].idx
  BY <1>2, <1>3 DEF Run
<1>7. Shape(r, s)
  BY <1>2, <1>6 DEF Shape
<1>8. Honest(s, flaw[r])
  <2>1. s.pc \in Early /\ run[r].pc \in Early
    BY <1>1, <1>6 DEF Early
  <2>2. s.idx \in Nat \ {0} /\ s.recs \in Nat
    BY <1>2, <1>6
  <2> QED
    BY <1>2, <1>5, <1>6, <2>1, <2>2, GoFacts
<1>9. \A v \in 1 .. NVms[r] :
        /\ HasDisk(s, v) <=> HasDisk(run[r], v)
        /\ HasVm(run[r], v) => HasVm(s, v)
  BY <1>1, <1>2, <1>6 DEF HasDisk, HasVm
<1>10. strays \subseteq strays' /\ strays' \subseteq Strays
       /\ s.pc \notin {"create", "undo", "unlink"}
  BY <1>1, <1>6 DEF IInv
<1> QED
  BY <1>1, <1>2, <1>4, <1>5, <1>7, <1>8, <1>9, <1>10, PureMove

\* A VM did not boot in time.
LEMMA BootVmFailsStep ==
    ASSUME IInv, NEW r \in Runs, BootVmFails(r)
    PROVE  IInv'
<1>1. /\ run[r].pc = "boot" /\ UNCHANGED <<disk, vm, reaper, strays, taken, missed>>
      /\ Throws(r) /\ (Fault \/ UNCHANGED faults)
  BY DEF BootVmFails, At
<1> QED
  BY <1>1, ThrowsMoves, ThrowMove

\* Setup, workflow, assertions and declared teardown.
LEMMA RunBodyStep ==
    ASSUME IInv, NEW r \in Runs, RunBody(r)
    PROVE  IInv'
<1>1. PICK b \in Bodies :
        /\ run' = [run EXCEPT ![r] = Cleanup([run[r] EXCEPT !.status = b.status,
                                                            !.err = (b.status = "error")])]
        /\ Blot(r, b.flaw)
  BY DEF RunBody
<1>2. run[r].pc = "body" /\ UNCHANGED <<disk, vm, reaper, faults, strays, taken, missed>>
  BY DEF RunBody, At
<1>3. /\ run[r].recs = run[r].idx /\ NVms[r] \in Nat \ {0} /\ run[r] \in Run
      /\ run[r].idx \in 1 .. NVms[r] /\ run[r].recs \in 0 .. NVms[r]
      /\ flaw[r] \in SUBSET Flaws /\ "verdict" \notin flaw[r] /\ "threw" \notin flaw[r]
      /\ run[r].tdErr = FALSE
  BY <1>2, RunFacts DEF Shape, Early
<1>4. /\ b.status \in Statuses /\ b.flaw \subseteq {"verdict", "threw"}
      /\ b.status # "passed" <=> "verdict" \in b.flaw
      /\ "threw" \in b.flaw => b.status = "error"
  BY BodyVerdict
<1>5. PICK f : f = flaw[r] \cup b.flaw
  OBVIOUS
<1>6. /\ f \in SUBSET Flaws
      /\ "verdict" \in f <=> "verdict" \in b.flaw
      /\ "threw" \in f <=> "threw" \in b.flaw
  BY <1>3, <1>4, <1>5 DEF Flaws
<1>7. PICK e : e = [run[r] EXCEPT !.status = b.status, !.err = (b.status = "error")]
  OBVIOUS
<1>8. /\ e \in Run /\ e.recs = run[r].recs /\ e.status = b.status /\ e.tdErr = FALSE
      /\ e.err <=> b.status = "error"
  BY <1>3, <1>4, <1>7 DEF Run
<1>9. Settled(e, f)
  BY <1>4, <1>6, <1>8 DEF Settled
<1>10. PICK s : s = Cleanup(e)
  OBVIOUS
<1>11. /\ s \in Run /\ Shape(r, s) /\ Honest(s, f) /\ s.pc \in {"delete", "done"}
       /\ \A v \in 1 .. NVms[r] : HasDisk(s, v) <=> v <= run[r].recs
       /\ \A v \in 1 .. NVms[r] : HasVm(s, v) <=> v <= run[r].recs
  BY <1>3, <1>8, <1>9, <1>10, CleanupFacts
<1>12. Moves(r, s, f)
  BY <1>1, <1>5, <1>7, <1>10 DEF Moves, Blot
<1>13. \A v \in 1 .. NVms[r] : /\ HasDisk(run[r], v) <=> v <= run[r].recs
                               /\ HasVm(run[r], v) <=> v <= run[r].recs
  BY <1>2, <1>3 DEF HasDisk, HasVm
<1>14. strays \subseteq strays' /\ strays' \subseteq Strays
  BY <1>2 DEF IInv
<1> QED
  BY <1>2, <1>6, <1>11, <1>12, <1>13, <1>14, PureMove

LEMMA StopAndDeleteVmStep ==
    ASSUME IInv, NEW r \in Runs, StopAndDeleteVm(r)
    PROVE  IInv'
<1>0. run \in [Runs -> Run]
  BY DEF IInv, RunsOK
<1>1. run[r].pc = "delete" /\ UNCHANGED <<disk, reaper, taken, missed>>
  BY DEF StopAndDeleteVm, At
<1>2. /\ run[r].idx <= run[r].recs /\ NVms[r] \in Nat \ {0} /\ run[r] \in Run
      /\ run[r].idx \in 1 .. NVms[r] /\ run[r].recs \in 0 .. NVms[r]
      /\ flaw[r] \in SUBSET Flaws /\ Honest(run[r], flaw[r]) /\ Cur(r) \in Names
      /\ run[r].err \in BOOLEAN /\ run[r].tdErr \in BOOLEAN
  BY <1>1, RunFacts DEF Shape
<1>4. PICK s : s = [run[r] EXCEPT !.pc = "unlink"]
  OBVIOUS
<1>5. PICK e : e = [run[r] EXCEPT !.pc = "unlink", !.tdErr = TRUE]
  OBVIOUS
<1>6. s \in Run /\ e \in Run
  <2>1. "unlink" \in Pcs /\ 1 \in Nat \ {0} /\ 0 \in Nat
    BY DEF Pcs
  <2>2. /\ [run[r] EXCEPT !.pc = "unlink"] \in Run
        /\ [run[r] EXCEPT !.pc = "unlink", !.tdErr = TRUE] \in Run
    BY <1>2, <2>1, RunPoints, Zenon
  <2> QED
    BY <1>4, <1>5, <2>2
<1>7. /\ s.pc = "unlink" /\ s.idx = run[r].idx /\ s.recs = run[r].recs
      /\ s.status = run[r].status /\ s.err = run[r].err /\ s.tdErr = run[r].tdErr
  BY <1>2, <1>4 DEF Run
<1>8. /\ e.pc = "unlink" /\ e.idx = run[r].idx /\ e.recs = run[r].recs
      /\ e.status = run[r].status /\ e.err = run[r].err /\ e.tdErr = TRUE
  BY <1>2, <1>5 DEF Run
<1>9. Shape(r, s) /\ Shape(r, e)
  BY <1>2, <1>7, <1>8 DEF Shape
<1>10. Honest(s, flaw[r])
  BY <1>1, <1>2, <1>7 DEF Honest
<1>11. \A f \in SUBSET Flaws :
         "verdict" \in f /\ ("threw" \in f <=> "threw" \in flaw[r]) => Honest(e, f)
  BY <1>1, <1>2, <1>8 DEF Honest
<1>12. run' = [run EXCEPT ![r].pc = "unlink", ![r].tdErr = TRUE]
         => run' = [run EXCEPT ![r] = e]
  BY <1>0, <1>5
<1>13. CASE RemoveVm(Cur(r)) /\ Go(r, "unlink") /\ UNCHANGED <<faults, flaw, strays>>
  <2>1. Moves(r, s, flaw[r])
    BY <1>4, <1>13, Flawless DEF Go
  <2> QED
    BY <1>1, <1>2, <1>6, <1>7, <1>9, <1>10, <1>13, <2>1, VmRemoved DEF RemoveVm
<1>14. CASE /\ RemoveVm(Cur(r)) /\ Fault /\ UNCHANGED strays
            /\ run' = [run EXCEPT ![r].pc = "unlink", ![r].tdErr = TRUE]
            /\ Blot(r, {"verdict"})
  <2>1. PICK f : f = flaw[r] \cup {"verdict"}
    OBVIOUS
  <2>2. /\ f \in SUBSET Flaws /\ "verdict" \in f /\ ("threw" \in f <=> "threw" \in flaw[r])
    BY <1>2, <2>1 DEF Flaws
  <2>3. Moves(r, e, f)
    BY <1>12, <1>14, <2>1 DEF Moves, Blot
  <2>4. Honest(e, f)
    BY <1>11, <2>2
  <2> QED
    BY <1>1, <1>6, <1>8, <1>9, <1>14, <2>2, <2>3, <2>4, VmRemoved DEF RemoveVm
<1>15. CASE /\ IF vm[Cur(r)] = {} THEN UNCHANGED <<faults, strays>>
               ELSE Fault /\ Leaves(StrayVm(r, Cur(r)))
            /\ run' = [run EXCEPT ![r].pc = "unlink", ![r].tdErr = TRUE]
            /\ Blot(r, {"verdict"})
            /\ UNCHANGED vm
  <2>1. PICK f : f = flaw[r] \cup {"verdict"}
    OBVIOUS
  <2>2. f \in SUBSET Flaws /\ "verdict" \in f /\ ("threw" \in f <=> "threw" \in flaw[r])
    BY <1>2, <2>1 DEF Flaws
  <2>3. Moves(r, e, f)
    BY <1>12, <1>15, <2>1 DEF Moves, Blot
  <2>4. Honest(e, f)
    BY <1>11, <2>2
  <2>5. Fault \/ UNCHANGED faults
    BY <1>15
  <2>6. Cur(r) = EphemeralName(r, e.idx) /\ e.idx = run[r].idx
    BY <1>8 DEF Cur
  <2>7. /\ strays \subseteq strays' /\ strays' \subseteq Strays
        /\ vm[Cur(r)] = {} \/ StrayVm(r, Cur(r)) \in strays'
    BY <1>2, <1>15 DEF IInv, Leaves, StrayVm, Strays
  <2>8. \A v \in 1 .. NVms[r] :
          /\ HasDisk(e, v) <=> HasDisk(run[r], v)
          /\ HasVm(run[r], v) => HasVm(e, v) \/ v = run[r].idx
    BY <1>1, <1>2, <1>8 DEF HasDisk, HasVm
  <2> QED
    BY <1>1, <1>6, <1>8, <1>9, <1>15, <2>2, <2>3, <2>4, <2>5, <2>6, <2>7, <2>8,
       PureMove
<1> QED
  BY <1>13, <1>14, <1>15 DEF StopAndDeleteVm

\* teardownEphemeralVm unlinks the disk, or fails to, and goes to the next.
LEMMA UnlinkDiskStep ==
    ASSUME IInv, NEW r \in Runs, UnlinkDisk(r)
    PROVE  IInv'
<1>1. run[r].pc = "unlink" /\ UNCHANGED <<vm, reaper, taken, missed>>
  BY DEF UnlinkDisk, At
<1>2. /\ run[r].idx <= run[r].recs /\ NVms[r] \in Nat \ {0} /\ run[r] \in Run
      /\ run[r].idx \in 1 .. NVms[r] /\ run[r].recs \in 0 .. NVms[r]
      /\ flaw[r] \in SUBSET Flaws /\ Honest(run[r], flaw[r]) /\ Shape(r, run[r])
      /\ run[r].err \in BOOLEAN /\ run[r].tdErr \in BOOLEAN
  BY <1>1, RunFacts DEF Shape
<1>3. /\ run[r].tdErr \/ run[r].status # "passed" => "verdict" \in flaw[r]
      /\ "verdict" \in flaw[r] /\ run[r].status = "passed" => run[r].tdErr
      /\ run[r].err => run[r].status # "passed"
      /\ "threw" \in flaw[r] => run[r].status = "error"
  BY <1>1, <1>2 DEF Honest
<1>4. \A v \in 1 .. NVms[r] :
        /\ HasDisk(run[r], v) <=> run[r].idx <= v /\ v <= run[r].recs
        /\ HasVm(run[r], v) <=> run[r].idx < v /\ v <= run[r].recs
  BY <1>1 DEF HasDisk, HasVm
<1>5. CASE /\ disk' = [disk EXCEPT ![Cur(r)] = NoDisk]
           /\ run' = [run EXCEPT ![r] = NextRecord(run[r])]
           /\ UNCHANGED <<faults, flaw, strays>>
  <2>1. PICK s : s = NextRecord(run[r])
    OBVIOUS
  <2>2. /\ s \in Run /\ Shape(r, s) /\ Honest(s, flaw[r]) /\ s.pc \in {"delete", "done"}
        /\ \A v \in 1 .. NVms[r] : HasDisk(s, v) <=> run[r].idx < v /\ v <= run[r].recs
        /\ \A v \in 1 .. NVms[r] : HasVm(s, v) <=> run[r].idx < v /\ v <= run[r].recs
    BY <1>1, <1>2, <1>3, <2>1, NextRecordFacts
  <2>3. Moves(r, s, flaw[r])
    BY <1>5, <2>1, Flawless
  <2>4. \A v \in 1 .. NVms[r] :
          /\ HasDisk(s, v) <=> HasDisk(run[r], v) /\ v # run[r].idx
          /\ HasVm(run[r], v) => HasVm(s, v)
    BY <1>2, <1>4, <2>2
  <2> QED
    BY <1>1, <1>2, <1>5, <2>2, <2>3, <2>4, DiskRemoved
<1>6. CASE /\ OnDisk(Cur(r)) /\ Fault
           /\ run' = [run EXCEPT ![r] = NextRecord([run[r] EXCEPT !.tdErr = TRUE])]
           /\ Blot(r, {"verdict"})
           /\ Leaves(StrayDisk(r, Cur(r)))
           /\ UNCHANGED disk
  <2>1. PICK e : e = [run[r] EXCEPT !.tdErr = TRUE]
    OBVIOUS
  <2>2. /\ e \in Run /\ e.pc = "unlink" /\ e.idx = run[r].idx /\ e.recs = run[r].recs
        /\ e.status = run[r].status /\ e.err = run[r].err /\ e.tdErr = TRUE
    BY <1>1, <1>2, <2>1 DEF Run
  <2>3. Shape(r, e)
    BY <1>2, <2>2 DEF Shape
  <2>4. PICK f : f = flaw[r] \cup {"verdict"}
    OBVIOUS
  <2>5. /\ f \in SUBSET Flaws /\ "verdict" \in f /\ ("threw" \in f <=> "threw" \in flaw[r])
    BY <1>2, <2>4 DEF Flaws
  <2>6. PICK s : s = NextRecord(e)
    OBVIOUS
  <2>7. /\ e.tdErr \/ e.status # "passed" => "verdict" \in f
        /\ "verdict" \in f /\ e.status = "passed" => e.tdErr
        /\ e.err => e.status # "passed"
        /\ "threw" \in f => e.status = "error"
    BY <1>3, <2>2, <2>5
  <2>8. /\ s \in Run /\ Shape(r, s) /\ Honest(s, f) /\ s.pc \in {"delete", "done"}
        /\ \A v \in 1 .. NVms[r] : HasDisk(s, v) <=> e.idx < v /\ v <= e.recs
        /\ \A v \in 1 .. NVms[r] : HasVm(s, v) <=> e.idx < v /\ v <= e.recs
    BY <2>2, <2>3, <2>6, <2>7, NextRecordFacts
  <2>9. Moves(r, s, f)
    BY <1>6, <2>1, <2>4, <2>6 DEF Moves, Blot
  <2>10. \A v \in 1 .. NVms[r] :
           /\ HasDisk(s, v) <=> HasDisk(run[r], v) /\ v # run[r].idx
           /\ HasVm(run[r], v) => HasVm(s, v)
    BY <1>2, <1>4, <2>2, <2>8
  <2>11. /\ strays \subseteq strays' /\ strays' \subseteq Strays
         /\ StrayDisk(r, EphemeralName(r, run[r].idx)) \in strays'
    BY <1>6, DiskLeft
  <2>20. \A v \in 1 .. NVms[r] : HasDisk(run[r], v) =>
           HasDisk(s, v) \/ StrayDisk(r, EphemeralName(r, v)) \in strays'
    BY <2>11, <2>10
  <2>21. s.pc # "gone" /\ run[r].pc # "gone"
    BY <1>1, <2>8
  <2> QED
    BY <1>1, <1>6, <2>5, <2>8, <2>9, <2>10, <2>11, <2>20, <2>21, PureMove
<1> QED
  BY <1>5, <1>6 DEF UnlinkDisk

\* Nothing of the run is left to go on, after its report or when it is killed.
LEMMA ForgetStep ==
    ASSUME IInv, NEW r \in Runs, Forget(r),
           UNCHANGED <<disk, vm, reaper, strays, taken, missed>>, Fault \/ UNCHANGED faults
    PROVE  IInv'
<1>1. PICK s : s = [NewRun EXCEPT !.pc = "gone"]
  OBVIOUS
<1>2. s \in Run /\ s.pc = "gone" /\ s.idx = 1 /\ s.recs = 0
  <2>1. NewRun \in Run /\ NewRun.idx = 1 /\ NewRun.recs = 0
    BY NewRunFacts DEF NewRun
  <2>2. "gone" \in Pcs /\ 1 \in Nat \ {0} /\ 0 \in Nat
    BY DEF Pcs
  <2>3. s \in Run
    BY <1>1, <2>1, <2>2, RunPoints
  <2> QED
    BY <1>1, <2>1, <2>3 DEF Run
<1>3. Shape(r, s)
  <2>1. NVms[r] \in Nat \ {0}
    BY SizeAssumption
  <2> QED
    BY <1>2, <2>1 DEF Shape
<1>4. Honest(s, {})
  BY <1>2 DEF Honest
<1>5. Moves(r, s, {}) /\ {} \in SUBSET Flaws
  BY <1>1 DEF Forget, Moves
<1>6. \A v \in 1 .. NVms[r] : ~HasDisk(s, v)
  BY <1>2 DEF HasDisk
<1>7. strays \subseteq strays' /\ strays' \subseteq Strays
  BY DEF IInv
<1> QED
  BY <1>2, <1>3, <1>4, <1>5, <1>6, <1>7, PureMove

\* Every step of a run, and its end by a kill.
LEMMA RunStepInv ==
    ASSUME IInv, NEW r \in Runs, RunStep(r) \/ Crash(r)
    PROVE  IInv'
<1>1. CASE Report(r)
  BY <1>1, ForgetStep DEF Report
<1>2. CASE Crash(r)
  BY <1>2, ForgetStep DEF Crash
<1> QED
  BY <1>1, <1>2, BeginStep, ChildExistsStep, CreateDifferencingDiskStep,
     NewVhdFailsStep, CreateVmStep, CreateVmFailsStep, UndoDiskStep,
     BootVmStep, BootVmFailsStep, RunBodyStep, StopAndDeleteVmStep,
     UnlinkDiskStep DEF RunStep

-----------------------------------------------------------------------------
(***************************************************************************)
(* The steps of the reaper and of time.                                    *)
(***************************************************************************)

\* What the loops of the reaper go on with.
LEMMA ReapingFacts ==
    ASSUME NEW s \in ReaperType, NEW dk, NEW m,
           \A n \in Queued(s) : dk[n] = NoDisk \/ dk[n].age >= MinAge \/ n \in s.fresh,
           \A n \in s.diskq : m[n] = {} \/ n \in s.unseen
    PROVE  ReaperOK(Reaping(s), dk, m)
<1>1. PICK t : t = Reaping(s)
  OBVIOUS
<1>2. CASE s.vmq # {}
  <2>1. t = [s EXCEPT !.pc = "delete"]
    BY <1>1, <1>2 DEF Reaping
  <2>2. /\ t \in ReaperType /\ t.pc = "delete" /\ t.vmq = s.vmq /\ t.fresh = s.fresh
        /\ t.aged = s.aged /\ t.diskq = s.diskq /\ t.unseen = s.unseen
    BY <2>1 DEF ReaperType
  <2> QED
    BY <1>1, <1>2, <2>2 DEF ReaperOK, Queued, Clear
<1>3. CASE s.vmq = {} /\ s.diskq # {}
  <2>1. t = [s EXCEPT !.pc = "disks"]
    BY <1>1, <1>3 DEF Reaping
  <2>2. /\ t \in ReaperType /\ t.pc = "disks" /\ t.vmq = s.vmq /\ t.fresh = s.fresh
        /\ t.aged = s.aged /\ t.diskq = s.diskq /\ t.unseen = s.unseen
    BY <2>1 DEF ReaperType
  <2> QED
    BY <1>1, <2>2 DEF ReaperOK, Queued, Clear
<1>4. CASE s.vmq = {} /\ s.diskq = {}
  <2>1. t = IdleReaper
    BY <1>1, <1>4 DEF Reaping
  <2> QED
    BY <1>1, <2>1 DEF ReaperOK, Queued, Clear, IdleReaper, ReaperType
<1> QED
  BY <1>2, <1>3, <1>4

\* A step of the reaper that leaves the disks, and removes VMs at most.
LEMMA ReapMove ==
    ASSUME IInv, UNCHANGED <<run, disk, flaw, strays, taken, missed>>,
           Fault \/ UNCHANGED faults, ReaperOK(reaper', disk, vm'),
           vm' \in [Names -> SUBSET Runs],
           \A k \in Names : vm'[k] = vm[k] \/ vm'[k] = {}
    PROVE  IInv'
<1>1. NoVm(run', vm', strays', missed' \cup taken')
  BY NameFacts DEF IInv, NoVm
<1>2. Own(run', strays', disk', vm')
  BY DEF IInv, Own
<1>3. DisksOK(disk', vm', strays', missed' \cup taken')
  BY DEF IInv, DisksOK
<1>4. faults' \in 0 .. MaxFaults
  BY FaultType
<1> QED
  BY <1>1, <1>2, <1>3, <1>4 DEF IInv

\* The reaper as the invariant knows it.
LEMMA ReaperFacts ==
    ASSUME IInv
    PROVE  /\ reaper \in ReaperType
           /\ reaper.aged \in SUBSET Names /\ reaper.vmq \in SUBSET Names
           /\ reaper.diskq \in SUBSET Names /\ reaper.fresh \in SUBSET Names
           /\ Queued(reaper) \in SUBSET Names
           /\ \A n \in Queued(reaper) :
                disk[n] = NoDisk \/ disk[n].age >= MinAge \/ n \in reaper.fresh
           /\ reaper.pc \in {"delete", "unlink"} => ReapVm \in reaper.vmq
           /\ \A n \in reaper.diskq : vm[n] = {} \/ n \in reaper.unseen
           /\ reaper.pc = "unlink" => vm[ReapVm] = {} \/ ReapVm \in reaper.unseen
<1>1. reaper \in ReaperType
  BY DEF IInv, ReaperOK
<1>2. /\ reaper.aged \in SUBSET Names /\ reaper.vmq \in SUBSET Names
      /\ reaper.diskq \in SUBSET Names /\ reaper.fresh \in SUBSET Names
  BY <1>1 DEF ReaperType
<1>3. \A n \in Queued(reaper) :
        disk[n] = NoDisk \/ disk[n].age >= MinAge \/ n \in reaper.fresh
  BY DEF IInv, ReaperOK
<1>4. reaper.pc \in {"delete", "unlink"} => ReapVm \in reaper.vmq
  BY DEF IInv, ReaperOK, ReapVm
<1>5. /\ \A n \in reaper.diskq : vm[n] = {} \/ n \in reaper.unseen
      /\ reaper.pc = "unlink" => vm[ReapVm] = {} \/ ReapVm \in reaper.unseen
  BY DEF IInv, ReaperOK, Clear, Victim, ReapVm
<1> QED
  BY <1>1, <1>2, <1>3, <1>4, <1>5 DEF Queued

\* A part of its queues is as sound as the whole.
LEMMA Shrinks ==
    ASSUME IInv, NEW s \in ReaperType, Queued(s) \subseteq Queued(reaper),
           s.fresh = reaper.fresh,
           \A n \in s.diskq : vm[n] = {} \/ n \in s.unseen
    PROVE  ReaperOK(Reaping(s), disk, vm)
<1>1. \A n \in Queued(s) : disk[n] = NoDisk \/ disk[n].age >= MinAge \/ n \in s.fresh
  BY ReaperFacts
<1> QED
  BY <1>1, ReapingFacts

\* The reaper goes on after a VM.
LEMMA NextVmFacts ==
    ASSUME IInv
    PROVE  ReaperOK(NextVm, disk, vm)
<1>1. PICK s : s = [reaper EXCEPT !.vmq = reaper.vmq \ {ReapVm}]
  OBVIOUS
<1>2. /\ s \in ReaperType /\ s.aged = reaper.aged /\ s.diskq = reaper.diskq
      /\ s.vmq = reaper.vmq \ {ReapVm} /\ s.fresh = reaper.fresh
      /\ s.unseen = reaper.unseen
  BY <1>1, ReaperFacts DEF ReaperType
<1>3. ReaperOK(Reaping(s), disk, vm)
  BY <1>2, ReaperFacts, Shrinks DEF Queued
<1> QED
  BY <1>1, <1>3 DEF NextVm

\* A run has what Holds says.
LEMMA HoldsFacts ==
    ASSUME IInv, NEW r \in Runs, NEW n
    PROVE  Holds(r, n) <=>
             \E v \in 1 .. NVms[r] : n = EphemeralName(r, v) /\ HasDisk(run[r], v)
<1>1. \A v \in 1 .. NVms[r] :
        v \in run[r].idx .. run[r].recs <=> run[r].idx <= v /\ v <= run[r].recs
  BY RunFacts
<1> QED
  BY <1>1 DEF Holds, HasDisk, At

\* The reaper unlinks a disk.
LEMMA UnlinkMove ==
    ASSUME IInv, NEW n \in Names, Unlink(n), UNCHANGED <<run, vm, flaw, strays>>,
           vm[n] = {} \/ n \in reaper.unseen,
           ReaperOK(reaper', disk, vm')
    PROVE  IInv'
<1>1. CASE Fault /\ UNCHANGED <<disk, taken, missed>>
  <2>1. vm' \in [Names -> SUBSET Runs]
    BY DEF IInv, DisksOK
  <2> QED
    BY <1>1, <2>1, ReapMove
<1>2. CASE /\ disk' = [disk EXCEPT ![n] = NoDisk]
           /\ taken' = IF OnDisk(n) /\ \E r \in Runs : Holds(r, n)
                       THEN taken \cup {n} ELSE taken
           /\ missed' = IF vm[n] # {} /\ n \in reaper.unseen
                        THEN missed \cup {n} ELSE missed
           /\ UNCHANGED faults
  <2>1. /\ taken \subseteq taken' /\ taken' \subseteq Names
        /\ missed \subseteq missed' /\ missed' \subseteq Names
        /\ OnDisk(n) /\ (\E r \in Runs : Holds(r, n)) => n \in taken'
        /\ vm[n] # {} => n \in missed'
    BY <1>2 DEF IInv
  <2>2. disk \in [Names -> [owner : Runs \cup {NoRun}, age : Ages]]
    BY DEF IInv, DisksOK
  <2>3. /\ disk'[n] = NoDisk /\ disk'[n].owner = NoRun
        /\ \A k \in Names : k # n => disk'[k] = disk[k]
    BY <1>2, <2>2 DEF NoDisk
  <2>4. Hold(run', disk', taken')
    <3> SUFFICES ASSUME NEW q \in Runs, NEW v \in 1 .. NVms[q], HasDisk(run[q], v)
                 PROVE  \/ disk'[EphemeralName(q, v)].owner = q
                        \/ EphemeralName(q, v) \in taken'
      BY DEF Hold
    <3>1. EphemeralName(q, v) \in Names
      BY NameFacts
    <3>2. disk[EphemeralName(q, v)].owner = q \/ EphemeralName(q, v) \in taken
      BY DEF IInv, Hold
    <3>3. Holds(q, EphemeralName(q, v))
      BY HoldsFacts
    <3>4. CASE EphemeralName(q, v) # n
      BY <2>1, <2>3, <3>1, <3>2, <3>4
    <3>5. CASE EphemeralName(q, v) = n
      BY <2>1, <3>2, <3>3, <3>5, OnDiskFacts, RunAssumption
    <3> QED
      BY <3>4, <3>5
  <2>5. NoVm(run', vm', strays', missed' \cup taken')
    BY <2>1 DEF IInv, NoVm, Loose
  <2>6. \A k \in Names, q \in Runs : disk'[k].owner = q => disk[k].owner = q
    BY <2>3, RunAssumption
  <2>7. Own(run', strays', disk', vm')
    BY <2>6 DEF IInv, Own
  <2>8. DisksOK(disk', vm', strays', missed' \cup taken')
    <3>1. NoDisk \in [owner : Runs \cup {NoRun}, age : Ages]
      BY SizeAssumption DEF Ages, NoDisk
    <3>2. disk' \in [Names -> [owner : Runs \cup {NoRun}, age : Ages]]
      BY <1>2, <2>2, <3>1
    <3>3. \A k \in Names : disk'[k].owner = NoRun => disk'[k].age = 0
      BY <2>3 DEF IInv, DisksOK, NoDisk
    <3>4. \A k \in Names : disk'[k] = NoDisk =>
            \A q \in vm[k] : Loose(strays, missed' \cup taken', q, k)
      BY <2>1, <2>3 DEF IInv, DisksOK, Loose
    <3> QED
      BY <3>2, <3>3, <3>4 DEF IInv, DisksOK
  <2>9. ReaperOK(reaper', disk', vm')
    <3>1. \A k \in Queued(reaper') : k \in Names
      BY DEF ReaperOK, ReaperType, Queued
    <3> QED
      BY <2>3, <3>1 DEF ReaperOK
  <2>10. faults' \in 0 .. MaxFaults
    BY <1>2, FaultType
  <2> QED
    BY <2>1, <2>4, <2>5, <2>7, <2>8, <2>9, <2>10 DEF IInv, RunsOK
<1> QED
  BY <1>1, <1>2 DEF Unlink

\* The reaper reads the directory: all it lists is old.
LEMMA ReapEnumerateStep ==
    ASSUME IInv, ReapEnumerate
    PROVE  IInv'
<1>1. /\ reaper' = [IdleReaper EXCEPT !.pc = "list", !.aged = Aged]
      /\ UNCHANGED <<run, disk, vm, faults, flaw, strays, taken, missed>>
  BY DEF ReapEnumerate
<1>2. Aged \in SUBSET Names /\ \A n \in Aged : disk[n].age >= MinAge
  BY DEF Aged
<1>3. /\ reaper' \in ReaperType /\ reaper'.pc = "list" /\ reaper'.aged = Aged
      /\ reaper'.vmq = {} /\ reaper'.diskq = {}
  BY <1>1, <1>2 DEF IdleReaper, ReaperType
<1>4. ReaperOK(reaper', disk, vm')
  BY <1>2, <1>3 DEF ReaperOK, Queued, Clear
<1>5. vm' \in [Names -> SUBSET Runs]
  BY <1>1 DEF IInv, DisksOK
<1> QED
  BY <1>1, <1>4, <1>5, ReapMove

\* The aged disks are split into those with a VM and those without.
LEMMA ClassifyFacts ==
    ASSUME IInv, NEW listed, Classify(listed)
    PROVE  ReaperOK(reaper', disk, vm)
<1>1. PICK s : s = [reaper EXCEPT !.aged = {}, !.vmq = reaper.aged \cap listed,
                                  !.diskq = reaper.aged \ listed,
                                  !.unseen = reaper.aged \cap (VmNames \ listed)]
  OBVIOUS
<1>2. /\ s \in ReaperType /\ s.aged = {} /\ s.diskq = reaper.aged \ listed
      /\ s.vmq = reaper.aged \cap listed /\ s.fresh = reaper.fresh
      /\ s.unseen = reaper.aged \cap (VmNames \ listed)
  BY <1>1, ReaperFacts DEF ReaperType
<1>4. \A n \in s.diskq : vm[n] = {} \/ n \in s.unseen
  BY <1>2, ReaperFacts DEF VmNames
<1>3. ReaperOK(Reaping(s), disk, vm)
  BY <1>2, <1>4, Shrinks DEF Queued
<1> QED
  BY <1>1, <1>3 DEF Classify

\* listVMs, or its failure.
LEMMA ReapClassifyStep ==
    ASSUME IInv, ReapClassify
    PROVE  IInv'
<1>1. /\ UNCHANGED <<run, disk, vm, flaw, strays, taken, missed>> /\ (Fault \/ UNCHANGED faults)
      /\ \E listed : Classify(listed)
  BY DEF ReapClassify
<1>2. ReaperOK(reaper', disk, vm')
  BY <1>1, ClassifyFacts
<1>3. vm' \in [Names -> SUBSET Runs]
  BY <1>1 DEF IInv, DisksOK
<1> QED
  BY <1>1, <1>2, <1>3, ReapMove

\* The reaper deletes a VM, or fails to.
LEMMA ReapDeleteStep ==
    ASSUME IInv, ReapDelete
    PROVE  IInv'
<1>1. reaper.pc = "delete" /\ UNCHANGED <<run, disk, flaw, strays, taken, missed>>
  BY DEF ReapDelete
<1>2. vm \in [Names -> SUBSET Runs]
  BY DEF IInv, DisksOK
<1>3. CASE RemoveVm(ReapVm) /\ reaper' = VmReaped /\ UNCHANGED faults
  <2>1. /\ reaper' \in ReaperType /\ reaper'.pc = "unlink" /\ reaper'.aged = reaper.aged
        /\ reaper'.vmq = reaper.vmq /\ reaper'.diskq = reaper.diskq
        /\ reaper'.fresh = reaper.fresh /\ reaper'.unseen = reaper.unseen \ {ReapVm}
    BY <1>3, ReaperFacts DEF ReaperType, VmReaped
  <2>3. PICK n \in Names : n = ReapVm
    BY <1>1, ReaperFacts
  <2>4. vm' = [vm EXCEPT ![n] = {}]
    BY <1>3, <2>3 DEF RemoveVm
  <2>5. /\ vm' \in [Names -> SUBSET Runs] /\ vm'[n] = {}
        /\ \A k \in Names : k # n => vm'[k] = vm[k]
    BY <1>2, <2>4
  <2>6. Victim(reaper') = n
    BY <2>1, <2>3 DEF Victim, ReapVm
  <2>7. Clear(reaper', vm')
    BY <2>1, <2>3, <2>5, <2>6, ReaperFacts DEF Clear
  <2>2. ReaperOK(reaper', disk, vm')
    BY <1>1, <2>1, <2>7, ReaperFacts DEF ReaperOK, Queued
  <2> QED
    BY <1>1, <1>3, <2>2, <2>5, ReapMove
<1>4. CASE /\ IF vm[ReapVm] = {} THEN UNCHANGED faults ELSE Fault
           /\ reaper' = NextVm
           /\ UNCHANGED vm
  BY <1>1, <1>2, <1>4, NextVmFacts, ReapMove
<1> QED
  BY <1>3, <1>4 DEF ReapDelete

\* The reaper unlinks the disk of a VM it deleted.
LEMMA ReapUnlinkStep ==
    ASSUME IInv, ReapUnlink
    PROVE  IInv'
<1>1. /\ reaper.pc = "unlink" /\ Unlink(ReapVm) /\ reaper' = NextVm
      /\ UNCHANGED <<run, vm, flaw, strays>>
  BY DEF ReapUnlink
<1>2. PICK n \in Names : n = ReapVm
  BY <1>1, ReaperFacts
<1>3. /\ ReaperOK(reaper', disk, vm') /\ Unlink(n)
      /\ vm[n] = {} \/ n \in reaper.unseen
  BY <1>1, <1>2, NextVmFacts, ReaperFacts
<1> QED
  BY <1>1, <1>3, UnlinkMove

\* The reaper unlinks a disk without a VM.
LEMMA ReapDiskStep ==
    ASSUME IInv, ReapDisk
    PROVE  IInv'
<1>1. PICK n \in reaper.diskq :
        Unlink(n) /\ reaper' = Reaping([reaper EXCEPT !.diskq = reaper.diskq \ {n}])
  BY DEF ReapDisk
<1>2. n \in Names /\ (vm[n] = {} \/ n \in reaper.unseen) /\ UNCHANGED <<run, vm, flaw, strays>>
  BY ReaperFacts DEF ReapDisk
<1>3. PICK s : s = [reaper EXCEPT !.diskq = reaper.diskq \ {n}]
  OBVIOUS
<1>4. /\ s \in ReaperType /\ s.aged = reaper.aged /\ s.vmq = reaper.vmq
      /\ s.diskq = reaper.diskq \ {n} /\ s.fresh = reaper.fresh
      /\ s.unseen = reaper.unseen
  BY <1>3, ReaperFacts DEF ReaperType
<1>5. ReaperOK(Reaping(s), disk, vm)
  BY <1>4, ReaperFacts, Shrinks DEF Queued
<1>6. ReaperOK(reaper', disk, vm')
  BY <1>1, <1>2, <1>3, <1>5
<1> QED
  BY <1>1, <1>2, <1>6, UnlinkMove

\* A killed reaper leaves the machine as it is.
LEMMA ReapCrashStep ==
    ASSUME IInv, ReapCrash
    PROVE  IInv'
<1>1. /\ reaper' = IdleReaper /\ Fault
      /\ UNCHANGED <<run, disk, vm, flaw, strays, taken, missed>>
  BY DEF ReapCrash
<1>2. ReaperOK(reaper', disk, vm')
  BY <1>1 DEF ReaperOK, Clear, Queued, IdleReaper, ReaperType
<1>3. vm' \in [Names -> SUBSET Runs]
  BY <1>1 DEF IInv, DisksOK
<1> QED
  BY <1>1, <1>2, <1>3, ReapMove

\* Disks grow older and keep their owners.
LEMMA ClockStep ==
    ASSUME IInv, Clock
    PROVE  IInv'
<1>1. /\ disk' = [n \in Names |-> IF OnDisk(n) /\ disk[n].age < MinAge
                                  THEN [disk[n] EXCEPT !.age = @ + 1] ELSE disk[n]]
      /\ UNCHANGED <<run, vm, reaper, faults, flaw, strays, taken, missed>>
  BY DEF Clock
<1>2. \A n \in Names :
        /\ disk'[n] \in [owner : Runs \cup {NoRun}, age : Ages]
        /\ disk'[n].owner = disk[n].owner /\ disk'[n].age >= disk[n].age
        /\ disk'[n].owner = NoRun => disk'[n].age = 0
        /\ disk'[n] = NoDisk <=> disk[n] = NoDisk
  <2> SUFFICES ASSUME NEW n \in Names
               PROVE  /\ disk'[n] \in [owner : Runs \cup {NoRun}, age : Ages]
                      /\ disk'[n].owner = disk[n].owner /\ disk'[n].age >= disk[n].age
                      /\ disk'[n].owner = NoRun => disk'[n].age = 0
                      /\ disk'[n] = NoDisk <=> disk[n] = NoDisk
    OBVIOUS
  <2>1. /\ disk[n] \in [owner : Runs \cup {NoRun}, age : Ages]
        /\ disk[n].owner = NoRun => disk[n].age = 0
    BY DEF IInv, DisksOK
  <2>2. disk[n].age \in 0 .. MinAge /\ MinAge \in Nat
    BY <2>1, SizeAssumption DEF Ages
  <2>3. CASE OnDisk(n) /\ disk[n].age < MinAge
    <3>1. PICK d : d = [disk[n] EXCEPT !.age = disk[n].age + 1]
      OBVIOUS
    <3>2. disk[n].age + 1 \in Ages
      BY <2>2, <2>3 DEF Ages
    <3>3. /\ d \in [owner : Runs \cup {NoRun}, age : Ages]
          /\ d.owner = disk[n].owner /\ d.age = disk[n].age + 1
      BY <2>1, <3>1, <3>2
    <3>4. disk'[n] = d
      BY <1>1, <2>3, <3>1
    <3>5. disk[n].owner # NoRun /\ disk[n] # NoDisk
      BY <2>3, OnDiskFacts
    <3>6. d # NoDisk
      BY <3>3, <3>5 DEF NoDisk
    <3> QED
      BY <2>2, <3>3, <3>4, <3>5, <3>6
  <2>4. CASE ~(OnDisk(n) /\ disk[n].age < MinAge)
    <3>1. disk'[n] = disk[n]
      BY <1>1, <2>4
    <3> QED
      BY <2>1, <2>2, <3>1
  <2> QED
    BY <2>3, <2>4
<1>3. disk' \in [Names -> [owner : Runs \cup {NoRun}, age : Ages]]
  BY <1>1, <1>2
<1>4. Hold(run', disk', taken')
  BY <1>1, <1>2, NameFacts DEF IInv, Hold
<1>5. Own(run', strays', disk', vm')
  BY <1>1, <1>2 DEF IInv, Own
<1>6. DisksOK(disk', vm', strays', missed' \cup taken')
  BY <1>1, <1>2, <1>3 DEF IInv, DisksOK
<1>7. ReaperOK(reaper', disk', vm')
  <2>1. \A n \in Queued(reaper) :
          disk'[n] = NoDisk \/ disk'[n].age >= MinAge \/ n \in reaper.fresh
    <3> SUFFICES ASSUME NEW n \in Queued(reaper)
                 PROVE  disk'[n] = NoDisk \/ disk'[n].age >= MinAge \/ n \in reaper.fresh
      OBVIOUS
    <3>1. /\ n \in Names
          /\ disk[n] = NoDisk \/ disk[n].age >= MinAge \/ n \in reaper.fresh
      BY ReaperFacts
    <3>2. /\ disk[n].age \in 0 .. MinAge /\ MinAge \in Nat
          /\ disk'[n].age \in 0 .. MinAge
      BY <1>2, <3>1, Points, SizeAssumption DEF Ages
    <3> QED
      BY <1>2, <3>1, <3>2
  <2> QED
    BY <1>1, <2>1 DEF IInv, ReaperOK
<1> QED
  BY <1>1, <1>4, <1>5, <1>6, <1>7 DEF IInv

\* Nothing happens.
LEMMA StutterStep ==
    ASSUME IInv, UNCHANGED vars
    PROVE  IInv'
  BY DEF IInv, vars

-----------------------------------------------------------------------------
(***************************************************************************)
(* The theorems.                                                           *)
(***************************************************************************)

\* Before any run there are no disks and no VMs.
LEMMA InitInv ==
    ASSUME Init
    PROVE  IInv
<1>1. \A r \in Runs : /\ run[r] = NewRun /\ run[r].pc = "idle" /\ run[r].idx = 1
                      /\ run[r].recs = 0 /\ run[r].status = "passed"
                      /\ run[r].err = FALSE /\ run[r].tdErr = FALSE /\ flaw[r] = {}
  BY DEF Init, NewRun
<1>2. \A n \in Names : disk[n] = NoDisk /\ disk[n].owner = NoRun /\ disk[n].age = 0
                       /\ vm[n] = {}
  BY DEF Init, NoDisk
<1>3. RunsOK(run, flaw)
  <2>1. run \in [Runs -> Run] /\ flaw \in [Runs -> SUBSET Flaws]
    BY NewRunFacts DEF Init
  <2>2. \A r \in Runs : NVms[r] \in Nat \ {0}
    BY SizeAssumption
  <2>3. \A r \in Runs : Shape(r, run[r])
    BY <1>1, <2>2 DEF Shape
  <2>4. \A r \in Runs : Honest(run[r], flaw[r])
    BY <1>1 DEF Honest
  <2> QED
    BY <2>1, <2>3, <2>4 DEF RunsOK
<1>4. Hold(run, disk, taken)
  BY <1>1 DEF Hold, HasDisk
<1>5. NoVm(run, vm, strays, missed \cup taken)
  BY <1>1 DEF NoVm, HasDisk
<1>6. Own(run, strays, disk, vm)
  BY <1>2, RunAssumption DEF Own
<1>7. DisksOK(disk, vm, strays, missed \cup taken)
  <2>1. NoDisk \in [owner : Runs \cup {NoRun}, age : Ages]
    BY SizeAssumption DEF Ages, NoDisk
  <2>2. /\ disk \in [Names -> [owner : Runs \cup {NoRun}, age : Ages]]
        /\ vm \in [Names -> SUBSET Runs]
    BY <2>1 DEF Init
  <2> QED
    BY <1>2, <2>2 DEF DisksOK
<1>8. ReaperOK(reaper, disk, vm)
  BY DEF Init, ReaperOK, Clear, Queued, IdleReaper, ReaperType
<1> QED
  BY <1>3, <1>4, <1>5, <1>6, <1>7, <1>8, BoundsAssumption DEF IInv, Init

\* Every step keeps the invariant.
LEMMA NextInv ==
    ASSUME IInv, [Next]_vars
    PROVE  IInv'
<1>1. CASE \E r \in Runs : RunStep(r) \/ Crash(r)
  BY <1>1, RunStepInv
<1>2. CASE ReapStep
  BY <1>2, ReapEnumerateStep, ReapClassifyStep, ReapDeleteStep, ReapUnlinkStep,
     ReapDiskStep DEF ReapStep
<1>3. CASE ReapCrash
  BY <1>3, ReapCrashStep
<1>4. CASE Clock
  BY <1>4, ClockStep
<1>5. CASE UNCHANGED vars
  BY <1>5, StutterStep
<1> QED
  BY <1>1, <1>2, <1>3, <1>4, <1>5 DEF Next, Terminated

\* Runs, disks, VMs and the reaper stay consistent for good: the invariant
\* behind the theorems below.
THEOREM EphemeralVmInvariant == Spec => []IInv
<1>1. Init => IInv
  BY InitInv
<1>2. IInv /\ [Next]_vars => IInv'
  BY NextInv
<1> QED
  BY <1>1, <1>2, PTL DEF Spec

\* Type correctness of the runs (runScenario), the disks and VMs they make and
\* the reaper.
THEOREM EphemeralVmTypeOK == Spec => []TypeOK
<1>1. IInv => TypeOK
  <2> SUFFICES ASSUME IInv
               PROVE  TypeOK
    OBVIOUS
  <2>1. \A r \in Runs : run[r].idx <= NVms[r] /\ run[r].recs <= NVms[r]
    BY Points
  <2> QED
    BY <2>1 DEF IInv, TypeOK, RunsOK, DisksOK, ReaperOK, ReaperType
<1> QED
  BY <1>1, EphemeralVmInvariant, PTL

\* Two runs hold one name only after the reaper took the disk of one of them.
LEMMA OneHolderInv ==
    ASSUME IInv
    PROVE  OneHolder
<1> SUFFICES ASSUME NEW n \in Names, NEW r \in Runs, NEW q \in Runs,
                    Holds(r, n), Holds(q, n), r # q
             PROVE  n \in taken
  BY DEF OneHolder
<1>1. PICK v \in 1 .. NVms[r] : n = EphemeralName(r, v) /\ HasDisk(run[r], v)
  BY HoldsFacts
<1>2. PICK w \in 1 .. NVms[q] : n = EphemeralName(q, w) /\ HasDisk(run[q], w)
  BY HoldsFacts
<1> QED
  BY <1>1, <1>2, TwoHolders

\* The disk file is the lock of its name and what the reaper finds the VM by
\* (provisioning/ephemeral-vm.ts, provisioning/ephemeral-reaper.ts): two live
\* runs hold one name only after the reaper took the disk of one, and a VM keeps
\* its disk but for the three causes of MayLackDisk.
THEOREM EphemeralVmDiskStandsForVm == Spec => []DiskStandsForVm
<1>1. IInv => DiskStandsForVm
  BY OneHolderInv DEF DiskStandsForVm, Reapable, MayLackDisk, OnDisk, IInv,
     DisksOK, Loose
<1> QED
  BY <1>1, EphemeralVmInvariant, PTL

\* A run that ended left no disk and no VM but the very ones that a failed
\* creating or removing call left, and its verdict says what happened
\* (scenarios/orchestrator.ts, runScenario).
THEOREM EphemeralVmFinishIsHonest == Spec => []FinishIsHonest
<1>1. IInv => FinishIsHonest
  <2> SUFFICES ASSUME IInv, NEW r \in Runs, run[r].pc = "done"
               PROVE  /\ \A n \in Names :
                           /\ disk[n].owner = r => StrayDisk(r, n) \in strays
                           /\ r \in vm[n] => StrayVm(r, n) \in strays
                      /\ run[r].status = "passed" <=> "verdict" \notin flaw[r]
                      /\ "threw" \in flaw[r] => run[r].status = "error"
    BY DEF FinishIsHonest, CleanFinish, Verdict, At
  <2>1. /\ run[r].status = "passed" <=> "verdict" \notin flaw[r]
        /\ "threw" \in flaw[r] => run[r].status = "error"
    BY Points DEF Honest
  <2>2. \A v : ~HasDisk(run[r], v) /\ ~HasVm(run[r], v)
    BY DEF HasDisk, HasVm
  <2>3. \A n \in Names : /\ disk[n].owner = r => StrayDisk(r, n) \in strays
                         /\ r \in vm[n] => StrayVm(r, n) \in strays
    BY <2>2 DEF IInv, Own
  <2> QED
    BY <2>1, <2>3
<1> QED
  BY <1>1, EphemeralVmInvariant, PTL

\* What each step may take: a run what it holds and is at, the reaper what it
\* has queued.
LEMMA Takers ==
    ASSUME IInv, [Next]_vars, NEW n \in Names,
           ~(vm[n] \subseteq vm'[n]) \/ (OnDisk(n) /\ disk'[n] = NoDisk)
    PROVE  \/ \E q \in Runs : Holds(q, n) /\ run'[q] # run[q]
           \/ n \in Queued(reaper)
<1>0. /\ disk \in [Names -> [owner : Runs \cup {NoRun}, age : Ages]]
      /\ vm \in [Names -> SUBSET Runs] /\ run \in [Runs -> Run]
  BY DEF IInv, DisksOK, RunsOK
<1>1. CASE \E q \in Runs : RunStep(q) \/ Crash(q)
  <2>1. PICK q \in Runs : RunStep(q) \/ Crash(q)
    BY <1>1
  <2>2. CASE StopAndDeleteVm(q) \/ UndoDisk(q) \/ UnlinkDisk(q)
    <3>1. run[q].pc \in {"delete", "undo", "unlink"}
      BY <2>2 DEF StopAndDeleteVm, UndoDisk, UnlinkDisk, At
    <3>2. Holds(q, Cur(q))
      <4>1. run[q].idx \in 1 .. NVms[q] /\ HasDisk(run[q], run[q].idx)
        BY <3>1, AtDisk, Points
      <4> QED
        BY <4>1, HoldsFacts DEF Cur
    <3>3. Cur(q) = n
      <4>1. CASE StopAndDeleteVm(q)
        BY <1>0, <4>1 DEF StopAndDeleteVm, RemoveVm, OnDisk
      <4>2. CASE UndoDisk(q)
        BY <1>0, <4>2 DEF UndoDisk, OnDisk
      <4>3. CASE UnlinkDisk(q)
        BY <1>0, <4>3 DEF UnlinkDisk, OnDisk
      <4> QED
        BY <2>2, <4>1, <4>2, <4>3
    <3>4. run'[q] # run[q]
      <4>1. /\ run[q] \in Run /\ Shape(q, run[q]) /\ run[q].recs \in 0 .. NVms[q]
        BY Points
      <4>2. CASE StopAndDeleteVm(q)
        <5>1. run'[q].pc = "unlink" /\ run[q].pc = "delete"
          BY <1>0, <4>1, <4>2 DEF StopAndDeleteVm, Go, At, Run
        <5> QED
          BY <5>1
      <4>3. CASE UndoDisk(q)
        <5>1. run'[q] = Throw(run[q]) /\ run[q].pc = "undo"
          BY <1>0, <4>3 DEF UndoDisk, Throws, At
        <5>2. run[q].tdErr = FALSE /\ "verdict" \in Flaws
          BY <5>1, RunFacts DEF Early, Flaws
        <5>3. Throw(run[q]).pc \in {"delete", "done"}
          BY <4>1, <5>2, ThrowFacts
        <5> QED
          BY <5>1, <5>3
      <4>4. CASE UnlinkDisk(q)
        <5>1. run[q].pc = "unlink"
          BY <4>4 DEF UnlinkDisk, At
        <5>2. run'[q].pc \in {"delete", "done"}
          <6>1. \A s \in Run : NextRecord(s).pc \in {"delete", "done"}
            BY NextRecordPc
          <6>2. [run[q] EXCEPT !.tdErr = TRUE] \in Run
            BY <4>1 DEF Run
          <6>3. \/ run'[q] = NextRecord(run[q])
                \/ run'[q] = NextRecord([run[q] EXCEPT !.tdErr = TRUE])
            BY <1>0, <4>4 DEF UnlinkDisk
          <6> QED
            BY <4>1, <6>1, <6>2, <6>3
        <5> QED
          BY <5>1, <5>2
      <4> QED
        BY <2>2, <4>2, <4>3, <4>4
    <3> QED
      BY <3>2, <3>3, <3>4
  <2>3. CASE CreateVm(q) \/ CreateVmFails(q)
    BY <1>0, <2>3 DEF CreateVm, CreateVmFails, NewVm, OnDisk
  <2>4. CASE CreateDifferencingDisk(q) \/ NewVhdFails(q)
    <3>1. UNCHANGED vm /\ (Branch(q) \/ UNCHANGED disk)
      BY <2>4 DEF CreateDifferencingDisk, NewVhdFails
    <3>2. q # NoRun
      BY RunAssumption
    <3> QED
      BY <1>0, <3>1, <3>2 DEF Branch, OnDisk, NoDisk
  <2>5. CASE UNCHANGED <<disk, vm>>
    BY <2>5 DEF OnDisk
  <2> QED
    BY <2>1, <2>2, <2>3, <2>4, <2>5 DEF RunStep, Begin, ChildExists, BootVm,
       BootVmFails, RunBody, Report, Crash
<1>2. CASE ReapDelete
  <2>1. reaper.pc = "delete" /\ UNCHANGED disk
    BY <1>2 DEF ReapDelete
  <2>2. ReapVm \in reaper.vmq /\ (RemoveVm(ReapVm) \/ UNCHANGED vm)
    BY <1>2, <2>1, ReaperFacts DEF ReapDelete
  <2>3. n = ReapVm
    BY <1>0, <2>1, <2>2 DEF RemoveVm, OnDisk
  <2> QED
    BY <2>2, <2>3 DEF Queued
<1>3. CASE ReapUnlink
  <2>1. /\ reaper.pc = "unlink" /\ UNCHANGED vm
        /\ disk' = [disk EXCEPT ![ReapVm] = NoDisk] \/ UNCHANGED disk
    BY <1>3 DEF ReapUnlink, Unlink
  <2>2. ReapVm \in reaper.vmq
    BY <2>1, ReaperFacts
  <2>3. n = ReapVm
    BY <1>0, <2>1, <2>2 DEF OnDisk
  <2> QED
    BY <2>2, <2>3 DEF Queued
<1>4. CASE ReapDisk
  <2>1. PICK k \in reaper.diskq :
          disk' = [disk EXCEPT ![k] = NoDisk] \/ UNCHANGED disk
    BY <1>4 DEF ReapDisk, Unlink
  <2>2. n = k
    BY <1>0, <1>4, <2>1 DEF ReapDisk, OnDisk
  <2> QED
    BY <2>1, <2>2 DEF Queued
<1>5. CASE Clock
  <2>1. /\ UNCHANGED vm
        /\ disk'[n] = IF OnDisk(n) /\ disk[n].age < MinAge
                      THEN [disk[n] EXCEPT !.age = @ + 1] ELSE disk[n]
    BY <1>5 DEF Clock
  <2>2. disk'[n].owner = disk[n].owner
    BY <1>0, <2>1
  <2>3. OnDisk(n) => disk[n].owner # NoRun
    BY OnDiskFacts
  <2> QED
    BY <2>1, <2>2, <2>3 DEF NoDisk
<1>6. CASE UNCHANGED <<disk, vm>>
  BY <1>6 DEF OnDisk
<1> QED
  BY <1>1, <1>2, <1>3, <1>4, <1>5, <1>6 DEF Next, ReapStep, ReapEnumerate,
     ReapClassify, ReapCrash, Terminated, vars

\* What a run holds, younger than the age the reaper was given, is removed by
\* nobody else, unless the disk was taken before or made during a pass that had
\* seen an older one (provisioning/ephemeral-reaper.ts).
THEOREM EphemeralVmYoungSurvives == Spec => YoungSurvives
<1> DEFINE A == \A r \in Runs, n \in Names :
                  /\ (r \in vm[n] /\ r \notin vm'[n]) \/ (OnDisk(n) /\ disk'[n] = NoDisk)
                  /\ disk[n].owner = r /\ disk[n].age < MinAge /\ Holds(r, n)
                  => run'[r] # run[r] \/ n \in taken \cup reaper.fresh
<1>1. ASSUME IInv, [Next]_vars
      PROVE  [A]_vars
  <2> SUFFICES ASSUME NEW r \in Runs, NEW n \in Names, Holds(r, n),
                      disk[n].owner = r, disk[n].age < MinAge,
                      (r \in vm[n] /\ r \notin vm'[n]) \/ (OnDisk(n) /\ disk'[n] = NoDisk)
               PROVE  run'[r] # run[r] \/ n \in taken \cup reaper.fresh
    OBVIOUS
  <2>1. \/ \E q \in Runs : Holds(q, n) /\ run'[q] # run[q]
        \/ n \in Queued(reaper)
    <3>1. ~(vm[n] \subseteq vm'[n]) \/ (OnDisk(n) /\ disk'[n] = NoDisk)
      OBVIOUS
    <3> QED
      BY <1>1, <3>1, Takers
  <2>2. CASE n \in Queued(reaper)
    <3>1. disk[n] # NoDisk
      BY <1>1, OnDiskFacts, RunAssumption
    <3>2. disk[n].age \in 0 .. MinAge /\ MinAge \in Nat
      BY <1>1, Points, SizeAssumption
    <3> QED
      BY <1>1, <2>2, <3>1, <3>2, ReaperFacts
  <2>3. CASE \E q \in Runs : Holds(q, n) /\ run'[q] # run[q]
    BY <1>1, <2>3, OneHolderInv DEF OneHolder
  <2> QED
    BY <2>1, <2>2, <2>3
<1>2. Spec => [][A]_vars
  BY <1>1, EphemeralVmInvariant, PTL DEF Spec
<1> QED
  BY <1>2 DEF YoungSurvives
=============================================================================
