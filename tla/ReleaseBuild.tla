---------------------------- MODULE ReleaseBuild ----------------------------
(***************************************************************************)
(* runBuild, the build executor, run concurrently by several builders for  *)
(* one (product, tag): the release rows and their artifact rows, the       *)
(* unique index on live (product, tag) pairs, and every path out of the    *)
(* executor.  Each control-plane call is one atomic step; between two of   *)
(* them any other builder may run.  A call can be refused.  A builder that *)
(* reaches the control plane over HTTP can also give up on a request that  *)
(* is still travelling: the server serves it at once, later or never, with *)
(* no regard to what the builder has sent since (`late`).                  *)
(*                                                                         *)
(* Builds of different tags share nothing but content-addressed blobs,     *)
(* which are only ever added, so one tag is enough and blobs are left out. *)
(***************************************************************************)
EXTENDS Integers, FiniteSets

CONSTANTS
    Builders,   \* concurrent runBuild callers (CLI processes, runners)
    Remote,     \* those that use HttpControlPlane instead of the database
    NumArts,    \* declared artifacts of the product
    MaxRows,    \* bound: release rows ever created for the tag
    MaxHits,    \* bound: failed calls per build
    MaxLate     \* bound: requests given up on and still travelling

ASSUME ReleaseBuildAssumption ==
    /\ Remote \subseteq Builders
    /\ NumArts \in Nat
    /\ MaxRows \in Nat
    /\ MaxHits \in Nat
    /\ MaxLate \in Nat

Arts == 1..NumArts
Rows == 1..MaxRows
None == 0               \* no row

VARIABLES
    status,     \* release.status of each row ("none": not inserted)
    live,       \* rows with deleted_at IS NULL
    arts,       \* the row's artifact rows
    manifest,   \* the artifacts named by manifest_sha256 (empty: NULL)
    pc,         \* where each builder stands in runBuild
    seen,       \* `existing.id`, as getByTag returned it
    found,      \* `existing.status`
    mine,       \* `release.id`
    caught,     \* manifestEntries: artifacts captured so far
    late,       \* requests whose sender has stopped waiting
    erred,      \* history: the calls that failed in this build
    clean       \* history: builds in which nothing failed and no other builder
                \* moved meanwhile

rowVars   == <<status, live, arts, manifest>>
localVars == <<seen, found, mine, caught>>
histVars  == <<erred, clean>>
vars      == <<rowVars, pc, localVars, late, histVars>>

\* Each name is the call (or the local work) that comes next; the last row
\* holds the ends: returned, refused (ReleaseAlreadyExistsError), thrown
\* before the try block, thrown from it, killed.
Working == {"lookup", "delete", "parse", "create", "auditStart", "build",
            "capture", "finish", "auditDone", "catch", "auditFail"}
Ended   == {"done", "refused", "aborted", "failed", "killed"}
Calls   == Working \ {"parse", "build"}

Status == {"none", "building", "ready", "failed"}

\* A request that changes rows: what is asked, of which row, with which
\* artifacts, and (history) the status its sender's getByTag had returned.
Requests == [op : {"delete", "create", "capture", "finish", "catch"},
             row : Rows \cup {None}, set : SUBSET Arts, found : Status]

TypeOK ==
    /\ status \in [Rows -> Status]
    /\ live \subseteq Rows
    /\ arts \in [Rows -> SUBSET Arts]
    /\ manifest \in [Rows -> SUBSET Arts]
    /\ pc \in [Builders -> Working \cup Ended \cup {"idle"}]
    /\ seen \in [Builders -> Rows \cup {None}]
    /\ found \in [Builders -> Status]
    /\ mine \in [Builders -> Rows \cup {None}]
    /\ caught \in [Builders -> SUBSET Arts]
    /\ late \subseteq Requests
    /\ erred \in [Builders -> SUBSET Calls]
    /\ clean \subseteq Builders

Init ==
    /\ status = [r \in Rows |-> "none"]
    /\ live = {}
    /\ arts = [r \in Rows |-> {}]
    /\ manifest = [r \in Rows |-> {}]
    /\ pc = [b \in Builders |-> "idle"]
    /\ seen = [b \in Builders |-> None]
    /\ found = [b \in Builders |-> "none"]
    /\ mine = [b \in Builders |-> None]
    /\ caught = [b \in Builders |-> {}]
    /\ late = {}
    /\ erred = [b \in Builders |-> {}]
    /\ clean = Builders

Active(b) == pc[b] \in Working

-----------------------------------------------------------------------------
(***************************************************************************)
(* How a step ends.                                                        *)
(***************************************************************************)

\* Builder b moves to loc; every other builder at work was interleaved with.
GotoWith(b, loc, undisturbed) ==
    /\ pc' = [pc EXCEPT ![b] = loc]
    /\ clean' = {c \in clean : IF c = b THEN undisturbed ELSE ~Active(c)}

\* The call of this step was answered: it returned, or what the rows say made
\* it throw (NotFound, StorageConflictError).
Returns(b, loc) == GotoWith(b, loc, TRUE) /\ UNCHANGED <<late, erred>>

\* The product's own failure: its build.yaml, a command, a missing artifact.
Throws(b, loc) == GotoWith(b, loc, FALSE) /\ UNCHANGED <<late, erred>>

\* The call of this step failed: database error, connection refused or lost.
CallError(b, loc) ==
    /\ Cardinality(erred[b]) < MaxHits
    /\ erred' = [erred EXCEPT ![b] = @ \cup {pc[b]}]
    /\ GotoWith(b, loc, FALSE)

\* Calls that are awaited before the try block reject out of runBuild, calls
\* inside it go to the catch block.
OnError(b) ==
    CASE pc[b] \in {"lookup", "delete", "create", "auditStart"} -> "aborted"
      [] pc[b] \in {"capture", "finish", "auditDone"} -> "catch"
      [] pc[b] = "catch" -> "auditFail"   \* swallowed: the original error wins
      [] pc[b] = "auditFail" -> "failed"

-----------------------------------------------------------------------------
(***************************************************************************)
(* The repository operations.                                              *)
(***************************************************************************)

\* SqliteReleaseRepo.softDelete of a live row; status does not matter.
SoftDelete(r) ==
    /\ live' = live \ {r}
    /\ UNCHANGED <<status, arts, manifest>>

\* SqliteReleaseRepo.create of a fresh row r.
Insert(r) ==
    /\ status[r] = "none"
    /\ \A q \in Rows : q < r => status[q] # "none"
    /\ status' = [status EXCEPT ![r] = "building"]
    /\ live' = live \cup {r}
    /\ UNCHANGED <<arts, manifest>>

\* SqliteArtifactRepo.create.
InsertArtifact(r, set) ==
    /\ arts' = [arts EXCEPT ![r] = @ \cup set]
    /\ UNCHANGED <<status, live, manifest>>

\* SqliteReleaseRepo.update to ready, with the manifest of what was captured.
MarkReady(r, captured) ==
    /\ status' = [status EXCEPT ![r] = "ready"]
    /\ manifest' = [manifest EXCEPT ![r] = captured]
    /\ UNCHANGED <<live, arts>>

\* ... and to failed: the manifest column is kept.
MarkFailed(r) ==
    /\ status' = [status EXCEPT ![r] = "failed"]
    /\ UNCHANGED <<live, arts, manifest>>

-----------------------------------------------------------------------------
(***************************************************************************)
(* runBuild, one action per awaited call.                                  *)
(***************************************************************************)

\* The verb, or a release.build job, calls runBuild (again).
Begin(b) ==
    /\ pc[b] \in Ended \cup {"idle"}
    /\ pc' = [pc EXCEPT ![b] = "lookup"]
    /\ seen' = [seen EXCEPT ![b] = None]
    /\ found' = [found EXCEPT ![b] = "none"]
    /\ mine' = [mine EXCEPT ![b] = None]
    /\ caught' = [caught EXCEPT ![b] = {}]
    /\ erred' = [erred EXCEPT ![b] = {}]
    /\ clean' = {c \in clean : ~Active(c)} \cup {b}
    /\ UNCHANGED <<rowVars, late>>

\* Mutant: a building row is taken for another builder's and blocks the tag.
LookupBlocks(b) ==
    /\ pc[b] = "lookup"
    /\ \/ /\ live = {}
          /\ Returns(b, "parse")
          /\ UNCHANGED <<seen, found>>
       \/ \E r \in live :
            /\ seen' = [seen EXCEPT ![b] = r]
            /\ found' = [found EXCEPT ![b] = status[r]]
            /\ Returns(b, CASE status[r] = "ready" -> "refused"
                            [] status[r] = "building" -> "aborted"
                            [] OTHER -> "delete")
    /\ UNCHANGED <<rowVars, mine, caught>>

\* Mutant: a ready release is rebuilt like any other.
LookupRebuilds(b) ==
    /\ pc[b] = "lookup"
    /\ \/ /\ live = {}
          /\ Returns(b, "parse")
          /\ UNCHANGED <<seen, found>>
       \/ \E r \in live :
            /\ seen' = [seen EXCEPT ![b] = r]
            /\ found' = [found EXCEPT ![b] = status[r]]
            /\ Returns(b, "delete")
    /\ UNCHANGED <<rowVars, mine, caught>>

\* releases.getByTag: a ready release is refused, any other is to be deleted.
Lookup(b) ==
    /\ pc[b] = "lookup"
    /\ \/ /\ live = {}
          /\ Returns(b, "parse")
          /\ UNCHANGED <<seen, found>>
       \/ \E r \in live :
            /\ seen' = [seen EXCEPT ![b] = r]
            /\ found' = [found EXCEPT ![b] = status[r]]
            /\ Returns(b, IF status[r] = "ready" THEN "refused" ELSE "delete")
    /\ UNCHANGED <<rowVars, mine, caught>>

\* releases.softDelete(existing.id): the row as it is now, NotFound if gone.
Delete(b) ==
    /\ pc[b] = "delete"
    /\ \/ /\ seen[b] \in live
          /\ SoftDelete(seen[b])
          /\ Returns(b, "parse")
       \/ /\ seen[b] \notin live
          /\ Returns(b, "aborted")
          /\ UNCHANGED rowVars
    /\ UNCHANGED localVars

\* Read and validate build.yaml.
Parse(b) ==
    /\ pc[b] = "parse"
    /\ Returns(b, "create") \/ Throws(b, "aborted")
    /\ UNCHANGED <<rowVars, localVars>>

\* releases.create: StorageConflictError while a live row holds the tag.
Create(b) ==
    /\ pc[b] = "create"
    /\ \/ /\ live = {}
          /\ \E r \in Rows :
               /\ Insert(r)
               /\ mine' = [mine EXCEPT ![b] = r]
          /\ Returns(b, "auditStart")
       \/ /\ live # {}
          /\ Returns(b, "aborted")
          /\ UNCHANGED <<rowVars, mine>>
    /\ UNCHANGED <<seen, found, caught>>

\* auditLog.append(release.build.started), still outside the try block.
AuditStart(b) ==
    /\ pc[b] = "auditStart"
    /\ Returns(b, "build")
    /\ UNCHANGED <<rowVars, localVars>>

\* The component loop: build and produce commands, then either the next
\* declared artifact is there, or all are captured, or it throws.
Build(b) ==
    /\ pc[b] = "build"
    /\ \/ caught[b] # Arts /\ Returns(b, "capture")
       \/ caught[b] = Arts /\ Returns(b, "finish")
       \/ caught[b] # Arts /\ Throws(b, "catch")
    /\ UNCHANGED <<rowVars, localVars>>

\* The declared artifact that the loop has come to.
NextArt(b) ==
    {a \in Arts \ caught[b] : \A x \in Arts \ caught[b] : a <= x}

\* captureArtifact: artifacts.create.  Over HTTP the endpoint looks the
\* release up first (404 once it is deleted); the database does not.
Capture(b) ==
    /\ pc[b] = "capture"
    /\ \/ /\ mine[b] \in live \/ b \notin Remote
          /\ InsertArtifact(mine[b], NextArt(b))
          /\ caught' = [caught EXCEPT ![b] = @ \cup NextArt(b)]
          /\ Returns(b, "build")
       \/ /\ mine[b] \notin live /\ b \in Remote
          /\ Returns(b, "catch")
          /\ UNCHANGED <<rowVars, caught>>
    /\ UNCHANGED <<seen, found, mine>>

\* Mutant: the row is marked ready before the artifacts are captured.
FinishEarly(b) ==
    /\ pc[b] = "build"
    /\ mine[b] \in live
    /\ MarkReady(mine[b], caught[b])
    /\ Returns(b, "auditDone")
    /\ UNCHANGED localVars

\* releases.update(ready): NotFound if the row was deleted meanwhile.
Finish(b) ==
    /\ pc[b] = "finish"
    /\ \/ /\ mine[b] \in live
          /\ MarkReady(mine[b], caught[b])
          /\ Returns(b, "auditDone")
       \/ /\ mine[b] \notin live
          /\ Returns(b, "catch")
          /\ UNCHANGED rowVars
    /\ UNCHANGED localVars

\* auditLog.append(release.build.completed), inside the try block.
AuditDone(b) ==
    /\ pc[b] = "auditDone"
    /\ Returns(b, "done")
    /\ UNCHANGED <<rowVars, localVars>>

\* Mutant: the catch block only records the failure in the audit log.
CatchOnlyAudits(b) ==
    /\ pc[b] = "catch"
    /\ Returns(b, "auditFail")
    /\ UNCHANGED <<rowVars, localVars>>

\* The catch block's releases.update(failed); its own error is swallowed.
Catch(b) ==
    /\ pc[b] = "catch"
    /\ \/ mine[b] \in live /\ MarkFailed(mine[b])
       \/ mine[b] \notin live /\ UNCHANGED rowVars
    /\ Returns(b, "auditFail")
    /\ UNCHANGED localVars

\* auditLog.append(release.build.failed), then the original error is thrown.
AuditFail(b) ==
    /\ pc[b] = "auditFail"
    /\ Returns(b, "failed")
    /\ UNCHANGED <<rowVars, localVars>>

\* The call at pc[b] is refused and changes nothing.
CallRefused(b) ==
    /\ pc[b] \in Calls
    /\ CallError(b, OnError(b))
    /\ UNCHANGED <<rowVars, localVars, late>>

\* The request that a remote builder has on the wire at pc[b].
Request(b) ==
    [op |-> pc[b],
     row |-> IF pc[b] = "delete" THEN seen[b] ELSE mine[b],
     set |-> IF pc[b] = "capture" THEN NextArt(b) ELSE caught[b],
     found |-> found[b]]

LeavesRequest(b) ==
    /\ b \in Remote
    /\ pc[b] \in {"delete", "create", "capture", "finish", "catch"}
    /\ Cardinality(late) < MaxLate
    /\ late' = late \cup {Request(b)}

\* The builder gives up on its request, which the server may yet serve.
AnswerLost(b) ==
    /\ LeavesRequest(b)
    /\ CallError(b, OnError(b))
    /\ UNCHANGED <<rowVars, localVars>>

\* The builder's process dies, with or without a request on the wire.
Kill(b) ==
    /\ Active(b)
    /\ LeavesRequest(b) \/ UNCHANGED late
    /\ GotoWith(b, "killed", FALSE)
    /\ UNCHANGED <<rowVars, localVars, erred>>

\* The endpoint serves a request nobody waits for; what the rows refuse now
\* (404, 409) changes nothing.
ServeLate(q) ==
    /\ q \in late
    /\ late' = late \ {q}
    /\ \/ q.op = "delete" /\ q.row \in live /\ SoftDelete(q.row)
       \/ q.op = "create" /\ live = {} /\ \E r \in Rows : Insert(r)
       \/ q.op = "capture" /\ q.row \in live /\ InsertArtifact(q.row, q.set)
       \/ q.op = "finish" /\ q.row \in live /\ MarkReady(q.row, q.set)
       \/ q.op = "catch" /\ q.row \in live /\ MarkFailed(q.row)
       \/ q.op = "create" /\ live # {} /\ UNCHANGED rowVars
       \/ q.op # "create" /\ q.row \notin live /\ UNCHANGED rowVars
    /\ clean' = {c \in clean : ~Active(c)}
    /\ UNCHANGED <<pc, localVars, erred>>

Step(b) ==
    \/ Begin(b) \/ Lookup(b) \/ Delete(b) \/ Parse(b) \/ Create(b)
    \/ AuditStart(b) \/ Build(b) \/ Capture(b) \/ Finish(b) \/ AuditDone(b)
    \/ Catch(b) \/ AuditFail(b)

Fault(b) == CallRefused(b) \/ AnswerLost(b) \/ Kill(b)

Next ==
    \/ \E b \in Builders : Step(b) \/ Fault(b)
    \/ \E q \in late : ServeLate(q)

Spec == Init /\ [][Next]_vars

-----------------------------------------------------------------------------
(***************************************************************************)
(* Correctness.                                                            *)
(***************************************************************************)

\* A release that says ready has every declared artifact recorded and named
\* by its manifest, whichever builders raced for the tag and wherever they
\* failed: no row is ever shared by two builds.
ReadyIsComplete ==
    \A r \in Rows :
        status[r] = "ready" => arts[r] = Arts /\ manifest[r] = Arts

\* A build that returned has a ready release (another build may have
\* soft-deleted it, but never unmade it).
SuccessIsReady ==
    \A b \in Builders : pc[b] = "done" => status[mine[b]] = "ready"

\* A build that threw from its try block leaves no live ready release, save
\* in two cases: the catch block's own update failed and was swallowed, or the
\* ready update was given up on over HTTP and served after the catch block's.
FailureIsNotReady ==
    \A b \in Builders :
        /\ pc[b] = "failed"
        /\ mine[b] \in live
        /\ status[mine[b]] = "ready"
        => \/ "catch" \in erred[b]
           \/ "finish" \in erred[b] /\ b \in Remote

\* Crash recovery: whatever rows earlier builds left (stuck building, failed,
\* ready), a build during which nothing fails and nobody else moves either
\* finds the release ready or makes it so.
CleanBuildSucceeds ==
    \A b \in clean : pc[b] \notin {"aborted", "failed", "killed"}

\* executor.ts: "already exists with status=ready; refusing to rebuild".  A
\* ready release is soft-deleted only on a lookup that found it not ready yet:
\* the status is not read again, neither by a builder that stands at its
\* soft-delete nor for a DELETE that arrives after its sender gave up.
ReadyReplacedByRacer ==
    [][\A r \in Rows :
         r \in live /\ status[r] = "ready" /\ r \notin live' =>
             \/ \E b \in Builders :
                  pc[b] = "delete" /\ seen[b] = r /\ found[b] # "ready"
             \/ \E q \in late :
                  q.op = "delete" /\ q.row = r /\ q.found # "ready"]_vars

\* What runBuild tells its caller is what the row says, in both directions.
OutcomeIsHonest == SuccessIsReady /\ FailureIsNotReady
=============================================================================
