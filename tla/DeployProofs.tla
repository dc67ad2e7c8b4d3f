---------------------------- MODULE DeployProofs ----------------------------
(***************************************************************************)
(* Proofs about deploys and rollbacks on a target of any kind, for any     *)
(* number of deployers, releases, rows, files and failed calls.            *)
(***************************************************************************)
EXTENDS RemoteDeploy, FiniteSetTheorems, TLAPS

vars2 == <<vars, tunnel>>

\* A Kubernetes rollback creates no row.
Undoing(d) == scope.kind = "k8s" /\ op[d] = "rollback"

-----------------------------------------------------------------------------
(***************************************************************************)
(* Places.                                                                 *)
(***************************************************************************)

Shared == {"lookup", "create", "auditStart", "deploying", "supersede",
           "activate", "auditDone", "recheck", "markFailed", "auditFail"}
Around(d) == {p \in {"auditBegin", "auditBack", "auditBackFail"} : Wrapped(d)}

\* Where a deployer of each kind of target can be at work.
PlaceOK(d) ==
    /\ scope.kind = "vm" => pc[d] \in BeforeTry \cup InTry \cup InCatch
    /\ Undoing(d) => pc[d] \in {"lookup", "undo", "markBack", "auditBack"}
    /\ scope.kind = "k8s" /\ ~Undoing(d) =>
         pc[d] \in Shared \cup {"apply", "ready", "markUnready",
                                "auditUnready"}
    /\ scope.kind = "cloud_vm" =>
         pc[d] \in Shared \cup Around(d)
                     \cup {"connect", "reach", "install", "close", "closeFail"}
    /\ scope.kind = "cloud_stack" =>
         pc[d] \in Shared \cup Around(d) \cup {"apply", "failCheck"}

\* No row yet; a row that was never active; one that was; the catch block
\* before it marks the row, and after.
Rowless  == {"auditBegin", "lookup", "create", "undo", "markBack"}
Untried  == {"auditStart", "checkpoint", "deploying", "stage", "probe",
             "apply", "ready", "connect", "reach", "install"}
Fresh    == Untried \cup {"supersede", "activate", "markUnready",
                          "auditUnready"}
Standing == {"dropCkpt", "auditDone", "close"}
Catching == {"restore", "discard", "failCheck", "closeFail", "recheck",
             "markFailed"}
Caught   == {"auditFail", "failed", "broken"}

\* The deploy has its checkpoint.
Holding == {"deploying", "stage", "probe", "supersede", "activate",
            "dropCkpt"}

-----------------------------------------------------------------------------
(***************************************************************************)
(* The inductive invariant.                                                *)
(***************************************************************************)

Good == {"active", "superseded", "rolled_back"}

ScopeOK ==
    /\ scope.files > 0
    /\ \A d \in Deployers \ scope.deployers : pc[d] = "idle" /\ mine[d] = None

\* What the rows say of one another.
RowsOK ==
    /\ everActive \subseteq Inserted
    /\ \A r \in Rows : status[r] \in Good => r \in everActive
    /\ \A r \in Inserted : \A q \in Rows : q < r => q \in Inserted
    /\ \A r \in Inserted : relOf[r] \in Releases
    /\ PriorWasActive
    /\ \A r, q \in ActiveRows : r = q

\* What a deployer holds goes with where it stands.
HeldOK(d) ==
    /\ Active(d) => PlaceOK(d)
    /\ Active(d) /\ ~Undoing(d) => rel[d] \in Releases
    /\ prev[d] # None => prev[d] \in everActive
    /\ mine[d] # None => /\ mine[d] \in Inserted
                         /\ prev[d] < mine[d]
                         /\ relOf[mine[d]] = rel[d]
    /\ pc[d] \in Rowless \/ Undoing(d) => mine[d] = None
    /\ pc[d] \in Fresh \cup Standing \cup Catching \cup {"auditFail"} =>
         mine[d] # None
    /\ pc[d] \in {"auditBack", "done"} => Undoing(d) \/ mine[d] # None
    /\ pc[d] \in {"supersede", "undo", "markBack"} => prev[d] # None
    /\ pc[d] \in {"auditBegin", "lookup"} => prev[d] = None
    /\ pc[d] \in {"auditBegin", "lookup", "create", "auditStart",
                  "checkpoint", "deploying"} => copied[d] = 0
    /\ pc[d] = "stage" => copied[d] < scope.files

MineApart ==
    \A d, e \in Deployers : d # e /\ mine[d] # None => mine[d] # mine[e]

\* What has become of the row of a deployer.
FateOK(d) ==
    /\ pc[d] \in Fresh => mine[d] \notin everActive
    /\ pc[d] \in Standing \cup {"auditBack", "done"} /\ mine[d] # None =>
         status[mine[d]] \in Good
    /\ pc[d] \in Catching /\ errors = 0 => mine[d] \notin everActive
    /\ pc[d] \in Caught /\ mine[d] # None /\ errors <= 1 /\ ~Wrapped(d) =>
         status[mine[d]] # "active"

\* A target without an active row is between the two updates of a deploy.
StaysActive ==
    Undisturbed /\ everActive # {} =>
        \/ ActiveRows # {}
        \/ \E r \in Rows : status[r] = "rolled_back"
        \/ \E d \in scope.deployers : pc[d] = "activate"

\* Where deploys follow one another: the active row is the one looked up, and
\* then the deploy's own.
AloneOK(d) ==
    Serial =>
        /\ clean[d] /\ pc[d] \in Untried \cup {"create", "supersede"} =>
             ActiveRows \subseteq {prev[d]}
        /\ clean[d] /\ pc[d] = "activate" => ActiveRows = {}
        /\ /\ clean[d] /\ prev[d] # None
           /\ pc[d] \in (Fresh \ {"activate"}) \cup Catching
                          \cup {"create", "auditFail", "auditBackFail",
                              "failed"}
           => status[prev[d]] = "active"
        /\ pc[d] \in Standing \cup {"auditBack", "done"} =>
             Undoing(d) \/ ActiveRows \subseteq {mine[d]}

\* A checkpoint belongs to a deploy that will still delete it.
CkptOK ==
    \A r \in Rows : ckpt[r].taken =>
        /\ scope.kind = "vm"
        /\ Undisturbed => \E d \in scope.deployers :
              mine[d] = r /\ pc[d] \in Holding \cup {"restore", "discard"}

\* On a VM whose deploys follow one another, an undisturbed one can go back.
BaseOK(d) ==
    scope.kind = "vm" /\ Serial /\ clean[d] =>
        /\ pc[d] \in (Holding \ {"dropCkpt"}) \cup {"restore"} =>
             ckpt[mine[d]] = [taken |-> TRUE, image |-> base[d]]
        /\ pc[d] \in {"discard", "markFailed", "auditFail", "failed"} =>
             vm = base[d]
        /\ pc[d] \in {"markFailed", "auditFail", "failed"} =>
             ~ckpt[mine[d]].taken

StagedIn(r, image) == {relOf[r]} \X Lasting(relOf[r]) \subseteq image

\* Nothing of the same guest path was copied after artifact f yet.
Uncovered(d, f) ==
    \A g \in Files : f < g /\ g <= copied[d] => ~SamePath(rel[d], f, g)

\* ... and after one failed call at most, image or checkpoint hold the files
\* of every active row but perhaps the one that is about to be marked failed.
StagedOK(d) ==
    scope.kind = "vm" /\ Serial /\ errors <= 1 /\ ~killed =>
        /\ /\ pc[d] # "stage"
           /\ pc[d] \notin {"restore", "discard", "markFailed"} \/ errors = 0
           => \A r \in ActiveRows : StagedIn(r, vm)
        /\ pc[d] = "stage" =>
             /\ \A r \in ActiveRows : relOf[r] # rel[d] => StagedIn(r, vm)
             /\ \A f \in 1..copied[d] : Uncovered(d, f) => <<rel[d], f>> \in vm
        /\ pc[d] \in {"probe", "supersede", "activate"} =>
             {rel[d]} \X Lasting(rel[d]) \subseteq vm
        /\ pc[d] \in Holding => ckpt[mine[d]].taken
        /\ pc[d] = "auditDone" => ~ckpt[mine[d]].taken
        /\ pc[d] \in Holding \cup {"restore"} =>
             \A r \in ActiveRows \ {mine[d]} :
                 StagedIn(r, IF ckpt[mine[d]].taken THEN ckpt[mine[d]].image
                                                    ELSE vm)
        /\ pc[d] \in {"discard", "markFailed"} =>
             \A r \in ActiveRows \ {mine[d]} : StagedIn(r, vm)

\* A stack whose deploys follow one another holds what was applied last.
StackOK(d) ==
    /\ scope.kind = "cloud_stack" /\ Serial
    /\ pc[d] \in {"supersede", "activate", "auditDone", "auditBack", "done"}
    => vm = {<<rel[d], 1>>}

\* A tunnel is open while its deploy will still close it, or was killed.
TunnelOK(d) ==
    tunnel[d] = "open" =>
        /\ scope.kind = "cloud_vm"
        /\ pc[d] \in {"reach", "install", "supersede", "activate",
                      "auditDone", "close", "closeFail", "killed"}

TypesOK == TypeOK /\ RemoteTypeOK /\ ScopeOK

RowInv == /\ TypesOK /\ RowsOK /\ MineApart /\ StaysActive
          /\ \A d \in Deployers : HeldOK(d) /\ FateOK(d) /\ AloneOK(d)

IInv == /\ RowInv /\ CkptOK
        /\ \A d \in scope.deployers : BaseOK(d) /\ StagedOK(d) /\ StackOK(d)
        /\ \A d \in Deployers : TunnelOK(d)

-----------------------------------------------------------------------------
(***************************************************************************)
(* Every step, of runDeploy or of an adapter, is one of a few moves on the *)
(* rows.                                                                   *)
(***************************************************************************)

\* Where the catch block begins.
CatchesAt(q) ==
    /\ scope.kind = "vm" => q = "restore"
    /\ scope.kind = "k8s" => q = "recheck"
    /\ scope.kind = "cloud_vm" => q = "closeFail"
    /\ scope.kind = "cloud_stack" => q = "failCheck"

\* To the audit entry of a cloud rollback, or out of the executor.
Leaves(d, p, q, out) == q = IF Wrapped(d) THEN p ELSE out

\* Where the call at pc[d] leads when it returns.
Edge(d, q) ==
    /\ pc[d] = "auditBegin" => q = "lookup"
    /\ pc[d] = "lookup" => q = IF Undoing(d) THEN "undo" ELSE "create"
    /\ pc[d] = "create" => q = "auditStart"
    /\ pc[d] = "auditStart" =>
         q = IF scope.kind = "vm" THEN "checkpoint" ELSE "deploying"
    /\ pc[d] = "checkpoint" => q = "deploying"
    /\ pc[d] = "deploying" =>
         /\ scope.kind = "vm" => q = "stage"
         /\ scope.kind = "cloud_vm" => q = "connect"
         /\ scope.kind \in {"k8s", "cloud_stack"} => q = "apply"
    /\ pc[d] = "stage" => q \in {"stage", "probe"}
    /\ pc[d] = "connect" => q = "reach"
    /\ pc[d] = "reach" => q = "install"
    /\ pc[d] = "apply" /\ scope.kind = "k8s" => q = "ready"
    /\ \/ pc[d] \in {"probe", "ready", "install"}
       \/ pc[d] = "apply" /\ scope.kind # "k8s"
       => q = IF prev[d] = None THEN "activate" ELSE "supersede"
    /\ pc[d] = "supersede" => q = "activate"
    /\ pc[d] = "activate" =>
         q = IF scope.kind = "vm" THEN "dropCkpt" ELSE "auditDone"
    /\ pc[d] = "dropCkpt" => q = "auditDone"
    /\ pc[d] = "auditDone" /\ scope.kind = "cloud_vm" => q = "close"
    /\ \/ pc[d] = "auditDone" /\ scope.kind # "cloud_vm"
       \/ pc[d] = "close"
       => Leaves(d, "auditBack", q, "done")
    /\ pc[d] = "auditBack" => q = "done"
    /\ pc[d] = "undo" => q = "markBack"
    /\ pc[d] = "markBack" => q = "auditBack"
    /\ pc[d] = "markUnready" => q = "auditUnready"
    /\ pc[d] = "restore" => q = "discard"
    /\ pc[d] \in {"closeFail", "failCheck"} => q = "recheck"
    /\ pc[d] \in {"discard", "recheck"} => q = "markFailed"
    /\ pc[d] = "markFailed" => q = "auditFail"
    /\ pc[d] = "auditFail" => Leaves(d, "auditBackFail", q, "failed")
    /\ pc[d] = "auditBackFail" => q = "failed"

\* Where it leads when it throws.
ErrorEdge(d, q) ==
    /\ pc[d] = "auditBegin" => q = "aborted"
    /\ pc[d] \in (Rowless \ {"auditBegin"}) \cup {"auditStart", "checkpoint",
                                                  "deploying", "auditBack"}
         => Leaves(d, "auditBackFail", q, "aborted")
    /\ \/ pc[d] \in Fresh \ {"auditStart", "checkpoint", "deploying"}
       \/ pc[d] \in Standing
       => CatchesAt(q)
    /\ pc[d] = "restore" => q = "discard"
    /\ pc[d] = "discard" => q = "markFailed"
    /\ pc[d] \in {"markFailed", "auditFail"} /\ scope.kind = "vm" =>
         q = IF pc[d] = "auditFail" THEN "failed" ELSE "auditFail"
    /\ \/ pc[d] \in {"failCheck", "recheck"}
       \/ pc[d] \in {"markFailed", "auditFail"} /\ scope.kind # "vm"
       => Leaves(d, "auditBackFail", q, "broken")
    /\ pc[d] = "auditBackFail" => q = "failed"

NoRows == UNCHANGED <<status, relOf, everActive, prevOf>>

Sets(r, s) ==
    /\ status' = [status EXCEPT ![r] = s]
    /\ everActive' = everActive \cup {q \in {r} : s = "active"}
    /\ UNCHANGED <<relOf, prevOf>>

NewRow(d, r) ==
    /\ status[r] = "none"
    /\ \A q \in Rows : q < r => status[q] # "none"
    /\ status' = [status EXCEPT ![r] = "pending"]
    /\ relOf' = [relOf EXCEPT ![r] = rel[d]]
    /\ prevOf' = [prevOf EXCEPT ![r] = prev[d]]
    /\ UNCHANGED everActive

Updates == {"deploying", "supersede", "activate", "markFailed",
            "markUnready", "markBack"}

RowCall(d) ==
    \/ pc[d] = "deploying" /\ Sets(mine[d], "deploying")
    \/ pc[d] = "supersede" /\ Sets(prev[d], "superseded")
    \/ /\ pc[d] = "activate"
       /\ ActiveRows \subseteq {mine[d]}
       /\ Sets(mine[d], "active")
    \/ pc[d] \in {"markFailed", "markUnready"} /\ Sets(mine[d], "failed")
    \/ pc[d] = "markBack" /\ Sets(prev[d], "rolled_back")

Holds == UNCHANGED <<op, rel, prev, mine>>

BeginMove(d) ==
    /\ ~Active(d)
    /\ NoRows /\ UNCHANGED <<errors, killed>>
    /\ mine' = [mine EXCEPT ![d] = None]
    /\ \E o \in {"deploy", "rollback"} :
         /\ op' = [op EXCEPT ![d] = o]
         /\ \/ /\ pc' = [pc EXCEPT ![d] = "aborted"]
               /\ UNCHANGED <<rel, prev, copied, clean>>
            \/ /\ pc' = [pc EXCEPT ![d] = IF IsCloud /\ o = "rollback"
                                            THEN "auditBegin" ELSE "lookup"]
               /\ \E x \in Releases \cup {NoRel} :
                    /\ rel' = [rel EXCEPT ![d] = x]
                    /\ x \in Releases \/ (scope.kind = "k8s" /\ o = "rollback")
               /\ prev' = [prev EXCEPT ![d] = None]
               /\ copied' = [copied EXCEPT ![d] = 0]
               /\ clean' = [c \in Deployers |->
                              c = d \/ (clean[c] /\ ~Active(c))]

LookMove(d) ==
    /\ pc[d] = "lookup"
    /\ NoRows /\ UNCHANGED <<op, rel, mine, copied>>
    /\ \/ /\ ActiveRows = {} /\ UNCHANGED prev
          /\ Returns(d, IF Undoing(d) THEN "aborted" ELSE "create")
       \/ /\ \E r \in ActiveRows : prev' = [prev EXCEPT ![d] = r]
          /\ Returns(d, IF Undoing(d) THEN "undo" ELSE "create")

CreateMove(d) ==
    /\ pc[d] = "create"
    /\ \E r \in Rows : NewRow(d, r) /\ mine' = [mine EXCEPT ![d] = r]
    /\ Returns(d, "auditStart")
    /\ UNCHANGED <<op, rel, prev, copied>>

CallMove(d) ==
    /\ Active(d) /\ pc[d] \notin {"lookup", "create", "auditUnready"}
    /\ \E q \in Working \cup Ended : Edge(d, q) /\ Returns(d, q)
    /\ RowCall(d) \/ (pc[d] \notin Updates /\ NoRows)
    /\ Holds
    /\ IF pc[d] = "stage"
         THEN /\ copied' = [copied EXCEPT ![d] = @ + 1]
              /\ pc'[d] = "stage" <=> copied[d] + 1 < scope.files
         ELSE UNCHANGED copied

TurnMove(d) ==
    /\ NoRows /\ Holds /\ UNCHANGED copied
    /\ \/ /\ \/ pc[d] \in {"probe", "apply", "ready", "connect", "reach",
                           "install", "auditUnready"}
             \/ pc[d] = "activate" /\ ~(ActiveRows \subseteq {mine[d]})
          /\ \E q \in Catching : CatchesAt(q) /\ Returns(d, q)
       \/ pc[d] = "ready" /\ Returns(d, "markUnready")
       \/ pc[d] = "undo" /\ Returns(d, "aborted")
       \/ /\ pc[d] = "recheck" /\ status[mine[d]] = "failed"
          /\ Returns(d, IF Wrapped(d) THEN "auditBackFail" ELSE "failed")

ErrorMove(d) ==
    /\ Active(d) /\ pc[d] \notin {"close", "closeFail"}
    /\ errors < scope.errors /\ errors' = errors + 1 /\ UNCHANGED killed
    /\ \E q \in Working \cup Ended : ErrorEdge(d, q) /\ Goto(d, q, FALSE)
    /\ \/ NoRows
       \/ RowCall(d)
       \/ pc[d] = "create" /\ \E r \in Rows : NewRow(d, r)
    /\ Holds /\ UNCHANGED copied

KillMove(d) ==
    /\ Active(d)
    /\ Goto(d, "killed", FALSE)
    /\ killed' = TRUE
    /\ NoRows /\ Holds /\ UNCHANGED <<copied, errors>>

Move(d) ==
    \/ BeginMove(d) \/ LookMove(d) \/ CreateMove(d) \/ CallMove(d)
    \/ TurnMove(d) \/ ErrorMove(d) \/ KillMove(d)

LEMMA K8sOrder ==
    ASSUME NEW d, NEW s,
           /\ Len(s) = 10
           /\ s[1] = "lookup" /\ s[2] = "create" /\ s[3] = "auditStart"
           /\ s[4] = "deploying" /\ s[5] = "apply" /\ s[6] = "ready"
           /\ s[7] = "supersede" /\ s[8] = "activate" /\ s[9] = "auditDone"
           /\ s[10] = "done"
    PROVE  /\ Follows(d, "lookup", s) = "create"
           /\ Follows(d, "create", s) = "auditStart"
           /\ Follows(d, "auditStart", s) = "deploying"
           /\ Follows(d, "deploying", s) = "apply"
           /\ Follows(d, "apply", s) = "ready"
           /\ Follows(d, "ready", s) = (IF prev[d] = None THEN "activate"
                ELSE "supersede")
           /\ Follows(d, "supersede", s) = "activate"
           /\ Follows(d, "activate", s) = "auditDone"
           /\ Follows(d, "auditDone", s) = "done"
           /\ \A p : InSeq(p, s) <=> p \in {"lookup", "create", "auditStart",
                "deploying", "apply", "ready", "supersede", "activate",
                "auditDone", "done"}
<1>1. \A i, j \in 1..Len(s) : s[j] = s[i] => j = i
  OBVIOUS
<1>2. \A i \in 1..Len(s) :
        Follows(d, s[i], s) = IF s[i + 1] = "supersede" /\ prev[d] = None
                                THEN s[i + 2] ELSE s[i + 1]
  <2> TAKE i \in 1..Len(s)
  <2>1. (CHOOSE j \in 1..Len(s) : s[j] = s[i]) = i
    BY <1>1
  <2> QED BY <2>1 DEF Follows
<1>3. /\ Follows(d, s[1], s) = s[2]
      /\ Follows(d, s[2], s) = s[3]
      /\ Follows(d, s[3], s) = s[4]
      /\ Follows(d, s[4], s) = s[5]
      /\ Follows(d, s[5], s) = s[6]
      /\ Follows(d, s[6], s) = (IF prev[d] = None THEN s[8] ELSE s[7])
      /\ Follows(d, s[7], s) = s[8]
      /\ Follows(d, s[8], s) = s[9]
      /\ Follows(d, s[9], s) = s[10]
  BY <1>2
<1>4. \A p : InSeq(p, s) <=> p \in {s[1], s[2], s[3], s[4], s[5], s[6], s[7],
          s[8], s[9], s[10]}
  BY DEF InSeq
<1> QED BY <1>3, <1>4

LEMMA K8sRuns ==
    ASSUME NEW d, scope.kind = "k8s", op[d] = "deploy"
    PROVE  /\ Follows(d, "lookup", Calls(d)) = "create"
           /\ Follows(d, "create", Calls(d)) = "auditStart"
           /\ Follows(d, "auditStart", Calls(d)) = "deploying"
           /\ Follows(d, "deploying", Calls(d)) = "apply"
           /\ Follows(d, "apply", Calls(d)) = "ready"
           /\ Follows(d, "ready", Calls(d)) = (IF prev[d] = None
                THEN "activate" ELSE "supersede")
           /\ Follows(d, "supersede", Calls(d)) = "activate"
           /\ Follows(d, "activate", Calls(d)) = "auditDone"
           /\ Follows(d, "auditDone", Calls(d)) = "done"
           /\ \A p : InSeq(p, Calls(d)) <=> p \in {"lookup", "create",
                "auditStart", "deploying", "apply", "ready", "supersede",
                "activate", "auditDone", "done"}
<1>1. /\ Len(Calls(d)) = 10
      /\ Calls(d)[1] = "lookup" /\ Calls(d)[2] = "create"
      /\ Calls(d)[3] = "auditStart" /\ Calls(d)[4] = "deploying"
      /\ Calls(d)[5] = "apply" /\ Calls(d)[6] = "ready"
      /\ Calls(d)[7] = "supersede" /\ Calls(d)[8] = "activate"
      /\ Calls(d)[9] = "auditDone" /\ Calls(d)[10] = "done"
  BY DEF Calls, Wrapped, IsCloud, K8sCalls, BeforeApply, Finalise
<1> QED BY <1>1, K8sOrder

LEMMA UndoOrder ==
    ASSUME NEW d, NEW s,
           /\ Len(s) = 5
           /\ s[1] = "lookup" /\ s[2] = "undo" /\ s[3] = "markBack"
           /\ s[4] = "auditBack" /\ s[5] = "done"
    PROVE  /\ Follows(d, "lookup", s) = "undo"
           /\ Follows(d, "undo", s) = "markBack"
           /\ Follows(d, "markBack", s) = "auditBack"
           /\ Follows(d, "auditBack", s) = "done"
           /\ \A p : InSeq(p, s) <=> p \in {"lookup", "undo", "markBack",
                "auditBack", "done"}
<1>1. \A i, j \in 1..Len(s) : s[j] = s[i] => j = i
  OBVIOUS
<1>2. \A i \in 1..Len(s) :
        Follows(d, s[i], s) = IF s[i + 1] = "supersede" /\ prev[d] = None
                                THEN s[i + 2] ELSE s[i + 1]
  <2> TAKE i \in 1..Len(s)
  <2>1. (CHOOSE j \in 1..Len(s) : s[j] = s[i]) = i
    BY <1>1
  <2> QED BY <2>1 DEF Follows
<1>3. /\ Follows(d, s[1], s) = s[2]
      /\ Follows(d, s[2], s) = s[3]
      /\ Follows(d, s[3], s) = s[4]
      /\ Follows(d, s[4], s) = s[5]
  BY <1>2
<1>4. \A p : InSeq(p, s) <=> p \in {s[1], s[2], s[3], s[4], s[5]}
  BY DEF InSeq
<1> QED BY <1>3, <1>4

LEMMA UndoRuns ==
    ASSUME NEW d, Undoing(d)
    PROVE  /\ Follows(d, "lookup", Calls(d)) = "undo"
           /\ Follows(d, "undo", Calls(d)) = "markBack"
           /\ Follows(d, "markBack", Calls(d)) = "auditBack"
           /\ Follows(d, "auditBack", Calls(d)) = "done"
           /\ \A p : InSeq(p, Calls(d)) <=> p \in {"lookup", "undo",
                "markBack", "auditBack", "done"}
<1>1. /\ Len(Calls(d)) = 5
      /\ Calls(d)[1] = "lookup" /\ Calls(d)[2] = "undo"
      /\ Calls(d)[3] = "markBack" /\ Calls(d)[4] = "auditBack"
      /\ Calls(d)[5] = "done"
  BY DEF Calls, Undoing, Wrapped, IsCloud, K8sUndo
<1> QED BY <1>1, UndoOrder

LEMMA CloudVmOrder ==
    ASSUME NEW d, NEW s,
           /\ Len(s) = 12
           /\ s[1] = "lookup" /\ s[2] = "create" /\ s[3] = "auditStart"
           /\ s[4] = "deploying" /\ s[5] = "connect" /\ s[6] = "reach"
           /\ s[7] = "install" /\ s[8] = "supersede" /\ s[9] = "activate"
           /\ s[10] = "auditDone" /\ s[11] = "close" /\ s[12] = "done"
    PROVE  /\ Follows(d, "lookup", s) = "create"
           /\ Follows(d, "create", s) = "auditStart"
           /\ Follows(d, "auditStart", s) = "deploying"
           /\ Follows(d, "deploying", s) = "connect"
           /\ Follows(d, "connect", s) = "reach"
           /\ Follows(d, "reach", s) = "install"
           /\ Follows(d, "install", s) = (IF prev[d] = None THEN "activate"
                ELSE "supersede")
           /\ Follows(d, "supersede", s) = "activate"
           /\ Follows(d, "activate", s) = "auditDone"
           /\ Follows(d, "auditDone", s) = "close"
           /\ Follows(d, "close", s) = "done"
           /\ \A p : InSeq(p, s) <=> p \in {"lookup", "create", "auditStart",
                "deploying", "connect", "reach", "install", "supersede",
                "activate", "auditDone", "close", "done"}
<1>1. \A i, j \in 1..Len(s) : s[j] = s[i] => j = i
  OBVIOUS
<1>2. \A i \in 1..Len(s) :
        Follows(d, s[i], s) = IF s[i + 1] = "supersede" /\ prev[d] = None
                                THEN s[i + 2] ELSE s[i + 1]
  <2> TAKE i \in 1..Len(s)
  <2>1. (CHOOSE j \in 1..Len(s) : s[j] = s[i]) = i
    BY <1>1
  <2> QED BY <2>1 DEF Follows
<1>3. /\ Follows(d, s[1], s) = s[2]
      /\ Follows(d, s[2], s) = s[3]
      /\ Follows(d, s[3], s) = s[4]
      /\ Follows(d, s[4], s) = s[5]
      /\ Follows(d, s[5], s) = s[6]
      /\ Follows(d, s[6], s) = s[7]
      /\ Follows(d, s[7], s) = (IF prev[d] = None THEN s[9] ELSE s[8])
      /\ Follows(d, s[8], s) = s[9]
      /\ Follows(d, s[9], s) = s[10]
      /\ Follows(d, s[10], s) = s[11]
      /\ Follows(d, s[11], s) = s[12]
  BY <1>2
<1>4. \A p : InSeq(p, s) <=> p \in {s[1], s[2], s[3], s[4], s[5], s[6], s[7],
          s[8], s[9], s[10], s[11], s[12]}
  BY DEF InSeq
<1> QED BY <1>3, <1>4

LEMMA CloudVmRuns ==
    ASSUME NEW d, scope.kind = "cloud_vm", ~Wrapped(d)
    PROVE  /\ Follows(d, "lookup", Calls(d)) = "create"
           /\ Follows(d, "create", Calls(d)) = "auditStart"
           /\ Follows(d, "auditStart", Calls(d)) = "deploying"
           /\ Follows(d, "deploying", Calls(d)) = "connect"
           /\ Follows(d, "connect", Calls(d)) = "reach"
           /\ Follows(d, "reach", Calls(d)) = "install"
           /\ Follows(d, "install", Calls(d)) = (IF prev[d] = None
                THEN "activate" ELSE "supersede")
           /\ Follows(d, "supersede", Calls(d)) = "activate"
           /\ Follows(d, "activate", Calls(d)) = "auditDone"
           /\ Follows(d, "auditDone", Calls(d)) = "close"
           /\ Follows(d, "close", Calls(d)) = "done"
           /\ \A p : InSeq(p, Calls(d)) <=> p \in {"lookup", "create",
                "auditStart", "deploying", "connect", "reach", "install",
                "supersede", "activate", "auditDone", "close", "done"}
<1>1. /\ Len(Calls(d)) = 12
      /\ Calls(d)[1] = "lookup" /\ Calls(d)[2] = "create"
      /\ Calls(d)[3] = "auditStart" /\ Calls(d)[4] = "deploying"
      /\ Calls(d)[5] = "connect" /\ Calls(d)[6] = "reach"
      /\ Calls(d)[7] = "install" /\ Calls(d)[8] = "supersede"
      /\ Calls(d)[9] = "activate" /\ Calls(d)[10] = "auditDone"
      /\ Calls(d)[11] = "close" /\ Calls(d)[12] = "done"
  BY DEF Calls, CloudVmCalls, BeforeApply, Finalise
<1> QED BY <1>1, CloudVmOrder

LEMMA CloudVmBackOrder ==
    ASSUME NEW d, NEW s,
           /\ Len(s) = 14
           /\ s[1] = "auditBegin" /\ s[2] = "lookup" /\ s[3] = "create"
           /\ s[4] = "auditStart" /\ s[5] = "deploying" /\ s[6] = "connect"
           /\ s[7] = "reach" /\ s[8] = "install" /\ s[9] = "supersede"
           /\ s[10] = "activate" /\ s[11] = "auditDone" /\ s[12] = "close"
           /\ s[13] = "auditBack" /\ s[14] = "done"
    PROVE  /\ Follows(d, "auditBegin", s) = "lookup"
           /\ Follows(d, "lookup", s) = "create"
           /\ Follows(d, "create", s) = "auditStart"
           /\ Follows(d, "auditStart", s) = "deploying"
           /\ Follows(d, "deploying", s) = "connect"
           /\ Follows(d, "connect", s) = "reach"
           /\ Follows(d, "reach", s) = "install"
           /\ Follows(d, "install", s) = (IF prev[d] = None THEN "activate"
                ELSE "supersede")
           /\ Follows(d, "supersede", s) = "activate"
           /\ Follows(d, "activate", s) = "auditDone"
           /\ Follows(d, "auditDone", s) = "close"
           /\ Follows(d, "close", s) = "auditBack"
           /\ Follows(d, "auditBack", s) = "done"
           /\ \A p : InSeq(p, s) <=> p \in {"auditBegin", "lookup", "create",
                "auditStart", "deploying", "connect", "reach", "install",
                "supersede", "activate", "auditDone", "close", "auditBack",
                "done"}
<1>1. \A i, j \in 1..Len(s) : s[j] = s[i] => j = i
  OBVIOUS
<1>2. \A i \in 1..Len(s) :
        Follows(d, s[i], s) = IF s[i + 1] = "supersede" /\ prev[d] = None
                                THEN s[i + 2] ELSE s[i + 1]
  <2> TAKE i \in 1..Len(s)
  <2>1. (CHOOSE j \in 1..Len(s) : s[j] = s[i]) = i
    BY <1>1
  <2> QED BY <2>1 DEF Follows
<1>3. /\ Follows(d, s[1], s) = s[2]
      /\ Follows(d, s[2], s) = s[3]
      /\ Follows(d, s[3], s) = s[4]
      /\ Follows(d, s[4], s) = s[5]
      /\ Follows(d, s[5], s) = s[6]
      /\ Follows(d, s[6], s) = s[7]
      /\ Follows(d, s[7], s) = s[8]
      /\ Follows(d, s[8], s) = (IF prev[d] = None THEN s[10] ELSE s[9])
      /\ Follows(d, s[9], s) = s[10]
      /\ Follows(d, s[10], s) = s[11]
      /\ Follows(d, s[11], s) = s[12]
      /\ Follows(d, s[12], s) = s[13]
      /\ Follows(d, s[13], s) = s[14]
  BY <1>2
<1>4. \A p : InSeq(p, s) <=> p \in {s[1], s[2], s[3], s[4], s[5], s[6], s[7],
          s[8], s[9], s[10], s[11], s[12], s[13], s[14]}
  BY DEF InSeq
<1> QED BY <1>3, <1>4

LEMMA CloudVmBackRuns ==
    ASSUME NEW d, scope.kind = "cloud_vm", Wrapped(d)
    PROVE  /\ Follows(d, "auditBegin", Calls(d)) = "lookup"
           /\ Follows(d, "lookup", Calls(d)) = "create"
           /\ Follows(d, "create", Calls(d)) = "auditStart"
           /\ Follows(d, "auditStart", Calls(d)) = "deploying"
           /\ Follows(d, "deploying", Calls(d)) = "connect"
           /\ Follows(d, "connect", Calls(d)) = "reach"
           /\ Follows(d, "reach", Calls(d)) = "install"
           /\ Follows(d, "install", Calls(d)) = (IF prev[d] = None
                THEN "activate" ELSE "supersede")
           /\ Follows(d, "supersede", Calls(d)) = "activate"
           /\ Follows(d, "activate", Calls(d)) = "auditDone"
           /\ Follows(d, "auditDone", Calls(d)) = "close"
           /\ Follows(d, "close", Calls(d)) = "auditBack"
           /\ Follows(d, "auditBack", Calls(d)) = "done"
           /\ \A p : InSeq(p, Calls(d)) <=> p \in {"auditBegin", "lookup",
                "create", "auditStart", "deploying", "connect", "reach",
                "install", "supersede", "activate", "auditDone", "close",
                "auditBack", "done"}
<1>1. /\ Len(Calls(d)) = 14
      /\ Calls(d)[1] = "auditBegin" /\ Calls(d)[2] = "lookup"
      /\ Calls(d)[3] = "create" /\ Calls(d)[4] = "auditStart"
      /\ Calls(d)[5] = "deploying" /\ Calls(d)[6] = "connect"
      /\ Calls(d)[7] = "reach" /\ Calls(d)[8] = "install"
      /\ Calls(d)[9] = "supersede" /\ Calls(d)[10] = "activate"
      /\ Calls(d)[11] = "auditDone" /\ Calls(d)[12] = "close"
      /\ Calls(d)[13] = "auditBack" /\ Calls(d)[14] = "done"
  BY DEF Calls, RollbackCalls, CloudVmCalls, BeforeApply, Finalise
<1> QED BY <1>1, CloudVmBackOrder

LEMMA StackOrder ==
    ASSUME NEW d, NEW s,
           /\ Len(s) = 9
           /\ s[1] = "lookup" /\ s[2] = "create" /\ s[3] = "auditStart"
           /\ s[4] = "deploying" /\ s[5] = "apply" /\ s[6] = "supersede"
           /\ s[7] = "activate" /\ s[8] = "auditDone" /\ s[9] = "done"
    PROVE  /\ Follows(d, "lookup", s) = "create"
           /\ Follows(d, "create", s) = "auditStart"
           /\ Follows(d, "auditStart", s) = "deploying"
           /\ Follows(d, "deploying", s) = "apply"
           /\ Follows(d, "apply", s) = (IF prev[d] = None THEN "activate"
                ELSE "supersede")
           /\ Follows(d, "supersede", s) = "activate"
           /\ Follows(d, "activate", s) = "auditDone"
           /\ Follows(d, "auditDone", s) = "done"
           /\ \A p : InSeq(p, s) <=> p \in {"lookup", "create", "auditStart",
                "deploying", "apply", "supersede", "activate", "auditDone",
                "done"}
<1>1. \A i, j \in 1..Len(s) : s[j] = s[i] => j = i
  OBVIOUS
<1>2. \A i \in 1..Len(s) :
        Follows(d, s[i], s) = IF s[i + 1] = "supersede" /\ prev[d] = None
                                THEN s[i + 2] ELSE s[i + 1]
  <2> TAKE i \in 1..Len(s)
  <2>1. (CHOOSE j \in 1..Len(s) : s[j] = s[i]) = i
    BY <1>1
  <2> QED BY <2>1 DEF Follows
<1>3. /\ Follows(d, s[1], s) = s[2]
      /\ Follows(d, s[2], s) = s[3]
      /\ Follows(d, s[3], s) = s[4]
      /\ Follows(d, s[4], s) = s[5]
      /\ Follows(d, s[5], s) = (IF prev[d] = None THEN s[7] ELSE s[6])
      /\ Follows(d, s[6], s) = s[7]
      /\ Follows(d, s[7], s) = s[8]
      /\ Follows(d, s[8], s) = s[9]
  BY <1>2
<1>4. \A p : InSeq(p, s) <=> p \in {s[1], s[2], s[3], s[4], s[5], s[6], s[7],
          s[8], s[9]}
  BY DEF InSeq
<1> QED BY <1>3, <1>4

LEMMA StackRuns ==
    ASSUME NEW d, scope.kind = "cloud_stack", ~Wrapped(d)
    PROVE  /\ Follows(d, "lookup", Calls(d)) = "create"
           /\ Follows(d, "create", Calls(d)) = "auditStart"
           /\ Follows(d, "auditStart", Calls(d)) = "deploying"
           /\ Follows(d, "deploying", Calls(d)) = "apply"
           /\ Follows(d, "apply", Calls(d)) = (IF prev[d] = None
                THEN "activate" ELSE "supersede")
           /\ Follows(d, "supersede", Calls(d)) = "activate"
           /\ Follows(d, "activate", Calls(d)) = "auditDone"
           /\ Follows(d, "auditDone", Calls(d)) = "done"
           /\ \A p : InSeq(p, Calls(d)) <=> p \in {"lookup", "create",
                "auditStart", "deploying", "apply", "supersede", "activate",
                "auditDone", "done"}
<1>1. /\ Len(Calls(d)) = 9
      /\ Calls(d)[1] = "lookup" /\ Calls(d)[2] = "create"
      /\ Calls(d)[3] = "auditStart" /\ Calls(d)[4] = "deploying"
      /\ Calls(d)[5] = "apply" /\ Calls(d)[6] = "supersede"
      /\ Calls(d)[7] = "activate" /\ Calls(d)[8] = "auditDone"
      /\ Calls(d)[9] = "done"
  BY DEF Calls, CloudStackCalls, BeforeApply, Finalise
<1> QED BY <1>1, StackOrder

LEMMA StackBackOrder ==
    ASSUME NEW d, NEW s,
           /\ Len(s) = 11
           /\ s[1] = "auditBegin" /\ s[2] = "lookup" /\ s[3] = "create"
           /\ s[4] = "auditStart" /\ s[5] = "deploying" /\ s[6] = "apply"
           /\ s[7] = "supersede" /\ s[8] = "activate" /\ s[9] = "auditDone"
           /\ s[10] = "auditBack" /\ s[11] = "done"
    PROVE  /\ Follows(d, "auditBegin", s) = "lookup"
           /\ Follows(d, "lookup", s) = "create"
           /\ Follows(d, "create", s) = "auditStart"
           /\ Follows(d, "auditStart", s) = "deploying"
           /\ Follows(d, "deploying", s) = "apply"
           /\ Follows(d, "apply", s) = (IF prev[d] = None THEN "activate"
                ELSE "supersede")
           /\ Follows(d, "supersede", s) = "activate"
           /\ Follows(d, "activate", s) = "auditDone"
           /\ Follows(d, "auditDone", s) = "auditBack"
           /\ Follows(d, "auditBack", s) = "done"
           /\ \A p : InSeq(p, s) <=> p \in {"auditBegin", "lookup", "create",
                "auditStart", "deploying", "apply", "supersede", "activate",
                "auditDone", "auditBack", "done"}
<1>1. \A i, j \in 1..Len(s) : s[j] = s[i] => j = i
  OBVIOUS
<1>2. \A i \in 1..Len(s) :
        Follows(d, s[i], s) = IF s[i + 1] = "supersede" /\ prev[d] = None
                                THEN s[i + 2] ELSE s[i + 1]
  <2> TAKE i \in 1..Len(s)
  <2>1. (CHOOSE j \in 1..Len(s) : s[j] = s[i]) = i
    BY <1>1
  <2> QED BY <2>1 DEF Follows
<1>3. /\ Follows(d, s[1], s) = s[2]
      /\ Follows(d, s[2], s) = s[3]
      /\ Follows(d, s[3], s) = s[4]
      /\ Follows(d, s[4], s) = s[5]
      /\ Follows(d, s[5], s) = s[6]
      /\ Follows(d, s[6], s) = (IF prev[d] = None THEN s[8] ELSE s[7])
      /\ Follows(d, s[7], s) = s[8]
      /\ Follows(d, s[8], s) = s[9]
      /\ Follows(d, s[9], s) = s[10]
      /\ Follows(d, s[10], s) = s[11]
  BY <1>2
<1>4. \A p : InSeq(p, s) <=> p \in {s[1], s[2], s[3], s[4], s[5], s[6], s[7],
          s[8], s[9], s[10], s[11]}
  BY DEF InSeq
<1> QED BY <1>3, <1>4

LEMMA StackBackRuns ==
    ASSUME NEW d, scope.kind = "cloud_stack", Wrapped(d)
    PROVE  /\ Follows(d, "auditBegin", Calls(d)) = "lookup"
           /\ Follows(d, "lookup", Calls(d)) = "create"
           /\ Follows(d, "create", Calls(d)) = "auditStart"
           /\ Follows(d, "auditStart", Calls(d)) = "deploying"
           /\ Follows(d, "deploying", Calls(d)) = "apply"
           /\ Follows(d, "apply", Calls(d)) = (IF prev[d] = None
                THEN "activate" ELSE "supersede")
           /\ Follows(d, "supersede", Calls(d)) = "activate"
           /\ Follows(d, "activate", Calls(d)) = "auditDone"
           /\ Follows(d, "auditDone", Calls(d)) = "auditBack"
           /\ Follows(d, "auditBack", Calls(d)) = "done"
           /\ \A p : InSeq(p, Calls(d)) <=> p \in {"auditBegin", "lookup",
                "create", "auditStart", "deploying", "apply", "supersede",
                "activate", "auditDone", "auditBack", "done"}
<1>1. /\ Len(Calls(d)) = 11
      /\ Calls(d)[1] = "auditBegin" /\ Calls(d)[2] = "lookup"
      /\ Calls(d)[3] = "create" /\ Calls(d)[4] = "auditStart"
      /\ Calls(d)[5] = "deploying" /\ Calls(d)[6] = "apply"
      /\ Calls(d)[7] = "supersede" /\ Calls(d)[8] = "activate"
      /\ Calls(d)[9] = "auditDone" /\ Calls(d)[10] = "auditBack"
      /\ Calls(d)[11] = "done"
  BY DEF Calls, RollbackCalls, CloudStackCalls, BeforeApply, Finalise
<1> QED BY <1>1, StackBackOrder

LEMMA K8sCatchOrder ==
    ASSUME NEW d, NEW s,
           /\ Len(s) = 4
           /\ s[1] = "recheck" /\ s[2] = "markFailed" /\ s[3] = "auditFail"
           /\ s[4] = "failed"
    PROVE  /\ Follows(d, "recheck", s) = "markFailed"
           /\ Follows(d, "markFailed", s) = "auditFail"
           /\ Follows(d, "auditFail", s) = "failed"
           /\ \A p : InSeq(p, s) <=> p \in {"recheck", "markFailed",
                "auditFail", "failed"}
<1>1. \A i, j \in 1..Len(s) : s[j] = s[i] => j = i
  OBVIOUS
<1>2. \A i \in 1..Len(s) :
        Follows(d, s[i], s) = IF s[i + 1] = "supersede" /\ prev[d] = None
                                THEN s[i + 2] ELSE s[i + 1]
  <2> TAKE i \in 1..Len(s)
  <2>1. (CHOOSE j \in 1..Len(s) : s[j] = s[i]) = i
    BY <1>1
  <2> QED BY <2>1 DEF Follows
<1>3. /\ Follows(d, s[1], s) = s[2]
      /\ Follows(d, s[2], s) = s[3]
      /\ Follows(d, s[3], s) = s[4]
  BY <1>2
<1>4. \A p : InSeq(p, s) <=> p \in {s[1], s[2], s[3], s[4]}
  BY DEF InSeq
<1> QED BY <1>3, <1>4

LEMMA K8sCatches ==
    ASSUME NEW d, scope.kind = "k8s"
    PROVE  /\ Follows(d, "recheck", Catch(d)) = "markFailed"
           /\ Follows(d, "markFailed", Catch(d)) = "auditFail"
           /\ Follows(d, "auditFail", Catch(d)) = "failed"
           /\ \A p : InSeq(p, Catch(d)) <=> p \in {"recheck", "markFailed",
                "auditFail", "failed"}
           /\ Catch(d)[1] = "recheck"
<1>1. /\ Len(Catch(d)) = 4
      /\ Catch(d)[1] = "recheck" /\ Catch(d)[2] = "markFailed"
      /\ Catch(d)[3] = "auditFail" /\ Catch(d)[4] = "failed"
  BY DEF Catch, Wrapped, IsCloud, K8sCatch, RecordFail
<1> QED BY <1>1, K8sCatchOrder

LEMMA CloudVmCatchOrder ==
    ASSUME NEW d, NEW s,
           /\ Len(s) = 5
           /\ s[1] = "closeFail" /\ s[2] = "recheck" /\ s[3] = "markFailed"
           /\ s[4] = "auditFail" /\ s[5] = "failed"
    PROVE  /\ Follows(d, "closeFail", s) = "recheck"
           /\ Follows(d, "recheck", s) = "markFailed"
           /\ Follows(d, "markFailed", s) = "auditFail"
           /\ Follows(d, "auditFail", s) = "failed"
           /\ \A p : InSeq(p, s) <=> p \in {"closeFail", "recheck",
                "markFailed", "auditFail", "failed"}
<1>1. \A i, j \in 1..Len(s) : s[j] = s[i] => j = i
  OBVIOUS
<1>2. \A i \in 1..Len(s) :
        Follows(d, s[i], s) = IF s[i + 1] = "supersede" /\ prev[d] = None
                                THEN s[i + 2] ELSE s[i + 1]
  <2> TAKE i \in 1..Len(s)
  <2>1. (CHOOSE j \in 1..Len(s) : s[j] = s[i]) = i
    BY <1>1
  <2> QED BY <2>1 DEF Follows
<1>3. /\ Follows(d, s[1], s) = s[2]
      /\ Follows(d, s[2], s) = s[3]
      /\ Follows(d, s[3], s) = s[4]
      /\ Follows(d, s[4], s) = s[5]
  BY <1>2
<1>4. \A p : InSeq(p, s) <=> p \in {s[1], s[2], s[3], s[4], s[5]}
  BY DEF InSeq
<1> QED BY <1>3, <1>4

LEMMA CloudVmCatches ==
    ASSUME NEW d, scope.kind = "cloud_vm", ~Wrapped(d)
    PROVE  /\ Follows(d, "closeFail", Catch(d)) = "recheck"
           /\ Follows(d, "recheck", Catch(d)) = "markFailed"
           /\ Follows(d, "markFailed", Catch(d)) = "auditFail"
           /\ Follows(d, "auditFail", Catch(d)) = "failed"
           /\ \A p : InSeq(p, Catch(d)) <=> p \in {"closeFail", "recheck",
                "markFailed", "auditFail", "failed"}
           /\ Catch(d)[1] = "closeFail"
<1>1. /\ Len(Catch(d)) = 5
      /\ Catch(d)[1] = "closeFail" /\ Catch(d)[2] = "recheck"
      /\ Catch(d)[3] = "markFailed" /\ Catch(d)[4] = "auditFail"
      /\ Catch(d)[5] = "failed"
  BY DEF Catch, CloudVmCatch, RecordFail
<1> QED BY <1>1, CloudVmCatchOrder

LEMMA CloudVmBackCatchOrder ==
    ASSUME NEW d, NEW s,
           /\ Len(s) = 6
           /\ s[1] = "closeFail" /\ s[2] = "recheck" /\ s[3] = "markFailed"
           /\ s[4] = "auditFail" /\ s[5] = "auditBackFail" /\ s[6] = "failed"
    PROVE  /\ Follows(d, "closeFail", s) = "recheck"
           /\ Follows(d, "recheck", s) = "markFailed"
           /\ Follows(d, "markFailed", s) = "auditFail"
           /\ Follows(d, "auditFail", s) = "auditBackFail"
           /\ Follows(d, "auditBackFail", s) = "failed"
           /\ \A p : InSeq(p, s) <=> p \in {"closeFail", "recheck",
                "markFailed", "auditFail", "auditBackFail", "failed"}
<1>1. \A i, j \in 1..Len(s) : s[j] = s[i] => j = i
  OBVIOUS
<1>2. \A i \in 1..Len(s) :
        Follows(d, s[i], s) = IF s[i + 1] = "supersede" /\ prev[d] = None
                                THEN s[i + 2] ELSE s[i + 1]
  <2> TAKE i \in 1..Len(s)
  <2>1. (CHOOSE j \in 1..Len(s) : s[j] = s[i]) = i
    BY <1>1
  <2> QED BY <2>1 DEF Follows
<1>3. /\ Follows(d, s[1], s) = s[2]
      /\ Follows(d, s[2], s) = s[3]
      /\ Follows(d, s[3], s) = s[4]
      /\ Follows(d, s[4], s) = s[5]
      /\ Follows(d, s[5], s) = s[6]
  BY <1>2
<1>4. \A p : InSeq(p, s) <=> p \in {s[1], s[2], s[3], s[4], s[5], s[6]}
  BY DEF InSeq
<1> QED BY <1>3, <1>4

LEMMA CloudVmBackCatches ==
    ASSUME NEW d, scope.kind = "cloud_vm", Wrapped(d)
    PROVE  /\ Follows(d, "closeFail", Catch(d)) = "recheck"
           /\ Follows(d, "recheck", Catch(d)) = "markFailed"
           /\ Follows(d, "markFailed", Catch(d)) = "auditFail"
           /\ Follows(d, "auditFail", Catch(d)) = "auditBackFail"
           /\ Follows(d, "auditBackFail", Catch(d)) = "failed"
           /\ \A p : InSeq(p, Catch(d)) <=> p \in {"closeFail", "recheck",
                "markFailed", "auditFail", "auditBackFail", "failed"}
           /\ Catch(d)[1] = "closeFail"
<1>1. /\ Len(Catch(d)) = 6
      /\ Catch(d)[1] = "closeFail" /\ Catch(d)[2] = "recheck"
      /\ Catch(d)[3] = "markFailed" /\ Catch(d)[4] = "auditFail"
      /\ Catch(d)[5] = "auditBackFail" /\ Catch(d)[6] = "failed"
  BY DEF Catch, RollbackCatch, CloudVmCatch, RecordFail
<1> QED BY <1>1, CloudVmBackCatchOrder

LEMMA StackCatchOrder ==
    ASSUME NEW d, NEW s,
           /\ Len(s) = 5
           /\ s[1] = "failCheck" /\ s[2] = "recheck" /\ s[3] = "markFailed"
           /\ s[4] = "auditFail" /\ s[5] = "failed"
    PROVE  /\ Follows(d, "failCheck", s) = "recheck"
           /\ Follows(d, "recheck", s) = "markFailed"
           /\ Follows(d, "markFailed", s) = "auditFail"
           /\ Follows(d, "auditFail", s) = "failed"
           /\ \A p : InSeq(p, s) <=> p \in {"failCheck", "recheck",
                "markFailed", "auditFail", "failed"}
<1>1. \A i, j \in 1..Len(s) : s[j] = s[i] => j = i
  OBVIOUS
<1>2. \A i \in 1..Len(s) :
        Follows(d, s[i], s) = IF s[i + 1] = "supersede" /\ prev[d] = None
                                THEN s[i + 2] ELSE s[i + 1]
  <2> TAKE i \in 1..Len(s)
  <2>1. (CHOOSE j \in 1..Len(s) : s[j] = s[i]) = i
    BY <1>1
  <2> QED BY <2>1 DEF Follows
<1>3. /\ Follows(d, s[1], s) = s[2]
      /\ Follows(d, s[2], s) = s[3]
      /\ Follows(d, s[3], s) = s[4]
      /\ Follows(d, s[4], s) = s[5]
  BY <1>2
<1>4. \A p : InSeq(p, s) <=> p \in {s[1], s[2], s[3], s[4], s[5]}
  BY DEF InSeq
<1> QED BY <1>3, <1>4

LEMMA StackCatches ==
    ASSUME NEW d, scope.kind = "cloud_stack", ~Wrapped(d)
    PROVE  /\ Follows(d, "failCheck", Catch(d)) = "recheck"
           /\ Follows(d, "recheck", Catch(d)) = "markFailed"
           /\ Follows(d, "markFailed", Catch(d)) = "auditFail"
           /\ Follows(d, "auditFail", Catch(d)) = "failed"
           /\ \A p : InSeq(p, Catch(d)) <=> p \in {"failCheck", "recheck",
                "markFailed", "auditFail", "failed"}
           /\ Catch(d)[1] = "failCheck"
<1>1. /\ Len(Catch(d)) = 5
      /\ Catch(d)[1] = "failCheck" /\ Catch(d)[2] = "recheck"
      /\ Catch(d)[3] = "markFailed" /\ Catch(d)[4] = "auditFail"
      /\ Catch(d)[5] = "failed"
  BY DEF Catch, CloudStackCatch, RecordFail
<1> QED BY <1>1, StackCatchOrder

LEMMA StackBackCatchOrder ==
    ASSUME NEW d, NEW s,
           /\ Len(s) = 6
           /\ s[1] = "failCheck" /\ s[2] = "recheck" /\ s[3] = "markFailed"
           /\ s[4] = "auditFail" /\ s[5] = "auditBackFail" /\ s[6] = "failed"
    PROVE  /\ Follows(d, "failCheck", s) = "recheck"
           /\ Follows(d, "recheck", s) = "markFailed"
           /\ Follows(d, "markFailed", s) = "auditFail"
           /\ Follows(d, "auditFail", s) = "auditBackFail"
           /\ Follows(d, "auditBackFail", s) = "failed"
           /\ \A p : InSeq(p, s) <=> p \in {"failCheck", "recheck",
                "markFailed", "auditFail", "auditBackFail", "failed"}
<1>1. \A i, j \in 1..Len(s) : s[j] = s[i] => j = i
  OBVIOUS
<1>2. \A i \in 1..Len(s) :
        Follows(d, s[i], s) = IF s[i + 1] = "supersede" /\ prev[d] = None
                                THEN s[i + 2] ELSE s[i + 1]
  <2> TAKE i \in 1..Len(s)
  <2>1. (CHOOSE j \in 1..Len(s) : s[j] = s[i]) = i
    BY <1>1
  <2> QED BY <2>1 DEF Follows
<1>3. /\ Follows(d, s[1], s) = s[2]
      /\ Follows(d, s[2], s) = s[3]
      /\ Follows(d, s[3], s) = s[4]
      /\ Follows(d, s[4], s) = s[5]
      /\ Follows(d, s[5], s) = s[6]
  BY <1>2
<1>4. \A p : InSeq(p, s) <=> p \in {s[1], s[2], s[3], s[4], s[5], s[6]}
  BY DEF InSeq
<1> QED BY <1>3, <1>4

LEMMA StackBackCatches ==
    ASSUME NEW d, scope.kind = "cloud_stack", Wrapped(d)
    PROVE  /\ Follows(d, "failCheck", Catch(d)) = "recheck"
           /\ Follows(d, "recheck", Catch(d)) = "markFailed"
           /\ Follows(d, "markFailed", Catch(d)) = "auditFail"
           /\ Follows(d, "auditFail", Catch(d)) = "auditBackFail"
           /\ Follows(d, "auditBackFail", Catch(d)) = "failed"
           /\ \A p : InSeq(p, Catch(d)) <=> p \in {"failCheck", "recheck",
                "markFailed", "auditFail", "auditBackFail", "failed"}
           /\ Catch(d)[1] = "failCheck"
<1>1. /\ Len(Catch(d)) = 6
      /\ Catch(d)[1] = "failCheck" /\ Catch(d)[2] = "recheck"
      /\ Catch(d)[3] = "markFailed" /\ Catch(d)[4] = "auditFail"
      /\ Catch(d)[5] = "auditBackFail" /\ Catch(d)[6] = "failed"
  BY DEF Catch, RollbackCatch, CloudStackCatch, RecordFail
<1> QED BY <1>1, StackBackCatchOrder

\* The place that follows pc[d] in the adapter's calls.
After(d) == Follows(d, pc[d], IF InSeq(pc[d], Catch(d)) THEN Catch(d)
                                                        ELSE Calls(d))

\* The sequences of calls lead from place to place as Edge says.
LEMMA RemoteFlow ==
    ASSUME NEW d, scope.kind \in Kinds \ {"vm"},
           op[d] \in {"deploy", "rollback"}, PlaceOK(d)
    PROVE  /\ pc[d] \notin {"markUnready", "auditUnready"} => Edge(d, After(d))
           /\ CatchesAt(Catch(d)[1])
           /\ ~Undoing(d) =>
                Leaves(d, "auditBackFail", Follows(d, "auditFail", Catch(d)),
                       "failed")
           /\ InSeq("undo", Calls(d)) <=> Undoing(d)
<1>1. InSeq(pc[d], Catch(d)) => After(d) = Follows(d, pc[d], Catch(d))
  BY DEF After
<1>2. ~InSeq(pc[d], Catch(d)) => After(d) = Follows(d, pc[d], Calls(d))
  BY DEF After
<1>3. CASE scope.kind = "k8s" /\ op[d] = "deploy"
  <2>1. /\ pc[d] = "lookup" => After(d) = "create"
        /\ pc[d] = "create" => After(d) = "auditStart"
        /\ pc[d] = "auditStart" => After(d) = "deploying"
        /\ pc[d] = "deploying" => After(d) = "apply"
        /\ pc[d] = "apply" => After(d) = "ready"
        /\ pc[d] = "ready" => After(d) = (IF prev[d] = None THEN "activate"
             ELSE "supersede")
        /\ pc[d] = "supersede" => After(d) = "activate"
        /\ pc[d] = "activate" => After(d) = "auditDone"
        /\ pc[d] = "auditDone" => After(d) = "done"
        /\ pc[d] = "recheck" => After(d) = "markFailed"
        /\ pc[d] = "markFailed" => After(d) = "auditFail"
        /\ pc[d] = "auditFail" => After(d) = "failed"
    BY <1>1, <1>2, <1>3, K8sRuns, K8sCatches DEF Undoing
  <2>2. pc[d] \in {"lookup", "create", "auditStart", "deploying", "apply",
                "ready", "supersede", "activate", "auditDone", "recheck",
                "markFailed", "auditFail", "markUnready", "auditUnready"}
    BY <1>3 DEF PlaceOK, Shared, Around, Undoing, Wrapped, IsCloud
  <2>3. pc[d] \notin {"markUnready", "auditUnready"} => Edge(d, After(d))
    BY <1>3, <2>1, <2>2 DEF Edge, Leaves, Undoing, Wrapped, IsCloud
  <2> QED BY <1>3, <2>3, K8sRuns, K8sCatches
          DEF CatchesAt, Leaves, Undoing, Wrapped, IsCloud
<1>4. CASE Undoing(d)
  <2>1. /\ pc[d] = "lookup" => After(d) = "undo"
        /\ pc[d] = "undo" => After(d) = "markBack"
        /\ pc[d] = "markBack" => After(d) = "auditBack"
        /\ pc[d] = "auditBack" => After(d) = "done"
    BY <1>1, <1>2, <1>4, UndoRuns, K8sCatches DEF Undoing
  <2>2. pc[d] \in {"lookup", "undo", "markBack", "auditBack"}
    BY <1>4 DEF PlaceOK, Shared, Around, Undoing, Wrapped, IsCloud
  <2>3. Edge(d, After(d))
    BY <1>4, <2>1, <2>2 DEF Edge, Leaves, Undoing, Wrapped, IsCloud
  <2> QED BY <1>4, <2>3, UndoRuns, K8sCatches
          DEF CatchesAt, Leaves, Undoing, Wrapped, IsCloud
<1>5. CASE scope.kind = "cloud_vm" /\ ~Wrapped(d)
  <2>1. /\ pc[d] = "lookup" => After(d) = "create"
        /\ pc[d] = "create" => After(d) = "auditStart"
        /\ pc[d] = "auditStart" => After(d) = "deploying"
        /\ pc[d] = "deploying" => After(d) = "connect"
        /\ pc[d] = "connect" => After(d) = "reach"
        /\ pc[d] = "reach" => After(d) = "install"
        /\ pc[d] = "install" => After(d) = (IF prev[d] = None THEN "activate"
             ELSE "supersede")
        /\ pc[d] = "supersede" => After(d) = "activate"
        /\ pc[d] = "activate" => After(d) = "auditDone"
        /\ pc[d] = "auditDone" => After(d) = "close"
        /\ pc[d] = "close" => After(d) = "done"
        /\ pc[d] = "closeFail" => After(d) = "recheck"
        /\ pc[d] = "recheck" => After(d) = "markFailed"
        /\ pc[d] = "markFailed" => After(d) = "auditFail"
        /\ pc[d] = "auditFail" => After(d) = "failed"
    BY <1>1, <1>2, <1>5, CloudVmRuns, CloudVmCatches DEF Undoing
  <2>2. pc[d] \in {"lookup", "create", "auditStart", "deploying", "connect",
                "reach", "install", "supersede", "activate", "auditDone",
                "close", "closeFail", "recheck", "markFailed", "auditFail"}
    BY <1>5 DEF PlaceOK, Shared, Around, Undoing, Wrapped, IsCloud
  <2>3. Edge(d, After(d))
    BY <1>5, <2>1, <2>2 DEF Edge, Leaves, Undoing, Wrapped, IsCloud
  <2> QED BY <1>5, <2>3, CloudVmRuns, CloudVmCatches
          DEF CatchesAt, Leaves, Undoing, Wrapped, IsCloud
<1>6. CASE scope.kind = "cloud_vm" /\ Wrapped(d)
  <2>1. /\ pc[d] = "auditBegin" => After(d) = "lookup"
        /\ pc[d] = "lookup" => After(d) = "create"
        /\ pc[d] = "create" => After(d) = "auditStart"
        /\ pc[d] = "auditStart" => After(d) = "deploying"
        /\ pc[d] = "deploying" => After(d) = "connect"
        /\ pc[d] = "connect" => After(d) = "reach"
        /\ pc[d] = "reach" => After(d) = "install"
        /\ pc[d] = "install" => After(d) = (IF prev[d] = None THEN "activate"
             ELSE "supersede")
        /\ pc[d] = "supersede" => After(d) = "activate"
        /\ pc[d] = "activate" => After(d) = "auditDone"
        /\ pc[d] = "auditDone" => After(d) = "close"
        /\ pc[d] = "close" => After(d) = "auditBack"
        /\ pc[d] = "auditBack" => After(d) = "done"
        /\ pc[d] = "closeFail" => After(d) = "recheck"
        /\ pc[d] = "recheck" => After(d) = "markFailed"
        /\ pc[d] = "markFailed" => After(d) = "auditFail"
        /\ pc[d] = "auditFail" => After(d) = "auditBackFail"
        /\ pc[d] = "auditBackFail" => After(d) = "failed"
    BY <1>1, <1>2, <1>6, CloudVmBackRuns, CloudVmBackCatches DEF Undoing
  <2>2. pc[d] \in {"auditBegin", "lookup", "create", "auditStart",
                "deploying", "connect", "reach", "install", "supersede",
                "activate", "auditDone", "close", "auditBack", "closeFail",
                "recheck", "markFailed", "auditFail", "auditBackFail"}
    BY <1>6 DEF PlaceOK, Shared, Around, Undoing, Wrapped, IsCloud
  <2>3. Edge(d, After(d))
    BY <1>6, <2>1, <2>2 DEF Edge, Leaves, Undoing, Wrapped, IsCloud
  <2> QED BY <1>6, <2>3, CloudVmBackRuns, CloudVmBackCatches
          DEF CatchesAt, Leaves, Undoing, Wrapped, IsCloud
<1>7. CASE scope.kind = "cloud_stack" /\ ~Wrapped(d)
  <2>1. /\ pc[d] = "lookup" => After(d) = "create"
        /\ pc[d] = "create" => After(d) = "auditStart"
        /\ pc[d] = "auditStart" => After(d) = "deploying"
        /\ pc[d] = "deploying" => After(d) = "apply"
        /\ pc[d] = "apply" => After(d) = (IF prev[d] = None THEN "activate"
             ELSE "supersede")
        /\ pc[d] = "supersede" => After(d) = "activate"
        /\ pc[d] = "activate" => After(d) = "auditDone"
        /\ pc[d] = "auditDone" => After(d) = "done"
        /\ pc[d] = "failCheck" => After(d) = "recheck"
        /\ pc[d] = "recheck" => After(d) = "markFailed"
        /\ pc[d] = "markFailed" => After(d) = "auditFail"
        /\ pc[d] = "auditFail" => After(d) = "failed"
    BY <1>1, <1>2, <1>7, StackRuns, StackCatches DEF Undoing
  <2>2. pc[d] \in {"lookup", "create", "auditStart", "deploying", "apply",
                "supersede", "activate", "auditDone", "failCheck",
                "recheck", "markFailed", "auditFail"}
    BY <1>7 DEF PlaceOK, Shared, Around, Undoing, Wrapped, IsCloud
  <2>3. Edge(d, After(d))
    BY <1>7, <2>1, <2>2 DEF Edge, Leaves, Undoing, Wrapped, IsCloud
  <2> QED BY <1>7, <2>3, StackRuns, StackCatches
          DEF CatchesAt, Leaves, Undoing, Wrapped, IsCloud
<1>8. CASE scope.kind = "cloud_stack" /\ Wrapped(d)
  <2>1. /\ pc[d] = "auditBegin" => After(d) = "lookup"
        /\ pc[d] = "lookup" => After(d) = "create"
        /\ pc[d] = "create" => After(d) = "auditStart"
        /\ pc[d] = "auditStart" => After(d) = "deploying"
        /\ pc[d] = "deploying" => After(d) = "apply"
        /\ pc[d] = "apply" => After(d) = (IF prev[d] = None THEN "activate"
             ELSE "supersede")
        /\ pc[d] = "supersede" => After(d) = "activate"
        /\ pc[d] = "activate" => After(d) = "auditDone"
        /\ pc[d] = "auditDone" => After(d) = "auditBack"
        /\ pc[d] = "auditBack" => After(d) = "done"
        /\ pc[d] = "failCheck" => After(d) = "recheck"
        /\ pc[d] = "recheck" => After(d) = "markFailed"
        /\ pc[d] = "markFailed" => After(d) = "auditFail"
        /\ pc[d] = "auditFail" => After(d) = "auditBackFail"
        /\ pc[d] = "auditBackFail" => After(d) = "failed"
    BY <1>1, <1>2, <1>8, StackBackRuns, StackBackCatches DEF Undoing
  <2>2. pc[d] \in {"auditBegin", "lookup", "create", "auditStart",
                "deploying", "apply", "supersede", "activate", "auditDone",
                "auditBack", "failCheck", "recheck", "markFailed",
                "auditFail", "auditBackFail"}
    BY <1>8 DEF PlaceOK, Shared, Around, Undoing, Wrapped, IsCloud
  <2>3. Edge(d, After(d))
    BY <1>8, <2>1, <2>2 DEF Edge, Leaves, Undoing, Wrapped, IsCloud
  <2> QED BY <1>8, <2>3, StackBackRuns, StackBackCatches
          DEF CatchesAt, Leaves, Undoing, Wrapped, IsCloud
<1> QED BY <1>3, <1>4, <1>5, <1>6, <1>7, <1>8 DEF Kinds, Undoing

-----------------------------------------------------------------------------
\* The facts of the invariant a step of d starts from.
LEMMA InvOf ==
    ASSUME RowInv, NEW d \in scope.deployers
    PROVE  /\ d \in Deployers
           /\ HeldOK(d) /\ FateOK(d) /\ AloneOK(d)
           /\ scope.kind \in Kinds /\ scope.releases \subseteq Releases
           /\ op[d] \in {"deploy", "rollback"}
           /\ Active(d) => PlaceOK(d)
  BY DEF RowInv, TypesOK, TypeOK, HeldOK

\* A call for a release, or one that is refused at once.
LEMMA BeginIsMove ==
    ASSUME NEW d, NEW o \in {"deploy", "rollback"}, ~Active(d),
           NoRows, UNCHANGED <<errors, killed>>,
           \/ Blocked(d, o)
           \/ \E x \in Releases \cup {NoRel} :
                /\ x \in Releases \/ (scope.kind = "k8s" /\ o = "rollback")
                /\ Start(d, o, x, IF IsCloud /\ o = "rollback"
                                    THEN "auditBegin" ELSE "lookup")
    PROVE  BeginMove(d)
<1>1. CASE Blocked(d, o)
  BY <1>1 DEF Blocked, BeginMove, callVars
<1>2. ASSUME NEW x \in Releases \cup {NoRel},
             x \in Releases \/ (scope.kind = "k8s" /\ o = "rollback"),
             Start(d, o, x, IF IsCloud /\ o = "rollback"
                              THEN "auditBegin" ELSE "lookup")
      PROVE  BeginMove(d)
  BY <1>2 DEF Start, BeginMove
<1> QED BY <1>1, <1>2

LEMMA VmStepIsMove ==
    ASSUME RowInv, NEW d \in scope.deployers, scope.kind = "vm",
           Step(d), UNCHANGED tunnel
    PROVE  Move(d)
<1>0. /\ d \in Deployers /\ ~IsCloud /\ ~Wrapped(d) /\ ~Undoing(d)
      /\ scope.releases \subseteq Releases
      /\ Active(d) => PlaceOK(d)
  BY InvOf DEF IsCloud, Wrapped, Undoing
<1> USE DEF Move, rowVars, vmVars, localVars, callVars, NoRows,
            NoEffect, Holds
<1>1. CASE BeginDeploy(d)
  <2>1. CASE Blocked(d, "deploy")
    BY <1>0, <1>1, <2>1, BeginIsMove DEF BeginDeploy
  <2>2. ASSUME NEW x \in scope.releases, Start(d, "deploy", x, "lookup")
        PROVE  Move(d)
    <3>1. x \in Releases
      BY <1>0
    <3> QED BY <1>0, <1>1, <2>2, <3>1, BeginIsMove DEF BeginDeploy
  <2> QED BY <1>1, <2>1, <2>2 DEF BeginDeploy
<1>2. CASE BeginRollback(d)
  <2>1. CASE Blocked(d, "rollback")
    BY <1>0, <1>2, <2>1, BeginIsMove DEF BeginRollback
  <2>2. ASSUME NEW r \in Inserted, Start(d, "rollback", relOf[r], "lookup")
        PROVE  Move(d)
    <3>1. relOf[r] \in Releases
      BY <2>2 DEF RowInv, RowsOK
    <3> QED BY <1>0, <1>2, <2>2, <3>1, BeginIsMove DEF BeginRollback
  <2>3. ASSUME NEW x \in scope.releases, Start(d, "rollback", x, "lookup")
        PROVE  Move(d)
    <3>1. x \in Releases
      BY <1>0
    <3> QED BY <1>0, <1>2, <2>3, <3>1, BeginIsMove DEF BeginRollback
  <2> QED BY <1>2, <2>1, <2>2, <2>3 DEF BeginRollback, Recent
<1>3. CASE Lookup(d)
  BY <1>0, <1>3 DEF Lookup, LookMove
<1>4. CASE Create(d)
  BY <1>0, <1>4 DEF Create, Insert, CreateMove, NewRow
<1> USE DEF CallMove, Active, Working, BeforeTry, InTry, InCatch, Remote, Ended,
            Edge, Leaves, Updates
<1>5. CASE AuditStart(d)
  BY <1>0, <1>5 DEF AuditStart
<1> USE DEF Freely, RowCall, Sets, SetStatus, TakeCheckpoint, DeleteCheckpoint,
            RestoreCheckpoint
<1>6. CASE Checkpoint(d)
  BY <1>0, <1>6 DEF Checkpoint
<1>7. CASE SetDeploying(d)
  BY <1>0, <1>7 DEF SetDeploying
<1>8. CASE Stage(d)
  BY <1>0, <1>8 DEF Stage, CopyFile, Returns, Goto, RowInv, TypesOK, TypeOK
<1>9. CASE Probe(d)
  BY <1>0, <1>9 DEF Probe, TurnMove, Catching, CatchesAt
<1>10. CASE Supersede(d)
  BY <1>0, <1>10 DEF Supersede
<1>11. CASE Activate(d)
  BY <1>0, <1>11 DEF Activate, TurnMove, Catching, CatchesAt
<1>12. CASE DropCheckpoint(d)
  BY <1>0, <1>12 DEF DropCheckpoint
<1>13. CASE AuditDone(d)
  BY <1>0, <1>13 DEF AuditDone
<1>14. CASE Restore(d)
  BY <1>0, <1>14 DEF Restore
<1>15. CASE Discard(d)
  BY <1>0, <1>15 DEF Discard
<1>16. CASE MarkFailed(d)
  BY <1>0, <1>16 DEF MarkFailed
<1>17. CASE AuditFail(d)
  BY <1>0, <1>17 DEF AuditFail
<1> QED
  BY <1>1, <1>2, <1>3, <1>4, <1>5, <1>6, <1>7, <1>8, <1>9, <1>10, <1>11,
     <1>12, <1>13, <1>14, <1>15, <1>16, <1>17 DEF Step

LEMMA VmFaultIsMove ==
    ASSUME RowInv, NEW d \in scope.deployers, scope.kind = "vm",
           Fault(d), UNCHANGED tunnel
    PROVE  Move(d)
<1>0. /\ d \in Deployers /\ ~IsCloud /\ ~Wrapped(d) /\ ~Undoing(d)
      /\ Active(d) => pc[d] \in BeforeTry \cup InTry \cup InCatch
  BY InvOf DEF IsCloud, Wrapped, Undoing, PlaceOK
<1> USE DEF rowVars, vmVars, localVars, callVars, NoRows,
            NoEffect, Holds
<1>1. ASSUME CallError(d)
      PROVE  /\ pc[d] \notin {"close", "closeFail"}
             /\ OnError(d) \in Working \cup Ended
             /\ ErrorEdge(d, OnError(d))
  BY <1>0, <1>1 DEF CallError, OnError, ErrorEdge, Leaves, CatchesAt, Rowless,
     Fresh, Untried, Standing, BeforeTry, InTry, InCatch, Working, Ended, Remote
<1>2. ASSUME CallError(d), UNCHANGED <<localVars, base>>,
             \/ NoRows
             \/ RowCall(d)
             \/ pc[d] = "create" /\ \E r \in Rows : NewRow(d, r)
      PROVE  Move(d)
  BY <1>1, <1>2 DEF CallError, Move, ErrorMove
<1>3. CASE CallRefused(d)
  BY <1>2, <1>3 DEF CallRefused
<1>4. CASE ErrorAfterEffect(d)
  <2>1. ASSUME Freely(d)
        PROVE  NoRows \/ RowCall(d)
    BY <2>1 DEF Freely, RowCall, Sets, SetStatus, TakeCheckpoint,
       DeleteCheckpoint, RestoreCheckpoint
  <2>2. ASSUME NEW r \in Rows, Insert(r, rel[d], prev[d])
        PROVE  NewRow(d, r)
    BY <2>2 DEF Insert, NewRow
  <2>3. ASSUME pc[d] = "activate", ActiveRows \subseteq {mine[d]},
               SetStatus(mine[d], "active")
        PROVE  RowCall(d)
    BY <2>3 DEF RowCall, Sets, SetStatus
  <2>4. ASSUME TearFile(rel[d], copied[d] + 1)
        PROVE  NoRows
    BY <2>4 DEF TearFile
  <2> QED BY <1>2, <1>4, <2>1, <2>2, <2>3, <2>4 DEF ErrorAfterEffect
<1>5. CASE Kill(d)
  BY <1>5 DEF Kill, TearFile, Move, KillMove
<1> QED BY <1>3, <1>4, <1>5 DEF Fault

LEMMA RemoteStepIsMove ==
    ASSUME RowInv, NEW d \in scope.deployers, scope.kind # "vm", RemoteStep(d)
    PROVE  Move(d)
<1>0. /\ d \in Deployers /\ scope.releases \subseteq Releases
      /\ scope.kind \in Kinds \ {"vm"}
      /\ op[d] \in {"deploy", "rollback"}
      /\ Active(d) => PlaceOK(d)
  BY InvOf
<1> USE DEF Move, rowVars, vmVars, localVars, callVars, NoRows,
            NoEffect, Holds
<1>1. CASE RemoteBegin(d)
  <2>1. CASE Blocked(d, "deploy")
    BY <1>0, <1>1, <2>1, BeginIsMove DEF RemoteBegin, Begins
  <2>2. ASSUME NEW x \in scope.releases, Start(d, "deploy", x, "lookup")
        PROVE  Move(d)
    <3>1. x \in Releases
      BY <1>0
    <3> QED BY <1>0, <1>1, <2>2, <3>1, BeginIsMove DEF RemoteBegin, Begins
  <2> QED BY <1>1, <2>1, <2>2 DEF RemoteBegin
<1>2. CASE K8sRollback(d)
  BY <1>0, <1>2, BeginIsMove DEF K8sRollback, Begins, IsCloud
<1>3. CASE CloudRollback(d)
  <2>1. CASE Blocked(d, "rollback")
    BY <1>0, <1>3, <2>1, BeginIsMove DEF CloudRollback, Begins
  <2>2. ASSUME NEW x \in Releases, Start(d, "rollback", x, "auditBegin")
        PROVE  Move(d)
    BY <1>0, <1>3, <2>2, BeginIsMove DEF CloudRollback, Begins
  <2>3. ASSUME NEW r \in ActiveRows, prevOf[r] # None
        PROVE  relOf[prevOf[r]] \in Releases
    BY <2>3 DEF RowInv, RowsOK, PriorWasActive, ActiveRows
  <2> QED BY <1>0, <1>3, <2>1, <2>2, <2>3 DEF CloudRollback
\* Where a call that returns leads.
<1>a. ASSUME Active(d), pc[d] \notin {"markUnready", "auditUnready"},
             Proceeds(d)
      PROVE  /\ Edge(d, After(d)) /\ Returns(d, After(d))
             /\ After(d) \in Working \cup Ended
  <2>1. Edge(d, After(d))
    BY <1>0, <1>a, RemoteFlow
  <2>2. After(d) \in Working \cup Ended
    BY <1>0, <1>a, <2>1 DEF Edge, Leaves, PlaceOK, Shared, Around, Undoing,
       Kinds, Working, Ended, BeforeTry, InTry, InCatch, Remote
  <2> QED BY <1>a, <2>1, <2>2 DEF Proceeds, After
<1>b. ASSUME Active(d), Throws(d)
      PROVE  \E q \in Catching : CatchesAt(q) /\ Returns(d, q)
  <2>1. CatchesAt(Catch(d)[1])
    BY <1>0, <1>b, RemoteFlow
  <2>2. Catch(d)[1] \in Catching
    BY <1>0, <2>1 DEF CatchesAt, Catching, Kinds
  <2> QED BY <1>b, <2>1, <2>2 DEF Throws
<1>c. ASSUME Active(d), pc[d] \notin {"lookup", "create", "stage",
             "markUnready", "auditUnready"},
             Proceeds(d), UNCHANGED <<localVars, base>>,
             RowCall(d) \/ (pc[d] \notin Updates /\ NoRows)
      PROVE  Move(d)
  BY <1>a, <1>c DEF CallMove
<1>d. ASSUME NEW p \in Working, pc[d] = p
      PROVE  Active(d)
  BY <1>d DEF Active
<1>4. CASE RemoteAudit(d)
  <2>1. pc[d] \in {"auditStart", "auditDone", "auditFail", "auditBegin",
                   "auditBack", "auditBackFail", "failCheck"}
    BY <1>4 DEF RemoteAudit, At
  <2> QED BY <1>4, <1>c, <2>1 DEF RemoteAudit, At, Active, Working, BeforeTry,
             InTry, InCatch, Remote, Updates
<1>5. CASE RemoteLookup(d)
  <2>1. Active(d) /\ pc[d] = "lookup"
    BY <1>5 DEF RemoteLookup, Active, Working, BeforeTry
  <2>2. InSeq("undo", Calls(d)) <=> Undoing(d)
    BY <1>0, <2>1, RemoteFlow
  <2>3. Proceeds(d) => Returns(d, IF Undoing(d) THEN "undo" ELSE "create")
    BY <1>a, <2>1 DEF Edge
  <2> QED BY <1>5, <2>1, <2>2, <2>3 DEF RemoteLookup, LookMove
<1>6. CASE RemoteCreate(d)
  <2>1. Active(d) /\ pc[d] = "create"
    BY <1>6 DEF RemoteCreate, Active, Working, BeforeTry
  <2>2. Returns(d, "auditStart")
    BY <1>6, <1>a, <2>1 DEF RemoteCreate, Edge
  <2> QED BY <1>6, <2>1, <2>2 DEF RemoteCreate, Insert, CreateMove, NewRow
<1>7. CASE RemoteUpdate(d)
  <2>1. pc[d] \in {"deploying", "supersede", "markFailed", "markBack"}
    BY <1>7 DEF RemoteUpdate, At
  <2>2. RowCall(d)
    BY <1>7, <2>1 DEF RemoteUpdate, RowUpdate, RowCall, Sets, SetStatus
  <2> QED BY <1>7, <1>c, <2>1, <2>2 DEF RemoteUpdate, At, Active, Working,
             BeforeTry, InTry, InCatch, Remote
<1>8. CASE RemoteActivate(d)
  <2>1. Active(d) /\ pc[d] = "activate"
    BY <1>8 DEF RemoteActivate, At, Active, Working, InTry
  <2>2. CASE ActiveRows \subseteq {mine[d]}
    <3>1. RowCall(d) /\ Proceeds(d)
      BY <1>8, <2>1, <2>2 DEF RemoteActivate, RowCall, Sets, SetStatus
    <3> QED BY <1>8, <1>c, <2>1, <3>1 DEF RemoteActivate, At
  <2>3. CASE ~(ActiveRows \subseteq {mine[d]})
    BY <1>8, <1>b, <2>1, <2>3 DEF RemoteActivate, At, TurnMove
  <2> QED BY <2>2, <2>3
<1>9. CASE Apply(d)
  <2>1. Active(d) /\ pc[d] = "apply"
    BY <1>9 DEF Apply, At, Active, Working, Remote
  <2>2. CASE Proceeds(d)
    BY <1>9, <1>c, <2>1, <2>2 DEF Apply, At, Updates
  <2>3. CASE Throws(d)
    BY <1>9, <1>b, <2>1, <2>3 DEF Apply, At, TurnMove
  <2> QED BY <1>9, <2>2, <2>3 DEF Apply
<1>10. CASE Ready(d)
  <2>1. Active(d) /\ pc[d] = "ready"
    BY <1>10 DEF Ready, At, Active, Working, Remote
  <2>2. CASE Proceeds(d)
    BY <1>10, <1>c, <2>1, <2>2 DEF Ready, At, Updates
  <2>3. CASE Throws(d)
    BY <1>10, <1>b, <2>1, <2>3 DEF Ready, At, TurnMove
  <2>4. CASE Returns(d, "markUnready")
    BY <1>10, <2>1, <2>4 DEF Ready, At, TurnMove
  <2> QED BY <1>10, <2>2, <2>3, <2>4 DEF Ready
<1>11. CASE MarkUnready(d)
  <2>1. Active(d) /\ pc[d] = "markUnready"
    BY <1>11 DEF MarkUnready, At, Active, Working, Remote
  <2>2. RowCall(d)
    BY <1>11, <2>1 DEF MarkUnready, RowUpdate, RowCall, Sets, SetStatus
  <2>3. Edge(d, "auditUnready") /\ "auditUnready" \in Working
    BY <2>1 DEF Edge, Working, Remote
  <2> QED BY <1>11, <2>1, <2>2, <2>3 DEF MarkUnready, At, CallMove
<1>12. CASE AuditUnready(d)
  <2>1. Active(d) /\ pc[d] = "auditUnready"
    BY <1>12 DEF AuditUnready, At, Active, Working, Remote
  <2> QED BY <1>12, <1>b, <2>1 DEF AuditUnready, At, TurnMove
<1>13. CASE Connect(d)
  <2>1. Active(d) /\ pc[d] = "connect"
    BY <1>13 DEF Connect, At, Active, Working, Remote
  <2>2. CASE Proceeds(d)
    BY <1>13, <1>c, <2>1, <2>2 DEF Connect, At, Updates
  <2>3. CASE Throws(d)
    BY <1>13, <1>b, <2>1, <2>3 DEF Connect, At, TurnMove
  <2> QED BY <1>13, <2>2, <2>3 DEF Connect
<1>14. CASE ReachInstall(d)
  <2>1. Active(d) /\ pc[d] \in {"reach", "install"}
    BY <1>14 DEF ReachInstall, At, Active, Working, Remote
  <2>2. CASE Proceeds(d)
    BY <1>14, <1>c, <2>1, <2>2 DEF ReachInstall, At, Updates
  <2>3. CASE Throws(d)
    BY <1>14, <1>b, <2>1, <2>3 DEF ReachInstall, At, TurnMove
  <2> QED BY <1>14, <2>2, <2>3 DEF ReachInstall
<1>15. CASE CloseTunnel(d)
  <2>1. Active(d) /\ pc[d] \in {"close", "closeFail"}
    BY <1>15 DEF CloseTunnel, At, Active, Working, Remote
  <2> QED BY <1>15, <1>c, <2>1 DEF CloseTunnel, At, Updates
<1>16. CASE Recheck(d)
  <2>1. Active(d) /\ pc[d] = "recheck"
    BY <1>16 DEF Recheck, At, Active, Working, Remote
  <2>2. ~Undoing(d)
    BY <1>0, <2>1 DEF PlaceOK
  <2>3. Leaves(d, "auditBackFail", Follows(d, "auditFail", Catch(d)), "failed")
    BY <1>0, <2>1, <2>2, RemoteFlow
  <2>4. CASE status[mine[d]] # "failed"
    BY <1>16, <1>c, <2>1, <2>4 DEF Recheck, At, Updates
  <2>5. CASE status[mine[d]] = "failed"
    BY <1>16, <2>1, <2>3, <2>5 DEF Recheck, At, TurnMove, Leaves
  <2> QED BY <2>4, <2>5
<1>17. CASE Undo(d)
  <2>1. Active(d) /\ pc[d] = "undo"
    BY <1>17 DEF Undo, At, Active, Working, Remote
  <2>2. CASE Proceeds(d)
    BY <1>17, <1>c, <2>1, <2>2 DEF Undo, At, Updates
  <2>3. CASE Returns(d, "aborted")
    BY <1>17, <2>1, <2>3 DEF Undo, At, TurnMove
  <2> QED BY <1>17, <2>2, <2>3 DEF Undo
<1> QED
  BY <1>1, <1>2, <1>3, <1>4, <1>5, <1>6, <1>7, <1>8, <1>9, <1>10, <1>11,
     <1>12, <1>13, <1>14, <1>15, <1>16, <1>17 DEF RemoteStep

LEMMA RemoteFaultIsMove ==
    ASSUME RowInv, NEW d \in scope.deployers, scope.kind # "vm",
           RemoteFault(d)
    PROVE  Move(d)
<1>0. /\ d \in Deployers /\ scope.kind \in Kinds \ {"vm"}
      /\ op[d] \in {"deploy", "rollback"}
      /\ Active(d) => PlaceOK(d)
  BY InvOf
<1> USE DEF rowVars, vmVars, localVars, callVars, NoRows,
            NoEffect, Holds
<1>1. ASSUME RemoteError(d)
      PROVE  /\ OnRemoteError(d) \in Working \cup Ended
             /\ ErrorEdge(d, OnRemoteError(d))
  <2>1. CatchesAt(Catch(d)[1])
    BY <1>0, <1>1, RemoteFlow DEF RemoteError
  <2>2. Catch(d)[1] \in {"recheck", "closeFail", "failCheck"}
    BY <1>0, <2>1 DEF CatchesAt, Kinds
  <2>3. CASE pc[d] \in Shared \cup Around(d)
    BY <1>0, <1>1, <2>1, <2>2, <2>3 DEF OnRemoteError, ErrorEdge, Leaves,
       Shared, Around,
       Rowless, Fresh, Untried, Standing, Working, Ended, Remote, InCatch
  <2>4. CASE pc[d] \notin Shared \cup Around(d)
    BY <1>0, <1>1, <2>1, <2>2, <2>4 DEF RemoteError, OnRemoteError, ErrorEdge,
       Leaves,
       PlaceOK, Rowless, Fresh, Untried, Standing, Working, Ended, Remote,
       InCatch, Kinds,
       Undoing, Wrapped, IsCloud
  <2> QED BY <2>3, <2>4
<1>2. ASSUME RemoteError(d), UNCHANGED <<localVars, base>>,
             \/ NoRows
             \/ RowCall(d)
             \/ pc[d] = "create" /\ \E r \in Rows : NewRow(d, r)
      PROVE  Move(d)
  BY <1>1, <1>2 DEF RemoteError, Move, ErrorMove
<1>3. CASE RemoteRefused(d)
  BY <1>2, <1>3 DEF RemoteRefused
<1>4. CASE RemoteErrorAfterEffect(d)
  <2>1. ASSUME RowUpdate(d)
        PROVE  RowCall(d)
    BY <2>1 DEF RowUpdate, RowCall, Sets, SetStatus
  <2>2. ASSUME NEW r \in Rows, Insert(r, rel[d], prev[d])
        PROVE  NewRow(d, r)
    BY <2>2 DEF Insert, NewRow
  <2>3. ASSUME pc[d] = "activate", ActiveRows \subseteq {mine[d]},
               SetStatus(mine[d], "active")
        PROVE  RowCall(d)
    BY <2>3 DEF RowCall, Sets, SetStatus
  <2> QED BY <1>2, <1>4, <2>1, <2>2, <2>3 DEF RemoteErrorAfterEffect
<1>5. CASE RemoteKill(d)
  BY <1>5 DEF RemoteKill, Move, KillMove
<1> QED BY <1>3, <1>4, <1>5 DEF RemoteFault

\* Every step of the system, whatever the kind of its target.
LEMMA NextIsMove ==
    ASSUME RowInv, TargetNext
    PROVE  scope' = scope /\ \E d \in scope.deployers : Move(d)
<1>1. CASE Next /\ UNCHANGED tunnel
  BY <1>1, VmStepIsMove, VmFaultIsMove DEF Next
<1>2. CASE RemoteNext
  BY <1>2, RemoteStepIsMove, RemoteFaultIsMove DEF RemoteNext
<1> QED BY <1>1, <1>2 DEF TargetNext

-----------------------------------------------------------------------------
(***************************************************************************)
(* What a move leaves as it was.                                           *)
(***************************************************************************)

LEMMA SerialIs ==
    ASSUME TypeOK, Serial, NEW d \in scope.deployers, NEW e \in scope.deployers
    PROVE  d = e
<1>1. IsFiniteSet(scope.deployers)
  BY DeployAssumption, FS_Subset DEF TypeOK
<1>2. PICK x : scope.deployers = {x}
  BY <1>1, FS_Singleton DEF Serial
<1> QED BY <1>2

\* What a step does to the rows.
RowEffect(d) ==
    \/ NoRows
    \/ Active(d) /\ RowCall(d)
    \/ pc[d] = "create" /\ \E r \in Rows : NewRow(d, r)

\* How a step may change rows that are not the deployer's own.
RowsMonotone(d) ==
    /\ Inserted \subseteq Inserted'
    /\ everActive \subseteq everActive'
    /\ \A r \in Inserted : relOf'[r] = relOf[r]
    /\ \A r \in Rows \ {mine[d]} :
         /\ r \notin everActive => r \notin everActive'
         /\ status[r] \in Good => status'[r] \in Good
         /\ status[r] # "active" => status'[r] # "active"

RowTypes ==
    /\ status \in [Rows -> Statuses]
    /\ relOf \in [Rows -> Releases \cup {NoRel}]
    /\ prevOf \in [Rows -> Rows \cup {None}]
    /\ everActive \subseteq Rows

LEMMA SetsKeeps ==
    ASSUME RowInv, NEW d \in scope.deployers, Active(d), RowCall(d)
    PROVE  RowTypes' /\ RowsOK' /\ RowsMonotone(d)
<1>0. RowTypes /\ RowsOK /\ HeldOK(d)
  BY InvOf DEF RowInv, TypesOK, TypeOK, RemoteTypeOK, RowTypes
<1>1. PICK r \in Rows, s \in Statuses \ {"none"} :
        /\ Sets(r, s) /\ r \in Inserted
        /\ s \in Good => s = "active" \/ r \in everActive
        /\ s = "active" => ActiveRows \subseteq {r}
        /\ r = mine[d] \/ s \in {"superseded", "rolled_back"}
  <2>1. CASE pc[d] \in {"supersede", "markBack"}
    <3>1. prev[d] \in Inserted
      BY <1>0, <2>1 DEF HeldOK, RowsOK
    <3> QED
      BY <1>0, <2>1, <3>1 DEF RowCall, HeldOK, Statuses, Good, Inserted
  <2>2. CASE pc[d] \in {"deploying", "activate", "markFailed", "markUnready"}
    <3>1. mine[d] \in Inserted
      BY <1>0, <2>2 DEF HeldOK, Fresh, Untried, Catching
    <3> QED
      BY <1>0, <2>2, <3>1 DEF RowCall, Statuses, Good, Inserted
  <2> QED BY <2>1, <2>2 DEF RowCall
<1>2. /\ status'[r] = s /\ \A q \in Rows \ {r} : status'[q] = status[q]
      /\ everActive' = everActive \cup {q \in {r} : s = "active"}
      /\ relOf' = relOf /\ prevOf' = prevOf
  BY <1>0, <1>1 DEF Sets, RowTypes
<1>3. RowTypes'
  BY <1>0, <1>1 DEF Sets, RowTypes
<1>4. Inserted' = Inserted
  BY <1>1, <1>2 DEF Inserted
<1>5. RowsMonotone(d)
  BY <1>1, <1>2, <1>4 DEF RowsMonotone, Good
<1>6. ActiveRows' \subseteq ActiveRows \cup {r}
  BY <1>2 DEF ActiveRows
<1>7. \A p, q \in ActiveRows' : p = q
  BY <1>0, <1>1, <1>2, <1>6 DEF RowsOK, ActiveRows
<1>8. RowsOK'
  BY <1>0, <1>1, <1>2, <1>4, <1>7 DEF RowsOK, PriorWasActive, Good, Inserted
<1> QED BY <1>3, <1>5, <1>8

LEMMA NewRowKeeps ==
    ASSUME RowInv, NEW d \in scope.deployers, pc[d] = "create",
           NEW r \in Rows, NewRow(d, r)
    PROVE  RowTypes' /\ RowsOK' /\ RowsMonotone(d)
<1>0. RowTypes /\ RowsOK /\ HeldOK(d)
  BY InvOf DEF RowInv, TypesOK, TypeOK, RemoteTypeOK, RowTypes
<1>1. /\ rel[d] \in Releases
      /\ prev[d] \in Rows \cup {None}
      /\ prev[d] # None => prev[d] \in everActive
  BY <1>0, InvOf DEF HeldOK, PlaceOK, Active, Working, BeforeTry, RowInv,
     TypesOK, TypeOK
<1>2. /\ status[r] = "none" /\ \A q \in Rows : q < r => status[q] # "none"
      /\ status'[r] = "pending" /\ \A q \in Rows \ {r} : status'[q] = status[q]
      /\ relOf'[r] = rel[d] /\ \A q \in Rows \ {r} : relOf'[q] = relOf[q]
      /\ prevOf'[r] \in {prevOf[r], prev[d]}
      /\ \A q \in Rows \ {r} : prevOf'[q] = prevOf[q]
      /\ everActive' = everActive
  BY <1>0 DEF NewRow, RowTypes
<1>3. RowTypes'
  BY <1>0, <1>1 DEF NewRow, RowTypes, Statuses
<1>4. Inserted' = Inserted \cup {r} /\ r \notin Inserted
  BY <1>2 DEF Inserted
<1>5. RowsMonotone(d)
  BY <1>2, <1>4 DEF RowsMonotone, Good, Inserted
<1>6. ActiveRows' = ActiveRows
  BY <1>2 DEF ActiveRows
<1>7. \A q \in Inserted : q < r
  BY <1>0, <1>4 DEF RowsOK, Rows, Inserted
<1>8. PriorWasActive'
  BY <1>0, <1>1, <1>2, <1>7 DEF RowsOK, PriorWasActive
<1>9. /\ \A p \in Inserted' : \A q \in Rows : q < p => q \in Inserted'
      /\ \A p \in Inserted' : relOf'[p] \in Releases
      /\ \A p \in Rows : status'[p] \in Good => p \in everActive'
  BY <1>0, <1>1, <1>2, <1>4, <1>7 DEF RowsOK, Good, Inserted
<1> QED BY <1>0, <1>2, <1>3, <1>4, <1>5, <1>6, <1>8, <1>9 DEF RowsOK

LEMMA RowsKept ==
    ASSUME RowInv, NEW d \in scope.deployers, RowEffect(d)
    PROVE  RowTypes' /\ RowsOK' /\ RowsMonotone(d)
<1>1. CASE NoRows
  <2>1. RowTypes /\ RowsOK
    BY DEF RowInv, TypesOK, TypeOK, RemoteTypeOK, RowTypes
  <2> QED BY <1>1, <2>1 DEF NoRows, RowTypes, RowsOK, RowsMonotone,
             PriorWasActive, Inserted, ActiveRows
<1> QED BY <1>1, SetsKeeps, NewRowKeeps DEF RowEffect

\* The others stand where they stood and hold what they held.
OthersStand(d) ==
    \A e \in Deployers \ {d} :
        /\ pc'[e] = pc[e] /\ op'[e] = op[e] /\ rel'[e] = rel[e]
        /\ prev'[e] = prev[e] /\ mine'[e] = mine[e]
        /\ copied'[e] = copied[e]

LocalTypes ==
    /\ pc \in [Deployers -> Working \cup Ended \cup {"idle"}]
    /\ op \in [Deployers -> {"deploy", "rollback"}]
    /\ rel \in [Deployers -> Releases \cup {NoRel}]
    /\ prev \in [Deployers -> Rows \cup {None}]
    /\ mine \in [Deployers -> Rows \cup {None}]
    /\ copied \in [Deployers -> 0..scope.files]
    /\ clean \in [Deployers -> BOOLEAN]
    /\ errors \in 0..scope.errors
    /\ killed \in BOOLEAN

\* A step keeps the types, moves one deployer and never forgets an error.
LEMMA MoveFrame ==
    ASSUME RowInv, NEW d \in scope.deployers, Move(d), scope' = scope
    PROVE  /\ OthersStand(d) /\ RowEffect(d) /\ LocalTypes'
           /\ errors <= errors' /\ (killed => killed')
<1>0. /\ LocalTypes /\ d \in Deployers /\ HeldOK(d)
      /\ scope.files \in Nat /\ scope.errors \in Nat
      /\ errors \in Nat /\ errors <= scope.errors
      /\ copied[d] \in Nat /\ copied[d] <= scope.files
  BY InvOf DEF RowInv, TypesOK, TypeOK, LocalTypes
<1> DEFINE PcTypes == /\ pc' \in [Deployers -> Working \cup Ended \cup {"idle"}]
                      /\ clean' \in [Deployers -> BOOLEAN]
                      /\ \A e \in Deployers \ {d} : pc'[e] = pc[e]
           HoldTypes == /\ op' \in [Deployers -> {"deploy", "rollback"}]
                        /\ rel' \in [Deployers -> Releases \cup {NoRel}]
                        /\ prev' \in [Deployers -> Rows \cup {None}]
                        /\ mine' \in [Deployers -> Rows \cup {None}]
                        /\ copied' \in [Deployers -> 0..scope.files]
                        /\ \A e \in Deployers \ {d} :
                             /\ op'[e] = op[e] /\ rel'[e] = rel[e]
                             /\ prev'[e] = prev[e] /\ mine'[e] = mine[e]
                             /\ copied'[e] = copied[e]
           Count == /\ errors' \in 0..scope.errors /\ killed' \in BOOLEAN
                    /\ errors <= errors' /\ (killed => killed')
<1>a. ASSUME NEW q \in Working \cup Ended, NEW ok \in BOOLEAN, Goto(d, q, ok)
      PROVE  PcTypes
  BY <1>0, <1>a DEF Goto, LocalTypes
<1>b. ASSUME NEW q \in Working \cup Ended, Returns(d, q)
      PROVE  PcTypes /\ Count
  <2>1. Goto(d, q, TRUE) /\ UNCHANGED <<errors, killed>>
    BY <1>b DEF Returns
  <2>2. PcTypes
    BY <1>a, <2>1
  <2> QED BY <1>0, <2>1, <2>2 DEF LocalTypes
<1>c. ASSUME Holds, UNCHANGED copied
      PROVE  HoldTypes
  BY <1>0, <1>c DEF Holds, LocalTypes
<1>d. ASSUME PcTypes, HoldTypes, Count
      PROVE  OthersStand(d) /\ LocalTypes' /\ Count
  BY <1>d DEF OthersStand, LocalTypes
<1>e. {"lookup", "auditBegin", "aborted", "create", "undo", "auditStart",
       "markUnready", "auditBackFail", "failed", "killed"} \cup Catching
        \subseteq Working \cup Ended
  BY DEF Working, Ended, BeforeTry, InTry, InCatch, Remote, Catching
<1>1. CASE BeginMove(d)
  <2>1. PcTypes
    <3>1. \E q \in {"lookup", "auditBegin", "aborted"} :
            pc' = [pc EXCEPT ![d] = q]
      BY <1>1 DEF BeginMove
    <3>2. clean' \in [Deployers -> BOOLEAN]
      <4>1. CASE UNCHANGED clean
        BY <1>0, <4>1 DEF LocalTypes
      <4>2. CASE clean' = [c \in Deployers |-> c =
                d \/ (clean[c] /\ ~Active(c))]
        BY <4>2, Zenon
      <4> QED BY <1>1, <4>1, <4>2 DEF BeginMove
    <3> QED BY <1>0, <1>e, <3>1, <3>2 DEF LocalTypes
  <2>2. HoldTypes
    BY <1>0, <1>1 DEF BeginMove, LocalTypes
  <2>3. Count /\ RowEffect(d)
    BY <1>0, <1>1 DEF BeginMove, LocalTypes, RowEffect
  <2> QED BY <1>d, <2>1, <2>2, <2>3
<1>2. CASE LookMove(d)
  <2>1. PcTypes /\ Count
    BY <1>2, <1>b, <1>e DEF LookMove
  <2>2. HoldTypes
    BY <1>0, <1>2 DEF LookMove, LocalTypes, ActiveRows
  <2> QED BY <1>2, <1>d, <2>1, <2>2 DEF LookMove, RowEffect
<1>3. CASE CreateMove(d)
  <2>1. PcTypes /\ Count
    BY <1>3, <1>b, <1>e DEF CreateMove
  <2>2. HoldTypes
    BY <1>0, <1>3 DEF CreateMove, LocalTypes
  <2> QED BY <1>3, <1>d, <2>1, <2>2 DEF CreateMove, RowEffect
<1>4. CASE CallMove(d)
  <2>1. PcTypes /\ Count
    BY <1>4, <1>b DEF CallMove
  <2>2. HoldTypes
    <3>1. CASE pc[d] = "stage"
      BY <1>0, <1>4, <3>1 DEF CallMove, Holds, LocalTypes, HeldOK
    <3>2. CASE pc[d] # "stage"
      BY <1>4, <1>c, <3>2 DEF CallMove
    <3> QED BY <3>1, <3>2
  <2> QED BY <1>4, <1>d, <2>1, <2>2 DEF CallMove, RowEffect
<1>5. CASE TurnMove(d)
  <2>1. PcTypes /\ Count
    BY <1>5, <1>b, <1>e DEF TurnMove
  <2>2. HoldTypes
    BY <1>5, <1>c DEF TurnMove
  <2> QED BY <1>5, <1>d, <2>1, <2>2 DEF TurnMove, RowEffect
<1>6. CASE ErrorMove(d)
  <2>1. PcTypes
    BY <1>6, <1>a DEF ErrorMove
  <2>2. Count
    BY <1>0, <1>6 DEF ErrorMove, LocalTypes
  <2>3. HoldTypes
    BY <1>6, <1>c DEF ErrorMove
  <2> QED BY <1>6, <1>d, <2>1, <2>2, <2>3 DEF ErrorMove, RowEffect
<1>7. CASE KillMove(d)
  <2>1. PcTypes
    BY <1>7, <1>a, <1>e DEF KillMove
  <2>2. Count
    BY <1>0, <1>7 DEF KillMove, LocalTypes
  <2>3. HoldTypes
    BY <1>7, <1>c DEF KillMove
  <2> QED BY <1>7, <1>d, <2>1, <2>2, <2>3 DEF KillMove, RowEffect
<1> QED BY <1>1, <1>2, <1>3, <1>4, <1>5, <1>6, <1>7 DEF Move

\* What the invariant says of the others stays true.
LEMMA OthersKept ==
    ASSUME RowInv, NEW d \in scope.deployers, Move(d), scope' = scope,
           NEW e \in Deployers \ {d}
    PROVE  HeldOK(e)' /\ FateOK(e)' /\ AloneOK(e)'
<1>0. /\ HeldOK(e) /\ FateOK(e) /\ MineApart /\ ScopeOK /\ TypeOK
      /\ d \in Deployers
      /\ prev[e] \in Rows \cup {None} /\ mine[e] \in Rows \cup {None}
      /\ errors \in Nat /\ errors' \in Nat
  BY MoveFrame, InvOf DEF RowInv, TypesOK, TypeOK, LocalTypes
<1>1. /\ pc'[e] = pc[e] /\ op'[e] = op[e] /\ rel'[e] = rel[e]
      /\ prev'[e] = prev[e] /\ mine'[e] = mine[e] /\ copied'[e] = copied[e]
      /\ errors <= errors'
      /\ RowsMonotone(d)
  BY MoveFrame, RowsKept DEF OthersStand
<1>2. /\ Active(e)' = Active(e) /\ Undoing(e)' = Undoing(e)
      /\ Wrapped(e)' = Wrapped(e) /\ PlaceOK(e)' = PlaceOK(e)
  BY <1>1 DEF Active, Undoing, Wrapped, IsCloud, PlaceOK, Around
<1>3. HeldOK(e)'
  BY <1>0, <1>1, <1>2 DEF HeldOK, RowsMonotone
<1>4. mine[e] # None => mine[e] \in Rows \ {mine[d]}
  BY <1>0 DEF MineApart
<1>5. FateOK(e)'
  BY <1>0, <1>1, <1>2, <1>4 DEF FateOK, HeldOK, RowsMonotone, Fresh, Catching
<1>6. AloneOK(e)'
  <2>1. CASE Serial
    <3>1. pc[e] = "idle"
      BY <1>0, <2>1, SerialIs DEF ScopeOK
    <3> QED BY <1>1, <3>1 DEF AloneOK, Untried, Fresh, Catching, Standing
  <2>2. CASE ~Serial
    BY <2>2 DEF AloneOK, Serial
  <2> QED BY <2>1, <2>2
<1> QED BY <1>3, <1>5, <1>6

LEMMA MineApartKept ==
    ASSUME RowInv, NEW d \in scope.deployers, Move(d), scope' = scope
    PROVE  MineApart'
<1>0. /\ MineApart /\ d \in Deployers /\ OthersStand(d)
      /\ mine \in [Deployers -> Rows \cup {None}]
      /\ \A e \in Deployers : mine[e] # None => mine[e] \in Inserted
  BY MoveFrame, InvOf DEF RowInv, TypesOK, TypeOK, HeldOK
<1>1. CASE CreateMove(d)
  <2>1. PICK r \in Rows : NewRow(d, r) /\ mine' = [mine EXCEPT ![d] = r]
    BY <1>1 DEF CreateMove
  <2>2. r \notin Inserted
    BY <2>1 DEF NewRow, Inserted
  <2> QED BY <1>0, <2>1, <2>2 DEF MineApart
<1>2. CASE ~CreateMove(d)
  <2>1. mine' \in {mine, [mine EXCEPT ![d] = None]}
    BY <1>2 DEF Move, BeginMove, LookMove, CallMove, TurnMove, ErrorMove,
       KillMove, Holds
  <2> QED BY <1>0, <2>1 DEF MineApart
<1> QED BY <1>1, <1>2

\* The edges, class by class of places.
EdgeClass(d, q) ==
    /\ pc[d] \in {"auditBegin", "undo", "markBack", "auditBack", "auditFail",
                  "auditBackFail"} \cup Fresh \cup Standing \cup Catching
    /\ pc[d] # "auditUnready"
    /\ pc[d] = "auditBegin" => q = "lookup"
    /\ pc[d] = "undo" => q = "markBack"
    /\ pc[d] = "markBack" => q = "auditBack" /\ Undoing(d)
    /\ pc[d] = "auditBack" => q = "done"
    /\ pc[d] \in {"auditFail", "auditBackFail"} => q \in {"auditBackFail",
         "failed"}
    /\ pc[d] \in {"auditStart", "checkpoint"} => q \in {"checkpoint",
         "deploying"}
    /\ pc[d] \in {"deploying", "stage"} => q \in {"connect", "apply", "stage",
         "probe"}
    /\ pc[d] \in {"connect", "reach", "apply", "probe", "ready", "install"} =>
         /\ q \in {"reach", "install", "ready", "supersede", "activate"}
         /\ q = "supersede" => prev[d] # None
         /\ q = "activate" => prev[d] = None
    /\ pc[d] = "supersede" => q = "activate"
    /\ pc[d] = "activate" => q \in {"dropCkpt", "auditDone"}
    /\ pc[d] = "markUnready" => q = "auditUnready"
    /\ pc[d] \in Standing => q \in {"auditDone", "close", "auditBack", "done"}
    /\ pc[d] \in Catching \ {"markFailed"} => q \in {"discard", "recheck",
         "markFailed"}
    /\ pc[d] = "markFailed" => q = "auditFail"

LEMMA EdgeClasses ==
    ASSUME NEW d, NEW q, Edge(d, q), PlaceOK(d), scope.kind \in Kinds,
           op[d] \in {"deploy", "rollback"},
           pc[d] \notin {"lookup", "create", "auditUnready"}
    PROVE  EdgeClass(d, q)
<1>1. pc[d] \in {"auditBegin", "undo", "markBack", "auditBack", "auditFail",
                 "auditBackFail"} \cup Fresh \cup Standing \cup Catching
  BY DEF PlaceOK, Kinds, Undoing, Shared, Around, BeforeTry, InTry, InCatch,
     Fresh, Untried, Standing, Catching
<1>2. pc[d] = "markBack" => Undoing(d)
  BY DEF PlaceOK, Kinds, Undoing, Shared, Around, BeforeTry, InTry, InCatch
<1>3. /\ pc[d] = "auditBegin" => q = "lookup"
      /\ pc[d] = "undo" => q = "markBack"
      /\ pc[d] = "markBack" => q = "auditBack" /\ Undoing(d)
      /\ pc[d] = "auditBack" => q = "done"
      /\ pc[d] \in {"auditFail", "auditBackFail"} => q \in {"auditBackFail",
           "failed"}
      /\ pc[d] \in {"auditStart", "checkpoint"} => q \in {"checkpoint",
           "deploying"}
      /\ pc[d] \in {"deploying", "stage"} => q \in {"connect", "apply",
           "stage", "probe"}
  BY <1>2 DEF Edge, Leaves, Kinds
<1>4. /\ pc[d] = "supersede" => q = "activate"
      /\ pc[d] = "activate" => q \in {"dropCkpt", "auditDone"}
      /\ pc[d] = "markUnready" => q = "auditUnready"
      /\ pc[d] \in Standing => q \in {"auditDone", "close", "auditBack", "done"}
      /\ pc[d] \in Catching \ {"markFailed"} => q \in {"discard", "recheck",
           "markFailed"}
      /\ pc[d] = "markFailed" => q = "auditFail"
  BY DEF Edge, Leaves, Standing, Catching
<1>5. pc[d] \in {"connect", "reach", "apply", "probe", "ready", "install"} =>
         /\ q \in {"reach", "install", "ready", "supersede", "activate"}
         /\ q = "supersede" => prev[d] # None
         /\ q = "activate" => prev[d] = None
  BY DEF Edge
<1> QED BY <1>1, <1>3, <1>4, <1>5 DEF EdgeClass

LEMMA EdgePlace ==
    ASSUME NEW d, NEW q \in Working \cup Ended, Edge(d, q), PlaceOK(d),
           pc'[d] = q,
           scope.kind \in Kinds, scope' = scope, op'[d] = op[d],
               op[d] \in {"deploy", "rollback"},
           pc[d] \notin {"lookup", "create", "auditUnready"}
    PROVE  Active(d)' => PlaceOK(d)'
<1>0. /\ Undoing(d)' = Undoing(d) /\ Wrapped(d)' = Wrapped(d)
  BY DEF Undoing, Wrapped, IsCloud
<1>1. CASE scope.kind = "vm"
  <2>1. pc[d] \in BeforeTry \cup InTry \cup InCatch
    BY <1>1 DEF PlaceOK
  <2>2. ~Wrapped(d) /\ ~Undoing(d)
    BY <1>1 DEF Wrapped, IsCloud, Undoing
  <2>3. q \in BeforeTry \cup InTry \cup InCatch \cup {"done", "failed"}
    BY <1>1, <2>1, <2>2 DEF Edge, Leaves, BeforeTry, InTry, InCatch
  <2> QED BY <1>0, <1>1, <2>2, <2>3 DEF PlaceOK, Active, Working, Remote,
             BeforeTry, InTry, InCatch
<1>2. CASE scope.kind = "k8s" /\ ~Undoing(d)
  <2>1. pc[d] \in Shared \cup {"apply", "ready", "markUnready", "auditUnready"}
    BY <1>2 DEF PlaceOK
  <2>2. ~Wrapped(d)
    BY <1>2 DEF Wrapped, IsCloud
  <2>3. q \in Shared \cup {"apply", "ready", "auditUnready", "done", "failed"}
    BY <1>2, <2>1, <2>2 DEF Edge, Leaves, Shared
  <2> QED BY <1>0, <1>2, <2>2, <2>3 DEF PlaceOK, Active, Working, Remote,
             BeforeTry, InTry, InCatch, Shared
<1>3. CASE Undoing(d)
  <2>1. pc[d] \in {"undo", "markBack", "auditBack"}
    BY <1>3 DEF PlaceOK
  <2>2. q \in {"markBack", "auditBack", "done"}
    BY <2>1 DEF Edge
  <2> QED BY <1>0, <1>3, <2>2 DEF PlaceOK, Active, Working, Remote, BeforeTry,
             InTry, InCatch, Undoing
<1>4. CASE scope.kind = "cloud_vm"
  <2>1. /\ pc[d] \in Shared \cup {"auditBegin", "auditBack", "auditBackFail",
             "connect", "reach", "install", "close", "closeFail"}
        /\ pc[d] \in {"auditBegin", "auditBack", "auditBackFail"} => Wrapped(d)
        /\ ~Undoing(d)
    BY <1>4 DEF PlaceOK, Around, Undoing, Shared
  <2>2. /\ q \in Shared \cup {"auditBack", "auditBackFail", "connect", "reach",
             "install", "close", "closeFail", "done", "failed"}
        /\ q \in {"auditBack", "auditBackFail"} => Wrapped(d)
    BY <1>4, <2>1 DEF Edge, Leaves, Shared
  <2> QED BY <1>0, <1>4, <2>1, <2>2 DEF PlaceOK, Active, Working, Remote,
             BeforeTry, InTry, InCatch, Shared, Around
<1>5. CASE scope.kind = "cloud_stack"
  <2>1. /\ pc[d] \in Shared \cup {"auditBegin", "auditBack", "auditBackFail",
             "apply", "failCheck"}
        /\ pc[d] \in {"auditBegin", "auditBack", "auditBackFail"} => Wrapped(d)
        /\ ~Undoing(d)
    BY <1>5 DEF PlaceOK, Around, Undoing, Shared
  <2>2. /\ q \in Shared \cup {"auditBack", "auditBackFail", "apply",
             "failCheck", "done", "failed"}
        /\ q \in {"auditBack", "auditBackFail"} => Wrapped(d)
    BY <1>5, <2>1 DEF Edge, Leaves, Shared
  <2> QED BY <1>0, <1>5, <2>1, <2>2 DEF PlaceOK, Active, Working, Remote,
             BeforeTry, InTry, InCatch, Shared, Around
<1> QED BY <1>1, <1>2, <1>3, <1>4, <1>5 DEF Kinds

\* Where the deployer stands after its step, and that its place fits.
LEMMA HeldKept ==
    ASSUME RowInv, NEW d \in scope.deployers, Move(d), scope' = scope
    PROVE  HeldOK(d)'
<1>0. /\ d \in Deployers /\ HeldOK(d) /\ RowsOK /\ RowsMonotone(d)
      /\ scope.kind \in Kinds /\ scope.files \in Nat \ {0}
      /\ pc \in [Deployers -> Working \cup Ended \cup {"idle"}]
      /\ op \in [Deployers -> {"deploy", "rollback"}]
      /\ rel \in [Deployers -> Releases \cup {NoRel}]
      /\ prev \in [Deployers -> Rows \cup {None}]
      /\ mine \in [Deployers -> Rows \cup {None}]
      /\ copied \in [Deployers -> 0..scope.files]
  BY MoveFrame, RowsKept, InvOf DEF RowInv, TypesOK, TypeOK, ScopeOK
<1>1. CASE BeginMove(d)
  <2>1. PICK o \in {"deploy", "rollback"} :
          /\ op' = [op EXCEPT ![d] = o]
          /\ \/ /\ pc' = [pc EXCEPT ![d] = "aborted"]
                /\ UNCHANGED <<rel, prev, copied, clean>>
             \/ /\ pc' = [pc EXCEPT ![d] = IF IsCloud /\ o = "rollback"
                                             THEN "auditBegin" ELSE "lookup"]
                /\ rel'[d] \in Releases \/ (scope.kind = "k8s" /\ o =
                     "rollback")
                /\ prev'[d] = None
                /\ copied'[d] = 0
    BY <1>0, <1>1 DEF BeginMove
  <2>2. mine'[d] = None /\ op'[d] = o
    BY <1>0, <1>1, <2>1 DEF BeginMove
  <2>3. CASE pc'[d] = "aborted"
    BY <1>0, <2>1, <2>2, <2>3 DEF HeldOK, RowsMonotone, Active, Working,
       BeforeTry, InTry,
       InCatch, Remote, Rowless, Fresh, Untried, Standing, Catching
  <2>4. CASE pc'[d] # "aborted"
    <3>1. pc'[d] \in {"auditBegin",
              "lookup"} /\ (pc'[d] = "auditBegin" => Wrapped(d)')
      BY <1>0, <2>1, <2>2, <2>4 DEF Wrapped, IsCloud
    <3>2. PlaceOK(d)'
      BY <1>0, <3>1 DEF PlaceOK, BeforeTry, Shared, Around, Undoing, Wrapped,
         IsCloud
    <3> QED
      BY <1>0, <2>1, <2>2, <2>4, <3>1, <3>2 DEF HeldOK, Rowless, Fresh,
         Untried, Standing, Catching,
         Undoing
  <2> QED BY <2>3, <2>4
<1>2. CASE LookMove(d)
  <2>1. /\ pc'[d] \in {"aborted", "undo", "create"}
        /\ pc'[d] = "undo" => Undoing(d) /\ prev'[d] # None
        /\ pc'[d] = "create" => ~Undoing(d)
        /\ prev'[d] # None => prev'[d] \in ActiveRows \/ prev'[d] = prev[d]
        /\ op'[d] = op[d] /\ rel'[d] = rel[d] /\ mine'[d] =
             mine[d] /\ copied'[d] = copied[d]
        /\ pc[d] = "lookup" /\ mine[d] = None
    BY <1>0, <1>2 DEF LookMove, Returns, Goto, HeldOK, Rowless, ActiveRows,
       Rows, None
  <2>2. Undoing(d)' = Undoing(d)
    BY <2>1 DEF Undoing
  <2>3. prev'[d] # None => prev'[d] \in everActive'
    BY <1>0, <2>1 DEF RowsMonotone, RowsOK, ActiveRows, Good, HeldOK
  <2>4. Active(d) /\ PlaceOK(d)
    BY <1>0, <2>1 DEF HeldOK, Active, Working, BeforeTry
  <2>5. Active(d)' => PlaceOK(d)'
    BY <1>0, <2>1, <2>2, <2>4 DEF PlaceOK, BeforeTry, Shared, Undoing, Active,
       Working, InTry, InCatch, Remote
  <2> QED
    BY <1>0, <2>1, <2>2, <2>3, <2>4, <2>5 DEF HeldOK, Rowless, Fresh, Untried,
       Standing, Catching
<1>3. CASE CreateMove(d)
  <2>1. PICK r \in Rows : NewRow(d, r) /\ mine' = [mine EXCEPT ![d] = r]
    BY <1>3 DEF CreateMove
  <2>2. /\ pc[d] = "create" /\ pc'[d] = "auditStart" /\ mine'[d] =
             r /\ op'[d] = op[d]
        /\ rel'[d] = rel[d] /\ prev'[d] = prev[d] /\ copied'[d] = copied[d]
    BY <1>0, <1>3, <2>1 DEF CreateMove, Returns, Goto
  <2>3. Active(d) /\ PlaceOK(d) /\ ~Undoing(d)
    BY <1>0, <2>2 DEF HeldOK, Active, Working, BeforeTry, PlaceOK
  <2>4. PlaceOK(d)' /\ ~Undoing(d)'
    BY <1>0, <2>2, <2>3 DEF PlaceOK, BeforeTry, Shared, Undoing
  <2>5. r \in Inserted' /\ relOf'[r] = rel[d] /\ r # None /\ r \notin Inserted
    BY <2>1, MoveFrame, RowsKept, <1>0 DEF NewRow, Inserted, RowInv, TypesOK,
       TypeOK, Rows, None
  <2>6. prev[d] < r
    <3>1. CASE prev[d] = None
      BY <3>1 DEF None, Rows
    <3>2. CASE prev[d] # None
      <4>1. prev[d] \in Inserted /\ prev[d] \in Rows
        BY <1>0, <3>2 DEF HeldOK, RowsOK, Inserted
      <4> QED BY <1>0, <2>5, <4>1 DEF RowsOK, Rows
    <3> QED BY <3>1, <3>2
  <2> QED
    BY <1>0, <2>2, <2>3, <2>4, <2>5, <2>6 DEF HeldOK, RowsMonotone, Rowless,
       Fresh, Untried, Standing, Catching
\* The other moves change nothing the deployer holds.
<1>a. ASSUME Holds
      PROVE  /\ op'[d] = op[d] /\ rel'[d] = rel[d] /\ prev'[d] = prev[d]
             /\ mine'[d] = mine[d]
             /\ Undoing(d)' = Undoing(d) /\ Wrapped(d)' = Wrapped(d)
             /\ prev'[d] # None => prev'[d] \in everActive'
             /\ mine'[d] # None => /\ mine'[d] \in Inserted'
                                   /\ prev'[d] < mine'[d]
                                   /\ relOf'[mine'[d]] = rel'[d]
             /\ Undoing(d)' => mine'[d] = None
  BY <1>0, <1>a DEF Holds, Undoing, Wrapped, IsCloud, HeldOK, RowsMonotone
<1>4. CASE CallMove(d)
  <2>1. PICK q \in Working \cup Ended : Edge(d, q) /\ pc'[d] = q
    BY <1>0, <1>4 DEF CallMove, Returns, Goto
  <2>2. /\ Active(d) /\ PlaceOK(d) /\ Holds
        /\ pc[d] \notin {"lookup", "create", "auditUnready"}
        /\ pc[d] # "stage" => copied'[d] = copied[d]
        /\ pc[d] = "stage" => (pc'[d] = "stage" => copied'[d] < scope.files)
    BY <1>0, <1>4 DEF CallMove, HeldOK
  <2>3. Active(d)' => PlaceOK(d)'
    BY <1>0, <1>a, <2>1, <2>2, EdgePlace
  <2>a. EdgeClass(d, q)
    BY <1>0, <2>1, <2>2, EdgeClasses
  <2>4. /\ pc'[d] \in Rowless => mine'[d] = None
        /\ pc'[d] \in Fresh \cup Standing \cup Catching \cup {"auditFail"} =>
             mine'[d] # None
        /\ pc'[d] \in {"auditBack", "done"} => Undoing(d)' \/ mine'[d] # None
        /\ pc'[d] \in {"supersede", "undo", "markBack"} => prev'[d] # None
        /\ pc'[d] \in {"auditBegin", "lookup"} => prev'[d] = None
    <3>1. CASE pc[d] \in {"auditBegin", "undo", "markBack"}
      <4>1. /\ pc'[d] \in {"lookup", "markBack", "auditBack"}
            /\ pc'[d] = "lookup" => pc[d] = "auditBegin"
            /\ pc'[d] = "markBack" => pc[d] = "undo"
            /\ pc'[d] = "auditBack" => Undoing(d)
        BY <2>1, <2>a, <3>1 DEF EdgeClass
      <4>2. /\ mine[d] = None /\ (pc[d] = "undo" => prev[d] # None)
            /\ pc[d] = "auditBegin" => prev[d] = None
        BY <1>0, <3>1 DEF HeldOK, Rowless
      <4> QED BY <1>a, <2>2, <4>1, <4>2 DEF Fresh, Untried, Standing, Catching
    <3>2. CASE pc[d] \in {"auditBack", "auditFail", "auditBackFail"}
      <4>1. /\ pc'[d] \in {"done", "auditBackFail", "failed"}
            /\ pc'[d] = "done" => pc[d] = "auditBack"
        BY <2>1, <2>a, <3>2 DEF EdgeClass
      <4>2. pc[d] = "auditBack" => Undoing(d) \/ mine[d] # None
        BY <1>0 DEF HeldOK
      <4> QED BY <1>a, <2>2, <4>1, <4>2 DEF Rowless, Fresh, Untried, Standing,
                 Catching
    <3>3. CASE pc[d] \in Fresh \cup Standing \cup Catching
      <4>1. mine[d] # None
        BY <1>0, <3>3 DEF HeldOK
      <4>2. q \notin Rowless
        BY <2>a, <3>3 DEF EdgeClass, Rowless, Fresh, Untried, Standing, Catching
      <4>3. q = "supersede" => prev[d] # None
        BY <2>a, <3>3 DEF EdgeClass, Fresh, Untried, Standing, Catching
      <4> QED BY <1>a, <2>1, <2>2, <4>1, <4>2, <4>3 DEF Rowless
    <3> QED BY <2>a, <3>1, <3>2, <3>3 DEF EdgeClass
  <2>5. /\ pc'[d] \in {"auditBegin", "lookup", "create", "auditStart",
             "checkpoint", "deploying"} =>
             pc[d] \in {"auditBegin", "auditStart", "checkpoint"}
        /\ pc'[d] = "stage" => pc[d] \in {"deploying", "stage"}
    BY <2>1, <2>a DEF EdgeClass, Fresh, Untried, Standing, Catching
  <2>6. /\ pc'[d] \in {"auditBegin", "lookup", "create", "auditStart",
             "checkpoint", "deploying"} => copied'[d] = 0
        /\ pc'[d] = "stage" => copied'[d] < scope.files
    BY <1>0, <2>2, <2>5 DEF HeldOK
  <2> QED BY <1>0, <1>a, <2>2, <2>3, <2>4, <2>5, <2>6 DEF HeldOK, Active
<1>5. CASE TurnMove(d)
  <2>1. /\ pc'[d] \in {"restore", "recheck", "closeFail", "failCheck",
             "markUnready", "aborted", "auditBackFail", "failed"}
        /\ pc'[d] \in {"restore", "closeFail", "failCheck"} => CatchesAt(pc'[d])
        /\ pc'[d] = "recheck" => scope.kind = "k8s"
        /\ pc'[d] = "markUnready" => pc[d] = "ready"
        /\ pc'[d] = "auditBackFail" => Wrapped(d)
        /\ pc'[d] \in {"restore", "recheck", "closeFail",
             "failCheck"} => pc[d] \in Fresh
        /\ Holds /\ copied'[d] = copied[d]
        /\ Active(d)
    BY <1>0, <1>5 DEF TurnMove, CatchesAt, Returns, Goto, Kinds, Catching,
       Fresh, Untried, Active, Working, InTry, Remote
  <2>2. PlaceOK(d)
    BY <1>0, <2>1 DEF HeldOK
  <2>3. Active(d)' => PlaceOK(d)'
    BY <1>0, <1>a, <2>1, <2>2 DEF PlaceOK, Shared, Around, Undoing, Wrapped,
       IsCloud, CatchesAt,
       Kinds, BeforeTry, InTry, InCatch, Remote, Active, Working, Fresh, Untried
  <2>4. pc'[d] \in Fresh \cup Standing \cup Catching \cup {"auditFail"} =>
            mine'[d] # None
    BY <1>0, <1>a, <2>1 DEF HeldOK, Fresh, Untried, Standing, Catching
  <2> QED BY <1>0, <1>a, <2>1, <2>3, <2>4 DEF HeldOK, Active, Rowless
<1>6. CASE ErrorMove(d)
  <2>1. PICK q \in Working \cup Ended : ErrorEdge(d, q) /\ pc'[d] = q
    BY <1>0, <1>6 DEF ErrorMove, Goto
  <2>2. /\ Active(d) /\ PlaceOK(d) /\ Holds /\ pc[d] \notin {"close",
             "closeFail"}
        /\ copied'[d] = copied[d]
    BY <1>0, <1>6 DEF ErrorMove, HeldOK
  <2>3. /\ q \in {"aborted", "auditBackFail", "restore", "recheck",
             "closeFail", "failCheck", "discard", "markFailed",
                   "auditFail", "failed", "broken"}
        /\ q = "auditBackFail" => Wrapped(d)
        /\ q \in {"restore", "recheck", "closeFail",
             "failCheck"} => CatchesAt(q) /\ pc[d] \in Fresh \cup Standing
        /\ q \in {"discard", "markFailed",
             "auditFail"} => scope.kind = "vm" /\ pc[d] \in Catching
    BY <1>0, <2>1, <2>2 DEF ErrorEdge, CatchesAt, Leaves, PlaceOK, Shared,
       Around, Undoing,
       Kinds, BeforeTry, InTry, InCatch, Rowless, Fresh, Untried, Standing,
       Catching
  <2>4. Active(d)' => PlaceOK(d)'
    BY <1>0, <1>a, <2>1, <2>2, <2>3 DEF PlaceOK, Shared, Around, Undoing,
       Wrapped, IsCloud, CatchesAt,
       Kinds, BeforeTry, InTry, InCatch, Remote, Active, Working, Fresh,
       Untried, Standing
  <2>5. pc'[d] \in Fresh \cup Standing \cup Catching \cup {"auditFail"} =>
            mine'[d] # None
    <3>1. pc[d] \in Fresh \cup Standing \cup Catching => mine[d] # None
      BY <1>0 DEF HeldOK
    <3>2. q \in Fresh \cup Standing \cup Catching \cup {"auditFail"} =>
            pc[d] \in Fresh \cup Standing \cup Catching
      BY <2>3 DEF Fresh, Untried, Standing, Catching
    <3> QED BY <1>a, <2>1, <2>2, <3>1, <3>2
  <2> QED BY <1>0, <1>a, <2>1, <2>2, <2>3, <2>4, <2>5 DEF HeldOK, Active,
             Rowless
<1>7. CASE KillMove(d)
  <2>1. pc'[d] = "killed" /\ Holds /\ Active(d)
    BY <1>0, <1>7 DEF KillMove, Goto
  <2> QED BY <1>0, <1>a, <2>1 DEF HeldOK, Active, Working, BeforeTry, InTry,
             InCatch, Remote,
             Rowless, Fresh, Untried, Standing, Catching
<1> QED BY <1>1, <1>2, <1>3, <1>4, <1>5, <1>6, <1>7 DEF Move

\* What the update a deployer has come to does to its own row.
LEMMA OwnRow ==
    ASSUME RowInv, NEW d \in scope.deployers, Active(d),
           RowCall(d) \/ (pc[d] \notin Updates /\ NoRows), mine[d] # None
    PROVE  /\ pc[d] = "activate" => status'[mine[d]] = "active"
           /\ pc[d] \in {"markFailed", "markUnready"} =>
                status'[mine[d]] = "failed"
           /\ pc[d] # "activate" => everActive' = everActive
           /\ pc[d] \notin Updates =>
                status'[mine[d]] = status[mine[d]] /\ ActiveRows' = ActiveRows
<1>0. /\ mine[d] \in Rows /\ status \in [Rows -> Statuses]
  BY InvOf DEF RowInv, TypesOK, TypeOK
<1>1. CASE NoRows /\ pc[d] \notin Updates
  BY <1>1 DEF NoRows, Updates, ActiveRows
<1>2. CASE RowCall(d)
  BY <1>0, <1>2 DEF RowCall, Sets, Updates
<1> QED BY <1>1, <1>2

LEMMA FateKept ==
    ASSUME RowInv, NEW d \in scope.deployers, Move(d), scope' = scope
    PROVE  FateOK(d)'
<1>0. /\ d \in Deployers /\ HeldOK(d) /\ FateOK(d) /\ RowsOK
      /\ scope.kind \in Kinds
      /\ op[d] \in {"deploy", "rollback"}
      /\ pc \in [Deployers -> Working \cup Ended \cup {"idle"}]
      /\ mine \in [Deployers -> Rows \cup {None}]
      /\ status \in [Rows -> Statuses] /\ errors \in Nat
  BY InvOf DEF RowInv, TypesOK, TypeOK
<1>a. ASSUME Holds
      PROVE  mine'[d] = mine[d] /\ Wrapped(d)' = Wrapped(d)
  BY <1>a DEF Holds, Wrapped, IsCloud
<1>1. CASE BeginMove(d)
  <2>1. pc'[d] \in {"aborted", "auditBegin", "lookup"}
    BY <1>0, <1>1 DEF BeginMove
  <2> QED BY <2>1 DEF FateOK, Fresh, Untried, Standing, Catching, Caught
<1>2. CASE LookMove(d)
  <2>1. pc'[d] \in {"aborted", "undo", "create"}
    BY <1>0, <1>2 DEF LookMove, Returns, Goto
  <2> QED BY <2>1 DEF FateOK, Fresh, Untried, Standing, Catching, Caught
<1>3. CASE CreateMove(d)
  <2>1. PICK r \in Rows : NewRow(d, r) /\ mine' = [mine EXCEPT ![d] = r]
    BY <1>3 DEF CreateMove
  <2>2. pc'[d] = "auditStart" /\ mine'[d] = r
    BY <1>0, <1>3, <2>1 DEF CreateMove, Returns, Goto
  <2>3. r \notin everActive'
    BY <1>0, <2>1 DEF NewRow, RowsOK, Inserted
  <2> QED BY <2>2, <2>3 DEF FateOK, Fresh, Untried, Standing, Catching, Caught
<1>4. CASE CallMove(d)
  <2>1. PICK q \in Working \cup Ended : Edge(d, q) /\ pc'[d] = q
    BY <1>0, <1>4 DEF CallMove, Returns, Goto
  <2>2. /\ Active(d) /\ PlaceOK(d) /\ Holds /\ errors' = errors
        /\ pc[d] \notin {"lookup", "create", "auditUnready"}
        /\ RowCall(d) \/ (pc[d] \notin Updates /\ NoRows)
    BY <1>0, <1>4 DEF CallMove, HeldOK, Returns
  <2>3. EdgeClass(d, q)
    BY <1>0, <2>1, <2>2, EdgeClasses
  <2>4. mine'[d] = mine[d] /\ Wrapped(d)' = Wrapped(d)
    BY <1>a, <2>2
  <2>5. CASE mine[d] = None
    <3>1. pc[d] \notin Fresh \cup Standing \cup Catching \cup {"auditFail"}
      BY <1>0, <2>5 DEF HeldOK
    <3>2. q \notin Fresh \cup Catching
      BY <2>3, <3>1 DEF EdgeClass, Fresh, Untried, Standing, Catching
    <3> QED BY <2>1, <2>4, <2>5, <3>2 DEF FateOK
  <2>6. CASE mine[d] # None /\ pc[d] \in Fresh \ {"activate"}
    <3>1. q \in Fresh
      BY <2>3, <2>6 DEF EdgeClass, Fresh, Untried
    <3>2. mine[d] \notin everActive'
      BY <1>0, <2>2, <2>6, OwnRow DEF FateOK
    <3> QED BY <2>1, <2>4, <3>1, <3>2 DEF FateOK, Fresh, Untried, Standing,
               Catching, Caught
  <2>7. CASE mine[d] # None /\ pc[d] \in {"activate", "auditBack"} \cup Standing
    <3>1. q \in Standing \cup {"auditBack", "done"}
      BY <2>3, <2>7 DEF EdgeClass, Standing
    <3>2. status'[mine[d]] \in Good
      BY <1>0, <2>2, <2>7, OwnRow DEF FateOK, Good, Standing, Updates
    <3> QED BY <2>1, <2>4, <3>1, <3>2 DEF FateOK, Fresh, Untried, Standing,
               Catching, Caught
  <2>8. CASE mine[d] # None /\ pc[d] \in Catching \ {"markFailed"}
    <3>1. q \in Catching
      BY <2>3, <2>8 DEF EdgeClass, Catching
    <3>2. errors' = 0 => mine[d] \notin everActive'
      BY <1>0, <2>2, <2>8, OwnRow DEF FateOK, Catching
    <3> QED BY <2>1, <2>4, <3>1, <3>2 DEF FateOK, Fresh, Untried, Standing,
               Catching, Caught
  <2>9. CASE mine[d] # None /\ pc[d] \in {"markFailed", "auditFail",
            "auditBackFail"}
    <3>1. q \in {"auditFail", "auditBackFail", "failed"}
      BY <2>3, <2>9 DEF EdgeClass
    <3>2. errors' <= 1 /\ ~Wrapped(d) => status'[mine[d]] # "active"
      <4>1. pc[d] = "auditBackFail" => Wrapped(d)
        BY <1>0, <2>2 DEF PlaceOK, Around, Shared, Kinds, Undoing, BeforeTry,
           InTry, InCatch
      <4> QED BY <1>0, <2>2, <2>9, <4>1, OwnRow DEF FateOK, Caught, Updates
    <3> QED BY <2>1, <2>4, <3>1, <3>2 DEF FateOK, Fresh, Untried, Standing,
               Catching, Caught
  <2>10. CASE pc[d] \in {"auditBegin", "undo", "markBack"}
    <3>1. mine[d] = None
      BY <1>0, <2>10 DEF HeldOK, Rowless
    <3> QED BY <2>5, <3>1
  <2> QED BY <2>3, <2>5, <2>6, <2>7, <2>8, <2>9, <2>10 DEF EdgeClass
<1>5. CASE TurnMove(d)
  <2>1. mine'[d] = mine[d] /\ NoRows /\ errors' = errors /\ Wrapped(d)' =
            Wrapped(d)
    BY <1>5, <1>a DEF TurnMove, Returns
  <2>2. \/ pc'[d] \in Catching /\ pc[d] \in Fresh
        \/ pc'[d] = "markUnready" /\ pc[d] \in Fresh
        \/ pc'[d] = "aborted"
        \/ pc'[d] \in {"auditBackFail", "failed"} /\ status[mine[d]] = "failed"
    BY <1>0, <1>5 DEF TurnMove, Returns, Goto, Fresh, Untried
  <2>3. CASE pc[d] \in Fresh /\ pc'[d] \in Catching \cup {"markUnready"}
    <3>1. mine[d] \notin everActive'
      BY <1>0, <2>1, <2>3 DEF FateOK, NoRows
    <3> QED BY <2>1, <2>3, <3>1 DEF FateOK, Fresh, Untried, Standing, Catching,
               Caught
  <2>4. CASE pc'[d] \in {"aborted", "auditBackFail", "failed"}
    BY <2>1, <2>2, <2>4 DEF FateOK, Fresh, Untried, Standing, Catching, Caught,
       NoRows
  <2> QED BY <2>2, <2>3, <2>4
<1>6. CASE ErrorMove(d)
  <2>1. PICK q \in Working \cup Ended : ErrorEdge(d, q) /\ pc'[d] = q
    BY <1>0, <1>6 DEF ErrorMove, Goto
  <2>2. /\ Active(d) /\ PlaceOK(d) /\ Holds /\ errors' = errors + 1
        /\ pc[d] \notin {"close", "closeFail"}
    BY <1>0, <1>6 DEF ErrorMove, HeldOK
  <2>3. mine'[d] = mine[d] /\ Wrapped(d)' = Wrapped(d)
    BY <1>a, <2>2
  <2>4. /\ q \notin Fresh \cup Standing \cup {"auditBack", "done"}
        /\ q \in Caught =>
             \/ Wrapped(d)
             \/ pc[d] = "auditFail"
             \/ pc[d] \in Catching
    BY <1>0, <2>1, <2>2 DEF ErrorEdge, CatchesAt, Leaves, PlaceOK, Shared,
       Around, Undoing,
       Kinds, BeforeTry, InTry, InCatch, Rowless, Fresh, Untried, Standing,
       Catching, Caught
  <2>5. pc[d] \in Catching
            \cup {"auditFail"} /\ mine[d] # None /\ errors' <= 1 /\ ~Wrapped(d)
            => status'[mine[d]] # "active"
    <3>1. SUFFICES ASSUME pc[d] \in Catching \cup {"auditFail"},
              mine[d] # None, errors' <= 1, ~Wrapped(d)
                   PROVE  status'[mine[d]] # "active"
      OBVIOUS
    <3>2. status[mine[d]] # "active"
      BY <1>0, <2>2, <3>1 DEF FateOK, RowsOK, Good, Caught
    <3>3. pc[d] \notin {"activate", "create"}
      BY <3>1 DEF Catching
    <3>4. mine[d] \in Rows
      BY <1>0, <3>1
    <3>5. CASE NoRows
      BY <3>2, <3>5 DEF NoRows
    <3>6. CASE RowCall(d)
      BY <1>0, <3>1, <3>2, <3>3, <3>4, <3>6 DEF RowCall, Sets, Catching
    <3> QED BY <1>6, <3>3, <3>5, <3>6 DEF ErrorMove
  <2> QED BY <1>0, <2>1, <2>2, <2>3, <2>4, <2>5 DEF FateOK
<1>7. CASE KillMove(d)
  <2>1. pc'[d] = "killed"
    BY <1>0, <1>7 DEF KillMove, Goto
  <2> QED BY <2>1 DEF FateOK, Fresh, Untried, Standing, Catching, Caught
<1> QED BY <1>1, <1>2, <1>3, <1>4, <1>5, <1>6, <1>7 DEF Move

\* An update makes a row active or takes it from the active ones.
LEMMA SetsActive ==
    ASSUME RowInv, NEW r \in Rows, NEW s, Sets(r, s)
    PROVE  /\ status'[r] = s /\ \A q \in Rows \ {r} : status'[q] = status[q]
           /\ ActiveRows' = IF s = "active" THEN ActiveRows \cup {r}
                                            ELSE ActiveRows \ {r}
<1>1. status \in [Rows -> Statuses]
  BY DEF RowInv, TypesOK, TypeOK
<1>2. status'[r] = s /\ \A q \in Rows \ {r} : status'[q] = status[q]
  BY <1>1 DEF Sets
<1> QED BY <1>2 DEF ActiveRows

\* The updates before activation and after a failure, of a row that was never
\* active, leave the active rows alone.
LEMMA QuietUpdate ==
    ASSUME RowInv, NEW d \in scope.deployers, Active(d),
           RowCall(d) \/ (pc[d] \notin Updates /\ NoRows), mine[d] # None,
           pc[d] \notin {"supersede", "activate", "markBack"}
    PROVE  /\ \A r \in Rows \ {mine[d]} : status'[r] = status[r]
           /\ everActive' = everActive
           /\ ActiveRows' \subseteq ActiveRows
           /\ mine[d] \notin everActive => ActiveRows' = ActiveRows
<1>0. /\ mine[d] \in Rows /\ RowsOK
  BY InvOf DEF RowInv, TypesOK, TypeOK
<1>1. CASE NoRows
  BY <1>1 DEF NoRows, ActiveRows
<1>2. CASE RowCall(d)
  <2>1. PICK s \in {"deploying", "failed"} : Sets(mine[d], s)
    BY <1>2 DEF RowCall
  <2>2. mine[d] \notin everActive => mine[d] \notin ActiveRows
    BY <1>0 DEF RowsOK, ActiveRows, Good
  <2>3. everActive' = everActive
    BY <2>1 DEF Sets
  <2>4. /\ \A r \in Rows \ {mine[d]} : status'[r] = status[r]
        /\ ActiveRows' = ActiveRows \ {mine[d]}
    BY <1>0, <2>1, SetsActive
  <2> QED BY <2>2, <2>3, <2>4
<1> QED BY <1>1, <1>2

LEMMA AloneKept ==
    ASSUME RowInv, NEW d \in scope.deployers, Move(d), scope' = scope
    PROVE  AloneOK(d)'
<1> SUFFICES ASSUME Serial
             PROVE  AloneOK(d)'
  BY DEF AloneOK, Serial
<1>0. /\ d \in Deployers /\ HeldOK(d) /\ FateOK(d) /\ AloneOK(d) /\ RowsOK
      /\ scope.kind \in Kinds
      /\ op[d] \in {"deploy", "rollback"}
      /\ pc \in [Deployers -> Working \cup Ended \cup {"idle"}]
      /\ mine \in [Deployers -> Rows \cup {None}]
      /\ prev \in [Deployers -> Rows \cup {None}]
      /\ clean \in [Deployers -> BOOLEAN]
      /\ status \in [Rows -> Statuses]
  BY InvOf DEF RowInv, TypesOK, TypeOK
<1> DEFINE Kept == (Fresh \ {"activate"}) \cup Catching
                     \cup {"create", "auditFail", "auditBackFail", "failed"}
<1>a. ASSUME NEW q, Returns(d, q)
      PROVE  pc'[d] = q /\ clean'[d] = clean[d]
  BY <1>0, <1>a DEF Returns, Goto
<1>1. CASE BeginMove(d)
  <2>1. pc'[d] \in {"aborted", "auditBegin", "lookup"}
    BY <1>0, <1>1 DEF BeginMove
  <2> QED BY <2>1 DEF AloneOK, Fresh, Untried, Standing, Catching
<1>2. CASE LookMove(d)
  <2>1. /\ pc'[d] \in {"aborted", "undo", "create"}
        /\ ActiveRows' = ActiveRows /\ status' = status
        /\ \/ ActiveRows = {} /\ prev'[d] = prev[d]
           \/ prev'[d] \in ActiveRows
        /\ prev[d] = None
    BY <1>0, <1>2, <1>a DEF LookMove, NoRows, ActiveRows, HeldOK
  <2>2. ActiveRows \subseteq {prev'[d]}
    BY <1>0, <2>1 DEF RowsOK
  <2> QED BY <2>1, <2>2 DEF AloneOK, Fresh, Untried, Standing, Catching,
             ActiveRows
<1>3. CASE CreateMove(d)
  <2>1. PICK r \in Rows : NewRow(d, r) /\ mine' = [mine EXCEPT ![d] = r]
    BY <1>3 DEF CreateMove
  <2>2. /\ pc[d] = "create" /\ pc'[d] = "auditStart" /\ prev'[d] = prev[d]
        /\ clean'[d] = clean[d]
    BY <1>3, <1>a DEF CreateMove
  <2>3. ActiveRows' = ActiveRows
    BY <1>0, <2>1 DEF NewRow, ActiveRows
  <2>4. prev[d] # None => prev[d] \in Rows /\ prev[d] # r
    BY <1>0, <2>1 DEF HeldOK, RowsOK, NewRow, Inserted
  <2>5. prev[d] # None => status'[prev[d]] = status[prev[d]]
    BY <1>0, <2>1, <2>4 DEF NewRow
  <2> QED BY <1>0, <2>2, <2>3, <2>5 DEF AloneOK, Fresh, Untried, Standing,
             Catching
<1>4. CASE CallMove(d)
  <2>1. PICK q \in Working \cup Ended : Edge(d, q) /\ Returns(d, q)
    BY <1>4 DEF CallMove
  <2>2. /\ Active(d) /\ PlaceOK(d)
        /\ pc[d] \notin {"lookup", "create", "auditUnready"}
        /\ RowCall(d) \/ (pc[d] \notin Updates /\ NoRows)
        /\ pc'[d] = q /\ clean'[d] = clean[d]
        /\ mine'[d] = mine[d] /\ prev'[d] = prev[d] /\ Undoing(d)' = Undoing(d)
    BY <1>0, <1>4, <1>a, <2>1 DEF CallMove, HeldOK, Holds, Undoing
  <2>3. EdgeClass(d, q)
    BY <1>0, <2>1, <2>2, EdgeClasses
  <2>4. CASE pc[d] \in Fresh \ {"supersede", "activate"}
    <3>1. mine[d] # None /\ mine[d] \notin everActive /\ prev[d] < mine[d]
      BY <1>0, <2>4 DEF HeldOK, FateOK, Fresh
    <3>2. /\ \A r \in Rows \ {mine[d]} : status'[r] = status[r]
          /\ ActiveRows' = ActiveRows
      BY <2>2, <2>4, <3>1, QuietUpdate DEF Fresh, Untried
    <3>3. prev[d] # None => status'[prev[d]] = status[prev[d]]
      BY <1>0, <3>1, <3>2 DEF Rows
    <3>4. /\ q \in Fresh
          /\ q \in Untried \cup {"supersede", "activate"} => pc[d] \in Untried
          /\ q = "activate" => prev[d] = None
      BY <2>3, <2>4 DEF EdgeClass, Fresh, Untried
    <3>5. clean[d] /\ pc[d] \in Untried => ActiveRows \subseteq {prev[d]}
      BY <1>0 DEF AloneOK
    <3>6. clean[d] /\ q = "activate" => ActiveRows = {}
      BY <3>4, <3>5 DEF ActiveRows, Rows, None
    <3>7. clean[d] /\ prev[d] # None => status[prev[d]] = "active"
      BY <1>0, <2>4 DEF AloneOK, Fresh
    <3> QED BY <2>2, <3>2, <3>3, <3>4, <3>5, <3>6, <3>7 DEF AloneOK, Fresh,
               Untried, Standing, Catching
  <2>5. CASE pc[d] = "supersede"
    <3>1. q = "activate" /\ prev[d] \in Rows /\ Sets(prev[d], "superseded")
      BY <1>0, <2>2, <2>3, <2>5 DEF EdgeClass, HeldOK, RowCall, Updates
    <3>2. ActiveRows' = ActiveRows \ {prev[d]}
      BY <3>1, SetsActive
    <3>3. clean[d] => ActiveRows \subseteq {prev[d]}
      BY <1>0, <2>5 DEF AloneOK
    <3> QED BY <2>2, <3>1, <3>2, <3>3 DEF AloneOK, Fresh, Untried, Standing,
               Catching
  <2>6. CASE pc[d] = "activate"
    <3>1. /\ q \in {"dropCkpt", "auditDone"} /\ mine[d] \in Rows
          /\ ActiveRows \subseteq {mine[d]} /\ Sets(mine[d], "active")
      BY <1>0, <2>2, <2>3, <2>6 DEF EdgeClass, HeldOK, RowCall, Updates, Fresh
    <3>2. ActiveRows' \subseteq {mine[d]}
      BY <3>1, SetsActive
    <3> QED BY <2>2, <3>1, <3>2 DEF AloneOK, Fresh, Untried, Standing, Catching
  <2>7. CASE pc[d] \in Standing \cup {"auditBack"}
    <3>1. ActiveRows' = ActiveRows
      BY <2>2, <2>7 DEF RowCall, Updates, Standing, NoRows, ActiveRows
    <3>2. q \in Standing \cup {"auditBack", "done"}
      BY <2>3, <2>7 DEF EdgeClass, Standing
    <3> QED BY <1>0, <2>2, <2>7, <3>1, <3>2 DEF AloneOK, Fresh, Untried,
               Standing, Catching
  <2>8. CASE pc[d] \in Catching \cup {"auditFail"}
    <3>1. mine[d] # None /\ prev[d] < mine[d]
      BY <1>0, <2>8 DEF HeldOK
    <3>2. \A r \in Rows \ {mine[d]} : status'[r] = status[r]
      BY <2>2, <2>8, <3>1, QuietUpdate DEF Catching
    <3>3. prev[d] # None => status'[prev[d]] = status[prev[d]]
      BY <1>0, <3>1, <3>2 DEF Rows
    <3>4. q \in Catching \cup {"auditFail", "auditBackFail", "failed"}
      BY <2>3, <2>8 DEF EdgeClass, Catching
    <3>5. clean[d] /\ prev[d] # None => status[prev[d]] = "active"
      BY <1>0, <2>8 DEF AloneOK
    <3> QED BY <2>2, <3>3, <3>4, <3>5 DEF AloneOK, Fresh, Untried, Standing,
               Catching
  <2>9. CASE pc[d] = "auditBackFail"
    <3>1. status' = status /\ q \in {"auditBackFail", "failed"}
      BY <2>2, <2>3, <2>9 DEF RowCall, Updates, NoRows, EdgeClass
    <3>2. clean[d] /\ prev[d] # None => status[prev[d]] = "active"
      BY <1>0, <2>9 DEF AloneOK
    <3> QED BY <2>2, <3>1, <3>2 DEF AloneOK, Fresh, Untried, Standing, Catching
  <2>10. CASE pc[d] \in {"auditBegin", "undo", "markBack"}
    <3>1. /\ q \in {"lookup", "markBack", "auditBack"}
          /\ q = "auditBack" => Undoing(d)
      BY <2>3, <2>10 DEF EdgeClass
    <3> QED BY <2>2, <3>1 DEF AloneOK, Fresh, Untried, Standing, Catching
  <2> QED BY <2>3, <2>4, <2>5, <2>6, <2>7, <2>8, <2>9, <2>10 DEF EdgeClass
<1>5. CASE TurnMove(d)
  <2>1. /\ mine'[d] = mine[d] /\ prev'[d] = prev[d] /\ status' = status
        /\ clean'[d] = clean[d]
    BY <1>5, <1>a DEF TurnMove, Holds, NoRows
  <2>2. /\ pc'[d] \in Catching \cup {"markUnready", "aborted", "auditBackFail",
             "failed"}
        /\ pc'[d] # "aborted" => pc[d] \in Fresh \cup Catching
        /\ pc[d] = "activate" => ActiveRows # {}
    BY <1>5, <1>a DEF TurnMove, Fresh, Untried, Catching
  <2>3. clean[d] /\ prev[d] # None /\ pc'[d] # "aborted" => status[prev[d]] =
            "active"
    BY <1>0, <2>2 DEF AloneOK
  <2> QED BY <2>1, <2>2, <2>3 DEF AloneOK, Fresh, Untried, Standing, Catching
<1>6. CASE ErrorMove(d)
  <2>1. PICK q \in Working \cup Ended : ErrorEdge(d,
            q) /\ pc'[d] = q /\ ~clean'[d]
    BY <1>0, <1>6 DEF ErrorMove, Goto
  <2>2. Active(d) /\ PlaceOK(d) /\ pc[d] \notin {"close", "closeFail"}
    BY <1>0, <1>6 DEF ErrorMove, HeldOK
  <2>3. q \notin Standing \cup {"auditBack", "done"}
    BY <1>0, <2>1, <2>2 DEF ErrorEdge, CatchesAt, Leaves, PlaceOK, Shared,
       Around, Undoing,
       Kinds, BeforeTry, InTry, InCatch, Rowless, Fresh, Untried, Standing
  <2> QED BY <2>1, <2>3 DEF AloneOK
<1>7. CASE KillMove(d)
  <2>1. pc'[d] = "killed"
    BY <1>0, <1>7 DEF KillMove, Goto
  <2> QED BY <2>1 DEF AloneOK, Fresh, Untried, Standing, Catching
<1> QED BY <1>1, <1>2, <1>3, <1>4, <1>5, <1>6, <1>7 DEF Move

LEMMA StaysActiveKept ==
    ASSUME RowInv, NEW d \in scope.deployers, Move(d), scope' = scope
    PROVE  StaysActive'
<1>0. /\ d \in Deployers /\ scope.deployers \subseteq Deployers
      /\ HeldOK(d) /\ FateOK(d) /\ StaysActive /\ RowsOK
      /\ errors \in Nat /\ OthersStand(d)
      /\ pc \in [Deployers -> Working \cup Ended \cup {"idle"}]
      /\ mine[d] \in Rows \cup {None} /\ prev[d] \in Rows \cup {None}
      /\ status \in [Rows -> Statuses]
  BY InvOf, MoveFrame DEF RowInv, TypesOK, TypeOK
<1>a. ASSUME Undisturbed, pc[d] # "activate", everActive' = everActive,
             ActiveRows \subseteq ActiveRows',
             \A r \in Rows : status[r] = "rolled_back" => status'[r] =
                 "rolled_back"
      PROVE  StaysActive'
  <2>1. SUFFICES ASSUME everActive # {}
                 PROVE  \/ ActiveRows' # {}
                        \/ \E r \in Rows : status'[r] = "rolled_back"
                        \/ \E e \in scope.deployers : pc'[e] = "activate"
    BY <1>a DEF StaysActive
  <2>2. \/ ActiveRows # {}
        \/ \E r \in Rows : status[r] = "rolled_back"
        \/ \E e \in scope.deployers : pc[e] = "activate"
    BY <1>0, <1>a, <2>1 DEF StaysActive
  <2>3. ASSUME NEW e \in scope.deployers, pc[e] = "activate"
        PROVE  pc'[e] = "activate"
    BY <1>0, <1>a, <2>3 DEF OthersStand
  <2> QED BY <1>a, <2>2, <2>3
<1>b. ASSUME NoRows
      PROVE  everActive' = everActive /\ ActiveRows' = ActiveRows /\ status' =
          status
  BY <1>b DEF NoRows, ActiveRows
<1>1. CASE BeginMove(d) \/ LookMove(d)
  <2>1. NoRows /\ pc[d] # "activate" /\ UNCHANGED <<errors, killed>>
    BY <1>1 DEF BeginMove, LookMove, Returns, Active, Working, InTry
  <2> QED BY <1>a, <1>b, <2>1 DEF StaysActive, Undisturbed
<1>2. CASE CreateMove(d)
  <2>1. PICK r \in Rows : NewRow(d, r)
    BY <1>2 DEF CreateMove
  <2>2. pc[d] # "activate" /\ (Undisturbed' => Undisturbed) /\ everActive' =
            everActive
    BY <1>2, <2>1 DEF CreateMove, Returns, NewRow, Undisturbed
  <2>3. \A q \in Rows : status[q] \in {"active",
            "rolled_back"} => status'[q] = status[q]
    BY <1>0, <2>1 DEF NewRow
  <2> QED BY <1>a, <2>2, <2>3 DEF StaysActive, ActiveRows
<1>3. CASE CallMove(d)
  <2>1. /\ Active(d) /\ (Undisturbed' => Undisturbed)
        /\ RowCall(d) \/ (pc[d] \notin Updates /\ NoRows)
    BY <1>3 DEF CallMove, Returns, Undisturbed
  <2>2. CASE pc[d] = "activate"
    <3>1. mine[d] \in Rows /\ Sets(mine[d], "active")
      BY <1>0, <2>1, <2>2 DEF HeldOK, Fresh, RowCall, Updates
    <3>2. mine[d] \in ActiveRows'
      BY <3>1, SetsActive DEF ActiveRows
    <3> QED BY <3>2 DEF StaysActive
  <2>3. CASE pc[d] = "supersede"
    <3>1. pc'[d] = "activate"
      BY <1>0, <1>3, <2>3 DEF CallMove, Edge, Returns, Goto
    <3> QED BY <3>1 DEF StaysActive
  <2>4. CASE pc[d] = "markBack"
    <3>1. prev[d] \in Rows /\ Sets(prev[d], "rolled_back")
      BY <1>0, <2>1, <2>4 DEF HeldOK, RowCall, Updates
    <3>2. status'[prev[d]] = "rolled_back"
      BY <3>1, SetsActive
    <3> QED BY <3>1, <3>2 DEF StaysActive
  <2>5. CASE pc[d] \notin Updates
    BY <1>a, <1>b, <2>1, <2>5 DEF StaysActive, RowCall, Updates
  <2>6. CASE pc[d] \in {"deploying", "markUnready", "markFailed"}
    <3>1. SUFFICES ASSUME Undisturbed
                   PROVE  StaysActive'
      BY <2>1 DEF StaysActive
    <3>2. mine[d] # None /\ mine[d] \notin everActive
      BY <1>0, <2>6, <3>1 DEF HeldOK, FateOK, Fresh, Untried, Catching,
         Undisturbed
    <3>3. /\ \A r \in Rows \ {mine[d]} : status'[r] = status[r]
          /\ everActive' = everActive /\ ActiveRows' = ActiveRows
      BY <2>1, <2>6, <3>2, QuietUpdate
    <3>4. status[mine[d]] # "rolled_back"
      BY <1>0, <3>2 DEF RowsOK, Good
    <3> QED BY <1>a, <2>6, <3>1, <3>3, <3>4
  <2> QED BY <2>2, <2>3, <2>4, <2>5, <2>6 DEF Updates
<1>4. CASE TurnMove(d)
  <2>1. NoRows /\ UNCHANGED <<errors, killed>>
    BY <1>4 DEF TurnMove, Returns
  <2>2. CASE pc[d] = "activate"
    <3>1. ActiveRows' # {}
      BY <1>4, <1>b, <2>1, <2>2 DEF TurnMove
    <3> QED BY <3>1 DEF StaysActive
  <2>3. CASE pc[d] # "activate"
    BY <1>a, <1>b, <2>1, <2>3 DEF StaysActive, Undisturbed
  <2> QED BY <2>2, <2>3
<1>5. CASE ErrorMove(d)
  <2>1. errors' = errors + 1
    BY <1>5 DEF ErrorMove
  <2> QED BY <1>0, <2>1 DEF StaysActive, Undisturbed
<1>6. CASE KillMove(d)
  <2>1. killed' = TRUE
    BY <1>6 DEF KillMove
  <2> QED BY <2>1 DEF StaysActive, Undisturbed
<1> QED BY <1>1, <1>2, <1>3, <1>4, <1>5, <1>6 DEF Move

-----------------------------------------------------------------------------
(***************************************************************************)
(* What a step does to the image, the checkpoints and the tunnels.         *)
(***************************************************************************)

Own(d) == ckpt[mine[d]]

Taken(d) == [ckpt EXCEPT ![mine[d]] = [taken |-> TRUE, image |-> vm]]

Dropped(d) == [ckpt EXCEPT ![mine[d]] = NoCkpt]

\* The call of runDeploy at pc[d] returns.
ImageReturn(d) ==
    /\ base' = IF pc[d] = "checkpoint" THEN [base EXCEPT ![d] = vm] ELSE base
    /\ pc[d] = "checkpoint" => ckpt' = Taken(d)
    /\ pc[d] \in {"dropCkpt", "discard"} =>
         ckpt' = Dropped(d) \/ (~Own(d).taken /\ ckpt' = ckpt)
    /\ pc[d] \notin {"checkpoint", "dropCkpt", "discard"} => ckpt' = ckpt
    /\ pc[d] = "stage" => vm' = Without(vm, rel[d], copied[d] + 1)
                                    \cup {<<rel[d], copied[d] + 1>>}
    /\ pc[d] = "restore" => vm' = IF Own(d).taken THEN Own(d).image ELSE vm
    /\ pc[d] \notin {"stage", "restore"} => vm' = vm

\* It throws, or the deployer is killed.
ImageError(d) ==
    /\ base' = base
    /\ pc[d] = "checkpoint" => ckpt' \in {ckpt, Taken(d)}
    /\ pc[d] \in {"dropCkpt", "discard"} => ckpt' \in {ckpt, Dropped(d)}
    /\ pc[d] \notin {"checkpoint", "dropCkpt", "discard"} => ckpt' = ckpt
    /\ pc[d] = "stage" => vm' \in {vm, Without(vm, rel[d], copied[d] + 1)}
    /\ pc[d] = "restore" => vm' = vm \/ (Own(d).taken /\ vm' = Own(d).image)
    /\ pc[d] \notin {"stage", "restore"} => vm' = vm

Begun(d) ==
    /\ ~Active(d)
    /\ base' \in {base, [base EXCEPT ![d] = {}]}
    /\ pc'[d] \in {"aborted", "lookup", "auditBegin"}
    /\ UNCHANGED <<vm, ckpt, errors, killed>>

Returned(d) ==
    /\ Active(d) /\ UNCHANGED <<errors, killed>>
    /\ clean'[d] = clean[d]
    /\ pc'[d] # "killed"

Erred(d) ==
    /\ Active(d) /\ errors' = errors + 1 /\ UNCHANGED killed
    /\ clean'[d] = FALSE

Killed(d) == Active(d) /\ killed' /\ clean'[d] = FALSE /\ pc'[d] = "killed"

VmStep(d) ==
    \/ Begun(d)
    \/ Returned(d) /\ ImageReturn(d)
    \/ Erred(d) /\ ImageError(d) /\ pc'[d] = OnError(d)
    \/ Killed(d) /\ ImageError(d)

LEMMA VmStepIs ==
    ASSUME RowInv, NEW d \in scope.deployers, scope.kind = "vm",
           Step(d) \/ Fault(d)
    PROVE  VmStep(d)
<1>0. /\ d \in Deployers /\ clean[d] \in BOOLEAN
      /\ pc \in [Deployers -> Working \cup Ended \cup {"idle"}]
  BY InvOf DEF RowInv, TypesOK, TypeOK
<1>a. ASSUME NEW q, Returns(d, q), q # "killed", Active(d)
      PROVE  Returned(d)
  BY <1>0, <1>a DEF Returns, Goto, Returned
<1>b. ASSUME NEW q, Goto(d, q, FALSE)
      PROVE  clean'[d] = FALSE /\ pc'[d] = q
  BY <1>0, <1>b DEF Goto
<1> USE DEF VmStep, rowVars, vmVars, localVars, callVars, NoEffect
<1>1. CASE BeginDeploy(d) \/ BeginRollback(d)
  BY <1>0, <1>1 DEF BeginDeploy, BeginRollback, Start, Blocked, Begun
<1>2. CASE \/ Lookup(d) \/ Create(d) \/ AuditStart(d) \/ SetDeploying(d)
           \/ Probe(d) \/ Supersede(d) \/ Activate(d) \/ AuditDone(d)
           \/ MarkFailed(d) \/ AuditFail(d)
  <2>1. /\ pc[d] \in {"lookup", "create", "auditStart", "deploying", "probe",
                      "supersede", "activate", "auditDone", "markFailed",
                      "auditFail"}
        /\ UNCHANGED <<vm, ckpt, base>>
    BY <1>2 DEF Lookup, Create, Insert, AuditStart, SetDeploying, Probe,
       Supersede, Activate, AuditDone, MarkFailed, AuditFail, Freely, SetStatus
  <2>2. \E q \in (Working \cup Ended) \ {"killed"} : Returns(d, q)
    BY <1>2 DEF Lookup, Create, AuditStart, SetDeploying, Probe,
       Supersede, Activate, AuditDone, MarkFailed, AuditFail, Working, Ended,
       BeforeTry, InTry, InCatch
  <2>3. Active(d)
    BY <2>1 DEF Active, Working, BeforeTry, InTry, InCatch
  <2> QED BY <1>a, <2>1, <2>2, <2>3 DEF ImageReturn
<1>3. CASE Checkpoint(d)
  <2>1. pc[d] = "checkpoint" /\ Returned(d)
    BY <1>3, <1>a DEF Checkpoint, Active, Working, BeforeTry
  <2> QED BY <1>3, <2>1 DEF Checkpoint, Freely, TakeCheckpoint, ImageReturn,
             Taken
<1>4. CASE Stage(d)
  <2>1. pc[d] = "stage" /\ Returned(d)
    BY <1>4, <1>a DEF Stage, Active, Working, InTry
  <2> QED BY <1>4, <2>1 DEF Stage, CopyFile, ImageReturn
<1>5. CASE DropCheckpoint(d)
  <2>1. pc[d] = "dropCkpt" /\ Returned(d)
    BY <1>5, <1>a DEF DropCheckpoint, Active, Working, InTry
  <2> QED BY <1>5, <2>1 DEF DropCheckpoint, Freely, DeleteCheckpoint,
             ImageReturn, Dropped
<1>6. CASE Restore(d)
  <2>1. pc[d] = "restore" /\ Returned(d)
    BY <1>6, <1>a DEF Restore, Active, Working, InCatch
  <2> QED BY <1>6, <2>1 DEF Restore, Freely, RestoreCheckpoint, ImageReturn, Own
<1>7. CASE Discard(d)
  <2>1. pc[d] = "discard" /\ Returned(d)
    BY <1>7, <1>a DEF Discard, Active, Working, InCatch
  <2> QED BY <1>7, <2>1 DEF Discard, Freely, DeleteCheckpoint, ImageReturn,
             Own, Dropped
<1>8. CASE CallRefused(d)
  BY <1>8, <1>b DEF CallRefused, CallError, Erred, ImageError
<1>9. CASE ErrorAfterEffect(d)
  <2>1. Erred(d) /\ pc'[d] = OnError(d) /\ base' = base
    BY <1>9, <1>b DEF ErrorAfterEffect, CallError, Erred
  <2>2. ImageError(d)
    <3>1. CASE Freely(d)
      BY <2>1, <3>1 DEF Freely, TakeCheckpoint, RestoreCheckpoint,
         DeleteCheckpoint, SetStatus, ImageError, Own, Taken, Dropped
    <3>2. CASE pc[d] = "stage" /\ TearFile(rel[d], copied[d] + 1)
      BY <2>1, <3>2 DEF TearFile, ImageError
    <3>3. CASE \/ pc[d] = "create" /\ \E r \in Rows : Insert(r, rel[d], prev[d])
               \/ pc[d] = "activate" /\ SetStatus(mine[d], "active")
      BY <2>1, <3>3 DEF Insert, SetStatus, ImageError
    <3> QED BY <1>9, <3>1, <3>2, <3>3 DEF ErrorAfterEffect
  <2> QED BY <2>1, <2>2
<1>10. CASE Kill(d)
  BY <1>10, <1>b DEF Kill, TearFile, Killed, ImageError
<1> QED BY <1>1, <1>2, <1>3, <1>4, <1>5, <1>6, <1>7, <1>8, <1>9, <1>10
        DEF Step, Fault

\* What a call of an adapter does to a stack and to its tunnel.
RemoteImage(d) ==
    /\ UNCHANGED ckpt
    /\ base' \in {base, [base EXCEPT ![d] = {}]}
    /\ pc[d] # "apply" \/ scope.kind # "cloud_stack" => vm' = vm
    /\ vm' \in {vm, {}, {<<rel[d], 1>>}}
    /\ pc[d] = "apply" /\ scope.kind = "cloud_stack" =>
         vm' = {<<rel[d], 1>>} \/ pc'[d] \in {"failCheck", "killed"}
    /\ tunnel' \in {tunnel} \cup {[tunnel EXCEPT ![d] = t] :
                                    t \in {"none", "open", "closed",
                                        "signalled"}}
    /\ tunnel'[d] = "open" /\ tunnel[d] # "open" =>
         pc[d] = "connect" /\ pc'[d] = "reach"
    /\ tunnel'[d] = "open" =>
         Active(d) /\ (pc[d] \notin {"close", "closeFail"} \/ pc'[d] = "killed")

LEMMA RemoteImageIs ==
    ASSUME RowInv, NEW d \in scope.deployers, scope.kind # "vm",
           RemoteStep(d) \/ RemoteFault(d)
    PROVE  RemoteImage(d)
<1>0. /\ d \in Deployers /\ scope.kind \in Kinds \ {"vm"}
      /\ op[d] \in {"deploy", "rollback"}
      /\ pc \in [Deployers -> Working \cup Ended \cup {"idle"}]
      /\ tunnel \in [Deployers -> {"none", "open", "closed", "signalled"}]
      /\ Active(d) => PlaceOK(d)
  BY InvOf DEF RowInv, TypesOK, TypeOK, RemoteTypeOK
<1>a. ASSUME Active(d), pc[d] \notin {"close", "closeFail", "apply"},
             UNCHANGED <<vm, ckpt, base, tunnel>>
      PROVE  RemoteImage(d)
  BY <1>a DEF RemoteImage
<1>b. ASSUME NEW p \in Working, pc[d] = p
      PROVE  Active(d)
  BY <1>b DEF Active
<1> USE DEF rowVars, vmVars, localVars, callVars, NoEffect, At
<1>1. CASE RemoteBegin(d) \/ K8sRollback(d) \/ CloudRollback(d)
  <2>1. /\ ~Active(d) /\ tunnel' = [tunnel EXCEPT ![d] = "none"]
        /\ UNCHANGED <<vm, ckpt>>
        /\ base' \in {base, [base EXCEPT ![d] = {}]}
    BY <1>1 DEF RemoteBegin, K8sRollback, CloudRollback, Begins, Start, Blocked
  <2>2. pc[d] # "apply"
    BY <2>1 DEF Active, Working, Remote
  <2> QED BY <1>0, <2>1, <2>2 DEF RemoteImage
<1>2. CASE \/ RemoteAudit(d) \/ RemoteLookup(d) \/ RemoteCreate(d)
           \/ RemoteUpdate(d) \/ RemoteActivate(d) \/ Ready(d)
           \/ MarkUnready(d) \/ AuditUnready(d) \/ ReachInstall(d)
           \/ Recheck(d) \/ Undo(d)
  <2>1. UNCHANGED <<vm, ckpt, base, tunnel>>
    BY <1>2 DEF RemoteAudit, RemoteLookup, RemoteCreate, Insert, RemoteUpdate,
       RowUpdate, SetStatus, RemoteActivate, Ready, MarkUnready, AuditUnready,
       ReachInstall, Recheck, Undo
  <2>2. pc[d] \in Working \ {"close", "closeFail", "apply"}
    BY <1>2 DEF RemoteAudit, RemoteLookup, RemoteCreate, RemoteUpdate,
       RemoteActivate, Ready, MarkUnready, AuditUnready, ReachInstall, Recheck,
       Undo, Working, BeforeTry, InTry, InCatch, Remote
  <2> QED BY <1>a, <1>b, <2>1, <2>2
<1>c. ASSUME Active(d), pc[d] \notin {"markUnready", "auditUnready"},
             Proceeds(d)
      PROVE  /\ Edge(d, After(d)) /\ pc'[d] = After(d)
  BY <1>0, <1>c, RemoteFlow DEF Proceeds, After, Returns, Goto
<1>d. ASSUME Active(d), Throws(d)
      PROVE  CatchesAt(pc'[d])
  BY <1>0, <1>d, RemoteFlow DEF Throws, Returns, Goto
<1>3. CASE Apply(d)
  <2>1. pc[d] = "apply" /\ Active(d) /\ UNCHANGED <<ckpt, base, tunnel>>
    BY <1>3 DEF Apply, Active, Working, Remote
  <2>2. CASE scope.kind = "cloud_stack"
    <3>1. \/ vm' = {<<rel[d], 1>>}
          \/ vm' \in {vm, {}, {<<rel[d], 1>>}} /\ pc'[d] = "failCheck"
      BY <1>3, <1>d, <2>1, <2>2 DEF Apply, CatchesAt
    <3>2. vm' \in {vm, {}, {<<rel[d], 1>>}}
      BY <3>1
    <3> QED BY <2>1, <2>2, <3>1, <3>2 DEF RemoteImage
  <2>3. CASE scope.kind = "k8s"
    BY <1>3, <2>1, <2>3 DEF Apply, RemoteImage
  <2>4. scope.kind # "cloud_vm"
    BY <1>0, <2>1 DEF PlaceOK, Shared, Around
  <2> QED BY <1>0, <2>2, <2>3, <2>4 DEF Kinds
<1>4. CASE Connect(d)
  <2>1. pc[d] = "connect" /\ Active(d) /\ UNCHANGED <<vm, ckpt, base>>
    BY <1>4 DEF Connect, Active, Working, Remote
  <2>2. CASE /\ tunnel' \in {tunnel, [tunnel EXCEPT ![d] = "open"]}
             /\ Proceeds(d)
    <3>1. pc'[d] = "reach"
      BY <1>c, <2>1, <2>2 DEF Edge
    <3> QED BY <2>1, <2>2, <3>1 DEF RemoteImage
  <2>3. CASE tunnel' \in {tunnel, [tunnel EXCEPT ![d] = "signalled"]}
    BY <1>0, <2>1, <2>3 DEF RemoteImage
  <2> QED BY <1>4, <2>2, <2>3 DEF Connect
<1>5. CASE CloseTunnel(d)
  <2>1. /\ pc[d] \in {"close", "closeFail"} /\ Active(d)
        /\ UNCHANGED <<vm, ckpt, base>>
        /\ tunnel' = [tunnel EXCEPT ![d] = IF @ = "open" THEN "closed" ELSE @]
    BY <1>5 DEF CloseTunnel, Active, Working, Remote
  <2>2. tunnel'[d] # "open"
    BY <1>0, <2>1
  <2>3. tunnel' \in {[tunnel EXCEPT ![d] = t] :
                        t \in {"none", "open", "closed", "signalled"}}
    BY <1>0, <2>1
  <2> QED BY <2>1, <2>2, <2>3 DEF RemoteImage
<1>6. CASE RemoteRefused(d) \/ RemoteErrorAfterEffect(d)
  <2>1. /\ Active(d) /\ pc[d] \notin {"close", "closeFail"}
        /\ UNCHANGED <<vm, ckpt, base, tunnel>>
    BY <1>6 DEF RemoteRefused, RemoteErrorAfterEffect, RemoteError, RowUpdate,
       SetStatus, Insert
  <2>2. pc[d] = "apply" /\ scope.kind = "cloud_stack" => pc'[d] = "failCheck"
    <3>1. Active(d) => OnRemoteError(d) = pc'[d]
      BY <1>0, <1>6 DEF RemoteRefused, RemoteErrorAfterEffect, RemoteError, Goto
    <3>2. pc[d] = "apply" => OnRemoteError(d) = Catch(d)[1]
      BY DEF OnRemoteError
    <3>3. CatchesAt(Catch(d)[1])
      BY <1>0, <2>1, RemoteFlow
    <3> QED BY <2>1, <3>1, <3>2, <3>3 DEF CatchesAt
  <2> QED BY <2>1, <2>2 DEF RemoteImage
<1>7. CASE RemoteKill(d)
  <2>1. Active(d) /\ pc'[d] = "killed" /\ UNCHANGED <<ckpt, base, tunnel>>
    BY <1>0, <1>7 DEF RemoteKill, Goto
  <2>2. /\ vm' \in {vm, {}, {<<rel[d], 1>>}}
        /\ pc[d] # "apply" \/ scope.kind # "cloud_stack" => vm' = vm
    BY <1>7 DEF RemoteKill
  <2> QED BY <2>1, <2>2 DEF RemoteImage
<1> QED BY <1>1, <1>2, <1>3, <1>4, <1>5, <1>6, <1>7 DEF RemoteStep, RemoteFault

-----------------------------------------------------------------------------
(***************************************************************************)
(* The invariant is kept: types and rows.                                  *)
(***************************************************************************)

ImageTypes ==
    /\ vm \in Images
    /\ ckpt \in [Rows -> [taken : BOOLEAN, image : Images]]
    /\ base \in [Deployers -> Images]
    /\ tunnel \in [Deployers -> {"none", "open", "closed", "signalled"}]

LEMMA ImageTyped ==
    ASSUME RowInv, NEW d \in scope.deployers, scope' = scope,
           \/ VmStep(d) /\ scope.kind = "vm" /\ UNCHANGED tunnel
           \/ RemoteImage(d)
    PROVE  ImageTypes'
<1>0. /\ d \in Deployers /\ ImageTypes /\ HeldOK(d)
      /\ scope.files \in Nat \ {0} /\ copied[d] \in 0..scope.files
      /\ mine[d] \in Rows \cup {None}
  BY InvOf DEF RowInv, TypesOK, TypeOK, RemoteTypeOK, ScopeOK, ImageTypes
<1>1. Images' = Images /\ {} \in Images
  BY DEF Images, Files
<1>2. CASE RemoteImage(d)
  <2>1. vm' # vm /\ vm' # {} =>
          vm' = {<<rel[d], 1>>} /\ pc[d] = "apply" /\ scope.kind = "cloud_stack"
    BY <1>2 DEF RemoteImage
  <2>2. pc[d] = "apply" /\ scope.kind = "cloud_stack" => rel[d] \in Releases
    BY <1>0 DEF HeldOK, Active, Working, Remote, Undoing
  <2>3. rel[d] \in Releases => {<<rel[d], 1>>} \in Images
    BY <1>0 DEF Images, Files
  <2>4. vm' \in Images
    BY <1>0, <1>1, <2>1, <2>2, <2>3 DEF ImageTypes
  <2>5. base' \in [Deployers -> Images]
    BY <1>0, <1>1, <1>2 DEF ImageTypes, RemoteImage
  <2>6. tunnel' \in [Deployers -> {"none", "open", "closed", "signalled"}]
    BY <1>0, <1>2 DEF ImageTypes, RemoteImage
  <2>7. ckpt' = ckpt
    BY <1>2 DEF RemoteImage
  <2> QED BY <1>0, <1>1, <2>4, <2>5, <2>6, <2>7 DEF ImageTypes
<1>3. CASE VmStep(d) /\ scope.kind = "vm" /\ UNCHANGED tunnel
  <2>1. base' \in [Deployers -> Images]
    BY <1>0, <1>1, <1>3 DEF ImageTypes, VmStep, Begun, ImageReturn, ImageError
  <2>2. ckpt' \in [Rows -> [taken : BOOLEAN, image : Images]]
    <3>1. [taken |-> TRUE, image |-> vm] \in [taken : BOOLEAN, image : Images]
      BY <1>0 DEF ImageTypes
    <3>2. NoCkpt \in [taken : BOOLEAN, image : Images]
      BY <1>1 DEF NoCkpt
    <3>3. ckpt' \in {ckpt, Taken(d), Dropped(d)}
      BY <1>3 DEF VmStep, Begun, ImageReturn, ImageError
    <3> QED BY <1>0, <3>1, <3>2, <3>3 DEF ImageTypes, Taken, Dropped
  <2>3. vm' \in Images
    <3>1. CASE vm' = vm
      BY <1>0, <3>1 DEF ImageTypes
    <3>2. CASE vm' = Own(d).image /\ pc[d] = "restore"
      <4>1. mine[d] \in Rows
        BY <1>0, <3>2 DEF HeldOK, Catching
      <4> QED BY <1>0, <3>2, <4>1 DEF ImageTypes, Own
    <3>3. CASE vm' = Without(vm, rel[d], copied[d] + 1)
      BY <1>0, <3>3 DEF ImageTypes, Images, Without
    <3>4. CASE /\ vm' = Without(vm, rel[d], copied[d] + 1)
                         \cup {<<rel[d], copied[d] + 1>>}
               /\ pc[d] = "stage"
      <4>1. rel[d] \in Releases /\ copied[d] + 1 \in Files
        BY <1>0, <1>3, <3>4 DEF HeldOK, Active, Working, InTry, Undoing, Files
      <4> QED BY <1>0, <3>4, <4>1 DEF ImageTypes, Images, Without
    <3> QED BY <1>3, <3>1, <3>2, <3>3, <3>4 DEF VmStep, Begun, ImageReturn,
               ImageError
  <2> QED BY <1>0, <1>1, <1>3, <2>1, <2>2, <2>3 DEF ImageTypes
<1> QED BY <1>2, <1>3

LEMMA RowInvKept ==
    ASSUME RowInv, NEW d \in scope.deployers, Move(d), scope' = scope,
           ImageTypes'
    PROVE  RowInv'
<1>0. d \in Deployers
  BY InvOf
<1>1. RowTypes' /\ RowsOK' /\ LocalTypes' /\ OthersStand(d)
  BY MoveFrame, RowsKept
<1>2. TypeOK'
  BY <1>1 DEF RowInv, TypesOK, TypeOK, RowTypes, LocalTypes, ImageTypes
<1>3. RemoteTypeOK'
  BY <1>1 DEF RemoteTypeOK, RowTypes, ImageTypes
<1>4. ScopeOK'
  BY <1>0, <1>1 DEF RowInv, TypesOK, ScopeOK, OthersStand
<1>5. MineApart' /\ StaysActive'
  BY MineApartKept, StaysActiveKept
<1>6. \A e \in Deployers : (HeldOK(e) /\ FateOK(e) /\ AloneOK(e))'
  BY HeldKept, FateKept, AloneKept, OthersKept
<1> QED BY <1>1, <1>2, <1>3, <1>4, <1>5, <1>6 DEF RowInv, TypesOK

-----------------------------------------------------------------------------
(***************************************************************************)
(* The tunnels.                                                            *)
(***************************************************************************)

LEMMA TunnelKept ==
    ASSUME RowInv, NEW d \in scope.deployers, Move(d), scope' = scope,
           \A e \in Deployers : TunnelOK(e),
           (UNCHANGED tunnel /\ scope.kind = "vm") \/ RemoteImage(d)
    PROVE  \A e \in Deployers : TunnelOK(e)'
<1>0. /\ d \in Deployers /\ OthersStand(d) /\ TunnelOK(d)
      /\ tunnel \in [Deployers -> {"none", "open", "closed", "signalled"}]
      /\ pc \in [Deployers -> Working \cup Ended \cup {"idle"}]
  BY InvOf, MoveFrame DEF RowInv, TypesOK, TypeOK, RemoteTypeOK
<1>1. CASE UNCHANGED tunnel /\ scope.kind = "vm"
  BY <1>1 DEF TunnelOK
<1>2. CASE RemoteImage(d)
  <2>1. \A e \in Deployers \ {d} : tunnel'[e] = tunnel[e]
    BY <1>0, <1>2 DEF RemoteImage
  <2>2. \A e \in Deployers \ {d} : TunnelOK(e)'
    BY <1>0, <2>1 DEF TunnelOK, OthersStand
  <2>3. TunnelOK(d)'
    <3> SUFFICES ASSUME tunnel'[d] = "open"
                 PROVE  TunnelOK(d)'
      BY DEF TunnelOK
    <3>1. CASE tunnel[d] # "open"
      <4>1. pc[d] = "connect" /\ pc'[d] = "reach" /\ Active(d)
        BY <1>2, <3>1 DEF RemoteImage
      <4>2. scope.kind = "cloud_vm"
        BY <4>1, InvOf DEF PlaceOK, Kinds, Shared, Around, Undoing, BeforeTry,
           InTry, InCatch
      <4> QED BY <4>1, <4>2 DEF TunnelOK
    <3>2. CASE tunnel[d] = "open"
      <4>1. /\ Active(d) /\ scope.kind = "cloud_vm"
            /\ pc'[d] # "killed" =>
                 pc[d] \in {"reach", "install", "supersede", "activate",
                            "auditDone"}
        BY <1>0, <1>2, <3>2 DEF RemoteImage, TunnelOK, Active, Working,
           BeforeTry, InTry, InCatch, Remote
      <4>2. pc'[d] # "killed" =>
              pc'[d] \in {"install", "supersede", "activate", "auditDone",
                          "close", "closeFail"}
        <5> SUFFICES ASSUME pc'[d] # "killed"
                     PROVE  pc'[d] \in {"install", "supersede", "activate",
                                        "auditDone", "close", "closeFail"}
          OBVIOUS
        <5>1. CASE CallMove(d)
          BY <1>0, <4>1, <5>1 DEF CallMove, Returns, Goto, Edge
        <5>2. CASE TurnMove(d)
          BY <1>0, <4>1, <5>2 DEF TurnMove, Returns, Goto, CatchesAt
        <5>3. CASE ErrorMove(d)
          BY <1>0, <4>1, <5>3 DEF ErrorMove, Goto, ErrorEdge, CatchesAt,
             Fresh, Untried, Standing
        <5>4. CASE KillMove(d)
          BY <1>0, <5>4 DEF KillMove, Goto
        <5> QED BY <4>1, <5>1, <5>2, <5>3, <5>4 DEF Move, BeginMove, LookMove,
                   CreateMove
      <4> QED BY <4>1, <4>2 DEF TunnelOK
    <3> QED BY <3>1, <3>2
  <2> QED BY <2>2, <2>3
<1> QED BY <1>1, <1>2

-----------------------------------------------------------------------------
(***************************************************************************)
(* The stack.                                                              *)
(***************************************************************************)

LEMMA StackKept ==
    ASSUME RowInv, NEW d \in scope.deployers, Move(d), scope' = scope,
           StackOK(d), RemoteImage(d)
    PROVE  StackOK(d)'
<1> SUFFICES ASSUME scope.kind = "cloud_stack", Serial,
                    pc'[d] \in {"supersede", "activate", "auditDone",
                                "auditBack", "done"}
             PROVE  vm' = {<<rel'[d], 1>>}
  BY DEF StackOK, Serial
<1>0. /\ d \in Deployers /\ (Active(d) => PlaceOK(d))
      /\ pc \in [Deployers -> Working \cup Ended \cup {"idle"}]
  BY InvOf DEF RowInv, TypesOK, TypeOK
<1>1. CallMove(d)
  <2>1. ~BeginMove(d)
    BY <1>0 DEF BeginMove
  <2>2. ~LookMove(d) /\ ~CreateMove(d)
    BY <1>0 DEF LookMove, CreateMove, Returns, Goto
  <2>3. ~TurnMove(d)
    BY <1>0 DEF TurnMove, Returns, Goto, Catching
  <2>4. ~ErrorMove(d)
    <3>1. ASSUME NEW q, Active(d), ErrorEdge(d, q), pc[d] # "close"
          PROVE  q \notin {"supersede", "activate", "auditDone", "auditBack",
                           "done"}
      BY <1>0, <3>1 DEF PlaceOK, ErrorEdge, Leaves, CatchesAt, Shared, Around,
         Rowless, Fresh, Untried, Standing
    <3> QED BY <1>0, <3>1 DEF ErrorMove, Goto
  <2>5. ~KillMove(d)
    BY <1>0 DEF KillMove, Goto
  <2> QED BY <2>1, <2>2, <2>3, <2>4, <2>5 DEF Move
<1>2. PICK q : Edge(d, q) /\ pc'[d] = q
  BY <1>0, <1>1 DEF CallMove, Returns, Goto
<1>3. Active(d) /\ rel' = rel
  BY <1>1 DEF CallMove, Holds
<1>4. pc[d] \in {"apply", "supersede", "activate", "auditDone", "auditBack"}
  BY <1>0, <1>2, <1>3 DEF PlaceOK, Edge, Leaves, Shared, Around
<1> QED BY <1>2, <1>3, <1>4 DEF RemoteImage, StackOK

-----------------------------------------------------------------------------
(***************************************************************************)
(* The VM and its checkpoints.                                             *)
(***************************************************************************)

\* Where a call of runDeploy that returns leads.
VmPath(d) ==
    /\ pc[d] \in {"lookup", "create", "auditStart", "auditDone"} =>
         pc'[d] \in {"create", "auditStart", "checkpoint", "done"}
    /\ pc[d] = "checkpoint" => pc'[d] = "deploying"
    /\ pc[d] = "deploying" => pc'[d] = "stage"
    /\ pc[d] = "stage" => /\ copied'[d] = copied[d] + 1
                          /\ pc'[d] \in {"stage", "probe"}
                          /\ pc'[d] = "stage" <=> copied[d] + 1 < scope.files
    /\ pc[d] = "probe" => pc'[d] \in {"supersede", "activate", "restore"}
    /\ pc[d] = "supersede" => pc'[d] = "activate"
    /\ pc[d] = "activate" => pc'[d] \in {"dropCkpt", "restore"}
    /\ pc[d] = "dropCkpt" => pc'[d] = "auditDone"
    /\ pc[d] = "restore" => pc'[d] = "discard"
    /\ pc[d] = "discard" => pc'[d] = "markFailed"
    /\ pc[d] = "markFailed" => pc'[d] = "auditFail"
    /\ pc[d] = "auditFail" => pc'[d] = "failed"
    /\ pc[d] \notin {"lookup", "create"} => mine'[d] = mine[d]
    /\ rel'[d] = rel[d]
    /\ pc[d] # "stage" => copied'[d] = copied[d]

LEMMA VmPathIs ==
    ASSUME RowInv, NEW d \in scope.deployers, Move(d), scope.kind = "vm",
           Returned(d)
    PROVE  /\ pc[d] \in BeforeTry \cup InTry \cup InCatch
           /\ VmPath(d)
           /\ pc[d] = "activate" /\ pc'[d] = "restore" => NoRows
<1>0. /\ d \in Deployers /\ ~IsCloud /\ ~Wrapped(d) /\ ~Undoing(d)
      /\ pc[d] \in BeforeTry \cup InTry \cup InCatch
      /\ pc \in [Deployers -> Working \cup Ended \cup {"idle"}]
      /\ copied \in [Deployers -> 0..scope.files]
      /\ errors \in Nat
  BY InvOf DEF IsCloud, Wrapped, Undoing, PlaceOK, Returned, RowInv, TypesOK,
     TypeOK
<1>1. CASE LookMove(d) \/ CreateMove(d)
  BY <1>0, <1>1 DEF LookMove, CreateMove, Returns, Goto, VmPath
<1>2. CASE CallMove(d)
  <2>1. PICK q : Edge(d, q) /\ pc'[d] = q
    BY <1>0, <1>2 DEF CallMove, Returns, Goto
  <2>2. /\ mine' = mine /\ rel' = rel
        /\ pc[d] # "stage" => copied' = copied
        /\ pc[d] = "stage" =>
             /\ copied'[d] = copied[d] + 1
             /\ pc'[d] = "stage" <=> copied[d] + 1 < scope.files
        /\ pc[d] \notin {"lookup", "create"}
    BY <1>0, <1>2 DEF CallMove, Holds
  <2> QED BY <1>0, <2>1, <2>2 DEF Edge, Leaves, VmPath, BeforeTry, InTry,
             InCatch
<1>3. CASE TurnMove(d)
  <2>1. /\ pc[d] \in {"probe", "activate"} /\ pc'[d] = "restore"
        /\ NoRows /\ Holds /\ copied' = copied
    BY <1>0, <1>3 DEF TurnMove, Returns, Goto, CatchesAt, BeforeTry, InTry,
       InCatch
  <2> QED BY <1>0, <2>1 DEF VmPath, Holds
<1>4. ~BeginMove(d) /\ ~ErrorMove(d) /\ ~KillMove(d)
  BY <1>0 DEF Returned, BeginMove, ErrorMove, KillMove, Goto
<1> QED BY <1>0, <1>1, <1>2, <1>3, <1>4 DEF Move, VmPath, Edge

LEMMA CkptKept ==
    ASSUME RowInv, NEW d \in scope.deployers, Move(d), scope' = scope, CkptOK,
           scope.kind = "vm" => VmStep(d),
           scope.kind # "vm" => RemoteImage(d)
    PROVE  CkptOK'
<1>0. /\ d \in Deployers /\ scope.deployers \subseteq Deployers
      /\ OthersStand(d) /\ HeldOK(d) /\ mine[d] \in Rows \cup {None}
      /\ ckpt \in [Rows -> [taken : BOOLEAN, image : Images]]
      /\ errors \in Nat /\ errors' \in Nat /\ errors <= errors'
      /\ killed => killed'
  BY InvOf, MoveFrame DEF RowInv, TypesOK, TypeOK, LocalTypes
<1>1. scope.kind # "vm" => \A r \in Rows : ~ckpt'[r].taken
  BY DEF CkptOK, RemoteImage
<1>2. SUFFICES ASSUME scope.kind = "vm", Undisturbed', NEW r \in Rows,
                      ckpt'[r].taken
               PROVE  \E e \in scope.deployers :
                        /\ mine'[e] = r
                        /\ pc'[e] \in Holding \cup {"restore", "discard"}
  BY <1>1 DEF CkptOK
<1>3. Undisturbed /\ ~killed'
  BY <1>0, <1>2 DEF Undisturbed
<1>4. ASSUME ckpt[r].taken
      PROVE  \E e \in scope.deployers :
               mine[e] = r /\ pc[e] \in Holding \cup {"restore", "discard"}
  BY <1>3, <1>4 DEF CkptOK
<1>5. ASSUME NEW e \in scope.deployers \ {d}, mine[e] = r,
             pc[e] \in Holding \cup {"restore", "discard"}
      PROVE  \E f \in scope.deployers :
               /\ mine'[f] = r
               /\ pc'[f] \in Holding \cup {"restore", "discard"}
  BY <1>0, <1>5 DEF OthersStand
<1>6. CASE Begun(d)
  <2>1. ckpt' = ckpt /\ pc[d] \notin Holding \cup {"restore", "discard"}
    BY <1>6 DEF Begun, Holding, Active, Working, BeforeTry, InTry, InCatch
  <2> QED BY <1>2, <1>4, <1>5, <2>1
<1>7. CASE Returned(d) /\ ImageReturn(d)
  <2>1. pc[d] \in BeforeTry \cup InTry \cup InCatch /\ VmPath(d)
    BY <1>2, <1>7, VmPathIs
  <2>2. CASE pc[d] = "checkpoint" /\ r = mine[d]
    BY <2>1, <2>2 DEF VmPath, Holding
  <2>3. CASE ckpt[r].taken
    <3>1. PICK e \in scope.deployers :
            mine[e] = r /\ pc[e] \in Holding \cup {"restore", "discard"}
      BY <1>4, <2>3
    <3>2. CASE e = d
      <4>1. pc[d] \notin {"dropCkpt", "discard"}
        <5>1. SUFFICES ASSUME pc[d] \in {"dropCkpt", "discard"}
                       PROVE  FALSE
          OBVIOUS
        <5>2. ckpt' = Dropped(d)
          BY <1>7, <2>3, <3>1, <3>2, <5>1 DEF ImageReturn, Own
        <5>3. ckpt'[r] = NoCkpt
          BY <1>0, <3>1, <3>2, <5>2 DEF Dropped
        <5> QED BY <1>2, <5>3 DEF NoCkpt
      <4> QED BY <2>1, <3>1, <3>2, <4>1 DEF VmPath, Holding
    <3> QED BY <1>5, <3>1, <3>2
  <2>4. CASE ~ckpt[r].taken /\ ~(pc[d] = "checkpoint" /\ r = mine[d])
    <3>1. ckpt' \in {ckpt, Dropped(d)} \/ (ckpt' = Taken(d) /\ r # mine[d])
      BY <1>7, <2>4 DEF ImageReturn
    <3>2. ckpt'[r] = ckpt[r] \/ ckpt'[r] = NoCkpt
      BY <1>0, <3>1 DEF Dropped, Taken
    <3> QED BY <1>2, <2>4, <3>2 DEF NoCkpt
  <2> QED BY <2>2, <2>3, <2>4
<1>8. ~Erred(d) /\ ~Killed(d)
  BY <1>0, <1>2, <1>3 DEF Erred, Killed, Undisturbed
<1> QED BY <1>2, <1>6, <1>7, <1>8 DEF VmStep

LEMMA BaseKept ==
    ASSUME RowInv, NEW d \in scope.deployers, Move(d), scope' = scope,
           BaseOK(d), scope.kind = "vm" => VmStep(d)
    PROVE  BaseOK(d)'
<1> SUFFICES ASSUME scope.kind = "vm", Serial, clean'[d]
             PROVE  BaseOK(d)'
  BY DEF BaseOK, Serial
<1>0. /\ d \in Deployers /\ HeldOK(d) /\ mine[d] \in Rows \cup {None}
      /\ ckpt \in [Rows -> [taken : BOOLEAN, image : Images]]
      /\ base \in [Deployers -> Images]
  BY InvOf DEF RowInv, TypesOK, TypeOK
<1>1. CASE Begun(d)
  BY <1>1 DEF Begun, BaseOK, Holding
<1>2. CASE Returned(d) /\ ImageReturn(d)
  <2>1. /\ pc[d] \in BeforeTry \cup InTry \cup InCatch /\ VmPath(d)
        /\ clean[d]
    BY <1>2, VmPathIs DEF Returned
  <2>2. CASE pc[d] = "checkpoint"
    <3>1. mine[d] \in Rows /\ mine'[d] = mine[d] /\ pc'[d] = "deploying"
      BY <1>0, <2>1, <2>2 DEF HeldOK, Fresh, Untried, VmPath
    <3>2. ckpt'[mine[d]] = [taken |-> TRUE, image |-> vm] /\ base'[d] = vm
      BY <1>0, <1>2, <2>2, <3>1 DEF ImageReturn, Taken
    <3> QED BY <3>1, <3>2 DEF BaseOK, Holding
  <2>3. CASE pc[d] \in {"deploying", "stage", "probe", "supersede", "activate"}
    <3>1. /\ ckpt' = ckpt /\ base' = base /\ mine'[d] = mine[d]
          /\ ckpt[mine[d]] = [taken |-> TRUE, image |-> base[d]]
      BY <1>2, <2>1, <2>3 DEF ImageReturn, VmPath, BaseOK, Holding
    <3>2. pc'[d] \in (Holding \cup {"restore"})
      BY <2>1, <2>3 DEF VmPath, Holding
    <3> QED BY <3>1, <3>2 DEF BaseOK, Holding
  <2>4. CASE pc[d] = "restore"
    <3>1. /\ ckpt[mine[d]] = [taken |-> TRUE, image |-> base[d]]
          /\ pc'[d] = "discard" /\ base' = base
      BY <1>2, <2>1, <2>4 DEF VmPath, ImageReturn, BaseOK
    <3>2. vm' = base[d]
      BY <1>2, <2>4, <3>1 DEF ImageReturn, Own
    <3> QED BY <3>1, <3>2 DEF BaseOK, Holding
  <2>5. CASE pc[d] = "discard"
    <3>1. /\ vm = base[d] /\ vm' = vm /\ base' = base
          /\ pc'[d] = "markFailed" /\ mine'[d] = mine[d]
      BY <1>2, <2>1, <2>5 DEF VmPath, ImageReturn, BaseOK
    <3>2. ~ckpt'[mine[d]].taken
      <4>1. mine[d] \in Rows
        BY <1>0, <2>5 DEF HeldOK, Catching
      <4> QED BY <1>0, <1>2, <2>5, <4>1 DEF ImageReturn, Dropped, NoCkpt, Own
    <3> QED BY <3>1, <3>2 DEF BaseOK, Holding
  <2>6. CASE pc[d] \in {"markFailed", "auditFail"}
    <3>1. /\ vm' = vm /\ base' = base /\ ckpt' = ckpt /\ mine'[d] = mine[d]
          /\ pc'[d] \in {"auditFail", "failed"}
          /\ vm = base[d] /\ ~ckpt[mine[d]].taken
      BY <1>2, <2>1, <2>6 DEF VmPath, ImageReturn, BaseOK
    <3> QED BY <3>1 DEF BaseOK, Holding
  <2>7. CASE pc[d] \in {"lookup", "create", "auditStart", "dropCkpt",
            "auditDone"}
    <3>1. pc'[d] \in {"create", "auditStart", "checkpoint", "done", "auditDone"}
      BY <2>1, <2>7 DEF VmPath
    <3> QED BY <3>1 DEF BaseOK, Holding
  <2> QED BY <2>1, <2>2, <2>3, <2>4, <2>5, <2>6, <2>7 DEF BeforeTry, InTry,
             InCatch
<1> QED BY <1>1, <1>2 DEF VmStep, Erred, Killed

\* Only the update at "activate" adds an active row.
LEMMA ActiveGrows ==
    ASSUME RowInv, NEW d \in scope.deployers, RowEffect(d)
    PROVE  /\ \A r \in ActiveRows' :
                r \in ActiveRows \/ (pc[d] = "activate" /\ r = mine[d])
           /\ \A r \in ActiveRows' : relOf'[r] = relOf[r]
<1>0. /\ RowsOK /\ HeldOK(d) /\ RowsMonotone(d)
      /\ mine[d] \in Rows \cup {None} /\ prev[d] \in Rows \cup {None}
      /\ status \in [Rows -> Statuses]
  BY InvOf, RowsKept DEF RowInv, TypesOK, TypeOK
<1>1. \A r \in ActiveRows' :
        r \in ActiveRows \/ (pc[d] = "activate" /\ r = mine[d])
  <2>1. CASE NoRows
    BY <2>1 DEF NoRows, ActiveRows
  <2>2. CASE RowCall(d)
    BY <1>0, <2>2 DEF RowCall, Sets, ActiveRows
  <2>3. ASSUME NEW r \in Rows, NewRow(d, r)
        PROVE  ActiveRows' \subseteq ActiveRows
    BY <1>0, <2>3 DEF NewRow, ActiveRows
  <2> QED BY <2>1, <2>2, <2>3 DEF RowEffect
<1>2. \A r \in ActiveRows' : r \in Inserted
  BY <1>0, <1>1 DEF RowsOK, ActiveRows, Inserted, Good, HeldOK, Fresh
<1> QED BY <1>0, <1>1, <1>2 DEF RowsMonotone

LEMMA StagedKept ==
    ASSUME RowInv, NEW d \in scope.deployers, Move(d), scope' = scope,
           StagedOK(d), scope.kind = "vm" => VmStep(d)
    PROVE  StagedOK(d)'
<1> SUFFICES ASSUME scope.kind = "vm", Serial, errors' <= 1, ~killed'
             PROVE  StagedOK(d)'
  BY DEF StagedOK, Serial
<1>0. /\ d \in Deployers /\ HeldOK(d) /\ FateOK(d) /\ RowsOK /\ RowEffect(d)
      /\ mine[d] \in Rows \cup {None}
      /\ mine \in [Deployers -> Rows \cup {None}]
      /\ ckpt \in [Rows -> [taken : BOOLEAN, image : Images]]
      /\ errors \in Nat /\ errors' \in Nat /\ errors <= errors'
      /\ errors <= 1 /\ ~killed
      /\ copied[d] \in 0..scope.files /\ scope.files \in Nat \ {0}
  BY InvOf, MoveFrame DEF RowInv, TypesOK, TypeOK, LocalTypes, ScopeOK
<1>1. /\ \A r \in ActiveRows' :
           r \in ActiveRows \/ (pc[d] = "activate" /\ r = mine[d])
      /\ \A r \in ActiveRows' : relOf'[r] = relOf[r]
  BY <1>0, ActiveGrows
<1> DEFINE Then(r) == IF ckpt'[mine'[d]].taken THEN ckpt'[mine'[d]].image
                                               ELSE vm'
<1>2. SUFFICES
        /\ /\ pc'[d] # "stage"
           /\ pc'[d] \notin {"restore", "discard", "markFailed"} \/ errors' = 0
           => \A r \in ActiveRows' : StagedIn(r, vm')
        /\ pc'[d] = "stage" =>
             /\ \A r \in ActiveRows' : relOf[r] # rel'[d] => StagedIn(r, vm')
             /\ \A f \in 1..copied'[d] :
                  Uncovered(d, f)' => <<rel'[d], f>> \in vm'
        /\ pc'[d] \in {"probe", "supersede", "activate"} =>
             {rel'[d]} \X Lasting(rel'[d]) \subseteq vm'
        /\ pc'[d] \in Holding => ckpt'[mine'[d]].taken
        /\ pc'[d] = "auditDone" => ~ckpt'[mine'[d]].taken
        /\ pc'[d] \in Holding \cup {"restore"} =>
             \A r \in ActiveRows' \ {mine'[d]} : StagedIn(r, Then(r))
        /\ pc'[d] \in {"discard", "markFailed"} =>
             \A r \in ActiveRows' \ {mine'[d]} : StagedIn(r, vm')
  BY <1>1 DEF StagedOK, StagedIn, Lasting, SamePath, Files, ActiveRows
<1>3. CASE Begun(d)
  <2>1. /\ pc[d] \notin {"stage", "restore", "discard", "markFailed",
                          "activate"}
        /\ pc'[d] \in {"aborted", "lookup", "auditBegin"} /\ vm' = vm
    BY <1>3 DEF Begun, Active, Working, InTry, InCatch
  <2> QED BY <1>0, <1>1, <2>1 DEF StagedOK, Holding
<1>4. CASE Returned(d) /\ ImageReturn(d)
  <2>1. /\ pc[d] \in BeforeTry \cup InTry \cup InCatch /\ VmPath(d)
        /\ errors' = errors
        /\ pc[d] = "activate" /\ pc'[d] = "restore" => NoRows
    BY <1>4, VmPathIs DEF Returned
  <2>2. CASE pc[d] \in {"lookup", "create", "auditStart", "auditDone"}
    <3>1. /\ pc'[d] \in {"create", "auditStart", "checkpoint", "done"}
          /\ vm' = vm
      BY <1>4, <2>1, <2>2 DEF VmPath, ImageReturn
    <3> QED BY <1>0, <1>1, <2>2, <3>1 DEF StagedOK, Holding
  <2>3. CASE pc[d] = "checkpoint"
    <3>1. /\ mine[d] \in Rows /\ mine'[d] = mine[d] /\ pc'[d] = "deploying"
          /\ vm' = vm
      BY <1>0, <1>4, <2>1, <2>3 DEF HeldOK, Fresh, Untried, VmPath, ImageReturn
    <3>2. ckpt'[mine[d]] = [taken |-> TRUE, image |-> vm]
      BY <1>0, <1>4, <2>3, <3>1 DEF ImageReturn, Taken
    <3>3. \A r \in ActiveRows' : StagedIn(r, vm)
      BY <1>0, <1>1, <2>3 DEF StagedOK
    <3> QED BY <3>1, <3>2, <3>3 DEF Holding
  <2>4. CASE pc[d] = "deploying"
    <3>1. /\ mine'[d] = mine[d] /\ pc'[d] = "stage" /\ vm' = vm /\ ckpt' = ckpt
          /\ copied'[d] = 0
      BY <1>0, <1>4, <2>1, <2>4 DEF HeldOK, VmPath, ImageReturn
    <3> QED BY <1>0, <1>1, <2>4, <3>1 DEF StagedOK, Holding
  <2>5. CASE pc[d] = "stage"
    <3> DEFINE c == copied[d] + 1
    <3>1. /\ mine'[d] = mine[d] /\ ckpt' = ckpt /\ rel'[d] = rel[d]
          /\ vm' = Without(vm, rel[d], c) \cup {<<rel[d], c>>}
          /\ copied'[d] = c /\ copied[d] < scope.files
          /\ pc'[d] \in {"stage", "probe"}
          /\ pc'[d] = "stage" <=> c < scope.files
      BY <1>0, <1>4, <2>1, <2>5 DEF HeldOK, VmPath, ImageReturn
    <3>2. /\ \A r \in ActiveRows : relOf[r] # rel[d] => StagedIn(r, vm)
          /\ \A f \in 1..copied[d] : Uncovered(d, f) => <<rel[d], f>> \in vm
          /\ ckpt[mine[d]].taken
          /\ \A r \in ActiveRows \ {mine[d]} : StagedIn(r, ckpt[mine[d]].image)
      BY <1>0, <2>5 DEF StagedOK, Holding
    <3>3. \A r \in ActiveRows' : relOf[r] # rel[d] => StagedIn(r, vm')
      BY <1>1, <2>5, <3>1, <3>2 DEF StagedIn, Without
    <3>4. ASSUME NEW f \in 1..c,
                 \A g \in Files : f < g /\ g <= c => ~SamePath(rel[d], f, g)
          PROVE  <<rel[d], f>> \in vm'
      <4>1. CASE f = c
        BY <3>1, <4>1
      <4>2. CASE f \in 1..copied[d]
        <5>1. Uncovered(d, f) /\ ~SamePath(rel[d], f, c)
          BY <1>0, <3>1, <3>4, <4>2 DEF Uncovered, Files
        <5>2. ~SamePath(rel[d], c, f)
          BY <5>1 DEF SamePath
        <5> QED BY <3>1, <3>2, <4>2, <5>1, <5>2 DEF Without
      <4> QED BY <1>0, <4>1, <4>2
    <3>5. \A f \in 1..copied'[d] : Uncovered(d, f)' => <<rel'[d], f>> \in vm'
      BY <3>1, <3>4 DEF Uncovered, Files, SamePath
    <3>6. ASSUME pc'[d] = "probe"
          PROVE  {rel[d]} \X Lasting(rel[d]) \subseteq vm'
      <4>1. c = scope.files
        BY <1>0, <3>1, <3>6
      <4> QED BY <1>0, <3>4, <4>1 DEF Lasting, Files
    <3>7. pc'[d] = "probe" => \A r \in ActiveRows' : StagedIn(r, vm')
      BY <3>3, <3>6 DEF StagedIn
    <3> QED BY <1>1, <2>5, <3>1, <3>2, <3>3, <3>5, <3>6, <3>7
  <2>6. CASE pc[d] \in {"probe", "supersede"}
    <3>1. /\ mine'[d] = mine[d] /\ vm' = vm /\ ckpt' = ckpt /\ rel'[d] = rel[d]
          /\ copied'[d] = copied[d]
          /\ pc'[d] \in {"supersede", "activate", "restore"}
      BY <1>0, <1>4, <2>1, <2>6 DEF HeldOK, VmPath, ImageReturn
    <3> QED BY <1>0, <1>1, <2>6, <3>1 DEF StagedOK, Holding
  <2>7. CASE pc[d] = "activate"
    <3>1. /\ mine'[d] = mine[d] /\ vm' = vm /\ ckpt' = ckpt /\ rel'[d] = rel[d]
          /\ pc'[d] \in {"dropCkpt", "restore"}
      BY <1>0, <1>4, <2>1, <2>7 DEF HeldOK, VmPath, ImageReturn
    <3>2. /\ \A r \in ActiveRows : StagedIn(r, vm)
          /\ {rel[d]} \X Lasting(rel[d]) \subseteq vm
          /\ ckpt[mine[d]].taken
          /\ \A r \in ActiveRows \ {mine[d]} : StagedIn(r, ckpt[mine[d]].image)
          /\ relOf[mine[d]] = rel[d]
      BY <1>0, <2>7 DEF StagedOK, Holding, HeldOK, Fresh
    <3>3. StagedIn(mine[d], vm)
      BY <3>2 DEF StagedIn
    <3> QED BY <1>1, <3>1, <3>2, <3>3
  <2>8. CASE pc[d] = "dropCkpt"
    <3>1. /\ pc'[d] = "auditDone" /\ vm' = vm /\ mine'[d] = mine[d]
          /\ mine[d] \in Rows
      BY <1>0, <1>4, <2>1, <2>8 DEF VmPath, ImageReturn, HeldOK, Standing
    <3>2. ~ckpt'[mine[d]].taken
      BY <1>0, <1>4, <2>8, <3>1 DEF ImageReturn, Dropped, NoCkpt, Own
    <3> QED BY <1>0, <1>1, <2>8, <3>1, <3>2 DEF StagedOK, Holding
  <2>9. CASE pc[d] = "restore"
    <3>1. /\ pc'[d] = "discard" /\ mine'[d] = mine[d]
          /\ vm' = IF ckpt[mine[d]].taken THEN ckpt[mine[d]].image ELSE vm
      BY <1>4, <2>1, <2>9 DEF VmPath, ImageReturn, Own
    <3>2. \A r \in ActiveRows \ {mine[d]} : StagedIn(r, vm')
      BY <1>0, <2>9, <3>1 DEF StagedOK
    <3>3. errors = 0 => mine[d] \notin ActiveRows
      BY <1>0, <2>9 DEF FateOK, Catching, RowsOK, ActiveRows, Good
    <3> QED BY <1>1, <2>1, <2>9, <3>1, <3>2, <3>3 DEF Holding
  <2>10. CASE pc[d] = "discard"
    <3>1. pc'[d] = "markFailed" /\ mine'[d] = mine[d] /\ vm' = vm
      BY <1>4, <2>1, <2>10 DEF VmPath, ImageReturn
    <3> QED BY <1>0, <1>1, <2>1, <2>10, <3>1 DEF StagedOK, Holding
  <2>11. CASE pc[d] = "markFailed"
    <3>1. pc'[d] = "auditFail" /\ mine'[d] = mine[d] /\ vm' = vm
      BY <1>4, <2>1, <2>11 DEF VmPath, ImageReturn
    <3>2. mine[d] \notin ActiveRows'
      <4>1. CallMove(d)
        <5>1. ~BeginMove(d) /\ ~LookMove(d) /\ ~CreateMove(d) /\ ~TurnMove(d)
          BY <1>4, <2>11 DEF BeginMove, LookMove, CreateMove, TurnMove, Returned
        <5>2. ~ErrorMove(d)
          <6>1. errors' # errors + 1
            BY <1>0, <2>1
          <6> QED BY <6>1 DEF ErrorMove
        <5>3. ~KillMove(d)
          BY DEF KillMove
        <5> QED BY <5>1, <5>2, <5>3 DEF Move
      <4>2. RowCall(d) /\ mine[d] \in Rows
        BY <1>0, <2>11, <4>1 DEF CallMove, Updates, HeldOK, Catching
      <4> QED BY <2>11, <4>2 DEF RowInv, TypesOK, TypeOK, RowCall, Sets,
                 ActiveRows
    <3> QED BY <1>0, <1>1, <2>11, <3>1, <3>2 DEF StagedOK, Holding
  <2>12. CASE pc[d] = "auditFail"
    <3>1. pc'[d] = "failed" /\ vm' = vm
      BY <1>4, <2>1, <2>12 DEF VmPath, ImageReturn
    <3> QED BY <1>0, <1>1, <2>12, <3>1 DEF StagedOK, Holding
  <2> QED BY <2>1, <2>2, <2>3, <2>4, <2>5, <2>6, <2>7, <2>8, <2>9, <2>10,
             <2>11, <2>12 DEF BeforeTry, InTry, InCatch
<1>5. CASE Erred(d) /\ ImageError(d) /\ pc'[d] = OnError(d)
  <2>1. /\ errors = 0 /\ errors' = 1
        /\ pc[d] \in BeforeTry \cup InTry \cup InCatch
    BY <1>0, <1>5, InvOf DEF Erred, PlaceOK
  <2>2. ErrorMove(d)
    <3>1. /\ ~BeginMove(d) /\ ~LookMove(d) /\ ~CreateMove(d) /\ ~CallMove(d)
          /\ ~TurnMove(d) /\ ~KillMove(d)
      BY <2>1 DEF BeginMove, LookMove, CreateMove, CallMove, TurnMove, KillMove,
         Returns
    <3> QED BY <3>1 DEF Move
  <2>3. /\ mine' = mine
        /\ pc[d] # "stage" => \A r \in ActiveRows : StagedIn(r, vm)
    BY <1>0, <2>1, <2>2 DEF ErrorMove, Holds, StagedOK
  <2>4. CASE pc[d] \in BeforeTry
    <3>1. pc'[d] = "aborted" /\ vm' = vm
      <4>1. OnError(d) = "aborted"
        BY <2>4 DEF OnError, BeforeTry, InTry
      <4> QED BY <1>5, <2>4, <4>1 DEF ImageError, BeforeTry
    <3> QED BY <1>1, <2>3, <2>4, <3>1 DEF Holding, BeforeTry
  <2>5. CASE pc[d] \in InTry
    <3>1. pc'[d] = "restore"
      BY <1>5, <2>5 DEF OnError, BeforeTry, InTry
    <3>2. \A r \in ActiveRows' \ {mine[d]} : r \in ActiveRows
      BY <1>1
    <3>3. CASE pc[d] \in {"stage", "probe", "supersede", "activate"}
      <4>1. /\ ckpt' = ckpt /\ ckpt[mine[d]].taken
            /\ \A r \in ActiveRows \ {mine[d]} :
                 StagedIn(r, ckpt[mine[d]].image)
        BY <1>0, <1>5, <3>3 DEF ImageError, StagedOK, Holding
      <4> QED BY <2>1, <2>3, <3>1, <3>2, <4>1 DEF Holding
    <3>4. CASE pc[d] = "dropCkpt"
      <4>1. /\ vm' = vm /\ ckpt' \in {ckpt, Dropped(d)} /\ mine[d] \in Rows
            /\ ckpt[mine[d]].taken
            /\ \A r \in ActiveRows \ {mine[d]} :
                 StagedIn(r, ckpt[mine[d]].image)
        BY <1>0, <1>5, <3>4 DEF ImageError, StagedOK, Holding, HeldOK, Standing
      <4>2. CASE ckpt' = ckpt
        BY <2>1, <2>3, <3>1, <3>2, <4>1, <4>2 DEF Holding
      <4>3. CASE ckpt' = Dropped(d)
        <5>1. ~ckpt'[mine[d]].taken
          BY <1>0, <4>1, <4>3 DEF Dropped, NoCkpt
        <5> QED BY <2>1, <2>3, <3>1, <3>2, <3>4, <4>1, <5>1 DEF Holding
      <4> QED BY <4>1, <4>2, <4>3
    <3>5. CASE pc[d] = "auditDone"
      <4>1. vm' = vm /\ ckpt' = ckpt /\ ~ckpt[mine[d]].taken
        BY <1>0, <1>5, <3>5 DEF ImageError, StagedOK
      <4> QED BY <2>1, <2>3, <3>1, <3>2, <3>5, <4>1 DEF Holding
    <3> QED BY <2>5, <3>3, <3>4, <3>5 DEF InTry
  <2>6. CASE pc[d] = "restore"
    <3>1. /\ pc'[d] = "discard"
          /\ \/ vm' = vm
             \/ ckpt[mine[d]].taken /\ vm' = ckpt[mine[d]].image
      BY <1>5, <2>6 DEF OnError, ImageError, Own, BeforeTry, InTry
    <3>2. ckpt[mine[d]].taken =>
            \A r \in ActiveRows \ {mine[d]} : StagedIn(r, ckpt[mine[d]].image)
      BY <1>0, <2>6 DEF StagedOK
    <3> QED BY <1>1, <2>1, <2>3, <2>6, <3>1, <3>2 DEF Holding
  <2>7. CASE pc[d] \in {"discard", "markFailed", "auditFail"}
    <3>1. pc'[d] \in {"markFailed", "auditFail", "failed"} /\ vm' = vm
      BY <1>5, <2>7 DEF OnError, ImageError, BeforeTry, InTry
    <3> QED BY <1>1, <2>1, <2>3, <2>7, <3>1 DEF Holding
  <2> QED BY <2>1, <2>4, <2>5, <2>6, <2>7 DEF InCatch
<1> QED BY <1>3, <1>4, <1>5 DEF VmStep, Killed

-----------------------------------------------------------------------------
(***************************************************************************)
(* The invariant, and what it says.                                        *)
(***************************************************************************)

LEMMA InitIInv == RemoteInit => IInv
<1> SUFFICES ASSUME RemoteInit
             PROVE  IInv
  OBVIOUS
<1>1. PICK s \in Scopes :
        scope \in [kind : {s.kind}, deployers : kSubset(s.deployers, Deployers),
                   releases : kSubset(s.releases, Releases),
                   files : {s.files}, errors : {s.errors}]
  BY DEF RemoteInit, Init
<1>2. s \in [kind : Kinds, deployers : Nat, releases : Nat,
             files : Nat \ {0}, errors : Nat]
  BY DeployAssumption
<1>3. /\ scope \in [kind : Kinds, deployers : SUBSET Deployers,
                    releases : SUBSET Releases, files : Nat, errors : Nat]
      /\ scope.files > 0
  BY <1>1, <1>2 DEF kSubset
<1>4. TypesOK
  <2>1. {} \in Images /\ NoCkpt \in [taken : BOOLEAN, image : Images]
    BY DEF Images, NoCkpt
  <2>2. TypeOK
    <3>1. /\ status \in [Rows -> Statuses]
          /\ relOf \in [Rows -> Releases \cup {NoRel}]
          /\ prevOf \in [Rows -> Rows \cup {None}]
          /\ ckpt \in [Rows -> [taken : BOOLEAN, image : Images]]
          /\ vm \in Images /\ base \in [Deployers -> Images]
      BY <2>1 DEF RemoteInit, Init, Statuses
    <3>2. /\ pc \in [Deployers -> Working \cup Ended \cup {"idle"}]
          /\ op \in [Deployers -> {"deploy", "rollback"}]
          /\ rel \in [Deployers -> Releases \cup {NoRel}]
          /\ prev \in [Deployers -> Rows \cup {None}]
          /\ mine \in [Deployers -> Rows \cup {None}]
      BY DEF RemoteInit, Init
    <3>3. copied \in [Deployers -> 0..scope.files] /\ errors \in 0..scope.errors
      BY <1>3 DEF RemoteInit, Init
    <3>4. clean \in [Deployers -> BOOLEAN]
      BY Zenon DEF RemoteInit, Init
    <3>5. everActive \subseteq Rows /\ killed \in BOOLEAN
      BY DEF RemoteInit, Init
    <3> QED BY <1>3, <3>1, <3>2, <3>3, <3>4, <3>5 DEF TypeOK
  <2> QED BY <1>3, <2>2 DEF RemoteInit, Init, TypesOK, RemoteTypeOK, ScopeOK,
             None
<1>5. /\ Inserted = {} /\ ActiveRows = {} /\ everActive = {}
      /\ \A d \in Deployers : pc[d] = "idle" /\ mine[d] = None /\ prev[d] = None
      /\ \A r \in Rows : status[r] = "none" /\ prevOf[r] = None
      /\ \A r \in Rows : ~ckpt[r].taken
      /\ \A d \in Deployers : tunnel[d] = "none"
  BY DEF RemoteInit, Init, Inserted, ActiveRows, NoCkpt
<1>6. RowsOK /\ MineApart /\ StaysActive
  BY <1>5 DEF RowsOK, PriorWasActive, Good, MineApart, StaysActive
<1>7. ASSUME NEW d \in Deployers
      PROVE  /\ HeldOK(d) /\ FateOK(d) /\ AloneOK(d) /\ BaseOK(d)
             /\ StagedOK(d) /\ StackOK(d) /\ TunnelOK(d)
  <2>1. pc[d] \notin Working /\ pc[d] = "idle"
    BY <1>5 DEF Working, BeforeTry, InTry, InCatch, Remote
  <2>2. HeldOK(d) /\ FateOK(d)
    BY <1>5, <2>1 DEF HeldOK, FateOK, Active, Rowless, Fresh, Untried, Standing,
       Catching, Caught
  <2>3. AloneOK(d) /\ BaseOK(d) /\ StackOK(d) /\ TunnelOK(d)
    BY <1>5, <2>1 DEF AloneOK, BaseOK, StackOK, TunnelOK, Fresh, Untried,
       Standing, Catching, Holding
  <2>4. StagedOK(d)
    BY <1>5, <2>1 DEF StagedOK, Holding
  <2> QED BY <2>2, <2>3, <2>4
<1>8. scope.deployers \subseteq Deployers
  BY <1>3
<1>9. CkptOK
  BY <1>5 DEF CkptOK
<1> QED BY <1>4, <1>6, <1>7, <1>8, <1>9 DEF IInv, RowInv

\* What a step of d leaves of the facts about it is enough: where deploys
\* follow one another nobody else is there.
LEMMA StepIInv ==
    ASSUME IInv, TargetNext
    PROVE  IInv'
<1>1. PICK d \in scope.deployers :
        /\ scope' = scope
        /\ scope.kind = "vm" => VmStep(d) /\ UNCHANGED tunnel
        /\ scope.kind # "vm" => RemoteImage(d)
        /\ Move(d)
  <2>1. CASE Next /\ UNCHANGED tunnel
    BY <2>1, VmStepIs, VmStepIsMove, VmFaultIsMove DEF Next, IInv
  <2>2. CASE RemoteNext
    BY <2>2, RemoteImageIs, RemoteStepIsMove, RemoteFaultIsMove
       DEF RemoteNext, IInv
  <2> QED BY <2>1, <2>2 DEF TargetNext
<1>2. RowInv /\ TypeOK /\ BaseOK(d) /\ StagedOK(d) /\ StackOK(d)
  BY DEF IInv, RowInv, TypesOK
<1>3. ImageTypes'
  BY <1>1, <1>2, ImageTyped
<1>4. RowInv'
  BY <1>1, <1>2, <1>3, RowInvKept
<1>5. CkptOK'
  BY <1>1, <1>2, CkptKept DEF IInv
<1>6. \A e \in Deployers : TunnelOK(e)'
  BY <1>1, <1>2, TunnelKept DEF IInv
<1>7. BaseOK(d)' /\ StagedOK(d)'
  BY <1>1, <1>2, BaseKept, StagedKept
<1>8. StackOK(d)'
  <2>1. CASE scope.kind = "vm"
    BY <1>1, <2>1 DEF StackOK
  <2>2. CASE scope.kind # "vm"
    BY <1>1, <1>2, <2>2, StackKept
  <2> QED BY <2>1, <2>2
<1>9. ASSUME NEW e \in scope.deployers
      PROVE  (BaseOK(e) /\ StagedOK(e) /\ StackOK(e))'
  <2>1. CASE Serial
    <3>1. e = d
      BY <1>2, <2>1, SerialIs
    <3> QED BY <1>7, <1>8, <3>1
  <2>2. CASE ~Serial
    BY <1>1, <2>2 DEF Serial, BaseOK, StagedOK, StackOK
  <2> QED BY <2>1, <2>2
<1> QED BY <1>1, <1>4, <1>5, <1>6, <1>9 DEF IInv

LEMMA StutterIInv ==
    ASSUME IInv, UNCHANGED vars2
    PROVE  IInv'
<1> USE DEF vars2, vars, rowVars, vmVars, localVars, histVars
<1>1. TypesOK'
  BY DEF IInv, RowInv, TypesOK, TypeOK, RemoteTypeOK, ScopeOK, Images, Files
<1>2. RowsOK' /\ MineApart' /\ StaysActive'
  BY DEF IInv, RowInv, RowsOK, MineApart, StaysActive, PriorWasActive,
     ActiveRows, Inserted, Undisturbed
<1>3. ASSUME NEW d \in Deployers
      PROVE  HeldOK(d)' /\ FateOK(d)' /\ AloneOK(d)' /\ TunnelOK(d)'
  <2>1. HeldOK(d) /\ FateOK(d) /\ AloneOK(d) /\ TunnelOK(d)
    BY DEF IInv, RowInv
  <2>2. /\ Active(d)' = Active(d) /\ PlaceOK(d)' = PlaceOK(d)
        /\ Undoing(d)' = Undoing(d) /\ Inserted' = Inserted
        /\ ActiveRows' = ActiveRows /\ Wrapped(d)' = Wrapped(d)
        /\ Serial' = Serial
    BY DEF Active, PlaceOK, Undoing, Inserted, ActiveRows, Wrapped, IsCloud,
       Serial, Around
  <2>3. HeldOK(d)'
    BY <2>1, <2>2 DEF HeldOK
  <2>4. FateOK(d)' /\ TunnelOK(d)'
    BY <2>1, <2>2 DEF FateOK, TunnelOK
  <2>5. AloneOK(d)'
    BY <2>1, <2>2 DEF AloneOK
  <2> QED BY <2>3, <2>4, <2>5
<1>4. CkptOK'
  BY DEF IInv, CkptOK, Undisturbed
<1>5. ASSUME NEW d \in scope.deployers
      PROVE  (BaseOK(d) /\ StagedOK(d) /\ StackOK(d))'
  BY DEF IInv, BaseOK, StagedOK, StackOK, StagedIn, Lasting, Uncovered, SamePath,
     Files, ActiveRows, Serial
<1> QED BY <1>1, <1>2, <1>3, <1>4, <1>5 DEF IInv, RowInv

\* The inductive invariant: rows, deployers, image, checkpoints and tunnels go
\* together in every behaviour, whatever fails or is killed.
THEOREM DeployInvariant == TargetSpec => []IInv
<1>1. IInv /\ [TargetNext]_vars2 => IInv'
  BY StepIInv, StutterIInv
<1> QED BY <1>1, InitIInv, PTL DEF TargetSpec, vars2

\* The state of deploys and rollbacks keeps its types on a target of any kind.
THEOREM DeployTypeOK == TargetSpec => [](TypeOK /\ RemoteTypeOK)
<1>1. IInv => TypeOK /\ RemoteTypeOK
  BY DEF IInv, RowInv, TypesOK
<1> QED BY <1>1, DeployInvariant, PTL

\* Whatever `release rollback` may go back to, the newest superseded row or
\* the deployment before the active one, was active once.
THEOREM DeployRollbackWasActive == TargetSpec => []RollbackWasActive
<1>1. IInv => RollbackWasActive
  BY DEF IInv, RowInv, RowsOK, Good, RollbackWasActive, SupersededWasActive
<1> QED BY <1>1, DeployInvariant, PTL

\* A deploy that returned to its caller stays good whatever other deployers do
\* to their own rows, and one that threw does not stay active.
THEOREM DeployOutcomeIsHonest == TargetSpec => []OutcomeIsHonest
<1>1. IInv => DoneStaysGood
  BY DEF IInv, RowInv, FateOK, Good, DoneStaysGood
<1>2. IInv => ThrownIsNotActive
  BY DEF IInv, RowInv, FateOK, Caught, ThrownIsNotActive
<1>3. IInv => OutcomeIsHonest
  BY <1>1, <1>2 DEF OutcomeIsHonest
<1> QED BY <1>3, DeployInvariant, PTL

\* Racing deploys whose calls all work leave the target an active row, and
\* where deploys follow one another no leftover row refuses the next one its
\* place.
THEOREM DeployTargetKeepsActive == TargetSpec => []TargetKeepsActive
<1>1. IInv => QuietTargetHasActive
  <2>1. Quiet /\ TypeOK => ~\E d \in scope.deployers : pc[d] = "activate"
    BY DEF Quiet, TypeOK, Active, Working, InTry
  <2> QED BY <2>1 DEF IInv, RowInv, TypesOK, StaysActive, QuietTargetHasActive
<1>2. IInv => LeftoversBlockNothing
  BY DEF IInv, RowInv, AloneOK, LeftoversBlockNothing
<1>3. IInv => TargetKeepsActive
  BY <1>1, <1>2 DEF TargetKeepsActive
<1> QED BY <1>3, DeployInvariant, PTL

\* No path through a deploy, thrown or returned, leaves its tunnel open, and
\* none that works leaves its checkpoint behind.
THEOREM DeployNothingLeaks == TargetSpec => []NothingLeaks
<1>1. IInv => NoCheckpointLeak
  <2>1. Quiet /\ TypeOK => ~\E d \in scope.deployers :
                              pc[d] \in Holding \cup {"restore", "discard"}
    BY DEF Quiet, TypeOK, Active, Working, BeforeTry, InTry, InCatch, Holding
  <2> QED BY <2>1 DEF IInv, RowInv, TypesOK, CkptOK, NoCheckpointLeak
<1>2. IInv => TunnelClosed
  BY DEF IInv, TunnelOK, TunnelClosed, Ended
<1>3. IInv => NothingLeaks
  BY <1>1, <1>2 DEF NothingLeaks
<1> QED BY <1>3, DeployInvariant, PTL

\* VM and stack hold what the active row says where deploys follow one
\* another, and a deploy that fails undisturbed leaves the VM and the previous
\* row as it found them.
THEOREM DeployActiveIsInstalled == TargetSpec => []ActiveIsInstalled
<1>1. ASSUME IInv, scope.kind = "vm", Serial, Quiet, errors <= 1, ~killed,
             NEW r \in ActiveRows
      PROVE  {relOf[r]} \X Lasting(relOf[r]) \subseteq vm
  <2>1. TypeOK
    BY <1>1 DEF IInv, RowInv, TypesOK
  <2>2. PICK d : scope.deployers = {d}
    <3>1. IsFiniteSet(scope.deployers)
      BY <2>1, DeployAssumption, FS_Subset DEF TypeOK
    <3> QED BY <1>1, <3>1, FS_Singleton DEF Serial
  <2>3. d \in Deployers /\ StagedOK(d)
    BY <1>1, <2>1, <2>2 DEF IInv, TypeOK
  <2>4. pc[d] \notin {"stage", "restore", "discard", "markFailed"}
    BY <1>1, <2>3 DEF Quiet, Active, Working, InTry, InCatch
  <2> QED BY <1>1, <2>3, <2>4 DEF StagedOK, StagedIn
<1>2. IInv => ActiveIsStaged
  BY <1>1 DEF ActiveIsStaged
<1>3. ASSUME IInv, NEW d \in Deployers, Serial, scope.kind = "cloud_stack",
             pc[d] = "done", NEW r \in ActiveRows
      PROVE  vm = {<<relOf[r], 1>>}
  <2>1. d \in scope.deployers /\ HeldOK(d) /\ AloneOK(d) /\ StackOK(d)
    BY <1>3 DEF IInv, RowInv, TypesOK, ScopeOK
  <2>2. mine[d] # None /\ r = mine[d] /\ vm = {<<rel[d], 1>>}
    BY <1>3, <2>1 DEF HeldOK, AloneOK, StackOK, Undoing
  <2> QED BY <2>1, <2>2 DEF HeldOK
<1>4. IInv => StackHoldsActive
  BY <1>3 DEF StackHoldsActive
<1>5. ASSUME IInv, NEW d \in Deployers, Serial, pc[d] = "failed", clean[d]
      PROVE  /\ scope.kind = "vm" => vm = base[d] /\ ~ckpt[mine[d]].taken
             /\ prev[d] # None => status[prev[d]] = "active"
  <2>1. d \in scope.deployers /\ AloneOK(d) /\ BaseOK(d)
    BY <1>5 DEF IInv, RowInv, TypesOK, ScopeOK
  <2> QED BY <1>5, <2>1 DEF AloneOK, BaseOK
<1>6. IInv => HealthFailKeepsPrevious
  BY <1>5 DEF HealthFailKeepsPrevious
<1>7. IInv => ActiveIsInstalled
  BY <1>2, <1>4, <1>6 DEF ActiveIsInstalled
<1> QED BY <1>7, DeployInvariant, PTL

-----------------------------------------------------------------------------
(***************************************************************************)
(* Refinement of TargetRegister.                                           *)
(***************************************************************************)

OpenStatus == {"pending", "deploying"}

\* Where a deployer's row has neither been active nor marked failed.
Opening == Fresh \ {"auditUnready"}

OpenOK(d) == pc[d] \in Opening => status[mine[d]] \in OpenStatus

\* Nothing that was active is open again, and a deployer comes to its
\* activation with an open row.
OpenInv ==
    /\ \A r \in everActive : status[r] \notin OpenStatus
    /\ \A d \in Deployers : OpenOK(d)

\* What an update does to a row, by the status it writes.
Writes(r, s) ==
    /\ Sets(r, s) /\ r \in Inserted
    /\ \/ s = "deploying" /\ r \notin everActive /\ status[r] \in OpenStatus
       \/ s \in {"superseded", "rolled_back"} /\ r \in everActive
       \/ /\ s = "active" /\ r \notin everActive /\ status[r] \in OpenStatus
          /\ ActiveRows \subseteq {r}
       \/ s = "failed"

\* An update made of what was read long before still finds the row where the
\* register needs it.
LEMMA UpdateWrites ==
    ASSUME RowInv, OpenInv, NEW d \in scope.deployers, Active(d), RowCall(d)
    PROVE  \E r \in Rows, s \in Statuses :
             Writes(r, s) /\ (r = mine[d] \/ r \in everActive)
<1>0. /\ d \in Deployers /\ HeldOK(d) /\ FateOK(d) /\ RowsOK /\ OpenOK(d)
      /\ mine[d] \in Rows \cup {None} /\ prev[d] \in Rows \cup {None}
  BY InvOf DEF RowInv, TypesOK, TypeOK, OpenInv
<1>1. CASE pc[d] \in {"supersede", "markBack"}
  <2>1. prev[d] \in everActive /\ prev[d] \in Inserted /\ prev[d] \in Rows
    BY <1>0, <1>1 DEF HeldOK, RowsOK
  <2> QED BY <1>1, <2>1 DEF RowCall, Writes, Statuses
<1>2. CASE pc[d] \in {"deploying", "activate"}
  <2>1. /\ mine[d] # None /\ mine[d] \in Inserted
        /\ mine[d] \notin everActive /\ status[mine[d]] \in OpenStatus
    BY <1>0, <1>2 DEF HeldOK, FateOK, OpenOK, Opening, Fresh, Untried
  <2> QED BY <1>0, <1>2, <2>1 DEF RowCall, Writes, Statuses
<1>3. CASE pc[d] \in {"markFailed", "markUnready"}
  <2>1. mine[d] # None /\ mine[d] \in Inserted
    BY <1>0, <1>3 DEF HeldOK, Fresh, Catching
  <2> QED BY <1>0, <1>3, <2>1 DEF RowCall, Writes, Statuses
<1> QED BY <1>1, <1>2, <1>3 DEF RowCall

\* Open rows keep apart from those that were active, and a row nobody but its
\* deployer writes to stays open until that deployer is past its activation.
LEMMA RowsStayOpen ==
    ASSUME RowInv, OpenInv, NEW d \in scope.deployers, RowEffect(d)
    PROVE  /\ \A r \in everActive' : status'[r] \notin OpenStatus
           /\ \A r \in Rows \ {mine[d]} :
                r \notin everActive /\ status[r] \in OpenStatus
                  => status'[r] \in OpenStatus
<1>0. /\ RowTypes /\ RowsOK
      /\ \A r \in everActive : status[r] \notin OpenStatus
  BY DEF RowInv, TypesOK, TypeOK, RemoteTypeOK, RowTypes, OpenInv
<1>1. CASE NoRows
  BY <1>0, <1>1 DEF NoRows
<1>2. CASE Active(d) /\ RowCall(d)
  <2>1. PICK r \in Rows, s \in Statuses :
          Writes(r, s) /\ (r = mine[d] \/ r \in everActive)
    BY <1>2, UpdateWrites
  <2>2. /\ status'[r] = s /\ \A q \in Rows \ {r} : status'[q] = status[q]
        /\ everActive' = everActive \cup {q \in {r} : s = "active"}
    BY <1>0, <2>1 DEF Writes, Sets, RowTypes
  <2>3. s \in OpenStatus => r \notin everActive /\ s # "active"
    BY <2>1 DEF Writes, OpenStatus
  <2> QED BY <1>0, <2>1, <2>2, <2>3 DEF RowTypes
<1>3. CASE pc[d] = "create" /\ \E r \in Rows : NewRow(d, r)
  <2>1. PICK r \in Rows : NewRow(d, r)
    BY <1>3
  <2>2. /\ status[r] = "none" /\ everActive' = everActive
        /\ \A q \in Rows \ {r} : status'[q] = status[q]
    BY <1>0, <2>1 DEF NewRow, RowTypes
  <2>3. r \notin everActive
    BY <1>0, <2>2 DEF RowsOK, Inserted
  <2> QED BY <1>0, <2>2, <2>3 DEF RowTypes, OpenStatus
<1> QED BY <1>1, <1>2, <1>3 DEF RowEffect

\* A deployer comes to each place before its activation with an open row.
LEMMA OpenKept ==
    ASSUME RowInv, OpenInv, NEW d \in scope.deployers, Move(d), scope' = scope
    PROVE  OpenOK(d)'
<1>0. /\ d \in Deployers /\ HeldOK(d) /\ FateOK(d) /\ OpenOK(d) /\ RowTypes
      /\ scope.kind \in Kinds /\ op[d] \in {"deploy", "rollback"}
      /\ pc \in [Deployers -> Working \cup Ended \cup {"idle"}]
      /\ mine \in [Deployers -> Rows \cup {None}]
  BY InvOf DEF RowInv, TypesOK, TypeOK, RemoteTypeOK, RowTypes, OpenInv
<1>1. CASE BeginMove(d) \/ LookMove(d) \/ KillMove(d)
  <2>1. pc'[d] \in {"aborted", "auditBegin", "lookup", "undo", "create",
                    "killed"}
    BY <1>0, <1>1 DEF BeginMove, LookMove, KillMove, Returns, Goto
  <2> QED BY <2>1 DEF OpenOK, Opening, Fresh, Untried
<1>2. CASE CreateMove(d)
  <2>1. PICK r \in Rows : NewRow(d, r) /\ mine' = [mine EXCEPT ![d] = r]
    BY <1>2 DEF CreateMove
  <2>2. mine'[d] = r /\ status'[r] = "pending"
    BY <1>0, <2>1 DEF NewRow, RowTypes
  <2> QED BY <2>2 DEF OpenOK, OpenStatus
<1>3. CASE CallMove(d)
  <2>1. PICK q \in Working \cup Ended : Edge(d, q) /\ pc'[d] = q
    BY <1>0, <1>3 DEF CallMove, Returns, Goto
  <2>2. /\ Active(d) /\ PlaceOK(d) /\ mine'[d] = mine[d]
        /\ pc[d] \notin {"lookup", "create", "auditUnready"}
        /\ RowCall(d) \/ (pc[d] \notin Updates /\ NoRows)
    BY <1>0, <1>3 DEF CallMove, HeldOK, Holds
  <2>3. EdgeClass(d, q)
    BY <1>0, <2>1, <2>2, EdgeClasses
  <2>4. SUFFICES ASSUME q \in Opening
                 PROVE  status'[mine[d]] \in OpenStatus
    BY <2>1, <2>2 DEF OpenOK
  <2>5. /\ pc[d] \in Opening /\ pc[d] \notin {"activate", "markUnready"}
        /\ pc[d] \notin {"markFailed", "markBack"}
    BY <2>3, <2>4 DEF EdgeClass, Opening, Fresh, Untried, Standing, Catching
  <2>6. /\ mine[d] \in Rows /\ mine[d] \notin everActive
        /\ status[mine[d]] \in OpenStatus
    BY <1>0, <2>5 DEF HeldOK, FateOK, OpenOK, Opening
  <2>7. CASE pc[d] = "supersede"
    <3>1. prev[d] # mine[d]
      BY <1>0, <2>6, <2>7 DEF HeldOK
    <3>2. status' = [status EXCEPT ![prev[d]] = "superseded"]
      BY <2>2, <2>7 DEF RowCall, Sets, Updates
    <3> QED BY <1>0, <2>6, <3>1, <3>2 DEF RowTypes
  <2>8. CASE pc[d] = "deploying"
    <3>1. status' = [status EXCEPT ![mine[d]] = "deploying"]
      BY <2>2, <2>8 DEF RowCall, Sets, Updates
    <3> QED BY <1>0, <2>6, <3>1 DEF RowTypes, OpenStatus
  <2>9. CASE pc[d] \notin Updates
    <3>1. status' = status
      BY <2>2, <2>9 DEF RowCall, NoRows, Updates
    <3> QED BY <2>6, <3>1
  <2> QED BY <2>5, <2>7, <2>8, <2>9 DEF Updates
<1>4. CASE TurnMove(d)
  <2>1. mine'[d] = mine[d] /\ status' = status
    BY <1>4 DEF TurnMove, NoRows, Holds
  <2>2. \/ pc'[d] = "markUnready" /\ pc[d] = "ready"
        \/ pc'[d] \in Catching \cup {"aborted", "auditBackFail", "failed"}
    BY <1>0, <1>4 DEF TurnMove, Returns, Goto
  <2> QED BY <1>0, <2>1, <2>2 DEF OpenOK, Opening, Fresh, Untried, Catching
<1>5. CASE ErrorMove(d)
  <2>1. PICK q \in Working \cup Ended : ErrorEdge(d, q) /\ pc'[d] = q
    BY <1>0, <1>5 DEF ErrorMove, Goto
  <2>2. Active(d) /\ PlaceOK(d) /\ pc[d] \notin {"close", "closeFail"}
    BY <1>0, <1>5 DEF ErrorMove, HeldOK
  <2>3. q \notin Fresh
    BY <1>0, <2>1, <2>2 DEF ErrorEdge, CatchesAt, Leaves, PlaceOK, Shared,
       Around, Undoing, Kinds, BeforeTry, InTry, InCatch, Rowless, Fresh,
       Untried, Standing, Catching
  <2> QED BY <2>1, <2>3 DEF OpenOK, Opening
<1> QED BY <1>1, <1>2, <1>3, <1>4, <1>5 DEF Move

\* ... and so for all of them.
LEMMA StepOpenInv ==
    ASSUME RowInv, OpenInv, TargetNext
    PROVE  OpenInv'
<1>1. PICK d \in scope.deployers : Move(d) /\ scope' = scope
  BY NextIsMove
<1>2. /\ RowEffect(d) /\ OthersStand(d) /\ d \in Deployers
  BY <1>1, MoveFrame, InvOf
<1>3. /\ \A r \in everActive' : status'[r] \notin OpenStatus
      /\ \A r \in Rows \ {mine[d]} :
           r \notin everActive /\ status[r] \in OpenStatus
             => status'[r] \in OpenStatus
  BY <1>2, RowsStayOpen
<1>4. ASSUME NEW e \in Deployers \ {d}
      PROVE  OpenOK(e)'
  <2>1. /\ HeldOK(e) /\ FateOK(e) /\ OpenOK(e) /\ MineApart
        /\ mine[e] \in Rows \cup {None}
    BY DEF RowInv, TypesOK, TypeOK, OpenInv
  <2>2. pc[e] \in Opening => /\ mine[e] \in Rows \ {mine[d]}
                             /\ mine[e] \notin everActive
    BY <1>2, <2>1 DEF HeldOK, FateOK, MineApart, Opening
  <2>3. pc'[e] = pc[e] /\ mine'[e] = mine[e]
    BY <1>2 DEF OthersStand
  <2> QED BY <1>3, <2>1, <2>2, <2>3 DEF OpenOK
<1>5. OpenOK(d)'
  BY <1>1, OpenKept
<1> QED BY <1>3, <1>4, <1>5 DEF OpenInv

\* The phase each status stands for.
LEMMA PhaseTable ==
    /\ PhaseOfStatus["none"] = "absent"
    /\ \A s \in OpenStatus : PhaseOfStatus[s] = "open"
    /\ PhaseOfStatus["active"] = "standing"
    /\ PhaseOfStatus["superseded"] = "former"
    /\ PhaseOfStatus["rolled_back"] = "former"
    /\ PhaseOfStatus["failed"] = "closed"
  BY DEF PhaseOfStatus, OpenStatus

\* A row that was active is one the register can go back to.
LEMMA HasStoodIs ==
    ASSUME RowTypes, RowsOK, OpenInv, NEW r \in everActive
    PROVE  RowPhase[r] \in {"standing", "former"}
<1>1. /\ r \in Rows
      /\ status[r] \in {"active", "superseded", "rolled_back", "failed"}
  BY DEF RowTypes, RowsOK, Inserted, OpenInv, OpenStatus, Statuses
<1> QED BY <1>1, PhaseTable DEF RowPhase

\* Where one row changes its phase, the register moves one deployment.
LEMMA PhaseMoves ==
    ASSUME NEW r \in Rows, NEW x, RowPhase'[r] = x,
           \A q \in Rows \ {r} : RowPhase'[q] = RowPhase[q]
    PROVE  RowPhase' = [RowPhase EXCEPT ![r] = x]
  BY DEF RowPhase

\* An update of a row is a move of the register, or none.
LEMMA UpdateRefines ==
    ASSUME RowInv, OpenInv, NEW r \in Rows, NEW s \in Statuses, Writes(r, s)
    PROVE  Register!Next \/ UNCHANGED Register!vars
<1>0. /\ RowTypes /\ RowsOK
      /\ \A q \in everActive : status[q] \notin OpenStatus
  BY DEF RowInv, TypesOK, TypeOK, RemoteTypeOK, RowTypes, OpenInv
<1>1. /\ status'[r] = s /\ \A q \in Rows \ {r} : status'[q] = status[q]
      /\ everActive' = everActive \cup {q \in {r} : s = "active"}
      /\ relOf' = relOf /\ prevOf' = prevOf
  BY <1>0 DEF Writes, Sets, RowTypes
<1>2. \A q \in Rows \ {r} : RowPhase'[q] = RowPhase[q]
  BY <1>1 DEF RowPhase
<1>3. ASSUME RowPhase'[r] = RowPhase[r]
      PROVE  UNCHANGED Register!vars
  <2>1. RowPhase' = RowPhase
    BY <1>2, <1>3 DEF RowPhase
  <2> QED BY <1>1, <2>1 DEF Register!vars
<1>4. ASSUME NEW from, NEW to, RowPhase[r] = from, RowPhase'[r] = to
      PROVE  Register!Move(r, from, to)
  BY <1>1, <1>2, <1>4, PhaseMoves DEF Register!Move
<1>5. ASSUME RowPhase'[r] # RowPhase[r],
             Register!Stand(r) \/ Register!Retire(r) \/ Register!Close(r)
      PROVE  Register!Next
  BY <1>5 DEF Register!Next
<1>6. CASE s = "deploying"
  <2>1. RowPhase[r] = "open" /\ RowPhase'[r] = "open"
    BY <1>0, <1>1, <1>6, PhaseTable DEF Writes, RowPhase, OpenStatus
  <2> QED BY <1>3, <2>1
<1>7. CASE s \in {"superseded", "rolled_back"}
  <2>1. RowPhase'[r] = "former" /\ RowPhase[r] \in {"standing", "former"}
    BY <1>0, <1>1, <1>7, PhaseTable, HasStoodIs DEF Writes, RowPhase
  <2>2. CASE RowPhase[r] = "standing"
    BY <1>4, <1>5, <2>1, <2>2 DEF Register!Retire
  <2> QED BY <1>3, <2>1, <2>2
<1>8. CASE s = "active"
  <2>1. RowPhase[r] = "open" /\ RowPhase'[r] = "standing"
    BY <1>0, <1>1, <1>8, PhaseTable DEF Writes, RowPhase, OpenStatus
  <2>2. \A q \in Rows : RowPhase[q] # "standing"
    <3>1. \A q \in Rows : status[q] # "active"
      BY <1>8 DEF Writes, ActiveRows, OpenStatus
    <3>2. ASSUME NEW q \in Rows PROVE RowPhase[q] # "standing"
      <4>1. status[q] \in OpenStatus \cup {"none", "superseded",
                                           "rolled_back", "failed"}
        BY <1>0, <3>1 DEF RowTypes, Statuses, OpenStatus
      <4> QED BY <4>1, PhaseTable DEF RowPhase
    <3> QED BY <3>2
  <2>3. Register!Stand(r)
    BY <1>4, <2>1, <2>2 DEF Register!Stand
  <2> QED BY <1>5, <2>1, <2>3
<1>9. CASE s = "failed"
  <2>1. RowPhase'[r] = IF r \in everActive THEN "former" ELSE "closed"
    BY <1>1, <1>9, PhaseTable DEF RowPhase
  <2>2. CASE r \in everActive
    <3>1. RowPhase[r] \in {"standing", "former"}
      BY <1>0, <2>2, HasStoodIs
    <3>2. CASE RowPhase[r] = "standing"
      BY <1>4, <1>5, <2>1, <2>2, <3>2 DEF Register!Retire
    <3> QED BY <1>3, <2>1, <2>2, <3>1, <3>2
  <2>3. CASE r \notin everActive
    <3>1. status[r] \in OpenStatus \cup {"failed"}
      BY <1>0, <2>3 DEF Writes, RowsOK, Good, Inserted, RowTypes, Statuses,
         OpenStatus
    <3>2. RowPhase[r] \in {"open", "closed"}
      BY <2>3, <3>1, PhaseTable DEF RowPhase, OpenStatus
    <3>3. CASE RowPhase[r] = "open"
      BY <1>4, <1>5, <2>1, <2>3, <3>3 DEF Register!Close
    <3> QED BY <1>3, <2>1, <2>3, <3>2, <3>3
  <2> QED BY <2>2, <2>3
<1> QED BY <1>6, <1>7, <1>8, <1>9 DEF Writes

\* A new row is opened for a release, after a deployment that has stood.
LEMMA CreateRefines ==
    ASSUME RowInv, OpenInv, NEW d \in scope.deployers, pc[d] = "create",
           NEW r \in Rows, NewRow(d, r)
    PROVE  Register!Next
<1>0. /\ RowTypes /\ RowsOK /\ HeldOK(d) /\ PriorWasActive
  BY InvOf DEF RowInv, TypesOK, TypeOK, RemoteTypeOK, RowTypes, RowsOK
<1>1. /\ rel[d] \in Releases
      /\ prev[d] \in everActive \cup {None}
  BY <1>0, InvOf DEF HeldOK, PlaceOK, Active, Working, BeforeTry, RowInv,
     TypesOK, TypeOK
<1>2. /\ status[r] = "none" /\ status'[r] = "pending"
      /\ \A q \in Rows \ {r} : status'[q] = status[q]
      /\ relOf' = [relOf EXCEPT ![r] = rel[d]]
      /\ everActive' = everActive
  BY <1>0 DEF NewRow, RowTypes
<1>3. RowPhase[r] = "absent" /\ RowPhase'[r] = "open"
  BY <1>2, PhaseTable DEF RowPhase, OpenStatus
<1>4. RowPhase' = [RowPhase EXCEPT ![r] = "open"]
  <2>1. \A q \in Rows \ {r} : RowPhase'[q] = RowPhase[q]
    BY <1>2 DEF RowPhase
  <2> QED BY <1>3, <2>1, PhaseMoves
<1>5. PICK p \in everActive \cup {None} : prevOf' = [prevOf EXCEPT ![r] = p]
  <2>1. CASE prevOf' = prevOf
    <3>1. prevOf' = [prevOf EXCEPT ![r] = prevOf[r]]
      BY <1>0, <2>1 DEF RowTypes
    <3>2. prevOf[r] \in everActive \cup {None}
      BY <1>0 DEF PriorWasActive
    <3> QED BY <3>1, <3>2
  <2> QED BY <1>1, <2>1 DEF NewRow
<1>6. p \in Register!HasStood \cup {None}
  BY <1>0, HasStoodIs DEF Register!HasStood, RowTypes
<1>7. Register!Open(r)
  BY <1>1, <1>2, <1>3, <1>4, <1>5, <1>6 DEF Register!Open
<1> QED BY <1>3, <1>7 DEF Register!Next

\* Every step of the deployers is a step of the register or leaves it alone.
LEMMA StepRefinesRegister ==
    ASSUME RowInv, OpenInv, TargetNext
    PROVE  Register!Next \/ UNCHANGED Register!vars
<1>1. PICK d \in scope.deployers : RowEffect(d)
  BY NextIsMove, MoveFrame
<1>2. CASE NoRows
  BY <1>2 DEF NoRows, Register!vars, RowPhase
<1>3. CASE Active(d) /\ RowCall(d)
  BY <1>3, UpdateWrites, UpdateRefines
<1>4. CASE pc[d] = "create" /\ \E r \in Rows : NewRow(d, r)
  BY <1>4, CreateRefines
<1> QED BY <1>1, <1>2, <1>3, <1>4 DEF RowEffect

\* The deployment rows of a target, with deployers that act on what they read
\* long before, failing calls, catch blocks and kills, implement the register
\* of TargetRegister: one release stands at a time, each deployment at most
\* once, and what a rollback can go back to has stood.
THEOREM DeployImplementsRegister == TargetSpec => ImplementsRegister
<1>1. RemoteInit => OpenInv /\ Register!Init
  <2>1. RemoteInit => OpenInv
    BY DEF RemoteInit, Init, OpenInv, OpenOK, Opening, Fresh, Untried
  <2>2. RemoteInit => RowPhase = [r \in Rows |-> "absent"]
    BY PhaseTable DEF RemoteInit, Init, RowPhase
  <2> QED BY <2>1, <2>2 DEF RemoteInit, Init, Register!Init
<1>2. IInv /\ OpenInv /\ [TargetNext]_vars2 => OpenInv'
  <2>1. OpenInv /\ UNCHANGED vars2 => OpenInv'
    BY DEF OpenInv, OpenOK, vars2, vars, rowVars, localVars, histVars
  <2> QED BY <2>1, StepOpenInv DEF IInv
<1>3. IInv /\ OpenInv /\ [TargetNext]_vars2
        => [Register!Next]_(Register!vars)
  <2>1. UNCHANGED vars2 => UNCHANGED Register!vars
    BY DEF vars2, vars, rowVars, histVars, Register!vars, RowPhase
  <2> QED BY <2>1, StepRefinesRegister DEF IInv
<1> QED BY <1>1, <1>2, <1>3, DeployInvariant, PTL
       DEF TargetSpec, vars2, ImplementsRegister, Register!Spec
=============================================================================
