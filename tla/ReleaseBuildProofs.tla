------------------------- MODULE ReleaseBuildProofs -------------------------
(***************************************************************************)
(* Proofs about the build executor, for any number of builders, rows,      *)
(* artifacts and failed calls.  The inductive invariant says what a        *)
(* builder's position in runBuild tells about the row it works on:  no two *)
(* builds share a row, a row is building until its own build ends it, at   *)
(* most one row is live, and as long as a build was not interleaved with,  *)
(* the live row is the one it believes in.                                 *)
(***************************************************************************)
EXTENDS ReleaseBuild, TLAPS

\* Positions in runBuild: release.id is set, not yet set, set and the row
\* still being filled.
HoldsRow == {"auditStart", "build", "capture", "finish", "auditDone", "catch",
             "auditFail", "done", "failed"}
Looking  == {"lookup", "delete", "parse", "create"}
Filling  == {"auditStart", "build", "capture", "finish"}

OwnRow ==
    \A b \in Builders :
        /\ pc[b] \in HoldsRow => mine[b] # None
        /\ pc[b] \in Looking => mine[b] = None
        /\ pc[b] = "delete" => seen[b] # None

\* Rows that somebody works on, and live rows, were inserted.
Inserted ==
    /\ \A b \in Builders : mine[b] # None => status[mine[b]] # "none"
    /\ \A r \in live : status[r] # "none"

Exclusive ==
    \A b, c \in Builders : b # c /\ mine[b] # None => mine[b] # mine[c]

\* The unique index on live (product, tag) pairs.
OneLive == \A r, q \in live : r = q

\* The manifest entries of a build are artifact rows of its release.
Captured ==
    \A b \in Builders :
        /\ mine[b] = None => caught[b] = {}
        /\ mine[b] # None => caught[b] \subseteq arts[mine[b]]
        /\ pc[b] = "finish" => caught[b] = Arts

\* Only its own build moves a row on.  A live ready row of a build that threw
\* was made so by a call that failed all the same.
StatusOf ==
    \A b \in Builders :
        /\ pc[b] \in Filling => status[mine[b]] = "building"
        /\ pc[b] \in {"auditDone", "done"} => status[mine[b]] = "ready"
        /\ /\ pc[b] \in {"auditFail", "failed"}
           /\ mine[b] \in live
           /\ status[mine[b]] = "ready"
           => \/ "catch" \in erred[b]
              \/ "finish" \in erred[b] /\ b \in Remote

\* A builder at its soft-delete did not find the row ready.
Decided == \A b \in Builders : pc[b] = "delete" => found[b] # "ready"

\* What a request that is still travelling tells about its row: its sender
\* is past the call, and is told of the failure unless it died.
Past(q, b) ==
    \/ pc[b] = "killed"
    \/ pc[b] \in {"auditFail", "failed"} /\ q.op = "catch"
    \/ /\ pc[b] \in {"catch", "auditFail", "failed"}
       /\ q.op = "finish" /\ "finish" \in erred[b] /\ b \in Remote

LateOf ==
    \A q \in late :
        /\ q.op = "delete" => q.found # "ready"
        /\ q.op \in {"finish", "catch"} =>
             /\ q.row \in Rows
             /\ status[q.row] # "none"
             /\ \A b \in Builders : mine[b] = q.row => Past(q, b)
        /\ q.op = "finish" => q.set = Arts /\ arts[q.row] = Arts

\* What an undisturbed build knows about the live row.
CleanAt ==
    \A b \in clean :
        /\ pc[b] = "delete" => seen[b] \in live /\ status[seen[b]] # "ready"
        /\ pc[b] \in {"parse", "create"} => live = {}
        /\ pc[b] \in Filling => mine[b] \in live
        /\ pc[b] \notin {"aborted", "catch", "auditFail", "failed", "killed"}

IInv ==
    /\ TypeOK /\ OwnRow /\ Inserted /\ Exclusive /\ OneLive /\ Captured
    /\ StatusOf /\ Decided /\ LateOf /\ CleanAt /\ ReadyIsComplete

-----------------------------------------------------------------------------
(***************************************************************************)
(* Every step keeps the invariant, one lemma for each action.              *)
(***************************************************************************)

\* Wherever a step goes, it goes to a place of runBuild.
LEMMA GotoTypes ==
    ASSUME TypeOK, NEW b \in Builders, NEW loc \in Working \cup Ended, NEW u,
           GotoWith(b, loc, u)
    PROVE  /\ pc' \in [Builders -> Working \cup Ended \cup {"idle"}]
           /\ clean' \subseteq Builders
  BY DEF TypeOK, GotoWith

LEMMA BeginKeeps ==
    ASSUME IInv, NEW b \in Builders, Begin(b)
    PROVE  IInv'
<1>1. TypeOK'
  BY ReleaseBuildAssumption DEF IInv, TypeOK, Begin, rowVars, Working, Status
<1>2. OwnRow'
  BY DEF IInv, TypeOK, OwnRow, Begin, HoldsRow
<1>3. Inserted'
  BY DEF IInv, Inserted, Begin, rowVars
<1>4. Exclusive'
  BY DEF IInv, Exclusive, Begin
<1>5. OneLive'
  BY DEF IInv, OneLive, Begin, rowVars
<1>6. Captured'
  BY DEF IInv, TypeOK, Captured, Begin, rowVars
<1>7. StatusOf'
  BY DEF IInv, TypeOK, StatusOf, Begin, rowVars, Filling
<1>8. CleanAt'
  BY DEF IInv, TypeOK, CleanAt, Begin, Active, Ended, Filling
<1>9. ReadyIsComplete'
  BY DEF IInv, ReadyIsComplete, Begin, rowVars
<1>10. Decided'
  BY DEF IInv, TypeOK, Decided, Begin, rowVars
<1>11. LateOf'
  <2>1. \A q \in late, c \in Builders :
            mine'[c] = q.row /\ q.row # None => mine[c] = q.row /\ c # b
    BY DEF IInv, TypeOK, Begin
  <2>2. \A q \in late, c \in Builders \ {b} : Past(q, c) => Past(q, c)'
    BY DEF IInv, TypeOK, Past, Begin
  <2>3. \A r \in Rows : r # None BY DEF Rows, None
  <2> QED BY <2>1, <2>2, <2>3 DEF IInv, LateOf, Begin, rowVars
<1> QED BY <1>1, <1>2, <1>3, <1>4, <1>5, <1>6, <1>7, <1>8, <1>9, <1>10, <1>11 DEF IInv

LEMMA LookupKeeps ==
    ASSUME IInv, NEW b \in Builders, Lookup(b)
    PROVE  IInv'
<1>1. TypeOK'
  <2>1. PICK loc \in Working \cup Ended : Returns(b, loc)
    BY DEF Lookup, Working, Ended
  <2>2. seen' \in [Builders -> Rows \cup {None}]
    BY DEF IInv, TypeOK, Lookup
  <2> QED BY <2>1, <2>2, GotoTypes DEF IInv, TypeOK, Lookup, Returns, rowVars
<1>2. OwnRow'
  BY DEF IInv, TypeOK, OwnRow, Lookup, Returns, GotoWith, HoldsRow, Looking,
     None, Rows
<1>3. Inserted'
  BY DEF IInv, Inserted, Lookup, rowVars
<1>4. Exclusive'
  BY DEF IInv, Exclusive, Lookup
<1>5. OneLive'
  BY DEF IInv, OneLive, Lookup, rowVars
<1>6. Captured'
  BY DEF IInv, TypeOK, Captured, Lookup, Returns, GotoWith, rowVars
<1>7. StatusOf'
  BY DEF IInv, TypeOK, StatusOf, Lookup, Returns, GotoWith, rowVars, Filling
<1>8. CleanAt'
  BY DEF IInv, TypeOK, CleanAt, Lookup, Returns, GotoWith, rowVars, Filling
<1>9. ReadyIsComplete'
  BY DEF IInv, ReadyIsComplete, Lookup, rowVars
<1>10. Decided'
  BY DEF IInv, TypeOK, Decided, Lookup, Returns, GotoWith, rowVars
<1>11. LateOf'
  BY DEF IInv, TypeOK, OwnRow, Inserted, LateOf, Past, Working, Ended, Requests,
     Lookup, Returns, GotoWith, rowVars
<1> QED BY <1>1, <1>2, <1>3, <1>4, <1>5, <1>6, <1>7, <1>8, <1>9, <1>10, <1>11 DEF IInv

LEMMA DeleteKeeps ==
    ASSUME IInv, NEW b \in Builders, Delete(b)
    PROVE  IInv'
<1>1. TypeOK'
  BY DEF IInv, TypeOK, Delete, Returns, GotoWith, SoftDelete, rowVars,
     localVars, Working, Ended
<1>2. OwnRow'
  BY DEF IInv, TypeOK, OwnRow, Delete, Returns, GotoWith, localVars,
     HoldsRow, Looking
<1>3. Inserted'
  BY DEF IInv, Inserted, Delete, SoftDelete, rowVars, localVars
<1>4. Exclusive'
  BY DEF IInv, Exclusive, Delete, localVars
<1>5. OneLive'
  BY DEF IInv, OneLive, Delete, SoftDelete, rowVars
<1>6. Captured'
  BY DEF IInv, TypeOK, Captured, Delete, Returns, GotoWith, SoftDelete,
     rowVars, localVars
<1>7. StatusOf'
  BY ReleaseBuildAssumption DEF IInv, TypeOK, OwnRow, Inserted, Exclusive,
     StatusOf, Delete, Returns, GotoWith, SoftDelete, rowVars, localVars,
     Working, Ended, HoldsRow, Looking, Filling, None, Rows
<1>8. CleanAt'
  <2>0. seen[b] \in Rows BY DEF IInv, TypeOK, OwnRow, Delete
  <2>1. CASE seen[b] \in live
    <3>1. live' = {}
      BY <2>1 DEF IInv, OneLive, Delete, SoftDelete
    <3> QED BY <2>1, <3>1 DEF IInv, TypeOK, CleanAt, Delete, Returns,
         GotoWith, Active, Working, Filling
  <2>2. CASE seen[b] \notin live
    BY <2>2 DEF IInv, TypeOK, CleanAt, Delete, Returns, GotoWith, rowVars,
       localVars
  <2> QED BY <2>1, <2>2
<1>9. ReadyIsComplete'
  BY DEF IInv, ReadyIsComplete, Delete, SoftDelete, rowVars
<1>10. Decided'
  BY DEF IInv, TypeOK, Decided, Delete, Returns, GotoWith, SoftDelete, rowVars, localVars
<1>11. LateOf'
  BY DEF IInv, TypeOK, OwnRow, Inserted, LateOf, Past, Working, Ended, Requests,
     Delete, Returns, GotoWith, SoftDelete, rowVars, localVars
<1> QED BY <1>1, <1>2, <1>3, <1>4, <1>5, <1>6, <1>7, <1>8, <1>9, <1>10, <1>11 DEF IInv

LEMMA ParseKeeps ==
    ASSUME IInv, NEW b \in Builders, Parse(b)
    PROVE  IInv'
<1>1. TypeOK'
  BY DEF IInv, TypeOK, Parse, Returns, Throws, GotoWith, rowVars, localVars,
     Working, Ended
<1>2. OwnRow'
  BY DEF IInv, TypeOK, OwnRow, Parse, Returns, Throws, GotoWith, localVars,
     HoldsRow, Looking
<1>3. Inserted'
  BY DEF IInv, Inserted, Parse, rowVars, localVars
<1>4. Exclusive'
  BY DEF IInv, Exclusive, Parse, localVars
<1>5. OneLive'
  BY DEF IInv, OneLive, Parse, rowVars
<1>6. Captured'
  BY DEF IInv, TypeOK, Captured, Parse, Returns, Throws, GotoWith, rowVars,
     localVars
<1>7. StatusOf'
  BY DEF IInv, TypeOK, StatusOf, Parse, Returns, Throws, GotoWith, rowVars,
     localVars, Filling
<1>8. CleanAt'
  BY DEF IInv, TypeOK, CleanAt, Parse, Returns, Throws, GotoWith, rowVars,
     Active, Working, Ended, Filling
<1>9. ReadyIsComplete'
  BY DEF IInv, ReadyIsComplete, Parse, rowVars
<1>10. Decided'
  BY DEF IInv, TypeOK, Decided, Parse, Returns, Throws, GotoWith, rowVars, localVars
<1>11. LateOf'
  BY DEF IInv, TypeOK, OwnRow, Inserted, LateOf, Past, Working, Ended, Requests,
     Parse, Returns, Throws, GotoWith, rowVars, localVars
<1> QED BY <1>1, <1>2, <1>3, <1>4, <1>5, <1>6, <1>7, <1>8, <1>9, <1>10, <1>11 DEF IInv

LEMMA CreateKeeps ==
    ASSUME IInv, NEW b \in Builders, Create(b)
    PROVE  IInv'
<1>1. TypeOK' /\ Inserted' /\ CleanAt'
  <2>1. ASSUME NEW r \in Rows, live = {}, Insert(r),
               mine' = [mine EXCEPT ![b] = r], Returns(b, "auditStart")
        PROVE  TypeOK' /\ Inserted' /\ CleanAt'
    <3>1. TypeOK'
      BY <2>1, GotoTypes DEF IInv, TypeOK, Create, Insert, Returns, Working,
         Status
    <3>2. Inserted'
      BY <2>1 DEF IInv, TypeOK, Inserted, Insert
    <3>3. CleanAt'
      BY <2>1 DEF IInv, TypeOK, CleanAt, Insert, Returns, GotoWith, Active,
         Working
    <3> QED BY <3>1, <3>2, <3>3
  <2>2. CASE live # {} /\ Returns(b, "aborted") /\ UNCHANGED <<rowVars, mine>>
    <3>1. TypeOK'
      BY <2>2, GotoTypes DEF IInv, TypeOK, Create, Returns, Ended, rowVars
    <3>2. Inserted'
      BY <2>2 DEF IInv, Inserted, rowVars
    <3>3. CleanAt'
      BY <2>2 DEF IInv, CleanAt, Create, Returns, GotoWith, rowVars
    <3> QED BY <3>1, <3>2, <3>3
  <2> QED BY <2>1, <2>2 DEF Create
<1>2. OwnRow'
  BY DEF IInv, TypeOK, OwnRow, Create, Returns, GotoWith, HoldsRow, Looking,
     None, Rows
<1>3. Exclusive'
  BY DEF IInv, TypeOK, Inserted, Exclusive, Create, Insert, Ended
<1>4. OneLive'
  BY DEF IInv, OneLive, Create, Insert, rowVars
<1>5. Captured'
  BY ReleaseBuildAssumption DEF IInv, TypeOK, OwnRow, Captured, Create,
     Returns, GotoWith, Insert, rowVars, Looking, Rows
<1>6. StatusOf'
  BY DEF IInv, TypeOK, OwnRow, StatusOf, Create, Returns, GotoWith, Insert,
     rowVars, Ended, HoldsRow, Looking, Filling, None
<1>7. ReadyIsComplete'
  BY DEF IInv, TypeOK, ReadyIsComplete, Create, Insert, rowVars
<1>10. Decided'
  BY DEF IInv, TypeOK, Decided, Create, Returns, GotoWith, Insert, rowVars
<1>11. LateOf'
  BY DEF IInv, TypeOK, OwnRow, Inserted, LateOf, Past, Working, Ended, Requests,
     Create, Returns, GotoWith, Insert, rowVars
<1> QED BY <1>1, <1>2, <1>3, <1>4, <1>5, <1>6, <1>7, <1>10, <1>11 DEF IInv

LEMMA AuditStartKeeps ==
    ASSUME IInv, NEW b \in Builders, AuditStart(b)
    PROVE  IInv'
<1>1. TypeOK'
  BY DEF IInv, TypeOK, AuditStart, Returns, GotoWith, rowVars, localVars,
     Working
<1>2. OwnRow'
  BY DEF IInv, OwnRow, AuditStart, Returns, GotoWith, localVars, HoldsRow,
     Looking
<1>3. Inserted'
  BY DEF IInv, Inserted, AuditStart, rowVars, localVars
<1>4. Exclusive'
  BY DEF IInv, Exclusive, AuditStart, localVars
<1>5. OneLive'
  BY DEF IInv, OneLive, AuditStart, rowVars
<1>6. Captured'
  BY DEF IInv, Captured, AuditStart, Returns, GotoWith, rowVars, localVars
<1>7. StatusOf'
  BY DEF IInv, StatusOf, AuditStart, Returns, GotoWith, rowVars, localVars,
     Filling
<1>8. CleanAt'
  BY DEF IInv, CleanAt, AuditStart, Returns, GotoWith, rowVars, localVars,
     Filling
<1>9. ReadyIsComplete'
  BY DEF IInv, ReadyIsComplete, AuditStart, rowVars
<1>10. Decided'
  BY DEF IInv, TypeOK, Decided, AuditStart, Returns, GotoWith, rowVars, localVars
<1>11. LateOf'
  BY DEF IInv, TypeOK, OwnRow, Inserted, LateOf, Past, Working, Ended, Requests,
     AuditStart, Returns, GotoWith, rowVars, localVars
<1> QED BY <1>1, <1>2, <1>3, <1>4, <1>5, <1>6, <1>7, <1>8, <1>9, <1>10, <1>11 DEF IInv

LEMMA BuildKeeps ==
    ASSUME IInv, NEW b \in Builders, Build(b)
    PROVE  IInv'
<1>1. TypeOK'
  BY DEF IInv, TypeOK, Build, Returns, Throws, GotoWith, rowVars, localVars,
     Working
<1>2. OwnRow'
  BY DEF IInv, TypeOK, OwnRow, Build, Returns, Throws, GotoWith, localVars,
     HoldsRow, Looking
<1>3. Inserted'
  BY DEF IInv, Inserted, Build, rowVars, localVars
<1>4. Exclusive'
  BY DEF IInv, Exclusive, Build, localVars
<1>5. OneLive'
  BY DEF IInv, OneLive, Build, rowVars
<1>6. Captured'
  BY DEF IInv, TypeOK, Captured, Build, Returns, Throws, GotoWith, rowVars,
     localVars
<1>7. StatusOf'
  BY DEF IInv, TypeOK, StatusOf, Build, Returns, Throws, GotoWith, rowVars,
     localVars, Filling
<1>8. CleanAt'
  BY DEF IInv, TypeOK, CleanAt, Build, Returns, Throws, GotoWith, rowVars,
     localVars, Active, Filling
<1>9. ReadyIsComplete'
  BY DEF IInv, ReadyIsComplete, Build, rowVars
<1>10. Decided'
  BY DEF IInv, TypeOK, Decided, Build, Returns, Throws, GotoWith, rowVars, localVars
<1>11. LateOf'
  BY DEF IInv, TypeOK, OwnRow, Inserted, LateOf, Past, Working, Ended, Requests,
     Build, Returns, Throws, GotoWith, rowVars, localVars
<1> QED BY <1>1, <1>2, <1>3, <1>4, <1>5, <1>6, <1>7, <1>8, <1>9, <1>10, <1>11 DEF IInv

LEMMA CaptureKeeps ==
    ASSUME IInv, NEW b \in Builders, Capture(b)
    PROVE  IInv'
<1>1. TypeOK' /\ Captured' /\ ReadyIsComplete'
  <2>0. mine[b] \in Rows BY DEF IInv, TypeOK, OwnRow, HoldsRow, Capture
  <2>1. ASSUME InsertArtifact(mine[b], NextArt(b)),
               caught' = [caught EXCEPT ![b] = @ \cup NextArt(b)],
               Returns(b, "build")
        PROVE  TypeOK' /\ Captured' /\ ReadyIsComplete'
    <3>0. NextArt(b) \subseteq Arts BY DEF NextArt
    <3>1. TypeOK'
      BY <2>0, <2>1, <3>0, GotoTypes DEF IInv, TypeOK, Capture, InsertArtifact,
         Returns, Working
    <3>2. Captured'
      <4>1. \A c \in Builders : mine[c] # None =>
                                    arts[mine[c]] \subseteq arts'[mine[c]]
        BY <2>0, <2>1 DEF IInv, InsertArtifact
      <4>2. NextArt(b) \subseteq arts'[mine[b]]
        BY <2>0, <2>1 DEF IInv, TypeOK, InsertArtifact
      <4>3. mine[b] # None /\ mine' = mine
        BY <2>0 DEF Rows, None, Capture
      <4> HIDE DEF NextArt
      <4>4. \A c \in Builders : c # b => caught'[c] = caught[c]
        BY <2>1 DEF IInv, TypeOK
      <4>5. caught'[b] = caught[b] \cup NextArt(b)
        BY <2>1 DEF IInv, TypeOK
      <4>6. \A c \in Builders : pc'[c] = "finish" => pc[c] = "finish" /\ c # b
        BY <2>1 DEF IInv, TypeOK, Returns, GotoWith
      <4> QED BY <4>1, <4>2, <4>3, <4>4, <4>5, <4>6 DEF IInv, Captured
    <3>3. ReadyIsComplete'
      <4>1. \A r \in Rows : arts[r] \subseteq arts'[r] /\ arts'[r] \subseteq Arts
        BY <2>0, <2>1, <3>0 DEF IInv, TypeOK, InsertArtifact
      <4> QED BY <2>1, <4>1 DEF IInv, ReadyIsComplete, InsertArtifact
    <3> QED BY <3>1, <3>2, <3>3
  <2>2. CASE Returns(b, "catch") /\ UNCHANGED <<rowVars, caught>>
    <3>1. TypeOK'
      BY <2>2, GotoTypes DEF IInv, TypeOK, Capture, Returns, Working, rowVars
    <3>2. Captured'
      BY <2>2 DEF IInv, Captured, Capture, Returns, GotoWith, rowVars
    <3>3. ReadyIsComplete'
      BY <2>2 DEF IInv, ReadyIsComplete, rowVars
    <3> QED BY <3>1, <3>2, <3>3
  <2> QED BY <2>1, <2>2 DEF Capture
<1>2. OwnRow'
  BY DEF IInv, TypeOK, OwnRow, Capture, Returns, GotoWith, HoldsRow, Looking
<1>3. Inserted'
  BY DEF IInv, Inserted, Capture, InsertArtifact, rowVars
<1>4. Exclusive'
  BY DEF IInv, Exclusive, Capture
<1>5. OneLive'
  BY DEF IInv, OneLive, Capture, InsertArtifact, rowVars
<1>6. StatusOf'
  BY DEF IInv, TypeOK, StatusOf, Capture, Returns, GotoWith, InsertArtifact,
     rowVars, Working, Ended, Filling, None
<1>7. CleanAt'
  BY DEF IInv, TypeOK, OneLive, CleanAt, Capture, Returns, GotoWith,
     InsertArtifact, rowVars, Active, Working, Filling
<1>10. Decided'
  BY DEF IInv, TypeOK, Decided, Capture, Returns, GotoWith, InsertArtifact, NextArt, rowVars
<1>11. LateOf'
  BY DEF IInv, TypeOK, OwnRow, Inserted, LateOf, Past, Working, Ended, Requests,
     Capture, Returns, GotoWith, InsertArtifact, NextArt, rowVars
<1> QED BY <1>1, <1>2, <1>3, <1>4, <1>5, <1>6, <1>7, <1>10, <1>11 DEF IInv

LEMMA FinishKeeps ==
    ASSUME IInv, NEW b \in Builders, Finish(b)
    PROVE  IInv'
<1>1. TypeOK' /\ ReadyIsComplete'
  <2>0. mine[b] \in Rows /\ caught[b] = Arts /\ arts[mine[b]] = Arts
    <3>1. mine[b] # None /\ caught[b] = Arts
      BY DEF IInv, OwnRow, HoldsRow, Captured, Finish
    <3>2. mine[b] \in Rows
      BY <3>1 DEF IInv, TypeOK
    <3>3. Arts \subseteq arts[mine[b]]
      BY <3>1 DEF IInv, Captured
    <3> QED BY <3>1, <3>2, <3>3 DEF IInv, TypeOK
  <2>1. CASE MarkReady(mine[b], caught[b]) /\ Returns(b, "auditDone")
    <3>1. TypeOK'
      BY <2>0, <2>1, GotoTypes DEF IInv, TypeOK, Finish, MarkReady, Returns,
         Working, Status, localVars
    <3>2. ReadyIsComplete'
      BY <2>0, <2>1 DEF IInv, TypeOK, ReadyIsComplete, MarkReady
    <3> QED BY <3>1, <3>2
  <2>2. CASE Returns(b, "catch") /\ UNCHANGED rowVars
    <3>1. TypeOK'
      BY <2>2, GotoTypes DEF IInv, TypeOK, Finish, Returns, Working,
         rowVars, localVars
    <3>2. ReadyIsComplete'
      BY <2>2 DEF IInv, ReadyIsComplete, rowVars
    <3> QED BY <3>1, <3>2
  <2> QED BY <2>1, <2>2 DEF Finish
<1>2. OwnRow'
  BY DEF IInv, TypeOK, OwnRow, Finish, Returns, GotoWith, localVars,
     HoldsRow, Looking
<1>3. Inserted'
  BY DEF IInv, TypeOK, Inserted, Finish, MarkReady, rowVars, localVars
<1>4. Exclusive'
  BY DEF IInv, Exclusive, Finish, localVars
<1>5. OneLive'
  BY DEF IInv, OneLive, Finish, MarkReady, rowVars
<1>6. Captured'
  BY DEF IInv, TypeOK, Captured, Finish, Returns, GotoWith, MarkReady,
     rowVars, localVars
<1>7. StatusOf'
  BY ReleaseBuildAssumption DEF IInv, TypeOK, OwnRow, Inserted, Exclusive,
     StatusOf, Finish, Returns, GotoWith, MarkReady, rowVars, localVars,
     Working, Ended, HoldsRow, Looking, Filling, None, Rows
<1>8. CleanAt'
  BY DEF IInv, TypeOK, OneLive, CleanAt, Finish, Returns, GotoWith,
     MarkReady, localVars, Active, Working, Ended, Filling
<1>10. Decided'
  BY DEF IInv, TypeOK, Decided, Finish, Returns, GotoWith, MarkReady, rowVars, localVars
<1>11. LateOf'
  BY DEF IInv, TypeOK, OwnRow, Inserted, LateOf, Past, Working, Ended, Requests,
     Finish, Returns, GotoWith, MarkReady, rowVars, localVars
<1> QED BY <1>1, <1>2, <1>3, <1>4, <1>5, <1>6, <1>7, <1>8, <1>10, <1>11 DEF IInv

LEMMA AuditDoneKeeps ==
    ASSUME IInv, NEW b \in Builders, AuditDone(b)
    PROVE  IInv'
<1>1. TypeOK'
  BY DEF IInv, TypeOK, AuditDone, Returns, GotoWith, rowVars, localVars, Ended
<1>2. OwnRow'
  BY DEF IInv, OwnRow, AuditDone, Returns, GotoWith, localVars, HoldsRow,
     Looking
<1>3. Inserted'
  BY DEF IInv, Inserted, AuditDone, rowVars, localVars
<1>4. Exclusive'
  BY DEF IInv, Exclusive, AuditDone, localVars
<1>5. OneLive'
  BY DEF IInv, OneLive, AuditDone, rowVars
<1>6. Captured'
  BY DEF IInv, Captured, AuditDone, Returns, GotoWith, rowVars, localVars
<1>7. StatusOf'
  BY DEF IInv, StatusOf, AuditDone, Returns, GotoWith, rowVars, localVars,
     Filling
<1>8. CleanAt'
  BY DEF IInv, CleanAt, AuditDone, Returns, GotoWith, Active, Working, Filling
<1>9. ReadyIsComplete'
  BY DEF IInv, ReadyIsComplete, AuditDone, rowVars
<1>10. Decided'
  BY DEF IInv, TypeOK, Decided, AuditDone, Returns, GotoWith, rowVars, localVars
<1>11. LateOf'
  BY DEF IInv, TypeOK, OwnRow, Inserted, LateOf, Past, Working, Ended, Requests,
     AuditDone, Returns, GotoWith, rowVars, localVars
<1> QED BY <1>1, <1>2, <1>3, <1>4, <1>5, <1>6, <1>7, <1>8, <1>9, <1>10, <1>11 DEF IInv

LEMMA CatchKeeps ==
    ASSUME IInv, NEW b \in Builders, Catch(b)
    PROVE  IInv'
<1>1. TypeOK'
  BY DEF IInv, TypeOK, Catch, Returns, GotoWith, MarkFailed, rowVars,
     localVars, Working, Status
<1>2. OwnRow'
  BY DEF IInv, OwnRow, Catch, Returns, GotoWith, localVars, HoldsRow, Looking
<1>3. Inserted'
  BY DEF IInv, TypeOK, Inserted, Catch, MarkFailed, rowVars, localVars
<1>4. Exclusive'
  BY DEF IInv, Exclusive, Catch, localVars
<1>5. OneLive'
  BY DEF IInv, OneLive, Catch, MarkFailed, rowVars
<1>6. Captured'
  BY DEF IInv, Captured, Catch, Returns, GotoWith, MarkFailed, rowVars,
     localVars
<1>7. StatusOf'
  BY DEF IInv, TypeOK, OwnRow, Exclusive, StatusOf, Catch, Returns,
     GotoWith, MarkFailed, rowVars, localVars, HoldsRow, Filling
<1>8. CleanAt'
  BY DEF IInv, CleanAt, Catch, Returns, GotoWith, Active, Working, Filling
<1>9. ReadyIsComplete'
  BY DEF IInv, TypeOK, ReadyIsComplete, Catch, MarkFailed, rowVars
<1>10. Decided'
  BY DEF IInv, TypeOK, Decided, Catch, Returns, GotoWith, MarkFailed, rowVars, localVars
<1>11. LateOf'
  BY DEF IInv, TypeOK, OwnRow, Inserted, LateOf, Past, Working, Ended, Requests,
     Catch, Returns, GotoWith, MarkFailed, rowVars, localVars
<1> QED BY <1>1, <1>2, <1>3, <1>4, <1>5, <1>6, <1>7, <1>8, <1>9, <1>10, <1>11 DEF IInv

LEMMA AuditFailKeeps ==
    ASSUME IInv, NEW b \in Builders, AuditFail(b)
    PROVE  IInv'
<1>1. TypeOK'
  BY DEF IInv, TypeOK, AuditFail, Returns, GotoWith, rowVars, localVars, Ended
<1>2. OwnRow'
  BY DEF IInv, OwnRow, AuditFail, Returns, GotoWith, localVars, HoldsRow,
     Looking
<1>3. Inserted'
  BY DEF IInv, Inserted, AuditFail, rowVars, localVars
<1>4. Exclusive'
  BY DEF IInv, Exclusive, AuditFail, localVars
<1>5. OneLive'
  BY DEF IInv, OneLive, AuditFail, rowVars
<1>6. Captured'
  BY DEF IInv, Captured, AuditFail, Returns, GotoWith, rowVars, localVars
<1>7. StatusOf'
  BY DEF IInv, StatusOf, AuditFail, Returns, GotoWith, rowVars, localVars,
     Filling
<1>8. CleanAt'
  BY DEF IInv, CleanAt, AuditFail, Returns, GotoWith, Active, Working, Filling
<1>9. ReadyIsComplete'
  BY DEF IInv, ReadyIsComplete, AuditFail, rowVars
<1>10. Decided'
  BY DEF IInv, TypeOK, Decided, AuditFail, Returns, GotoWith, rowVars, localVars
<1>11. LateOf'
  BY DEF IInv, TypeOK, OwnRow, Inserted, LateOf, Past, Working, Ended, Requests,
     AuditFail, Returns, GotoWith, rowVars, localVars
<1> QED BY <1>1, <1>2, <1>3, <1>4, <1>5, <1>6, <1>7, <1>8, <1>9, <1>10, <1>11 DEF IInv

LEMMA CallRefusedKeeps ==
    ASSUME IInv, NEW b \in Builders, CallRefused(b)
    PROVE  IInv'
<1>1. TypeOK'
  BY ReleaseBuildAssumption DEF IInv, TypeOK, CallRefused, CallError,
     GotoWith, OnError, rowVars, localVars, Working, Ended, Calls
<1>2. OwnRow'
  BY DEF IInv, OwnRow, CallRefused, CallError, GotoWith, OnError, localVars,
     Working, HoldsRow, Looking, Calls
<1>3. Inserted'
  BY DEF IInv, Inserted, CallRefused, rowVars, localVars
<1>4. Exclusive'
  BY DEF IInv, Exclusive, CallRefused, localVars
<1>5. OneLive'
  BY DEF IInv, OneLive, CallRefused, rowVars
<1>6. Captured'
  BY DEF IInv, Captured, CallRefused, CallError, GotoWith, OnError, rowVars,
     localVars, Working, Calls
<1>7. StatusOf'
  BY DEF IInv, TypeOK, StatusOf, CallRefused, CallError, GotoWith, OnError,
     rowVars, localVars, Working, Filling, Calls
<1>8. CleanAt'
  BY DEF IInv, CleanAt, CallRefused, CallError, GotoWith, Active, Working,
     Filling
<1>9. ReadyIsComplete'
  BY DEF IInv, ReadyIsComplete, CallRefused, rowVars
<1>10. Decided'
  BY DEF IInv, TypeOK, Decided, CallRefused, CallError, GotoWith, OnError,
     rowVars, localVars, Working, Calls
<1>11. LateOf'
  BY DEF IInv, TypeOK, OwnRow, Inserted, LateOf, Past, Working, Ended, Requests,
     CallRefused, CallError, GotoWith, OnError, rowVars, localVars, Calls
<1> QED BY <1>1, <1>2, <1>3, <1>4, <1>5, <1>6, <1>7, <1>8, <1>9, <1>10, <1>11 DEF IInv

\* A request left on the wire is one that LateOf describes.
LEMMA LeavesRequestKeeps ==
    ASSUME IInv, NEW b \in Builders, LeavesRequest(b), Active(b)
    PROVE  /\ Request(b) \in Requests
           /\ pc[b] = "delete" => Request(b).found # "ready"
           /\ pc[b] \in {"finish", "catch"} =>
                /\ Request(b).row = mine[b]
                /\ mine[b] \in Rows
                /\ status[mine[b]] # "none"
                /\ \A c \in Builders : mine[c] = mine[b] => c = b
           /\ pc[b] = "finish" => Request(b).set = Arts /\ arts[mine[b]] = Arts
<1>1. NextArt(b) \in SUBSET Arts
  BY DEF NextArt
<1>2. Request(b) \in Requests
  BY <1>1 DEF IInv, TypeOK, LeavesRequest, Request, Requests
<1>3. pc[b] = "delete" => Request(b).found # "ready"
  BY DEF IInv, Decided, Request
<1>4. ASSUME pc[b] \in {"finish", "catch"}
      PROVE  /\ Request(b).row = mine[b]
             /\ mine[b] \in Rows
             /\ status[mine[b]] # "none"
             /\ \A c \in Builders : mine[c] = mine[b] => c = b
  <2>1. mine[b] # None
    BY <1>4 DEF IInv, OwnRow, HoldsRow
  <2> QED BY <1>4, <2>1 DEF IInv, TypeOK, Inserted, Exclusive, Request
<1>5. pc[b] = "finish" => Request(b).set = Arts /\ arts[mine[b]] = Arts
  <2>1. ASSUME pc[b] = "finish" PROVE caught[b] = Arts /\ arts[mine[b]] = Arts
    <3>1. mine[b] # None /\ mine[b] \in Rows
      BY <1>4, <2>1 DEF Rows, None
    <3>2. caught[b] = Arts /\ caught[b] \subseteq arts[mine[b]]
      BY <2>1, <3>1 DEF IInv, Captured
    <3>3. arts[mine[b]] \subseteq Arts
      BY <3>1 DEF IInv, TypeOK
    <3> QED BY <3>2, <3>3
  <2> QED BY <2>1 DEF Request
<1> QED BY <1>2, <1>3, <1>4, <1>5

LEMMA AnswerLostKeeps ==
    ASSUME IInv, NEW b \in Builders, AnswerLost(b)
    PROVE  IInv'
<1>0. Active(b)
  BY DEF AnswerLost, LeavesRequest, Active, Working
<1>1. TypeOK'
  <2>1. late' \subseteq Requests
    BY <1>0, LeavesRequestKeeps DEF IInv, TypeOK, AnswerLost, LeavesRequest
  <2> QED BY <2>1 DEF IInv, TypeOK, AnswerLost, LeavesRequest, CallError,
       GotoWith, OnError, rowVars, localVars, Working, Ended, Calls
<1>2. OwnRow'
  BY DEF IInv, OwnRow, AnswerLost, LeavesRequest, CallError, GotoWith,
     OnError, localVars, HoldsRow, Looking
<1>3. Inserted' /\ Exclusive' /\ OneLive' /\ ReadyIsComplete'
  BY DEF IInv, Inserted, Exclusive, OneLive, ReadyIsComplete, AnswerLost,
     rowVars, localVars
<1>4. Captured'
  BY DEF IInv, Captured, AnswerLost, LeavesRequest, CallError, GotoWith,
     OnError, rowVars, localVars
<1>5. StatusOf'
  BY DEF IInv, TypeOK, StatusOf, AnswerLost, LeavesRequest, CallError,
     GotoWith, OnError, rowVars, localVars, Filling
<1>6. CleanAt'
  BY DEF IInv, CleanAt, AnswerLost, LeavesRequest, CallError, GotoWith,
     Active, Working, Filling
<1>7. Decided'
  BY DEF IInv, Decided, AnswerLost, LeavesRequest, CallError, GotoWith,
     OnError, localVars
<1>8. LateOf'
  <2>1. \A q \in late, c \in Builders : Past(q, c) => Past(q, c)'
    BY DEF IInv, TypeOK, Past, AnswerLost, LeavesRequest, CallError, GotoWith,
       OnError
  <2>2. \A q : q.op = pc[b] /\ pc[b] \in {"finish", "catch"} => Past(q, b)'
    <3>1. /\ pc[b] = "finish" => pc'[b] = "catch" /\ "finish" \in erred'[b]
          /\ pc[b] = "catch" => pc'[b] = "auditFail"
      BY DEF IInv, TypeOK, AnswerLost, CallError, GotoWith, OnError
    <3>2. b \in Remote
      BY DEF AnswerLost, LeavesRequest
    <3> QED BY <3>1, <3>2 DEF Past
  <2>3. PICK w : w = Request(b) OBVIOUS
  <2>4. w.op = pc[b] BY <2>3 DEF Request
  <2>5. late' = late \cup {w} /\ UNCHANGED <<status, arts, mine>>
    BY <2>3 DEF AnswerLost, LeavesRequest, rowVars, localVars
  <2>6. LeavesRequest(b)
    BY DEF AnswerLost
  <2>7. /\ pc[b] = "delete" => w.found # "ready"
        /\ pc[b] \in {"finish", "catch"} =>
             /\ w.row = mine[b] /\ mine[b] \in Rows
             /\ status[mine[b]] # "none"
             /\ \A c \in Builders : mine[c] = mine[b] => c = b
        /\ pc[b] = "finish" => w.set = Arts /\ arts[mine[b]] = Arts
    BY <1>0, <2>3, <2>6, LeavesRequestKeeps
  <2> QED BY <2>1, <2>2, <2>4, <2>5, <2>7 DEF IInv, LateOf
<1> QED BY <1>1, <1>2, <1>3, <1>4, <1>5, <1>6, <1>7, <1>8 DEF IInv

LEMMA KillKeeps ==
    ASSUME IInv, NEW b \in Builders, Kill(b)
    PROVE  IInv'
<1>1. TypeOK'
  <2>1. late' \subseteq Requests
    BY LeavesRequestKeeps DEF IInv, TypeOK, Kill, LeavesRequest
  <2> QED
    BY <2>1 DEF IInv, TypeOK, Kill, GotoWith, rowVars, localVars, Ended
<1>2. OwnRow'
  BY DEF IInv, OwnRow, Kill, GotoWith, localVars, HoldsRow, Looking
<1>3. Inserted' /\ Exclusive' /\ OneLive' /\ ReadyIsComplete'
  BY DEF IInv, Inserted, Exclusive, OneLive, ReadyIsComplete, Kill, rowVars,
     localVars
<1>4. Captured'
  BY DEF IInv, Captured, Kill, GotoWith, rowVars, localVars
<1>5. StatusOf'
  BY DEF IInv, StatusOf, Kill, GotoWith, rowVars, localVars, Filling
<1>6. CleanAt'
  BY DEF IInv, CleanAt, Kill, GotoWith, Active, Working, Filling
<1>7. Decided'
  BY DEF IInv, Decided, Kill, GotoWith, localVars
<1>8. LateOf'
  <2>1. \A q \in late, c \in Builders : Past(q, c) => Past(q, c)'
    BY DEF IInv, TypeOK, Past, Kill, GotoWith
  <2>2. \A q : Past(q, b)'
    BY DEF IInv, TypeOK, Past, Kill, GotoWith
  <2>3. Request(b).op = pc[b] BY DEF Request
  <2>4. CASE UNCHANGED late
    BY <2>1, <2>4 DEF IInv, LateOf, Kill, rowVars, localVars
  <2>5. CASE LeavesRequest(b)
    BY <2>1, <2>2, <2>3, <2>5, LeavesRequestKeeps DEF IInv, LateOf, Kill,
       LeavesRequest, rowVars, localVars
  <2> QED BY <2>4, <2>5 DEF Kill
<1> QED BY <1>1, <1>2, <1>3, <1>4, <1>5, <1>6, <1>7, <1>8 DEF IInv

\* Whatever the server serves late, it makes no row ready that is incomplete
\* and moves no row on whose build has not given that very call up.
LEMMA ServeLateKeeps ==
    ASSUME IInv, NEW q \in late, ServeLate(q)
    PROVE  IInv'
<1> USE DEF IInv
<1>0. /\ q \in Requests /\ live \subseteq Rows
      /\ UNCHANGED <<pc, seen, found, mine, caught, erred>>
  BY DEF TypeOK, ServeLate, localVars
<1>1. late' \subseteq late /\ clean' \subseteq clean
  BY DEF ServeLate
<1>2. \A c \in clean' : ~Active(c)
  BY DEF ServeLate
<1>3. CleanAt'
  BY <1>0, <1>1, <1>2 DEF CleanAt, Active, Working, Filling
<1>4. OwnRow' /\ Exclusive' /\ Decided'
  BY <1>0 DEF OwnRow, Exclusive, Decided
<1>5. OneLive'
  BY DEF OneLive, ServeLate, SoftDelete, Insert, InsertArtifact, MarkReady,
     MarkFailed, rowVars
<1>6. \A r \in Rows : status[r] # "none" => status'[r] # "none"
  BY <1>0 DEF TypeOK, ServeLate, SoftDelete, Insert, InsertArtifact, MarkReady,
     MarkFailed, rowVars
<1>7. Inserted'
  BY <1>0, <1>6 DEF TypeOK, Inserted, ServeLate, SoftDelete, Insert,
     InsertArtifact, MarkReady, MarkFailed, rowVars
<1>8. q.op = "finish" => q.set = Arts /\ arts[q.row] = Arts
  BY DEF LateOf
<1>9. \A r \in Rows : arts[r] \subseteq arts'[r] /\ arts'[r] \subseteq Arts
  BY <1>0 DEF TypeOK, Requests, ServeLate, SoftDelete, Insert, InsertArtifact,
     MarkReady, MarkFailed, rowVars
<1>10. TypeOK'
  <2>1. status' \in [Rows -> Status] /\ live' \subseteq Rows
    BY <1>0 DEF TypeOK, Status, ServeLate, SoftDelete, Insert, InsertArtifact,
       MarkReady, MarkFailed, rowVars
  <2>2. arts' \in [Rows -> SUBSET Arts] /\ manifest' \in [Rows -> SUBSET Arts]
    BY <1>0 DEF TypeOK, Requests, ServeLate, SoftDelete, Insert,
       InsertArtifact, MarkReady, MarkFailed, rowVars
  <2> QED BY <2>1, <2>2, <1>0, <1>1 DEF TypeOK
<1>11. Captured'
  BY <1>0, <1>9 DEF TypeOK, Captured
<1>12. ReadyIsComplete'
  <2>1. \A r \in Rows : status'[r] = "ready" /\ status[r] # "ready" =>
                            q.op = "finish" /\ r = q.row /\ manifest'[r] = Arts
    BY <1>0, <1>8 DEF TypeOK, ServeLate, SoftDelete, Insert, InsertArtifact,
       MarkReady, MarkFailed, rowVars
  <2>2. \A r \in Rows : status[r] = "ready" => manifest'[r] = Arts
    BY <1>0, <1>8 DEF TypeOK, ReadyIsComplete, ServeLate, SoftDelete, Insert,
       InsertArtifact, MarkReady, MarkFailed, rowVars
  <2>3. \A r \in Rows : arts[r] = Arts => arts'[r] = Arts
    BY <1>9
  <2> QED BY <1>8, <2>1, <2>2, <2>3 DEF ReadyIsComplete
<1>13. LateOf'
  <2>1. \A p, c : Past(p, c)' <=> Past(p, c)
    BY <1>0 DEF Past
  <2>2. \A p \in late : p.op = "finish" => arts'[p.row] = Arts
    BY <1>9 DEF LateOf
  <2> QED BY <1>0, <1>1, <1>6, <2>1, <2>2 DEF LateOf
<1>14. StatusOf'
  <2>1. ASSUME NEW b \in Builders,
               mine[b] \in Rows => status'[mine[b]] # status[mine[b]]
        PROVE  /\ pc[b] \in HoldsRow => q.op \in {"finish", "catch"}
               /\ pc[b] \in HoldsRow => Past(q, b)
    <3>1. pc[b] \in HoldsRow => mine[b] \in Rows /\ status[mine[b]] # "none"
      BY DEF TypeOK, OwnRow, Inserted
    <3>2. pc[b] \in HoldsRow => q.op \in {"finish", "catch"} /\ q.row = mine[b]
      BY <2>1, <3>1, <1>0 DEF TypeOK, ServeLate, SoftDelete, Insert,
         InsertArtifact, MarkReady, MarkFailed, rowVars
    <3> QED BY <3>2 DEF LateOf
  <2>2. ASSUME NEW b \in Builders, mine[b] \in live', mine[b] \notin live,
               pc[b] \in HoldsRow
        PROVE  FALSE
    <3>1. mine[b] \in Rows /\ status[mine[b]] # "none"
      BY <2>2 DEF TypeOK, OwnRow, Inserted
    <3> QED BY <2>2, <3>1 DEF ServeLate, SoftDelete, Insert, InsertArtifact,
         MarkReady, MarkFailed, rowVars
  <2>3. q.op = "catch" => \A r \in Rows : status'[r] = "ready" => status[r] = "ready"
    BY <1>0 DEF TypeOK, ServeLate, SoftDelete, Insert, InsertArtifact,
       MarkReady, MarkFailed, rowVars
  <2> SUFFICES ASSUME NEW b \in Builders, pc[b] \in HoldsRow
               PROVE  /\ pc[b] \in Filling => status'[mine[b]] = "building"
                      /\ pc[b] \in {"auditDone", "done"} =>
                           status'[mine[b]] = "ready"
                      /\ /\ pc[b] \in {"auditFail", "failed"}
                         /\ mine[b] \in live'
                         /\ status'[mine[b]] = "ready"
                         => \/ "catch" \in erred[b]
                            \/ "finish" \in erred[b] /\ b \in Remote
    BY <1>0 DEF StatusOf, Filling, HoldsRow
  <2>4. mine[b] \in Rows
    BY DEF TypeOK, OwnRow
  <2>5. CASE status'[mine[b]] = status[mine[b]]
    BY <2>2, <2>5 DEF StatusOf
  <2>6. CASE status'[mine[b]] # status[mine[b]]
    BY <2>1, <2>3, <2>4, <2>6 DEF Past, Filling
  <2> QED BY <2>5, <2>6
<1> QED BY <1>3, <1>4, <1>5, <1>7, <1>10, <1>11, <1>12, <1>13, <1>14

-----------------------------------------------------------------------------
(***************************************************************************)
(* The theorems.                                                           *)
(***************************************************************************)

LEMMA InitKeeps == Init => IInv
  BY ReleaseBuildAssumption DEF Init, IInv, TypeOK, OwnRow, Inserted,
     Exclusive, OneLive, Captured, StatusOf, Decided, LateOf, CleanAt,
     ReadyIsComplete, HoldsRow, Filling, Status

LEMMA NextKeeps == IInv /\ [Next]_vars => IInv'
<1> SUFFICES ASSUME IInv, [Next]_vars PROVE IInv'
  OBVIOUS
<1>1. ASSUME NEW b \in Builders, Step(b) PROVE IInv'
  BY <1>1, BeginKeeps, LookupKeeps, DeleteKeeps, ParseKeeps, CreateKeeps,
     AuditStartKeeps, BuildKeeps, CaptureKeeps, FinishKeeps, AuditDoneKeeps,
     CatchKeeps, AuditFailKeeps DEF Step
<1>2. ASSUME NEW b \in Builders, Fault(b) PROVE IInv'
  BY <1>2, CallRefusedKeeps, AnswerLostKeeps, KillKeeps DEF Fault
<1>3. CASE UNCHANGED vars
  BY <1>3 DEF IInv, TypeOK, OwnRow, Inserted, Exclusive, OneLive, Captured,
     StatusOf, Decided, LateOf, Past, CleanAt, ReadyIsComplete, vars, rowVars,
     localVars, histVars
<1> QED BY <1>1, <1>2, <1>3, ServeLateKeeps DEF Next

\* A build's position in runBuild and the rows agree at all times.
THEOREM ReleaseBuildInvariant == Spec => []IInv
  BY InitKeeps, NextKeeps, PTL DEF Spec

\* runBuild keeps its rows and locals well-typed, whoever races for the tag.
THEOREM ReleaseBuildTypeOK == Spec => []TypeOK
<1>1. IInv => TypeOK BY DEF IInv
<1> QED BY <1>1, ReleaseBuildInvariant, PTL

\* A release marked ready by releases.update has every declared artifact, in
\* the table and in its manifest, for any number of racing builders.
THEOREM ReleaseReadyIsComplete == Spec => []ReadyIsComplete
<1>1. IInv => ReadyIsComplete BY DEF IInv
<1> QED BY <1>1, ReleaseBuildInvariant, PTL

\* What runBuild tells its caller is true of the row: a build that returned
\* made it ready, and one that threw left it live and ready only when the
\* catch block's update failed or the ready update, given up on over HTTP, was
\* served after it.
THEOREM ReleaseOutcomeIsHonest == Spec => []OutcomeIsHonest
<1>1. IInv => OutcomeIsHonest
  BY DEF IInv, StatusOf, OutcomeIsHonest, SuccessIsReady, FailureIsNotReady
<1> QED BY <1>1, ReleaseBuildInvariant, PTL

\* Whatever rows earlier builds left, runBuild succeeds or finds the release
\* ready when no call fails and no other builder moves meanwhile.
THEOREM ReleaseCleanBuildSucceeds == Spec => []CleanBuildSucceeds
<1>1. IInv => CleanBuildSucceeds
  BY DEF IInv, CleanAt, CleanBuildSucceeds
<1> QED BY <1>1, ReleaseBuildInvariant, PTL

\* releases.softDelete takes a ready release away only on a lookup that found
\* it not ready yet, whether its builder still waits or has given up.
THEOREM ReleaseReadyReplacedByRacer == Spec => ReadyReplacedByRacer
<1> DEFINE Racer(r) ==
             \/ \E b \in Builders :
                  pc[b] = "delete" /\ seen[b] = r /\ found[b] # "ready"
             \/ \E q \in late :
                  q.op = "delete" /\ q.row = r /\ q.found # "ready"
           Replaced == \A r \in Rows :
                         r \in live /\ status[r] = "ready" /\ r \notin live' =>
                             Racer(r)
<1>1. IInv /\ [Next]_vars => [Replaced]_vars
  <2> SUFFICES ASSUME IInv, Next, NEW r \in Rows, r \in live,
                      status[r] = "ready", r \notin live'
               PROVE  Racer(r)
    OBVIOUS
  <2>1. ASSUME NEW b \in Builders, Step(b) \/ Fault(b) PROVE Racer(r)
    <3>1. pc[b] = "delete" /\ seen[b] = r
      BY <2>1 DEF Step, Fault, Begin, Lookup, Delete, Parse, Create,
         AuditStart, Build, Capture, Finish, AuditDone, Catch, AuditFail,
         CallRefused, AnswerLost, Kill, SoftDelete, Insert, InsertArtifact,
         MarkReady, MarkFailed, rowVars
    <3> QED BY <3>1 DEF IInv, Decided
  <2>2. ASSUME NEW q \in late, ServeLate(q) PROVE Racer(r)
    <3>1. q.op = "delete" /\ q.row = r
      BY <2>2 DEF ServeLate, SoftDelete, Insert, InsertArtifact, MarkReady,
         MarkFailed, rowVars
    <3> QED BY <3>1 DEF IInv, LateOf
  <2> QED BY <2>1, <2>2 DEF Next
<1> QED BY <1>1, ReleaseBuildInvariant, PTL DEF ReadyReplacedByRacer, Spec
=============================================================================
