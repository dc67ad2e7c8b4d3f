--------------------------- MODULE RegistryProofs ---------------------------
(***************************************************************************)
(* Proofs about the package registry: the blob store of OciBlobs, the      *)
(* package protocols of Packages over it, and the images of OciManifests.  *)
(*                                                                         *)
(* RegistryInv, the inductive invariant, has one part per layer.           *)
(*   BlobInv     the files, the rows and the requests of the blob store:   *)
(*               which request may write which inode, who meets whom on a  *)
(*               session or a digest, and which bytes a cursor stands for; *)
(*   StoreInv    that in a behaviour about packages or images the history  *)
(*               has every DELETE, and nobody uploads through a session;   *)
(*   PackageInv  that what clients were told of a version is what its row  *)
(*               says, and that a download still works on the row, or the  *)
(*               bytes, it found when it began;                            *)
(*   ImageInv    that a tag leads to a manifest, a manifest to its blobs,  *)
(*               and what a PUT saw before it went to the disk still holds.*)
(* Every step of the registry is a step of the blob store or leaves it     *)
(* alone (BlobStep), so BlobInv is proved once, for the store by itself.   *)
(***************************************************************************)
EXTENDS OciManifests, SequenceTheorems, FiniteSetTheorems, TLAPS

(***************************************************************************)
(* The inductive invariant.                                                *)
(***************************************************************************)

\* A request stands at a call its operation makes, and carries what that call
\* needs: one session of those handed out, or a digest, or both.
SessionOps   == {"patch", "put"}
PatchPlaces  == {"open", "write", "cursor"}
PutPlaces    == {"open", "write", "cursor", "hash", "dedupe", "drop", "rename",
                 "meta", "access", "readMeta", "record"}
StorePlaces  == {"dedupe", "drop", "rename", "meta", "record"}
DeletePlaces == {"unlink", "unlinkMeta", "unrecord"}

OpAndPlace(q) ==
    /\ q.op = "idle" => q = Idle
    /\ q.op = "patch" => q.at \in PatchPlaces
    /\ q.op = "put" => q.at \in PutPlaces
    /\ q.op = "store" => q.at \in StorePlaces
    /\ q.op = "delete" => q.at \in DeletePlaces

RequestShape ==
    \A r \in Requests :
        /\ OpAndPlace(req[r])
        /\ IF req[r].op \in SessionOps
             THEN \E u \in minted : req[r].up = {u}
             ELSE req[r].up = {}
        /\ req[r].op \in {"put", "store", "delete"} => req[r].digest \in Digests
        /\ fd[r] # NoFile <=> req[r].at = "write"
        /\ req[r].at \in {"open", "write"} => Len(req[r].chunk) = 1

\* No two names lead to one file; a tmp file belongs to its session.
NamesDiffer ==
    /\ \A u, v \in Uploads : tmp[u] # NoFile /\ tmp[u] = tmp[v] => u = v
    /\ \A u \in Uploads, d \in Digests : tmp[u] # NoFile => tmp[u] # blob[d]
    /\ \A d, e \in Digests : blob[d] # NoFile /\ blob[d] = blob[e] => d = e
    /\ \A u \in Uploads : tmp[u] # NoFile => owner[tmp[u]] = {u}

\* An open descriptor is one of the request's session, and its file is served
\* as a blob only if another request of that session moved it there.
OpenFiles ==
    \A r \in Requests : fd[r] # NoFile =>
        /\ owner[fd[r]] = req[r].up
        /\ \A d \in Digests : fd[r] = blob[d] => req[r].up \subseteq overlap

\* Whoever meets another on a session, or on a digest, is in the histories.
Meetings ==
    /\ \A r, s \in Requests : r # s =>
         req[r].up \cap req[s].up \subseteq overlap
    /\ \A r \in Requests : req[r].up \cap (due \cup reaping) \subseteq parted
    /\ \A r, s \in Requests :
         req[r].op \in Storing /\ req[s].op = "delete" /\ req[r].digest =
             req[s].digest =>
             req[r].digest \in raced /\ r \in dubious

\* An upload id that was not handed out is in no one's hands.
FreshIsUnused ==
    /\ \A u \in Uploads \ minted : ~Open(u) /\ tmp[u] = NoFile
    /\ due \cup reaping \subseteq minted
    /\ \A u, v \in reaping : u = v

\* From the hash to the rename a session's file keeps its digest.
HashedStays ==
    \A r \in Requests : \A u \in req[r].up \ overlap :
        req[r].at \in {"dedupe", "rename"} /\ tmp[u] # NoFile =>
            inode[tmp[u]] = req[r].digest

\* The file comes before its sidecar and its mirror row, and leaves before
\* them only under a DELETE.
BytesFirst ==
    /\ \A r \in Requests : req[r].op = "delete" =>
         /\ req[r].digest \notin acked
         /\ req[r].at = "unrecord" =>
              req[r].digest \notin sidecar \/ req[r].digest \in raced
    /\ \A d \in sidecar : \/ blob[d] # NoFile
                          \/ OnDigest(d, {"delete"}) # {}
                          \/ d \in raced
    /\ \A r \in Requests :
         req[r].op \in Storing
           /\ req[r].at \in {"drop", "meta", "access", "readMeta", "record"} =>
             /\ blob[req[r].digest] # NoFile \/ req[r].digest \in raced
             /\ blob[req[r].digest] # NoFile \/ r \in dubious

\* What a request that has its session to itself has done to it so far.
SessionProgress ==
    \A r \in Requests : \A u \in req[r].up \ (overlap \cup parted) :
        /\ Open(u)
        /\ req[r].at \in {"open", "write", "hash", "dedupe", "rename", "drop"} =>
             row[u].bytes = FileLen(u)
        /\ req[r].at \in {"open", "write",
             "cursor"} => req[r].saw = row[u].bytes
        /\ req[r].at = "write" => tmp[u] = fd[r]
        /\ req[r].at = "cursor" => /\ tmp[u] # NoFile
                                   /\ FileLen(u) = row[u].bytes + 1
        /\ req[r].at \in {"meta", "access", "readMeta",
             "record"} => tmp[u] = NoFile

SweepProgress ==
    \A u \in reaping \ (overlap \cup parted) : tmp[u] = NoFile

BlobInv ==
    /\ TypeOK
    /\ RequestShape
    /\ NamesDiffer /\ OpenFiles
    /\ Meetings /\ FreshIsUnused
    /\ HashedStays /\ ContentAddressed
    /\ BytesFirst /\ StoredIsThere
    /\ SessionProgress /\ SweepProgress /\ SessionAgrees

-----------------------------------------------------------------------------
\* The types that the steps below use, apart from the rest.
FileTypes ==
    /\ tmp \in [Uploads -> Names]
    /\ inode \in [Inodes -> Contents]
    /\ blob \in [Digests -> Names]
    /\ owner \in [Inodes -> SUBSET Uploads]
    /\ fd \in [Requests -> Names]

SetTypes ==
    /\ \A r \in Requests : req[r].up \subseteq Uploads /\ req[r].op \in Ops
    /\ \A u \in Uploads : row[u].bytes \in Nat
    /\ minted \subseteq Uploads /\ due \subseteq Uploads
    /\ reaping \subseteq Uploads
    /\ sidecar \subseteq Digests /\ mirror \subseteq Digests
    /\ acked \subseteq Digests

LEMMA TypesApart ==
    ASSUME TypeOK
    PROVE  FileTypes /\ SetTypes
  BY DEF TypeOK, FileTypes, SetTypes, Handlers

\* The contents of files are the short sequences of chunks.
LEMMA ContentsAreShort ==
    Contents = {s \in Seq(Chunks) : Len(s) <= MaxChunks}
<1>1. ASSUME NEW s \in Contents
      PROVE  s \in Seq(Chunks) /\ Len(s) <= MaxChunks
  <2>1. PICK n \in 0..MaxChunks : s \in [1..n -> Chunks]
    BY DEF Contents
  <2>2. s \in Seq(Chunks) /\ Len(s) = n
    BY <2>1
  <2> QED BY <2>2
<1>2. ASSUME NEW s \in Seq(Chunks), Len(s) <= MaxChunks
      PROVE  s \in Contents
  BY <1>2 DEF Contents
<1> QED BY <1>1, <1>2

LEMMA NoContents == <<>> \in Contents
  BY ContentsAreShort, OciBlobsAssumption

\* A chunk at the end of a file that has room for it.
LEMMA AppendedContents ==
    ASSUME NEW s \in Contents, NEW c \in Contents, Len(c) = 1,
           Len(s) < MaxChunks
    PROVE  s \o c \in Contents /\ Len(s \o c) = Len(s) + 1
<1>1. s \in Seq(Chunks) /\ c \in Seq(Chunks)
  BY ContentsAreShort
<1>2. s \o c \in Seq(Chunks) /\ Len(s \o c) = Len(s) + Len(c)
  BY <1>1, ConcatProperties
<1>3. Len(s) \in Nat
  OBVIOUS
<1> QED BY <1>2, <1>3, ContentsAreShort, OciBlobsAssumption

\* What a step does to the request it belongs to.
LEMMA MoveEffect ==
    ASSUME TypeOK, NEW r \in Requests, NEW loc \in Places, Move(r, loc)
    PROVE  /\ req' \in [Requests -> Handlers]
           /\ \A x \in Requests : x # r => req'[x] = req[x]
           /\ req'[r].at = loc
           /\ req'[r].op = req[r].op /\ req'[r].up = req[r].up
           /\ req'[r].digest = req[r].digest /\ req'[r].chunk = req[r].chunk
           /\ req'[r].saw = req[r].saw
  BY DEF TypeOK, Move, Handlers

LEMMA GotoEffect ==
    ASSUME TypeOK, NEW r \in Requests, NEW loc \in Places, Goto(r, loc)
    PROVE  /\ req' \in [Requests -> Handlers]
           /\ \A x \in Requests : x # r => req'[x] = req[x]
           /\ req'[r].at = loc
           /\ req'[r].op = req[r].op /\ req'[r].up = req[r].up
           /\ req'[r].digest = req[r].digest /\ req'[r].chunk = req[r].chunk
           /\ req'[r].saw = req[r].saw
           /\ dubious' = dubious
  BY MoveEffect DEF Goto

LEMMA EndEffect ==
    ASSUME TypeOK, NEW r \in Requests, End(r)
    PROVE  /\ req' \in [Requests -> Handlers]
           /\ \A x \in Requests : x # r => req'[x] = req[x]
           /\ req'[r] = Idle
           /\ req'[r].op = "idle" /\ req'[r].at = "idle" /\ req'[r].up = {}
           /\ dubious' = dubious \ {r}
<1>1. Idle \in Handlers
  BY NoContents DEF Idle, Handlers, Ops, Places
<1> QED BY <1>1 DEF TypeOK, End, Idle

LEMMA EnterEffect ==
    ASSUME TypeOK, NEW r \in Requests, NEW o \in Ops, NEW loc \in Places,
           NEW us \in SUBSET Uploads, NEW d \in Contents, NEW c \in Contents,
           NEW n \in Nat, Enter(r, o, loc, us, d, c, n)
    PROVE  /\ req' \in [Requests -> Handlers]
           /\ \A x \in Requests : x # r => req'[x] = req[x]
           /\ req[r] = Idle
           /\ req'[r].at = loc /\ req'[r].op = o /\ req'[r].up = us
           /\ req'[r].digest = d /\ req'[r].chunk = c /\ req'[r].saw = n
<1>1. [op |-> o, at |-> loc, up |-> us, digest |-> d, chunk |-> c,
       saw |-> n] \in Handlers
  BY DEF Handlers
<1> QED BY <1>1 DEF TypeOK, Enter

LEMMA MeetTypes ==
    ASSUME TypeOK, NEW r \in Requests, NEW us \in SUBSET Uploads,
           NEW d \in Contents, NEW o, Meet(r, us, d, o)
    PROVE  /\ overlap' \subseteq Uploads /\ overlap \subseteq overlap'
           /\ parted' \subseteq Uploads /\ parted \subseteq parted'
           /\ raced' \subseteq Digests /\ raced \subseteq raced'
           /\ dubious' \subseteq Requests /\ dubious \subseteq dubious'
  BY DEF TypeOK, Meet, OnDigest, Digests

LEMMA PostUploadKeeps ==
    ASSUME BlobInv, NEW u \in Uploads, PostUpload(u)
    PROVE  BlobInv'
<1> USE DEF BlobInv
<1>0. FileTypes /\ SetTypes
  BY TypesApart
<1>1. UNCHANGED <<tmp, inode, owner, fd, blob, sidecar, mirror, req, due,
   reaping, overlap, parted, raced, dubious, acked, crashes, begun>>
  BY DEF PostUpload, fileVars, blobVars, reaperVars, sessionHist
<1>2. /\ u \notin minted /\ minted' = minted \cup {u}
      /\ row'[u].state = "live" /\ row'[u].bytes = 0
      /\ \A v \in Uploads : v # u => row'[v] = row[v]
  BY DEF PostUpload, TypeOK
<1>3. TypeOK'
  BY <1>0, <1>1, <1>2, OciBlobsAssumption, NoContents DEF TypeOK, PostUpload
<1>4. NamesDiffer' /\ OpenFiles' /\ Meetings' /\ HashedStays' /\
   ContentAddressed' /\ BytesFirst' /\ StoredIsThere' /\ SweepProgress'
  BY <1>1 DEF NamesDiffer, OpenFiles, Meetings, Storing, HashedStays,
     ContentAddressed, BytesFirst, OnDigest, StoredIsThere, AckedIsStored,
     MirrorHasBytes, SweepProgress
<1>5. RequestShape'
  BY <1>1, <1>2 DEF RequestShape, SessionOps, PatchPlaces, PutPlaces,
     StorePlaces, DeletePlaces, Idle
<1>6. FreshIsUnused'
  BY <1>1, <1>2, <1>0 DEF FreshIsUnused, Open, RequestShape, OpAndPlace,
     SessionOps, PatchPlaces, PutPlaces, StorePlaces, DeletePlaces, Idle
<1>7. SessionProgress'
  BY <1>1, <1>2, <1>0 DEF SetTypes, Names, SessionProgress, FileLen, Open,
     RequestShape, OpAndPlace, SessionOps, PatchPlaces, PutPlaces, StorePlaces,
     DeletePlaces, Idle, NamesDiffer, OpenFiles, Meetings, Storing,
     SessionAgrees, CursorAgrees, Disturbed, NoTmpLeak, Quiet, OnSession,
     FreshIsUnused
<1>8. SessionAgrees'
  BY <1>1, <1>2, <1>0 DEF SessionAgrees, CursorAgrees, Disturbed, NoTmpLeak,
     Quiet, OnSession, FileLen, Open, RequestShape, OpAndPlace, SessionOps,
     PatchPlaces, PutPlaces, StorePlaces, DeletePlaces, Idle, NamesDiffer,
     OpenFiles, Meetings, Storing, SessionProgress, SweepProgress,
     FreshIsUnused
<1> QED BY <1>3, <1>4, <1>5, <1>6, <1>7, <1>8

LEMMA ExpireKeeps ==
    ASSUME BlobInv, NEW u \in Uploads, Expire(u)
    PROVE  BlobInv'
<1> USE DEF BlobInv
<1>0. FileTypes /\ SetTypes
  BY TypesApart
<1>1. UNCHANGED <<minted, tmp, inode, owner, fd, blob, sidecar, mirror, req,
   due, reaping, overlap, parted, raced, dubious, acked, crashes, begun>>
  BY DEF Expire, fileVars, blobVars, reaperVars, sessionHist
<1>2. /\ row[u].state = "live" /\ row'[u].state = "expired"
      /\ row'[u].bytes = row[u].bytes
      /\ \A v \in Uploads : v # u => row'[v] = row[v]
  BY DEF Expire, TypeOK
<1>3. TypeOK'
  BY <1>0, <1>1, <1>2, OciBlobsAssumption, NoContents DEF TypeOK, Expire
<1>4. RequestShape' /\ NamesDiffer' /\ OpenFiles' /\ Meetings' /\
   HashedStays' /\ ContentAddressed' /\ BytesFirst' /\ StoredIsThere' /\
   SweepProgress'
  BY <1>1 DEF RequestShape, OpAndPlace, SessionOps, PatchPlaces, PutPlaces,
     StorePlaces, DeletePlaces, Idle, NamesDiffer, OpenFiles, Meetings,
     Storing, HashedStays, ContentAddressed, BytesFirst, OnDigest,
     StoredIsThere, AckedIsStored, MirrorHasBytes, SweepProgress
<1>5. FreshIsUnused'
  BY <1>1, <1>2, <1>0 DEF FreshIsUnused, Open, RequestShape, OpAndPlace,
     SessionOps, PatchPlaces, PutPlaces, StorePlaces, DeletePlaces, Idle
<1>6. SessionProgress'
  BY <1>1, <1>2, <1>0 DEF SetTypes, Names, SessionProgress, FileLen, Open,
     RequestShape, OpAndPlace, SessionOps, PatchPlaces, PutPlaces, StorePlaces,
     DeletePlaces, Idle, NamesDiffer, OpenFiles, Meetings, Storing,
     SessionAgrees, CursorAgrees, Disturbed, NoTmpLeak, Quiet, OnSession,
     FreshIsUnused
<1>7. SessionAgrees'
  BY <1>1, <1>2, <1>0 DEF SessionAgrees, CursorAgrees, Disturbed, NoTmpLeak,
     Quiet, OnSession, FileLen, Open, RequestShape, OpAndPlace, SessionOps,
     PatchPlaces, PutPlaces, StorePlaces, DeletePlaces, Idle, NamesDiffer,
     OpenFiles, Meetings, Storing, SessionProgress, SweepProgress,
     FreshIsUnused
<1> QED BY <1>3, <1>4, <1>5, <1>6, <1>7

LEMMA AppendOpenKeeps ==
    ASSUME BlobInv, NEW r \in Requests, AppendOpen(r)
    PROVE  BlobInv'
<1> USE DEF BlobInv
<1>0. FileTypes /\ SetTypes
  BY TypesApart
<1>1. UNCHANGED <<row, minted, blob, sidecar, mirror, due, reaping,
   overlap, parted, raced, acked, crashes, begun>>
  BY DEF AppendOpen, fileVars, blobVars, reaperVars, sessionHist
<1>2. PICK u \in req[r].up : AppendOpen(r)!(u)
  BY DEF AppendOpen
<1>3. u \in Uploads /\ u \in minted /\ req[r].up = {u}
  BY <1>0 DEF SetTypes, RequestShape
<1>4. /\ \A x \in Requests : x # r => req'[x] = req[x]
      /\ req[r].at = "open"
      /\ req'[r].at = "write"
      /\ req'[r].op = req[r].op
      /\ req'[r].up = req[r].up
      /\ req'[r].digest = req[r].digest
      /\ req'[r].chunk = req[r].chunk
      /\ req'[r].saw = req[r].saw
      /\ dubious' = dubious
  BY <1>2, GotoEffect DEF Places
<1>5. PICK i \in Inodes :
        /\ fd' = [fd EXCEPT ![r] = i]
        /\ \/ tmp[u] = i /\ UNCHANGED <<tmp, inode, owner>>
           \/ /\ tmp[u] = NoFile /\ i \notin InUse
              /\ tmp' = [tmp EXCEPT ![u] = i]
              /\ inode' = [inode EXCEPT ![i] = <<>>]
              /\ owner' = [owner EXCEPT ![i] = {u}]
  BY <1>2, <1>3, <1>0 DEF FileTypes, Names, Free
<1>6. i # NoFile
  BY DEF Inodes, NoFile
<1>7. /\ tmp'[u] = i /\ \A v \in Uploads : v # u => tmp'[v] = tmp[v]
      /\ owner'[i] = {u} /\ \A k \in Inodes : k # i => owner'[k] = owner[k]
      /\ \A k \in Inodes : k # i => inode'[k] = inode[k]
      /\ fd'[r] = i /\ \A x \in Requests : x # r => fd'[x] = fd[x]
  BY <1>0, <1>3, <1>5, <1>6 DEF FileTypes, NamesDiffer
<1>8. /\ tmp[u] # NoFile => tmp[u] = i /\ inode'[i] = inode[i] /\ owner'[i] =
           owner[i]
      /\ tmp[u] = NoFile => /\ inode'[i] = <<>>
                            /\ \A v \in Uploads : tmp[v] # i
                            /\ \A d \in Digests : blob[d] # i
                            /\ \A x \in Requests : fd[x] # i
  BY <1>0, <1>3, <1>5, <1>6 DEF FileTypes, InUse
<1>9. FileTypes' /\ req' \in [Requests -> Handlers]
  BY <1>0, <1>1, <1>2, <1>3, <1>5, NoContents, GotoEffect DEF FileTypes,
     Names, Places
<1>10. TypeOK'
  BY <1>0, <1>1, <1>4, <1>9, OciBlobsAssumption, NoContents DEF TypeOK,
     FileTypes
<1>11. RequestShape'
  <2>1. req[r].op \in SessionOps
    BY <1>3 DEF RequestShape
  <2>2. OpAndPlace(req[r])'
    BY <1>4, <2>1 DEF OpAndPlace, SessionOps, PatchPlaces, PutPlaces
  <2> QED BY <1>1, <1>3, <1>4, <1>6, <1>7, <2>1, <2>2 DEF RequestShape
<1>12. NamesDiffer'
  BY <1>1, <1>3, <1>4, <1>6, <1>7, <1>8, <1>0 DEF FileTypes, Names,
     NamesDiffer, OpenFiles
<1>13. OpenFiles'
  <2>1. owner'[i] = req'[r].up /\ \A d \in Digests : blob'[d] # i
    BY <1>1, <1>3, <1>4, <1>6, <1>7, <1>8 DEF NamesDiffer
  <2>2. ASSUME NEW x \in Requests, x # r, fd[x] # NoFile
        PROVE  owner'[fd[x]] = req[x].up
    BY <2>2, <1>0, <1>7, <1>8 DEF OpenFiles, FileTypes, Names
  <2> QED BY <2>1, <2>2, <1>1, <1>4, <1>7 DEF OpenFiles
<1>14. Meetings'
  BY <1>1, <1>3, <1>4, <1>6, <1>7, <1>8, <1>0 DEF Meetings, Storing
<1>15. FreshIsUnused'
  BY <1>1, <1>3, <1>4, <1>6, <1>7, <1>8, <1>0 DEF FreshIsUnused, Open,
     RequestShape, OpAndPlace, SessionOps, PatchPlaces, PutPlaces,
     StorePlaces, DeletePlaces, Idle
<1>16. HashedStays'
  BY <1>1, <1>3, <1>4, <1>6, <1>7, <1>8, <1>0 DEF FileTypes, SetTypes,
     Names, HashedStays, RequestShape, OpAndPlace, SessionOps, PatchPlaces,
     PutPlaces, StorePlaces, DeletePlaces, Idle, NamesDiffer, OpenFiles,
     Meetings, Storing
<1>17. ContentAddressed'
  BY <1>1, <1>3, <1>4, <1>6, <1>7, <1>8, <1>0 DEF FileTypes, SetTypes,
     Names, ContentAddressed, RequestShape, OpAndPlace, SessionOps,
     PatchPlaces, PutPlaces, StorePlaces, DeletePlaces, Idle, NamesDiffer,
     OpenFiles, HashedStays
<1>18. BytesFirst'
  BY <1>1, <1>3, <1>4, <1>6, <1>7, <1>8, <1>0 DEF BytesFirst, OnDigest,
     Storing, RequestShape, OpAndPlace, SessionOps, PatchPlaces, PutPlaces,
     StorePlaces, DeletePlaces, Idle, Meetings
<1>19. StoredIsThere'
  BY <1>1, <1>3, <1>4, <1>6, <1>7, <1>8, <1>0 DEF Names, StoredIsThere,
     AckedIsStored, MirrorHasBytes, OnDigest, RequestShape, OpAndPlace,
     SessionOps, PatchPlaces, PutPlaces, StorePlaces, DeletePlaces, Idle,
     Meetings, Storing, BytesFirst
<1>20. SessionProgress'
  BY <1>1, <1>3, <1>4, <1>6, <1>7, <1>8, <1>0 DEF FileTypes, SetTypes, Names,
     SessionProgress, FileLen, Open, RequestShape, OpAndPlace, SessionOps,
     PatchPlaces, PutPlaces, StorePlaces, DeletePlaces, Idle, NamesDiffer,
     OpenFiles, Meetings, Storing, SessionAgrees, CursorAgrees, Disturbed,
     NoTmpLeak, Quiet, OnSession, FreshIsUnused
<1>21. SweepProgress'
  BY <1>1, <1>3, <1>4, <1>6, <1>7, <1>8, <1>0 DEF SetTypes, Names,
     SweepProgress, RequestShape, OpAndPlace, SessionOps, PatchPlaces,
     PutPlaces, StorePlaces, DeletePlaces, Idle, Meetings, Storing
<1>22. SessionAgrees'
  BY <1>1, <1>3, <1>4, <1>6, <1>7, <1>8, <1>0 DEF FileTypes, SetTypes,
     Names, SessionAgrees, CursorAgrees, Disturbed, NoTmpLeak, Quiet, OnSession,
     FileLen, Open, RequestShape, OpAndPlace, SessionOps, PatchPlaces,
     PutPlaces, StorePlaces, DeletePlaces, Idle, NamesDiffer, OpenFiles,
     Meetings, Storing, SessionProgress, SweepProgress, FreshIsUnused
<1> QED BY <1>10, <1>11, <1>12, <1>13, <1>14, <1>15, <1>16, <1>17, <1>18,
     <1>19, <1>20, <1>21, <1>22

LEMMA AppendWriteKeeps ==
    ASSUME BlobInv, NEW r \in Requests, AppendWrite(r)
    PROVE  BlobInv'
<1> USE DEF BlobInv
<1>0. FileTypes /\ SetTypes
  BY TypesApart
<1>1. UNCHANGED <<row, minted, tmp, owner, blob, sidecar, mirror, due,
   reaping, overlap, parted, raced, acked, crashes, begun>>
  BY DEF AppendWrite, sessionVars, fileVars, blobVars, reaperVars, sessionHist
<1>2. /\ \A x \in Requests : x # r => req'[x] = req[x]
      /\ req[r].at = "write"
      /\ req'[r].at = "cursor"
      /\ req'[r].op = req[r].op
      /\ req'[r].up = req[r].up
      /\ req'[r].digest = req[r].digest
      /\ req'[r].chunk = req[r].chunk
      /\ req'[r].saw = req[r].saw
      /\ dubious' = dubious
  BY GotoEffect DEF AppendWrite, Places
<1>3. PICK u \in Uploads : u \in minted /\ req[r].up = {u}
  BY <1>0, <1>2 DEF SetTypes, RequestShape, OpAndPlace, SessionOps,
     StorePlaces, DeletePlaces, Idle, Ops
<1>4. PICK i \in Inodes : i = fd[r] /\ i # NoFile
  BY <1>0, <1>2 DEF FileTypes, RequestShape, Names
<1>5. owner[i] = {u} /\ \A d \in Digests : blob[d] = i => u \in overlap
  BY <1>3, <1>4 DEF OpenFiles
<1>6. /\ inode[i] \o req[r].chunk \in Contents
      /\ Len(inode[i] \o req[r].chunk) = Len(inode[i]) + 1
  BY <1>0, <1>2, <1>4, AppendedContents DEF AppendWrite, FileTypes, TypeOK,
     Handlers, RequestShape
<1>7. /\ Len(inode'[i]) = Len(inode[i]) + 1
      /\ \A k \in Inodes : k # i => inode'[k] = inode[k]
      /\ fd'[r] = NoFile /\ \A x \in Requests : x # r => fd'[x] = fd[x]
  BY <1>0, <1>4, <1>6 DEF AppendWrite, FileTypes
<1>8. /\ \A v \in Uploads : v # u => FileLen(v)' = FileLen(v)
      /\ tmp[u] = i => FileLen(u)' = FileLen(u) + 1
  BY <1>0, <1>1, <1>4, <1>5, <1>7 DEF FileTypes, FileLen, NamesDiffer, Names
<1>9. FileTypes' /\ req' \in [Requests -> Handlers]
  BY <1>0, <1>1, <1>4, <1>6, GotoEffect DEF FileTypes, AppendWrite, Places,
     Names
<1>10. TypeOK'
  BY <1>0, <1>1, <1>2, <1>9, OciBlobsAssumption, NoContents DEF TypeOK,
     FileTypes
<1>11. NamesDiffer' /\ FreshIsUnused' /\ SweepProgress'
  BY <1>1 DEF NamesDiffer, FreshIsUnused, Open, SweepProgress
<1>12. RequestShape'
  BY <1>1, <1>2, <1>7 DEF RequestShape, OpAndPlace, SessionOps, PatchPlaces,
     PutPlaces, StorePlaces, DeletePlaces, Idle
<1>13. OpenFiles'
  BY <1>1, <1>2, <1>3, <1>4, <1>5, <1>6, <1>7, <1>8, <1>0 DEF OpenFiles,
     RequestShape, OpAndPlace, SessionOps, PatchPlaces, PutPlaces,
     StorePlaces, DeletePlaces, Idle, NamesDiffer, Meetings, Storing
<1>14. Meetings'
  BY <1>1, <1>2, <1>3, <1>4, <1>5, <1>6, <1>7, <1>8, <1>0 DEF Meetings,
     Storing
<1>15. HashedStays'
  BY <1>1, <1>2, <1>3, <1>4, <1>5, <1>6, <1>7, <1>8, <1>0 DEF FileTypes,
     SetTypes, Names, HashedStays, RequestShape, OpAndPlace, SessionOps,
     PatchPlaces, PutPlaces, StorePlaces, DeletePlaces, Idle, NamesDiffer,
     OpenFiles, Meetings, Storing
<1>16. ContentAddressed'
  BY <1>1, <1>2, <1>3, <1>4, <1>5, <1>6, <1>7, <1>8, <1>0 DEF FileTypes,
     SetTypes, Names, ContentAddressed, RequestShape, OpAndPlace,
     SessionOps, PatchPlaces, PutPlaces, StorePlaces, DeletePlaces, Idle,
     NamesDiffer, OpenFiles, HashedStays
<1>17. BytesFirst'
  BY <1>1, <1>2, <1>3, <1>4, <1>5, <1>6, <1>7, <1>8, <1>0 DEF BytesFirst,
     OnDigest, Storing, RequestShape, OpAndPlace, SessionOps, PatchPlaces,
     PutPlaces, StorePlaces, DeletePlaces, Idle, Meetings
<1>18. StoredIsThere'
  BY <1>1, <1>2, <1>3, <1>4, <1>5, <1>6, <1>7, <1>8, <1>0 DEF Names,
     StoredIsThere, AckedIsStored, MirrorHasBytes, OnDigest, RequestShape,
     OpAndPlace, SessionOps, PatchPlaces, PutPlaces, StorePlaces,
     DeletePlaces, Idle, Meetings, Storing, BytesFirst
<1>19. SessionProgress'
  BY <1>1, <1>2, <1>3, <1>4, <1>5, <1>6, <1>7, <1>8, <1>0 DEF SetTypes, Names,
     SessionProgress, Open, RequestShape, OpAndPlace, SessionOps, PatchPlaces,
     PutPlaces, StorePlaces, DeletePlaces, Idle, NamesDiffer, OpenFiles,
     Meetings, Storing, SessionAgrees, CursorAgrees, Disturbed, NoTmpLeak,
     Quiet, OnSession, FreshIsUnused
<1>20. SessionAgrees'
  BY <1>0, <1>1, <1>2, <1>3, <1>8 DEF SessionAgrees, CursorAgrees, Disturbed,
     NoTmpLeak, Quiet, OnSession, Open
<1> QED BY <1>10, <1>11, <1>12, <1>13, <1>14, <1>15, <1>16, <1>17, <1>18,
     <1>19, <1>20

\* A file keeps to its bound when what is appended fits.
LEMMA ShortContents ==
    ASSUME NEW s \in Contents, NEW w \in {<<>>} \cup {<<c>> : c \in Chunks},
           Len(s) + Len(w) <= MaxChunks
    PROVE  w \in Contents /\ s \o w \in Contents
<1>1. s \in Seq(Chunks)
  BY ContentsAreShort
<1>4. w \in Seq(Chunks)
  <2>1. CASE w = <<>>
    BY <2>1
  <2>2. ASSUME NEW c \in Chunks, w = <<c>>
        PROVE  w \in Seq(Chunks)
    BY <2>2
  <2> QED BY <2>1, <2>2
<1>2. s \o w \in Seq(Chunks) /\ Len(s \o w) = Len(s) + Len(w)
  BY <1>1, <1>4, ConcatProperties
<1>3. Len(s) \in Nat /\ Len(w) \in Nat
  BY <1>1, <1>4
<1> QED BY <1>2, <1>3, <1>4, ContentsAreShort, OciBlobsAssumption

\* An append that fails leaves its session half done.
LEMMA AppendFailsKeeps ==
    ASSUME BlobInv, NEW r \in Requests, AppendFails(r)
    PROVE  BlobInv'
<1> USE DEF BlobInv
<1>0. FileTypes /\ SetTypes
  BY TypesApart
<1>1. UNCHANGED <<row, minted, tmp, owner, blob, sidecar, mirror, due,
   reaping, overlap, raced, acked, begun>>
  BY DEF AppendFails, sessionVars, fileVars, blobVars, reaperVars, Parts
<1>2. /\ \A x \in Requests : x # r => req'[x] = req[x]
      /\ req[r].at = "write"
      /\ req'[r] = Idle
      /\ req'[r].op = "idle" /\ req'[r].at = "idle" /\ req'[r].up = {}
      /\ dubious' = dubious \ {r}
      /\ parted' = parted \cup req[r].up /\ crashes' \in 0..MaxCrashes
  BY EndEffect, OciBlobsAssumption DEF AppendFails, Parts, Fault, TypeOK
<1>3. PICK u \in Uploads : u \in minted /\ req[r].up = {u}
  BY <1>0, <1>2 DEF SetTypes, RequestShape, OpAndPlace, SessionOps,
     StorePlaces, DeletePlaces, Idle, Ops
<1>4. PICK i \in Inodes : i = fd[r] /\ i # NoFile
  BY <1>0, <1>2 DEF FileTypes, RequestShape, Names
<1>5. owner[i] = {u} /\ \A d \in Digests : blob[d] = i => u \in overlap
  BY <1>3, <1>4 DEF OpenFiles
<1>6. PICK w \in Contents :
        /\ inode[i] \o w \in Contents
        /\ inode' = [inode EXCEPT ![i] = @ \o w]
  BY <1>0, <1>4, ShortContents DEF AppendFails, FileTypes
<1>7. /\ \A k \in Inodes : k # i => inode'[k] = inode[k]
      /\ fd'[r] = NoFile /\ \A x \in Requests : x # r => fd'[x] = fd[x]
  BY <1>0, <1>4, <1>6 DEF AppendFails, FileTypes
<1>8. \A v \in Uploads : v # u => FileLen(v)' = FileLen(v)
  BY <1>0, <1>1, <1>4, <1>5, <1>7 DEF FileTypes, FileLen, NamesDiffer, Names
<1>9. FileTypes' /\ req' \in [Requests -> Handlers]
  BY <1>0, <1>1, <1>4, <1>6, EndEffect DEF FileTypes, AppendFails, Names
<1>10. TypeOK'
  BY <1>0, <1>1, <1>2, <1>9, OciBlobsAssumption, NoContents DEF TypeOK,
     FileTypes, SetTypes
<1>11. NamesDiffer' /\ FreshIsUnused' /\ SweepProgress'
  BY <1>1, <1>2 DEF NamesDiffer, FreshIsUnused, Open, SweepProgress
<1>12. RequestShape'
  BY <1>1, <1>2, <1>7 DEF RequestShape, OpAndPlace, SessionOps, PatchPlaces,
     PutPlaces, StorePlaces, DeletePlaces, Idle
<1>13. OpenFiles'
  BY <1>1, <1>2, <1>3, <1>4, <1>5, <1>6, <1>7, <1>8, <1>0 DEF OpenFiles,
     RequestShape, OpAndPlace, SessionOps, PatchPlaces, PutPlaces,
     StorePlaces, DeletePlaces, Idle, NamesDiffer, Meetings, Storing
<1>14. Meetings'
  BY <1>1, <1>2, <1>3, <1>4, <1>5, <1>6, <1>7, <1>8, <1>0 DEF Meetings,
     Storing
<1>15. HashedStays'
  BY <1>1, <1>2, <1>3, <1>4, <1>5, <1>6, <1>7, <1>8, <1>0 DEF FileTypes,
     SetTypes, Names, HashedStays, RequestShape, OpAndPlace, SessionOps,
     PatchPlaces, PutPlaces, StorePlaces, DeletePlaces, Idle, NamesDiffer,
     OpenFiles, Meetings, Storing
<1>16. ContentAddressed'
  BY <1>1, <1>2, <1>3, <1>4, <1>5, <1>6, <1>7, <1>8, <1>0 DEF FileTypes,
     SetTypes, Names, ContentAddressed, RequestShape, OpAndPlace,
     SessionOps, PatchPlaces, PutPlaces, StorePlaces, DeletePlaces, Idle,
     NamesDiffer, OpenFiles, HashedStays
<1>17. BytesFirst'
  BY <1>1, <1>2, <1>3, <1>4, <1>5, <1>6, <1>7, <1>8, <1>0 DEF BytesFirst,
     OnDigest, Storing, RequestShape, OpAndPlace, SessionOps, PatchPlaces,
     PutPlaces, StorePlaces, DeletePlaces, Idle, Meetings
<1>18. StoredIsThere'
  BY <1>1, <1>2, <1>3, <1>4, <1>5, <1>6, <1>7, <1>8, <1>0 DEF Names,
     StoredIsThere, AckedIsStored, MirrorHasBytes, OnDigest, RequestShape,
     OpAndPlace, SessionOps, PatchPlaces, PutPlaces, StorePlaces,
     DeletePlaces, Idle, Meetings, Storing, BytesFirst
<1>19. SessionProgress'
  BY <1>1, <1>2, <1>3, <1>4, <1>5, <1>6, <1>7, <1>8, <1>0 DEF SetTypes, Names,
     SessionProgress, Open, RequestShape, OpAndPlace, SessionOps, PatchPlaces,
     PutPlaces, StorePlaces, DeletePlaces, Idle, NamesDiffer, OpenFiles,
     Meetings, Storing, SessionAgrees, CursorAgrees, Disturbed, NoTmpLeak,
     Quiet, OnSession, FreshIsUnused
<1>20. SessionAgrees'
  BY <1>0, <1>1, <1>2, <1>3, <1>8 DEF SessionAgrees, CursorAgrees, Disturbed,
     NoTmpLeak, Quiet, OnSession, Open
<1> QED BY <1>10, <1>11, <1>12, <1>13, <1>14, <1>15, <1>16, <1>17, <1>18,
     <1>19, <1>20

\* A request of a session ends; the session is as its row says.
LEMMA EndKeeps ==
    ASSUME BlobInv, NEW r \in Requests, End(r),
           req[r].op \in {"patch", "put", "store"},
           fd[r] = NoFile,
           parted \subseteq parted', parted' \subseteq Uploads,
           crashes' \in 0..MaxCrashes,
           \A u \in req[r].up \ (overlap \cup parted') :
             Open(u) /\ row[u].bytes = FileLen(u),
           UNCHANGED <<row, minted, tmp, inode, owner, fd, blob, sidecar,
           mirror, due, reaping, overlap, raced, acked, begun>>
    PROVE  BlobInv'
<1> USE DEF BlobInv
<1>0. FileTypes /\ SetTypes
  BY TypesApart
<1>1. /\ UNCHANGED <<row, minted, tmp, inode, owner, fd, blob, sidecar,
         mirror, due, reaping, overlap, raced, acked, begun>>
      /\ parted \subseteq parted' /\ parted' \subseteq Uploads
  OBVIOUS
<1>2. /\ \A x \in Requests : x # r => req'[x] = req[x]
      /\ req'[r] = Idle
      /\ req'[r].op = "idle" /\ req'[r].at = "idle" /\ req'[r].up = {}
      /\ dubious' = dubious \ {r}
  BY EndEffect
<1>3. req' \in [Requests -> Handlers]
  BY EndEffect
<1>4. \A v \in Uploads : FileLen(v)' = FileLen(v)
  BY DEF FileLen
<1>5. \A v \in Uploads : Quiet(v) \/ v \in req[r].up \/ ~Quiet(v)'
  BY <1>2 DEF Quiet, OnSession
<1>6. TypeOK'
  BY <1>0, <1>1, <1>2, <1>3, OciBlobsAssumption, NoContents DEF TypeOK
<1>7. NamesDiffer' /\ FreshIsUnused' /\ ContentAddressed' /\ SweepProgress'
  BY <1>1 DEF NamesDiffer, FreshIsUnused, Open, ContentAddressed,
     SweepProgress
<1>8. RequestShape'
  BY <1>1, <1>2, <1>4, <1>5 DEF RequestShape, OpAndPlace, SessionOps,
     PatchPlaces, PutPlaces, StorePlaces, DeletePlaces, Idle
<1>9. OpenFiles'
  BY <1>1, <1>2, <1>4, <1>5, <1>0 DEF OpenFiles, RequestShape, OpAndPlace,
     SessionOps, PatchPlaces, PutPlaces, StorePlaces, DeletePlaces, Idle,
     NamesDiffer, Meetings, Storing
<1>10. Meetings'
  BY <1>1, <1>2, <1>4, <1>5, <1>0 DEF Meetings, Storing
<1>11. HashedStays'
  BY <1>1, <1>2, <1>4, <1>5, <1>0 DEF Names, HashedStays, RequestShape,
     OpAndPlace, SessionOps, PatchPlaces, PutPlaces, StorePlaces,
     DeletePlaces, Idle, NamesDiffer, OpenFiles, Meetings, Storing
<1>12. BytesFirst'
  BY <1>1, <1>2, <1>4, <1>5, <1>0 DEF BytesFirst, OnDigest, Storing,
     RequestShape, OpAndPlace, SessionOps, PatchPlaces, PutPlaces,
     StorePlaces, DeletePlaces, Idle, Meetings
<1>13. StoredIsThere'
  BY <1>1, <1>2, <1>4, <1>5, <1>0 DEF Names, StoredIsThere, AckedIsStored,
     MirrorHasBytes, OnDigest, RequestShape, OpAndPlace, SessionOps,
     PatchPlaces, PutPlaces, StorePlaces, DeletePlaces, Idle, Meetings,
     Storing, BytesFirst
<1>14. SessionProgress'
  BY <1>1, <1>2, <1>4, <1>5, <1>0 DEF SetTypes, Names, SessionProgress,
     Open, RequestShape, OpAndPlace, SessionOps, PatchPlaces, PutPlaces,
     StorePlaces, DeletePlaces, Idle, NamesDiffer, OpenFiles, Meetings,
     Storing, SessionAgrees, CursorAgrees, Disturbed, NoTmpLeak, FreshIsUnused
<1>15. SessionAgrees'
  BY <1>1, <1>2, <1>4, <1>5, <1>0 DEF Names, SessionAgrees, CursorAgrees,
     Disturbed, NoTmpLeak, Open, RequestShape, OpAndPlace, SessionOps,
     PatchPlaces, PutPlaces, StorePlaces, DeletePlaces, Idle, NamesDiffer,
     OpenFiles, Meetings, Storing, SessionProgress, SweepProgress,
     FreshIsUnused
<1> QED BY <1>6, <1>7, <1>8, <1>9, <1>10, <1>11, <1>12, <1>13, <1>14, <1>15

LEMMA AppendedPutKeeps ==
    ASSUME BlobInv, NEW r \in Requests, NEW u \in Uploads, req[r].at = "cursor",
           req[r].op = "put",
           u \in req[r].up,
           tmp[u] # NoFile,
           AppendChunk(u),
           Goto(r, "hash"),
           UNCHANGED <<minted, tmp, inode, owner, fd, blob, sidecar,
           mirror, due, reaping, overlap, parted, raced, acked, crashes, begun>>
    PROVE  BlobInv'
<1> USE DEF BlobInv
<1>0. FileTypes /\ SetTypes
  BY TypesApart
<1>1. UNCHANGED <<minted, tmp, inode, owner, fd, blob, sidecar, mirror, due,
   reaping, overlap, parted, raced, acked, crashes, begun>>
  OBVIOUS
<1>2. req[r].up = {u} /\ u \in minted
  BY DEF RequestShape
<1>3. /\ Open(u) /\ row'[u].state = "live" /\ row'[u].bytes = row[u].bytes + 1
      /\ \A v \in Uploads : v # u => row'[v] = row[v]
  BY DEF AppendChunk, TypeOK
<1>4. /\ \A x \in Requests : x # r => req'[x] = req[x]
      /\ req[r].at = "cursor"
      /\ req'[r].at = "hash"
      /\ req'[r].op = req[r].op
      /\ req'[r].up = req[r].up
      /\ req'[r].digest = req[r].digest
      /\ req'[r].chunk = req[r].chunk
      /\ req'[r].saw = req[r].saw
      /\ dubious' = dubious
  BY GotoEffect DEF Places
<1>5. \A v \in Uploads : FileLen(v)' = FileLen(v)
  BY DEF FileLen
<1>6. ~Quiet(u)' /\ \A v \in Uploads : Quiet(v) <=> Quiet(v)'
  BY <1>2, <1>4 DEF Quiet, OnSession
<1>7. req' \in [Requests -> Handlers] /\ row' \in [Uploads -> [state : {"none",
          "live", "expired"}, bytes : Nat]]
  BY GotoEffect, EndEffect DEF AppendChunk, TypeOK, Places
<1>8. TypeOK'
  BY <1>0, <1>1, <1>4, <1>7, OciBlobsAssumption, NoContents DEF TypeOK
<1>9. NamesDiffer' /\ ContentAddressed' /\ SweepProgress'
  BY <1>1 DEF NamesDiffer, ContentAddressed, SweepProgress
<1>10. RequestShape'
  BY <1>1, <1>2, <1>3, <1>4, <1>5, <1>6 DEF RequestShape, OpAndPlace,
     SessionOps, PatchPlaces, PutPlaces, StorePlaces, DeletePlaces, Idle
<1>11. OpenFiles'
  BY <1>1, <1>2, <1>3, <1>4, <1>5, <1>6, <1>0 DEF OpenFiles, RequestShape,
     OpAndPlace, SessionOps, PatchPlaces, PutPlaces, StorePlaces,
     DeletePlaces, Idle, NamesDiffer, Meetings, Storing
<1>12. Meetings'
  BY <1>1, <1>2, <1>3, <1>4, <1>5, <1>6, <1>0 DEF Meetings, Storing
<1>13. FreshIsUnused'
  BY <1>1, <1>2, <1>3, <1>4, <1>5, <1>6, <1>0 DEF FreshIsUnused, Open,
     RequestShape, OpAndPlace, SessionOps, PatchPlaces, PutPlaces,
     StorePlaces, DeletePlaces, Idle
<1>14. HashedStays'
  BY <1>1, <1>2, <1>3, <1>4, <1>5, <1>6, <1>0 DEF Names, HashedStays,
     RequestShape, OpAndPlace, SessionOps, PatchPlaces, PutPlaces,
     StorePlaces, DeletePlaces, Idle, NamesDiffer, OpenFiles, Meetings,
     Storing
<1>15. BytesFirst'
  BY <1>1, <1>2, <1>3, <1>4, <1>5, <1>6, <1>0 DEF FileTypes, SetTypes,
     Names, BytesFirst, OnDigest, Storing, RequestShape, OpAndPlace,
     SessionOps, PatchPlaces, PutPlaces, StorePlaces, DeletePlaces, Idle,
     Meetings
<1>16. StoredIsThere'
  BY <1>1, <1>2, <1>3, <1>4, <1>5, <1>6, <1>0 DEF Names, StoredIsThere,
     AckedIsStored, MirrorHasBytes, OnDigest, RequestShape, OpAndPlace,
     SessionOps, PatchPlaces, PutPlaces, StorePlaces, DeletePlaces, Idle,
     Meetings, Storing, BytesFirst
<1>17. SessionProgress'
  BY <1>1, <1>2, <1>3, <1>4, <1>5, <1>6, <1>0 DEF SetTypes, Names,
     SessionProgress, Open, RequestShape, OpAndPlace, SessionOps, PatchPlaces,
     PutPlaces, StorePlaces, DeletePlaces, Idle, NamesDiffer, OpenFiles,
     Meetings, Storing, SessionAgrees, CursorAgrees, Disturbed, NoTmpLeak,
     FreshIsUnused
<1>18. SessionAgrees'
  BY <1>1, <1>2, <1>3, <1>4, <1>5, <1>6, <1>0 DEF Names, SessionAgrees,
     CursorAgrees, Disturbed, NoTmpLeak, Open, RequestShape, OpAndPlace,
     SessionOps, PatchPlaces, PutPlaces, StorePlaces, DeletePlaces, Idle,
     NamesDiffer, OpenFiles, Meetings, Storing, SessionProgress, SweepProgress,
     FreshIsUnused
<1> QED BY <1>8, <1>9, <1>10, <1>11, <1>12, <1>13, <1>14, <1>15, <1>16,
     <1>17, <1>18

LEMMA AppendedPatchKeeps ==
    ASSUME BlobInv, NEW r \in Requests, NEW u \in Uploads, req[r].at = "cursor",
           req[r].op = "patch",
           u \in req[r].up,
           tmp[u] # NoFile,
           AppendChunk(u),
           End(r),
           UNCHANGED <<minted, tmp, inode, owner, fd, blob, sidecar,
           mirror, due, reaping, overlap, parted, raced, acked, crashes, begun>>
    PROVE  BlobInv'
<1> USE DEF BlobInv
<1>0. FileTypes /\ SetTypes
  BY TypesApart
<1>1. UNCHANGED <<minted, tmp, inode, owner, fd, blob, sidecar, mirror, due,
   reaping, overlap, parted, raced, acked, crashes, begun>>
  OBVIOUS
<1>2. req[r].up = {u} /\ u \in minted
  BY DEF RequestShape
<1>3. /\ Open(u) /\ row'[u].state = "live" /\ row'[u].bytes = row[u].bytes + 1
      /\ \A v \in Uploads : v # u => row'[v] = row[v]
  BY DEF AppendChunk, TypeOK
<1>4. /\ \A x \in Requests : x # r => req'[x] = req[x]
      /\ req'[r] = Idle
      /\ req'[r].op = "idle" /\ req'[r].at = "idle" /\ req'[r].up = {}
      /\ dubious' = dubious \ {r}
  BY EndEffect
<1>5. \A v \in Uploads : FileLen(v)' = FileLen(v)
  BY DEF FileLen
<1>6. \A v \in Uploads : Quiet(v) \/ v = u \/ ~Quiet(v)'
  BY <1>2, <1>4 DEF Quiet, OnSession
<1>7. req' \in [Requests -> Handlers] /\ row' \in [Uploads -> [state : {"none",
          "live", "expired"}, bytes : Nat]]
  BY GotoEffect, EndEffect DEF AppendChunk, TypeOK, Places
<1>8. TypeOK'
  BY <1>0, <1>1, <1>4, <1>7, OciBlobsAssumption, NoContents DEF TypeOK
<1>9. NamesDiffer' /\ ContentAddressed' /\ SweepProgress'
  BY <1>1 DEF NamesDiffer, ContentAddressed, SweepProgress
<1>10. RequestShape'
  BY <1>1, <1>2, <1>3, <1>4, <1>5, <1>6 DEF RequestShape, OpAndPlace,
     SessionOps, PatchPlaces, PutPlaces, StorePlaces, DeletePlaces, Idle
<1>11. OpenFiles'
  BY <1>1, <1>2, <1>3, <1>4, <1>5, <1>6, <1>0 DEF OpenFiles, RequestShape,
     OpAndPlace, SessionOps, PatchPlaces, PutPlaces, StorePlaces,
     DeletePlaces, Idle, NamesDiffer, Meetings, Storing
<1>12. Meetings'
  BY <1>1, <1>2, <1>3, <1>4, <1>5, <1>6, <1>0 DEF Meetings, Storing
<1>13. FreshIsUnused'
  BY <1>1, <1>2, <1>3, <1>4, <1>5, <1>6, <1>0 DEF FreshIsUnused, Open,
     RequestShape, OpAndPlace, SessionOps, PatchPlaces, PutPlaces,
     StorePlaces, DeletePlaces, Idle
<1>14. HashedStays'
  BY <1>1, <1>2, <1>3, <1>4, <1>5, <1>6, <1>0 DEF Names, HashedStays,
     RequestShape, OpAndPlace, SessionOps, PatchPlaces, PutPlaces,
     StorePlaces, DeletePlaces, Idle, NamesDiffer, OpenFiles, Meetings,
     Storing
<1>15. BytesFirst'
  BY <1>1, <1>2, <1>3, <1>4, <1>5, <1>6 DEF BytesFirst, OnDigest
<1>16. StoredIsThere'
  BY <1>1, <1>2, <1>3, <1>4, <1>5, <1>6, <1>0 DEF Names, StoredIsThere,
     AckedIsStored, MirrorHasBytes, OnDigest, RequestShape, OpAndPlace,
     SessionOps, PatchPlaces, PutPlaces, StorePlaces, DeletePlaces, Idle,
     Meetings, Storing, BytesFirst
<1>17. SessionProgress'
  BY <1>1, <1>2, <1>3, <1>4, <1>5, <1>6, <1>0 DEF SetTypes, Names,
     SessionProgress, Open, RequestShape, OpAndPlace, SessionOps, PatchPlaces,
     PutPlaces, StorePlaces, DeletePlaces, Idle, NamesDiffer, OpenFiles,
     Meetings, Storing, SessionAgrees, CursorAgrees, Disturbed, NoTmpLeak,
     FreshIsUnused
<1>18. SessionAgrees'
  BY <1>1, <1>2, <1>3, <1>4, <1>5, <1>6, <1>0 DEF FileTypes, SetTypes, Names,
     SessionAgrees, CursorAgrees, Disturbed, NoTmpLeak, Open, RequestShape,
     OpAndPlace, SessionOps, PatchPlaces, PutPlaces, StorePlaces, DeletePlaces,
     Idle, NamesDiffer, OpenFiles, Meetings, Storing, SessionProgress,
     SweepProgress, FreshIsUnused
<1> QED BY <1>8, <1>9, <1>10, <1>11, <1>12, <1>13, <1>14, <1>15, <1>16,
     <1>17, <1>18

LEMMA AppendDoneKeeps ==
    ASSUME BlobInv, NEW r \in Requests, AppendDone(r)
    PROVE  BlobInv'
<1>1. PICK u \in req[r].up : AppendDone(r)!(u)
  BY DEF AppendDone
<1>2. u \in Uploads /\ req[r].up = {u} /\ req[r].op \in SessionOps
  BY TypesApart DEF BlobInv, SetTypes, RequestShape
<1>3. fd[r] = NoFile
  BY <1>1 DEF BlobInv, RequestShape
<1>4. UNCHANGED <<minted, tmp, inode, owner, fd, blob, sidecar, mirror, due,
          reaping, overlap, parted, raced, acked, crashes, begun>>
  BY <1>1 DEF fileVars, blobVars, reaperVars, sessionHist
<1>5. CASE /\ tmp[u] # NoFile
           /\ AppendChunk(u)
           /\ IF req[r].op = "put" THEN Goto(r, "hash") ELSE End(r)
  BY <1>1, <1>2, <1>4, <1>5, AppendedPutKeeps, AppendedPatchKeeps DEF
     SessionOps
<1>6. CASE /\ \/ tmp[u] = NoFile
              \/ req[r].op # "put" /\ Len(inode[tmp[u]]) # req[r].saw + 1
              \/ ~Open(u)
           /\ End(r)
           /\ UNCHANGED row
  <2>1. u \in overlap \cup parted
    BY <1>1, <1>2, <1>6 DEF BlobInv, SessionProgress, FileLen
  <2>2. crashes \in 0..MaxCrashes /\ parted \subseteq Uploads
    BY DEF BlobInv, TypeOK
  <2> QED BY <1>2, <1>3, <1>4, <1>6, <2>1, <2>2, EndKeeps DEF SessionOps
<1> QED BY <1>1, <1>5, <1>6

\* A handler that throws.
LEMMA HandlerThrowsKeeps ==
    ASSUME BlobInv, NEW r \in Requests, HandlerThrows(r)
    PROVE  BlobInv'
<1>1. /\ End(r) /\ crashes' \in 0..MaxCrashes
      /\ UNCHANGED <<row, minted, tmp, inode, owner, fd, blob, sidecar, mirror,
                     due, reaping, overlap, raced, acked, begun>>
      /\ parted' = parted \/ parted' = parted \cup req[r].up
      /\ req[r].at \in {"cursor", "readMeta"} => req[r].up \subseteq parted'
  BY OciBlobsAssumption DEF HandlerThrows, Fault, Parts, sessionVars, fileVars,
     blobVars, reaperVars, sessionHist, BlobInv, TypeOK
<1>2. req[r].at \in {"open", "cursor", "hash", "dedupe", "rename", "readMeta"}
  BY DEF HandlerThrows
<1>3. req[r].op \in {"patch", "put", "store"} /\ fd[r] = NoFile
  BY <1>2, TypesApart DEF BlobInv, SetTypes, Ops, RequestShape, OpAndPlace,
     DeletePlaces, Idle
<1>4. parted \subseteq parted' /\ parted' \subseteq Uploads
  BY <1>1, TypesApart DEF BlobInv, TypeOK, SetTypes
<1>5. \A u \in req[r].up \ (overlap \cup parted') :
        Open(u) /\ row[u].bytes = FileLen(u)
  BY <1>1, <1>2, <1>4 DEF BlobInv, SessionProgress
<1> QED BY <1>1, <1>3, <1>4, <1>5, EndKeeps

LEMMA HashedKeeps ==
    ASSUME BlobInv, NEW r \in Requests, NEW u \in req[r].up, req[r].at = "hash",
           tmp[u] # NoFile,
           inode[tmp[u]] = req[r].digest,
           Goto(r, "dedupe"),
           UNCHANGED <<row, minted, tmp, inode, owner, fd, blob, sidecar,
           mirror, due, reaping, overlap, parted, raced, acked, crashes, begun>>
    PROVE  BlobInv'
<1> USE DEF BlobInv
<1>0. FileTypes /\ SetTypes
  BY TypesApart
<1>1. UNCHANGED <<row, minted, tmp, inode, owner, fd, blob, sidecar, mirror,
   due, reaping, overlap, parted, raced, acked, crashes, begun>>
  OBVIOUS
<1>2. /\ \A x \in Requests : x # r => req'[x] = req[x]
      /\ req[r].at = "hash"
      /\ req'[r].at = "dedupe"
      /\ req'[r].op = req[r].op
      /\ req'[r].up = req[r].up
      /\ req'[r].digest = req[r].digest
      /\ req'[r].chunk = req[r].chunk
      /\ req'[r].saw = req[r].saw
      /\ dubious' = dubious
  BY GotoEffect DEF Places
<1>3. req' \in [Requests -> Handlers]
  BY GotoEffect DEF Places
<1>4. req[r].up = {u} /\ req[r].op = "put"
  BY <1>0 DEF RequestShape, SessionOps, OpAndPlace, PatchPlaces,
     StorePlaces, DeletePlaces, Idle
<1>5. TypeOK'
  BY <1>0, <1>1, <1>2, <1>3, OciBlobsAssumption, NoContents DEF TypeOK
<1>6. NamesDiffer' /\ FreshIsUnused' /\ ContentAddressed' /\ SweepProgress'
  BY <1>1 DEF NamesDiffer, FreshIsUnused, Open, ContentAddressed,
     SweepProgress
<1>7. RequestShape'
  BY <1>1, <1>2 DEF RequestShape, OpAndPlace, SessionOps, PatchPlaces,
     PutPlaces, StorePlaces, DeletePlaces, Idle
<1>8. OpenFiles'
  BY <1>1, <1>2, <1>4, <1>0 DEF OpenFiles, RequestShape, OpAndPlace,
     SessionOps, PatchPlaces, PutPlaces, StorePlaces, DeletePlaces, Idle,
     NamesDiffer, Meetings, Storing
<1>9. Meetings'
  BY <1>1, <1>2, <1>4, <1>0 DEF Meetings, Storing
<1>10. HashedStays'
  BY <1>1, <1>2, <1>4, <1>0 DEF Names, HashedStays, RequestShape,
     OpAndPlace, SessionOps, PatchPlaces, PutPlaces, StorePlaces,
     DeletePlaces, Idle, NamesDiffer, OpenFiles, Meetings, Storing
<1>11. BytesFirst'
  BY <1>1, <1>2, <1>4, <1>0 DEF BytesFirst, OnDigest, Storing, RequestShape,
     OpAndPlace, SessionOps, PatchPlaces, PutPlaces, StorePlaces,
     DeletePlaces, Idle, Meetings
<1>12. StoredIsThere'
  BY <1>1, <1>2, <1>4, <1>0 DEF Names, StoredIsThere, AckedIsStored,
     MirrorHasBytes, OnDigest, RequestShape, OpAndPlace, SessionOps,
     PatchPlaces, PutPlaces, StorePlaces, DeletePlaces, Idle, Meetings,
     Storing, BytesFirst
<1>13. SessionProgress'
  BY <1>1, <1>2, <1>4, <1>0 DEF SessionProgress, FileLen, Open, RequestShape,
     OpAndPlace, SessionOps, PatchPlaces, PutPlaces, StorePlaces, DeletePlaces,
     Idle, NamesDiffer, OpenFiles, Meetings, Storing, SessionAgrees,
     CursorAgrees, Disturbed, NoTmpLeak, Quiet, OnSession, FreshIsUnused
<1>14. SessionAgrees'
  BY <1>1, <1>2, <1>4, <1>0 DEF SessionAgrees, CursorAgrees, Disturbed,
     NoTmpLeak, Quiet, OnSession, FileLen, Open, RequestShape, OpAndPlace,
     SessionOps, PatchPlaces, PutPlaces, StorePlaces, DeletePlaces, Idle,
     NamesDiffer, OpenFiles, Meetings, Storing, SessionProgress, SweepProgress,
     FreshIsUnused
<1> QED BY <1>5, <1>6, <1>7, <1>8, <1>9, <1>10, <1>11, <1>12, <1>13, <1>14

LEMMA HashAssembledKeeps ==
    ASSUME BlobInv, NEW r \in Requests, HashAssembled(r)
    PROVE  BlobInv'
<1>1. PICK u \in req[r].up : HashAssembled(r)!(u)
  BY DEF HashAssembled
<1>2. UNCHANGED <<row, minted, tmp, inode, owner, fd, blob, sidecar, mirror,
          due, reaping, overlap, parted, raced, acked, crashes, begun>>
  BY <1>1 DEF sessionVars, fileVars, blobVars, reaperVars, sessionHist
<1>3. CASE tmp[u] # NoFile /\ inode[tmp[u]] = req[r].digest
  BY <1>1, <1>2, <1>3, HashedKeeps
<1>4. CASE ~(tmp[u] # NoFile /\ inode[tmp[u]] = req[r].digest)
  <2>1. req[r].op \in SessionOps /\ fd[r] = NoFile
    BY <1>1 DEF BlobInv, RequestShape
  <2>2. \A v \in req[r].up \ (overlap \cup parted) :
          Open(v) /\ row[v].bytes = FileLen(v)
    BY <1>1 DEF BlobInv, SessionProgress
  <2>3. crashes \in 0..MaxCrashes /\ parted \subseteq Uploads
    BY DEF BlobInv, TypeOK
  <2> QED BY <1>1, <1>2, <1>4, <2>1, <2>2, <2>3, EndKeeps DEF SessionOps
<1> QED BY <1>3, <1>4

LEMMA DedupeKeeps ==
    ASSUME BlobInv, NEW r \in Requests, Dedupe(r)
    PROVE  BlobInv'
<1> USE DEF BlobInv
<1>0. FileTypes /\ SetTypes
  BY TypesApart
<1>1. UNCHANGED <<row, minted, tmp, inode, owner, fd, blob, sidecar, mirror,
   due, reaping, overlap, parted, raced, acked, crashes, begun>>
  BY DEF Dedupe, sessionVars, fileVars, blobVars, reaperVars, sessionHist
<1>2. /\ \A x \in Requests : x # r => req'[x] = req[x]
      /\ req[r].at = "dedupe"
      /\ req'[r].at = IF req[r].digest \in sidecar THEN "drop" ELSE "rename"
      /\ req'[r].op = req[r].op
      /\ req'[r].up = req[r].up
      /\ req'[r].digest = req[r].digest
      /\ req'[r].chunk = req[r].chunk
      /\ req'[r].saw = req[r].saw
      /\ dubious \subseteq dubious' /\ dubious' \subseteq dubious \cup {r}
      /\ \/ req[r].digest \notin sidecar \/ blob[req[r].digest] # NoFile
         \/ r \in dubious'
  BY MoveEffect DEF Dedupe, Places
<1>3. req' \in [Requests -> Handlers]
  BY MoveEffect DEF Dedupe, Places
<1>4. TypeOK'
  BY <1>0, <1>1, <1>2, <1>3, OciBlobsAssumption, NoContents DEF TypeOK
<1>5. NamesDiffer' /\ FreshIsUnused' /\ ContentAddressed' /\ SweepProgress'
  BY <1>1 DEF NamesDiffer, FreshIsUnused, Open, ContentAddressed,
     SweepProgress
<1>6. RequestShape'
  BY <1>1, <1>2 DEF RequestShape, OpAndPlace, SessionOps, PatchPlaces,
     PutPlaces, StorePlaces, DeletePlaces, Idle
<1>7. OpenFiles'
  BY <1>1, <1>2, <1>0 DEF OpenFiles, RequestShape, OpAndPlace, SessionOps,
     PatchPlaces, PutPlaces, StorePlaces, DeletePlaces, Idle, NamesDiffer,
     Meetings, Storing
<1>8. Meetings'
  BY <1>1, <1>2, <1>0 DEF Meetings, Storing
<1>9. HashedStays'
  BY <1>1, <1>2, <1>0 DEF Names, HashedStays, RequestShape, OpAndPlace,
     SessionOps, PatchPlaces, PutPlaces, StorePlaces, DeletePlaces, Idle,
     NamesDiffer, OpenFiles, Meetings, Storing
<1>10. BytesFirst'
  BY <1>1, <1>2, <1>0 DEF FileTypes, SetTypes, Names, BytesFirst, OnDigest,
     Storing, RequestShape, OpAndPlace, SessionOps, PatchPlaces, PutPlaces,
     StorePlaces, DeletePlaces, Idle, Meetings
<1>11. StoredIsThere'
  BY <1>1, <1>2, <1>0 DEF Names, StoredIsThere, AckedIsStored,
     MirrorHasBytes, OnDigest, RequestShape, OpAndPlace, SessionOps,
     PatchPlaces, PutPlaces, StorePlaces, DeletePlaces, Idle, Meetings,
     Storing, BytesFirst
<1>12. SessionProgress'
  BY <1>1, <1>2, <1>0 DEF SessionProgress, FileLen, Open, RequestShape,
     OpAndPlace, SessionOps, PatchPlaces, PutPlaces, StorePlaces, DeletePlaces,
     Idle, NamesDiffer, OpenFiles, Meetings, Storing, SessionAgrees,
     CursorAgrees, Disturbed, NoTmpLeak, Quiet, OnSession, FreshIsUnused
<1>13. SessionAgrees'
  BY <1>1, <1>2, <1>0 DEF SessionAgrees, CursorAgrees, Disturbed, NoTmpLeak,
     Quiet, OnSession, FileLen, Open, RequestShape, OpAndPlace, SessionOps,
     PatchPlaces, PutPlaces, StorePlaces, DeletePlaces, Idle, NamesDiffer,
     OpenFiles, Meetings, Storing, SessionProgress, SweepProgress,
     FreshIsUnused
<1> QED BY <1>4, <1>5, <1>6, <1>7, <1>8, <1>9, <1>10, <1>11, <1>12, <1>13

LEMMA DropTmpKeeps ==
    ASSUME BlobInv, NEW r \in Requests, DropTmp(r)
    PROVE  BlobInv'
<1> USE DEF BlobInv
<1>0. FileTypes /\ SetTypes
  BY TypesApart
<1>1. UNCHANGED <<row, minted, inode, owner, fd, blob, sidecar, mirror, due,
   reaping, overlap, parted, raced, acked, crashes, begun>>
  BY DEF DropTmp, fileVars, blobVars, reaperVars, sessionHist
<1>2. /\ \A x \in Requests : x # r => req'[x] = req[x]
      /\ req[r].at = "drop"
      /\ req'[r].at = IF req[r].op = "put" THEN "access" ELSE "record"
      /\ req'[r].op = req[r].op
      /\ req'[r].up = req[r].up
      /\ req'[r].digest = req[r].digest
      /\ req'[r].chunk = req[r].chunk
      /\ req'[r].saw = req[r].saw
      /\ dubious' = dubious
  BY GotoEffect DEF DropTmp, AfterFile, Places
<1>3. /\ \A u \in Uploads : u \in req[r].up => tmp'[u] = NoFile
      /\ \A u \in Uploads : u \notin req[r].up => tmp'[u] = tmp[u]
  BY DEF DropTmp
<1>4. req' \in [Requests -> Handlers] /\ FileTypes'
  BY <1>0, <1>1, GotoEffect DEF DropTmp, AfterFile, Places, FileTypes, Names
<1>5. TypeOK'
  BY <1>0, <1>1, <1>2, <1>4, OciBlobsAssumption, NoContents DEF TypeOK,
     FileTypes
<1>6. ContentAddressed'
  BY <1>1 DEF ContentAddressed
<1>7. RequestShape'
  BY <1>1, <1>2, <1>3 DEF RequestShape, OpAndPlace, SessionOps, PatchPlaces,
     PutPlaces, StorePlaces, DeletePlaces, Idle
<1>8. NamesDiffer'
  BY <1>1, <1>2, <1>3, <1>0 DEF NamesDiffer, OpenFiles
<1>9. OpenFiles'
  BY <1>1, <1>2, <1>3, <1>0 DEF OpenFiles, RequestShape, OpAndPlace,
     SessionOps, PatchPlaces, PutPlaces, StorePlaces, DeletePlaces, Idle,
     NamesDiffer, Meetings, Storing
<1>10. Meetings'
  BY <1>1, <1>2, <1>3, <1>0 DEF Meetings, Storing
<1>11. FreshIsUnused'
  BY <1>1, <1>2, <1>3, <1>0 DEF FreshIsUnused, Open, RequestShape,
     OpAndPlace, SessionOps, PatchPlaces, PutPlaces, StorePlaces,
     DeletePlaces, Idle
<1>12. HashedStays'
  BY <1>1, <1>2, <1>3, <1>0 DEF SetTypes, Names, HashedStays, RequestShape,
     OpAndPlace, SessionOps, PatchPlaces, PutPlaces, StorePlaces,
     DeletePlaces, Idle, NamesDiffer, OpenFiles, Meetings, Storing
<1>13. BytesFirst'
  BY <1>1, <1>2, <1>3, <1>0 DEF BytesFirst, OnDigest, Storing, RequestShape,
     OpAndPlace, SessionOps, PatchPlaces, PutPlaces, StorePlaces,
     DeletePlaces, Idle, Meetings
<1>14. StoredIsThere'
  BY <1>1, <1>2, <1>3, <1>0 DEF Names, StoredIsThere, AckedIsStored,
     MirrorHasBytes, OnDigest, RequestShape, OpAndPlace, SessionOps,
     PatchPlaces, PutPlaces, StorePlaces, DeletePlaces, Idle, Meetings,
     Storing, BytesFirst
<1>15. SessionProgress'
  BY <1>1, <1>2, <1>3, <1>0 DEF SetTypes, Names, SessionProgress, FileLen,
     Open, RequestShape, OpAndPlace, SessionOps, PatchPlaces, PutPlaces,
     StorePlaces, DeletePlaces, Idle, NamesDiffer, OpenFiles, Meetings,
     Storing, SessionAgrees, CursorAgrees, Disturbed, NoTmpLeak, Quiet,
     OnSession, FreshIsUnused
<1>16. SweepProgress'
  BY <1>1, <1>2, <1>3, <1>0 DEF SetTypes, Names, SweepProgress,
     RequestShape, OpAndPlace, SessionOps, PatchPlaces, PutPlaces,
     StorePlaces, DeletePlaces, Idle, Meetings, Storing
<1>17. SessionAgrees'
  BY <1>1, <1>2, <1>3, <1>0 DEF SessionAgrees, CursorAgrees, Disturbed,
     NoTmpLeak, Quiet, OnSession, FileLen, Open, RequestShape, OpAndPlace,
     SessionOps, PatchPlaces, PutPlaces, StorePlaces, DeletePlaces, Idle,
     NamesDiffer, OpenFiles, Meetings, Storing, SessionProgress, SweepProgress,
     FreshIsUnused
<1> QED BY <1>5, <1>6, <1>7, <1>8, <1>9, <1>10, <1>11, <1>12, <1>13, <1>14,
     <1>15, <1>16, <1>17

LEMMA PromotedKeeps ==
    ASSUME BlobInv, NEW r \in Requests, NEW u \in req[r].up,
           req[r].at = "rename",
           tmp[u] # NoFile,
           blob' = [blob EXCEPT ![req[r].digest] = tmp[u]],
           tmp' = [tmp EXCEPT ![u] = NoFile],
           Settled(req[r].digest),
           Goto(r, "meta"),
           UNCHANGED <<row, minted, inode, owner, fd, sidecar, mirror, due,
           reaping, overlap, parted, acked, crashes, begun>>
    PROVE  BlobInv'
<1> USE DEF BlobInv
<1>0. FileTypes /\ SetTypes
  BY TypesApart
<1>1. UNCHANGED <<row, minted, inode, owner, fd, sidecar, mirror, due,
   reaping, overlap, parted, acked, crashes, begun>>
  OBVIOUS
<1>2. /\ \A x \in Requests : x # r => req'[x] = req[x]
      /\ req[r].at = "rename"
      /\ req'[r].at = "meta"
      /\ req'[r].op = req[r].op
      /\ req'[r].up = req[r].up
      /\ req'[r].digest = req[r].digest
      /\ req'[r].chunk = req[r].chunk
      /\ req'[r].saw = req[r].saw
      /\ dubious' = dubious
  BY GotoEffect DEF Places
<1>3. u \in Uploads /\ req[r].up = {u} /\ req[r].op = "put"
  BY <1>0 DEF SetTypes, RequestShape, SessionOps, OpAndPlace, PatchPlaces,
     StorePlaces, DeletePlaces, Idle
<1>4. PICK i \in Inodes : i = tmp[u] /\ i # NoFile
  BY <1>0, <1>3 DEF FileTypes, Names
<1>5. PICK d \in Digests : d = req[r].digest
  BY <1>3 DEF RequestShape
<1>6. /\ blob'[d] = i /\ \A e \in Digests : e # d => blob'[e] = blob[e]
      /\ tmp'[u] = NoFile /\ \A v \in Uploads : v # u => tmp'[v] = tmp[v]
      /\ raced' \subseteq raced /\ raced \subseteq raced' \cup {d}
      /\ d \notin raced => raced' = raced
      /\ \/ raced' = raced
         \/ \A x \in Requests : req[x].op = "delete" => req[x].digest # d
  BY <1>0, <1>3, <1>4, <1>5 DEF FileTypes, Settled, OnDigest
<1>7. inode[i] = d \/ owner[i] \cap overlap # {}
  BY <1>2, <1>3, <1>4, <1>5 DEF HashedStays, NamesDiffer
<1>8. \A x \in Requests : fd[x] = i => req[x].up \subseteq overlap
  BY <1>2, <1>3, <1>4 DEF NamesDiffer, OpenFiles, Meetings, RequestShape
<1>9. req' \in [Requests -> Handlers] /\ FileTypes'
  BY <1>0, <1>1, <1>3, <1>4, <1>5, GotoEffect DEF FileTypes, Places, Names
<1>10. TypeOK'
  BY <1>0, <1>1, <1>2, <1>6, <1>9, OciBlobsAssumption, NoContents DEF TypeOK,
     FileTypes
<1>11. RequestShape'
  BY <1>1, <1>2 DEF RequestShape, OpAndPlace, SessionOps, PatchPlaces,
     PutPlaces, StorePlaces, DeletePlaces, Idle
<1>12. NamesDiffer'
  BY <1>1, <1>2, <1>3, <1>4, <1>5, <1>6, <1>7, <1>8, <1>0 DEF NamesDiffer,
     OpenFiles
<1>13. OpenFiles'
  BY <1>1, <1>2, <1>3, <1>4, <1>5, <1>6, <1>7, <1>8, <1>0 DEF OpenFiles,
     RequestShape, OpAndPlace, SessionOps, PatchPlaces, PutPlaces,
     StorePlaces, DeletePlaces, Idle, NamesDiffer, Meetings, Storing
<1>14. Meetings'
  BY <1>1, <1>2, <1>3, <1>4, <1>5, <1>6, <1>7, <1>8, <1>0 DEF Meetings,
     Storing
<1>15. FreshIsUnused'
  BY <1>1, <1>2, <1>3, <1>4, <1>5, <1>6, <1>7, <1>8, <1>0 DEF FreshIsUnused,
     Open, RequestShape, OpAndPlace, SessionOps, PatchPlaces, PutPlaces,
     StorePlaces, DeletePlaces, Idle
<1>16. HashedStays'
  BY <1>1, <1>2, <1>3, <1>4, <1>5, <1>6, <1>7, <1>8, <1>0 DEF Names,
     HashedStays, RequestShape, OpAndPlace, SessionOps, PatchPlaces,
     PutPlaces, StorePlaces, DeletePlaces, Idle, NamesDiffer, OpenFiles,
     Meetings, Storing
<1>17. ContentAddressed'
  BY <1>1, <1>2, <1>3, <1>4, <1>5, <1>6, <1>7, <1>8, <1>0 DEF
     ContentAddressed, RequestShape, OpAndPlace, SessionOps, PatchPlaces,
     PutPlaces, StorePlaces, DeletePlaces, Idle, NamesDiffer, OpenFiles,
     HashedStays
<1>18. BytesFirst'
  BY <1>1, <1>2, <1>3, <1>4, <1>5, <1>6, <1>7, <1>8, <1>0 DEF FileTypes,
     SetTypes, Names, BytesFirst, OnDigest, Storing, RequestShape,
     OpAndPlace, SessionOps, PatchPlaces, PutPlaces, StorePlaces,
     DeletePlaces, Idle, Meetings
<1>19. StoredIsThere'
  BY <1>1, <1>2, <1>3, <1>4, <1>5, <1>6, <1>7, <1>8, <1>0 DEF FileTypes,
     SetTypes, Names, StoredIsThere, AckedIsStored, MirrorHasBytes,
     OnDigest, RequestShape, OpAndPlace, SessionOps, PatchPlaces, PutPlaces,
     StorePlaces, DeletePlaces, Idle, Meetings, Storing, BytesFirst
<1>20. SessionProgress'
  BY <1>1, <1>2, <1>3, <1>4, <1>5, <1>6, <1>7, <1>8, <1>0 DEF SessionProgress,
     FileLen, Open, RequestShape, OpAndPlace, SessionOps, PatchPlaces,
     PutPlaces, StorePlaces, DeletePlaces, Idle, NamesDiffer, OpenFiles,
     Meetings, Storing, SessionAgrees, CursorAgrees, Disturbed, NoTmpLeak,
     Quiet, OnSession, FreshIsUnused
<1>21. SweepProgress'
  BY <1>1, <1>2, <1>3, <1>4, <1>5, <1>6, <1>7, <1>8, <1>0 DEF SweepProgress,
     RequestShape, OpAndPlace, SessionOps, PatchPlaces, PutPlaces,
     StorePlaces, DeletePlaces, Idle, Meetings, Storing
<1>22. SessionAgrees'
  BY <1>1, <1>2, <1>3, <1>4, <1>5, <1>6, <1>7, <1>8 DEF SessionAgrees,
     CursorAgrees, Disturbed, NoTmpLeak, Quiet, OnSession, FileLen, Open
<1> QED BY <1>10, <1>11, <1>12, <1>13, <1>14, <1>15, <1>16, <1>17, <1>18,
     <1>19, <1>20, <1>21, <1>22

LEMMA PromoteKeeps ==
    ASSUME BlobInv, NEW r \in Requests, Promote(r)
    PROVE  BlobInv'
<1>1. PICK u \in req[r].up : Promote(r)!(u)
  BY DEF Promote
<1>2. UNCHANGED <<row, minted, inode, owner, fd, sidecar, mirror, due, reaping,
          overlap, parted, acked, crashes, begun>>
  BY <1>1 DEF fileVars, reaperVars, sessionHist
<1>3. CASE tmp[u] # NoFile
  BY <1>1, <1>2, <1>3, PromotedKeeps
<1>4. CASE tmp[u] = NoFile
  <2>1. req[r].op \in SessionOps /\ fd[r] = NoFile
    BY <1>1 DEF BlobInv, RequestShape
  <2>2. \A v \in req[r].up \ (overlap \cup parted) :
          Open(v) /\ row[v].bytes = FileLen(v)
    BY <1>1 DEF BlobInv, SessionProgress
  <2>3. crashes \in 0..MaxCrashes /\ parted \subseteq Uploads
    BY DEF BlobInv, TypeOK
  <2> QED BY <1>1, <1>2, <1>4, <2>1, <2>2, <2>3, EndKeeps DEF SessionOps
<1> QED BY <1>3, <1>4

LEMMA StoreRenameKeeps ==
    ASSUME BlobInv, NEW r \in Requests, StoreRename(r)
    PROVE  BlobInv'
<1> USE DEF BlobInv
<1>0. FileTypes /\ SetTypes
  BY TypesApart
<1>1. UNCHANGED <<row, minted, tmp, fd, sidecar, mirror, due, reaping,
   overlap, parted, acked, crashes, begun>>
  BY DEF StoreRename, sessionVars, fileVars, blobVars, reaperVars, sessionHist
<1>2. /\ \A x \in Requests : x # r => req'[x] = req[x]
      /\ req[r].at = "rename"
      /\ req'[r].at = "meta"
      /\ req[r].op = "store" /\ req[r].up = {}
      /\ req'[r].op = req[r].op
      /\ req'[r].up = req[r].up
      /\ req'[r].digest = req[r].digest
      /\ req'[r].chunk = req[r].chunk
      /\ req'[r].saw = req[r].saw
      /\ dubious' = dubious
  BY GotoEffect DEF StoreRename, Places, RequestShape, SessionOps
<1>3. PICK d \in Digests : d = req[r].digest
  BY <1>2 DEF RequestShape
<1>4. PICK i \in Inodes :
        /\ i \notin InUse
        /\ inode' = [inode EXCEPT ![i] = d]
        /\ owner' = [owner EXCEPT ![i] = {}]
        /\ blob' = [blob EXCEPT ![d] = i]
  BY <1>3 DEF StoreRename, Free
<1>5. /\ i # NoFile
      /\ blob'[d] = i /\ \A e \in Digests : e # d => blob'[e] = blob[e]
      /\ inode'[i] = d
      /\ \A k \in Inodes : k # i => inode'[k] = inode[k] /\ owner'[k] = owner[k]
      /\ raced' \subseteq raced /\ raced \subseteq raced' \cup {d}
      /\ \/ raced' = raced
         \/ \A x \in Requests : req[x].op = "delete" => req[x].digest # d
  BY <1>0, <1>3, <1>4, OciBlobsAssumption DEF FileTypes, Inodes, NoFile,
     StoreRename, Settled, OnDigest
<1>6. /\ \A v \in Uploads : tmp[v] # i
      /\ \A e \in Digests : blob[e] # i
      /\ \A x \in Requests : fd[x] # i
  BY <1>4 DEF InUse
<1>7. \A v \in Uploads : FileLen(v)' = FileLen(v)
  BY <1>0, <1>1, <1>5, <1>6 DEF FileLen, FileTypes, Names
<1>8. req' \in [Requests -> Handlers] /\ FileTypes'
  BY <1>0, <1>1, <1>4, GotoEffect DEF StoreRename, FileTypes, Places, Names,
     Digests
<1>9. TypeOK'
  BY <1>0, <1>1, <1>2, <1>5, <1>8, OciBlobsAssumption, NoContents DEF TypeOK,
     FileTypes
<1>10. FreshIsUnused' /\ SweepProgress'
  BY <1>1 DEF FreshIsUnused, Open, SweepProgress
<1>11. RequestShape'
  BY <1>1, <1>2, <1>3, <1>5, <1>6, <1>7 DEF RequestShape, OpAndPlace,
     SessionOps, PatchPlaces, PutPlaces, StorePlaces, DeletePlaces, Idle
<1>12. NamesDiffer'
  BY <1>1, <1>2, <1>3, <1>5, <1>6, <1>7, <1>0 DEF FileTypes, Names,
     NamesDiffer, OpenFiles
<1>13. OpenFiles'
  BY <1>1, <1>2, <1>3, <1>5, <1>6, <1>7, <1>0 DEF FileTypes, SetTypes,
     Names, OpenFiles, RequestShape, OpAndPlace, SessionOps, PatchPlaces,
     PutPlaces, StorePlaces, DeletePlaces, Idle, NamesDiffer, Meetings,
     Storing
<1>14. Meetings'
  BY <1>1, <1>2, <1>3, <1>5, <1>6, <1>7, <1>0 DEF Meetings, Storing
<1>15. HashedStays'
  BY <1>1, <1>2, <1>3, <1>5, <1>6, <1>7, <1>0 DEF FileTypes, SetTypes,
     Names, HashedStays, RequestShape, OpAndPlace, SessionOps, PatchPlaces,
     PutPlaces, StorePlaces, DeletePlaces, Idle, NamesDiffer, OpenFiles,
     Meetings, Storing
<1>16. ContentAddressed'
  BY <1>1, <1>2, <1>3, <1>5, <1>6, <1>7, <1>0 DEF FileTypes, SetTypes,
     Names, ContentAddressed, RequestShape, OpAndPlace, SessionOps,
     PatchPlaces, PutPlaces, StorePlaces, DeletePlaces, Idle, NamesDiffer,
     OpenFiles, HashedStays
<1>17. BytesFirst'
  BY <1>1, <1>2, <1>3, <1>5, <1>6, <1>7, <1>0 DEF SetTypes, BytesFirst,
     OnDigest, Storing, RequestShape, OpAndPlace, SessionOps, PatchPlaces,
     PutPlaces, StorePlaces, DeletePlaces, Idle
<1>18. StoredIsThere'
  BY <1>1, <1>2, <1>3, <1>5, <1>6, <1>7, <1>0 DEF SetTypes, Names,
     StoredIsThere, AckedIsStored, MirrorHasBytes, OnDigest, RequestShape,
     OpAndPlace, SessionOps, PatchPlaces, PutPlaces, StorePlaces,
     DeletePlaces, Idle, Meetings, Storing, BytesFirst
<1>19. SessionProgress'
  BY <1>1, <1>2, <1>3, <1>5, <1>6, <1>7, <1>0 DEF SetTypes, Names,
     SessionProgress, Open, RequestShape, OpAndPlace, SessionOps, PatchPlaces,
     PutPlaces, StorePlaces, DeletePlaces, Idle, NamesDiffer, OpenFiles,
     Meetings, Storing, SessionAgrees, CursorAgrees, Disturbed, NoTmpLeak,
     Quiet, OnSession, FreshIsUnused
<1>20. SessionAgrees'
  BY <1>1, <1>2, <1>3, <1>5, <1>6, <1>7, <1>0 DEF SessionAgrees,
     CursorAgrees, Disturbed, NoTmpLeak, Quiet, OnSession, Open, RequestShape,
     OpAndPlace, SessionOps, PatchPlaces, PutPlaces, StorePlaces,
     DeletePlaces, Idle, NamesDiffer, OpenFiles, Meetings, Storing,
     SessionProgress, SweepProgress, FreshIsUnused
<1> QED BY <1>9, <1>10, <1>11, <1>12, <1>13, <1>14, <1>15, <1>16, <1>17,
     <1>18, <1>19, <1>20

LEMMA WriteMetaKeeps ==
    ASSUME BlobInv, NEW r \in Requests, WriteMeta(r)
    PROVE  BlobInv'
<1> USE DEF BlobInv
<1>0. FileTypes /\ SetTypes
  BY TypesApart
<1>1. UNCHANGED <<row, minted, tmp, inode, owner, fd, blob, mirror, due,
   reaping, overlap, parted, raced, acked, crashes, begun>>
  BY DEF WriteMeta, sessionVars, fileVars, blobVars, reaperVars, sessionHist
<1>2. /\ \A x \in Requests : x # r => req'[x] = req[x]
      /\ req[r].at = "meta"
      /\ req'[r].at = IF req[r].op = "put" THEN "access" ELSE "record"
      /\ req'[r].op = req[r].op
      /\ req'[r].up = req[r].up
      /\ req'[r].digest = req[r].digest
      /\ req'[r].chunk = req[r].chunk
      /\ req'[r].saw = req[r].saw
      /\ dubious' = dubious
  BY GotoEffect DEF WriteMeta, AfterFile, Places
<1>3. req[r].op \in Storing /\ req[r].digest \in Digests
  BY <1>0, <1>2 DEF SetTypes, Ops, Storing, RequestShape, OpAndPlace,
     PatchPlaces, DeletePlaces, Idle
<1>4. sidecar' = sidecar \cup {req[r].digest}
  BY DEF WriteMeta
<1>5. req' \in [Requests -> Handlers]
  BY GotoEffect DEF WriteMeta, AfterFile, Places
<1>6. TypeOK'
  BY <1>0, <1>1, <1>2, <1>3, <1>4, <1>5, OciBlobsAssumption, NoContents DEF
     TypeOK
<1>7. NamesDiffer' /\ FreshIsUnused' /\ ContentAddressed' /\ SweepProgress'
  BY <1>1 DEF NamesDiffer, FreshIsUnused, Open, ContentAddressed,
     SweepProgress
<1>8. RequestShape'
  BY <1>1, <1>2, <1>3, <1>4 DEF RequestShape, OpAndPlace, SessionOps,
     PatchPlaces, PutPlaces, StorePlaces, DeletePlaces, Idle
<1>9. OpenFiles'
  BY <1>1, <1>2, <1>3, <1>4, <1>0 DEF OpenFiles, RequestShape, OpAndPlace,
     SessionOps, PatchPlaces, PutPlaces, StorePlaces, DeletePlaces, Idle,
     NamesDiffer, Meetings, Storing
<1>10. Meetings'
  BY <1>1, <1>2, <1>3, <1>4, <1>0 DEF Meetings, Storing
<1>11. HashedStays'
  BY <1>1, <1>2, <1>3, <1>4, <1>0 DEF Names, HashedStays, RequestShape,
     OpAndPlace, SessionOps, PatchPlaces, PutPlaces, StorePlaces,
     DeletePlaces, Idle, NamesDiffer, OpenFiles, Meetings, Storing
<1>12. BytesFirst'
  BY <1>1, <1>2, <1>3, <1>4, <1>0 DEF BytesFirst, OnDigest, Storing,
     RequestShape, OpAndPlace, SessionOps, PatchPlaces, PutPlaces,
     StorePlaces, DeletePlaces, Idle, Meetings
<1>13. StoredIsThere'
  BY <1>1, <1>2, <1>3, <1>4, <1>0 DEF Names, StoredIsThere, AckedIsStored,
     MirrorHasBytes, OnDigest, RequestShape, OpAndPlace, SessionOps,
     PatchPlaces, PutPlaces, StorePlaces, DeletePlaces, Idle, Meetings,
     Storing, BytesFirst
<1>14. SessionProgress'
  BY <1>1, <1>2, <1>3, <1>4, <1>0 DEF SessionProgress, FileLen, Open,
     RequestShape, OpAndPlace, SessionOps, PatchPlaces, PutPlaces, StorePlaces,
     DeletePlaces, Idle, NamesDiffer, OpenFiles, Meetings, Storing,
     SessionAgrees, CursorAgrees, Disturbed, NoTmpLeak, Quiet, OnSession,
     FreshIsUnused
<1>15. SessionAgrees'
  BY <1>1, <1>2, <1>3, <1>4, <1>0 DEF SessionAgrees, CursorAgrees, Disturbed,
     NoTmpLeak, Quiet, OnSession, FileLen, Open, RequestShape, OpAndPlace,
     SessionOps, PatchPlaces, PutPlaces, StorePlaces, DeletePlaces, Idle,
     NamesDiffer, OpenFiles, Meetings, Storing, SessionProgress,
     SweepProgress, FreshIsUnused
<1> QED BY <1>6, <1>7, <1>8, <1>9, <1>10, <1>11, <1>12, <1>13, <1>14, <1>15

\* The sidecar is not written; the file has its name all the same.
LEMMA WriteMetaFailsKeeps ==
    ASSUME BlobInv, NEW r \in Requests, WriteMetaFails(r)
    PROVE  BlobInv'
<1>1. /\ End(r) /\ crashes' \in 0..MaxCrashes /\ req[r].at = "meta"
      /\ UNCHANGED <<row, minted, tmp, inode, owner, fd, blob, sidecar, mirror,
                     due, reaping, overlap, raced, acked, begun>>
      /\ parted' = parted \cup req[r].up
  BY OciBlobsAssumption DEF WriteMetaFails, Fault, Parts, sessionVars, fileVars,
     blobVars, reaperVars, BlobInv, TypeOK
<1>2. req[r].op \in {"patch", "put", "store"} /\ fd[r] = NoFile
  BY <1>1, TypesApart DEF BlobInv, SetTypes, Ops, RequestShape, OpAndPlace,
     DeletePlaces, Idle
<1>3. parted \subseteq parted' /\ parted' \subseteq Uploads
  BY <1>1, TypesApart DEF BlobInv, TypeOK, SetTypes
<1> QED BY <1>1, <1>2, <1>3, EndKeeps

\* PUT and putBlob answer: the blob is in the mirror, the session is gone.
LEMMA AnsweredKeeps ==
    ASSUME BlobInv, NEW r \in Requests, req[r].op \in Storing,
           req[r].at \in {"access", "record"},
           End(r),
           mirror \subseteq mirror',
           mirror' \subseteq mirror \cup {req[r].digest},
           row' = [u \in Uploads |-> IF u \in req[r].up THEN NoRow ELSE
           row[u]],
           acked' = acked \cup {d \in {req[r].digest} : r \notin dubious},
           req[r].at = "access" => mirror' = mirror,
           crashes' \in 0..MaxCrashes,
           UNCHANGED <<minted, tmp, inode, owner, fd, blob, sidecar, due,
           reaping, overlap, parted, raced, begun>>
    PROVE  BlobInv'
<1> USE DEF BlobInv
<1>0. FileTypes /\ SetTypes
  BY TypesApart
<1>1. UNCHANGED <<minted, tmp, inode, owner, fd, blob, sidecar, due,
   reaping, overlap, parted, raced, begun>>
  OBVIOUS
<1>2. /\ \A x \in Requests : x # r => req'[x] = req[x]
      /\ req'[r] = Idle
      /\ req'[r].op = "idle" /\ req'[r].at = "idle" /\ req'[r].up = {}
      /\ dubious' = dubious \ {r}
  BY EndEffect
<1>3. PICK d \in Digests : d = req[r].digest
  BY DEF RequestShape, Storing
<1>4. /\ blob[d] # NoFile \/ d \in raced
      /\ blob[d] # NoFile \/ r \in dubious
  BY <1>3 DEF BytesFirst
<1>5. /\ mirror \subseteq mirror' /\ mirror' \subseteq mirror \cup {d}
      /\ acked \subseteq acked' /\ acked' \subseteq acked \cup {d}
      /\ r \in dubious => acked' = acked
  BY <1>3
<1>6. /\ \A u \in Uploads : u \in req[r].up => row'[u].state = "none"
      /\ \A u \in Uploads : u \notin req[r].up => row'[u] = row[u]
  BY DEF NoRow
<1>7. \A u \in req[r].up \ (overlap \cup parted) : tmp[u] = NoFile
  BY DEF SessionProgress
<1>8. \A v \in Uploads : FileLen(v)' = FileLen(v)
  BY DEF FileLen
<1>9. \A v \in Uploads : Quiet(v) \/ v \in req[r].up \/ ~Quiet(v)'
  BY <1>2 DEF Quiet, OnSession
<1>10. req' \in [Requests -> Handlers] /\ row' \in [Uploads -> [state :
           {"none", "live", "expired"}, bytes : Nat]]
  BY EndEffect DEF TypeOK, NoRow
<1>11. TypeOK'
  BY <1>0, <1>1, <1>2, <1>3, <1>5, <1>10, OciBlobsAssumption, NoContents DEF
     TypeOK
<1>12. NamesDiffer' /\ ContentAddressed' /\ SweepProgress'
  BY <1>1 DEF NamesDiffer, ContentAddressed, SweepProgress
<1>13. RequestShape'
  BY <1>1, <1>2, <1>3, <1>4, <1>5, <1>6, <1>7, <1>8, <1>9 DEF RequestShape,
     OpAndPlace, SessionOps, PatchPlaces, PutPlaces, StorePlaces,
     DeletePlaces, Idle
<1>14. OpenFiles'
  BY <1>1, <1>2, <1>3, <1>4, <1>5, <1>6, <1>7, <1>8, <1>9, <1>0 DEF
     OpenFiles, RequestShape, OpAndPlace, SessionOps, PatchPlaces,
     PutPlaces, StorePlaces, DeletePlaces, Idle, NamesDiffer, Meetings,
     Storing
<1>15. Meetings'
  BY <1>1, <1>2, <1>3, <1>4, <1>5, <1>6, <1>7, <1>8, <1>9, <1>0 DEF
     Meetings, Storing
<1>16. FreshIsUnused'
  BY <1>1, <1>2, <1>3, <1>4, <1>5, <1>6, <1>7, <1>8, <1>9, <1>0 DEF
     FreshIsUnused, Open, RequestShape, OpAndPlace, SessionOps, PatchPlaces,
     PutPlaces, StorePlaces, DeletePlaces, Idle
<1>17. HashedStays'
  BY <1>1, <1>2, <1>3, <1>4, <1>5, <1>6, <1>7, <1>8, <1>9, <1>0 DEF Names,
     HashedStays, RequestShape, OpAndPlace, SessionOps, PatchPlaces,
     PutPlaces, StorePlaces, DeletePlaces, Idle, NamesDiffer, OpenFiles,
     Meetings, Storing
<1>18. BytesFirst'
  BY <1>1, <1>2, <1>3, <1>4, <1>5, <1>6, <1>7, <1>8, <1>9, <1>0 DEF
     BytesFirst, OnDigest, Storing, RequestShape, OpAndPlace, SessionOps,
     PatchPlaces, PutPlaces, StorePlaces, DeletePlaces, Idle, Meetings
<1>19. StoredIsThere'
  <2>1. blob[d] # NoFile \/ OnDigest(d, {"delete"}) # {} \/ d \in raced
    BY <1>4
  <2>2. \A e \in Digests : OnDigest(e, {"delete"})' = OnDigest(e, {"delete"})
    BY <1>2, <1>3 DEF OnDigest, Storing
  <2> QED BY <1>0, <1>1, <1>4, <1>5, <2>1, <2>2 DEF SetTypes, StoredIsThere,
       AckedIsStored, MirrorHasBytes
<1>20. SessionProgress'
  BY <1>1, <1>2, <1>3, <1>4, <1>5, <1>6, <1>7, <1>8, <1>9, <1>0 DEF SetTypes,
     Names, SessionProgress, Open, RequestShape, OpAndPlace, SessionOps,
     PatchPlaces, PutPlaces, StorePlaces, DeletePlaces, Idle, NamesDiffer,
     OpenFiles, Meetings, Storing, SessionAgrees, CursorAgrees, Disturbed,
     NoTmpLeak, FreshIsUnused
<1>21. SessionAgrees'
  BY <1>1, <1>2, <1>3, <1>4, <1>5, <1>6, <1>7, <1>8, <1>9, <1>0 DEF Names,
     SessionAgrees, CursorAgrees, Disturbed, NoTmpLeak, Open, RequestShape,
     OpAndPlace, SessionOps, PatchPlaces, PutPlaces, StorePlaces, DeletePlaces,
     Idle, NamesDiffer, OpenFiles, Meetings, Storing, SessionProgress,
     SweepProgress, FreshIsUnused
<1> QED BY <1>11, <1>12, <1>13, <1>14, <1>15, <1>16, <1>17, <1>18, <1>19,
     <1>20, <1>21

LEMMA MovedOnKeeps ==
    ASSUME BlobInv, NEW r \in Requests,
           req[r].at \in {"drop", "access", "readMeta"},
           NEW loc \in {"access", "readMeta", "record"},
           req[r].op = "store" => loc = "record",
           Goto(r, loc),
           req[r].at = "drop" => req[r].up \subseteq parted',
           parted \subseteq parted', parted' \subseteq Uploads,
           crashes' \in 0..MaxCrashes,
           UNCHANGED <<row, minted, tmp, inode, owner, fd, blob, sidecar,
           mirror, due, reaping, overlap, raced, acked, begun>>
    PROVE  BlobInv'
<1> USE DEF BlobInv
<1>0. FileTypes /\ SetTypes
  BY TypesApart
<1>1. /\ UNCHANGED <<row, minted, tmp, inode, owner, fd, blob, sidecar,
         mirror, due, reaping, overlap, raced, acked, begun>>
      /\ parted \subseteq parted' /\ parted' \subseteq Uploads
      /\ req[r].at = "drop" => req[r].up \subseteq parted'
  OBVIOUS
<1>2. /\ \A x \in Requests : x # r => req'[x] = req[x]
      /\ req[r].at \in {"drop", "access", "readMeta"}
      /\ req'[r].at = loc /\ loc \in {"access", "readMeta", "record"}
      /\ req[r].op = "store" => loc = "record"
      /\ req'[r].op = req[r].op
      /\ req'[r].up = req[r].up
      /\ req'[r].digest = req[r].digest
      /\ req'[r].chunk = req[r].chunk
      /\ req'[r].saw = req[r].saw
      /\ dubious' = dubious
  BY GotoEffect DEF Places
<1>3. req' \in [Requests -> Handlers]
  BY GotoEffect DEF Places
<1>4. TypeOK'
  BY <1>0, <1>1, <1>2, <1>3, OciBlobsAssumption, NoContents DEF TypeOK
<1>5. NamesDiffer' /\ FreshIsUnused' /\ ContentAddressed' /\ SweepProgress'
  BY <1>1 DEF NamesDiffer, FreshIsUnused, Open, ContentAddressed,
     SweepProgress
<1>6. RequestShape'
  BY <1>1, <1>2 DEF RequestShape, OpAndPlace, SessionOps, PatchPlaces,
     PutPlaces, StorePlaces, DeletePlaces, Idle
<1>7. OpenFiles'
  BY <1>1, <1>2, <1>0 DEF OpenFiles, RequestShape, OpAndPlace, SessionOps,
     PatchPlaces, PutPlaces, StorePlaces, DeletePlaces, Idle, NamesDiffer,
     Meetings, Storing
<1>8. Meetings'
  BY <1>1, <1>2, <1>0 DEF Meetings, Storing
<1>9. HashedStays'
  BY <1>1, <1>2, <1>0 DEF Names, HashedStays, RequestShape, OpAndPlace,
     SessionOps, PatchPlaces, PutPlaces, StorePlaces, DeletePlaces, Idle,
     NamesDiffer, OpenFiles, Meetings, Storing
<1>10. BytesFirst'
  BY <1>1, <1>2, <1>0 DEF BytesFirst, OnDigest, Storing, RequestShape,
     OpAndPlace, SessionOps, PatchPlaces, PutPlaces, StorePlaces,
     DeletePlaces, Idle, Meetings
<1>11. StoredIsThere'
  BY <1>1, <1>2, <1>0 DEF Names, StoredIsThere, AckedIsStored,
     MirrorHasBytes, OnDigest, RequestShape, OpAndPlace, SessionOps,
     PatchPlaces, PutPlaces, StorePlaces, DeletePlaces, Idle, Meetings,
     Storing, BytesFirst
<1>12. SessionProgress'
  BY <1>1, <1>2, <1>0 DEF SessionProgress, FileLen, Open, RequestShape,
     OpAndPlace, SessionOps, PatchPlaces, PutPlaces, StorePlaces, DeletePlaces,
     Idle, NamesDiffer, OpenFiles, Meetings, Storing, SessionAgrees,
     CursorAgrees, Disturbed, NoTmpLeak, Quiet, OnSession, FreshIsUnused
<1>13. SessionAgrees'
  BY <1>1, <1>2, <1>0 DEF SessionAgrees, CursorAgrees, Disturbed, NoTmpLeak,
     Quiet, OnSession, FileLen, Open, RequestShape, OpAndPlace, SessionOps,
     PatchPlaces, PutPlaces, StorePlaces, DeletePlaces, Idle, NamesDiffer,
     OpenFiles, Meetings, Storing, SessionProgress, SweepProgress,
     FreshIsUnused
<1> QED BY <1>4, <1>5, <1>6, <1>7, <1>8, <1>9, <1>10, <1>11, <1>12, <1>13

\* A tmp file that is not needed and stays.
LEMMA DropTmpFailsKeeps ==
    ASSUME BlobInv, NEW r \in Requests, DropTmpFails(r)
    PROVE  BlobInv'
<1>1. /\ Goto(r, AfterFile(r)) /\ crashes' \in 0..MaxCrashes
      /\ req[r].at = "drop"
      /\ UNCHANGED <<row, minted, tmp, inode, owner, fd, blob, sidecar, mirror,
                     due, reaping, overlap, raced, acked, begun>>
      /\ parted' = parted \cup req[r].up
  BY OciBlobsAssumption DEF DropTmpFails, Fault, Parts, sessionVars, fileVars,
     blobVars, reaperVars, BlobInv, TypeOK
<1>2. /\ AfterFile(r) \in {"access", "readMeta", "record"}
      /\ req[r].op = "store" => AfterFile(r) = "record"
  BY DEF AfterFile
<1>3. parted \subseteq parted' /\ parted' \subseteq Uploads
  BY <1>1, TypesApart DEF BlobInv, TypeOK, SetTypes
<1> QED BY <1>1, <1>2, <1>3, MovedOnKeeps

LEMMA AccessFailsKeeps ==
    ASSUME BlobInv, NEW r \in Requests, AccessFails(r)
    PROVE  BlobInv'
<1>1. /\ req[r].at = "access" /\ crashes' \in 0..MaxCrashes
      /\ UNCHANGED <<minted, tmp, inode, owner, fd, blob, sidecar, due, reaping,
                     overlap, parted, raced, begun>>
  BY OciBlobsAssumption DEF AccessFails, Fault, fileVars, reaperVars,
     sessionHist, BlobInv, TypeOK
<1>2. req[r].op \in Storing
  BY <1>1, TypesApart DEF BlobInv, SetTypes, Ops, Storing, RequestShape,
     OpAndPlace, PatchPlaces, DeletePlaces, Idle
<1> QED BY <1>1, <1>2, AnsweredKeeps DEF AccessFails, Answer

LEMMA AccessKeeps ==
    ASSUME BlobInv, NEW r \in Requests, Access(r)
    PROVE  BlobInv'
<1>1. req[r].at = "access" /\ UNCHANGED <<minted, tmp, inode, owner, fd, blob,
          sidecar, due, reaping, overlap, parted, raced, crashes, begun>>
  BY DEF Access, fileVars, reaperVars, sessionHist
<1>2. CASE blob[req[r].digest] # NoFile
  <2>1. req[r].op # "store" /\ crashes \in 0..MaxCrashes /\ parted \subseteq Uploads
    BY <1>1 DEF BlobInv, TypeOK, RequestShape, OpAndPlace, StorePlaces
  <2> QED BY <1>1, <1>2, <2>1, MovedOnKeeps DEF Access
<1>3. CASE blob[req[r].digest] = NoFile
  <2>1. req[r].op \in Storing
    BY <1>1, TypesApart DEF BlobInv, SetTypes, Ops, Storing, RequestShape,
       OpAndPlace, PatchPlaces, DeletePlaces, Idle
  <2>2. crashes \in 0..MaxCrashes
    BY DEF BlobInv, TypeOK
  <2> QED BY <1>1, <1>3, <2>1, <2>2, AnsweredKeeps DEF Access, Answer
<1> QED BY <1>2, <1>3

LEMMA ReadMetaKeeps ==
    ASSUME BlobInv, NEW r \in Requests, ReadMeta(r)
    PROVE  BlobInv'
<1>1. req[r].at = "readMeta" /\ UNCHANGED <<row, minted, tmp, inode, owner, fd,
          blob, sidecar, mirror, due, reaping, overlap, raced, acked,
          crashes, begun>>
  BY DEF ReadMeta, sessionVars, fileVars, blobVars, reaperVars, sessionHist,
     Parts
<1>2. CASE Goto(r, "record") /\ UNCHANGED sessionHist
  <2>1. crashes \in 0..MaxCrashes /\ parted \subseteq Uploads
    BY DEF BlobInv, TypeOK
  <2> QED BY <1>1, <1>2, <2>1, MovedOnKeeps DEF sessionHist
<1>3. CASE End(r) /\ Parts(r)
  <2>1. req[r].op \in SessionOps /\ fd[r] = NoFile
    BY <1>1, TypesApart DEF BlobInv, SetTypes, Ops, SessionOps,
       RequestShape, OpAndPlace, StorePlaces, DeletePlaces, Idle
  <2>2. /\ req[r].up \ (overlap \cup parted') = {}
        /\ parted \subseteq parted' /\ parted' \subseteq Uploads
        /\ crashes \in 0..MaxCrashes
    BY <1>3, TypesApart DEF BlobInv, TypeOK, SetTypes, Parts
  <2> QED BY <1>1, <1>3, <2>1, <2>2, EndKeeps DEF SessionOps
<1> QED BY <1>2, <1>3 DEF ReadMeta

LEMMA RecordKeeps ==
    ASSUME BlobInv, NEW r \in Requests, Record(r)
    PROVE  BlobInv'
<1>1. req[r].at = "record" /\ UNCHANGED <<minted, tmp, inode, owner, fd, blob,
          sidecar, due, reaping, overlap, parted, raced, crashes, begun>>
  BY DEF Record, fileVars, reaperVars, sessionHist
<1>2. req[r].op \in Storing
  BY <1>1, TypesApart DEF BlobInv, SetTypes, Ops, Storing, RequestShape,
     OpAndPlace, PatchPlaces, DeletePlaces, Idle
<1>3. crashes \in 0..MaxCrashes
  BY DEF BlobInv, TypeOK
<1> QED BY <1>1, <1>2, <1>3, AnsweredKeeps DEF Record, Answer

LEMMA UnlinkKeeps ==
    ASSUME BlobInv, NEW r \in Requests, Unlink(r)
    PROVE  BlobInv'
<1> USE DEF BlobInv
<1>0. FileTypes /\ SetTypes
  BY TypesApart
<1>1. UNCHANGED <<row, minted, tmp, inode, owner, fd, sidecar, mirror, due,
   reaping, overlap, parted, raced, acked, crashes, begun>>
  BY DEF Unlink, sessionVars, fileVars, blobVars, reaperVars, sessionHist
<1>2. /\ \A x \in Requests : x # r => req'[x] = req[x]
      /\ req[r].at = "unlink"
      /\ req'[r].at = "unlinkMeta"
      /\ req'[r].op = req[r].op
      /\ req'[r].up = req[r].up
      /\ req'[r].digest = req[r].digest
      /\ req'[r].chunk = req[r].chunk
      /\ req'[r].saw = req[r].saw
      /\ dubious' = dubious
  BY GotoEffect DEF Unlink, Places
<1>3. req[r].op = "delete" /\ req[r].up = {}
  BY <1>0, <1>2 DEF SetTypes, Ops, RequestShape, SessionOps, OpAndPlace,
     PatchPlaces, PutPlaces, StorePlaces, Idle
<1>4. PICK d \in Digests : d = req[r].digest
  BY <1>3 DEF RequestShape
<1>5. blob'[d] = NoFile /\ \A e \in Digests : e # d => blob'[e] = blob[e]
  BY <1>0, <1>4 DEF Unlink, FileTypes
<1>6. req' \in [Requests -> Handlers] /\ FileTypes'
  BY <1>0, <1>1, GotoEffect DEF Unlink, Places, FileTypes, Names
<1>7. TypeOK'
  BY <1>0, <1>1, <1>2, <1>6, OciBlobsAssumption, NoContents DEF TypeOK,
     FileTypes
<1>8. FreshIsUnused' /\ SweepProgress'
  BY <1>1 DEF FreshIsUnused, Open, SweepProgress
<1>9. RequestShape'
  BY <1>1, <1>2, <1>3, <1>4, <1>5 DEF RequestShape, OpAndPlace, SessionOps,
     PatchPlaces, PutPlaces, StorePlaces, DeletePlaces, Idle
<1>10. NamesDiffer'
  BY <1>1, <1>2, <1>3, <1>4, <1>5, <1>0 DEF NamesDiffer, OpenFiles
<1>11. OpenFiles'
  BY <1>1, <1>2, <1>3, <1>4, <1>5, <1>0 DEF OpenFiles, RequestShape,
     OpAndPlace, SessionOps, PatchPlaces, PutPlaces, StorePlaces,
     DeletePlaces, Idle, NamesDiffer, Meetings, Storing
<1>12. Meetings'
  BY <1>1, <1>2, <1>3, <1>4, <1>5, <1>0 DEF Meetings, Storing
<1>13. HashedStays'
  BY <1>1, <1>2, <1>3, <1>4, <1>5, <1>0 DEF Names, HashedStays,
     RequestShape, OpAndPlace, SessionOps, PatchPlaces, PutPlaces,
     StorePlaces, DeletePlaces, Idle, NamesDiffer, OpenFiles, Meetings,
     Storing
<1>14. ContentAddressed'
  BY <1>1, <1>2, <1>3, <1>4, <1>5, <1>0 DEF ContentAddressed, RequestShape,
     OpAndPlace, SessionOps, PatchPlaces, PutPlaces, StorePlaces,
     DeletePlaces, Idle, NamesDiffer, OpenFiles, HashedStays
<1>15. BytesFirst'
  BY <1>1, <1>2, <1>3, <1>4, <1>5, <1>0 DEF SetTypes, Names, BytesFirst,
     OnDigest, Storing, RequestShape, OpAndPlace, SessionOps, PatchPlaces,
     PutPlaces, StorePlaces, DeletePlaces, Idle, Meetings
<1>16. StoredIsThere'
  BY <1>1, <1>2, <1>3, <1>4, <1>5, <1>0 DEF SetTypes, Names, StoredIsThere,
     AckedIsStored, MirrorHasBytes, OnDigest, RequestShape, OpAndPlace,
     SessionOps, PatchPlaces, PutPlaces, StorePlaces, DeletePlaces, Idle,
     Meetings, Storing, BytesFirst
<1>17. SessionProgress'
  BY <1>1, <1>2, <1>3, <1>4, <1>5, <1>0 DEF SessionProgress, FileLen, Open,
     RequestShape, OpAndPlace, SessionOps, PatchPlaces, PutPlaces, StorePlaces,
     DeletePlaces, Idle, NamesDiffer, OpenFiles, Meetings, Storing,
     SessionAgrees, CursorAgrees, Disturbed, NoTmpLeak, Quiet, OnSession,
     FreshIsUnused
<1>18. SessionAgrees'
  BY <1>1, <1>2, <1>3, <1>4, <1>5, <1>0 DEF SessionAgrees, CursorAgrees,
     Disturbed, NoTmpLeak, Quiet, OnSession, FileLen, Open, RequestShape,
     OpAndPlace, SessionOps, PatchPlaces, PutPlaces, StorePlaces, DeletePlaces,
     Idle, NamesDiffer, OpenFiles, Meetings, Storing, SessionProgress,
     SweepProgress, FreshIsUnused
<1> QED BY <1>7, <1>8, <1>9, <1>10, <1>11, <1>12, <1>13, <1>14, <1>15,
     <1>16, <1>17, <1>18

LEMMA UnlinkMetaKeeps ==
    ASSUME BlobInv, NEW r \in Requests, UnlinkMeta(r)
    PROVE  BlobInv'
<1> USE DEF BlobInv
<1>0. FileTypes /\ SetTypes
  BY TypesApart
<1>1. UNCHANGED <<row, minted, tmp, inode, owner, fd, blob, mirror, due,
   reaping, overlap, parted, raced, acked, crashes, begun>>
  BY DEF UnlinkMeta, sessionVars, fileVars, blobVars, reaperVars, sessionHist
<1>2. /\ \A x \in Requests : x # r => req'[x] = req[x]
      /\ req[r].at = "unlinkMeta"
      /\ req'[r].at = "unrecord"
      /\ req'[r].op = req[r].op
      /\ req'[r].up = req[r].up
      /\ req'[r].digest = req[r].digest
      /\ req'[r].chunk = req[r].chunk
      /\ req'[r].saw = req[r].saw
      /\ dubious' = dubious
  BY GotoEffect DEF UnlinkMeta, Places
<1>3. req[r].op = "delete" /\ req[r].up = {}
  BY <1>0, <1>2 DEF SetTypes, Ops, RequestShape, SessionOps, OpAndPlace,
     PatchPlaces, PutPlaces, StorePlaces, Idle
<1>4. sidecar' = sidecar \ {req[r].digest}
  BY DEF UnlinkMeta
<1>5. req' \in [Requests -> Handlers]
  BY GotoEffect DEF UnlinkMeta, Places
<1>6. TypeOK'
  BY <1>0, <1>1, <1>2, <1>4, <1>5, OciBlobsAssumption, NoContents DEF TypeOK
<1>7. NamesDiffer' /\ FreshIsUnused' /\ ContentAddressed' /\ SweepProgress'
  BY <1>1 DEF NamesDiffer, FreshIsUnused, Open, ContentAddressed,
     SweepProgress
<1>8. RequestShape'
  BY <1>1, <1>2, <1>3, <1>4 DEF RequestShape, OpAndPlace, SessionOps,
     PatchPlaces, PutPlaces, StorePlaces, DeletePlaces, Idle
<1>9. OpenFiles'
  BY <1>1, <1>2, <1>3, <1>4, <1>0 DEF OpenFiles, RequestShape, OpAndPlace,
     SessionOps, PatchPlaces, PutPlaces, StorePlaces, DeletePlaces, Idle,
     NamesDiffer, Meetings, Storing
<1>10. Meetings'
  BY <1>1, <1>2, <1>3, <1>4, <1>0 DEF Meetings, Storing
<1>11. HashedStays'
  BY <1>1, <1>2, <1>3, <1>4, <1>0 DEF Names, HashedStays, RequestShape,
     OpAndPlace, SessionOps, PatchPlaces, PutPlaces, StorePlaces,
     DeletePlaces, Idle, NamesDiffer, OpenFiles, Meetings, Storing
<1>12. BytesFirst'
  BY <1>1, <1>2, <1>3, <1>4, <1>0 DEF BytesFirst, OnDigest, Storing,
     RequestShape, OpAndPlace, SessionOps, PatchPlaces, PutPlaces,
     StorePlaces, DeletePlaces, Idle, Meetings
<1>13. StoredIsThere'
  BY <1>1, <1>2, <1>3, <1>4, <1>0 DEF Names, StoredIsThere, AckedIsStored,
     MirrorHasBytes, OnDigest, RequestShape, OpAndPlace, SessionOps,
     PatchPlaces, PutPlaces, StorePlaces, DeletePlaces, Idle, Meetings,
     Storing, BytesFirst
<1>14. SessionProgress'
  BY <1>1, <1>2, <1>3, <1>4, <1>0 DEF SessionProgress, FileLen, Open,
     RequestShape, OpAndPlace, SessionOps, PatchPlaces, PutPlaces, StorePlaces,
     DeletePlaces, Idle, NamesDiffer, OpenFiles, Meetings, Storing,
     SessionAgrees, CursorAgrees, Disturbed, NoTmpLeak, Quiet, OnSession,
     FreshIsUnused
<1>15. SessionAgrees'
  BY <1>1, <1>2, <1>3, <1>4, <1>0 DEF SessionAgrees, CursorAgrees, Disturbed,
     NoTmpLeak, Quiet, OnSession, FileLen, Open, RequestShape, OpAndPlace,
     SessionOps, PatchPlaces, PutPlaces, StorePlaces, DeletePlaces, Idle,
     NamesDiffer, OpenFiles, Meetings, Storing, SessionProgress,
     SweepProgress, FreshIsUnused
<1> QED BY <1>6, <1>7, <1>8, <1>9, <1>10, <1>11, <1>12, <1>13, <1>14, <1>15

\* A DELETE goes on after a call that failed.
LEMMA DeleteMovesKeeps ==
    ASSUME BlobInv, NEW r \in Requests, req[r].at \in {"unlink", "unlinkMeta"},
           NEW loc \in {"unlinkMeta", "unrecord"},
           Goto(r, loc),
           raced \subseteq raced', raced' \subseteq Digests,
           loc = "unrecord" => req[r].digest \in raced',
           crashes' \in 0..MaxCrashes,
           UNCHANGED <<row, minted, tmp, inode, owner, fd, blob, sidecar,
           mirror, due, reaping, overlap, parted, acked, begun>>
    PROVE  BlobInv'
<1> USE DEF BlobInv
<1>0. FileTypes /\ SetTypes
  BY TypesApart
<1>1. /\ UNCHANGED <<row, minted, tmp, inode, owner, fd, blob, sidecar,
         mirror, due, reaping, overlap, parted, acked, begun>>
      /\ raced \subseteq raced' /\ raced' \subseteq Digests
  OBVIOUS
<1>2. /\ \A x \in Requests : x # r => req'[x] = req[x]
      /\ req[r].at \in {"unlink", "unlinkMeta"}
      /\ req'[r].at = loc /\ loc \in {"unlinkMeta", "unrecord"}
      /\ req'[r].op = req[r].op
      /\ req'[r].up = req[r].up
      /\ req'[r].digest = req[r].digest
      /\ req'[r].chunk = req[r].chunk
      /\ req'[r].saw = req[r].saw
      /\ dubious' = dubious
  BY GotoEffect DEF Places
<1>3. req[r].op = "delete" /\ req[r].up = {}
  BY <1>0, <1>2 DEF SetTypes, Ops, RequestShape, SessionOps, OpAndPlace,
     PatchPlaces, PutPlaces, StorePlaces, Idle
<1>4. loc = "unrecord" => req[r].digest \in raced'
  OBVIOUS
<1>5. req' \in [Requests -> Handlers]
  BY GotoEffect DEF Places
<1>6. TypeOK'
  BY <1>0, <1>1, <1>2, <1>4, <1>5, OciBlobsAssumption, NoContents DEF TypeOK
<1>7. NamesDiffer' /\ FreshIsUnused' /\ ContentAddressed' /\ SweepProgress'
  BY <1>1 DEF NamesDiffer, FreshIsUnused, Open, ContentAddressed,
     SweepProgress
<1>8. RequestShape'
  BY <1>1, <1>2, <1>3, <1>4 DEF RequestShape, OpAndPlace, SessionOps,
     PatchPlaces, PutPlaces, StorePlaces, DeletePlaces, Idle
<1>9. OpenFiles'
  BY <1>1, <1>2, <1>3, <1>4, <1>0 DEF OpenFiles, RequestShape, OpAndPlace,
     SessionOps, PatchPlaces, PutPlaces, StorePlaces, DeletePlaces, Idle,
     NamesDiffer, Meetings, Storing
<1>10. Meetings'
  BY <1>1, <1>2, <1>3, <1>4, <1>0 DEF Meetings, Storing
<1>11. HashedStays'
  BY <1>1, <1>2, <1>3, <1>4, <1>0 DEF Names, HashedStays, RequestShape,
     OpAndPlace, SessionOps, PatchPlaces, PutPlaces, StorePlaces,
     DeletePlaces, Idle, NamesDiffer, OpenFiles, Meetings, Storing
<1>12. BytesFirst'
  BY <1>1, <1>2, <1>3, <1>4, <1>0 DEF BytesFirst, OnDigest, Storing,
     RequestShape, OpAndPlace, SessionOps, PatchPlaces, PutPlaces,
     StorePlaces, DeletePlaces, Idle, Meetings
<1>13. StoredIsThere'
  BY <1>1, <1>2, <1>3, <1>4, <1>0 DEF Names, StoredIsThere, AckedIsStored,
     MirrorHasBytes, OnDigest, RequestShape, OpAndPlace, SessionOps,
     PatchPlaces, PutPlaces, StorePlaces, DeletePlaces, Idle, Meetings,
     Storing, BytesFirst
<1>14. SessionProgress'
  BY <1>1, <1>2, <1>3, <1>4, <1>0 DEF SessionProgress, FileLen, Open,
     RequestShape, OpAndPlace, SessionOps, PatchPlaces, PutPlaces, StorePlaces,
     DeletePlaces, Idle, NamesDiffer, OpenFiles, Meetings, Storing,
     SessionAgrees, CursorAgrees, Disturbed, NoTmpLeak, Quiet, OnSession,
     FreshIsUnused
<1>15. SessionAgrees'
  BY <1>1, <1>2, <1>3, <1>4, <1>0 DEF SessionAgrees, CursorAgrees, Disturbed,
     NoTmpLeak, Quiet, OnSession, FileLen, Open, RequestShape, OpAndPlace,
     SessionOps, PatchPlaces, PutPlaces, StorePlaces, DeletePlaces, Idle,
     NamesDiffer, OpenFiles, Meetings, Storing, SessionProgress,
     SweepProgress, FreshIsUnused
<1> QED BY <1>6, <1>7, <1>8, <1>9, <1>10, <1>11, <1>12, <1>13, <1>14, <1>15

LEMMA UnlinkFailsKeeps ==
    ASSUME BlobInv, NEW r \in Requests, UnlinkFails(r)
    PROVE  BlobInv'
<1>1. /\ Goto(r, "unlinkMeta") /\ crashes' \in 0..MaxCrashes
      /\ req[r].at = "unlink" /\ raced' = raced /\ raced \subseteq Digests
      /\ UNCHANGED <<row, minted, tmp, inode, owner, fd, blob, sidecar, mirror,
                     due, reaping, overlap, parted, acked, begun>>
  BY OciBlobsAssumption DEF UnlinkFails, Fault, sessionVars, fileVars, blobVars,
     reaperVars, sessionHist, BlobInv, TypeOK
<1> QED BY <1>1, DeleteMovesKeeps

LEMMA UnlinkMetaFailsKeeps ==
    ASSUME BlobInv, NEW r \in Requests, UnlinkMetaFails(r)
    PROVE  BlobInv'
<1>1. /\ Goto(r, "unrecord") /\ crashes' \in 0..MaxCrashes
      /\ req[r].at = "unlinkMeta" /\ raced' = raced \cup {req[r].digest}
      /\ UNCHANGED <<row, minted, tmp, inode, owner, fd, blob, sidecar, mirror,
                     due, reaping, overlap, parted, acked, begun>>
  BY OciBlobsAssumption DEF UnlinkMetaFails, Fault, sessionVars, fileVars,
     blobVars, reaperVars, sessionHist, BlobInv, TypeOK
<1>2. req[r].op = "delete"
  BY <1>1, TypesApart DEF BlobInv, SetTypes, Ops, RequestShape, SessionOps,
     OpAndPlace, PatchPlaces, PutPlaces, StorePlaces, Idle
<1>3. raced \subseteq raced' /\ raced' \subseteq Digests
  BY <1>1, <1>2 DEF BlobInv, TypeOK, RequestShape
<1> QED BY <1>1, <1>3, DeleteMovesKeeps

LEMMA UnrecordKeeps ==
    ASSUME BlobInv, NEW r \in Requests, Unrecord(r)
    PROVE  BlobInv'
<1> USE DEF BlobInv
<1>0. FileTypes /\ SetTypes
  BY TypesApart
<1>1. UNCHANGED <<row, minted, tmp, inode, owner, fd, blob, sidecar, due,
   reaping, overlap, parted, acked, crashes, begun>>
  BY DEF Unrecord, sessionVars, fileVars, blobVars, reaperVars, sessionHist
<1>2. req[r].at = "unrecord"
  BY DEF Unrecord
<1>3. req[r].op = "delete" /\ req[r].up = {}
  BY <1>0, <1>2 DEF SetTypes, Ops, RequestShape, SessionOps, OpAndPlace,
     PatchPlaces, PutPlaces, StorePlaces, Idle
<1>4. /\ \A x \in Requests : x # r => req'[x] = req[x]
      /\ req'[r] = Idle
      /\ req'[r].op = "idle" /\ req'[r].at = "idle" /\ req'[r].up = {}
      /\ dubious' = dubious \ {r}
  BY EndEffect DEF Unrecord
<1>5. /\ mirror' = mirror \ {req[r].digest}
      /\ \/ raced' = raced
         \/ /\ raced' = raced \ {req[r].digest}
            /\ req[r].digest \notin sidecar
            /\ \A x \in Requests : req[x].op \in Storing =>
                 req[x].digest # req[r].digest
  BY DEF Unrecord, OnDigest
<1>6. \A v \in Uploads : Quiet(v)' <=> Quiet(v)
  BY <1>1, <1>3, <1>4 DEF Quiet, OnSession
<1>7. \A v \in Uploads : FileLen(v)' = FileLen(v)
  BY <1>1 DEF FileLen
<1>8. req' \in [Requests -> Handlers]
  BY EndEffect DEF Unrecord
<1>9. TypeOK'
  BY <1>0, <1>1, <1>4, <1>5, <1>8, OciBlobsAssumption, NoContents DEF TypeOK
<1>10. NamesDiffer' /\ FreshIsUnused' /\ ContentAddressed' /\ SweepProgress'
  BY <1>1 DEF NamesDiffer, FreshIsUnused, Open, ContentAddressed,
     SweepProgress
<1>11. RequestShape'
  BY <1>1, <1>2, <1>3, <1>4, <1>5, <1>6, <1>7 DEF RequestShape, OpAndPlace,
     SessionOps, PatchPlaces, PutPlaces, StorePlaces, DeletePlaces, Idle
<1>12. OpenFiles'
  BY <1>1, <1>2, <1>3, <1>4, <1>5, <1>6, <1>7, <1>0 DEF OpenFiles,
     RequestShape, OpAndPlace, SessionOps, PatchPlaces, PutPlaces,
     StorePlaces, DeletePlaces, Idle, NamesDiffer, Meetings, Storing
<1>13. Meetings'
  BY <1>1, <1>2, <1>3, <1>4, <1>5, <1>6, <1>7, <1>0 DEF Meetings, Storing
<1>14. HashedStays'
  BY <1>1, <1>2, <1>3, <1>4, <1>5, <1>6, <1>7, <1>0 DEF Names, HashedStays,
     RequestShape, OpAndPlace, SessionOps, PatchPlaces, PutPlaces,
     StorePlaces, DeletePlaces, Idle, NamesDiffer, OpenFiles, Meetings,
     Storing
<1>15. BytesFirst'
  BY <1>1, <1>2, <1>3, <1>4, <1>5, <1>6, <1>7, <1>0 DEF BytesFirst,
     OnDigest, Storing, RequestShape, OpAndPlace, SessionOps, PatchPlaces,
     PutPlaces, StorePlaces, DeletePlaces, Idle, Meetings
<1>16. StoredIsThere'
  BY <1>1, <1>2, <1>3, <1>4, <1>5, <1>6, <1>7, <1>0 DEF Names,
     StoredIsThere, AckedIsStored, MirrorHasBytes, OnDigest, RequestShape,
     OpAndPlace, SessionOps, PatchPlaces, PutPlaces, StorePlaces,
     DeletePlaces, Idle, Meetings, Storing, BytesFirst
<1>17. SessionProgress'
  BY <1>1, <1>2, <1>3, <1>4, <1>5, <1>6, <1>7, <1>0 DEF SetTypes, Names,
     SessionProgress, Open, RequestShape, OpAndPlace, SessionOps, PatchPlaces,
     PutPlaces, StorePlaces, DeletePlaces, Idle, NamesDiffer, OpenFiles,
     Meetings, Storing, SessionAgrees, CursorAgrees, Disturbed, NoTmpLeak,
     FreshIsUnused
<1>18. SessionAgrees'
  BY <1>1, <1>2, <1>3, <1>4, <1>5, <1>6, <1>7, <1>0 DEF Names, SessionAgrees,
     CursorAgrees, Disturbed, NoTmpLeak, Open, RequestShape, OpAndPlace,
     SessionOps, PatchPlaces, PutPlaces, StorePlaces, DeletePlaces, Idle,
     NamesDiffer, OpenFiles, Meetings, Storing, SessionProgress, SweepProgress,
     FreshIsUnused
<1> QED BY <1>9, <1>10, <1>11, <1>12, <1>13, <1>14, <1>15, <1>16, <1>17, <1>18

\* PATCH and PUT take up a session.
LEMMA SessionEnterKeeps ==
    ASSUME BlobInv, NEW r \in Requests, NEW u \in Uploads, NEW d \in Contents,
           NEW c \in Contents,
           NEW o \in SessionOps, NEW loc \in {"open", "hash"}, Open(u),
           o = "put" => d \in Digests,
           o = "patch" => loc = "open",
           loc = "open" => Len(c) = 1,
           Enter(r, o, loc, {u}, d, c, row[u].bytes),
           begun' \in 0..MaxRequests,
           UNCHANGED <<row, minted, tmp, inode, owner, fd, blob, sidecar,
           mirror, due, reaping, acked, crashes>>
    PROVE  BlobInv'
<1> USE DEF BlobInv
<1>0. FileTypes /\ SetTypes
  BY TypesApart
<1>1. UNCHANGED <<row, minted, tmp, inode, owner, fd, blob, sidecar, mirror,
   due, reaping, acked, crashes>>
  OBVIOUS
<1>2. /\ o \in Ops /\ loc \in Places
      /\ {u} \in SUBSET Uploads /\ row[u].bytes \in Nat
  BY <1>0 DEF SetTypes, Ops, Places, SessionOps
<1>3. /\ \A x \in Requests : x # r => req'[x] = req[x]
      /\ req[r] = Idle
      /\ req'[r].at = loc /\ req'[r].op = o /\ req'[r].up = {u}
      /\ req'[r].digest = d /\ req'[r].chunk = c /\ req'[r].saw = row[u].bytes
  <2>1. req \in [Requests -> Handlers]
    BY DEF TypeOK
  <2> QED BY <2>1 DEF Enter
<1>4. fd[r] = NoFile /\ req[r].up = {} /\ req[r].op = "idle" /\ u \in minted
  BY <1>3 DEF Idle, RequestShape, FreshIsUnused
<1>5. /\ overlap \subseteq overlap' /\ parted \subseteq parted'
      /\ raced \subseteq raced' /\ dubious \subseteq dubious'
      /\ u \in overlap' \cup parted' \/ Quiet(u)
      /\ \A x \in Requests : u \in req[x].up => u \in overlap'
      /\ u \in due \cup reaping => u \in parted'
      /\ \A x \in Requests :
           o = "put" /\ req[x].op = "delete" /\ req[x].digest = d =>
               d \in raced' /\ r \in dubious'
  BY DEF Enter, Meet, SessionOps, Digests, Quiet, OnSession, OnDigest
<1>6. \A v \in Uploads : FileLen(v)' = FileLen(v)
  BY DEF FileLen
<1>7. /\ ~Quiet(u)'
      /\ \A v \in Uploads : v # u => (Quiet(v)' <=> Quiet(v))
  BY <1>3, <1>4 DEF Quiet, OnSession
<1>8. req' \in [Requests -> Handlers]
  BY <1>2, EnterEffect
<1>9. /\ overlap' \subseteq Uploads /\ parted' \subseteq Uploads
      /\ raced' \subseteq Digests /\ dubious' \subseteq Requests
  BY MeetTypes DEF Enter
<1>10. TypeOK'
  BY <1>0, <1>1, <1>8, <1>9, OciBlobsAssumption, NoContents DEF TypeOK
<1>11. NamesDiffer' /\ FreshIsUnused'
  BY <1>1 DEF NamesDiffer, FreshIsUnused, Open
<1>12. RequestShape'
  BY <1>1, <1>3, <1>4, <1>5, <1>6, <1>7 DEF RequestShape, OpAndPlace,
     SessionOps, PatchPlaces, PutPlaces, StorePlaces, DeletePlaces, Idle
<1>13. OpenFiles'
  BY <1>1, <1>3, <1>4, <1>5, <1>6, <1>7, <1>0 DEF OpenFiles, RequestShape,
     OpAndPlace, SessionOps, PatchPlaces, PutPlaces, StorePlaces,
     DeletePlaces, Idle, NamesDiffer, Meetings, Storing
<1>14. Meetings'
  BY <1>1, <1>3, <1>4, <1>5 DEF Meetings, Storing, SessionOps
<1>15. HashedStays'
  BY <1>1, <1>3, <1>4, <1>5, <1>6, <1>7, <1>0 DEF Names, HashedStays,
     RequestShape, OpAndPlace, SessionOps, PatchPlaces, PutPlaces,
     StorePlaces, DeletePlaces, Idle, NamesDiffer, OpenFiles, Meetings,
     Storing
<1>16. ContentAddressed'
  BY <1>1, <1>3, <1>4, <1>5, <1>6, <1>7, <1>0 DEF ContentAddressed,
     RequestShape, OpAndPlace, SessionOps, PatchPlaces, PutPlaces,
     StorePlaces, DeletePlaces, Idle, NamesDiffer, OpenFiles, HashedStays
<1>17. BytesFirst'
  BY <1>1, <1>3, <1>4, <1>5, <1>6, <1>7, <1>0 DEF FileTypes, SetTypes,
     Names, BytesFirst, OnDigest, Storing, RequestShape, OpAndPlace,
     SessionOps, PatchPlaces, PutPlaces, StorePlaces, DeletePlaces, Idle,
     Meetings
<1>18. StoredIsThere'
  BY <1>1, <1>3, <1>4, <1>5, <1>6, <1>7, <1>0 DEF Names, StoredIsThere,
     AckedIsStored, MirrorHasBytes, OnDigest, RequestShape, OpAndPlace,
     SessionOps, PatchPlaces, PutPlaces, StorePlaces, DeletePlaces, Idle,
     Meetings, Storing, BytesFirst
<1>19. SessionProgress'
  BY <1>1, <1>3, <1>4, <1>5, <1>6, <1>7, <1>0 DEF SetTypes, Names,
     SessionProgress, Open, RequestShape, OpAndPlace, SessionOps, PatchPlaces,
     PutPlaces, StorePlaces, DeletePlaces, Idle, NamesDiffer, OpenFiles,
     Meetings, Storing, SessionAgrees, CursorAgrees, Disturbed, NoTmpLeak,
     OnSession, FreshIsUnused
<1>20. SweepProgress'
  BY <1>1, <1>3, <1>4, <1>5, <1>6, <1>7, <1>0 DEF SweepProgress,
     RequestShape, OpAndPlace, SessionOps, PatchPlaces, PutPlaces,
     StorePlaces, DeletePlaces, Idle, Meetings, Storing
<1>21. SessionAgrees'
  BY <1>1, <1>3, <1>4, <1>5, <1>6, <1>7, <1>0 DEF Names, SessionAgrees,
     CursorAgrees, Disturbed, NoTmpLeak, OnSession, Open, RequestShape,
     OpAndPlace, SessionOps, PatchPlaces, PutPlaces, StorePlaces, DeletePlaces,
     Idle, NamesDiffer, OpenFiles, Meetings, Storing, SessionProgress,
     SweepProgress, FreshIsUnused
<1> QED BY <1>10, <1>11, <1>12, <1>13, <1>14, <1>15, <1>16, <1>17, <1>18,
     <1>19, <1>20, <1>21

\* storage.putBlob begins.
LEMMA StoreEnterKeeps ==
    ASSUME BlobInv, NEW r \in Requests, NEW d \in Digests, StoreEnter(r, d),
           begun' \in 0..MaxRequests
    PROVE  BlobInv'
<1> USE DEF BlobInv
<1>0. FileTypes /\ SetTypes
  BY TypesApart
<1>1. UNCHANGED <<row, minted, tmp, inode, owner, fd, blob, sidecar, mirror,
   due, reaping, acked, crashes>>
  BY DEF StoreEnter, sessionVars, fileVars, blobVars, reaperVars, sessionHist
<1>2. /\ "store" \in Ops /\ "dedupe" \in Places /\ {} \in SUBSET Uploads
      /\ d \in Contents /\ <<>> \in Contents /\ 0 \in Nat
  BY NoContents DEF Ops, Places, Digests
<1>3. /\ \A x \in Requests : x # r => req'[x] = req[x]
      /\ req[r] = Idle
      /\ req'[r].at = "dedupe" /\ req'[r].op = "store" /\ req'[r].up = {}
      /\ req'[r].digest = d
  <2>1. req \in [Requests -> Handlers]
    BY DEF TypeOK
  <2> QED BY <2>1 DEF StoreEnter, Enter
<1>4. fd[r] = NoFile /\ req[r].up = {} /\ req[r].op = "idle"
  BY <1>3 DEF Idle, RequestShape
<1>5. /\ overlap \subseteq overlap' /\ parted \subseteq parted'
      /\ raced \subseteq raced' /\ dubious \subseteq dubious'
      /\ \A x \in Requests : req[x].op = "delete" /\ req[x].digest = d =>
           d \in raced' /\ r \in dubious'
  BY DEF StoreEnter, Enter, Meet, Digests, OnDigest
<1>6. \A v \in Uploads : FileLen(v)' = FileLen(v)
  BY <1>1 DEF FileLen
<1>7. \A v \in Uploads : Quiet(v)' <=> Quiet(v)
  BY <1>1, <1>3, <1>4 DEF Quiet, OnSession
<1>8. req' \in [Requests -> Handlers]
  BY <1>2, EnterEffect DEF StoreEnter
<1>9. /\ overlap' \subseteq Uploads /\ parted' \subseteq Uploads
      /\ raced' \subseteq Digests /\ dubious' \subseteq Requests
  BY <1>2, MeetTypes DEF StoreEnter, Enter
<1>10. TypeOK'
  BY <1>0, <1>1, <1>8, <1>9, OciBlobsAssumption, NoContents DEF TypeOK
<1>11. NamesDiffer' /\ FreshIsUnused'
  BY <1>1 DEF NamesDiffer, FreshIsUnused, Open
<1>12. RequestShape'
  BY <1>1, <1>3, <1>4, <1>5, <1>6, <1>7 DEF RequestShape, OpAndPlace,
     SessionOps, PatchPlaces, PutPlaces, StorePlaces, DeletePlaces, Idle
<1>13. OpenFiles'
  BY <1>1, <1>3, <1>4, <1>5, <1>6, <1>7, <1>0 DEF OpenFiles, RequestShape,
     OpAndPlace, SessionOps, PatchPlaces, PutPlaces, StorePlaces,
     DeletePlaces, Idle, NamesDiffer, Meetings, Storing
<1>14. Meetings'
  BY <1>1, <1>3, <1>4, <1>5, <1>6, <1>7, <1>0 DEF Meetings, Storing
<1>15. HashedStays'
  BY <1>1, <1>3, <1>4, <1>5, <1>6, <1>7, <1>0 DEF Names, HashedStays,
     RequestShape, OpAndPlace, SessionOps, PatchPlaces, PutPlaces,
     StorePlaces, DeletePlaces, Idle, NamesDiffer, OpenFiles, Meetings,
     Storing
<1>16. ContentAddressed'
  BY <1>1, <1>3, <1>4, <1>5, <1>6, <1>7, <1>0 DEF ContentAddressed,
     RequestShape, OpAndPlace, SessionOps, PatchPlaces, PutPlaces,
     StorePlaces, DeletePlaces, Idle, NamesDiffer, OpenFiles, HashedStays
<1>17. BytesFirst'
  BY <1>1, <1>3, <1>4, <1>5, <1>6, <1>7, <1>0 DEF BytesFirst, OnDigest,
     Storing, RequestShape, OpAndPlace, SessionOps, PatchPlaces, PutPlaces,
     StorePlaces, DeletePlaces, Idle, Meetings
<1>18. StoredIsThere'
  BY <1>1, <1>3, <1>4, <1>5, <1>6, <1>7, <1>0 DEF Names, StoredIsThere,
     AckedIsStored, MirrorHasBytes, OnDigest, RequestShape, OpAndPlace,
     SessionOps, PatchPlaces, PutPlaces, StorePlaces, DeletePlaces, Idle,
     Meetings, Storing, BytesFirst
<1>19. SessionProgress'
  BY <1>1, <1>3, <1>4, <1>5, <1>6, <1>7, <1>0 DEF SetTypes, Names,
     SessionProgress, Open, RequestShape, OpAndPlace, SessionOps, PatchPlaces,
     PutPlaces, StorePlaces, DeletePlaces, Idle, NamesDiffer, OpenFiles,
     Meetings, Storing, SessionAgrees, CursorAgrees, Disturbed, NoTmpLeak,
     OnSession, FreshIsUnused
<1>20. SweepProgress'
  BY <1>1, <1>3, <1>4, <1>5, <1>6, <1>7, <1>0 DEF SweepProgress,
     RequestShape, OpAndPlace, SessionOps, PatchPlaces, PutPlaces,
     StorePlaces, DeletePlaces, Idle, Meetings, Storing
<1>21. SessionAgrees'
  BY <1>1, <1>3, <1>4, <1>5, <1>6, <1>7, <1>0 DEF Names, SessionAgrees,
     CursorAgrees, Disturbed, NoTmpLeak, OnSession, Open, RequestShape,
     OpAndPlace, SessionOps, PatchPlaces, PutPlaces, StorePlaces, DeletePlaces,
     Idle, NamesDiffer, OpenFiles, Meetings, Storing, SessionProgress,
     SweepProgress, FreshIsUnused
<1> QED BY <1>10, <1>11, <1>12, <1>13, <1>14, <1>15, <1>16, <1>17, <1>18,
     <1>19, <1>20, <1>21

LEMMA DeleteBeginKeeps ==
    ASSUME BlobInv, NEW r \in Requests, NEW d \in Digests, DeleteBegin(r, d)
    PROVE  BlobInv'
<1> USE DEF BlobInv
<1>0. FileTypes /\ SetTypes
  BY TypesApart
<1>1. UNCHANGED <<row, minted, tmp, inode, owner, fd, blob, sidecar, mirror,
   due, reaping, crashes>>
  BY DEF DeleteBegin, sessionVars, fileVars, blobVars, reaperVars, sessionHist
<1>2. /\ "delete" \in Ops /\ "unlink" \in Places /\ {} \in SUBSET Uploads
      /\ d \in Contents /\ <<>> \in Contents /\ 0 \in Nat
  BY NoContents DEF Ops, Places, Digests
<1>3. /\ \A x \in Requests : x # r => req'[x] = req[x]
      /\ req[r] = Idle
      /\ req'[r].at = "unlink" /\ req'[r].op = "delete" /\ req'[r].up = {}
      /\ req'[r].digest = d
  <2>1. req \in [Requests -> Handlers]
    BY DEF TypeOK
  <2> QED BY <2>1 DEF DeleteBegin, Begin, Enter
<1>4. fd[r] = NoFile /\ req[r].up = {} /\ req[r].op = "idle"
  BY <1>3 DEF Idle, RequestShape
<1>5. /\ overlap \subseteq overlap' /\ parted \subseteq parted'
      /\ raced \subseteq raced' /\ dubious \subseteq dubious'
      /\ \A x \in Requests : req[x].op \in Storing /\ req[x].digest = d =>
           d \in raced' /\ x \in dubious'
      /\ acked' = acked \ {d}
  BY DEF DeleteBegin, Begin, Enter, Meet, Digests, OnDigest
<1>6. \A v \in Uploads : FileLen(v)' = FileLen(v)
  BY <1>1 DEF FileLen
<1>7. \A v \in Uploads : Quiet(v)' <=> Quiet(v)
  BY <1>1, <1>3, <1>4 DEF Quiet, OnSession
<1>8. req' \in [Requests -> Handlers]
  BY <1>2, EnterEffect DEF DeleteBegin, Begin
<1>9. /\ overlap' \subseteq Uploads /\ parted' \subseteq Uploads
      /\ raced' \subseteq Digests /\ dubious' \subseteq Requests
  BY <1>2, MeetTypes DEF DeleteBegin, Begin, Enter
<1>10. begun' \in 0..MaxRequests
  BY OciBlobsAssumption DEF DeleteBegin, Begin, TypeOK
<1>11. TypeOK'
  BY <1>0, <1>1, <1>5, <1>8, <1>9, <1>10, OciBlobsAssumption, NoContents DEF
     TypeOK
<1>12. NamesDiffer' /\ FreshIsUnused'
  BY <1>1 DEF NamesDiffer, FreshIsUnused, Open
<1>13. RequestShape'
  BY <1>1, <1>3, <1>4, <1>5, <1>6, <1>7 DEF RequestShape, OpAndPlace,
     SessionOps, PatchPlaces, PutPlaces, StorePlaces, DeletePlaces, Idle
<1>14. OpenFiles'
  BY <1>1, <1>3, <1>4, <1>5, <1>6, <1>7, <1>0 DEF OpenFiles, RequestShape,
     OpAndPlace, SessionOps, PatchPlaces, PutPlaces, StorePlaces,
     DeletePlaces, Idle, NamesDiffer, Meetings, Storing
<1>15. Meetings'
  BY <1>1, <1>3, <1>4, <1>5, <1>6, <1>7, <1>0 DEF Meetings, Storing
<1>16. HashedStays'
  BY <1>1, <1>3, <1>4, <1>5, <1>6, <1>7, <1>0 DEF Names, HashedStays,
     RequestShape, OpAndPlace, SessionOps, PatchPlaces, PutPlaces,
     StorePlaces, DeletePlaces, Idle, NamesDiffer, OpenFiles, Meetings,
     Storing
<1>17. ContentAddressed'
  BY <1>1, <1>3, <1>4, <1>5, <1>6, <1>7, <1>0 DEF ContentAddressed,
     RequestShape, OpAndPlace, SessionOps, PatchPlaces, PutPlaces,
     StorePlaces, DeletePlaces, Idle, NamesDiffer, OpenFiles, HashedStays
<1>18. BytesFirst'
  BY <1>1, <1>3, <1>4, <1>5, <1>6, <1>7, <1>0 DEF BytesFirst, OnDigest,
     Storing, RequestShape, OpAndPlace, SessionOps, PatchPlaces, PutPlaces,
     StorePlaces, DeletePlaces, Idle, Meetings
<1>19. StoredIsThere'
  BY <1>1, <1>3, <1>4, <1>5, <1>6, <1>7, <1>0 DEF Names, StoredIsThere,
     AckedIsStored, MirrorHasBytes, OnDigest, RequestShape, OpAndPlace,
     SessionOps, PatchPlaces, PutPlaces, StorePlaces, DeletePlaces, Idle,
     Meetings, Storing, BytesFirst
<1>20. SessionProgress'
  BY <1>1, <1>3, <1>4, <1>5, <1>6, <1>7, <1>0 DEF SetTypes, Names,
     SessionProgress, Open, RequestShape, OpAndPlace, SessionOps, PatchPlaces,
     PutPlaces, StorePlaces, DeletePlaces, Idle, NamesDiffer, OpenFiles,
     Meetings, Storing, SessionAgrees, CursorAgrees, Disturbed, NoTmpLeak,
     OnSession, FreshIsUnused
<1>21. SweepProgress'
  BY <1>1, <1>3, <1>4, <1>5, <1>6, <1>7, <1>0 DEF SweepProgress,
     RequestShape, OpAndPlace, SessionOps, PatchPlaces, PutPlaces,
     StorePlaces, DeletePlaces, Idle, Meetings, Storing
<1>22. SessionAgrees'
  BY <1>1, <1>3, <1>4, <1>5, <1>6, <1>7, <1>0 DEF Names, SessionAgrees,
     CursorAgrees, Disturbed, NoTmpLeak, OnSession, Open, RequestShape,
     OpAndPlace, SessionOps, PatchPlaces, PutPlaces, StorePlaces, DeletePlaces,
     Idle, NamesDiffer, OpenFiles, Meetings, Storing, SessionProgress,
     SweepProgress, FreshIsUnused
<1> QED BY <1>11, <1>12, <1>13, <1>14, <1>15, <1>16, <1>17, <1>18, <1>19,
     <1>20, <1>21, <1>22

LEMMA SweepBeginKeeps ==
    ASSUME BlobInv, SweepBegin
    PROVE  BlobInv'
<1> USE DEF BlobInv
<1>0. FileTypes /\ SetTypes
  BY TypesApart
<1>1. UNCHANGED <<row, minted, tmp, inode, owner, fd, blob, sidecar, mirror,
   req, reaping, overlap, raced, dubious, acked, crashes, begun>>
  BY DEF SweepBegin, sessionVars, fileVars, blobVars, reaperVars, sessionHist
<1>2. /\ due = {} /\ reaping = {}
      /\ \A u \in due' : u \in Uploads /\ row[u].state = "expired"
      /\ parted \subseteq parted' /\ parted' \subseteq Uploads
      /\ \A u \in due' : \A x \in Requests : u \in req[x].up => u \in parted'
  BY DEF SweepBegin, TypeOK, OnSession
<1>3. \A v \in Uploads : FileLen(v)' = FileLen(v)
  BY <1>1 DEF FileLen
<1>4. \A v \in Uploads : Quiet(v)' => Quiet(v)
  BY <1>1, <1>2 DEF Quiet, OnSession
<1>5. TypeOK'
  BY <1>0, <1>1, <1>2, OciBlobsAssumption, NoContents DEF TypeOK
<1>6. RequestShape' /\ NamesDiffer' /\ BytesFirst' /\ StoredIsThere'
  BY <1>1 DEF RequestShape, PatchPlaces, PutPlaces, StorePlaces,
     DeletePlaces, Idle, NamesDiffer, BytesFirst, OnDigest, Storing,
     StoredIsThere, AckedIsStored, MirrorHasBytes
<1>7. OpenFiles'
  BY <1>1, <1>2, <1>3, <1>4, <1>0 DEF OpenFiles, RequestShape, OpAndPlace,
     SessionOps, PatchPlaces, PutPlaces, StorePlaces, DeletePlaces, Idle,
     NamesDiffer, Meetings, Storing
<1>8. Meetings'
  BY <1>1, <1>2, <1>3, <1>4, <1>0 DEF Meetings, Storing
<1>9. FreshIsUnused'
  BY <1>1, <1>2, <1>3, <1>4, <1>0 DEF FreshIsUnused, Open, RequestShape,
     OpAndPlace, SessionOps, PatchPlaces, PutPlaces, StorePlaces,
     DeletePlaces, Idle
<1>10. HashedStays'
  BY <1>1, <1>2, <1>3, <1>4, <1>0 DEF Names, HashedStays, RequestShape,
     OpAndPlace, SessionOps, PatchPlaces, PutPlaces, StorePlaces,
     DeletePlaces, Idle, NamesDiffer, OpenFiles, Meetings, Storing
<1>11. ContentAddressed'
  BY <1>1, <1>2, <1>3, <1>4, <1>0 DEF ContentAddressed, RequestShape,
     OpAndPlace, SessionOps, PatchPlaces, PutPlaces, StorePlaces,
     DeletePlaces, Idle, NamesDiffer, OpenFiles, HashedStays
<1>12. SessionProgress'
  BY <1>1, <1>2, <1>3, <1>4, <1>0 DEF SetTypes, Names, SessionProgress,
     Open, RequestShape, OpAndPlace, SessionOps, PatchPlaces, PutPlaces,
     StorePlaces, DeletePlaces, Idle, NamesDiffer, OpenFiles, Meetings,
     Storing, SessionAgrees, CursorAgrees, Disturbed, NoTmpLeak, OnSession,
     FreshIsUnused
<1>13. SweepProgress'
  BY <1>1, <1>2, <1>3, <1>4, <1>0 DEF SweepProgress, RequestShape,
     OpAndPlace, SessionOps, PatchPlaces, PutPlaces, StorePlaces,
     DeletePlaces, Idle, Meetings, Storing
<1>14. SessionAgrees'
  BY <1>1, <1>2, <1>3, <1>4, <1>0 DEF Names, SessionAgrees, CursorAgrees,
     Disturbed, NoTmpLeak, OnSession, Open, RequestShape, OpAndPlace,
     SessionOps, PatchPlaces, PutPlaces, StorePlaces, DeletePlaces, Idle,
     NamesDiffer, OpenFiles, Meetings, Storing, SessionProgress, SweepProgress,
     FreshIsUnused
<1> QED BY <1>5, <1>6, <1>7, <1>8, <1>9, <1>10, <1>11, <1>12, <1>13, <1>14

LEMMA SweepUnlinkKeeps ==
    ASSUME BlobInv, NEW u \in Uploads, SweepUnlink(u)
    PROVE  BlobInv'
<1> USE DEF BlobInv
<1>0. FileTypes /\ SetTypes
  BY TypesApart
<1>1. UNCHANGED <<row, minted, inode, owner, fd, blob, sidecar, mirror, req,
   overlap, parted, raced, dubious, acked, crashes, begun>>
  BY DEF SweepUnlink, fileVars, blobVars, reaperVars, sessionHist
<1>2. /\ u \in due /\ due' = due \ {u}
      /\ reaping = {} /\ reaping' = {u}
      /\ tmp'[u] = NoFile /\ \A v \in Uploads : v # u => tmp'[v] = tmp[v]
  BY <1>0 DEF SweepUnlink, FileTypes
<1>3. \A v \in Uploads : v # u => FileLen(v)' = FileLen(v)
  BY <1>1, <1>2 DEF FileLen
<1>4. \A v \in Uploads : v # u => (Quiet(v)' <=> Quiet(v))
  BY <1>1, <1>2 DEF Quiet, OnSession
<1>5. ~Quiet(u)'
  BY <1>2 DEF Quiet
<1>6. FileTypes'
  BY <1>0, <1>1 DEF SweepUnlink, FileTypes, Names
<1>7. TypeOK'
  BY <1>0, <1>1, <1>2, <1>6, OciBlobsAssumption, NoContents DEF TypeOK,
     FileTypes
<1>8. RequestShape' /\ OpenFiles' /\ ContentAddressed' /\ BytesFirst' /\
   StoredIsThere'
  BY <1>1 DEF RequestShape, OpAndPlace, SessionOps, PatchPlaces, PutPlaces,
     StorePlaces, DeletePlaces, Idle, OpenFiles, ContentAddressed,
     BytesFirst, OnDigest, Storing, StoredIsThere, AckedIsStored,
     MirrorHasBytes
<1>9. NamesDiffer'
  BY <1>1, <1>2, <1>3, <1>4, <1>5, <1>0 DEF NamesDiffer, OpenFiles
<1>10. Meetings'
  BY <1>1, <1>2, <1>3, <1>4, <1>5, <1>0 DEF Meetings, Storing
<1>11. FreshIsUnused'
  BY <1>1, <1>2, <1>3, <1>4, <1>5, <1>0 DEF FreshIsUnused, Open,
     RequestShape, OpAndPlace, SessionOps, PatchPlaces, PutPlaces,
     StorePlaces, DeletePlaces, Idle
<1>12. HashedStays'
  BY <1>1, <1>2, <1>3, <1>4, <1>5, <1>0 DEF SetTypes, Names, HashedStays,
     RequestShape, OpAndPlace, SessionOps, PatchPlaces, PutPlaces,
     StorePlaces, DeletePlaces, Idle, NamesDiffer, OpenFiles, Meetings,
     Storing
<1>13. SessionProgress'
  BY <1>1, <1>2, <1>3, <1>4, <1>5, <1>0 DEF SetTypes, Names, SessionProgress,
     Open, RequestShape, OpAndPlace, SessionOps, PatchPlaces, PutPlaces,
     StorePlaces, DeletePlaces, Idle, NamesDiffer, OpenFiles, Meetings,
     Storing, SessionAgrees, CursorAgrees, Disturbed, NoTmpLeak, OnSession,
     FreshIsUnused
<1>14. SweepProgress'
  BY <1>1, <1>2, <1>3, <1>4, <1>5, <1>0 DEF SweepProgress, RequestShape,
     OpAndPlace, SessionOps, PatchPlaces, PutPlaces, StorePlaces,
     DeletePlaces, Idle, Meetings, Storing
<1>15. SessionAgrees'
  BY <1>1, <1>2, <1>3, <1>4, <1>5, <1>0 DEF Names, SessionAgrees, CursorAgrees,
     Disturbed, NoTmpLeak, OnSession, Open, RequestShape, OpAndPlace,
     SessionOps, PatchPlaces, PutPlaces, StorePlaces, DeletePlaces, Idle,
     NamesDiffer, OpenFiles, Meetings, Storing, SessionProgress, SweepProgress,
     FreshIsUnused
<1> QED BY <1>7, <1>8, <1>9, <1>10, <1>11, <1>12, <1>13, <1>14, <1>15

LEMMA SweepUnlinkFailsKeeps ==
    ASSUME BlobInv, NEW u \in Uploads, SweepUnlinkFails(u)
    PROVE  BlobInv'
<1> USE DEF BlobInv
<1>0. FileTypes /\ SetTypes
  BY TypesApart
<1>1. UNCHANGED <<row, minted, tmp, inode, owner, fd, blob, sidecar, mirror,
   req, overlap, raced, dubious, acked, begun>>
  BY DEF SweepUnlinkFails, sessionVars, fileVars, blobVars
<1>2. /\ u \in due /\ due' = due \ {u}
      /\ reaping = {} /\ reaping' = {u}
      /\ parted' = parted \cup {u} /\ crashes' \in 0..MaxCrashes
  BY OciBlobsAssumption DEF SweepUnlinkFails, Fault, TypeOK
<1>3. \A v \in Uploads : FileLen(v)' = FileLen(v)
  BY <1>1 DEF FileLen
<1>4. \A v \in Uploads : v # u => (Quiet(v)' <=> Quiet(v))
  BY <1>1, <1>2 DEF Quiet, OnSession
<1>5. ~Quiet(u)'
  BY <1>2 DEF Quiet
<1>6. FileTypes'
  BY <1>0, <1>1 DEF FileTypes
<1>7. TypeOK'
  BY <1>0, <1>1, <1>2, <1>6, OciBlobsAssumption, NoContents DEF TypeOK,
     FileTypes
<1>8. RequestShape' /\ OpenFiles' /\ ContentAddressed' /\ BytesFirst' /\
   StoredIsThere'
  BY <1>1 DEF RequestShape, OpAndPlace, SessionOps, PatchPlaces, PutPlaces,
     StorePlaces, DeletePlaces, Idle, OpenFiles, ContentAddressed,
     BytesFirst, OnDigest, Storing, StoredIsThere, AckedIsStored,
     MirrorHasBytes
<1>9. NamesDiffer'
  BY <1>1, <1>2, <1>3, <1>4, <1>5, <1>0 DEF NamesDiffer, OpenFiles
<1>10. Meetings'
  BY <1>1, <1>2, <1>3, <1>4, <1>5, <1>0 DEF Meetings, Storing
<1>11. FreshIsUnused'
  BY <1>1, <1>2, <1>3, <1>4, <1>5, <1>0 DEF FreshIsUnused, Open,
     RequestShape, OpAndPlace, SessionOps, PatchPlaces, PutPlaces,
     StorePlaces, DeletePlaces, Idle
<1>12. HashedStays'
  BY <1>1, <1>2, <1>3, <1>4, <1>5, <1>0 DEF SetTypes, Names, HashedStays,
     RequestShape, OpAndPlace, SessionOps, PatchPlaces, PutPlaces,
     StorePlaces, DeletePlaces, Idle, NamesDiffer, OpenFiles, Meetings,
     Storing
<1>13. SessionProgress'
  BY <1>1, <1>2, <1>3, <1>4, <1>5, <1>0 DEF SetTypes, Names, SessionProgress,
     Open, RequestShape, OpAndPlace, SessionOps, PatchPlaces, PutPlaces,
     StorePlaces, DeletePlaces, Idle, NamesDiffer, OpenFiles, Meetings,
     Storing, SessionAgrees, CursorAgrees, Disturbed, NoTmpLeak, OnSession,
     FreshIsUnused
<1>14. SweepProgress'
  BY <1>1, <1>2, <1>3, <1>4, <1>5, <1>0 DEF SweepProgress, RequestShape,
     OpAndPlace, SessionOps, PatchPlaces, PutPlaces, StorePlaces,
     DeletePlaces, Idle, Meetings, Storing
<1>15. SessionAgrees'
  BY <1>1, <1>2, <1>3, <1>4, <1>5, <1>0 DEF Names, SessionAgrees, CursorAgrees,
     Disturbed, NoTmpLeak, OnSession, Open, RequestShape, OpAndPlace,
     SessionOps, PatchPlaces, PutPlaces, StorePlaces, DeletePlaces, Idle,
     NamesDiffer, OpenFiles, Meetings, Storing, SessionProgress, SweepProgress,
     FreshIsUnused
<1> QED BY <1>7, <1>8, <1>9, <1>10, <1>11, <1>12, <1>13, <1>14, <1>15

LEMMA SweepDeleteKeeps ==
    ASSUME BlobInv, NEW u \in Uploads, SweepDelete(u)
    PROVE  BlobInv'
<1> USE DEF BlobInv
<1>0. FileTypes /\ SetTypes
  BY TypesApart
<1>1. UNCHANGED <<minted, tmp, inode, owner, fd, blob, sidecar, mirror, req,
   due, overlap, parted, raced, dubious, acked, crashes, begun>>
  BY DEF SweepDelete, fileVars, blobVars, reaperVars, sessionHist
<1>2. /\ u \in reaping /\ reaping' = {}
      /\ row'[u].state = "none" /\ \A v \in Uploads : v # u => row'[v] = row[v]
  BY DEF SweepDelete, TypeOK, NoRow
<1>3. \A v \in Uploads : FileLen(v)' = FileLen(v)
  BY <1>1 DEF FileLen
<1>4. \A v \in Uploads : v # u => (Quiet(v)' <=> Quiet(v))
  BY <1>1, <1>2 DEF Quiet, OnSession, FreshIsUnused
<1>5. row' \in [Uploads -> [state : {"none", "live", "expired"}, bytes : Nat]]
  BY DEF SweepDelete, TypeOK, NoRow
<1>6. TypeOK'
  BY <1>0, <1>1, <1>2, <1>5, OciBlobsAssumption, NoContents DEF TypeOK
<1>7. RequestShape' /\ NamesDiffer' /\ OpenFiles' /\ HashedStays' /\
   ContentAddressed' /\ BytesFirst' /\ StoredIsThere'
  BY <1>1 DEF RequestShape, OpAndPlace, SessionOps, PatchPlaces, PutPlaces,
     StorePlaces, DeletePlaces, Idle, NamesDiffer, OpenFiles, HashedStays,
     ContentAddressed, BytesFirst, OnDigest, Storing, StoredIsThere,
     AckedIsStored, MirrorHasBytes
<1>8. Meetings'
  BY <1>1, <1>2, <1>3, <1>4, <1>0 DEF Meetings, Storing
<1>9. FreshIsUnused'
  BY <1>1, <1>2, <1>3, <1>4, <1>0 DEF FreshIsUnused, Open, RequestShape,
     OpAndPlace, SessionOps, PatchPlaces, PutPlaces, StorePlaces,
     DeletePlaces, Idle
<1>10. SessionProgress'
  BY <1>1, <1>2, <1>3, <1>4, <1>0 DEF SetTypes, Names, SessionProgress,
     Open, RequestShape, OpAndPlace, SessionOps, PatchPlaces, PutPlaces,
     StorePlaces, DeletePlaces, Idle, NamesDiffer, OpenFiles, Meetings,
     Storing, SessionAgrees, CursorAgrees, Disturbed, NoTmpLeak, OnSession,
     FreshIsUnused
<1>11. SweepProgress'
  BY <1>1, <1>2, <1>3, <1>4, <1>0 DEF SweepProgress, RequestShape,
     OpAndPlace, SessionOps, PatchPlaces, PutPlaces, StorePlaces,
     DeletePlaces, Idle, Meetings, Storing
<1>12. SessionAgrees'
  BY <1>1, <1>2, <1>3, <1>4, <1>0 DEF Names, SessionAgrees, CursorAgrees,
     Disturbed, NoTmpLeak, OnSession, Open, RequestShape, OpAndPlace,
     SessionOps, PatchPlaces, PutPlaces, StorePlaces, DeletePlaces, Idle,
     NamesDiffer, OpenFiles, Meetings, Storing, SessionProgress, SweepProgress,
     FreshIsUnused
<1> QED BY <1>6, <1>7, <1>8, <1>9, <1>10, <1>11, <1>12

LEMMA CrashKeeps ==
    ASSUME BlobInv, Crash
    PROVE  BlobInv'
<1> USE DEF BlobInv
<1>0. FileTypes /\ SetTypes
  BY TypesApart
<1>1. UNCHANGED <<row, minted, tmp, inode, owner, blob, sidecar, mirror,
   overlap, acked, begun>>
  BY DEF Crash, sessionVars, fileVars, blobVars, reaperVars, sessionHist
<1>2. /\ \A r \in Requests : req'[r] = Idle /\ fd'[r] = NoFile
      /\ \A r \in Requests : req'[r].op = "idle" /\ req'[r].at =
           "idle" /\ req'[r].up = {}
      /\ due' = {} /\ reaping' = {} /\ dubious' = {}
  BY DEF Crash, Idle
<1>3. /\ parted \subseteq parted' /\ raced \subseteq raced'
      /\ \A u \in Uploads : u \in reaping => u \in parted'
      /\ \A r \in Requests, u \in Uploads : u \in req[r].up
           /\ req[r].at \in {"cursor", "meta", "access", "readMeta", "record"} =>
             u \in parted'
      /\ \A r \in Requests : req[r].op = "delete" => req[r].digest \in raced'
  BY DEF Crash, HalfDone, OnSession
<1>4. \A v \in Uploads : FileLen(v)' = FileLen(v)
  BY <1>1 DEF FileLen
<1>5. Idle \in Handlers
  BY NoContents DEF Idle, Handlers, Ops, Places
<1>6. /\ parted' \subseteq Uploads /\ raced' \subseteq Digests
      /\ req' \in [Requests -> Handlers] /\ fd' \in [Requests -> Names]
      /\ crashes' \in 0..MaxCrashes
  BY <1>5, OciBlobsAssumption DEF Crash, Fault, TypeOK, RequestShape, Names
<1>7. TypeOK'
  BY <1>0, <1>1, <1>2, <1>6, OciBlobsAssumption, NoContents DEF TypeOK
<1>8. NamesDiffer'
  BY <1>1 DEF NamesDiffer
<1>9. RequestShape'
  BY <1>1, <1>2, <1>3, <1>4 DEF RequestShape, OpAndPlace, SessionOps,
     PatchPlaces, PutPlaces, StorePlaces, DeletePlaces, Idle
<1>10. OpenFiles'
  BY <1>1, <1>2, <1>3, <1>4, <1>0 DEF OpenFiles, RequestShape, OpAndPlace,
     SessionOps, PatchPlaces, PutPlaces, StorePlaces, DeletePlaces, Idle,
     NamesDiffer, Meetings, Storing
<1>11. Meetings'
  BY <1>1, <1>2, <1>3, <1>4, <1>0 DEF Meetings, Storing
<1>12. FreshIsUnused'
  BY <1>1, <1>2, <1>3, <1>4, <1>0 DEF FreshIsUnused, Open, RequestShape,
     OpAndPlace, SessionOps, PatchPlaces, PutPlaces, StorePlaces,
     DeletePlaces, Idle
<1>13. HashedStays'
  BY <1>1, <1>2, <1>3, <1>4, <1>0 DEF Names, HashedStays, RequestShape,
     OpAndPlace, SessionOps, PatchPlaces, PutPlaces, StorePlaces,
     DeletePlaces, Idle, NamesDiffer, OpenFiles, Meetings, Storing
<1>14. ContentAddressed'
  BY <1>1, <1>2, <1>3, <1>4, <1>0 DEF ContentAddressed, RequestShape,
     OpAndPlace, SessionOps, PatchPlaces, PutPlaces, StorePlaces,
     DeletePlaces, Idle, NamesDiffer, OpenFiles, HashedStays
<1>15. BytesFirst'
  BY <1>1, <1>2, <1>3, <1>4, <1>0 DEF BytesFirst, OnDigest, Storing,
     RequestShape, OpAndPlace, SessionOps, PatchPlaces, PutPlaces,
     StorePlaces, DeletePlaces, Idle, Meetings
<1>16. StoredIsThere'
  BY <1>1, <1>2, <1>3, <1>4, <1>0 DEF Names, StoredIsThere, AckedIsStored,
     MirrorHasBytes, OnDigest, RequestShape, OpAndPlace, SessionOps,
     PatchPlaces, PutPlaces, StorePlaces, DeletePlaces, Idle, Meetings,
     Storing, BytesFirst
<1>17. SessionProgress'
  BY <1>1, <1>2, <1>3, <1>4, <1>0 DEF Names, SessionProgress, Open,
     RequestShape, OpAndPlace, SessionOps, PatchPlaces, PutPlaces,
     StorePlaces, DeletePlaces, Idle, NamesDiffer, OpenFiles, Meetings,
     Storing, SessionAgrees, CursorAgrees, Disturbed, NoTmpLeak, OnSession,
     FreshIsUnused
<1>18. SweepProgress'
  BY <1>1, <1>2, <1>3, <1>4, <1>0 DEF SweepProgress, RequestShape,
     OpAndPlace, SessionOps, PatchPlaces, PutPlaces, StorePlaces,
     DeletePlaces, Idle, Meetings, Storing
<1>19. SessionAgrees'
  <2>1. ASSUME NEW u \in Uploads, ~Disturbed(u)'
        PROVE  /\ u \notin reaping /\ ~Disturbed(u)
               /\ \/ Quiet(u)
                  \/ Open(u) /\ row[u].bytes = FileLen(u)
    <3>1. u \notin reaping /\ ~Disturbed(u)
      BY <1>1, <1>3, <2>1 DEF Disturbed
    <3>2. ASSUME NEW r \in Requests, u \in req[r].up
          PROVE  Open(u) /\ row[u].bytes = FileLen(u)
      <4>1. req[r].op \in SessionOps
        BY <3>2 DEF RequestShape
      <4>2. req[r].at \in {"open", "write", "hash", "dedupe", "rename", "drop"}
        BY <1>3, <2>1, <3>2, <4>1 DEF Disturbed, RequestShape, OpAndPlace,
           SessionOps, PatchPlaces, PutPlaces
      <4> QED BY <3>1, <3>2, <4>2 DEF SessionProgress, Disturbed
    <3> QED BY <3>1, <3>2 DEF Quiet, OnSession
  <2> QED BY <1>1, <1>4, <2>1 DEF SessionAgrees, CursorAgrees, NoTmpLeak, Open
<1> QED BY <1>7, <1>8, <1>9, <1>10, <1>11, <1>12, <1>13, <1>14, <1>15,
     <1>16, <1>17, <1>18, <1>19
-----------------------------------------------------------------------------
(***************************************************************************)
(* The blob store as a whole.                                              *)
(***************************************************************************)

LEMMA BlobInit == Init => BlobInv
<1> SUFFICES ASSUME Init PROVE BlobInv
  OBVIOUS
<1>1. /\ \A r \in Requests : req[r] = Idle /\ fd[r] = NoFile
      /\ \A u \in Uploads : row[u] = NoRow /\ tmp[u] = NoFile
      /\ \A d \in Digests : blob[d] = NoFile
  BY DEF Init
<1>2. TypeOK
  <2>1. Idle \in Handlers
    BY NoContents DEF Idle, Handlers, Ops, Places
  <2> QED BY <2>1, NoContents, OciBlobsAssumption DEF Init, TypeOK, NoRow,
       Names
<1>3. RequestShape
  BY <1>1 DEF RequestShape, OpAndPlace, Idle, SessionOps
<1>4. NamesDiffer /\ OpenFiles /\ HashedStays /\ ContentAddressed
  BY <1>1 DEF NamesDiffer, OpenFiles, HashedStays, ContentAddressed, Idle
<1>5. Meetings /\ FreshIsUnused /\ SweepProgress
  BY <1>1 DEF Init, Meetings, FreshIsUnused, SweepProgress, Idle, Open,
     NoRow, Storing
<1>6. BytesFirst /\ StoredIsThere
  BY <1>1 DEF Init, BytesFirst, StoredIsThere, AckedIsStored,
     MirrorHasBytes, Idle, Storing
<1>7. SessionProgress /\ SessionAgrees
  BY <1>1 DEF SessionProgress, SessionAgrees, CursorAgrees, Disturbed,
     NoTmpLeak, Idle, Open, NoRow
<1> QED BY <1>2, <1>3, <1>4, <1>5, <1>6, <1>7 DEF BlobInv

LEMMA StutterKeeps ==
    ASSUME BlobInv, UNCHANGED vars
    PROVE  BlobInv'
<1>1. UNCHANGED <<row, minted, tmp, inode, owner, fd, blob, sidecar, mirror,
                  req, due, reaping, overlap, parted, raced, dubious, acked,
                  crashes, begun>>
  BY DEF vars, sessionVars, fileVars, blobVars, reaperVars, sessionHist
<1>2. TypeOK' /\ RequestShape' /\ NamesDiffer' /\ OpenFiles'
  BY <1>1 DEF BlobInv, TypeOK, RequestShape, NamesDiffer, OpenFiles
<1>3. Meetings' /\ FreshIsUnused' /\ HashedStays' /\ ContentAddressed'
  BY <1>1 DEF BlobInv, Meetings, FreshIsUnused, HashedStays,
     ContentAddressed, Open
<1>4. BytesFirst' /\ StoredIsThere'
  BY <1>1 DEF BlobInv, BytesFirst, StoredIsThere, AckedIsStored,
     MirrorHasBytes, OnDigest
<1>5. SessionProgress' /\ SweepProgress' /\ SessionAgrees'
  BY <1>1 DEF BlobInv, SessionProgress, SweepProgress, SessionAgrees,
     CursorAgrees, Disturbed, NoTmpLeak, Quiet, OnSession, FileLen, Open
<1> QED BY <1>2, <1>3, <1>4, <1>5 DEF BlobInv

\* The first chunk of a body.
LEMMA OneChunk ==
    ASSUME NEW c \in Chunks
    PROVE  <<c>> \in Contents /\ Len(<<c>>) = 1
<1>1. <<c>> \in Seq(Chunks) /\ Len(<<c>>) = 1
  OBVIOUS
<1> QED BY ContentsAreShort, OciBlobsAssumption

LEMMA BeginTypes ==
    ASSUME TypeOK, NEW n \in Nat, begun + n < MaxRequests, begun' = begun + 1
    PROVE  begun' \in 0..MaxRequests
  BY OciBlobsAssumption DEF TypeOK

LEMMA PatchBeginKeeps ==
    ASSUME BlobInv, NEW r \in Requests, NEW u \in Uploads, NEW c \in Chunks,
           PatchBegin(r, u, c)
    PROVE  BlobInv'
<1>1. /\ Open(u) /\ Enter(r, "patch", "open", {u}, <<>>, <<c>>, row[u].bytes)
      /\ begun' \in 0..MaxRequests
  BY BeginTypes, OciBlobsAssumption DEF PatchBegin, Begin, BlobInv, TypeOK
<1>2. UNCHANGED <<row, minted, tmp, inode, owner, fd, blob, sidecar, mirror,
                  due, reaping, acked, crashes>>
  BY DEF PatchBegin, sessionVars, fileVars, blobVars, reaperVars, sessionHist
<1>3. "patch" \in SessionOps /\ "open" \in {"open", "hash"} /\ "patch" # "put"
  BY DEF SessionOps
<1> QED BY <1>1, <1>2, <1>3, OneChunk, NoContents, SessionEnterKeeps

LEMMA PutBeginKeeps ==
    ASSUME BlobInv, NEW r \in Requests, NEW u \in Uploads, NEW d \in Digests,
           PutBegin(r, u, d)
    PROVE  BlobInv'
<1>1. Open(u) /\ begun' \in 0..MaxRequests
  <2>1. crashes \in Nat /\ TypeOK
    BY OciBlobsAssumption DEF BlobInv, TypeOK
  <2>2. begun + crashes < MaxRequests /\ begun' = begun + 1
    BY DEF PutBegin, Begin
  <2> QED BY <2>1, <2>2, BeginTypes DEF PutBegin
<1>2. UNCHANGED <<row, minted, tmp, inode, owner, fd, blob, sidecar, mirror,
                  due, reaping, acked, crashes>>
  BY DEF PutBegin, sessionVars, fileVars, blobVars, reaperVars, sessionHist
<1>3. /\ "put" \in SessionOps /\ "put" # "patch" /\ "hash" # "open"
      /\ d \in Contents
  BY DEF SessionOps, Digests
<1>4. CASE Enter(r, "put", "hash", {u}, d, <<>>, row[u].bytes)
  BY <1>1, <1>2, <1>3, <1>4, NoContents, SessionEnterKeeps
<1>5. ASSUME NEW c \in Chunks, Enter(r, "put", "open", {u}, d, <<c>>,
             row[u].bytes)
      PROVE  BlobInv'
  BY <1>1, <1>2, <1>3, <1>5, OneChunk, SessionEnterKeeps
<1> QED BY <1>4, <1>5 DEF PutBegin, Begin

LEMMA StoreBeginKeeps ==
    ASSUME BlobInv, NEW r \in Requests, NEW d \in Digests, StoreBegin(r, d)
    PROVE  BlobInv'
<1>1. begun' \in 0..MaxRequests /\ StoreEnter(r, d)
  BY OciBlobsAssumption DEF StoreBegin, BlobInv, TypeOK
<1> QED BY <1>1, StoreEnterKeeps

LEMMA StoreAloneKeeps ==
    ASSUME BlobInv, NEW r \in Requests, NEW d \in Digests, StoreEnter(r, d),
           UNCHANGED begun
    PROVE  BlobInv'
<1>1. begun' \in 0..MaxRequests
  BY DEF BlobInv, TypeOK
<1> QED BY <1>1, StoreEnterKeeps

LEMMA HandleKeeps ==
    ASSUME BlobInv, NEW r \in Requests, Handle(r)
    PROVE  BlobInv'
  BY AppendOpenKeeps, AppendWriteKeeps, AppendDoneKeeps, HashAssembledKeeps,
     DedupeKeeps, DropTmpKeeps, PromoteKeeps, StoreRenameKeeps,
     WriteMetaKeeps, AccessKeeps, ReadMetaKeeps, RecordKeeps, UnlinkKeeps,
     UnlinkMetaKeeps, UnrecordKeeps DEF Handle

LEMMA FailsKeeps ==
    ASSUME BlobInv, NEW r \in Requests, Fails(r)
    PROVE  BlobInv'
  BY AppendFailsKeeps, HandlerThrowsKeeps, DropTmpFailsKeeps,
     WriteMetaFailsKeeps, AccessFailsKeeps, UnlinkFailsKeeps,
     UnlinkMetaFailsKeeps DEF Fails

LEMMA RequestKeeps ==
    ASSUME BlobInv, NEW r \in Requests, Request(r)
    PROVE  BlobInv'
  BY PatchBeginKeeps, PutBeginKeeps, StoreBeginKeeps, DeleteBeginKeeps,
     OciBlobsAssumption DEF Request

LEMMA BlobNext ==
    ASSUME BlobInv, Next
    PROVE  BlobInv'
<1>1. ASSUME Sweep PROVE BlobInv'
  BY <1>1, SweepBeginKeeps, SweepUnlinkKeeps, SweepDeleteKeeps DEF Sweep
<1> QED BY <1>1, PostUploadKeeps, ExpireKeeps, RequestKeeps, HandleKeeps,
     FailsKeeps, SweepUnlinkFailsKeeps, CrashKeeps DEF Next

-----------------------------------------------------------------------------
(***************************************************************************)
(* The registry over the blob store.                                       *)
(***************************************************************************)

\* What the registry does to its blob store: a step of the store, a putBlob
\* or a DELETE of its own, or nothing.
BlobStep ==
    \/ Next
    \/ \E r \in Requests, d \in Digests :
         \/ StoreEnter(r, d) /\ UNCHANGED begun
         \/ StoreBegin(r, d)
         \/ DeleteBegin(r, d)
    \/ UNCHANGED vars

UpstreamType == upstream \in [Versions -> Contents]

LEMMA RestIsVars == UNCHANGED ociRest => UNCHANGED vars
  BY DEF ociRest, vars

LEMMA PackageRequestStep ==
    ASSUME NEW r \in Requests, PackageRequest(r)
    PROVE  BlobStep
<1>1. ASSUME NEW v \in Asked, NEW d \in Digests, PublishBegin(r, v, d)
      PROVE  BlobStep
  BY <1>1 DEF PublishBegin, BlobStep
<1>2. ASSUME ReadIndex(r)
      PROVE  BlobStep
  BY <1>2, RestIsVars DEF ReadIndex, BlobStep
<1>3. ASSUME NEW v \in Asked, NEW loc, Download(r, v, loc)
      PROVE  BlobStep
  BY <1>3, RestIsVars DEF Download, BlobStep
<1>4. ASSUME NEW d \in Digests, DeletePackageBlob(r, d)
      PROVE  BlobStep
  BY <1>4 DEF DeletePackageBlob, BlobStep
<1> QED BY <1>1, <1>2, <1>3, <1>4 DEF PackageRequest, NpmPackument,
     CargoSparseIndex, PypiSimple, NugetIndex, MavenMetadata, NpmTarball,
     CargoDownload, PypiFile, NugetNupkg, ServeArtifact

LEMMA RecordStep ==
    ASSUME NEW r \in Requests, Record(r)
    PROVE  BlobStep
  BY DEF BlobStep, Next, Handle

\* Only what the upstream has is fetched and stored.
LEMMA HandlePackageStep ==
    ASSUME UpstreamType, NEW r \in Requests, HandlePackage(r)
    PROVE  BlobStep
<1>0. \A v \in Offered : upstream[v] \in Digests
  BY DEF Offered, UpstreamType, Digests, Absent
<1>1. ASSUME NEW op, Stored(r, op)
      PROVE  BlobStep
  BY <1>1, RecordStep DEF Stored
<1>2. ASSUME UNCHANGED ociRest
      PROVE  BlobStep
  BY <1>2, RestIsVars DEF BlobStep
<1>3. CASE NpmPublish(r) \/ CargoPublish(r) \/ PypiPublish(r)
             \/ NugetPublish(r) \/ MavenPublish(r)
  BY <1>1, <1>3 DEF NpmPublish, CargoPublish, PypiPublish, NugetPublish,
     MavenPublish, PublishNew, PublishOnce
<1>4. CASE IndexUnavailable(r) \/ ProxyNpmPackument(r)
             \/ ProxyCargoSparseIndex(r) \/ ProxyPypiPackage(r)
             \/ ProxyMavenMetadata(r) \/ ProxyNugetVersionIndex(r)
  BY <1>2, <1>4 DEF IndexUnavailable, ProxyNpmPackument,
     ProxyCargoSparseIndex, ProxyPypiPackage, ProxyMavenMetadata,
     ProxyNugetVersionIndex, ListIfNew, Fetched
<1>5. CASE Hydrate(r)
  <2>1. ASSUME NEW v \in Versions, v \in Offered, StoreEnter(r, upstream[v]),
               UNCHANGED begun
        PROVE  BlobStep
    BY <1>0, <2>1 DEF BlobStep
  <2> QED BY <1>2, <1>5, <2>1 DEF Hydrate
<1>6. CASE HydrateStored(r)
  BY <1>1, <1>6 DEF HydrateStored
<1>7. CASE StatFile(r) \/ OpenBlob(r) \/ FetchFileFails(r)
  BY <1>2, <1>7 DEF StatFile, OpenBlob, FetchFileFails
<1>8. CASE FetchFile(r)
  BY <1>0, <1>8 DEF FetchFile, ProxyStore, BlobStep
<1>9. CASE ProxyNpmTarball(r) \/ ProxyCargoDownload(r) \/ ProxyPypiFile(r)
             \/ ProxyNugetNupkg(r) \/ ProxyMavenArtifact(r)
  BY <1>1, <1>9 DEF ProxyNpmTarball, ProxyCargoDownload, ProxyPypiFile,
     ProxyNugetNupkg, ProxyMavenArtifact, PutAndOpen, ServeStored
<1> QED BY <1>3, <1>4, <1>5, <1>6, <1>7, <1>8, <1>9 DEF HandlePackage

LEMMA ImagesStep ==
    ASSUME ImagesNext
    PROVE  BlobStep
<1>1. ASSUME UNCHANGED ociRest
      PROVE  BlobStep
  BY <1>1, RestIsVars DEF BlobStep
<1>2. ASSUME NEW r \in Requests, NEW m \in Manifests,
             NEW t \in Tags \cup {None}, PutImage(r, m, t) \/ ServeManifest(r,
                 m, t)
      PROVE  BlobStep
  BY <1>1, <1>2 DEF PutImage, ServeManifest, AcceptImage
<1>3. ASSUME NEW r \in Requests,
             PutImageStat(r) \/ ProxyOciManifest(r) \/ ProxyOciManifestFails(r)
      PROVE  BlobStep
  BY <1>1, <1>3 DEF PutImageStat, ProxyOciManifest, ProxyOciManifestFails
<1>4. ASSUME NEW t \in Tags, DeleteTag(t)
      PROVE  BlobStep
  BY <1>1, <1>4 DEF DeleteTag, AcceptImage
<1>5. ASSUME NEW m \in Manifests, DeleteDigest(m) \/ AdminDelete(m)
      PROVE  BlobStep
  BY <1>1, <1>5 DEF DeleteDigest, AdminDelete, AcceptImage
<1>6. ASSUME NEW r \in Requests, NEW d \in Layers,
             StoreLayer(r, d) \/ DeleteLayer(r, d)
      PROVE  BlobStep
  <2>1. d \in Digests
    BY OciManifestsAssumption DEF Layers
  <2> QED BY <1>6, <2>1 DEF StoreLayer, DeleteLayer, BlobStep
<1>7. ASSUME NEW r \in Requests, LayerStep(r)
      PROVE  BlobStep
  BY <1>7 DEF LayerStep, BlobStep, Next, Handle
<1>8. CASE CrashImages
  BY <1>8 DEF CrashImages, BlobStep, Next
<1> QED BY <1>2, <1>3, <1>4, <1>5, <1>6, <1>7, <1>8 DEF ImagesNext

LEMMA RegistryStep ==
    ASSUME UpstreamType, [RegistryNext]_registryVars
    PROVE  BlobStep
<1>1. CASE Oci(Next)
  BY <1>1 DEF Oci, BlobStep
<1>2. ASSUME NEW r \in Requests, StoreStep(r)
      PROVE  BlobStep
  BY <1>2 DEF StoreStep, Blobs, BlobStep, Next, Handle
<1>3. ASSUME NEW v \in Asked, NEW b \in BOOLEAN, MutateYank(v, b)
      PROVE  BlobStep
  BY <1>3, RestIsVars DEF MutateYank, BlobStep
<1>4. CASE CrashPackages
  BY <1>4 DEF CrashPackages, BlobStep, Next
<1>5. CASE PackagesNext
  BY <1>1, <1>2, <1>3, <1>4, <1>5, PackageRequestStep, HandlePackageStep DEF
     PackagesNext
<1>6. CASE UNCHANGED registryVars
  BY <1>6 DEF registryVars, allVars, BlobStep
<1> QED BY <1>5, <1>6, ImagesStep DEF RegistryNext

LEMMA BlobStepKeeps ==
    ASSUME BlobInv, BlobStep
    PROVE  BlobInv'
  BY BlobNext, StoreAloneKeeps, StoreBeginKeeps, DeleteBeginKeeps,
     StutterKeeps DEF BlobStep

\* Package requests, and what they leave in the history, are those of a
\* behaviour about packages.
NoJobsOutside ==
    scope \notin Protocols =>
        /\ \A r \in Requests : job[r] = NoJob
        /\ \A v \in Versions : told[v] = {}
        /\ withdrawn = {}

\* Outside the sessions of OCI clients every DELETE is in the history.
DeletesKnown ==
    /\ \A r \in Requests : req[r].op = "delete" => req[r].digest \in gone
    /\ raced \subseteq gone

\* A blob is on disk, or somebody asked for its deletion.
Present(d) == blob[d] # NoFile \/ d \in gone

\* What the store does to its files outside DELETE: nothing disappears.
NoNewDelete ==
    \A x \in Requests : req'[x].op = "delete" =>
        req[x].op = "delete" /\ req'[x].digest = req[x].digest
OnlyDeleted ==
    \A d \in Digests : blob[d] # NoFile =>
        blob'[d] # NoFile \/ OnDigest(d, {"delete"}) # {}

\* Nobody uploads through a session in a behaviour about packages or images.
NoSessions ==
    /\ \A r \in Requests : req[r].op \in {"idle", "store", "delete"}
    /\ due = {} /\ reaping = {} /\ overlap = {} /\ parted = {}

StoreInv == scope # "oci" => DeletesKnown /\ NoSessions

\* The blob store's part in packages and images.
StoreSide(r) ==
    \/ Dedupe(r) \/ DropTmp(r) \/ StoreRename(r) \/ WriteMeta(r) \/ Record(r)
    \/ Unlink(r) \/ UnlinkMeta(r) \/ Unrecord(r)

\* What a request of the store does to itself, to the other requests and to
\* the files.
LEMMA StoreSideEffect ==
    ASSUME BlobInv, NEW r \in Requests, StoreSide(r)
    PROVE  /\ \A x \in Requests : x # r => req'[x] = req[x]
           /\ \/ req'[r].op = "idle"
              \/ req'[r].op = req[r].op /\ req'[r].digest = req[r].digest
           /\ req[r].at \notin {"record", "unrecord"} =>
                req'[r].op = req[r].op /\ req'[r].digest = req[r].digest
           /\ UNCHANGED <<due, reaping, overlap, parted>>
           /\ raced' \subseteq raced
           /\ OnlyDeleted
<1> USE DEF OnlyDeleted
<1>0. FileTypes /\ SetTypes /\ TypeOK
  BY TypesApart DEF BlobInv
<1>1. CASE Dedupe(r)
  BY <1>0, <1>1, MoveEffect DEF Dedupe, Places, blobVars, reaperVars,
     sessionHist
<1>2. CASE DropTmp(r)
  BY <1>0, <1>2, GotoEffect DEF DropTmp, AfterFile, Places, blobVars,
     reaperVars, sessionHist
<1>3. CASE StoreRename(r)
  <2>1. PICK i \in Free : blob' = [blob EXCEPT ![req[r].digest] = i]
    BY <1>3 DEF StoreRename
  <2>2. i # NoFile
    BY OciBlobsAssumption DEF Free, Inodes, NoFile
  <2>3. /\ \A x \in Requests : x # r => req'[x] = req[x]
        /\ req'[r].op = req[r].op /\ req'[r].digest = req[r].digest
        /\ UNCHANGED <<due, reaping, overlap, parted>>
        /\ raced' \subseteq raced
    BY <1>0, <1>3, GotoEffect DEF StoreRename, Settled, Places, reaperVars,
       sessionHist
  <2>4. \A d \in Digests : blob[d] # NoFile => blob'[d] # NoFile
    BY <2>1, <2>2
  <2> QED BY <2>3, <2>4
<1>4. CASE WriteMeta(r)
  BY <1>0, <1>4, GotoEffect DEF WriteMeta, AfterFile, Places, reaperVars,
     sessionHist
<1>5. CASE Record(r)
  <2>1. /\ End(r) /\ UNCHANGED <<due, reaping, overlap, parted, raced, blob>>
        /\ req[r].at = "record"
    BY <1>5 DEF Record, Answer, reaperVars, sessionHist
  <2> QED BY <1>0, <2>1, EndEffect
<1>6. CASE Unlink(r)
  <2>1. req[r].op = "delete"
    BY <1>0, <1>6 DEF Unlink, BlobInv, RequestShape, OpAndPlace, Idle,
       PatchPlaces, PutPlaces, StorePlaces, SetTypes, Ops
  <2>2. /\ \A x \in Requests : x # r => req'[x] = req[x]
        /\ req'[r].op = req[r].op /\ req'[r].digest = req[r].digest
        /\ UNCHANGED <<due, reaping, overlap, parted, raced>>
    BY <1>0, <1>6, GotoEffect DEF Unlink, Places, reaperVars, sessionHist
  <2>3. \A d \in Digests : blob[d] # NoFile => blob'[d] # NoFile \/ d =
            req[r].digest
    BY <1>6 DEF Unlink
  <2> QED BY <2>1, <2>2, <2>3 DEF OnDigest
<1>7. CASE UnlinkMeta(r)
  BY <1>0, <1>7, GotoEffect DEF UnlinkMeta, Places, reaperVars, sessionHist
<1>8. CASE Unrecord(r)
  BY <1>0, <1>8, EndEffect DEF Unrecord, reaperVars, sessionHist
<1> QED BY <1>1, <1>2, <1>3, <1>4, <1>5, <1>6, <1>7, <1>8 DEF StoreSide

LEMMA StoreSideKnown ==
    ASSUME BlobInv, StoreInv, scope # "oci", NEW r \in Requests, StoreSide(r),
           UNCHANGED <<gone, scope>>
    PROVE  StoreInv' /\ NoNewDelete /\ OnlyDeleted
  BY StoreSideEffect DEF StoreInv, DeletesKnown, NoSessions, NoNewDelete

LEMMA StoreEnterKnown ==
    ASSUME BlobInv, StoreInv, scope # "oci", NEW r \in Requests,
           NEW d \in Digests, StoreEnter(r, d), UNCHANGED <<gone, scope>>
    PROVE  /\ StoreInv' /\ NoNewDelete /\ OnlyDeleted
           /\ UNCHANGED <<blob, acked>>
           /\ \A x \in Requests : x # r => req'[x] = req[x]
           /\ req'[r].op = "store" /\ req'[r].digest = d
<1>1. /\ \A x \in Requests : x # r => req'[x] = req[x]
      /\ req'[r].op = "store" /\ req'[r].digest = d
  BY DEF StoreEnter, Enter, BlobInv, TypeOK
<1>2. raced' \subseteq raced \cup {req[x].digest : x \in OnDigest(d,
          {"delete"})}
  BY DEF StoreEnter, Enter, Meet, OnDigest
<1>3. /\ UNCHANGED <<blob, acked, due, reaping>>
      /\ overlap' = overlap /\ parted' = parted
  BY DEF StoreEnter, blobVars, reaperVars, sessionHist, Enter, Meet
<1> QED BY <1>1, <1>2, <1>3 DEF StoreInv, DeletesKnown, NoSessions,
     NoNewDelete, OnlyDeleted, OnDigest

LEMMA DeleteBeginKnown ==
    ASSUME BlobInv, StoreInv, scope # "oci", NEW r \in Requests,
           NEW d \in Digests, DeleteBegin(r, d), gone' = gone \cup {d},
           UNCHANGED scope
    PROVE  /\ StoreInv' /\ OnlyDeleted /\ UNCHANGED blob
           /\ \A x \in Requests : x # r => req'[x] = req[x]
           /\ req[r] = Idle /\ req'[r].op = "delete" /\ req'[r].digest = d
<1>1. /\ \A x \in Requests : x # r => req'[x] = req[x]
      /\ req[r] = Idle /\ req'[r].op = "delete" /\ req'[r].digest = d
  BY DEF DeleteBegin, Begin, Enter, BlobInv, TypeOK
<1>2. raced' \subseteq raced \cup {d}
  BY DEF DeleteBegin, Begin, Enter, Meet
<1>3. UNCHANGED <<blob, due, reaping>>
  BY DEF DeleteBegin, blobVars, reaperVars, sessionHist
<1>4. \A x \in Requests : req[x].up = {}
  BY DEF BlobInv, RequestShape, SessionOps, StoreInv, NoSessions
<1>5. overlap' = overlap /\ parted' = parted
  BY <1>4 DEF DeleteBegin, Begin, Enter, Meet, OnDigest
<1> QED BY <1>1, <1>2, <1>3, <1>5 DEF StoreInv, DeletesKnown, NoSessions,
     OnlyDeleted

LEMMA CrashKnown ==
    ASSUME BlobInv, StoreInv, scope # "oci", Crash, UNCHANGED <<gone, scope>>
    PROVE  StoreInv' /\ NoNewDelete /\ OnlyDeleted
<1>1. \A u \in Uploads : ~HalfDone(u)
  BY DEF BlobInv, RequestShape, SessionOps, StoreInv, NoSessions, HalfDone,
     OnSession
<1>2. /\ \A x \in Requests : req'[x].op = "idle"
      /\ due' = {} /\ reaping' = {} /\ UNCHANGED <<overlap, parted, blob>>
      /\ raced' = raced \cup {req[x].digest : x \in
                                {y \in Requests : req[y].op = "delete"}}
  BY <1>1 DEF Crash, Idle, blobVars
<1> QED BY <1>2 DEF StoreInv, DeletesKnown, NoSessions, NoNewDelete,
     OnlyDeleted

LEMMA UnchangedKnown ==
    ASSUME StoreInv, UNCHANGED <<vars, gone, scope>>
    PROVE  StoreInv' /\ NoNewDelete /\ OnlyDeleted
  BY DEF vars, blobVars, reaperVars, sessionHist, StoreInv, DeletesKnown,
     NoSessions, NoNewDelete, OnlyDeleted

-----------------------------------------------------------------------------
(***************************************************************************)
(* Images.                                                                 *)
(***************************************************************************)

\* A push that stands has its manifest: deleting the manifest ends it.
PushedIsHere == \A t \in Tags : pushed[t] # None => pushed[t] \in mani

\* A GET that is out upstream for a tag found the tag empty, and every push
\* since then is in the history.
FetchMeetsPush ==
    \A r \in Requests, t \in Tags : pull[r].at = "fetch" /\ pull[r].t = t =>
        pushed[t] = None \/ t \in overtaken

\* What PutImage found before it went to the disk is still true or deleted.
StatIsSound ==
    \A r \in Requests : pull[r].at = "stat" =>
        /\ pull[r].m \in Manifests
        /\ ChildrenOf[pull[r].m] \subseteq mani \cup dropped
        /\ \A d \in BlobsOf[pull[r].m] \ pull[r].missing : Present(d)

NoImagesOutside ==
    scope # "images" => vouched = {} /\ \A r \in Requests : pull[r] = NoPull

ImageInv ==
    /\ ImagesTypeOK
    /\ TagResolves /\ PushedIsHere /\ PushedTagStays /\ FetchMeetsPush
    /\ ImageIsWhole /\ StatIsSound
    /\ NoImagesOutside

\* Steps that only move blobs.
LEMMA BlobsMoveKeeps ==
    ASSUME ImageInv, UNCHANGED <<imageVars, scope>>,
           scope = "images" => \A d \in Digests : Present(d) => Present(d)'
    PROVE  ImageInv'
<1>1. UNCHANGED <<remote, mani, tag, pull, pushed, overtaken, vouched,
                  dropped, purged, scope>>
  BY DEF imageVars, imageHist
<1>2. ImagesTypeOK' /\ TagResolves' /\ PushedIsHere' /\ PushedTagStays'
        /\ FetchMeetsPush' /\ NoImagesOutside'
  BY <1>1 DEF ImageInv, ImagesTypeOK, TagResolves, PushedIsHere,
     PushedTagStays, FetchMeetsPush, NoImagesOutside
<1>3. ImageIsWhole' /\ StatIsSound'
  <2>1. CASE scope = "images"
    BY <1>1, <2>1, OciManifestsAssumption DEF ImageInv, ImagesTypeOK,
       ImageIsWhole, StatIsSound, Present
  <2>2. CASE scope # "images"
    BY <1>1, <2>2 DEF ImageInv, NoImagesOutside, ImageIsWhole, StatIsSound,
       NoPull
  <2> QED BY <2>1, <2>2
<1> QED BY <1>2, <1>3 DEF ImageInv

\* A PUT that found everything.
LEMMA PushKeeps ==
    ASSUME ImageInv, scope = "images", NEW m \in Manifests,
           NEW t \in Tags \cup {None}, Push(m, t),
           ChildrenOf[m] \subseteq mani \cup dropped,
           \A d \in BlobsOf[m] : Present(d),
           pull' \in [Requests -> Pulls],
           \A r \in Requests : pull'[r] \in {pull[r], NoPull},
           UNCHANGED <<blob, gone, scope, remote>>
    PROVE  ImageInv'
<1> USE DEF ImageInv
<1>1. /\ mani' = mani \cup {m} /\ vouched' = vouched \cup {m}
      /\ purged' = purged \ {m} /\ dropped' = dropped
      /\ \A x \in Tags : tag'[x] = IF x = t THEN m ELSE tag[x]
      /\ \A x \in Tags : pushed'[x] = IF x = t THEN m ELSE pushed[x]
  BY DEF Push, Point
<1>2. /\ \A x \in Tags : x # t => (x \in overtaken' <=> x \in overtaken)
      /\ t # None => \A r \in Requests :
           pull[r].at = "fetch" /\ pull[r].t = t => t \in overtaken'
  BY DEF Push
<1>3. \A r \in Requests : pull'[r].at # "none" => pull'[r] = pull[r]
  BY DEF NoPull
<1>4. ImagesTypeOK'
  BY DEF ImagesTypeOK, Push, Point
<1>5. TagResolves' /\ PushedIsHere'
  BY <1>1 DEF TagResolves, PushedIsHere
<1>6. PushedTagStays'
  BY <1>1, <1>2 DEF PushedTagStays
<1>7. FetchMeetsPush'
  BY <1>1, <1>2, <1>3, OciManifestsAssumption DEF FetchMeetsPush
<1>8. ImageIsWhole'
  BY <1>1 DEF ImageIsWhole, Present
<1>9. StatIsSound'
  BY <1>1, <1>3 DEF StatIsSound, Present
<1> QED BY <1>4, <1>5, <1>6, <1>7, <1>8, <1>9 DEF NoImagesOutside

\* Requests that go to the disk or to the upstream, or give up.
LEMMA PullKeeps ==
    ASSUME ImageInv, scope = "images", NEW r \in Requests,
           NEW p \in Pulls, pull' = [pull EXCEPT ![r] = p],
           p.at = "fetch" => p.t = None \/ tag[p.t] \notin mani,
           p.at = "stat" => /\ p.m \in Manifests
                            /\ ChildrenOf[p.m] \subseteq mani \cup dropped
                            /\ \A d \in BlobsOf[p.m] \ p.missing : Present(d),
           UNCHANGED <<blob, gone, scope, remote, mani, tag, imageHist>>
    PROVE  ImageInv'
<1> USE DEF ImageInv, imageHist
<1>1. /\ \A x \in Requests : x # r => pull'[x] = pull[x]
      /\ pull'[r] = p /\ pull' \in [Requests -> Pulls]
  BY DEF ImagesTypeOK
<1>2. ImagesTypeOK' /\ TagResolves' /\ PushedIsHere' /\ PushedTagStays'
  BY <1>1 DEF ImagesTypeOK, TagResolves, PushedIsHere, PushedTagStays
<1>3. FetchMeetsPush'
  <2>1. p.at = "fetch" /\ p.t # None =>
          pushed[p.t] = None \/ p.t \in overtaken
    BY DEF Pulls, PushedIsHere, PushedTagStays
  <2> QED BY <2>1, OciManifestsAssumption DEF FetchMeetsPush
<1>4. ImageIsWhole' /\ StatIsSound'
  BY DEF ImageIsWhole, StatIsSound, Present
<1> QED BY <1>2, <1>3, <1>4 DEF NoImagesOutside

LEMMA MirrorIsPresent ==
    ASSUME BlobInv, DeletesKnown
    PROVE  \A d \in mirror : Present(d)
  BY DEF BlobInv, StoredIsThere, MirrorHasBytes, DeletesKnown, Present,
     OnDigest

LEMMA NoPullTypes == NoPull \in Pulls
  BY DEF NoPull, Pulls

LEMMA PutImageKeeps ==
    ASSUME BlobInv, DeletesKnown, ImageInv, NEW r \in Requests,
           NEW m \in Manifests, NEW t \in Tags \cup {None}, PutImage(r, m, t)
    PROVE  ImageInv'
<1>1. /\ scope = "images" /\ ChildrenOf[m] \subseteq mani
      /\ UNCHANGED <<blob, gone, scope, remote>>
  BY DEF PutImage, AcceptImage, ociRest, blobVars, packagesRest
<1>2. \A d \in mirror : Present(d)
  BY MirrorIsPresent
<1>3. CASE BlobsOf[m] \subseteq mirror
  <2>1. Push(m, t) /\ UNCHANGED pull
    BY <1>3 DEF PutImage
  <2>2. /\ pull' \in [Requests -> Pulls]
        /\ \A x \in Requests : pull'[x] \in {pull[x], NoPull}
    BY <2>1 DEF ImageInv, ImagesTypeOK
  <2> QED BY <1>1, <1>2, <1>3, <2>1, <2>2, PushKeeps
<1>4. CASE ~(BlobsOf[m] \subseteq mirror)
  <2> DEFINE p == [at |-> "stat", m |-> m, t |-> t,
          missing |-> BlobsOf[m] \ mirror]
  <2>1. pull' = [pull EXCEPT ![r] = p] /\ UNCHANGED <<mani, tag, imageHist>>
    BY <1>4 DEF PutImage
  <2>2. p \in Pulls /\ p.at = "stat" /\ p.m = m /\ p.missing =
            BlobsOf[m] \ mirror
    BY OciManifestsAssumption DEF Pulls
  <2> HIDE DEF p
  <2> QED BY <1>1, <1>2, <2>1, <2>2, PullKeeps
<1> QED BY <1>3, <1>4

LEMMA PutImageStatKeeps ==
    ASSUME ImageInv, NEW r \in Requests, PutImageStat(r)
    PROVE  ImageInv'
<1>1. /\ pull[r].at = "stat" /\ pull' = [pull EXCEPT ![r] = NoPull]
      /\ UNCHANGED <<blob, gone, scope, remote>>
  BY DEF PutImageStat, ociRest, blobVars, packagesRest
<1>2. scope = "images"
  BY <1>1 DEF ImageInv, NoImagesOutside, NoPull
<1>3. CASE \A d \in pull[r].missing : blob[d] # NoFile
  <2>1. Push(pull[r].m, pull[r].t)
    BY <1>3 DEF PutImageStat
  <2>2. /\ pull[r].m \in Manifests /\ pull[r].t \in Tags \cup {None}
        /\ ChildrenOf[pull[r].m] \subseteq mani \cup dropped
        /\ \A d \in BlobsOf[pull[r].m] : Present(d)
    BY <1>1, <1>3 DEF ImageInv, StatIsSound, ImagesTypeOK, Pulls, Present
  <2>3. /\ pull' \in [Requests -> Pulls]
        /\ \A x \in Requests : pull'[x] \in {pull[x], NoPull}
    BY <1>1, NoPullTypes DEF ImageInv, ImagesTypeOK
  <2> QED BY <1>1, <1>2, <2>1, <2>2, <2>3, PushKeeps
<1>4. CASE ~\A d \in pull[r].missing : blob[d] # NoFile
  <2>1. UNCHANGED <<mani, tag, imageHist>>
    BY <1>4 DEF PutImageStat
  <2>2. NoPull.at = "none"
    BY DEF NoPull
  <2> QED BY <1>1, <1>2, <2>1, <2>2, NoPullTypes, PullKeeps
<1> QED BY <1>3, <1>4

LEMMA ServeManifestKeeps ==
    ASSUME ImageInv, NEW r \in Requests, NEW m \in Manifests,
           NEW t \in Tags \cup {None}, ServeManifest(r, m, t)
    PROVE  ImageInv'
<1> DEFINE p == [at |-> "fetch", m |-> m, t |-> t, missing |-> {}]
<1>1. /\ scope = "images" /\ pull' = [pull EXCEPT ![r] = p]
      /\ t = None \/ tag[t] \notin mani
      /\ UNCHANGED <<blob, gone, scope, remote, mani, tag, imageHist>>
  BY DEF ServeManifest, AcceptImage, ociRest, blobVars, packagesRest
<1>2. p \in Pulls /\ p.at = "fetch" /\ p.t = t
  BY DEF Pulls
<1> HIDE DEF p
<1> QED BY <1>1, <1>2, PullKeeps

LEMMA ProxyOciManifestKeeps ==
    ASSUME ImageInv, NEW r \in Requests, ProxyOciManifest(r)
    PROVE  ImageInv'
<1> USE DEF ImageInv
<1>1. PICK m \in remote : /\ mani' = mani \cup {m} /\ Point(pull[r].t, m)
                          /\ purged' = purged \ {m}
  BY DEF ProxyOciManifest
<1>2. /\ pull[r].at = "fetch" /\ pull' = [pull EXCEPT ![r] = NoPull]
      /\ UNCHANGED <<blob, gone, scope, remote, pushed, overtaken, vouched,
           dropped>>
  BY DEF ProxyOciManifest, ociRest, blobVars, packagesRest
<1>3. scope = "images" /\ m \in Manifests
  BY <1>2 DEF NoImagesOutside, NoPull, ImagesTypeOK
<1>4. \A x \in Tags : tag'[x] = IF x = pull[r].t THEN m ELSE tag[x]
  BY <1>1 DEF Point
<1>5. /\ \A x \in Requests : pull'[x].at # "none" => pull'[x] = pull[x]
      /\ pull' \in [Requests -> Pulls]
  BY <1>2, NoPullTypes DEF ImagesTypeOK, NoPull
<1>6. ImagesTypeOK'
  BY <1>1, <1>2, <1>3, <1>5 DEF ImagesTypeOK, Point
<1>7. TagResolves' /\ PushedIsHere' /\ FetchMeetsPush'
  BY <1>1, <1>2, <1>4, <1>5 DEF TagResolves, PushedIsHere, FetchMeetsPush
<1>8. PushedTagStays'
  BY <1>2, <1>4 DEF PushedTagStays, FetchMeetsPush
<1>9. ImageIsWhole' /\ StatIsSound'
  BY <1>1, <1>2, <1>5 DEF ImageIsWhole, StatIsSound, Present
<1> QED BY <1>2, <1>3, <1>6, <1>7, <1>8, <1>9 DEF NoImagesOutside

LEMMA ProxyOciManifestFailsKeeps ==
    ASSUME ImageInv, NEW r \in Requests, ProxyOciManifestFails(r)
    PROVE  ImageInv'
<1>1. /\ pull[r].at = "fetch" /\ pull' = [pull EXCEPT ![r] = NoPull]
      /\ UNCHANGED <<blob, gone, scope, remote, mani, tag, imageHist>>
  BY DEF ProxyOciManifestFails, ociRest, blobVars, packagesRest
<1>2. scope = "images" /\ NoPull.at = "none"
  BY <1>1 DEF ImageInv, NoImagesOutside, NoPull
<1> QED BY <1>1, <1>2, NoPullTypes, PullKeeps

LEMMA DeleteTagKeeps ==
    ASSUME ImageInv, NEW t \in Tags, DeleteTag(t)
    PROVE  ImageInv'
<1> USE DEF ImageInv
<1>1. /\ scope = "images"
      /\ UNCHANGED <<blob, gone, scope, remote, mani, pull, overtaken, vouched,
                     dropped, purged>>
  BY DEF DeleteTag, AcceptImage, ociRest, blobVars, packagesRest
<1>2. \A x \in Tags : /\ tag'[x] = IF x = t THEN None ELSE tag[x]
                      /\ pushed'[x] = IF x = t THEN None ELSE pushed[x]
  BY DEF DeleteTag, ImagesTypeOK
<1>3. ImagesTypeOK'
  BY <1>1 DEF DeleteTag, ImagesTypeOK
<1>4. TagResolves' /\ PushedIsHere' /\ PushedTagStays' /\ FetchMeetsPush'
  BY <1>1, <1>2 DEF TagResolves, PushedIsHere, PushedTagStays, FetchMeetsPush
<1>5. ImageIsWhole' /\ StatIsSound'
  BY <1>1 DEF ImageIsWhole, StatIsSound, Present
<1> QED BY <1>1, <1>3, <1>4, <1>5 DEF NoImagesOutside

LEMMA DeleteManifestKeeps ==
    ASSUME ImageInv, NEW m \in Manifests, DeleteDigest(m) \/ AdminDelete(m)
    PROVE  ImageInv'
<1> USE DEF ImageInv
<1>1. /\ scope = "images"
      /\ UNCHANGED <<blob, gone, scope, remote, pull, overtaken>>
  BY DEF DeleteDigest, AdminDelete, AcceptImage, ociRest, blobVars,
     packagesRest
<1>2. /\ mani' = mani \ {m} /\ vouched' = vouched \ {m}
      /\ dropped' = dropped \cup {m}
      /\ \A x \in Tags : pushed'[x] = IF pushed[x] = m THEN None ELSE pushed[x]
  BY DEF DeleteDigest, AdminDelete
<1>3. \/ /\ \A x \in Tags : tag'[x] = IF tag[x] = m THEN None ELSE tag[x]
         /\ purged' = purged
      \/ tag' = tag /\ purged' = purged \cup {m}
  BY DEF DeleteDigest, AdminDelete
<1>4. ImagesTypeOK'
  BY <1>1 DEF DeleteDigest, AdminDelete, ImagesTypeOK
<1>5. TagResolves'
  BY <1>2, <1>3 DEF TagResolves
<1>6. PushedIsHere' /\ FetchMeetsPush'
  BY <1>1, <1>2 DEF PushedIsHere, FetchMeetsPush
<1>7. PushedTagStays'
  BY <1>1, <1>2, <1>3 DEF PushedTagStays
<1>8. ImageIsWhole' /\ StatIsSound'
  BY <1>1, <1>2 DEF ImageIsWhole, StatIsSound, Present
<1> QED BY <1>1, <1>4, <1>5, <1>6, <1>7, <1>8 DEF NoImagesOutside

LEMMA PresentStays ==
    ASSUME StoreInv, scope # "oci", OnlyDeleted, gone \subseteq gone'
    PROVE  \A d \in Digests : Present(d) => Present(d)'
  BY DEF StoreInv, DeletesKnown, OnlyDeleted, OnDigest, Present

LEMMA CrashImagesKeeps ==
    ASSUME BlobInv, StoreInv, ImageInv, CrashImages
    PROVE  StoreInv' /\ ImageInv'
<1> USE DEF ImageInv
<1>1. /\ scope = "images" /\ Crash
      /\ \A r \in Requests : pull'[r] = NoPull
      /\ UNCHANGED <<gone, scope, remote, mani, tag, pushed, overtaken,
                     vouched, dropped, purged>>
  BY DEF CrashImages, packagesRest, imageHist
<1>2. StoreInv' /\ \A d \in Digests : Present(d) => Present(d)'
  BY <1>1, CrashKnown, PresentStays
<1>3. ImagesTypeOK'
  BY <1>1, NoPullTypes DEF CrashImages, ImagesTypeOK
<1>4. TagResolves' /\ PushedIsHere' /\ PushedTagStays' /\ FetchMeetsPush'
        /\ StatIsSound'
  BY <1>1 DEF TagResolves, PushedIsHere, PushedTagStays, FetchMeetsPush,
     StatIsSound, NoPull
<1>5. ImageIsWhole'
  BY <1>1, <1>2, OciManifestsAssumption DEF ImagesTypeOK, ImageIsWhole,
     Present
<1> QED BY <1>1, <1>2, <1>3, <1>4, <1>5 DEF NoImagesOutside

\* Blobs that images need come and go by the steps of the store.
LEMMA LayersKeep ==
    ASSUME BlobInv, StoreInv, ImageInv, NEW r \in Requests,
           \/ LayerStep(r)
           \/ \E d \in Layers : StoreLayer(r, d) \/ DeleteLayer(r, d)
    PROVE  StoreInv' /\ ImageInv'
<1>1. scope = "images" /\ UNCHANGED <<scope, imageVars>> /\ gone \subseteq gone'
  BY DEF LayerStep, StoreLayer, DeleteLayer, packagesRest
<1>2. \A d \in Layers : d \in Digests
  BY OciManifestsAssumption DEF Layers
<1>3. StoreInv' /\ OnlyDeleted
  <2>1. CASE LayerStep(r)
    <3>1. StoreSide(r) /\ UNCHANGED gone
      BY <2>1 DEF LayerStep, StoreSide
    <3> QED BY <1>1, <3>1, StoreSideKnown
  <2>2. ASSUME NEW d \in Layers, StoreLayer(r, d)
        PROVE  StoreInv' /\ OnlyDeleted
    <3>1. StoreEnter(r, d) /\ UNCHANGED gone
      BY <2>2 DEF StoreLayer, StoreBegin
    <3> QED BY <1>1, <1>2, <3>1, StoreEnterKnown
  <2>3. ASSUME NEW d \in Layers, DeleteLayer(r, d)
        PROVE  StoreInv' /\ OnlyDeleted
    <3>1. DeleteBegin(r, d) /\ gone' = gone \cup {d}
      BY <2>3 DEF DeleteLayer
    <3> QED BY <1>1, <1>2, <3>1, DeleteBeginKnown
  <2> QED BY <2>1, <2>2, <2>3
<1>4. \A d \in Digests : Present(d) => Present(d)'
  BY <1>1, <1>3, PresentStays
<1> QED BY <1>1, <1>3, <1>4, BlobsMoveKeeps

LEMMA ImagesNextKeeps ==
    ASSUME BlobInv, StoreInv, ImageInv, ImagesNext
    PROVE  StoreInv' /\ ImageInv'
<1>1. scope = "images"
  BY DEF ImagesNext, PutImage, ServeManifest, AcceptImage, PutImageStat,
     ProxyOciManifest, ProxyOciManifestFails, DeleteTag, DeleteDigest,
     AdminDelete, StoreLayer, DeleteLayer, LayerStep, CrashImages, ImageInv,
     NoImagesOutside, NoPull
<1>2. DeletesKnown
  BY <1>1 DEF StoreInv
<1>3. ASSUME UNCHANGED <<ociRest, gone, scope>>
      PROVE  StoreInv'
  BY <1>3, UnchangedKnown, RestIsVars
<1>4. ASSUME NEW r \in Requests, NEW m \in Manifests,
             NEW t \in Tags \cup {None}, PutImage(r, m, t) \/ ServeManifest(r,
                 m, t)
      PROVE  StoreInv' /\ ImageInv'
  <2>1. UNCHANGED <<ociRest, gone, scope>>
    BY <1>4 DEF PutImage, ServeManifest, AcceptImage, packagesRest
  <2> QED BY <1>2, <1>3, <1>4, <2>1, PutImageKeeps, ServeManifestKeeps
<1>5. ASSUME NEW r \in Requests,
             PutImageStat(r) \/ ProxyOciManifest(r) \/ ProxyOciManifestFails(r)
      PROVE  StoreInv' /\ ImageInv'
  <2>1. UNCHANGED <<ociRest, gone, scope>>
    BY <1>5 DEF PutImageStat, ProxyOciManifest, ProxyOciManifestFails,
       packagesRest
  <2> QED BY <1>3, <1>5, <2>1, PutImageStatKeeps, ProxyOciManifestKeeps,
       ProxyOciManifestFailsKeeps
<1>6. ASSUME NEW t \in Tags, DeleteTag(t)
      PROVE  StoreInv' /\ ImageInv'
  <2>1. UNCHANGED <<ociRest, gone, scope>>
    BY <1>6 DEF DeleteTag, AcceptImage, packagesRest
  <2> QED BY <1>3, <1>6, <2>1, DeleteTagKeeps
<1>7. ASSUME NEW m \in Manifests, DeleteDigest(m) \/ AdminDelete(m)
      PROVE  StoreInv' /\ ImageInv'
  <2>1. UNCHANGED <<ociRest, gone, scope>>
    BY <1>7 DEF DeleteDigest, AdminDelete, AcceptImage, packagesRest
  <2> QED BY <1>3, <1>7, <2>1, DeleteManifestKeeps
<1> QED BY <1>4, <1>5, <1>6, <1>7, LayersKeep, CrashImagesKeeps DEF ImagesNext

-----------------------------------------------------------------------------
(***************************************************************************)
(* Packages.                                                               *)
(***************************************************************************)

PackageTypes ==
    /\ scope \in Scopes /\ UpstreamType
    /\ pkg \in [Versions -> Rows] /\ stub \subseteq Versions
    /\ job \in [Requests -> Jobs] /\ jobs \in 0..MaxJobs
    /\ told \in [Versions -> SUBSET Contents]
    /\ gone \subseteq Digests /\ withdrawn \subseteq Versions

\* What clients were told of a version is what its row says.
ToldIsRow == \A v \in Versions : told[v] \ {Absent} \subseteq {pkg[v].content}

RowFlags ==
    /\ \A v \in Versions : pkg[v].pinned => Live(v)
    /\ \A v \in withdrawn : Live(v)
    /\ \A v \in Versions : Live(v) =>
         \/ pkg[v].content = upstream[v]
         \/ pkg[v].pinned /\ pkg[v].source = "upload"

\* A row written after its bytes has them until a DELETE.
RowHasBytes ==
    \A v \in Versions :
        /\ Live(v) /\ pkg[v].pinned
        /\ pkg[v].source = "upload" \/ scope \in {"nuget", "maven"}
        => Present(pkg[v].content)

RowInv == ToldIsRow /\ RowFlags /\ RowHasBytes /\ YankSticks

\* The putBlob a job waits for is its own.
StoreMatches(r) ==
    /\ job[r].at = "store" =>
         /\ req[r].op = "store"
         /\ job[r].op = "publish" =>
              job[r].v \in Versions /\ req[r].digest = job[r].d
         /\ job[r].op = "download" => req[r].digest = upstream[job[r].v]
         /\ job[r].op = "index" => \A v \in Versions :
              IsLeast(v, job[r].todo) => req[r].digest = upstream[v]
    /\ job[r].at = "hydrate" => job[r].op = "index"
    /\ job[r].at \in {"open", "stat", "restat"} => job[r].op = "download"

\* A download works on a row that still says what it said, if there was one.
DownloadMatches(r) ==
    job[r].op = "download" =>
        /\ job[r].v \in Versions
        /\ job[r].told \ {Absent} \subseteq {job[r].d}
        /\ job[r].d \in {Absent, pkg[job[r].v].content}
        /\ job[r].at \in {"open", "stat", "restat"} \/ scope = "pypi" =>
             job[r].d # Absent
        /\ job[r].at = "stat" => scope = "pypi"
        /\ job[r].at = "restat" => scope \notin {"npm", "cargo"}

\* Bytes that a client is owed are on disk, and nobody is deleting them.
Safe(d) == blob[d] # NoFile /\ OnDigest(d, {"delete"}) = {}
OwedBytes(r) ==
    job[r].op = "download" /\ job[r].owed = "bytes" =>
        job[r].at \in {"open", "stat", "restat"} /\ Safe(job[r].d)

\* A fetch that a client is owed brings what the row says, and what it stores
\* stays.
OwedFetch(r) ==
    job[r].op = "download" /\ job[r].owed = "fetch" =>
        /\ job[r].v \in Offered
        /\ job[r].d \in {Absent, upstream[job[r].v]}
        /\ scope \notin {"npm", "cargo"} =>
             /\ upstream[job[r].v] \notin gone
             /\ job[r].at # "restat"
             /\ job[r].at = "open" => blob[job[r].d] # NoFile

\* When npm fetches in the place of a row's bytes, the row is the upstream's
\* or its bytes were deleted.
FetchReplaces(r) ==
    job[r].op = "download" /\ job[r].at \in {"fetch", "store"} /\ scope = "npm"
        => job[r].d \in {Absent, upstream[job[r].v]} \cup gone

JobOK(r) ==
    /\ StoreMatches(r) /\ DownloadMatches(r) /\ OwedBytes(r) /\ OwedFetch(r)
    /\ FetchReplaces(r)

PackageInv ==
    /\ PackageTypes /\ NoJobsOutside
    /\ wrong = {} /\ missed = {}
    /\ scope \in Protocols => RowInv /\ \A r \in Requests : JobOK(r)

\* Rows are not replaced.
RowsStay == \A v \in Versions : Live(v) => pkg'[v].content = pkg[v].content

LEMMA OfferedAreDigests ==
    ASSUME UpstreamType
    PROVE  \A v \in Offered : v \in Versions /\ upstream[v] \in Digests
  BY DEF Offered, UpstreamType, Digests, Absent

\* A request that does not move stays as it should be.
LEMMA JobStays ==
    ASSUME PackageTypes, BlobInv, StoreInv, scope \in Protocols,
           NEW x \in Requests, JobOK(x), job'[x] = job[x],
           job[x].at = "store" =>
             req'[x].op = req[x].op /\ req'[x].digest = req[x].digest,
           RowsStay, NoNewDelete, OnlyDeleted,
           UNCHANGED <<upstream, scope, gone>>
    PROVE  JobOK(x)'
<1>0. scope # "oci"
  BY DEF Protocols
<1>1. StoreMatches(x)'
  BY DEF JobOK, StoreMatches
<1>2. DownloadMatches(x)'
  BY DEF JobOK, DownloadMatches, RowsStay, Live
<1>3. ASSUME job[x].op = "download", job[x].d # Absent
      PROVE  job[x].d \in Digests
  BY <1>3 DEF PackageTypes, Jobs, Digests, Absent
<1>4. \A d \in Digests : Safe(d) => Safe(d)'
  BY DEF Safe, OnDigest, NoNewDelete, OnlyDeleted
<1>5. OwedBytes(x)'
  BY <1>3, <1>4 DEF JobOK, OwedBytes, DownloadMatches
<1>6. \A d \in Digests : d \notin gone /\ blob[d] # NoFile => blob'[d] # NoFile
  BY <1>0 DEF OnlyDeleted, OnDigest, StoreInv, DeletesKnown
<1>7. OwedFetch(x)'
  BY <1>3, <1>6 DEF JobOK, OwedFetch, DownloadMatches, Offered
<1>8. FetchReplaces(x)'
  BY DEF JobOK, FetchReplaces
<1> QED BY <1>1, <1>2, <1>5, <1>7, <1>8 DEF JobOK

\* Jobs that promise nothing.
LEMMA JobEnds ==
    ASSUME NEW r \in Requests,
           \/ job'[r] = NoJob
           \/ \E loc \in {"fetch", "hydrate"}, todo \in SUBSET Versions,
                any \in BOOLEAN : job'[r] = IndexJob(loc, todo, any)
    PROVE  JobOK(r)'
<1>1. /\ job'[r].op # "download"
      /\ job'[r].at \notin {"store", "open", "stat", "restat"}
      /\ job'[r].at = "hydrate" => job'[r].op = "index"
  <2>1. CASE job'[r] = NoJob
    BY <2>1 DEF NoJob, Job
  <2>2. ASSUME NEW loc \in {"fetch", "hydrate"}, NEW todo \in SUBSET Versions,
               NEW any \in BOOLEAN, job'[r] = IndexJob(loc, todo, any)
        PROVE  /\ job'[r].op = "index"
               /\ job'[r].at \in {"fetch", "hydrate"}
    BY <2>2 DEF IndexJob, Job
  <2> QED BY <2>1, <2>2
<1> QED BY <1>1 DEF JobOK, StoreMatches, DownloadMatches, OwedBytes,
     OwedFetch, FetchReplaces

LEMMA TellKeeps ==
    ASSUME PackageTypes, ToldIsRow, RowsStay, pkg' \in [Versions -> Rows],
           \/ UNCHANGED told
           \/ \E vs : Tell(vs)
           \/ \E v \in Versions, d \in Digests :
                Mention(v, d) /\ pkg'[v].content = d
    PROVE  ToldIsRow' /\ told' \in [Versions -> SUBSET Contents]
<1>1. \A v \in Versions : told[v] \ {Absent} \subseteq {pkg'[v].content}
  BY DEF ToldIsRow, RowsStay, Live
<1>2. \A v \in Versions : pkg'[v].content \in Contents /\ Absent \in Contents
  BY NoContents DEF Rows, Absent
<1>3. CASE UNCHANGED told
  BY <1>1, <1>3 DEF ToldIsRow, PackageTypes
<1>4. ASSUME NEW vs, Tell(vs)
      PROVE  ToldIsRow' /\ told' \in [Versions -> SUBSET Contents]
  BY <1>1, <1>2, <1>4 DEF ToldIsRow, Tell
<1>5. ASSUME NEW v \in Versions, NEW d \in Digests, Mention(v, d),
             pkg'[v].content = d
      PROVE  ToldIsRow' /\ told' \in [Versions -> SUBSET Contents]
  BY <1>1, <1>2, <1>5 DEF ToldIsRow, PackageTypes, Mention, Digests
<1> QED BY <1>3, <1>4, <1>5

LEMMA PutManifestEffect ==
    ASSUME PackageTypes, RowInv, NEW v \in Versions, NEW d \in Digests,
           NEW src \in {"upload", "proxy"}, NEW ok \in BOOLEAN,
           PutManifest(v, d, src, TRUE, ok), Present(d),
           src = "proxy" => d = upstream[v],
           UNCHANGED <<blob, gone, scope, upstream, withdrawn>>
    PROVE  /\ pkg' \in [Versions -> Rows] /\ RowsStay
           /\ RowFlags' /\ RowHasBytes' /\ YankSticks'
           /\ ok => pkg'[v].content = d
           /\ ~Live(v) => ok
<1>1. CASE UNCHANGED pkg /\ Live(v)
  <2>1. ok => pkg[v].content = d
    BY <1>1 DEF PutManifest
  <2> QED BY <1>1, <2>1 DEF PackageTypes, RowsStay, RowInv, RowFlags,
       RowHasBytes, YankSticks, Live, Present
<1>2. CASE ~Live(v)
  <2> DEFINE w == [content |-> d, pinned |-> TRUE, source |-> src,
          yanked |-> FALSE]
  <2>1. w \in Rows /\ w.content = d /\ d # Absent
    BY DEF Rows, Digests, Absent
  <2>2. ok /\ pkg' = [pkg EXCEPT ![v] = w]
    BY <1>2 DEF PutManifest
  <2> HIDE DEF w
  <2>3. /\ pkg' \in [Versions -> Rows] /\ pkg'[v] = w
        /\ \A x \in Versions : x # v => pkg'[x] = pkg[x]
    BY <2>1, <2>2 DEF PackageTypes
  <2>4. RowsStay /\ RowFlags'
    <3>1. w.pinned /\ w.source = src
      BY DEF w
    <3> QED BY <1>2, <2>1, <2>3, <3>1 DEF RowsStay, RowInv, RowFlags, Live,
         PackageTypes
  <2>5. RowHasBytes'
    BY <2>1, <2>3 DEF RowInv, RowHasBytes, Live, Present
  <2>6. YankSticks'
    BY <1>2, <2>3 DEF RowInv, RowFlags, YankSticks, PackageTypes
  <2> QED BY <2>1, <2>2, <2>3, <2>4, <2>5, <2>6
<1> QED BY <1>1, <1>2 DEF PutManifest

LEMMA CacheRowsEffect ==
    ASSUME PackageTypes, RowInv, scope \in {"npm", "cargo", "pypi"}, CacheRows,
           UNCHANGED <<blob, gone, scope, upstream, withdrawn>>
    PROVE  /\ pkg' \in [Versions -> Rows] /\ RowsStay
           /\ RowFlags' /\ RowHasBytes' /\ YankSticks'
<1>1. \A v \in Offered : upstream[v] \in Contents /\ upstream[v] # Absent
  BY DEF PackageTypes, UpstreamType, Offered
<1>2. pkg' \in [Versions -> Rows]
  BY <1>1 DEF CacheRows, PackageTypes, Rows
<1>3. \A v \in Versions :
        \/ pkg'[v] = pkg[v]
        \/ /\ ~Live(v) /\ pkg'[v].content # Absent
           /\ pkg'[v].source = "proxy" /\ pkg'[v].content = upstream[v]
  BY <1>1 DEF CacheRows
<1>4. RowsStay /\ RowFlags'
  BY <1>3 DEF RowsStay, RowInv, RowFlags, Live, PackageTypes
<1>5. RowHasBytes'
  BY <1>3 DEF RowInv, RowHasBytes, Live, Present
<1>6. YankSticks'
  BY <1>3 DEF RowInv, RowFlags, YankSticks, PackageTypes
<1> QED BY <1>2, <1>4, <1>5, <1>6

\* One request moves, the files of others stay, the table grows.
Actor(r) ==
    /\ NoNewDelete /\ OnlyDeleted
    /\ \A x \in Requests : x # r => req'[x] = req[x] /\ job'[x] = job[x]
    /\ UNCHANGED <<upstream, scope, gone>>

RowStep ==
    /\ pkg' \in [Versions -> Rows] /\ RowsStay
    /\ told' \in [Versions -> SUBSET Contents]
    /\ RowInv'

RestTypes ==
    /\ stub \subseteq Versions
    /\ jobs \in 0..MaxJobs
    /\ withdrawn \subseteq Versions

LEMMA StepKeeps ==
    ASSUME BlobInv, StoreInv, PackageInv, scope \in Protocols,
           NEW r \in Requests, Actor(r), RowStep, RestTypes',
           job' \in [Requests -> Jobs], JobOK(r)', wrong' = {}, missed' = {}
    PROVE  PackageInv'
<1>1. PackageTypes'
  BY DEF PackageInv, PackageTypes, Actor, RowStep, RestTypes, UpstreamType
<1>2. \A x \in Requests : x # r => JobOK(x)'
  BY JobStays DEF PackageInv, Actor, RowStep
<1> QED BY <1>1, <1>2 DEF PackageInv, Actor, RowStep, NoJobsOutside

LEMMA JobTypes ==
    /\ NoJob \in Jobs
    /\ \A loc \in {"fetch", "hydrate"}, todo \in SUBSET Versions,
         any \in BOOLEAN :
         IndexJob(loc, todo, any) \in Jobs
    /\ \A v \in Versions, d \in Contents : PublishJob(v, d) \in Jobs
    /\ \A loc \in {"open", "stat", "restat", "fetch", "store"}, v \in Versions,
         d \in Contents, ts \in SUBSET Contents,
         owed \in {"nothing", "bytes", "fetch"} :
           DownloadJob(loc, v, d, ts, owed) \in Jobs
<1>1. Absent \in Contents
  BY NoContents DEF Absent
<1>2. 0 \in 0..MaxVersion /\ \A v \in Versions : v \in 0..MaxVersion
  BY PackagesAssumption DEF Versions
<1> QED BY <1>1, <1>2 DEF NoJob, IndexJob, PublishJob, DownloadJob, Job, Jobs

LEMMA DoneEffect ==
    ASSUME PackageTypes, NEW r \in Requests, Done(r)
    PROVE  /\ job' \in [Requests -> Jobs] /\ job'[r] = NoJob /\ JobOK(r)'
           /\ \A x \in Requests : x # r => job'[x] = job[x]
<1>1. /\ job' \in [Requests -> Jobs] /\ job'[r] = NoJob
      /\ \A x \in Requests : x # r => job'[x] = job[x]
  BY JobTypes DEF Done, PackageTypes
<1> QED BY <1>1, JobEnds

LEMMA IndexEffect ==
    ASSUME PackageTypes, NEW r \in Requests, NEW loc \in {"fetch", "hydrate"},
           NEW todo \in SUBSET Versions, NEW any \in BOOLEAN,
           job' = [job EXCEPT ![r] = IndexJob(loc, todo, any)]
    PROVE  /\ job' \in [Requests -> Jobs] /\ JobOK(r)'
           /\ \A x \in Requests : x # r => job'[x] = job[x]
<1>1. /\ job' \in [Requests -> Jobs] /\ job'[r] = IndexJob(loc, todo, any)
      /\ \A x \in Requests : x # r => job'[x] = job[x]
  BY JobTypes DEF PackageTypes
<1> QED BY <1>1, JobEnds

LEMMA GoOn ==
    ASSUME PackageTypes, NEW r \in Requests,
           NEW loc \in {"none", "store", "fetch", "hydrate", "stat", "restat",
               "open"},
           Step(r, loc)
    PROVE  /\ job' \in [Requests -> Jobs]
           /\ \A x \in Requests : x # r => job'[x] = job[x]
           /\ job'[r].at = loc /\ job'[r].op = job[r].op /\ job'[r].v = job[r].v
           /\ job'[r].d = job[r].d /\ job'[r].told = job[r].told
           /\ job'[r].owed = job[r].owed /\ job'[r].todo = job[r].todo
  BY DEF PackageTypes, Step, Jobs

LEMMA AcceptTypes ==
    ASSUME PackageTypes, Accept
    PROVE  jobs' \in 0..MaxJobs
  BY PackagesAssumption DEF PackageTypes, Accept

\* Steps that leave the store alone, and steps that leave the table alone.
LEMMA StoreAlone ==
    ASSUME StoreInv, NEW r \in Requests, UNCHANGED <<ociRest, scope, upstream,
           gone>>,
           \A x \in Requests : x # r => job'[x] = job[x]
    PROVE  Actor(r) /\ UNCHANGED <<blob, req, acked, mirror, inode>>
<1>1. UNCHANGED vars
  BY RestIsVars
<1>2. UNCHANGED <<blob, req, acked, mirror, inode>>
  BY DEF ociRest, blobVars, fileVars
<1> QED BY <1>1, <1>2, UnchangedKnown DEF Actor

LEMMA RowsAlone ==
    ASSUME PackageInv, StoreInv, scope \in Protocols, OnlyDeleted,
           UNCHANGED <<pkg, withdrawn, scope, upstream, gone>>,
           UNCHANGED told \/ \E vs : Tell(vs)
    PROVE  RowStep
<1>0. scope # "oci"
  BY DEF Protocols
<1>1. RowsStay /\ pkg' \in [Versions -> Rows]
  BY DEF RowsStay, PackageInv, PackageTypes
<1>2. ToldIsRow' /\ told' \in [Versions -> SUBSET Contents]
  BY <1>1, TellKeeps DEF PackageInv, RowInv
<1>3. \A v \in Versions : Live(v) => pkg[v].content \in Digests
  BY DEF PackageInv, PackageTypes, Rows, Digests, Live, Absent
<1>4. \A d \in Digests : Present(d) => Present(d)'
  BY <1>0, PresentStays
<1>5. RowHasBytes'
  BY <1>3, <1>4 DEF PackageInv, RowInv, RowHasBytes, Live
<1>6. RowFlags' /\ YankSticks'
  BY DEF PackageInv, RowInv, RowFlags, YankSticks, Live
<1> QED BY <1>1, <1>2, <1>5, <1>6 DEF RowStep, RowInv

-----------------------------------------------------------------------------
\* Lists.

LEMMA ReadIndexKeeps ==
    ASSUME BlobInv, StoreInv, PackageInv, scope \in Protocols,
           NEW r \in Requests, ReadIndex(r)
    PROVE  PackageInv'
<1>1. /\ UNCHANGED <<ociRest, scope, upstream, pkg, stub, gone, withdrawn,
                     wrong, missed>>
      /\ job[r] = NoJob /\ Accept
  BY DEF ReadIndex, rowVars
<1>2. PackageTypes /\ wrong = {} /\ missed = {}
  BY DEF PackageInv
<1>3. /\ job' \in [Requests -> Jobs] /\ JobOK(r)'
      /\ \A x \in Requests : x # r => job'[x] = job[x]
  <2>1. CASE UNCHANGED job
    BY <1>1, <1>2, <2>1, JobEnds DEF PackageTypes
  <2>2. CASE job' = [job EXCEPT ![r] = IndexJob("fetch", {}, FALSE)]
    BY <1>2, <2>2, IndexEffect
  <2> QED BY <2>1, <2>2 DEF ReadIndex
<1>4. Actor(r) /\ OnlyDeleted
  BY <1>1, <1>3, StoreAlone DEF Actor
<1>5. RowStep
  BY <1>1, <1>4, RowsAlone DEF ReadIndex
<1>6. RestTypes'
  BY <1>1, <1>2, AcceptTypes DEF RestTypes, PackageTypes
<1> QED BY <1>1, <1>2, <1>3, <1>4, <1>5, <1>6, StepKeeps

LEMMA IndexUnavailableKeeps ==
    ASSUME BlobInv, StoreInv, PackageInv, scope \in Protocols,
           NEW r \in Requests, IndexUnavailable(r)
    PROVE  PackageInv'
<1>1. /\ UNCHANGED <<ociRest, scope, upstream, pkg, stub, jobs, gone, withdrawn,
                     told, wrong, missed>>
      /\ Done(r)
  BY DEF IndexUnavailable, rowVars, pkgHist
<1>2. PackageTypes /\ wrong = {} /\ missed = {}
  BY DEF PackageInv
<1>3. /\ job' \in [Requests -> Jobs] /\ JobOK(r)'
      /\ \A x \in Requests : x # r => job'[x] = job[x]
  BY <1>1, <1>2, DoneEffect
<1>4. Actor(r) /\ OnlyDeleted
  BY <1>1, <1>3, StoreAlone DEF Actor
<1>5. RowStep
  BY <1>1, <1>4, RowsAlone
<1>6. RestTypes'
  BY <1>1, <1>2 DEF RestTypes, PackageTypes
<1> QED BY <1>1, <1>2, <1>3, <1>4, <1>5, <1>6, StepKeeps

\* npm, cargo and PyPI cache the rows of a list.
LEMMA CachedListKeeps ==
    ASSUME BlobInv, StoreInv, PackageInv, scope \in {"npm", "cargo", "pypi"},
           NEW r \in Requests, Fetched(r), CacheRows,
           UNCHANGED told \/ \E vs : Tell(vs), Done(r), UNCHANGED stub
    PROVE  PackageInv'
<1>0. scope \in Protocols
  BY DEF Protocols
<1>1. UNCHANGED <<ociRest, scope, upstream, jobs, gone, withdrawn, wrong,
          missed>>
  BY DEF Fetched
<1>2. PackageTypes /\ RowInv /\ wrong = {} /\ missed = {}
  BY <1>0 DEF PackageInv
<1>3. /\ job' \in [Requests -> Jobs] /\ JobOK(r)'
      /\ \A x \in Requests : x # r => job'[x] = job[x]
  BY <1>2, DoneEffect
<1>4. Actor(r) /\ UNCHANGED blob
  BY <1>1, <1>3, StoreAlone
<1>5. /\ pkg' \in [Versions -> Rows] /\ RowsStay
      /\ RowFlags' /\ RowHasBytes' /\ YankSticks'
  BY <1>1, <1>2, <1>4, CacheRowsEffect
<1>6. ToldIsRow' /\ told' \in [Versions -> SUBSET Contents]
  BY <1>2, <1>5, TellKeeps DEF RowInv
<1>7. RowStep
  BY <1>5, <1>6 DEF RowStep, RowInv
<1>8. RestTypes'
  BY <1>1, <1>2 DEF RestTypes, PackageTypes
<1> QED BY <1>0, <1>1, <1>2, <1>3, <1>4, <1>7, <1>8, StepKeeps

\* Maven's stub rows and NuGet's loop.
LEMMA ProxyMavenMetadataKeeps ==
    ASSUME BlobInv, StoreInv, PackageInv, scope \in Protocols,
           NEW r \in Requests, ProxyMavenMetadata(r)
    PROVE  PackageInv'
<1>1. /\ UNCHANGED <<ociRest, scope, upstream, pkg, jobs, gone, withdrawn,
                     wrong, missed>>
      /\ Done(r) /\ stub' = stub \cup Offered
      /\ UNCHANGED told \/ \E vs : Tell(vs)
  BY DEF ProxyMavenMetadata, Fetched
<1>2. PackageTypes /\ wrong = {} /\ missed = {}
  BY DEF PackageInv
<1>3. /\ job' \in [Requests -> Jobs] /\ JobOK(r)'
      /\ \A x \in Requests : x # r => job'[x] = job[x]
  BY <1>1, <1>2, DoneEffect
<1>4. Actor(r) /\ OnlyDeleted
  BY <1>1, <1>3, StoreAlone DEF Actor
<1>5. RowStep
  BY <1>1, <1>4, RowsAlone
<1>6. RestTypes'
  BY <1>1, <1>2 DEF RestTypes, PackageTypes, Offered
<1> QED BY <1>1, <1>2, <1>3, <1>4, <1>5, <1>6, StepKeeps

LEMMA ProxyNugetVersionIndexKeeps ==
    ASSUME BlobInv, StoreInv, PackageInv, scope \in Protocols,
           NEW r \in Requests, ProxyNugetVersionIndex(r)
    PROVE  PackageInv'
<1>1. /\ UNCHANGED <<ociRest, scope, upstream, pkg, stub, jobs, gone, withdrawn,
                     told, wrong, missed>>
      /\ job' = [job EXCEPT ![r] = IndexJob("hydrate", Offered, FALSE)]
      /\ Offered \in SUBSET Versions
  BY DEF ProxyNugetVersionIndex, Fetched, rowVars, Offered
<1>2. PackageTypes /\ wrong = {} /\ missed = {}
  BY DEF PackageInv
<1>3. /\ job' \in [Requests -> Jobs] /\ JobOK(r)'
      /\ \A x \in Requests : x # r => job'[x] = job[x]
  BY <1>1, <1>2, IndexEffect
<1>4. Actor(r) /\ OnlyDeleted
  BY <1>1, <1>3, StoreAlone DEF Actor
<1>5. RowStep
  BY <1>1, <1>4, RowsAlone
<1>6. RestTypes'
  BY <1>1, <1>2 DEF RestTypes, PackageTypes
<1> QED BY <1>1, <1>2, <1>3, <1>4, <1>5, <1>6, StepKeeps

LEMMA HydratedEffect ==
    ASSUME PackageTypes, NEW r \in Requests, NEW v, NEW ok \in BOOLEAN,
           Hydrated(r, v, ok)
    PROVE  /\ job' \in [Requests -> Jobs] /\ JobOK(r)'
           /\ \A x \in Requests : x # r => job'[x] = job[x]
           /\ UNCHANGED told \/ \E vs : Tell(vs)
<1>1. job[r].todo \ {v} \in SUBSET Versions /\ (job[r].any \/ ok) \in BOOLEAN
  BY DEF PackageTypes, Jobs
<1>2. CASE job' = [job EXCEPT ![r] = IndexJob("hydrate", job[r].todo \ {v},
                                              job[r].any \/ ok)]
  BY <1>1, <1>2, IndexEffect DEF Hydrated
<1>3. CASE Done(r)
  BY <1>3, DoneEffect DEF Hydrated
<1>4. UNCHANGED told \/ \E vs : Tell(vs)
  BY DEF Hydrated
<1> QED BY <1>2, <1>3 DEF Hydrated

LEMMA HydrateFailsKeeps ==
    ASSUME BlobInv, StoreInv, PackageInv, scope \in Protocols,
           NEW r \in Requests, NEW v \in Versions, Hydrated(r, v, FALSE),
           UNCHANGED <<ociRest, pkg, scope, upstream, stub, jobs, gone,
                       withdrawn, wrong, missed>>
    PROVE  PackageInv'
<1>2. PackageTypes /\ wrong = {} /\ missed = {}
  BY DEF PackageInv
<1>3. /\ job' \in [Requests -> Jobs] /\ JobOK(r)'
      /\ \A x \in Requests : x # r => job'[x] = job[x]
      /\ UNCHANGED told \/ \E vs : Tell(vs)
  BY <1>2, HydratedEffect
<1>4. Actor(r) /\ OnlyDeleted
  BY <1>3, StoreAlone DEF Actor
<1>5. RowStep
  BY <1>3, <1>4, RowsAlone
<1>6. RestTypes'
  BY <1>2 DEF RestTypes, PackageTypes
<1> QED BY <1>2, <1>3, <1>4, <1>5, <1>6, StepKeeps

-----------------------------------------------------------------------------
\* Blobs that package requests store.

LEMMA HydrateStoresKeeps ==
    ASSUME BlobInv, StoreInv, PackageInv, scope \in Protocols,
           NEW r \in Requests, NEW v \in Versions, job[r].at = "hydrate",
           IsLeast(v, job[r].todo), v \in Offered, Step(r, "store"),
           StoreEnter(r, upstream[v]),
           UNCHANGED <<pkg, told, scope, upstream, stub, jobs, gone, withdrawn,
                       wrong, missed>>
    PROVE  PackageInv'
<1>0. scope # "oci" /\ upstream[v] \in Digests
  BY OfferedAreDigests DEF Protocols, PackageInv, PackageTypes
<1>2. PackageTypes /\ wrong = {} /\ missed = {} /\ job[r].op = "index"
  BY DEF PackageInv, JobOK, StoreMatches
<1>3. /\ job' \in [Requests -> Jobs]
      /\ \A x \in Requests : x # r => job'[x] = job[x]
      /\ job'[r].at = "store" /\ job'[r].op = "index" /\ job'[r].todo =
           job[r].todo
  BY <1>2, GoOn
<1>4. /\ NoNewDelete /\ OnlyDeleted
      /\ \A x \in Requests : x # r => req'[x] = req[x]
      /\ req'[r].op = "store" /\ req'[r].digest = upstream[v]
  BY <1>0, StoreEnterKnown
<1>5. \A w \in Versions : IsLeast(w, job[r].todo) => w = v
  BY DEF IsLeast, Versions
<1>6. JobOK(r)'
  BY <1>3, <1>4, <1>5 DEF JobOK, StoreMatches, DownloadMatches, OwedBytes,
     OwedFetch, FetchReplaces, IsLeast
<1>7. Actor(r)
  BY <1>3, <1>4 DEF Actor
<1>8. RowStep
  BY <1>4, RowsAlone
<1>9. RestTypes'
  BY <1>2 DEF RestTypes, PackageTypes
<1> QED BY <1>2, <1>3, <1>6, <1>7, <1>8, <1>9, StepKeeps

LEMMA PublishBeginKeeps ==
    ASSUME BlobInv, StoreInv, PackageInv, NEW r \in Requests,
           NEW v \in Versions, NEW d \in Digests, PublishBegin(r, v, d)
    PROVE  PackageInv'
<1>1. /\ UNCHANGED <<pkg, told, scope, upstream, stub, gone, withdrawn, wrong,
           missed>>
      /\ scope \in Protocols /\ Accept /\ StoreEnter(r, d)
      /\ job' = [job EXCEPT ![r] = PublishJob(v, d)]
  BY DEF PublishBegin, rowVars, pkgHist
<1>0. scope # "oci" /\ d \in Contents
  BY <1>1 DEF Protocols, Digests
<1>2. PackageTypes /\ wrong = {} /\ missed = {}
  BY DEF PackageInv
<1>3. /\ job' \in [Requests -> Jobs]
      /\ \A x \in Requests : x # r => job'[x] = job[x]
      /\ job'[r] = PublishJob(v, d)
  BY <1>0, <1>1, <1>2, JobTypes DEF PackageTypes
<1>4. /\ NoNewDelete /\ OnlyDeleted
      /\ \A x \in Requests : x # r => req'[x] = req[x]
      /\ req'[r].op = "store" /\ req'[r].digest = d
  BY <1>0, <1>1, StoreEnterKnown
<1>5. /\ job'[r].op = "publish" /\ job'[r].at = "store" /\ job'[r].v = v
      /\ job'[r].d = d
  BY <1>3 DEF PublishJob, Job
<1>6. JobOK(r)'
  BY <1>4, <1>5 DEF JobOK, StoreMatches, DownloadMatches, OwedBytes,
     OwedFetch, FetchReplaces
<1>7. Actor(r)
  BY <1>1, <1>4 DEF Actor
<1>8. RowStep
  BY <1>1, <1>4, RowsAlone
<1>9. RestTypes'
  BY <1>1, <1>2, AcceptTypes DEF RestTypes, PackageTypes
<1> QED BY <1>1, <1>2, <1>3, <1>6, <1>7, <1>8, <1>9, StepKeeps

LEMMA FetchFileKeeps ==
    ASSUME BlobInv, StoreInv, PackageInv, scope \in Protocols,
           NEW r \in Requests, FetchFile(r)
    PROVE  PackageInv'
<1>1. /\ UNCHANGED <<pkg, told, scope, upstream, stub, jobs, gone, withdrawn,
                     wrong, missed>>
      /\ job[r].op = "download" /\ job[r].at = "fetch" /\ job[r].v \in Offered
      /\ Step(r, "store") /\ StoreEnter(r, upstream[job[r].v])
  BY DEF FetchFile, Asks, ProxyStore, rowVars, pkgHist
<1>0. scope # "oci" /\ upstream[job[r].v] \in Digests
  BY <1>1, OfferedAreDigests DEF Protocols, PackageInv, PackageTypes
<1>2. PackageTypes /\ wrong = {} /\ missed = {} /\ JobOK(r)
  BY DEF PackageInv
<1>3. /\ job' \in [Requests -> Jobs]
      /\ \A x \in Requests : x # r => job'[x] = job[x]
      /\ job'[r].at = "store" /\ job'[r].op = job[r].op /\ job'[r].v = job[r].v
      /\ job'[r].d = job[r].d /\ job'[r].told = job[r].told
      /\ job'[r].owed = job[r].owed
  BY <1>1, <1>2, GoOn
<1>4. /\ NoNewDelete /\ OnlyDeleted
      /\ \A x \in Requests : x # r => req'[x] = req[x]
      /\ req'[r].op = "store" /\ req'[r].digest = upstream[job[r].v]
  BY <1>0, <1>1, StoreEnterKnown
<1>5. StoreMatches(r)' /\ DownloadMatches(r)'
  BY <1>1, <1>2, <1>3, <1>4 DEF JobOK, StoreMatches, DownloadMatches
<1>6. OwedBytes(r)' /\ OwedFetch(r)' /\ FetchReplaces(r)'
  BY <1>1, <1>2, <1>3 DEF JobOK, OwedBytes, OwedFetch, FetchReplaces, Offered
<1>7. Actor(r)
  BY <1>1, <1>3, <1>4 DEF Actor
<1>8. RowStep
  BY <1>1, <1>4, RowsAlone
<1>9. RestTypes'
  BY <1>1, <1>2 DEF RestTypes, PackageTypes
<1> QED BY <1>2, <1>3, <1>1, <1>5, <1>6, <1>7, <1>8, <1>9, StepKeeps DEF JobOK

-----------------------------------------------------------------------------
\* Downloads.

\* What Owed promises is so.
LEMMA OwedMeans ==
    ASSUME BlobInv, StoreInv, PackageInv, scope \in Protocols,
           NEW v \in Versions
    PROVE  /\ Owed(v) \in {"nothing", "bytes", "fetch"}
           /\ Owed(v) = "bytes" =>
                Live(v) /\ pkg[v].pinned /\ Safe(pkg[v].content)
           /\ Owed(v) = "fetch" =>
                /\ v \in Offered
                /\ Live(v) => pkg[v].content = upstream[v]
                                /\ scope \in {"npm", "cargo", "pypi"}
                /\ scope \in {"npm", "cargo"} \/ upstream[v] \notin gone
<1>0. scope # "oci" /\ DeletesKnown
  BY DEF Protocols, StoreInv
<1>1. Live(v) => pkg[v].content \in Digests
  BY DEF PackageInv, PackageTypes, Rows, Digests, Live, Absent
<1>2. \A d \in Digests : d \notin gone => OnDigest(d, {"delete"}) = {}
  BY <1>0 DEF DeletesKnown, OnDigest
<1>3. \A d \in acked : Safe(d)
  BY DEF BlobInv, StoredIsThere, AckedIsStored, BytesFirst, Safe, OnDigest
<1>4. ASSUME /\ Live(v) /\ pkg[v].pinned
             /\ IF pkg[v].source = "upload" \/ scope \in {"nuget", "maven"}
                  THEN pkg[v].content \notin gone ELSE pkg[v].content \in acked
      PROVE  Safe(pkg[v].content)
  BY <1>1, <1>2, <1>3, <1>4 DEF PackageInv, RowInv, RowHasBytes, Present, Safe
<1> QED BY <1>4 DEF Owed

LEMMA DownloadKeeps ==
    ASSUME BlobInv, StoreInv, PackageInv, scope \in Protocols,
           NEW r \in Requests, NEW v \in Versions,
           NEW loc \in {"open", "stat", "restat", "fetch"}, Download(r, v, loc),
           loc # "fetch" \/ scope = "pypi" => Live(v),
           loc = "stat" => scope = "pypi",
           loc = "restat" => scope \notin {"npm", "cargo", "pypi"},
           loc = "fetch" => ~pkg[v].pinned,
           loc = "open" /\ scope \notin {"npm",
               "cargo"} => pkg[v].content \in mirror
    PROVE  PackageInv'
<1>1. /\ UNCHANGED <<ociRest, scope, upstream, pkg, stub, gone, withdrawn, told,
                     wrong, missed>>
      /\ job' = [job EXCEPT ![r] = DownloadJob(loc, v, pkg[v].content, told[v],
           Owed(v))]
      /\ Accept
  BY DEF Download, rowVars, pkgHist
<1>2. PackageTypes /\ wrong = {} /\ missed = {} /\ ToldIsRow /\ RowFlags
  BY DEF PackageInv, RowInv
<1>3. /\ pkg[v].content \in Contents /\ told[v] \in SUBSET Contents
      /\ Owed(v) \in {"nothing", "bytes", "fetch"}
  BY <1>2, OwedMeans DEF PackageTypes, Rows
<1>4. /\ job' \in [Requests -> Jobs]
      /\ \A x \in Requests : x # r => job'[x] = job[x]
      /\ job'[r] = DownloadJob(loc, v, pkg[v].content, told[v], Owed(v))
  BY <1>1, <1>2, <1>3, JobTypes DEF PackageTypes
<1>5. /\ job'[r].op = "download" /\ job'[r].at = loc /\ job'[r].v = v
      /\ job'[r].d = pkg[v].content /\ job'[r].told = told[v]
      /\ job'[r].owed = Owed(v)
  BY <1>4 DEF DownloadJob, Job
<1>6. Actor(r) /\ OnlyDeleted /\ UNCHANGED <<blob, req>>
  BY <1>1, StoreAlone DEF Actor
<1>7. StoreMatches(r)' /\ DownloadMatches(r)'
  BY <1>1, <1>2, <1>5 DEF StoreMatches, DownloadMatches, ToldIsRow, Live
<1>8. OwedBytes(r)'
  BY <1>5, <1>6, OwedMeans DEF OwedBytes, Safe, OnDigest
<1>9. OwedFetch(r)'
  <2>1. \A d \in mirror : d \in gone \/ blob[d] # NoFile
    BY MirrorIsPresent DEF StoreInv, Present, Protocols
  <2> QED BY <1>1, <1>5, <1>6, <2>1, OwedMeans DEF OwedFetch, Offered, Live
<1>10. RowStep
  BY <1>1, <1>6, RowsAlone
<1>11. RestTypes'
  BY <1>1, <1>2, AcceptTypes DEF RestTypes, PackageTypes
<1>12. FetchReplaces(r)'
  BY <1>1, <1>2, <1>5 DEF FetchReplaces, RowFlags, Live
<1> QED BY <1>1, <1>2, <1>4, <1>6, <1>7, <1>8, <1>9, <1>10, <1>11, <1>12,
     StepKeeps DEF JobOK

\* Answers of a download that is as it should be.
LEMMA ServeEffect ==
    ASSUME PackageInv, scope \in Protocols, NEW r \in Requests, NEW bytes,
           Serve(r, bytes),
           \/ job[r].told \ {Absent} \subseteq {bytes}
           \/ Replaces(r)
    PROVE  wrong' = {} /\ missed' = {} /\ UNCHANGED told /\ Done(r)
<1>1. wrong' = {}
  BY DEF PackageInv, Serve
<1> QED BY DEF PackageInv, Serve

LEMMA NotFoundEffect ==
    ASSUME PackageInv, scope \in Protocols, NEW r \in Requests, NEW excuse,
           NotFound(r, excuse), job[r].owed \in {"nothing", excuse}
    PROVE  wrong' = {} /\ missed' = {} /\ UNCHANGED told /\ Done(r)
  BY DEF PackageInv, NotFound

\* The request ends and nothing else happens.
LEMMA AnsweredKeepsPackages ==
    ASSUME BlobInv, StoreInv, PackageInv, scope \in Protocols,
           NEW r \in Requests, Done(r), wrong' = {}, missed' = {},
           UNCHANGED <<ociRest, scope, upstream, pkg, stub, jobs, gone,
                       withdrawn, told>>
    PROVE  PackageInv'
<1>2. PackageTypes
  BY DEF PackageInv
<1>3. /\ job' \in [Requests -> Jobs] /\ JobOK(r)'
      /\ \A x \in Requests : x # r => job'[x] = job[x]
  BY <1>2, DoneEffect
<1>4. Actor(r) /\ OnlyDeleted
  BY <1>3, StoreAlone DEF Actor
<1>5. RowStep
  BY <1>4, RowsAlone
<1>6. RestTypes'
  BY <1>2 DEF RestTypes, PackageTypes
<1> QED BY <1>3, <1>4, <1>5, <1>6, StepKeeps

\* The request goes on to another call.
LEMMA WentOnKeepsPackages ==
    ASSUME BlobInv, StoreInv, PackageInv, scope \in Protocols,
           NEW r \in Requests, NEW loc \in {"open", "fetch"}, Step(r, loc),
           \/ /\ loc = "open" /\ blob[job[r].d] # NoFile
              /\ job[r].at \in {"stat", "restat"}
           \/ /\ loc = "fetch" /\ blob[job[r].d] = NoFile
              /\ job[r].at \in {"stat", "open"},
           UNCHANGED <<ociRest, scope, upstream, pkg, stub, jobs, gone,
                       withdrawn, told, wrong, missed>>
    PROVE  PackageInv'
<1>2. PackageTypes /\ wrong = {} /\ missed = {} /\ JobOK(r)
  BY DEF PackageInv
<1>3. /\ job' \in [Requests -> Jobs]
      /\ \A x \in Requests : x # r => job'[x] = job[x]
      /\ job'[r].at = loc /\ job'[r].op = job[r].op /\ job'[r].v = job[r].v
      /\ job'[r].d = job[r].d /\ job'[r].told = job[r].told
      /\ job'[r].owed = job[r].owed
  BY <1>2, GoOn
<1>4. Actor(r) /\ OnlyDeleted /\ UNCHANGED <<blob, req>>
  BY <1>3, StoreAlone DEF Actor
<1>5. StoreMatches(r)' /\ DownloadMatches(r)'
  BY <1>2, <1>3 DEF JobOK, StoreMatches, DownloadMatches
<1>6. OwedBytes(r)' /\ OwedFetch(r)'
  BY <1>2, <1>3, <1>4 DEF JobOK, OwedBytes, OwedFetch, Safe, OnDigest, Offered
<1>7. RowStep
  BY <1>4, RowsAlone
<1>8. RestTypes'
  BY <1>2 DEF RestTypes, PackageTypes
<1>9. FetchReplaces(r)'
  <2>1. SUFFICES ASSUME job[r].op = "download", loc = "fetch", scope = "npm"
                 PROVE  job[r].d \in {upstream[job[r].v]} \cup gone
    BY <1>3 DEF FetchReplaces
  <2>2. /\ job[r].v \in Versions /\ Live(job[r].v)
        /\ job[r].d = pkg[job[r].v].content /\ blob[job[r].d] = NoFile
    BY <1>2, <2>1 DEF JobOK, DownloadMatches, Live
  <2> QED BY <2>2 DEF PackageInv, RowInv, RowFlags, RowHasBytes, Present
<1> QED BY <1>2, <1>3, <1>4, <1>5, <1>6, <1>7, <1>8, <1>9, StepKeeps DEF JobOK

LEMMA StatFileKeeps ==
    ASSUME BlobInv, StoreInv, PackageInv, scope \in Protocols,
           NEW r \in Requests, StatFile(r)
    PROVE  PackageInv'
<1>1. /\ UNCHANGED <<ociRest, scope, upstream, pkg, stub, jobs, gone,
           withdrawn>>
      /\ job[r].at \in {"stat", "restat"}
  BY DEF StatFile, rowVars
<1>2. JobOK(r)
  BY DEF PackageInv
<1>3. CASE blob[job[r].d] # NoFile
  <2>1. Step(r, "open") /\ UNCHANGED <<told, wrong, missed>>
    BY <1>3 DEF StatFile, pkgHist
  <2> QED BY <1>1, <1>3, <2>1, WentOnKeepsPackages
<1>4. CASE blob[job[r].d] = NoFile /\ job[r].at = "stat"
  <2>1. Step(r, "fetch") /\ UNCHANGED <<told, wrong, missed>>
    BY <1>4 DEF StatFile, pkgHist
  <2> QED BY <1>1, <1>4, <2>1, WentOnKeepsPackages
<1>5. CASE blob[job[r].d] = NoFile /\ job[r].at = "restat"
  <2>1. NotFound(r, "none")
    BY <1>5 DEF StatFile
  <2>2. job[r].owed \in {"nothing", "none"}
    <3>1. job[r].op = "download" /\ job[r].owed \in {"nothing", "bytes",
              "fetch"}
      BY <1>2, <1>5 DEF JobOK, StoreMatches, PackageInv, PackageTypes, Jobs
    <3>2. scope \notin {"npm", "cargo"}
      BY <1>2, <1>5, <3>1 DEF JobOK, DownloadMatches
    <3> QED BY <1>2, <1>5, <3>1, <3>2 DEF JobOK, OwedBytes, OwedFetch, Safe
  <2> QED BY <1>1, <2>1, <2>2, NotFoundEffect, AnsweredKeepsPackages
<1> QED BY <1>1, <1>3, <1>4, <1>5

LEMMA OpenBlobKeeps ==
    ASSUME BlobInv, StoreInv, PackageInv, scope \in Protocols,
           NEW r \in Requests, OpenBlob(r)
    PROVE  PackageInv'
<1>1. /\ UNCHANGED <<ociRest, scope, upstream, pkg, stub, jobs, gone,
           withdrawn>>
      /\ job[r].at = "open"
  BY DEF OpenBlob, rowVars
<1>2. /\ job[r].op = "download" /\ job[r].owed \in {"nothing", "bytes", "fetch"}
      /\ JobOK(r)
  BY <1>1 DEF JobOK, StoreMatches, PackageInv, PackageTypes, Jobs
<1>3. job[r].d \in Digests
  BY <1>1, <1>2 DEF PackageInv, PackageTypes, Jobs, Digests, Absent, JobOK,
     DownloadMatches
<1>4. CASE blob[job[r].d] # NoFile
  <2>1. Serve(r, inode[blob[job[r].d]])
    BY <1>4 DEF OpenBlob
  <2>2. inode[blob[job[r].d]] = job[r].d
    BY <1>3, <1>4 DEF BlobInv, ContentAddressed, StoreInv, NoSessions,
       Protocols
  <2>3. job[r].told \ {Absent} \subseteq {inode[blob[job[r].d]]}
    BY <1>2, <2>2 DEF JobOK, DownloadMatches
  <2> QED BY <1>1, <2>1, <2>3, ServeEffect, AnsweredKeepsPackages
<1>5. CASE blob[job[r].d] = NoFile /\ scope \in {"npm", "cargo"}
  <2>1. Step(r, "fetch") /\ UNCHANGED <<told, wrong, missed>>
    BY <1>5 DEF OpenBlob, pkgHist
  <2> QED BY <1>1, <1>5, <2>1, WentOnKeepsPackages
<1>6. CASE blob[job[r].d] = NoFile /\ scope \notin {"npm", "cargo"}
  <2>1. NotFound(r, "none")
    BY <1>6 DEF OpenBlob
  <2>2. job[r].owed \in {"nothing", "none"}
    BY <1>1, <1>2, <1>6 DEF JobOK, OwedBytes, OwedFetch, Safe
  <2> QED BY <1>1, <2>1, <2>2, NotFoundEffect, AnsweredKeepsPackages
<1> QED BY <1>4, <1>5, <1>6

LEMMA FetchFileFailsKeeps ==
    ASSUME BlobInv, StoreInv, PackageInv, scope \in Protocols,
           NEW r \in Requests, FetchFileFails(r)
    PROVE  PackageInv'
<1>1. /\ UNCHANGED <<ociRest, scope, upstream, pkg, stub, jobs, gone,
           withdrawn>>
      /\ job[r].op = "download" /\ job[r].at = "fetch"
  BY DEF FetchFileFails, Asks, rowVars
<1>2. PackageTypes /\ wrong = {} /\ missed = {} /\ JobOK(r)
  BY DEF PackageInv
<1>3. CASE scope = "pypi"
  <2> DEFINE loc == AfterStat(job[r].d, "restat")
  <2>1. /\ job' = [job EXCEPT ![r] =
                     DownloadJob(loc, job[r].v, job[r].d, job[r].told,
                         "nothing")]
        /\ UNCHANGED <<told, wrong, missed>>
    BY <1>3 DEF FetchFileFails, pkgHist
  <2>2. /\ loc \in {"open", "restat"} /\ job[r].v \in Versions
        /\ job[r].d \in Contents /\ job[r].told \in SUBSET Contents
    BY <1>1, <1>2 DEF AfterStat, PackageTypes, Jobs, JobOK, DownloadMatches
  <2> HIDE DEF loc
  <2>3. /\ job' \in [Requests -> Jobs]
        /\ \A x \in Requests : x # r => job'[x] = job[x]
        /\ job'[r] = DownloadJob(loc, job[r].v, job[r].d, job[r].told,
             "nothing")
    BY <1>2, <2>1, <2>2, JobTypes DEF PackageTypes
  <2>4. /\ job'[r].op = "download" /\ job'[r].at = loc /\ job'[r].v = job[r].v
        /\ job'[r].d = job[r].d /\ job'[r].told = job[r].told
        /\ job'[r].owed = "nothing"
    BY <2>3 DEF DownloadJob, Job
  <2>5. JobOK(r)'
    BY <1>1, <1>2, <1>3, <2>2, <2>4 DEF JobOK, StoreMatches,
       DownloadMatches, OwedBytes, OwedFetch, FetchReplaces
  <2>6. Actor(r) /\ OnlyDeleted
    BY <1>1, <2>3, StoreAlone DEF Actor
  <2>7. RowStep
    BY <1>1, <2>1, <2>6, RowsAlone
  <2>8. RestTypes'
    BY <1>1, <1>2 DEF RestTypes, PackageTypes
  <2> QED BY <1>2, <2>1, <2>3, <2>5, <2>6, <2>7, <2>8, StepKeeps
<1>4. CASE scope # "pypi"
  <2>1. NotFound(r, "fetch")
    BY <1>4 DEF FetchFileFails
  <2>2. job[r].owed \in {"nothing", "fetch"}
    BY <1>1, <1>2 DEF JobOK, OwedBytes, PackageTypes, Jobs
  <2> QED BY <1>1, <2>1, <2>2, NotFoundEffect, AnsweredKeepsPackages
<1> QED BY <1>3, <1>4

-----------------------------------------------------------------------------
\* putBlob returns to the package request that called it.

LEMMA StoredEffect ==
    ASSUME BlobInv, StoreInv, PackageInv, scope \in Protocols,
           NEW r \in Requests, NEW op, Stored(r, op), UNCHANGED <<gone, scope>>
    PROVE  /\ job[r].op = op /\ job[r].at = "store"
           /\ req[r].digest \in Digests /\ Present(req[r].digest)
           /\ UNCHANGED blob /\ NoNewDelete /\ OnlyDeleted
           /\ \A x \in Requests : x # r => req'[x] = req[x]
<1>0. scope # "oci"
  BY DEF Protocols
<1>1. /\ job[r].op = op /\ job[r].at = "store" /\ StoreSide(r)
      /\ req[r].at = "record" /\ UNCHANGED blob
  BY DEF Stored, StoreSide, Record
<1>2. req[r].op = "store"
  BY <1>1 DEF PackageInv, JobOK, StoreMatches
<1>3. req[r].digest \in Digests
  BY <1>2 DEF BlobInv, RequestShape
<1>4. Present(req[r].digest)
  BY <1>0, <1>1, <1>2 DEF BlobInv, BytesFirst, Storing, StoreInv,
     DeletesKnown, Present
<1> QED BY <1>0, <1>1, <1>3, <1>4, StoreSideKnown, StoreSideEffect

\* It answers, and the table stays.
LEMMA StoredAndAnswered ==
    ASSUME BlobInv, StoreInv, PackageInv, scope \in Protocols,
           NEW r \in Requests, NEW op, Stored(r, op), Done(r),
           wrong' = {}, missed' = {},
           UNCHANGED <<scope, upstream, pkg, stub, jobs, gone, withdrawn, told>>
    PROVE  PackageInv'
<1>1. PackageTypes
  BY DEF PackageInv
<1>2. /\ NoNewDelete /\ OnlyDeleted
      /\ \A x \in Requests : x # r => req'[x] = req[x]
  BY StoredEffect
<1>3. /\ job' \in [Requests -> Jobs] /\ JobOK(r)'
      /\ \A x \in Requests : x # r => job'[x] = job[x]
  BY <1>1, DoneEffect
<1>4. Actor(r)
  BY <1>2, <1>3 DEF Actor
<1>5. RowStep
  BY <1>2, RowsAlone
<1>6. RestTypes'
  BY <1>1 DEF RestTypes, PackageTypes
<1> QED BY <1>3, <1>4, <1>5, <1>6, StepKeeps

\* It writes the row of the bytes.
LEMMA StoredAndPut ==
    ASSUME BlobInv, StoreInv, PackageInv, scope \in Protocols,
           NEW r \in Requests, NEW op, Stored(r, op),
           NEW v \in Versions, NEW src \in {"upload", "proxy"},
               NEW ok \in BOOLEAN,
           PutManifest(v, req[r].digest, src, TRUE, ok),
           src = "proxy" => req[r].digest = upstream[v],
           \/ UNCHANGED told
           \/ \E vs : Tell(vs)
           \/ ok /\ Mention(v, req[r].digest),
           UNCHANGED <<scope, upstream, stub, jobs, gone, withdrawn>>,
           job' \in [Requests -> Jobs], JobOK(r)',
           \A x \in Requests : x # r => job'[x] = job[x],
           wrong' = {}, missed' = {}
    PROVE  PackageInv'
<1>1. PackageTypes /\ RowInv
  BY DEF PackageInv
<1>2. /\ req[r].digest \in Digests /\ Present(req[r].digest)
      /\ UNCHANGED blob /\ NoNewDelete /\ OnlyDeleted
      /\ \A x \in Requests : x # r => req'[x] = req[x]
  BY StoredEffect
<1>3. /\ pkg' \in [Versions -> Rows] /\ RowsStay
      /\ RowFlags' /\ RowHasBytes' /\ YankSticks'
      /\ ok => pkg'[v].content = req[r].digest
  BY <1>1, <1>2, PutManifestEffect
<1>4. ToldIsRow' /\ told' \in [Versions -> SUBSET Contents]
  BY <1>1, <1>2, <1>3, TellKeeps DEF RowInv
<1>5. RowStep
  BY <1>3, <1>4 DEF RowStep, RowInv
<1>6. Actor(r)
  BY <1>2 DEF Actor
<1>7. RestTypes'
  BY <1>1 DEF RestTypes, PackageTypes
<1> QED BY <1>5, <1>6, <1>7, StepKeeps

LEMMA PublishKeeps ==
    ASSUME BlobInv, StoreInv, PackageInv, scope \in Protocols,
           NEW r \in Requests, PublishNew(r) \/ PublishOnce(r)
    PROVE  PackageInv'
<1>1. /\ Stored(r, "publish") /\ Done(r)
      /\ UNCHANGED <<scope, upstream, stub, jobs, gone, withdrawn, wrong,
           missed>>
  BY DEF PublishNew, PublishOnce
<1>2. PackageTypes /\ wrong = {} /\ missed = {} /\ JobOK(r)
  BY DEF PackageInv
<1>3. job[r].op = "publish" /\ job[r].at = "store"
  BY <1>1 DEF Stored
<1>4. job[r].v \in Versions /\ req[r].digest = job[r].d
  BY <1>2, <1>3 DEF JobOK, StoreMatches
<1>5. /\ job' \in [Requests -> Jobs] /\ JobOK(r)'
      /\ \A x \in Requests : x # r => job'[x] = job[x]
  BY <1>1, <1>2, DoneEffect
<1>6. ASSUME NEW ok \in BOOLEAN,
             PutManifest(job[r].v, job[r].d, "upload", TRUE, ok),
             UNCHANGED told \/ (ok /\ Mention(job[r].v, job[r].d))
      PROVE  PackageInv'
  BY <1>1, <1>2, <1>4, <1>5, <1>6, StoredAndPut
<1>7. CASE PublishNew(r)
  <2>1. PICK ok \in BOOLEAN :
          /\ PutManifest(job[r].v, job[r].d, "upload", TRUE, ok)
          /\ IF ok THEN Mention(job[r].v, job[r].d) ELSE UNCHANGED told
    BY <1>7 DEF PublishNew
  <2>2. CASE ok
    <3>1. ok /\ Mention(job[r].v, job[r].d)
      BY <2>1, <2>2
    <3> QED BY <1>6, <2>1
  <2>3. CASE ~ok
    <3>1. UNCHANGED told
      BY <2>1, <2>3
    <3> QED BY <1>1, <1>2, <1>4, <1>5, <2>1, <3>1, StoredAndPut
  <2> QED BY <2>2, <2>3
<1>8. CASE PublishOnce(r)
  <2>1. CASE ~Live(job[r].v)
    <3>1. PutManifest(job[r].v, job[r].d, "upload", TRUE, TRUE)
            /\ Mention(job[r].v, job[r].d)
      BY <1>8, <2>1 DEF PublishOnce
    <3> QED BY <1>6, <3>1
  <2>2. CASE Live(job[r].v)
    <3>1. UNCHANGED pkg /\ (UNCHANGED told \/
            (pkg[job[r].v].content = job[r].d /\ Mention(job[r].v, job[r].d)))
      BY <1>8, <2>2 DEF PublishOnce
    <3>2. /\ req[r].digest \in Digests
          /\ NoNewDelete /\ OnlyDeleted
          /\ \A x \in Requests : x # r => req'[x] = req[x]
      BY <1>1, StoredEffect
    <3>3. RowsStay /\ pkg' \in [Versions -> Rows]
      BY <1>2, <3>1 DEF RowsStay, PackageTypes
    <3>4. ToldIsRow' /\ told' \in [Versions -> SUBSET Contents]
      BY <1>2, <1>4, <3>1, <3>2, <3>3, TellKeeps DEF PackageInv, RowInv
    <3>5. RowFlags' /\ RowHasBytes' /\ YankSticks'
      <4>1. UNCHANGED blob
        BY <1>1, StoredEffect
      <4> QED BY <1>1, <3>1, <4>1 DEF PackageInv, RowInv, RowFlags,
           RowHasBytes, YankSticks, Live, Present
    <3>6. RowStep /\ Actor(r)
      BY <1>1, <1>5, <3>2, <3>3, <3>4, <3>5 DEF RowStep, RowInv, Actor
    <3>7. RestTypes'
      BY <1>1, <1>2 DEF RestTypes, PackageTypes
    <3> QED BY <1>1, <1>2, <1>5, <3>6, <3>7, StepKeeps
  <2> QED BY <2>1, <2>2
<1> QED BY <1>7, <1>8

LEMMA HydrateStoredKeeps ==
    ASSUME BlobInv, StoreInv, PackageInv, scope \in Protocols,
           NEW r \in Requests, HydrateStored(r)
    PROVE  PackageInv'
<1>1. /\ Stored(r, "index")
      /\ UNCHANGED <<scope, upstream, stub, jobs, gone, withdrawn, wrong,
           missed>>
  BY DEF HydrateStored
<1>2. PICK v \in Versions, ok \in BOOLEAN :
        /\ IsLeast(v, job[r].todo)
        /\ PutManifest(v, upstream[v], "proxy", TRUE, ok)
        /\ Hydrated(r, v, ok)
  BY DEF HydrateStored
<1>3. PackageTypes /\ wrong = {} /\ missed = {} /\ JobOK(r)
  BY DEF PackageInv
<1>4. req[r].digest = upstream[v]
  BY <1>1, <1>2, <1>3 DEF Stored, JobOK, StoreMatches
<1>5. /\ job' \in [Requests -> Jobs] /\ JobOK(r)'
      /\ \A x \in Requests : x # r => job'[x] = job[x]
      /\ UNCHANGED told \/ \E vs : Tell(vs)
  BY <1>2, <1>3, HydratedEffect
<1> QED BY <1>1, <1>2, <1>3, <1>4, <1>5, StoredAndPut

LEMMA ServeStoredKeeps ==
    ASSUME BlobInv, StoreInv, PackageInv, NEW r \in Requests,
           ProxyNpmTarball(r) \/ ProxyCargoDownload(r)
    PROVE  PackageInv'
<1>1. /\ Stored(r, "download") /\ scope \in {"npm", "cargo"}
      /\ UNCHANGED <<scope, upstream, pkg, stub, jobs, gone, withdrawn>>
  BY DEF ProxyNpmTarball, ProxyCargoDownload, ServeStored
<1>2. scope \in Protocols
  BY <1>1 DEF Protocols
<1>3. /\ job[r].op = "download" /\ job[r].at = "store"
      /\ JobOK(r) /\ job[r].owed \in {"nothing", "bytes", "fetch"}
  BY <1>1, <1>2 DEF PackageInv, PackageTypes, Jobs, Stored
<1>4. /\ job[r].owed \in {"nothing", "fetch"}
      /\ job[r].told \ {Absent} \subseteq {job[r].d}
      /\ job[r].owed = "fetch" => job[r].d \in {Absent, upstream[job[r].v]}
      /\ scope = "npm" => job[r].d \in {Absent, upstream[job[r].v]} \cup gone
  BY <1>3 DEF JobOK, DownloadMatches, OwedBytes, OwedFetch, FetchReplaces
<1>5. wrong' = {} /\ missed' = {} /\ UNCHANGED told /\ Done(r)
  <2>1. ASSUME job[r].d \in {Absent, upstream[job[r].v]}
        PROVE  job[r].told \ {Absent} \subseteq {upstream[job[r].v]}
    BY <1>4, <2>1
  <2>2. CASE ProxyNpmTarball(r)
    <3>1. scope = "npm" /\ Serve(r, upstream[job[r].v])
      BY <2>2 DEF ProxyNpmTarball
    <3>2. \/ job[r].told \ {Absent} \subseteq {upstream[job[r].v]}
          \/ Replaces(r)
      BY <1>3, <1>4, <2>1, <3>1 DEF Replaces
    <3> QED BY <1>2, <3>1, <3>2, ServeEffect
  <2>3. CASE ProxyCargoDownload(r) /\ job[r].d \in {Absent, upstream[job[r].v]}
    <3>1. Serve(r, upstream[job[r].v])
      BY <2>3 DEF ProxyCargoDownload
    <3> QED BY <1>2, <2>1, <2>3, <3>1, ServeEffect
  <2>4. CASE ProxyCargoDownload(r) /\ job[r].d \notin {Absent,
            upstream[job[r].v]}
    <3>1. NotFound(r, "none")
      BY <2>4 DEF ProxyCargoDownload
    <3> QED BY <1>2, <1>4, <2>4, <3>1, NotFoundEffect
  <2> QED BY <2>2, <2>3, <2>4
<1> QED BY <1>1, <1>2, <1>5, StoredAndAnswered

LEMMA ProxyPypiFileKeeps ==
    ASSUME BlobInv, StoreInv, PackageInv, NEW r \in Requests, ProxyPypiFile(r)
    PROVE  PackageInv'
<1>1. /\ Stored(r, "download") /\ scope = "pypi" /\ Step(r, "open")
      /\ UNCHANGED <<scope, upstream, pkg, stub, jobs, gone, withdrawn, told,
                     wrong, missed>>
  BY DEF ProxyPypiFile, ServeStored, pkgHist
<1>2. scope \in Protocols
  BY <1>1 DEF Protocols
<1>3. PackageTypes /\ wrong = {} /\ missed = {} /\ JobOK(r)
  BY <1>2 DEF PackageInv
<1>4. /\ job[r].op = "download" /\ job[r].at = "store"
      /\ Present(req[r].digest)
      /\ UNCHANGED blob /\ NoNewDelete /\ OnlyDeleted
      /\ \A x \in Requests : x # r => req'[x] = req[x]
  BY <1>1, <1>2, StoredEffect
<1>5. /\ job' \in [Requests -> Jobs]
      /\ \A x \in Requests : x # r => job'[x] = job[x]
      /\ job'[r].at = "open" /\ job'[r].op = job[r].op /\ job'[r].v = job[r].v
      /\ job'[r].d = job[r].d /\ job'[r].told = job[r].told
      /\ job'[r].owed = job[r].owed
  BY <1>1, <1>3, GoOn
<1>6. StoreMatches(r)' /\ DownloadMatches(r)'
  BY <1>1, <1>3, <1>4, <1>5 DEF JobOK, StoreMatches, DownloadMatches
<1>7. OwedBytes(r)'
  BY <1>3, <1>4, <1>5 DEF JobOK, OwedBytes
<1>8. OwedFetch(r)'
  <2>1. req[r].digest = upstream[job[r].v] /\ job[r].d # Absent
    BY <1>1, <1>3, <1>4 DEF JobOK, StoreMatches, DownloadMatches
  <2> QED BY <1>1, <1>3, <1>4, <1>5, <2>1 DEF JobOK, OwedFetch, Present,
       Offered
<1>9. RowStep /\ Actor(r)
  BY <1>1, <1>2, <1>4, <1>5, RowsAlone DEF Actor
<1>10. RestTypes'
  BY <1>1, <1>3 DEF RestTypes, PackageTypes
<1>11. FetchReplaces(r)'
  BY <1>1 DEF FetchReplaces
<1> QED BY <1>1, <1>2, <1>3, <1>5, <1>6, <1>7, <1>8, <1>9, <1>10, <1>11,
     StepKeeps DEF JobOK

LEMMA PutAndOpenKeeps ==
    ASSUME BlobInv, StoreInv, PackageInv, scope \in {"nuget", "maven"},
           NEW r \in Requests, PutAndOpen(r)
    PROVE  PackageInv'
<1>1. /\ Stored(r, "download")
      /\ UNCHANGED <<scope, upstream, stub, jobs, gone, withdrawn>>
  BY DEF PutAndOpen, ServeStored
<1>2. scope \in Protocols
  BY DEF Protocols
<1>3. PackageTypes /\ wrong = {} /\ missed = {} /\ JobOK(r) /\ RowInv
  BY <1>2 DEF PackageInv
<1>4. /\ job[r].op = "download" /\ job[r].at = "store"
      /\ req[r].digest \in Digests /\ Present(req[r].digest) /\ UNCHANGED blob
  BY <1>1, <1>2, StoredEffect
<1>5. /\ req[r].digest = upstream[job[r].v] /\ job[r].v \in Versions
      /\ job[r].owed \in {"nothing", "fetch"}
  BY <1>3, <1>4 DEF JobOK, StoreMatches, DownloadMatches, OwedBytes,
     PackageTypes, Jobs
<1>6. PICK ok \in BOOLEAN :
        /\ PutManifest(job[r].v, upstream[job[r].v], "proxy", TRUE, ok)
        /\ IF ok THEN /\ job' = [job EXCEPT ![r] =
                                  DownloadJob("open", job[r].v,
                                      upstream[job[r].v],
                                              job[r].told, job[r].owed)]
                      /\ UNCHANGED pkgHist
                 ELSE NotFound(r, "fetch")
  BY DEF PutAndOpen
<1>7. CASE ~ok
  <2>1. wrong' = {} /\ missed' = {} /\ UNCHANGED told /\ Done(r)
    BY <1>2, <1>5, <1>6, <1>7, NotFoundEffect
  <2>2. /\ job' \in [Requests -> Jobs] /\ JobOK(r)'
        /\ \A x \in Requests : x # r => job'[x] = job[x]
    BY <1>3, <2>1, DoneEffect
  <2> QED BY <1>1, <1>2, <1>5, <1>6, <2>1, <2>2, StoredAndPut
<1>8. CASE ok
  <2>1. /\ job' = [job EXCEPT ![r] = DownloadJob("open", job[r].v,
                     upstream[job[r].v], job[r].told, job[r].owed)]
        /\ UNCHANGED <<told, wrong, missed>>
    BY <1>6, <1>8 DEF pkgHist
  <2>2. /\ upstream[job[r].v] \in Contents /\ job[r].told \in SUBSET Contents
    BY <1>3, <1>5 DEF PackageTypes, UpstreamType, Jobs
  <2>3. /\ job' \in [Requests -> Jobs]
        /\ \A x \in Requests : x # r => job'[x] = job[x]
        /\ job'[r] = DownloadJob("open", job[r].v, upstream[job[r].v],
                                 job[r].told, job[r].owed)
    BY <1>3, <1>5, <2>1, <2>2, JobTypes DEF PackageTypes
  <2>4. /\ job'[r].op = "download" /\ job'[r].at = "open"
        /\ job'[r].v = job[r].v /\ job'[r].d = upstream[job[r].v]
        /\ job'[r].told = job[r].told /\ job'[r].owed = job[r].owed
    BY <2>3 DEF DownloadJob, Job
  <2>5. pkg'[job[r].v].content = upstream[job[r].v] /\ RowsStay
    BY <1>1, <1>3, <1>4, <1>5, <1>6, <1>8, PutManifestEffect
  <2>6. DownloadMatches(r)'
    BY <1>1, <1>3, <1>4, <1>5, <2>4, <2>5 DEF JobOK, DownloadMatches,
       RowsStay, Live, Digests, Absent
  <2>7. StoreMatches(r)' /\ OwedBytes(r)'
    BY <1>5, <2>4 DEF StoreMatches, OwedBytes
  <2>8. OwedFetch(r)'
    BY <1>1, <1>3, <1>4, <1>5, <2>4 DEF JobOK, OwedFetch, Present, Offered
  <2>9. FetchReplaces(r)'
    BY <2>4 DEF FetchReplaces
  <2> QED BY <1>1, <1>2, <1>3, <1>5, <1>6, <2>1, <2>3, <2>6, <2>7, <2>8, <2>9,
       StoredAndPut DEF JobOK
<1> QED BY <1>7, <1>8

-----------------------------------------------------------------------------
\* The rest.

LEMMA MutateYankKeeps ==
    ASSUME BlobInv, StoreInv, PackageInv, NEW v \in Versions,
           NEW b \in BOOLEAN, MutateYank(v, b)
    PROVE  PackageInv'
<1>1. /\ scope \in Protocols /\ Live(v) /\ Accept
      /\ pkg' = [pkg EXCEPT ![v].yanked = b]
      /\ withdrawn' = IF b THEN withdrawn \cup {v} ELSE withdrawn \ {v}
      /\ UNCHANGED <<ociRest, scope, upstream, stub, job, told, wrong, missed,
           gone>>
  BY DEF MutateYank, Protocols, pkgHist
<1>2. PackageTypes /\ RowInv /\ wrong = {} /\ missed = {}
  BY <1>1 DEF PackageInv
<1>3. /\ pkg' \in [Versions -> Rows] /\ pkg'[v].yanked = b
      /\ \A x \in Versions : /\ pkg'[x].content = pkg[x].content
                             /\ pkg'[x].pinned = pkg[x].pinned
                             /\ pkg'[x].source = pkg[x].source
                             /\ x # v => pkg'[x] = pkg[x]
  BY <1>1, <1>2 DEF PackageTypes, Rows
<1>4. UNCHANGED blob /\ NoNewDelete /\ OnlyDeleted /\ UNCHANGED req
  <2>1. UNCHANGED vars
    BY <1>1, RestIsVars
  <2> QED BY <1>1, <2>1, UnchangedKnown DEF vars, blobVars
<1>5. RowsStay /\ ToldIsRow' /\ RowHasBytes' /\ RowFlags'
  BY <1>1, <1>2, <1>3, <1>4 DEF RowsStay, RowInv, ToldIsRow, RowHasBytes,
     RowFlags, Live, Present, PackageTypes
<1>6. YankSticks'
  BY <1>1, <1>2, <1>3 DEF RowInv, YankSticks
<1>7. \A x \in Requests : JobOK(x)'
  BY <1>1, <1>2, <1>4, <1>5, JobStays DEF PackageInv
<1>8. PackageTypes'
  BY <1>1, <1>2, <1>3, AcceptTypes DEF PackageTypes, UpstreamType
<1> QED BY <1>1, <1>2, <1>5, <1>6, <1>7, <1>8 DEF PackageInv, RowInv,
     NoJobsOutside

LEMMA DeletePackageBlobKeeps ==
    ASSUME BlobInv, StoreInv, PackageInv, NEW r \in Requests,
           NEW d \in Digests, DeletePackageBlob(r, d)
    PROVE  PackageInv'
<1>1. /\ scope \in Protocols /\ job[r] = NoJob /\ DeleteBegin(r, d)
      /\ gone' = gone \cup {d}
      /\ UNCHANGED <<scope, upstream, pkg, stub, jobs, told, wrong, missed,
                     withdrawn>>
  BY DEF DeletePackageBlob, rowVars, pkgHist
<1>2. PackageTypes /\ RowInv /\ wrong = {} /\ missed = {}
        /\ \A x \in Requests : JobOK(x)
  BY <1>1 DEF PackageInv
<1>3. /\ UNCHANGED blob
      /\ \A x \in Requests : x # r => req'[x] = req[x]
      /\ req[r] = Idle /\ req'[r].op = "delete" /\ req'[r].digest = d
  BY <1>1, DeleteBeginKnown DEF Protocols
<1>4. /\ job' \in [Requests -> Jobs]
      /\ \A x \in Requests :
           /\ job'[x].op = job[x].op /\ job'[x].at = job[x].at
           /\ job'[x].v = job[x].v /\ job'[x].d = job[x].d
           /\ job'[x].told = job[x].told /\ job'[x].todo = job[x].todo
           /\ \/ job'[x].owed = "nothing"
              \/ /\ job'[x].owed = job[x].owed
                 /\ job[x].op = "download" => d \notin {job[x].d,
                      upstream[job[x].v]}
  BY <1>2 DEF DeletePackageBlob, PackageTypes, Jobs
<1>5. PackageTypes'
  BY <1>1, <1>2, <1>4 DEF PackageTypes, UpstreamType
<1>6. RowInv'
  BY <1>1, <1>2, <1>3 DEF RowInv, ToldIsRow, RowFlags, RowHasBytes,
     YankSticks, Live, Present
<1>7. ASSUME NEW x \in Requests
      PROVE  JobOK(x)'
  <2>1. job[x].at = "store" => x # r
    BY <1>1 DEF NoJob, Job
  <2>2. StoreMatches(x)'
    BY <1>1, <1>2, <1>3, <1>4, <2>1 DEF JobOK, StoreMatches
  <2>3. DownloadMatches(x)'
    BY <1>1, <1>2, <1>4 DEF JobOK, DownloadMatches
  <2>4. \A e \in Contents : e # d /\ Safe(e) => Safe(e)'
    BY <1>3 DEF Safe, OnDigest
  <2>5. OwedBytes(x)'
    BY <1>2, <1>4, <2>4 DEF JobOK, OwedBytes, PackageTypes, Jobs
  <2>6. OwedFetch(x)'
    BY <1>1, <1>2, <1>3, <1>4 DEF JobOK, OwedFetch, Offered
  <2>7. FetchReplaces(x)'
    BY <1>1, <1>2, <1>4 DEF JobOK, FetchReplaces
  <2> QED BY <2>2, <2>3, <2>5, <2>6, <2>7 DEF JobOK
<1> QED BY <1>1, <1>2, <1>5, <1>6, <1>7 DEF PackageInv, NoJobsOutside

LEMMA CrashPackagesKeeps ==
    ASSUME BlobInv, StoreInv, PackageInv, CrashPackages
    PROVE  PackageInv'
<1>1. /\ scope \in Protocols /\ Crash
      /\ job' = [r \in Requests |-> NoJob]
      /\ UNCHANGED <<scope, upstream, pkg, stub, jobs, told, wrong, missed,
                     gone, withdrawn>>
  BY DEF CrashPackages, rowVars, pkgHist
<1>2. PackageTypes /\ wrong = {} /\ missed = {}
  BY DEF PackageInv
<1>3. OnlyDeleted
  BY <1>1, CrashKnown DEF Protocols
<1>4. RowStep
  BY <1>1, <1>3, RowsAlone
<1>5. PackageTypes'
  BY <1>1, <1>2, JobTypes DEF PackageTypes, UpstreamType
<1>6. \A x \in Requests : JobOK(x)'
  BY <1>1, JobEnds
<1> QED BY <1>1, <1>2, <1>4, <1>5, <1>6 DEF PackageInv, RowStep, NoJobsOutside

LEMMA StoreStepKeeps ==
    ASSUME BlobInv, StoreInv, PackageInv, NEW r \in Requests, StoreStep(r)
    PROVE  PackageInv'
<1>1. /\ scope \in Protocols /\ StoreSide(r) /\ UNCHANGED pkgVars
      /\ req[r].at # "record"
  BY DEF StoreStep, Blobs, StoreSide, Dedupe, DropTmp, StoreRename,
     WriteMeta, Unlink, UnlinkMeta, Unrecord
<1>2. UNCHANGED <<scope, upstream, pkg, stub, job, jobs, told, wrong, missed,
                  gone, withdrawn>>
  BY <1>1 DEF pkgVars, rowVars, pkgHist
<1>3. PackageTypes /\ wrong = {} /\ missed = {}
  BY DEF PackageInv
<1>4. NoNewDelete /\ OnlyDeleted
  BY <1>1, <1>2, StoreSideKnown DEF Protocols
<1>5. ASSUME NEW x \in Requests
      PROVE  JobOK(x)'
  <2>1. job[x].at = "store" =>
          req'[x].op = req[x].op /\ req'[x].digest = req[x].digest
    <3>1. ASSUME x = r, job[r].at = "store"
          PROVE  req[r].op = "store"
      BY <1>1, <3>1 DEF PackageInv, JobOK, StoreMatches
    <3>2. req[r].at = "unrecord" => req[r].op # "store"
      BY DEF BlobInv, RequestShape, OpAndPlace, StorePlaces
    <3> QED BY <1>1, <3>1, <3>2, StoreSideEffect
  <2>2. RowsStay
    BY <1>2 DEF RowsStay
  <2> QED BY <1>1, <1>2, <1>3, <1>4, <2>1, <2>2, JobStays DEF PackageInv
<1>6. RowStep
  BY <1>1, <1>2, <1>4, RowsAlone
<1>7. PackageTypes'
  BY <1>2, <1>3 DEF PackageTypes, UpstreamType
<1> QED BY <1>2, <1>3, <1>5, <1>6, <1>7 DEF PackageInv, RowStep, NoJobsOutside

-----------------------------------------------------------------------------
(***************************************************************************)
(* The registry.                                                           *)
(***************************************************************************)

LEMMA PackageRequestKeeps ==
    ASSUME BlobInv, StoreInv, PackageInv, NEW r \in Requests, PackageRequest(r)
    PROVE  PackageInv'
<1>0. \A v \in Asked : v \in Versions
  BY PackagesAssumption DEF Versions
<1>1. ASSUME NEW v \in Asked, NEW d \in Digests, PublishBegin(r, v, d)
      PROVE  PackageInv'
  BY <1>0, <1>1, PublishBeginKeeps
<1>2. ASSUME scope \in Protocols, ReadIndex(r)
      PROVE  PackageInv'
  BY <1>2, ReadIndexKeeps
<1>3. ASSUME NEW v \in Asked, NpmTarball(r, v)
      PROVE  PackageInv'
  <2>1. scope = "npm" /\ scope \in Protocols /\ PackageTypes /\ RowFlags
    BY <1>3 DEF NpmTarball, Protocols, PackageInv, RowInv
  <2>2. CASE pkg[v].pinned
    BY <1>0, <1>3, <2>1, <2>2, DownloadKeeps DEF NpmTarball, RowFlags
  <2>3. CASE ~pkg[v].pinned
    BY <1>0, <1>3, <2>1, <2>3, DownloadKeeps DEF NpmTarball
  <2> QED BY <2>2, <2>3
<1>4. ASSUME NEW v \in Asked, CargoDownload(r, v)
      PROVE  PackageInv'
  <2>1. scope = "cargo" /\ scope \in Protocols /\ RowFlags
    BY <1>4 DEF CargoDownload, Protocols, PackageInv, RowInv
  <2>2. CASE Live(v)
    BY <1>0, <1>4, <2>1, <2>2, DownloadKeeps DEF CargoDownload
  <2>3. CASE ~Live(v)
    BY <1>0, <1>4, <2>1, <2>3, DownloadKeeps DEF CargoDownload, RowFlags
  <2> QED BY <2>2, <2>3
<1>5. ASSUME NEW v \in Asked, PypiFile(r, v)
      PROVE  PackageInv'
  <2>1. scope = "pypi" /\ scope \in Protocols /\ Live(v)
    BY <1>5 DEF PypiFile, Protocols
  <2>2. CASE pkg[v].content \in mirror
    BY <1>0, <1>5, <2>1, <2>2, DownloadKeeps DEF PypiFile, AfterStat
  <2>3. CASE pkg[v].content \notin mirror
    BY <1>0, <1>5, <2>1, <2>3, DownloadKeeps DEF PypiFile, AfterStat
  <2> QED BY <2>2, <2>3
<1>6. ASSUME NEW v \in Asked, NugetNupkg(r, v) \/ ServeArtifact(r, v)
      PROVE  PackageInv'
  <2>1. /\ scope \in {"nuget", "maven"} /\ scope \in Protocols /\ RowFlags
        /\ Download(r, v, IF Live(v) THEN AfterStat(pkg[v].content, "restat")
                          ELSE "fetch")
    BY <1>6 DEF NugetNupkg, ServeArtifact, Protocols, PackageInv, RowInv
  <2>2. CASE ~Live(v)
    BY <1>0, <2>1, <2>2, DownloadKeeps DEF RowFlags
  <2>3. CASE Live(v) /\ pkg[v].content \in mirror
    BY <1>0, <2>1, <2>3, DownloadKeeps DEF AfterStat
  <2>4. CASE Live(v) /\ pkg[v].content \notin mirror
    BY <1>0, <2>1, <2>4, DownloadKeeps DEF AfterStat
  <2> QED BY <2>2, <2>3, <2>4
<1> QED BY <1>1, <1>2, <1>3, <1>4, <1>5, <1>6, DeletePackageBlobKeeps DEF
     PackageRequest, NpmPackument, CargoSparseIndex, PypiSimple, NugetIndex,
     MavenMetadata, Protocols

\* Only a request that was accepted goes on.
LEMMA HandlePackageScope ==
    ASSUME PackageInv, NEW r \in Requests, HandlePackage(r)
    PROVE  scope \in Protocols
<1>0. NoJob.op = "none" /\ NoJob.at = "none"
  BY DEF NoJob, Job
<1>1. ASSUME NEW op \in {"publish", "index", "download"}, Stored(r, op)
      PROVE  job[r] # NoJob
  BY <1>0, <1>1 DEF Stored
<1>2. ASSUME Fetched(r) \/ IndexUnavailable(r) \/ Hydrate(r)
      PROVE  job[r] # NoJob
  BY <1>0, <1>2 DEF Fetched, IndexUnavailable, Hydrate
<1>3. ASSUME StatFile(r) \/ OpenBlob(r) \/ FetchFile(r) \/ FetchFileFails(r)
      PROVE  job[r] # NoJob
  BY <1>0, <1>3 DEF StatFile, OpenBlob, FetchFile, FetchFileFails, Asks
<1>4. ASSUME \/ NpmPublish(r) \/ CargoPublish(r) \/ PypiPublish(r)
             \/ NugetPublish(r) \/ MavenPublish(r) \/ HydrateStored(r)
      PROVE  job[r] # NoJob
  BY <1>1, <1>4 DEF NpmPublish, CargoPublish, PypiPublish, NugetPublish,
     MavenPublish, PublishNew, PublishOnce, HydrateStored
<1>5. ASSUME \/ ProxyNpmPackument(r) \/ ProxyCargoSparseIndex(r)
             \/ ProxyPypiPackage(r) \/ ProxyMavenMetadata(r)
             \/ ProxyNugetVersionIndex(r)
      PROVE  job[r] # NoJob
  BY <1>2, <1>5 DEF ProxyNpmPackument, ProxyCargoSparseIndex,
     ProxyPypiPackage, ProxyMavenMetadata, ProxyNugetVersionIndex, ListIfNew
<1>6. ASSUME \/ ProxyNpmTarball(r) \/ ProxyCargoDownload(r) \/ ProxyPypiFile(r)
             \/ ProxyNugetNupkg(r) \/ ProxyMavenArtifact(r)
      PROVE  job[r] # NoJob
  BY <1>1, <1>6 DEF ProxyNpmTarball, ProxyCargoDownload, ProxyPypiFile,
     ProxyNugetNupkg, ProxyMavenArtifact, PutAndOpen, ServeStored
<1>7. job[r] # NoJob
  BY <1>2, <1>3, <1>4, <1>5, <1>6 DEF HandlePackage
<1> QED BY <1>7 DEF PackageInv, NoJobsOutside

LEMMA HandlePackageKeeps ==
    ASSUME BlobInv, StoreInv, PackageInv, NEW r \in Requests, HandlePackage(r)
    PROVE  PackageInv'
<1>0. scope \in Protocols
  BY HandlePackageScope
<1>1. CASE NpmPublish(r) \/ CargoPublish(r) \/ PypiPublish(r)
             \/ NugetPublish(r) \/ MavenPublish(r)
  BY <1>0, <1>1, PublishKeeps DEF NpmPublish, CargoPublish, PypiPublish,
     NugetPublish, MavenPublish
<1>2. CASE \/ ProxyNpmPackument(r) \/ ProxyCargoSparseIndex(r)
           \/ ProxyPypiPackage(r)
  <2>1. /\ scope \in {"npm", "cargo", "pypi"} /\ Fetched(r) /\ CacheRows
        /\ UNCHANGED told \/ \E vs : Tell(vs)
        /\ Done(r) /\ UNCHANGED stub
    BY <1>2 DEF ProxyNpmPackument, ProxyCargoSparseIndex, ProxyPypiPackage,
       ListIfNew
  <2> QED BY <2>1, CachedListKeeps
<1>3. CASE Hydrate(r)
  <2>1. UNCHANGED <<scope, upstream, stub, jobs, gone, withdrawn, wrong,
            missed>>
    BY <1>3 DEF Hydrate
  <2>2. PICK v \in Versions :
          /\ IsLeast(v, job[r].todo)
          /\ \/ /\ v \in Offered /\ Step(r, "store")
                /\ StoreEnter(r, upstream[v])
                /\ UNCHANGED <<pkg, told, begun>>
             \/ UNCHANGED <<ociRest, pkg>> /\ Hydrated(r, v, FALSE)
    BY <1>3 DEF Hydrate
  <2>3. job[r].at = "hydrate"
    BY <1>3 DEF Hydrate
  <2> QED BY <1>0, <2>1, <2>2, <2>3, HydrateStoresKeeps, HydrateFailsKeeps
<1>4. CASE ProxyNugetNupkg(r) \/ ProxyMavenArtifact(r)
  BY <1>4, PutAndOpenKeeps DEF ProxyNugetNupkg, ProxyMavenArtifact
<1> QED BY <1>0, <1>1, <1>2, <1>3, <1>4, IndexUnavailableKeeps,
     ProxyMavenMetadataKeeps, ProxyNugetVersionIndexKeeps,
     HydrateStoredKeeps, StatFileKeeps, OpenBlobKeeps, FetchFileKeeps,
     FetchFileFailsKeeps, ServeStoredKeeps, ProxyPypiFileKeeps DEF
     HandlePackage

\* Behaviours about OCI clients and images leave the packages alone.
LEMMA PackagesAloneKeeps ==
    ASSUME PackageInv, scope \notin Protocols, gone' \subseteq Digests,
           jobs' \in 0..MaxJobs,
           UNCHANGED <<scope, upstream, pkg, stub, job, told, withdrawn, wrong,
               missed>>
    PROVE  PackageInv'
  BY DEF PackageInv, PackageTypes, UpstreamType, NoJobsOutside

LEMMA ImagesKeepPackages ==
    ASSUME PackageInv, ImageInv, ImagesNext
    PROVE  PackageInv'
<1>1. scope = "images" /\ UNCHANGED packagesRest
  BY DEF ImagesNext, PutImage, ServeManifest, AcceptImage, PutImageStat,
     ProxyOciManifest, ProxyOciManifestFails, DeleteTag, DeleteDigest,
     AdminDelete, StoreLayer, DeleteLayer, LayerStep, CrashImages, ImageInv,
     NoImagesOutside, NoPull
<1>2. Accept \/ UNCHANGED jobs
  BY DEF ImagesNext, PutImage, ServeManifest, AcceptImage, PutImageStat,
     ProxyOciManifest, ProxyOciManifestFails, DeleteTag, DeleteDigest,
     AdminDelete, StoreLayer, DeleteLayer, LayerStep, CrashImages
<1>3. gone' = gone \/ \E d \in Layers : gone' = gone \cup {d}
  BY DEF ImagesNext, PutImage, ServeManifest, AcceptImage, PutImageStat,
     ProxyOciManifest, ProxyOciManifestFails, DeleteTag, DeleteDigest,
     AdminDelete, StoreLayer, DeleteLayer, LayerStep, CrashImages
<1>4. PackageTypes
  BY DEF PackageInv
<1>5. jobs' \in 0..MaxJobs /\ gone' \subseteq Digests
  BY <1>2, <1>3, <1>4, AcceptTypes, OciManifestsAssumption DEF PackageTypes,
     Layers
<1> QED BY <1>1, <1>5, PackagesAloneKeeps DEF packagesRest, rowVars,
     pkgHist, Protocols

\* The store as packages see it.
LEMMA PackagesKeepStore ==
    ASSUME BlobInv, StoreInv, PackageInv, scope # "oci", PackagesNext
    PROVE  /\ StoreInv' /\ UNCHANGED <<scope, upstream>>
           /\ scope \in Protocols
<1>1. ASSUME UNCHANGED <<ociRest, gone, scope>>
      PROVE  StoreInv'
  BY <1>1, UnchangedKnown, RestIsVars
<1>2. ASSUME NEW r \in Requests, NEW d \in Digests, StoreEnter(r, d),
             UNCHANGED <<gone, scope>>
      PROVE  StoreInv'
  BY <1>2, StoreEnterKnown
<1>3. ASSUME NEW r \in Requests, StoreSide(r), UNCHANGED <<gone, scope>>
      PROVE  StoreInv'
  BY <1>3, StoreSideKnown
<1>4. ASSUME NEW r \in Requests, PackageRequest(r)
      PROVE  StoreInv' /\ UNCHANGED <<scope, upstream>> /\ scope \in Protocols
  <2>1. ASSUME NEW v \in Asked, NEW d \in Digests, PublishBegin(r, v, d)
        PROVE  StoreInv' /\ UNCHANGED <<scope, upstream>> /\ scope \in Protocols
    BY <1>2, <2>1 DEF PublishBegin
  <2>2. ASSUME scope \in Protocols, ReadIndex(r)
        PROVE  StoreInv' /\ UNCHANGED <<scope, upstream>> /\ scope \in Protocols
    BY <1>1, <2>2 DEF ReadIndex
  <2>3. ASSUME scope \in Protocols, NEW v \in Asked, NEW loc, Download(r, v,
               loc)
        PROVE  StoreInv' /\ UNCHANGED <<scope, upstream>> /\ scope \in Protocols
    BY <1>1, <2>3 DEF Download
  <2>4. ASSUME NEW d \in Digests, DeletePackageBlob(r, d)
        PROVE  StoreInv' /\ UNCHANGED <<scope, upstream>> /\ scope \in Protocols
    BY <2>4, DeleteBeginKnown DEF DeletePackageBlob
  <2> QED BY <1>4, <2>1, <2>2, <2>3, <2>4 DEF PackageRequest, NpmPackument,
       CargoSparseIndex, PypiSimple, NugetIndex, MavenMetadata, NpmTarball,
       CargoDownload, PypiFile, NugetNupkg, ServeArtifact, Protocols
<1>5. ASSUME NEW r \in Requests, HandlePackage(r)
      PROVE  StoreInv' /\ UNCHANGED <<scope, upstream>> /\ scope \in Protocols
  <2>0. UpstreamType
    BY DEF PackageInv, PackageTypes
  <2>1. scope \in Protocols
    BY <1>5, HandlePackageScope
  <2>2. UNCHANGED <<gone, scope, upstream>>
    BY <1>5 DEF HandlePackage, NpmPublish, CargoPublish, PypiPublish,
       NugetPublish, MavenPublish, PublishNew, PublishOnce,
       IndexUnavailable, ProxyNpmPackument, ProxyCargoSparseIndex,
       ProxyPypiPackage, ProxyMavenMetadata, ProxyNugetVersionIndex,
       ListIfNew, Fetched, Hydrate, HydrateStored, StatFile, OpenBlob,
       FetchFile, ProxyStore, FetchFileFails, ProxyNpmTarball,
       ProxyCargoDownload, ProxyPypiFile, ProxyNugetNupkg,
       ProxyMavenArtifact, PutAndOpen, ServeStored
  <2>3. \/ UNCHANGED ociRest
        \/ \E op : Stored(r, op)
        \/ \E v \in Offered : StoreEnter(r, upstream[v])
    BY <1>5 DEF HandlePackage, NpmPublish, CargoPublish, PypiPublish,
       NugetPublish, MavenPublish, PublishNew, PublishOnce,
       IndexUnavailable, ProxyNpmPackument, ProxyCargoSparseIndex,
       ProxyPypiPackage, ProxyMavenMetadata, ProxyNugetVersionIndex,
       ListIfNew, Fetched, Hydrate, HydrateStored, StatFile, OpenBlob,
       FetchFile, ProxyStore, FetchFileFails, ProxyNpmTarball,
       ProxyCargoDownload, ProxyPypiFile, ProxyNugetNupkg,
       ProxyMavenArtifact, PutAndOpen, ServeStored
  <2>4. ASSUME NEW op, Stored(r, op)
        PROVE  StoreSide(r)
    BY <2>4 DEF Stored, StoreSide
  <2> QED BY <1>1, <1>2, <1>3, <2>0, <2>1, <2>2, <2>3, <2>4, OfferedAreDigests
<1>6. ASSUME NEW r \in Requests, StoreStep(r)
      PROVE  StoreInv' /\ UNCHANGED <<scope, upstream>> /\ scope \in Protocols
  <2>1. StoreSide(r) /\ UNCHANGED <<gone, scope,
            upstream>> /\ scope \in Protocols
    BY <1>6 DEF StoreStep, Blobs, StoreSide, pkgVars
  <2> QED BY <1>3, <2>1
<1>7. ASSUME NEW v \in Asked, NEW b \in BOOLEAN, MutateYank(v, b)
      PROVE  StoreInv' /\ UNCHANGED <<scope, upstream>> /\ scope \in Protocols
  BY <1>1, <1>7 DEF MutateYank, Protocols
<1>8. ASSUME CrashPackages
      PROVE  StoreInv' /\ UNCHANGED <<scope, upstream>> /\ scope \in Protocols
  BY <1>8, CrashKnown DEF CrashPackages
<1> QED BY <1>4, <1>5, <1>6, <1>7, <1>8 DEF PackagesNext, Oci

(***************************************************************************)
(* The inductive invariant of the registry.                                *)
(***************************************************************************)

RegistryInv == BlobInv /\ StoreInv /\ PackageInv /\ ImageInv

LEMMA RegistryInitInv == RegistryInit => RegistryInv
<1> SUFFICES ASSUME RegistryInit PROVE RegistryInv
  OBVIOUS
<1>1. Init /\ PackagesInit
  BY DEF RegistryInit, PackagesInit
<1>2. BlobInv
  BY <1>1, BlobInit
<1>3. StoreInv
  BY <1>1 DEF Init, Idle, StoreInv, DeletesKnown, NoSessions
<1>4. PackageInv
  <2>1. Absent \in Contents /\ NoRowYet \in Rows
    BY NoContents DEF Absent, NoRowYet, Rows
  <2>2. UpstreamType
    BY <1>1, <2>1, PackagesAssumption DEF PackagesInit, UpstreamType, Versions
  <2>3. 0 \in 0..MaxJobs
    BY PackagesAssumption
  <2>4. PackageTypes
    BY <1>1, <2>1, <2>2, <2>3, JobTypes DEF PackagesInit, PackageTypes
  <2>5. RowInv /\ wrong = {} /\ missed = {}
    BY <1>1 DEF PackagesInit, NoRowYet, RowInv, ToldIsRow, RowFlags,
       RowHasBytes, YankSticks, Live
  <2>6. \A r \in Requests : job[r] = NoJob
    BY <1>1 DEF PackagesInit
  <2>7. \A r \in Requests : JobOK(r)
    BY <2>6 DEF NoJob, Job, JobOK, StoreMatches, DownloadMatches, OwedBytes,
       OwedFetch, FetchReplaces
  <2>8. NoJobsOutside
    BY <1>1 DEF PackagesInit, NoJobsOutside
  <2> QED BY <2>4, <2>5, <2>7, <2>8 DEF PackageInv
<1>5. ImageInv
  <2>1. \A r \in Requests : pull[r] = NoPull
    BY DEF RegistryInit
  <2>2. ImagesTypeOK
    BY NoPullTypes DEF RegistryInit, ImagesTypeOK
  <2>3. TagResolves /\ PushedIsHere /\ PushedTagStays /\ FetchMeetsPush
          /\ ImageIsWhole /\ StatIsSound /\ NoImagesOutside
    BY <2>1 DEF RegistryInit, TagResolves, PushedIsHere, PushedTagStays,
       FetchMeetsPush, ImageIsWhole, StatIsSound, NoImagesOutside, NoPull
  <2> QED BY <2>2, <2>3 DEF ImageInv
<1> QED BY <1>2, <1>3, <1>4, <1>5 DEF RegistryInv

LEMMA RegistryNextInv ==
    ASSUME RegistryInv, [RegistryNext]_registryVars
    PROVE  RegistryInv'
<1> USE DEF RegistryInv
<1>1. BlobInv'
  <2>1. UpstreamType
    BY DEF PackageInv, PackageTypes
  <2> QED BY <2>1, RegistryStep, BlobStepKeeps
<1>2. CASE ImagesNext
  BY <1>1, <1>2, ImagesNextKeeps, ImagesKeepPackages
<1>3. CASE PackagesNext /\ UNCHANGED imageVars /\ scope # "oci"
  <2>1. StoreInv' /\ UNCHANGED <<scope, upstream>> /\ scope \in Protocols
    BY <1>3, PackagesKeepStore
  <2>2. ImageInv'
    BY <1>3, <2>1, BlobsMoveKeeps DEF Protocols
  <2>3. \A v \in Asked : v \in Versions
    BY PackagesAssumption DEF Versions
  <2>4. PackageInv'
    BY <1>3, <2>3, PackageRequestKeeps, HandlePackageKeeps, StoreStepKeeps,
       MutateYankKeeps, CrashPackagesKeeps DEF PackagesNext, Oci
  <2> QED BY <1>1, <2>1, <2>2, <2>4
<1>4. CASE PackagesNext /\ UNCHANGED imageVars /\ scope = "oci"
  <2>1. UNCHANGED pkgVars
    <3>1. "oci" \notin Protocols
      BY DEF Protocols
    <3>2. ASSUME NEW r \in Requests
          PROVE  ~HandlePackage(r)
      BY <1>4, <3>1, HandlePackageScope
    <3>3. ASSUME NEW r \in Requests
          PROVE  ~PackageRequest(r) /\ ~StoreStep(r)
      BY <1>4, <3>1 DEF PackageRequest, NpmPackument, CargoSparseIndex,
         PypiSimple, NugetIndex, MavenMetadata, NpmTarball, CargoDownload,
         PypiFile, NugetNupkg, ServeArtifact, PublishBegin,
         DeletePackageBlob, StoreStep, Blobs
    <3> QED BY <1>4, <3>1, <3>2, <3>3 DEF PackagesNext, Oci, MutateYank,
         CrashPackages
  <2>2. UNCHANGED <<scope, upstream, pkg, stub, job, jobs, told, wrong, missed,
                    withdrawn, gone>>
    BY <2>1 DEF pkgVars, rowVars, pkgHist
  <2>3. PackageInv'
    BY <1>4, <2>2, PackagesAloneKeeps DEF PackageInv, PackageTypes, Protocols
  <2>4. ImageInv'
    BY <1>4, <2>2, BlobsMoveKeeps
  <2> QED BY <1>1, <1>4, <2>2, <2>3, <2>4 DEF StoreInv
<1>5. CASE UNCHANGED registryVars
  <2>1. UNCHANGED vars /\ UNCHANGED imageVars /\ UNCHANGED pkgVars
    BY <1>5 DEF registryVars, allVars
  <2>2. UNCHANGED <<scope, upstream, pkg, stub, job, jobs, told, wrong, missed,
                    withdrawn, gone>>
    BY <2>1 DEF pkgVars, rowVars, pkgHist
  <2>3. StoreInv'
    BY <2>1, <2>2, UnchangedKnown
  <2>4. UNCHANGED <<blob, req>>
    BY <2>1 DEF vars, blobVars
  <2>5. ImageInv'
    BY <2>1, <2>2, <2>4, BlobsMoveKeeps DEF Present
  <2>6. PackageTypes' /\ NoJobsOutside'
    BY <2>2 DEF PackageInv, PackageTypes, UpstreamType, NoJobsOutside
  <2>7. RowInv => RowInv'
    BY <2>2, <2>4 DEF RowInv, ToldIsRow, RowFlags, RowHasBytes, YankSticks,
       Live, Present
  <2>8. \A r \in Requests : JobOK(r) => JobOK(r)'
    BY <2>2, <2>4 DEF JobOK, StoreMatches, DownloadMatches, OwedBytes,
       OwedFetch, FetchReplaces, IsLeast, Safe, OnDigest, Offered
  <2> QED BY <1>1, <2>2, <2>3, <2>5, <2>6, <2>7, <2>8 DEF PackageInv
<1> QED BY <1>2, <1>3, <1>4, <1>5 DEF RegistryNext

\* The inductive invariant of the registry: blob store, packages and images
\* together, whatever order requests, faults and crashes come in.
THEOREM RegistryInvariant == RegistrySpec => []RegistryInv
<1>1. RegistryInv /\ [RegistryNext]_registryVars => RegistryInv'
  BY RegistryNextInv
<1> QED BY <1>1, RegistryInitInv, PTL DEF RegistrySpec

\* The types of the registry's state: its tables, its files, its requests and
\* the history.
THEOREM RegistryTypeOK == RegistrySpec => []OciManifestsTypeOK
<1>1. RegistryInv => OciManifestsTypeOK
  BY DEF RegistryInv, BlobInv, PackageInv, PackageTypes, UpstreamType,
     ImageInv, OciManifestsTypeOK, PackagesTypeOK
<1> QED BY <1>1, RegistryInvariant, PTL

\* What finaliseUpload, putBlob and the reaper leave under a digest has that
\* digest, through DELETEs, crashes, torn appends and every other failed call,
\* unless two requests were on the upload session it came from at once.
THEOREM RegistryContentAddressed == RegistrySpec => []ContentAddressed
<1>1. RegistryInv => ContentAddressed
  BY DEF RegistryInv, BlobInv
<1> QED BY <1>1, RegistryInvariant, PTL

\* Between requests the bytesReceived of a session is the length of its tmp
\* file, and no tmp file outlives its row, unless two requests were on it at
\* once, the reaper listed it with a request on it, or a call failed or the
\* process died after the change of the file and before that of the row.
THEOREM RegistrySessionAgrees == RegistrySpec => []SessionAgrees
<1>1. RegistryInv => SessionAgrees
  BY DEF RegistryInv, BlobInv
<1> QED BY <1>1, RegistryInvariant, PTL

\* A digest whose store was answered has its bytes until the next DELETE,
\* unless that store met a DELETE or found a sidecar without its file; and the
\* mirror names no blob without bytes, except while a DELETE of it runs and
\* from one that met a store or was not finished to the next store or DELETE.
THEOREM RegistryStoredIsThere == RegistrySpec => []StoredIsThere
<1>1. RegistryInv => StoredIsThere
  BY DEF RegistryInv, BlobInv
<1> QED BY <1>1, RegistryInvariant, PTL

LEMMA AtMostOne ==
    ASSUME NEW x, NEW S, S \subseteq {x}
    PROVE  Cardinality(S) <= 1
<1>1. IsFiniteSet({x}) /\ Cardinality({x}) = 1
  BY FS_Singleton
<1>2. Cardinality(S) <= Cardinality({x})
  BY <1>1, FS_Subset
<1> QED BY <1>1, <1>2

\* Publishes, cached lists, downloads and deletes in any order tell clients
\* one content for a version and serve that or nothing, except that npm serves
\* the upstream's bytes for a version whose blob was deleted; a yank sticks.
THEOREM RegistryVersionIsImmutable == RegistrySpec => []VersionIsImmutable
<1>1. ASSUME RegistryInv
      PROVE  VersionIsImmutable
  <2>1. PackageInv
    BY <1>1 DEF RegistryInv
  <2>2. ToldIsRow
    BY <2>1 DEF PackageInv, RowInv, NoJobsOutside, ToldIsRow
  <2>3. OneContentTold
    BY <2>2, AtMostOne DEF ToldIsRow, OneContentTold
  <2>4. YankSticks
    BY <2>1 DEF PackageInv, RowInv, NoJobsOutside, YankSticks
  <2> QED BY <2>1, <2>3, <2>4 DEF PackageInv, VersionIsImmutable, ServedAsTold
<1> QED BY <1>1, RegistryInvariant, PTL

\* A version a client was told about is found, in the store until somebody
\* deletes it, or upstream as long as that answers.
THEOREM RegistryToldIsFound == RegistrySpec => []ToldIsFound
<1>1. RegistryInv => ToldIsFound
  BY DEF RegistryInv, PackageInv, ToldIsFound
<1> QED BY <1>1, RegistryInvariant, PTL

\* A pushed tag leads to its manifest, and everything an accepted manifest
\* references is there unless it was deleted.
THEOREM RegistryPushedIsPullable == RegistrySpec => []PushedIsPullable
<1>1. RegistryInv => PushedIsPullable
  BY DEF RegistryInv, ImageInv, PushedIsPullable
<1> QED BY <1>1, RegistryInvariant, PTL
=============================================================================
