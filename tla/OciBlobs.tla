------------------------------ MODULE OciBlobs ------------------------------
(***************************************************************************)
(* The blob half of the OCI registry: chunked upload sessions              *)
(* (POST, PATCH, PUT on /v2/<name>/blobs/uploads/), the content-addressed  *)
(* store they end in, blob DELETE, the storage driver's own putBlob, and   *)
(* the reaper of abandoned sessions, interleaved call by call.  A session  *)
(* is a SQL row and a tmp file; a blob is a file, a sidecar file and a row *)
(* of the mirror table.  SQL statements are synchronous, every file system *)
(* call is awaited, and the process can crash between any two steps.       *)
(*                                                                         *)
(* Bytes are sequences of chunks and the digest of a file is its contents: *)
(* SHA-256 has no collisions here.  An open file keeps its inode through a *)
(* rename and an unlink, so files are inodes and names point at them.      *)
(***************************************************************************)
EXTENDS Integers, Sequences, FiniteSets

CONSTANTS
    Uploads,    \* upload ids, each minted once
    Requests,   \* requests in flight at a time
    MaxRequests, \* bound: requests ever accepted
    Common,     \* digests that are stored and deleted beside the sessions
    Chunks,     \* contents of one chunk
    MaxChunks,  \* bound: chunks in a file
    MaxInodes,  \* bound: files that exist at once
    MaxCrashes  \* bound: crashes and failed calls

Contents == UNION {[1..n -> Chunks] : n \in 0..MaxChunks}
Digests  == Contents \ {<<>>}

ASSUME OciBlobsAssumption ==
    /\ MaxChunks \in Nat \ {0}
    /\ MaxInodes \in Nat
    /\ MaxRequests \in Nat
    /\ MaxCrashes \in Nat
    /\ Common \subseteq Digests

Inodes   == 1..MaxInodes
NoFile   == 0
Names    == Inodes \cup {NoFile}
NoRow    == [state |-> "none", bytes |-> 0]
Idle     == [op |-> "idle", at |-> "idle", up |-> {}, digest |-> <<>>,
             chunk |-> <<>>, saw |-> 0]

VARIABLES
    row,        \* pending_blob_uploads
    minted,     \* upload ids POST has handed out
    tmp,        \* uploads/<id>, as a name of an inode
    inode,      \* contents of every file
    blob,       \* blobs/<sha>, as a name of an inode
    sidecar,    \* digests with blobs/<sha>.meta.json
    mirror,     \* digests with a row in table blob
    req,        \* the requests in flight: operation, next call, locals
    fd,         \* the file each of them has open
    due,        \* the reaper's `expired` list
    reaping,    \* the session whose tmp file it has just unlinked
    overlap,    \* history: sessions two requests were on at once
    parted,     \* history: sessions the reaper had listed while a request
                \* was on them, or a failed call or a crash left half done
    raced,      \* history: digests a DELETE met a store of, or did not
                \* finish; until the file or the sidecar is in order again
    dubious,    \* history: stores that met a DELETE of their digest, or took
                \* the sidecar of a file that is gone for the file
    owner,      \* history: the session an inode was created for
    acked,      \* history: digests a store answered for, not deleted since
    crashes,    \* history: crashes and failed calls so far
    begun       \* history: requests accepted so far

sessionVars == <<row, minted, tmp>>
fileVars    == <<inode, owner, fd>>
blobVars    == <<blob, sidecar, mirror>>
reaperVars  == <<due, reaping>>
sessionHist == <<overlap, parted>>
vars == <<sessionVars, fileVars, blobVars, req, reaperVars, sessionHist, raced,
          dubious, acked, crashes, begun>>

Storing  == {"put", "store"}
Ops      == {"idle", "patch", "put", "delete", "store"}
Places   == {"idle", "open", "write", "cursor", "hash", "dedupe", "drop",
             "rename", "meta", "access", "readMeta", "record",
             "unlink", "unlinkMeta", "unrecord"}
Handlers == [op : Ops, at : Places, up : SUBSET Uploads, digest : Contents,
             chunk : Contents, saw : Nat]

TypeOK ==
    /\ row \in [Uploads -> [state : {"none", "live", "expired"}, bytes : Nat]]
    /\ minted \subseteq Uploads
    /\ tmp \in [Uploads -> Names]
    /\ inode \in [Inodes -> Contents]
    /\ blob \in [Digests -> Names]
    /\ sidecar \subseteq Digests
    /\ mirror \subseteq Digests
    /\ req \in [Requests -> Handlers]
    /\ fd \in [Requests -> Names]
    /\ due \subseteq Uploads
    /\ reaping \subseteq Uploads
    /\ overlap \subseteq Uploads
    /\ parted \subseteq Uploads
    /\ raced \subseteq Digests
    /\ dubious \subseteq Requests
    /\ owner \in [Inodes -> SUBSET Uploads]
    /\ acked \subseteq Digests
    /\ crashes \in 0..MaxCrashes
    /\ begun \in 0..MaxRequests

Init ==
    /\ row = [u \in Uploads |-> NoRow]
    /\ minted = {}
    /\ tmp = [u \in Uploads |-> NoFile]
    /\ inode = [i \in Inodes |-> <<>>]
    /\ blob = [d \in Digests |-> NoFile]
    /\ sidecar = {} /\ mirror = {}
    /\ req = [r \in Requests |-> Idle]
    /\ fd = [r \in Requests |-> NoFile]
    /\ due = {} /\ reaping = {}
    /\ overlap = {} /\ parted = {} /\ raced = {} /\ dubious = {}
    /\ owner = [i \in Inodes |-> {}]
    /\ acked = {}
    /\ crashes = 0
    /\ begun = 0

\* The session has a row.
Open(u) == row[u].state # "none"

OnSession(u) == {r \in Requests : u \in req[r].up}
OnDigest(d, ops) == {r \in Requests : req[r].op \in ops /\ req[r].digest = d}
Quiet(u) == OnSession(u) = {} /\ u \notin reaping

\* Inodes with a name or an open descriptor, and one that is free.
InUse == {tmp[u] : u \in Uploads} \cup {blob[d] : d \in Digests}
           \cup {fd[r] : r \in Requests}
Free  == {i \in Inodes \ InUse : \A j \in Inodes \ InUse : i <= j}

\* storage.statBlob prefers the mirror and falls back to the file.
Stat(d) == d \in mirror \/ blob[d] # NoFile

-----------------------------------------------------------------------------
(***************************************************************************)
(* Requests.  A handler that throws answers an error envelope and ends.    *)
(***************************************************************************)

\* History: whom the request r meets on the sessions us and the digest d.
Meet(r, us, d, o) ==
    LET met == OnDigest(d, IF o = "delete" THEN Storing ELSE {"delete"})
    IN  /\ overlap' = overlap \cup {u \in us : OnSession(u) # {}}
        /\ parted' = parted \cup (us \cap (due \cup reaping))
        /\ raced' = raced \cup {x \in {d} \ {<<>>} : met # {}}
        /\ dubious' = dubious \cup (IF o = "delete" THEN met
                                    ELSE {x \in {r} : met # {}})

\* A request takes the slot r.
Enter(r, o, loc, us, d, c, n) ==
    /\ req[r] = Idle
    /\ req' = [req EXCEPT ![r] = [op |-> o, at |-> loc, up |-> us,
                 digest |-> d, chunk |-> c, saw |-> n]]
    /\ Meet(r, us, d, o)

\* Bound: a fault counts as a request, where sessions are concerned.
Begin(r, o, loc, us, d, c, n) ==
    /\ begun + (IF us = {} THEN 0 ELSE crashes) < MaxRequests
    /\ begun' = begun + 1
    /\ Enter(r, o, loc, us, d, c, n)

Move(r, loc) == req' = [req EXCEPT ![r].at = loc]
Goto(r, loc) == Move(r, loc) /\ UNCHANGED dubious
End(r)       == req' = [req EXCEPT ![r] = Idle] /\ dubious' = dubious \ {r}

\* A call fails; crashes and failures share a bound.
Fault == crashes < MaxCrashes /\ crashes' = crashes + 1

\* History: the session of r is left half done.
Parts(r) == parted' = parted \cup req[r].up /\ UNCHANGED overlap

\* POST: uploadStore.create.
PostUpload(u) ==
    /\ u \notin minted
    /\ minted' = minted \cup {u}
    /\ row' = [row EXCEPT ![u] = [state |-> "live", bytes |-> 0]]
    /\ UNCHANGED <<tmp, fileVars, blobVars, req, reaperVars, sessionHist, raced,
                   dubious, acked, crashes, begun>>

\* PATCH up to the awaited body: the row is known and the range starts at its
\* cursor; otherwise the handler throws and nothing happens.
PatchBegin(r, u, c) ==
    /\ Open(u)
    /\ Begin(r, "patch", "open", {u}, <<>>, <<c>>, row[u].bytes)
    /\ UNCHANGED <<sessionVars, fileVars, blobVars, reaperVars, acked,
                   crashes>>

\* PUT up to its first await, with a closing chunk or without.
PutBegin(r, u, d) ==
    /\ Open(u)
    /\ \/ Begin(r, "put", "hash", {u}, d, <<>>, row[u].bytes)
       \/ \E c \in Chunks : Begin(r, "put", "open", {u}, d, <<c>>, row[u].bytes)
    /\ UNCHANGED <<sessionVars, fileVars, blobVars, reaperVars, acked, crashes>>

-----------------------------------------------------------------------------
(***************************************************************************)
(* UploadFsStore.appendBytes: open, append, stat.                          *)
(***************************************************************************)

\* fsp.open(target, "a") creates the file when it is missing.
AppendOpen(r) ==
    \E u \in req[r].up :
        /\ req[r].at = "open"
        /\ \/ /\ tmp[u] # NoFile
              /\ fd' = [fd EXCEPT ![r] = tmp[u]]
              /\ UNCHANGED <<tmp, inode, owner>>
           \/ /\ tmp[u] = NoFile
              /\ \E i \in Free :
                   /\ tmp' = [tmp EXCEPT ![u] = i]
                   /\ inode' = [inode EXCEPT ![i] = <<>>]
                   /\ owner' = [owner EXCEPT ![i] = {u}]
                   /\ fd' = [fd EXCEPT ![r] = i]
        /\ Goto(r, "write")
        /\ UNCHANGED <<row, minted, blobVars, reaperVars, sessionHist, raced,
                       acked, crashes, begun>>

\* fd.appendFile writes to the inode, wherever its name points by now.
AppendWrite(r) ==
    /\ req[r].at = "write"
    /\ Len(inode[fd[r]]) < MaxChunks
    /\ inode' = [inode EXCEPT ![fd[r]] = @ \o req[r].chunk]
    /\ fd' = [fd EXCEPT ![r] = NoFile]
    /\ Goto(r, "cursor")
    /\ UNCHANGED <<sessionVars, owner, blobVars, reaperVars, sessionHist,
                   raced, acked, crashes, begun>>

\* appendFile fails with none or some of the bytes on disk; the descriptor is
\* closed and the handler throws.
AppendFails(r) ==
    /\ req[r].at = "write"
    /\ Fault
    /\ \E w \in {<<>>} \cup {<<c>> : c \in Chunks} :
         /\ Len(inode[fd[r]]) + Len(w) <= MaxChunks
         /\ inode' = [inode EXCEPT ![fd[r]] = @ \o w]
    /\ fd' = [fd EXCEPT ![r] = NoFile]
    /\ End(r) /\ Parts(r)
    /\ UNCHANGED <<sessionVars, owner, blobVars, reaperVars, raced, acked, begun>>

\* uploadStore.appendChunk, which also pushes expires_at forward.
AppendChunk(u) ==
    /\ Open(u)
    /\ row' = [row EXCEPT ![u] = [state |-> "live", bytes |-> row[u].bytes + 1]]

\* fsp.stat fails on a file that is gone.  PATCH alone compares the size
\* with its cursor; appendChunk throws when the row is gone.
AppendDone(r) ==
    \E u \in req[r].up :
        /\ req[r].at = "cursor"
        /\ LET fits == /\ tmp[u] # NoFile
                       /\ \/ req[r].op = "put"
                          \/ Len(inode[tmp[u]]) = req[r].saw + 1
           IN  \/ /\ fits
                  /\ AppendChunk(u)
                  /\ IF req[r].op = "put" THEN Goto(r, "hash") ELSE End(r)
               \/ /\ ~fits \/ ~Open(u)
                  /\ End(r)
                  /\ UNCHANGED row
        /\ UNCHANGED <<minted, tmp, fileVars, blobVars, reaperVars, sessionHist,
                       raced, acked, crashes, begun>>

-----------------------------------------------------------------------------
(***************************************************************************)
(* PUT: hash, promote, mirror, drop the session.                           *)
(***************************************************************************)

\* Mutant: the assembled bytes are not compared with the declared digest.
HashSkipped(r) ==
    \E u \in req[r].up :
        /\ req[r].at = "hash"
        /\ IF tmp[u] # NoFile THEN Goto(r, "dedupe") ELSE End(r)
        /\ UNCHANGED <<sessionVars, fileVars, blobVars, reaperVars, sessionHist,
                       raced, acked, crashes, begun>>

\* hashAssembled against ?digest=; a missing file throws.
HashAssembled(r) ==
    \E u \in req[r].up :
        /\ req[r].at = "hash"
        /\ IF tmp[u] # NoFile /\ inode[tmp[u]] = req[r].digest
             THEN Goto(r, "dedupe") ELSE End(r)
        /\ UNCHANGED <<sessionVars, fileVars, blobVars, reaperVars, sessionHist,
                       raced, acked, crashes, begun>>

\* Mutant: any sidecar counts as this digest's.
DedupeAny(r) ==
    /\ req[r].at = "dedupe"
    /\ Goto(r, IF sidecar # {} THEN "drop" ELSE "rename")
    /\ UNCHANGED <<sessionVars, fileVars, blobVars, reaperVars, sessionHist,
                   raced, acked, crashes, begun>>

\* promoteToBlob and putBlob look for the sidecar, not for the file.
Dedupe(r) ==
    LET d == req[r].digest
    IN  /\ req[r].at = "dedupe"
        /\ Move(r, IF d \in sidecar THEN "drop" ELSE "rename")
        /\ dubious' = dubious \cup {x \in {r} : d \in sidecar /\ blob[d] = NoFile}
        /\ UNCHANGED <<sessionVars, fileVars, blobVars, reaperVars, sessionHist,
                       raced, acked, crashes, begun>>

AfterFile(r) == IF req[r].op = "put" THEN "access" ELSE "record"

\* The tmp file is not needed: unlink.
DropTmp(r) ==
    /\ req[r].at = "drop"
    /\ tmp' = [u \in Uploads |-> IF u \in req[r].up THEN NoFile ELSE tmp[u]]
    /\ Goto(r, AfterFile(r))
    /\ UNCHANGED <<row, minted, fileVars, blobVars, reaperVars, sessionHist,
                   raced, acked, crashes, begun>>

\* Its errors are ignored.
DropTmpFails(r) ==
    /\ req[r].at = "drop"
    /\ Fault
    /\ Goto(r, AfterFile(r)) /\ Parts(r)
    /\ UNCHANGED <<sessionVars, fileVars, blobVars, reaperVars, raced, acked,
                   begun>>

\* History: the file of d is there again and nobody is deleting it.
Settled(d) == raced' = IF OnDigest(d, {"delete"}) = {} THEN raced \ {d} ELSE raced

\* promoteToBlob: stat and rename fail when the tmp file is gone.
Promote(r) ==
    \E u \in req[r].up :
        /\ req[r].at = "rename"
        /\ IF tmp[u] = NoFile
             THEN End(r) /\ UNCHANGED <<blob, tmp, raced>>
             ELSE /\ blob' = [blob EXCEPT ![req[r].digest] = tmp[u]]
                  /\ tmp' = [tmp EXCEPT ![u] = NoFile]
                  /\ Settled(req[r].digest)
                  /\ Goto(r, "meta")
        /\ UNCHANGED <<row, minted, fileVars, sidecar, mirror, reaperVars,
                       sessionHist, acked, crashes, begun>>

WriteMeta(r) ==
    /\ req[r].at = "meta"
    /\ sidecar' = sidecar \cup {req[r].digest}
    /\ Goto(r, AfterFile(r))
    /\ UNCHANGED <<sessionVars, fileVars, blob, mirror, reaperVars, sessionHist,
                   raced, acked, crashes, begun>>

\* The file has its name and no sidecar; the handler throws.
WriteMetaFails(r) ==
    /\ req[r].at = "meta"
    /\ Fault
    /\ End(r) /\ Parts(r)
    /\ UNCHANGED <<sessionVars, fileVars, blobVars, reaperVars, raced, acked,
                   begun>>

\* Mutant: the session row outlives the upload.
AnswerKeepsRow(r, found) ==
    /\ mirror' = mirror \cup {d \in {req[r].digest} : found}
    /\ acked' = acked \cup {d \in {req[r].digest} : r \notin dubious}
    /\ End(r)
    /\ UNCHANGED row

\* The part of PUT after its last await: recordBlob when statBlob found the
\* blob, uploadStore.delete, the audit row and 201.
Answer(r, found) ==
    /\ mirror' = mirror \cup {d \in {req[r].digest} : found}
    /\ row' = [u \in Uploads |-> IF u \in req[r].up THEN NoRow ELSE row[u]]
    /\ acked' = acked \cup {d \in {req[r].digest} : r \notin dubious}
    /\ End(r)

\* blobStore.statBlob: fileExists, readSidecar, and stat without a sidecar.
Access(r) ==
    /\ req[r].at = "access"
    /\ IF blob[req[r].digest] # NoFile
         THEN Goto(r, "readMeta") /\ UNCHANGED <<mirror, row, acked>>
         ELSE Answer(r, FALSE)
    /\ UNCHANGED <<minted, tmp, fileVars, blob, sidecar, reaperVars,
                   sessionHist, raced, crashes, begun>>

\* Any error of fsp.access counts as a missing file.
AccessFails(r) ==
    /\ req[r].at = "access"
    /\ Fault
    /\ Answer(r, FALSE)
    /\ UNCHANGED <<minted, tmp, fileVars, blob, sidecar, reaperVars, sessionHist,
                   raced, begun>>

\* stat throws when a DELETE took the file meanwhile.
ReadMeta(r) ==
    /\ req[r].at = "readMeta"
    /\ IF req[r].digest \in sidecar \/ blob[req[r].digest] # NoFile
         THEN Goto(r, "record") /\ UNCHANGED sessionHist
         ELSE End(r) /\ Parts(r)
    /\ UNCHANGED <<sessionVars, fileVars, blobVars, reaperVars, raced, acked,
                   crashes, begun>>

\* A call that fails and has done nothing: the handler throws, with the file
\* ahead of the row after an append, and gone after a promotion.
HandlerThrows(r) ==
    /\ req[r].at \in {"open", "cursor", "hash", "dedupe", "rename", "readMeta"}
    /\ Fault
    /\ End(r)
    /\ IF req[r].at \in {"cursor", "readMeta"} THEN Parts(r)
       ELSE UNCHANGED sessionHist
    /\ UNCHANGED <<sessionVars, fileVars, blobVars, reaperVars, raced, acked,
                   begun>>

Record(r) ==
    /\ req[r].at = "record"
    /\ Answer(r, TRUE)
    /\ UNCHANGED <<minted, tmp, fileVars, blob, sidecar, reaperVars,
                   sessionHist, raced, crashes, begun>>

-----------------------------------------------------------------------------
(***************************************************************************)
(* storage.putBlob: package uploads and blobs fetched from an upstream by  *)
(* GET.  The bytes are hashed on their way into a tmp file of their own.   *)
(***************************************************************************)

\* storage.putBlob, called by the handler that runs in r.
StoreEnter(r, d) ==
    /\ Enter(r, "store", "dedupe", {}, d, <<>>, 0)
    /\ UNCHANGED <<sessionVars, fileVars, blobVars, reaperVars, acked, crashes>>

StoreBegin(r, d) ==
    /\ begun < MaxRequests
    /\ begun' = begun + 1
    /\ StoreEnter(r, d)

StoreRename(r) ==
    /\ req[r].op = "store" /\ req[r].at = "rename"
    /\ \E i \in Free :
         /\ inode' = [inode EXCEPT ![i] = req[r].digest]
         /\ owner' = [owner EXCEPT ![i] = {}]
         /\ blob' = [blob EXCEPT ![req[r].digest] = i]
    /\ Settled(req[r].digest)
    /\ Goto(r, "meta")
    /\ UNCHANGED <<sessionVars, fd, sidecar, mirror, reaperVars, sessionHist,
                   acked, crashes, begun>>

-----------------------------------------------------------------------------
(***************************************************************************)
(* DELETE /v2/<name>/blobs/<digest>.                                       *)
(***************************************************************************)

DeleteBegin(r, d) ==
    /\ Stat(d)
    /\ Begin(r, "delete", "unlink", {}, d, <<>>, 0)
    /\ acked' = acked \ {d}
    /\ UNCHANGED <<sessionVars, fileVars, blobVars, reaperVars, crashes>>

\* deleteBlob: the file, then its sidecar; errors of either are ignored.
Unlink(r) ==
    /\ req[r].at = "unlink"
    /\ blob' = [blob EXCEPT ![req[r].digest] = NoFile]
    /\ Goto(r, "unlinkMeta")
    /\ UNCHANGED <<sessionVars, fileVars, sidecar, mirror, reaperVars,
                   sessionHist, raced, acked, crashes, begun>>

UnlinkFails(r) ==
    /\ req[r].at = "unlink"
    /\ Fault
    /\ Goto(r, "unlinkMeta")
    /\ UNCHANGED <<sessionVars, fileVars, blobVars, reaperVars, sessionHist,
                   raced, acked, begun>>

UnlinkMeta(r) ==
    /\ req[r].at = "unlinkMeta"
    /\ sidecar' = sidecar \ {req[r].digest}
    /\ Goto(r, "unrecord")
    /\ UNCHANGED <<sessionVars, fileVars, blob, mirror, reaperVars, sessionHist,
                   raced, acked, crashes, begun>>

UnlinkMetaFails(r) ==
    /\ req[r].at = "unlinkMeta"
    /\ Fault
    /\ raced' = raced \cup {req[r].digest}
    /\ Goto(r, "unrecord")
    /\ UNCHANGED <<sessionVars, fileVars, blobVars, reaperVars, sessionHist,
                   acked, begun>>

\* DELETE FROM blob, the audit row and 202.
Unrecord(r) ==
    LET d == req[r].digest
    IN  /\ req[r].at = "unrecord"
        /\ mirror' = mirror \ {d}
        /\ raced' = IF d \notin sidecar /\ OnDigest(d, Storing) = {}
                      THEN raced \ {d} ELSE raced
        /\ End(r)
        /\ UNCHANGED <<sessionVars, fileVars, blob, sidecar, reaperVars,
                       sessionHist, acked, crashes, begun>>

-----------------------------------------------------------------------------
(***************************************************************************)
(* Time, the reaper, and crashes.                                          *)
(***************************************************************************)

\* expires_at is reached.
Expire(u) ==
    /\ row[u].state = "live"
    /\ row' = [row EXCEPT ![u].state = "expired"]
    /\ UNCHANGED <<minted, tmp, fileVars, blobVars, req, reaperVars, sessionHist,
                   raced, dubious, acked, crashes, begun>>

\* Mutant: sessions that never received a byte are not listed.
SweepBeginNonEmpty ==
    /\ due = {} /\ reaping = {}
    /\ due' = {u \in Uploads : row[u].state = "expired" /\ row[u].bytes > 0}
    /\ due' # {}
    /\ parted' = parted \cup {u \in due' : OnSession(u) # {}}
    /\ UNCHANGED <<sessionVars, fileVars, blobVars, req, reaping, overlap, raced,
                   dubious, acked, crashes, begun>>

\* sweep: listExpired is read once, before the loop and its awaits.
SweepBegin ==
    /\ due = {} /\ reaping = {}
    /\ due' = {u \in Uploads : row[u].state = "expired"}
    /\ due' # {}
    /\ parted' = parted \cup {u \in due' : OnSession(u) # {}}
    /\ UNCHANGED <<sessionVars, fileVars, blobVars, req, reaping, overlap, raced,
                   dubious, acked, crashes, begun>>

SweepUnlink(u) ==
    /\ u \in due /\ reaping = {}
    /\ tmp' = [tmp EXCEPT ![u] = NoFile]
    /\ due' = due \ {u}
    /\ reaping' = {u}
    /\ UNCHANGED <<row, minted, fileVars, blobVars, req, sessionHist, raced,
                   dubious, acked, crashes, begun>>

\* A failed unlink leaks the tmp file and does not keep the row.
SweepUnlinkFails(u) ==
    /\ u \in due /\ reaping = {}
    /\ Fault
    /\ due' = due \ {u}
    /\ reaping' = {u}
    /\ parted' = parted \cup {u}
    /\ UNCHANGED <<sessionVars, fileVars, blobVars, req, overlap, raced, dubious,
                   acked, begun>>

\* uploadStore.delete and the audit row.
SweepDelete(u) ==
    /\ u \in reaping
    /\ reaping' = {}
    /\ row' = [row EXCEPT ![u] = NoRow]
    /\ UNCHANGED <<minted, tmp, fileVars, blobVars, req, due, sessionHist, raced,
                   dubious, acked, crashes, begun>>

\* The file of a session is ahead of its row, or gone before it.
HalfDone(u) ==
    \/ u \in reaping
    \/ \E r \in OnSession(u) :
         req[r].at \in {"cursor", "meta", "access", "readMeta", "record"}

\* The process dies: disk and database stay, everything in flight is lost.
Crash ==
    /\ Fault
    /\ parted' = parted \cup {u \in Uploads : HalfDone(u)}
    /\ raced' = raced \cup {req[r].digest : r \in
                              {x \in Requests : req[x].op = "delete"}}
    /\ req' = [r \in Requests |-> Idle]
    /\ fd' = [r \in Requests |-> NoFile]
    /\ due' = {} /\ reaping' = {} /\ dubious' = {}
    /\ UNCHANGED <<sessionVars, inode, owner, blobVars, overlap, acked, begun>>

Request(r) ==
    \/ \E u \in Uploads, c \in Chunks : PatchBegin(r, u, c)
    \/ \E u \in Uploads, d \in Digests : PutBegin(r, u, d)
    \/ \E d \in Common : StoreBegin(r, d) \/ DeleteBegin(r, d)

Handle(r) ==
    \/ AppendOpen(r) \/ AppendWrite(r) \/ AppendDone(r)
    \/ HashAssembled(r) \/ Dedupe(r) \/ DropTmp(r) \/ Promote(r)
    \/ StoreRename(r) \/ WriteMeta(r) \/ Access(r) \/ ReadMeta(r) \/ Record(r)
    \/ Unlink(r) \/ UnlinkMeta(r) \/ Unrecord(r)

Fails(r) ==
    \/ AppendFails(r) \/ HandlerThrows(r) \/ DropTmpFails(r) \/ WriteMetaFails(r)
    \/ AccessFails(r) \/ UnlinkFails(r) \/ UnlinkMetaFails(r)

Sweep ==
    SweepBegin \/ \E u \in Uploads : SweepUnlink(u) \/ SweepDelete(u)

Next ==
    \/ \E u \in Uploads : PostUpload(u) \/ Expire(u)
    \/ \E r \in Requests : Request(r) \/ Handle(r) \/ Fails(r)
    \/ Sweep \/ \E u \in Uploads : SweepUnlinkFails(u)
    \/ Crash

\* setInterval keeps the sweep coming back.
Fairness == WF_vars(Sweep)

Spec == Init /\ [][Next]_vars /\ Fairness

-----------------------------------------------------------------------------
(***************************************************************************)
(* Correctness.                                                            *)
(***************************************************************************)

\* What is served under a digest has that digest, whatever DELETEs, the reaper,
\* crashes and calls that fail in the middle (a torn append included) do to
\* the session it came from.  One case is excused, because it does go wrong:
\* two requests were on that session at once.  appendBytes of one may land
\* between hashAssembled and rename of the other, or through a file opened
\* before the rename.
ContentAddressed ==
    \A d \in Digests : blob[d] # NoFile =>
        \/ inode[blob[d]] = d
        \/ owner[blob[d]] \cap overlap # {}

FileLen(u) == IF tmp[u] = NoFile THEN 0 ELSE Len(inode[tmp[u]])

\* Two requests were on the session at once, the reaper had it on its list
\* with a request on it, or a crash, a failed call or the throw of ReadMeta
\* came after the change of the file and before that of the row.
Disturbed(u) == u \in overlap \cup parted

\* upload-store.ts, "the row + the on-disk tmp file together carry full
\* state": between requests the cursor of a session is the length of its tmp
\* file, so that the next PATCH passes its check, unless it was disturbed.
CursorAgrees ==
    \A u \in Uploads : Open(u) /\ Quiet(u) /\ ~Disturbed(u) =>
        row[u].bytes = FileLen(u)

\* ... and no tmp file is left without a row: nothing else would delete it.
\* A tmp file whose unlink failed is one, and so disturbed.
NoTmpLeak ==
    \A u \in Uploads : ~Open(u) /\ Quiet(u) /\ ~Disturbed(u) =>
        tmp[u] = NoFile

\* The row of a session and its tmp file agree, as long as it has both and
\* when it has neither: through crashes and failures at every other call, and
\* beside DELETEs and stores of the same bytes.
SessionAgrees == CursorAgrees /\ NoTmpLeak

\* A store that was answered with 201 holds the bytes until the next DELETE:
\* deduplication dropped nothing that was needed.  Excused is the store that
\* was in flight together with a DELETE of its digest, and the one that found
\* a sidecar without its file, as an unfinished DELETE leaves it: promoteToBlob
\* takes it for the blob, drops the bytes, and PUT answers 201.
AckedIsStored == \A d \in acked : blob[d] # NoFile

\* The mirror, which statBlob and every manifest check believe, names no blob
\* without its bytes, except while a DELETE of it runs, and after a DELETE that
\* met a store, was cut short by a crash or could not unlink the sidecar, until
\* bytes are stored again or a later DELETE goes through undisturbed.
MirrorHasBytes ==
    \A d \in mirror : \/ blob[d] # NoFile
                      \/ OnDigest(d, {"delete"}) # {}
                      \/ d \in raced

\* Clients can rely on an answered store, and manifests on the mirror.
StoredIsThere == AckedIsStored /\ MirrorHasBytes

\* An abandoned session is swept: once expired it loses its row, or a PATCH
\* in flight has renewed it.
ExpiredIsSwept ==
    \A u \in Uploads : row[u].state = "expired" ~> row[u].state # "expired"
=============================================================================
