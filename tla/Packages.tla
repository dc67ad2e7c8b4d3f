------------------------------ MODULE Packages ------------------------------
(***************************************************************************)
(* The package protocols of the registry (npm, cargo, PyPI, NuGet, Maven)  *)
(* over the blob store of OciBlobs.  Each protocol publishes a version,    *)
(* lists the versions of a package and serves one; lists and downloads     *)
(* that find nothing locally go to an upstream and cache what comes back.  *)
(* A version is a row of table manifest and, under the row's digest, a     *)
(* blob.  Rows are read and written synchronously: handlers interleave at  *)
(* the upstream fetch and at every file system call of the blob store, and *)
(* a blob DELETE or a crash may come between any two of these.             *)
(*                                                                         *)
(* A behaviour is about one package of one protocol, or about OCI clients  *)
(* alone: the protocols share nothing but the blob store.  The upstream    *)
(* keeps what it has (possibly other bytes than the ones published here)   *)
(* and any fetch from it may fail.  Rows are final here: an administrator  *)
(* who deletes one (http/app.ts) frees the version on purpose.             *)
(***************************************************************************)
EXTENDS OciBlobs

CONSTANTS
    Scopes,      \* what behaviours are about: a package protocol, "oci" for
                 \* upload sessions, "images" for manifests and tags
    MaxVersion,  \* bound: versions of the package
    Asked,       \* versions that are published and downloaded; the others
                 \* come in with the lists of the upstream
    Upstreams,   \* what the upstream may have, <<>> for a missing version
    MaxJobs,     \* bound: package requests ever accepted
    MaxFaults    \* bound: blob DELETEs and crashes beside them

ASSUME PackagesAssumption ==
    /\ Scopes \subseteq {"npm", "cargo", "pypi", "nuget", "maven", "oci", "images"}
    /\ MaxVersion \in Nat \ {0}
    /\ Asked \subseteq 1..MaxVersion
    /\ Upstreams \subseteq [1..MaxVersion -> Contents]
    /\ MaxJobs \in Nat
    /\ MaxFaults \in Nat

Protocols == {"npm", "cargo", "pypi", "nuget", "maven"}
Versions  == 1..MaxVersion
Absent    == <<>>
NoRowYet == [content |-> Absent, pinned |-> FALSE, source |-> "none",
             yanked |-> FALSE]

\* A package request in flight: the operation, the next call, the version and
\* the digest of its row, what the client had been told and what it is owed;
\* the rest of NuGet's download loop.
Job(op, loc, v, d, ts, owed, todo, any) ==
    [op |-> op, at |-> loc, v |-> v, d |-> d, told |-> ts, owed |-> owed,
     todo |-> todo, any |-> any]
NoJob == Job("none", "none", 0, Absent, {}, "nothing", {}, FALSE)
PublishJob(v, d) == Job("publish", "store", v, d, {}, "nothing", {}, FALSE)
IndexJob(loc, todo, any) ==
    Job("index", loc, 0, Absent, {}, "nothing", todo, any)
DownloadJob(loc, v, d, ts, owed) ==
    Job("download", loc, v, d, ts, owed, {}, FALSE)

VARIABLES
    scope,     \* what this behaviour is about
    upstream,  \* what the upstream has for each version
    pkg,       \* table manifest: contents a row vouches for, whether its blob
               \* reference names them, provenance, yanked
    stub,      \* Maven: versions with a metadata stub row
    job,       \* the package requests in flight
    jobs,      \* history: package requests accepted so far
    told,      \* history: what clients were told about each version; Absent
               \* stands for a listing that carries no digest
    gone,      \* history: digests a DELETE was ever accepted for
    withdrawn, \* history: versions yanked and not unyanked
    wrong,     \* history: versions served with other contents than told, the
               \* replaced ones of npm aside
    missed     \* history: versions a client was owed and did not get

rowVars == <<pkg, stub>>
pkgHist == <<told, wrong, missed>>
pkgVars == <<scope, upstream, rowVars, job, jobs, pkgHist, gone, withdrawn>>
allVars == <<vars, pkgVars>>
ociRest == <<sessionVars, fileVars, blobVars, req, reaperVars, sessionHist,
             raced, dubious, acked, crashes, begun>>

Live(v)  == pkg[v].content # Absent
Offered  == {v \in Versions : upstream[v] # Absent}
Listed   == {v \in Versions : Live(v)} \cup stub

Rows == [content : Contents, pinned : BOOLEAN,
         source : {"none", "upload", "proxy"}, yanked : BOOLEAN]
Jobs == [op : {"none", "publish", "index", "download"},
         at : {"none", "store", "fetch", "hydrate", "stat", "restat", "open"},
         v : 0..MaxVersion, d : Contents, told : SUBSET Contents,
         owed : {"nothing", "bytes", "fetch"}, todo : SUBSET Versions,
         any : BOOLEAN]

PackagesTypeOK ==
    /\ TypeOK
    /\ scope \in Scopes
    /\ upstream \in [Versions -> Contents]
    /\ pkg \in [Versions -> Rows]
    /\ stub \subseteq Versions
    /\ job \in [Requests -> Jobs]
    /\ jobs \in 0..MaxJobs
    /\ told \in [Versions -> SUBSET Contents]
    /\ gone \subseteq Digests
    /\ withdrawn \cup wrong \cup missed \subseteq Versions

PackagesInit ==
    /\ Init
    /\ scope \in Scopes
    /\ upstream \in IF scope \in Protocols THEN Upstreams ELSE [Versions -> {Absent}]
    /\ pkg = [v \in Versions |-> NoRowYet]
    /\ stub = {}
    /\ job = [r \in Requests |-> NoJob]
    /\ jobs = 0
    /\ told = [v \in Versions |-> {}]
    /\ gone = {} /\ withdrawn = {} /\ wrong = {} /\ missed = {}

-----------------------------------------------------------------------------
(***************************************************************************)
(* Requests, answers and the manifest table.                               *)
(***************************************************************************)

Accept == jobs < MaxJobs /\ jobs' = jobs + 1
Step(r, loc) == job' = [job EXCEPT ![r].at = loc]
Done(r) == job' = [job EXCEPT ![r] = NoJob]

\* History: the answer lists or acknowledges the versions vs.  Maven's
\* metadata names versions only; the other listings carry a digest.
Tell(vs) ==
    told' = [v \in Versions |->
               IF v \notin vs THEN told[v]
               ELSE told[v] \cup {IF scope = "maven" THEN Absent
                                  ELSE pkg'[v].content}]

Mention(v, d) == told' = [told EXCEPT ![v] = @ \cup {d}]

\* npm puts the upstream's bytes in the place of those of a published version
\* whose blob was deleted, and compares them with nothing.
Replaces(r) == scope = "npm" /\ job[r].at = "store" /\ job[r].d \in gone

\* Answers of a download.  History: other bytes than the client was told of,
\* unless they came that way.
Serve(r, bytes) ==
    /\ Done(r)
    /\ wrong' = wrong \cup {v \in {job[r].v} :
         job[r].told \ {Absent} \notin {{}, {bytes}} /\ ~Replaces(r)}
    /\ UNCHANGED <<told, missed>>

NotFound(r, excuse) ==
    /\ Done(r)
    /\ missed' = missed \cup {v \in {job[r].v} : job[r].owed \notin {"nothing", excuse}}
    /\ UNCHANGED <<told, wrong>>

\* Mutant: INSERT OR REPLACE.
PutManifestReplaces(v, d, src, pin, ok) ==
    /\ ok
    /\ pkg' = [pkg EXCEPT ![v] = [content |-> d, pinned |-> pin,
                                  source |-> src, yanked |-> FALSE]]

\* index.putManifest: a row is never replaced.  Bytes identical to the stored
\* row's are accepted, which takes the same createdAt: the same millisecond.
PutManifest(v, d, src, pin, ok) ==
    \/ /\ ~Live(v) /\ ok
       /\ pkg' = [pkg EXCEPT ![v] = [content |-> d, pinned |-> pin,
                                     source |-> src, yanked |-> FALSE]]
    \/ /\ Live(v)
       /\ ok => pkg[v] = [content |-> d, pinned |-> pin, source |-> src,
                          yanked |-> FALSE]
       /\ UNCHANGED pkg

-----------------------------------------------------------------------------
(***************************************************************************)
(* Publish: the bytes are stored, then the row is written in the same turn *)
(* as the mirror row of the blob.                                          *)
(***************************************************************************)

\* The body is read and parsed and storage.putBlob begins.
PublishBegin(r, v, d) ==
    /\ scope \in Protocols /\ job[r] = NoJob
    /\ Accept
    /\ StoreEnter(r, d)
    /\ job' = [job EXCEPT ![r] = PublishJob(v, d)]
    /\ UNCHANGED <<begun, scope, upstream, rowVars, pkgHist, gone, withdrawn>>

Stored(r, op) ==
    /\ job[r].op = op /\ job[r].at = "store"
    /\ Record(r)

\* No look at the existing row: any conflict is refused.
PublishNew(r) ==
    /\ Stored(r, "publish")
    /\ \E ok \in BOOLEAN :
         /\ PutManifest(job[r].v, job[r].d, "upload", TRUE, ok)
         /\ IF ok THEN Mention(job[r].v, job[r].d) ELSE UNCHANGED told
    /\ Done(r)
    /\ UNCHANGED <<scope, upstream, stub, jobs, gone, withdrawn, wrong, missed>>

\* The existing row first: identical contents are a success.
PublishOnce(r) ==
    /\ Stored(r, "publish")
    /\ LET v == job[r].v
           d == job[r].d
       IN  IF Live(v)
             THEN /\ IF pkg[v].content = d THEN Mention(v, d) ELSE UNCHANGED told
                  /\ UNCHANGED pkg
             ELSE PutManifest(v, d, "upload", TRUE, TRUE) /\ Mention(v, d)
    /\ Done(r)
    /\ UNCHANGED <<scope, upstream, stub, jobs, gone, withdrawn, wrong, missed>>

NpmPublish(r)   == scope = "npm" /\ PublishNew(r)
CargoPublish(r) == scope = "cargo" /\ PublishNew(r)
PypiPublish(r)  == scope = "pypi" /\ PublishOnce(r)
NugetPublish(r) == scope = "nuget" /\ PublishOnce(r)
MavenPublish(r) == scope = "maven" /\ PublishOnce(r)

\* Cargo's yank and unyank, in one turn.
MutateYank(v, yanked) ==
    /\ scope = "cargo" /\ Live(v)
    /\ pkg[v].yanked # yanked
    /\ Accept
    /\ pkg' = [pkg EXCEPT ![v].yanked = yanked]
    /\ withdrawn' = IF yanked THEN withdrawn \cup {v} ELSE withdrawn \ {v}
    /\ UNCHANGED <<ociRest, scope, upstream, stub, job, pkgHist, gone>>

-----------------------------------------------------------------------------
(***************************************************************************)
(* Lists: local rows alone when there are any, otherwise the upstream's.   *)
(***************************************************************************)

ReadIndex(r) ==
    /\ job[r] = NoJob /\ req[r] = Idle
    /\ Accept
    /\ UNCHANGED <<ociRest, scope, upstream, rowVars, gone, withdrawn, wrong, missed>>
    /\ IF Listed # {}
         THEN Tell(Listed) /\ UNCHANGED job
         ELSE /\ job' = [job EXCEPT ![r] = IndexJob("fetch", {}, FALSE)]
              /\ UNCHANGED told

NpmPackument(r)     == scope = "npm" /\ ReadIndex(r)
CargoSparseIndex(r) == scope = "cargo" /\ ReadIndex(r)
PypiSimple(r)       == scope = "pypi" /\ ReadIndex(r)
NugetIndex(r)       == scope = "nuget" /\ ReadIndex(r)
MavenMetadata(r)    == scope = "maven" /\ ReadIndex(r)

\* An upstream that fails, or has nothing, ends the list in a 404.
IndexUnavailable(r) ==
    /\ job[r].op = "index" /\ job[r].at = "fetch"
    /\ Done(r)
    /\ UNCHANGED <<ociRest, scope, upstream, rowVars, jobs, gone, withdrawn, pkgHist>>

Fetched(r) ==
    /\ job[r].op = "index" /\ job[r].at = "fetch"
    /\ Offered # {}
    /\ UNCHANGED <<ociRest, scope, upstream, jobs, gone, withdrawn, wrong, missed>>

\* cacheUpstreamVersion: rows the upstream has and the table has not, without
\* their bytes.  The digest npm writes is derived from the integrity string
\* and names no file.
CacheRows ==
    pkg' = [v \in Versions |->
              IF v \in Offered /\ ~Live(v)
                THEN [content |-> upstream[v], pinned |-> scope # "npm",
                      source |-> "proxy", yanked |-> FALSE]
                ELSE pkg[v]]

\* The merged rows are listed if at least one was new, else the list is a 404
\* although another request has cached them meanwhile.
ListIfNew(r) ==
    /\ Fetched(r)
    /\ CacheRows
    /\ IF \E v \in Offered : ~Live(v)
         THEN Tell({v \in Versions : pkg'[v].content # Absent})
         ELSE UNCHANGED told
    /\ Done(r)
    /\ UNCHANGED stub

ProxyNpmPackument(r)     == scope = "npm" /\ ListIfNew(r)
ProxyCargoSparseIndex(r) == scope = "cargo" /\ ListIfNew(r)

\* PyPI lists what the table holds after caching, new or not.
ProxyPypiPackage(r) ==
    /\ scope = "pypi"
    /\ Fetched(r)
    /\ CacheRows
    /\ Tell({v \in Versions : pkg'[v].content # Absent})
    /\ Done(r)
    /\ UNCHANGED stub

\* Maven writes stub rows, and lists them if one was new.
ProxyMavenMetadata(r) ==
    /\ scope = "maven"
    /\ Fetched(r)
    /\ stub' = stub \cup Offered
    /\ UNCHANGED pkg
    /\ IF Offered \subseteq stub
         THEN UNCHANGED told
         ELSE Tell(stub' \cup {v \in Versions : Live(v)})
    /\ Done(r)

\* NuGet downloads every version the upstream lists, one after the other.
ProxyNugetVersionIndex(r) ==
    /\ scope = "nuget"
    /\ Fetched(r)
    /\ job' = [job EXCEPT ![r] = IndexJob("hydrate", Offered, FALSE)]
    /\ UNCHANGED <<rowVars, told>>

IsLeast(x, S) == x \in S /\ \A y \in S : x <= y

\* The loop goes on after a version; after the last one the rows are listed
\* if one of the downloads filled one.
Hydrated(r, last, ok) ==
    LET left == job[r].todo \ {last}
        any  == job[r].any \/ ok
    IN  IF left # {}
          THEN /\ job' = [job EXCEPT ![r] = IndexJob("hydrate", left, any)]
               /\ UNCHANGED told
          ELSE /\ Done(r)
               /\ IF any THEN Tell({v \in Versions : pkg'[v].content # Absent})
                  ELSE UNCHANGED told

\* proxyNugetNupkg in that loop: the fetch, or its failure.
Hydrate(r) ==
    /\ job[r].at = "hydrate"
    /\ \E v \in Versions :
         /\ IsLeast(v, job[r].todo)
         /\ \/ /\ v \in Offered
               /\ Step(r, "store")
               /\ StoreEnter(r, upstream[v])
               /\ UNCHANGED <<pkg, told, begun>>
            \/ UNCHANGED <<ociRest, pkg>> /\ Hydrated(r, v, FALSE)
    /\ UNCHANGED <<scope, upstream, stub, jobs, gone, withdrawn, wrong, missed>>

HydrateStored(r) ==
    /\ Stored(r, "index")
    /\ \E v \in Versions, ok \in BOOLEAN :
         /\ IsLeast(v, job[r].todo)
         /\ PutManifest(v, upstream[v], "proxy", TRUE, ok)
         /\ Hydrated(r, v, ok)
    /\ UNCHANGED <<scope, upstream, stub, jobs, gone, withdrawn, wrong, missed>>

-----------------------------------------------------------------------------
(***************************************************************************)
(* Downloads.                                                              *)
(***************************************************************************)

\* History: what a client that asks for v now may count on.  Bytes that were
\* stored and never deleted; or, where the protocol fetches again, those of
\* the upstream when they are the ones the row vouches for.
Owed(v) ==
    CASE /\ Live(v) /\ pkg[v].pinned
         /\ IF pkg[v].source = "upload" \/ scope \in {"nuget", "maven"}
              THEN pkg[v].content \notin gone
              ELSE pkg[v].content \in acked          -> "bytes"
      [] /\ told[v] # {} /\ v \in Offered
         /\ Live(v) => /\ pkg[v].content = upstream[v]
                       /\ scope \in {"npm", "cargo", "pypi"}
         /\ scope \in {"npm", "cargo"} \/ upstream[v] \notin gone -> "fetch"
      [] OTHER -> "nothing"

Download(r, v, loc) ==
    /\ job[r] = NoJob /\ req[r] = Idle
    /\ Accept
    /\ job' = [job EXCEPT ![r] =
                 DownloadJob(loc, v, pkg[v].content, told[v], Owed(v))]
    /\ UNCHANGED <<ociRest, scope, upstream, rowVars, pkgHist, gone, withdrawn>>

\* statBlob answers from the mirror at once, or looks for the file.
AfterStat(d, otherwise) == IF d \in mirror THEN "open" ELSE otherwise

\* Without a row, or with a reference that names no file: the upstream.
NpmTarball(r, v) ==
    /\ scope = "npm"
    /\ Download(r, v, IF pkg[v].pinned THEN "open" ELSE "fetch")

CargoDownload(r, v) ==
    /\ scope = "cargo"
    /\ Download(r, v, IF Live(v) THEN "open" ELSE "fetch")

\* Without a row proxyPypiFile gives up at once: 404.
PypiFile(r, v) ==
    /\ scope = "pypi" /\ Live(v)
    /\ Download(r, v, AfterStat(pkg[v].content, "stat"))

NugetNupkg(r, v) ==
    /\ scope = "nuget"
    /\ Download(r, v, IF Live(v) THEN AfterStat(pkg[v].content, "restat") ELSE "fetch")

ServeArtifact(r, v) ==
    /\ scope = "maven"
    /\ Download(r, v, IF Live(v) THEN AfterStat(pkg[v].content, "restat") ELSE "fetch")

\* blobStore.statBlob: PyPI fetches what is missing; after that, and in NuGet
\* and Maven from the start, a missing file is a 404.
StatFile(r) ==
    /\ job[r].at \in {"stat", "restat"}
    /\ IF blob[job[r].d] # NoFile
         THEN Step(r, "open") /\ UNCHANGED pkgHist
         ELSE IF job[r].at = "stat"
                THEN Step(r, "fetch") /\ UNCHANGED pkgHist
                ELSE NotFound(r, "none")
    /\ UNCHANGED <<ociRest, scope, upstream, rowVars, jobs, gone, withdrawn>>

\* getBlob.  npm and cargo fetch what is missing.
OpenBlob(r) ==
    /\ job[r].at = "open"
    /\ IF blob[job[r].d] # NoFile
         THEN Serve(r, inode[blob[job[r].d]])
         ELSE IF scope \in {"npm", "cargo"}
                THEN Step(r, "fetch") /\ UNCHANGED pkgHist
                ELSE NotFound(r, "none")
    /\ UNCHANGED <<ociRest, scope, upstream, rowVars, jobs, gone, withdrawn>>

\* The upstream answered, and putBlob begins.
ProxyStore(r) ==
    /\ Step(r, "store")
    /\ StoreEnter(r, upstream[job[r].v])
    /\ UNCHANGED <<begun, scope, upstream, rowVars, jobs, pkgHist, gone, withdrawn>>

Asks(r) == job[r].op = "download" /\ job[r].at = "fetch"

\* Mutant: the row is written when the upstream answers, before the bytes.
FetchFileRowFirst(r) ==
    /\ Asks(r) /\ job[r].v \in Offered
    /\ scope = "pypi" => upstream[job[r].v] = job[r].d
    /\ IF scope \in {"nuget", "maven"} /\ ~Live(job[r].v)
         THEN pkg' = [pkg EXCEPT ![job[r].v] =
                        [content |-> upstream[job[r].v], pinned |-> TRUE,
                         source |-> "proxy", yanked |-> FALSE]]
         ELSE UNCHANGED pkg
    /\ Step(r, "store")
    /\ StoreEnter(r, upstream[job[r].v])
    /\ UNCHANGED <<begun, scope, upstream, stub, jobs, pkgHist, gone, withdrawn>>

FetchFile(r) ==
    /\ Asks(r) /\ job[r].v \in Offered
    /\ scope = "pypi" => upstream[job[r].v] = job[r].d
    /\ ProxyStore(r)

\* The fetch failed, or the upstream has no such version, or PyPI found bytes
\* other than the row's: PyPI looks for the blob once more.
FetchFileFails(r) ==
    /\ Asks(r)
    /\ IF scope = "pypi"
         THEN /\ job' = [job EXCEPT ![r] =
                           DownloadJob(AfterStat(job[r].d, "restat"), job[r].v,
                                       job[r].d, job[r].told, "nothing")]
              /\ UNCHANGED pkgHist
         ELSE NotFound(r, "fetch")
    /\ UNCHANGED <<ociRest, scope, upstream, rowVars, jobs, gone, withdrawn>>

ServeStored(r) == Stored(r, "download") /\ UNCHANGED <<scope, upstream, stub, jobs, gone, withdrawn>>

\* npm serves what came, row or not.
ProxyNpmTarball(r) ==
    /\ scope = "npm"
    /\ ServeStored(r)
    /\ Serve(r, upstream[job[r].v])
    /\ UNCHANGED pkg

\* cargo serves it if it has the digest of the row, or there was no row.
ProxyCargoDownload(r) ==
    /\ scope = "cargo"
    /\ ServeStored(r)
    /\ IF job[r].d \in {Absent, upstream[job[r].v]}
         THEN Serve(r, upstream[job[r].v]) ELSE NotFound(r, "none")
    /\ UNCHANGED pkg

\* PyPI reads the row again, finds the mirror row and opens the file.
ProxyPypiFile(r) ==
    /\ scope = "pypi"
    /\ ServeStored(r)
    /\ Step(r, "open")
    /\ UNCHANGED <<pkg, pkgHist>>

\* NuGet and Maven write the row after the bytes.  A row that another request
\* wrote meanwhile makes this one a 404.
PutAndOpen(r) ==
    /\ ServeStored(r)
    /\ LET v == job[r].v
       IN  \E ok \in BOOLEAN :
             /\ PutManifest(v, upstream[v], "proxy", TRUE, ok)
             /\ IF ok THEN /\ job' = [job EXCEPT ![r] =
                                        DownloadJob("open", v, upstream[v],
                                                    job[r].told, job[r].owed)]
                           /\ UNCHANGED pkgHist
                      ELSE NotFound(r, "fetch")

ProxyNugetNupkg(r)    == scope = "nuget" /\ PutAndOpen(r)
ProxyMavenArtifact(r) == scope = "maven" /\ PutAndOpen(r)

-----------------------------------------------------------------------------
(***************************************************************************)
(* The blob store under the packages, and what befalls it.                 *)
(***************************************************************************)

Blobs(A) == scope \in Protocols /\ A /\ UNCHANGED pkgVars
Oci(A)   == scope = "oci" /\ A /\ UNCHANGED pkgVars

\* DELETE of a blob; nobody is owed its bytes from here on.
DeletePackageBlob(r, d) ==
    /\ scope \in Protocols /\ job[r] = NoJob
    /\ begun + crashes < MaxFaults
    /\ DeleteBegin(r, d)
    /\ gone' = gone \cup {d}
    /\ job' = [x \in Requests |->
                 IF job[x].op = "download" /\ d \in {job[x].d, upstream[job[x].v]}
                   THEN [job[x] EXCEPT !.owed = "nothing"] ELSE job[x]]
    /\ UNCHANGED <<scope, upstream, rowVars, jobs, pkgHist, withdrawn>>

CrashPackages ==
    /\ scope \in Protocols
    /\ begun + crashes < MaxFaults
    /\ Crash
    /\ job' = [r \in Requests |-> NoJob]
    /\ UNCHANGED <<scope, upstream, rowVars, jobs, pkgHist, gone, withdrawn>>

PackageRequest(r) ==
    \/ \E v \in Asked, d \in Digests : PublishBegin(r, v, d)
    \/ NpmPackument(r) \/ CargoSparseIndex(r) \/ PypiSimple(r)
    \/ NugetIndex(r) \/ MavenMetadata(r)
    \/ \E v \in Asked :
         \/ NpmTarball(r, v) \/ CargoDownload(r, v) \/ PypiFile(r, v)
         \/ NugetNupkg(r, v) \/ ServeArtifact(r, v)
    \/ \E d \in Digests : DeletePackageBlob(r, d)

HandlePackage(r) ==
    \/ NpmPublish(r) \/ CargoPublish(r) \/ PypiPublish(r)
    \/ NugetPublish(r) \/ MavenPublish(r)
    \/ IndexUnavailable(r) \/ ProxyNpmPackument(r) \/ ProxyCargoSparseIndex(r)
    \/ ProxyPypiPackage(r) \/ ProxyMavenMetadata(r) \/ ProxyNugetVersionIndex(r)
    \/ Hydrate(r) \/ HydrateStored(r)
    \/ StatFile(r) \/ OpenBlob(r) \/ FetchFile(r) \/ FetchFileFails(r)
    \/ ProxyNpmTarball(r) \/ ProxyCargoDownload(r) \/ ProxyPypiFile(r)
    \/ ProxyNugetNupkg(r) \/ ProxyMavenArtifact(r)

StoreStep(r) ==
    \/ Blobs(Dedupe(r)) \/ Blobs(DropTmp(r)) \/ Blobs(StoreRename(r))
    \/ Blobs(WriteMeta(r)) \/ Blobs(Unlink(r)) \/ Blobs(UnlinkMeta(r))
    \/ Blobs(Unrecord(r))

PackagesNext ==
    \/ Oci(Next)
    \/ \E r \in Requests : PackageRequest(r) \/ HandlePackage(r) \/ StoreStep(r)
    \/ \E v \in Asked, b \in BOOLEAN : MutateYank(v, b)
    \/ CrashPackages

PackagesSpec ==
    PackagesInit /\ [][PackagesNext]_allVars /\ WF_reaperVars(scope = "oci" /\ Sweep)

-----------------------------------------------------------------------------
(***************************************************************************)
(* Correctness.                                                            *)
(***************************************************************************)

\* Whatever order publishes, cached lists, downloads, deletes and crashes come
\* in, clients are told one content for a version.
OneContentTold ==
    \A v \in Versions : Cardinality(told[v] \ {Absent}) <= 1

\* ... and a download begun after that serves those bytes or none, with one
\* exception: the blob of an npm version was deleted, and the download goes to
\* the upstream.  npm/virtual.ts says that "the download endpoint validates the
\* actual fetched bytes match", but npm/read.ts compares nothing: the client
\* gets what the upstream has.
ServedAsTold == wrong = {}

\* cargo/virtual.ts, "operator's yank decisions stick": no cached list brings
\* a yanked crate back.
YankSticks == \A v \in withdrawn : pkg[v].yanked

\* Versions are immutable, as npm/publish.ts, nuget/publish.ts and the others
\* promise: the row, the listing and the bytes never disagree, but for the
\* replaced npm bytes above.
VersionIsImmutable == OneContentTold /\ ServedAsTold /\ YankSticks

\* A version a client was told about can be downloaded: stored bytes until
\* somebody deletes them, even with the upstream down, and cached listings as
\* long as the upstream answers.  A download that another one overtakes is
\* excused: NuGet and Maven answer it 404.
ToldIsFound == missed = {}
=============================================================================
