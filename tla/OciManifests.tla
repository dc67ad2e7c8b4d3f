---------------------------- MODULE OciManifests ----------------------------
(***************************************************************************)
(* The image half of the OCI registry: manifests, indexes and tags of one  *)
(* repository, over the blob store of OciBlobs, with the pull-through of   *)
(* what a GET misses.  A manifest is a row of table manifest keyed by the  *)
(* digest of its bytes; a tag is a row that points at one.  Rows are read  *)
(* and written synchronously: a PUT can be overtaken while it looks for a  *)
(* blob on disk, a GET while it fetches from the upstream.                 *)
(*                                                                         *)
(* Behaviours in which scope is "images"; the others are those of          *)
(* Packages.  The upstream may move its tags between two fetches.          *)
(***************************************************************************)
EXTENDS Packages

CONSTANTS
    Manifests,  \* manifests and indexes, named by their digests
    BlobsOf,    \* config and layers each of them references
    ChildrenOf, \* manifests an index references
    Tags        \* tags of the repository

None   == "none"

ASSUME OciManifestsAssumption ==
    /\ None \notin Manifests \cup Tags
    /\ BlobsOf \in [Manifests -> SUBSET Digests]
    /\ ChildrenOf \in [Manifests -> SUBSET Manifests]

NoPull == [at |-> "none", m |-> None, t |-> None, missing |-> {}]

VARIABLES
    remote,    \* manifests the upstream has
    mani,      \* rows of table manifest
    tag,       \* table oci_tag
    pull,      \* manifest requests in flight
    pushed,    \* history: the push that stands for each tag
    overtaken, \* history: tags pushed while a GET of them was out upstream
    vouched,   \* history: manifests accepted by a PUT and not deleted since
    dropped,   \* history: manifests ever deleted by digest
    purged     \* history: manifests an administrator's DELETE removed

imageHist == <<pushed, overtaken, vouched, dropped, purged>>
imageVars == <<remote, mani, tag, pull, imageHist>>
registryVars == <<allVars, imageVars>>
\* Everything of Packages but the count of requests.
packagesRest == <<scope, upstream, rowVars, job, pkgHist, withdrawn>>

Pulls == [at : {"none", "stat", "fetch"}, m : Manifests \cup {None},
          t : Tags \cup {None}, missing : SUBSET Digests]

ImagesTypeOK ==
    /\ remote \subseteq Manifests
    /\ mani \subseteq Manifests
    /\ tag \in [Tags -> Manifests \cup {None}]
    /\ pull \in [Requests -> Pulls]
    /\ pushed \in [Tags -> Manifests \cup {None}]
    /\ overtaken \subseteq Tags
    /\ vouched \cup dropped \cup purged \subseteq Manifests

OciManifestsTypeOK == PackagesTypeOK /\ ImagesTypeOK

RegistryInit ==
    /\ PackagesInit
    /\ remote \in IF scope = "images" THEN SUBSET Manifests ELSE {{}}
    /\ mani = {}
    /\ tag = [t \in Tags |-> None]
    /\ pull = [r \in Requests |-> NoPull]
    /\ pushed = [t \in Tags |-> None]
    /\ overtaken = {} /\ vouched = {} /\ dropped = {} /\ purged = {}

-----------------------------------------------------------------------------
(***************************************************************************)
(* PUT /v2/<name>/manifests/<reference>, t = None for a digest.            *)
(***************************************************************************)

AcceptImage ==
    /\ scope = "images"
    /\ Accept
    /\ UNCHANGED <<ociRest, packagesRest, gone, remote>>

\* tagStore.put, in the same turn as the row.
Point(t, m) == tag' = [x \in Tags |-> IF x = t THEN m ELSE tag[x]]

\* index.putManifest, where the same bytes are there already or come in now,
\* and the tag.
Push(m, t) ==
    /\ mani' = mani \cup {m}
    /\ Point(t, m)
    /\ pushed' = [x \in Tags |-> IF x = t THEN m ELSE pushed[x]]
    /\ overtaken' = IF \E r \in Requests : pull[r].at = "fetch" /\ pull[r].t = t
                      THEN overtaken \cup ({t} \ {None}) ELSE overtaken \ {t}
    /\ vouched' = vouched \cup {m}
    /\ purged' = purged \ {m}
    /\ UNCHANGED dropped

\* Mutant: the referenced blobs are not looked for.
PutImageUnchecked(r, m, t) ==
    /\ AcceptImage
    /\ pull[r] = NoPull /\ req[r] = Idle
    /\ Push(m, t)
    /\ UNCHANGED pull

\* Children are looked up in the table; blobs in the mirror, and on disk
\* when it does not have them.
PutImage(r, m, t) ==
    /\ AcceptImage
    /\ pull[r] = NoPull /\ req[r] = Idle
    /\ ChildrenOf[m] \subseteq mani
    /\ IF BlobsOf[m] \subseteq mirror
         THEN Push(m, t) /\ UNCHANGED pull
         ELSE /\ pull' = [pull EXCEPT ![r] = [at |-> "stat", m |-> m, t |-> t,
                                              missing |-> BlobsOf[m] \ mirror]]
              /\ UNCHANGED <<mani, tag, imageHist>>

\* validateSingleManifestReferences comes back from the disk.
PutImageStat(r) ==
    /\ pull[r].at = "stat"
    /\ IF \A d \in pull[r].missing : blob[d] # NoFile
         THEN Push(pull[r].m, pull[r].t)
         ELSE UNCHANGED <<mani, tag, imageHist>>
    /\ pull' = [pull EXCEPT ![r] = NoPull]
    /\ UNCHANGED <<ociRest, packagesRest, jobs, gone, remote>>

-----------------------------------------------------------------------------
(***************************************************************************)
(* GET and HEAD, by tag or by digest.                                      *)
(***************************************************************************)

\* serveManifest: what the table has is answered at once and changes nothing;
\* a miss goes to the upstream.
ServeManifest(r, m, t) ==
    /\ AcceptImage
    /\ pull[r] = NoPull /\ req[r] = Idle
    /\ (IF t = None THEN m ELSE tag[t]) \notin mani
    /\ pull' = [pull EXCEPT ![r] = [at |-> "fetch", m |-> m, t |-> t,
                                    missing |-> {}]]
    /\ UNCHANGED <<mani, tag, imageHist>>

\* proxyOciManifest: the row, the tag and the answer, in one turn.  The
\* upstream's tag may be at any of its manifests.
ProxyOciManifest(r) ==
    /\ pull[r].at = "fetch"
    /\ \E m \in remote :
         /\ pull[r].t = None => m = pull[r].m
         /\ mani' = mani \cup {m}
         /\ Point(pull[r].t, m)
         /\ purged' = purged \ {m}
    /\ pull' = [pull EXCEPT ![r] = NoPull]
    /\ UNCHANGED <<ociRest, packagesRest, jobs, gone, remote, pushed, overtaken,
                   vouched, dropped>>

ProxyOciManifestFails(r) ==
    /\ pull[r].at = "fetch"
    /\ pull' = [pull EXCEPT ![r] = NoPull]
    /\ UNCHANGED <<ociRest, packagesRest, jobs, gone, remote, mani, tag, imageHist>>

-----------------------------------------------------------------------------
(***************************************************************************)
(* DELETE.                                                                 *)
(***************************************************************************)

DeleteTag(t) ==
    /\ AcceptImage
    /\ tag[t] # None
    /\ tag' = [tag EXCEPT ![t] = None]
    /\ pushed' = [pushed EXCEPT ![t] = None]
    /\ UNCHANGED <<mani, pull, overtaken, vouched, dropped, purged>>

\* The row, then tagStore.deleteByDigest.
DeleteDigest(m) ==
    /\ AcceptImage
    /\ m \in mani
    /\ mani' = mani \ {m}
    /\ tag' = [t \in Tags |-> IF tag[t] = m THEN None ELSE tag[t]]
    /\ pushed' = [t \in Tags |-> IF pushed[t] = m THEN None ELSE pushed[t]]
    /\ vouched' = vouched \ {m}
    /\ dropped' = dropped \cup {m}
    /\ UNCHANGED <<pull, overtaken, purged>>

\* DELETE /v1/manifests/<name>/<version> knows nothing of tags.
AdminDelete(m) ==
    /\ AcceptImage
    /\ m \in mani
    /\ mani' = mani \ {m}
    /\ pushed' = [t \in Tags |-> IF pushed[t] = m THEN None ELSE pushed[t]]
    /\ vouched' = vouched \ {m}
    /\ dropped' = dropped \cup {m}
    /\ purged' = purged \cup {m}
    /\ UNCHANGED <<tag, pull, overtaken>>

-----------------------------------------------------------------------------
(***************************************************************************)
(* Blobs come and go by the actions of OciBlobs.                           *)
(***************************************************************************)

Layers == UNION {BlobsOf[m] : m \in Manifests}

\* Bound: a store, and then as many further stores, DELETEs and crashes as
\* there may be faults.
Bounded == begun + crashes <= MaxFaults

StoreLayer(r, d) ==
    /\ scope = "images" /\ pull[r] = NoPull
    /\ Bounded
    /\ StoreBegin(r, d)
    /\ UNCHANGED <<packagesRest, jobs, gone, imageVars>>

DeleteLayer(r, d) ==
    /\ scope = "images" /\ pull[r] = NoPull
    /\ Bounded
    /\ DeleteBegin(r, d)
    /\ gone' = gone \cup {d}
    /\ UNCHANGED <<packagesRest, jobs, imageVars>>

LayerStep(r) ==
    /\ scope = "images"
    /\ \/ Dedupe(r) \/ DropTmp(r) \/ StoreRename(r) \/ WriteMeta(r)
       \/ Record(r) \/ Unlink(r) \/ UnlinkMeta(r) \/ Unrecord(r)
    /\ UNCHANGED <<packagesRest, jobs, gone, imageVars>>

CrashImages ==
    /\ scope = "images"
    /\ Bounded
    /\ Crash
    /\ pull' = [r \in Requests |-> NoPull]
    /\ UNCHANGED <<packagesRest, jobs, gone, remote, mani, tag, imageHist>>

ImagesNext ==
    \/ \E r \in Requests, m \in Manifests, t \in Tags \cup {None} :
         PutImage(r, m, t) \/ ServeManifest(r, m, t)
    \/ \E r \in Requests :
         PutImageStat(r) \/ ProxyOciManifest(r) \/ ProxyOciManifestFails(r)
    \/ \E t \in Tags : DeleteTag(t)
    \/ \E m \in Manifests : DeleteDigest(m) \/ AdminDelete(m)
    \/ \E r \in Requests, d \in Layers : StoreLayer(r, d) \/ DeleteLayer(r, d)
    \/ \E r \in Requests : LayerStep(r)
    \/ CrashImages

RegistryNext ==
    \/ PackagesNext /\ UNCHANGED imageVars
    \/ ImagesNext

RegistrySpec ==
    /\ RegistryInit
    /\ [][RegistryNext]_registryVars
    /\ WF_reaperVars(scope = "oci" /\ Sweep)

-----------------------------------------------------------------------------
(***************************************************************************)
(* Correctness.                                                            *)
(***************************************************************************)

\* A tag leads to a manifest the registry has, unless an administrator
\* deleted that row behind the tag's back.
TagResolves ==
    \A t \in Tags : tag[t] # None => tag[t] \in mani \cup purged

\* A pushed tag stays where it was pushed until somebody pushes it elsewhere
\* or deletes it: pull-through only fills gaps.  A GET that was out upstream
\* when the push came is the exception: it moves the tag to the upstream's
\* manifest when it returns.
PushedTagStays ==
    \A t \in Tags : pushed[t] # None /\ t \notin overtaken => tag[t] = pushed[t]

\* "Reject manifests that pin blobs the registry has never seen": everything
\* an accepted manifest references is there, unless it was deleted.
ImageIsWhole ==
    \A m \in vouched :
        /\ \A d \in BlobsOf[m] : blob[d] # NoFile \/ d \in gone
        /\ ChildrenOf[m] \subseteq mani \cup dropped

\* What was pushed can be pulled: tag, manifest, children and blobs.
PushedIsPullable == TagResolves /\ PushedTagStays /\ ImageIsWhole
=============================================================================
