----------------------------- MODULE MCRegistry -----------------------------
(* One chunk value is enough: a file that took a chunk too many has another *)
(* length, hence another digest, and two lengths are two package contents.  *)
EXTENDS OciManifests

CONSTANTS u1, q1, q2, a

\* A session of one chunk and the other clients can meet on a digest.
MCCommon == {<<a>>}

\* Contents that publishers choose freely are interchangeable, so the upstream
\* needs one of them.  It has the version that comes in with its lists, and the
\* one that is asked for or not.  An upstream with nothing at all is one whose
\* every fetch fails, and any fetch may.
MCUpstreams == {f \in [1..MaxVersion -> {<<>>, <<a>>}] : f[MaxVersion] # <<>>}

\* An image and an index that lists it.
MCManifests  == {"image", "index"}
MCBlobsOf    == [m \in MCManifests |-> IF m = "image" THEN {<<a>>} ELSE {}]
MCChildrenOf == [m \in MCManifests |-> IF m = "index" THEN {"image"} ELSE {}]
=============================================================================
