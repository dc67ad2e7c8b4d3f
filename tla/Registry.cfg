\* One session and one blob store at a time in two requests, one crash or failed
\* call; or one package of one protocol, or an image, an index and a tag, with a
\* blob DELETE or a crash.
SPECIFICATION RegistrySpec
CONSTANTS
    u1 = u1
    q1 = q1
    q2 = q2
    a = a
    Uploads = {u1}
    Requests = {q1, q2}
    MaxRequests = 3
    Common <- MCCommon
    Chunks = {a}
    MaxChunks = 2
    MaxInodes = 3
    MaxCrashes = 1
    Scopes = {"oci", "images", "npm", "cargo", "pypi", "nuget", "maven"}
    MaxVersion = 2
    Upstreams <- MCUpstreams
    MaxJobs = 3
    MaxFaults = 1
    Asked = {1}
    Manifests <- MCManifests
    BlobsOf <- MCBlobsOf
    ChildrenOf <- MCChildrenOf
    Tags = {"latest"}
CHECK_DEADLOCK FALSE
INVARIANTS ContentAddressed SessionAgrees StoredIsThere VersionIsImmutable ToldIsFound PushedIsPullable
PROPERTIES ExpiredIsSwept
