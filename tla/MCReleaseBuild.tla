--------------------------- MODULE MCReleaseBuild ---------------------------
(* A local and a remote builder of one tag with two declared artifacts.    *)
EXTENDS ReleaseBuild

CONSTANTS local, remote

MCBuilders == {local, remote}
MCRemote   == {remote}
=============================================================================
