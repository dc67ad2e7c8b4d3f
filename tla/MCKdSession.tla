---------------------------- MODULE MCKdSession ----------------------------
(* The kernel debugger session on a small instance.                        *)
EXTENDS KdSession
=============================================================================
