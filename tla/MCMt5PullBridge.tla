-------------------------- MODULE MCMt5PullBridge --------------------------
(* The pull bridge with a handful of commands; the bounds are in the .cfg    *)
(* files.                                                                   *)
EXTENDS Mt5PullBridgeImplements
=============================================================================
