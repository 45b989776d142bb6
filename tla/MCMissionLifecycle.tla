-------------------------- MODULE MCMissionLifecycle --------------------------
(* One mission and its callers; the bounds are in the .cfg files.             *)
EXTENDS MissionLifecycle
==============================================================================
