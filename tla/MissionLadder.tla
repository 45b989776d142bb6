---------------------------- MODULE MissionLadder ----------------------------
(***************************************************************************)
(* What a mission promises the owner, whoever moves it: it climbs one legal  *)
(* edge at a time, a terminal state is final, a verification outcome comes   *)
(* out of VERIFYING together with the verifier's record, and success only    *)
(* with a checkable contract and a record that supports it.                  *)
(***************************************************************************)
EXTENDS MissionStates

VARIABLES
  state,       \* where the mission is
  record,      \* the verifier's record stored with it
  checkable    \* has its success contract a postcondition to check

vars == <<state, record, checkable>>

Init == state = "CAPTURED" /\ record = "none" /\ checkable \in BOOLEAN

Move ==
  /\ state' \in Legal[state] \ Outcomes
  /\ UNCHANGED <<record, checkable>>

Conclude ==
  /\ state = "VERIFYING"
  /\ state' \in Outcomes
  /\ record' \in Records \ {"none"}
  /\ state' = "VERIFIED_SUCCESS" => checkable /\ record' = "supports"
  /\ UNCHANGED checkable

Next == Move \/ Conclude

Spec == Init /\ [][Next]_vars
==============================================================================
