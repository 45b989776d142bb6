---------------------------- MODULE MissionStates ----------------------------
(***************************************************************************)
(* The states of a mission and the edges between them, the data of           *)
(* van_gateway/mission/models.py that the ladder and the service share.      *)
(***************************************************************************)

\* TERMINAL_STATES
Terminal == {"VERIFIED_SUCCESS", "PARTIAL_SUCCESS", "FAILED", "CANCELLED", "EXPIRED",
             "BLOCKED_POLICY", "BLOCKED_UNSAFE", "UNVERIFIABLE"}

\* MissionState
States == Terminal \cup
          {"CAPTURED", "UNDERSTOOD", "PLANNED", "AUTHORIZED", "RUNNING", "WAITING_EXTERNAL",
           "WAITING_FOR_OWNER", "RESUME_AUTHORIZED", "VERIFYING"}

\* VERIFICATION_OUTCOMES: reached only with a record of the verifier.
Outcomes == {"VERIFIED_SUCCESS", "PARTIAL_SUCCESS", "UNVERIFIABLE"}

Stops == {"CANCELLED", "EXPIRED", "BLOCKED_POLICY", "BLOCKED_UNSAFE"}

\* LEGAL_TRANSITIONS
Legal == [s \in States |->
  CASE s = "CAPTURED" -> Stops \cup {"UNDERSTOOD"}
    [] s = "UNDERSTOOD" -> Stops \cup {"PLANNED"}
    [] s = "PLANNED" -> Stops \cup {"AUTHORIZED", "WAITING_FOR_OWNER"}
    [] s = "AUTHORIZED" -> Stops \cup {"RUNNING"}
    [] s = "RUNNING" -> Stops \cup {"WAITING_EXTERNAL", "WAITING_FOR_OWNER", "VERIFYING", "FAILED"}
    [] s = "WAITING_EXTERNAL" -> Stops \cup {"RUNNING", "WAITING_FOR_OWNER", "FAILED"}
    [] s = "WAITING_FOR_OWNER" -> Stops \cup {"RESUME_AUTHORIZED"}
    [] s = "RESUME_AUTHORIZED" -> Stops \cup {"RUNNING"}
    [] s = "VERIFYING" -> Outcomes \cup {"FAILED", "CANCELLED", "EXPIRED"}
    [] OTHER -> {}]

\* What the verifier's record says: it supports success, or falls short of it.
Records == {"none", "supports", "short"}
==============================================================================
