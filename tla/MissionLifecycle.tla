-------------------------- MODULE MissionLifecycle --------------------------
(***************************************************************************)
(* The life of one mission at the gateway (van_gateway/mission/service.py)   *)
(* and everybody who moves it: the handler of the command that opened it     *)
(* (command/mission_link.py, orchestrator.py), which hands the work to Hermes *)
(* or carries it out itself, the callbacks of Hermes, the owner who cancels, *)
(* an agent on the internal API and the sweeper of deadlines.                *)
(*                                                                          *)
(* A transition is not atomic: it reads the mission, checks the edge, awaits *)
(* the verifier, updates the row if the state is still the one it read,      *)
(* records the event, reads again, and records what a finished mission       *)
(* taught.  Callers interleave at each await.  Missions meet nowhere, each   *)
(* Hermes run has an id of its own, so one mission is modelled.              *)
(***************************************************************************)
EXTENDS Naturals, MissionStates

CONSTANTS
  Command,      \* the handler of the command that opened the mission
  Callbacks,    \* the results Hermes may report at the same time
  Owner,        \* POST /missions/{id}/cancel, or cancel through the session
  Agent,        \* the internal POST /missions/{id}/transition
  Sweeper,      \* the scheduler's job missions.expire_overdue
  MaxCalls,     \* bound: calls of Hermes, the owner and the agent
  MaxCrashes    \* bound: restarts of the gateway

Callers == Callbacks \cup {Command, Owner, Agent, Sweeper}

ASSUME MissionAssumption ==
  /\ MaxCalls \in Nat /\ MaxCrashes \in Nat
  /\ Command \notin Callbacks \cup {Owner, Agent, Sweeper}
  /\ Owner \notin Callbacks \cup {Agent, Sweeper}
  /\ Agent \notin Callbacks \cup {Sweeper}
  /\ Sweeper \notin Callbacks

VARIABLES
  state,       \* column state of the mission
  record,      \* column verification_record_json
  checkable,   \* has the success contract a postcondition
  local,       \* does the gateway carry the command out itself
  deadline,    \* column deadline_ms: none, armed, or passed by now
  run,         \* did Hermes take the run
  bound,       \* does an event name the run (evidence_ref hermes-run:<id>)
  learned,     \* learning_outcomes: the outcome recorded for the mission
  tasks,       \* where each caller is
  accepted,    \* was the owner told that the command was accepted
  calls,       \* calls made so far
  crashes      \* restarts so far

vars == <<state, record, checkable, local, deadline, run, bound, learned, tasks, accepted,
          calls, crashes>>

\* pc is the place in transition or in its caller, from and to the edge, seen the
\* state of the mission the caller holds, rec the verifier's answer, want what
\* Hermes reported.
Idle == [pc |-> "idle", from |-> "CAPTURED", to |-> "CAPTURED", seen |-> "CAPTURED",
         rec |-> "none", want |-> "none"]

At(a, pc) == tasks[a].pc = pc

Set(a, task) == tasks' = [tasks EXCEPT ![a] = task]

Leave(a) == Set(a, Idle)

\* The command's handler has just inserted the mission.
Init ==
  /\ state = "CAPTURED"
  /\ record = "none"
  /\ checkable \in BOOLEAN
  /\ local \in BOOLEAN
  /\ deadline = "none"
  /\ run = FALSE
  /\ bound = FALSE
  /\ learned = "none"
  /\ tasks = [a \in Callers |-> IF a = Command THEN [Idle EXCEPT !.pc = "ready"] ELSE Idle]
  /\ accepted = FALSE
  /\ calls = 0
  /\ crashes = 0

row == <<state, record, deadline, bound, learned>>
given == <<checkable, local>>

-----------------------------------------------------------------------------
(* transition: the one gate. *)

Edge(t) == t \in Legal[state]

Enter(a, t) ==
  Set(a, [Idle EXCEPT !.pc = IF t \in Outcomes THEN "verify" ELSE "write",
                      !.from = state, !.to = t, !.want = tasks[a].want])

\* transition(expected = seen): any MissionError leaves the caller.
Strict(a, t, seen) ==
  IF seen = state /\ Edge(t) THEN Enter(a, t) ELSE Leave(a)

Insufficient(a, rec) == tasks[a].to = "VERIFIED_SUCCESS" /\ rec = "short"

\* The adapter of the contract answers.  A contract without postconditions never
\* succeeds; an insufficient record is UNVERIFIABLE for those who handle it.
Verify(a) ==
  /\ At(a, "verify")
  /\ \E rec \in {"supports", "short"} :
       \/ /\ tasks[a].to = "VERIFIED_SUCCESS" /\ ~checkable
          /\ Leave(a)
       \/ /\ tasks[a].to = "VERIFIED_SUCCESS" => checkable
          /\ IF ~Insufficient(a, rec)
             THEN Set(a, [tasks[a] EXCEPT !.pc = "write", !.rec = rec])
             ELSE IF a \in Callbacks \cup {Command}
                  THEN Strict(a, "UNVERIFIABLE", "VERIFYING")
                  ELSE Leave(a)
  /\ UNCHANGED <<row, given, run, accepted, calls, crashes>>

\* Mutant: UPDATE missions ... WHERE mission_id = ?.
AnyRow(a) == TRUE

\* UPDATE missions ... WHERE mission_id = ? AND state = <the state read>.
StillThere(a) == state = tasks[a].from

\* The start of a delegated command is recorded with its run; the other events
\* only tell the owner's timeline.
NamesRun(a) == a = Command /\ tasks[a].to = "RUNNING" /\ run

Write(a) ==
  /\ At(a, "write")
  /\ IF StillThere(a)
     THEN /\ state' = tasks[a].to
          /\ record' = IF tasks[a].to \in Outcomes THEN tasks[a].rec ELSE record
     ELSE UNCHANGED <<state, record>>
  /\ Set(a, [Idle EXCEPT !.pc = IF NamesRun(a) THEN "note" ELSE "settle",
                         !.to = tasks[a].to, !.want = tasks[a].want])
  /\ UNCHANGED <<given, deadline, run, bound, learned, accepted, calls, crashes>>

\* record_event, also when the update found another state.
Note(a) ==
  /\ At(a, "note")
  /\ bound' = TRUE
  /\ Set(a, [tasks[a] EXCEPT !.pc = "settle"])
  /\ UNCHANGED <<state, record, given, deadline, run, learned, accepted, calls, crashes>>

\* Mutant: every state is an outcome.
AnyState(s) == TRUE

\* OUTCOME_KIND: a mission that is not finished has no outcome.
IsOutcome(s) == s \in Terminal

\* Mutant: the outcome asked for is learned, not the one that was reached.
Asked(a) == IF tasks[a].to \in Terminal THEN tasks[a].to ELSE state

Reached(a) == state

\* The mission is read again; when it is finished its outcome is recorded.
Settle(a) ==
  /\ At(a, "settle")
  /\ learned' = IF IsOutcome(state) THEN Reached(a) ELSE learned
  /\ IF a \in Callbacks \cup {Command}
     THEN Set(a, [tasks[a] EXCEPT !.pc = "ready", !.seen = state])
     ELSE Leave(a)
  /\ UNCHANGED <<state, record, given, deadline, run, bound, accepted, calls, crashes>>

-----------------------------------------------------------------------------
(* The command's handler. *)

\* CommandMissionLink._advance: a mission that has been moved is returned as it is.
Advance(t) ==
  LET seen == tasks[Command].seen
      stay == [Idle EXCEPT !.pc = "ready", !.to = t, !.seen = state]
  IN  \/ seen = t /\ Set(Command, [stay EXCEPT !.seen = t])
      \/ seen # t /\ seen = state /\ Edge(t) /\ Enter(Command, t)
      \/ seen # t /\ seen = state /\ state \notin Terminal /\ ~Edge(t) /\ Set(Command, stay)
      \/ seen # t /\ seen # state /\ Set(Command, stay)
      \/ seen # t /\ seen = state /\ state \in Terminal /\ Leave(Command)

Arrived(t) == At(Command, "ready") /\ tasks[Command].to = t

Climb ==
  /\ \/ Arrived("CAPTURED") /\ Advance("UNDERSTOOD")
     \/ Arrived("UNDERSTOOD") /\ Advance("PLANNED")
     \/ Arrived("PLANNED") /\ Advance("AUTHORIZED")
  /\ UNCHANGED <<row, given, run, accepted, calls, crashes>>

\* The truth gate refuses.
Block ==
  /\ Arrived("UNDERSTOOD")
  /\ Advance("BLOCKED_POLICY")
  /\ UNCHANGED <<row, given, run, accepted, calls, crashes>>

\* No context, no seal, Hermes offline, no authority for the local action: the
\* mission stays where it is (note_stall).
Stall ==
  /\ Arrived("UNDERSTOOD") \/ Arrived("PLANNED") \/ Arrived("AUTHORIZED")
  /\ Leave(Command)
  /\ UNCHANGED <<row, given, run, accepted, calls, crashes>>

\* hermes.create_run, which may fail after Hermes took the run.
Delegate ==
  /\ Arrived("AUTHORIZED")
  /\ ~local
  /\ run' = TRUE
  /\ \/ Set(Command, [tasks[Command] EXCEPT !.pc = "dispatched"])
     \/ Leave(Command)
  /\ UNCHANGED <<row, given, accepted, calls, crashes>>

\* The action runtime denies the local action, or finds it expired.
DenyLocal ==
  /\ Arrived("AUTHORIZED")
  /\ local
  /\ \E t \in {"EXPIRED", "BLOCKED_POLICY"} : Strict(Command, t, tasks[Command].seen)
  /\ UNCHANGED <<row, given, run, accepted, calls, crashes>>

Start ==
  /\ At(Command, "dispatched") \/ (Arrived("AUTHORIZED") /\ local)
  /\ Advance("RUNNING")
  /\ UNCHANGED <<row, given, run, accepted, calls, crashes>>

\* running() goes on: set_deadline is an update of its own, whatever the state.
SetDeadline ==
  /\ Arrived("RUNNING")
  /\ deadline' = "armed"
  /\ Set(Command, [tasks[Command] EXCEPT !.pc = IF local THEN "work" ELSE "answer"])
  /\ UNCHANGED <<state, record, given, run, bound, learned, accepted, calls, crashes>>

\* The local executor fails, or is done and is verified.
Work ==
  /\ At(Command, "work")
  /\ \/ Strict(Command, "FAILED", tasks[Command].seen)
     \/ Strict(Command, "VERIFYING", "RUNNING")
  /\ UNCHANGED <<row, given, run, accepted, calls, crashes>>

\* The handler answers; "accepted" may get lost on its way.
Answer ==
  /\ \/ /\ At(Command, "answer") \/ \E t \in Outcomes : Arrived(t)
        /\ accepted' \in {accepted, TRUE}
     \/ /\ \E t \in {"FAILED", "EXPIRED", "BLOCKED_POLICY"} : Arrived(t)
        /\ UNCHANGED accepted
  /\ Leave(Command)
  /\ UNCHANGED <<row, given, run, calls, crashes>>

-----------------------------------------------------------------------------
(* Hermes, the owner, the agent and the sweeper. *)

Target == [COMPLETED |-> "VERIFYING", FAILED |-> "FAILED",
           WAITING_FOR_OWNER |-> "WAITING_FOR_OWNER", WAITING_EXTERNAL |-> "WAITING_EXTERNAL"]

Resumable == {"WAITING_EXTERNAL", "RESUME_AUTHORIZED"}

\* What apply_hermes_result attempts once the mission is where it can be.
Project(a, want) ==
  IF want = "COMPLETED" /\ state # "RUNNING" THEN Leave(a) ELSE
  IF Edge(Target[want])
  THEN Set(a, [Idle EXCEPT !.pc = "write", !.from = state, !.to = Target[want], !.want = want])
  ELSE Leave(a)

KnownRun == run /\ bound

\* apply_hermes_result: a run no event names is refused, and so is a mission
\* that is finished; a result moves a waiting mission back to RUNNING first.
Report(a) ==
  /\ a \in Callbacks
  /\ At(a, "idle")
  /\ KnownRun
  /\ state \notin Terminal
  /\ calls < MaxCalls
  /\ calls' = calls + 1
  /\ \E want \in DOMAIN Target :
       IF state \in Resumable /\ want \in {"COMPLETED", "FAILED"}
       THEN Set(a, [Idle EXCEPT !.pc = "write", !.from = state, !.to = "RUNNING", !.want = want])
       ELSE Project(a, want)
  /\ UNCHANGED <<row, given, run, accepted, crashes>>

\* The result after the mission was resumed.
Resumed(a) ==
  /\ a \in Callbacks
  /\ At(a, "ready") /\ tasks[a].to = "RUNNING"
  /\ IF tasks[a].seen = state THEN Project(a, tasks[a].want) ELSE Leave(a)
  /\ UNCHANGED <<row, given, run, accepted, calls, crashes>>

\* The work is done: the verifier decides between success and not knowing.
Conclude(a) ==
  /\ a \in Callbacks \cup {Command}
  /\ At(a, "ready") /\ tasks[a].to = "VERIFYING"
  /\ Strict(a, IF checkable THEN "VERIFIED_SUCCESS" ELSE "UNVERIFIABLE", "VERIFYING")
  /\ UNCHANGED <<row, given, run, accepted, calls, crashes>>

\* Hermes is answered.
Reported(a) ==
  /\ a \in Callbacks
  /\ At(a, "ready") /\ tasks[a].to \notin {"RUNNING", "VERIFYING"}
  /\ Leave(a)
  /\ UNCHANGED <<row, given, run, accepted, calls, crashes>>

\* A call of the owner or the agent; a refused one changes nothing.
Call(a, t) ==
  /\ At(a, "idle")
  /\ calls < MaxCalls
  /\ calls' = calls + 1
  /\ Edge(t)
  /\ Enter(a, t)
  /\ UNCHANGED <<row, given, run, accepted, crashes>>

Cancel == Call(Owner, "CANCELLED")

Steer == \E t \in States : Call(Agent, t)

DeadlinePasses ==
  /\ deadline = "armed"
  /\ deadline' = "passed"
  /\ UNCHANGED <<state, record, given, run, bound, learned, tasks, accepted, calls, crashes>>

\* Mutant: only running missions are swept.
RunningOverdue == deadline = "passed" /\ state = "RUNNING"

Overdue == deadline = "passed" /\ state \notin Terminal

Sweep ==
  /\ At(Sweeper, "idle")
  /\ Overdue
  /\ Strict(Sweeper, "EXPIRED", state)
  /\ UNCHANGED <<row, given, run, accepted, calls, crashes>>

\* The gateway dies: every call in progress is gone, the rows stay.
Crash ==
  /\ crashes < MaxCrashes
  /\ crashes' = crashes + 1
  /\ tasks' = [a \in Callers |-> Idle]
  /\ UNCHANGED <<row, given, run, accepted, calls>>

Transition(a) == Verify(a) \/ Write(a) \/ Note(a) \/ Settle(a)

Handler ==
  \/ Climb
  \/ Block
  \/ Stall
  \/ Delegate
  \/ DenyLocal
  \/ Start
  \/ SetDeadline
  \/ Work
  \/ Answer

Hermes(a) == Report(a) \/ Resumed(a) \/ Conclude(a) \/ Reported(a)

Next ==
  \/ \E a \in Callers : Transition(a)
  \/ Handler
  \/ \E a \in Callbacks \cup {Command} : Hermes(a)
  \/ Cancel
  \/ Steer
  \/ DeadlinePasses
  \/ Sweep
  \/ Crash

Spec == Init /\ [][Next]_vars

\* Time passes, the command's handler goes on, and the scheduler runs its jobs.
FairSpec ==
  /\ Spec
  /\ WF_vars(DeadlinePasses)
  /\ WF_vars(Handler \/ Transition(Command) \/ Conclude(Command))
  /\ WF_vars(Sweep \/ Transition(Sweeper))

-----------------------------------------------------------------------------
(* Properties. *)

Tasks == [pc : {"idle", "ready", "verify", "write", "note", "settle", "dispatched", "work",
                "answer"},
          from : States, to : States, seen : States, rec : Records,
          want : DOMAIN Target \cup {"none"}]

\* The type invariant of the mission's row and of its callers.
TypeOK ==
  /\ state \in States
  /\ record \in Records
  /\ checkable \in BOOLEAN /\ local \in BOOLEAN
  /\ deadline \in {"none", "armed", "passed"}
  /\ run \in BOOLEAN /\ bound \in BOOLEAN
  /\ learned \in Terminal \cup {"none"}
  /\ tasks \in [Callers -> Tasks]
  /\ accepted \in BOOLEAN
  /\ calls \in 0..MaxCalls
  /\ crashes \in 0..MaxCrashes

\* Whoever races whom between a read and its update, the mission only climbs
\* legal edges, a finished one stays as it is, and a verification outcome is
\* stored with the very record that supports it (MissionService.transition).
Ladder == INSTANCE MissionLadder
ImplementsLadder == Ladder!Spec

\* What is learned from a mission is how it really ended, also when it is
\* recorded by a caller whose own update came too late.
LearnedIsTrue == learned # "none" => learned = state

\* An owner who was told that a command was accepted hears how it ended: the
\* mission finishes even when Hermes never calls back (expire_overdue).
AcceptedEnds == accepted ~> state \in Terminal

==============================================================================
