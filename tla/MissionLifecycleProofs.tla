----------------------- MODULE MissionLifecycleProofs -----------------------
(***************************************************************************)
(* What MissionLifecycle guarantees for any number of callbacks, calls and   *)
(* restarts: the ladder of MissionLadder, and an outcome learned that is the *)
(* mission's own.                                                            *)
(***************************************************************************)
EXTENDS MissionLifecycle, TLAPS

\* A caller about to update the row has a legal edge from the state it read, and
\* for an outcome the record that supports it; one at the verifier is on its way
\* from VERIFYING to an outcome.  A result of Hermes resumes the mission to go on.
Permitted(a, task) ==
  /\ task.pc \in {"verify", "write"} => task.to \in Legal[task.from]
  /\ task.pc = "verify" => task.to \in Outcomes
  /\ task.pc = "write" /\ task.to \in Outcomes =>
       /\ task.rec # "none"
       /\ task.to = "VERIFIED_SUCCESS" => checkable /\ task.rec = "supports"
  /\ a \in Callbacks /\ task.to = "RUNNING" => task.want # "none"

IInv ==
  /\ TypeOK
  /\ \A a \in Callers : Permitted(a, tasks[a])
  /\ LearnedIsTrue

-----------------------------------------------------------------------------
(* The edges. *)

LEMMA TerminalIsFinal == \A s \in Terminal : Legal[s] = {}
  BY DEF Legal, Terminal, States

LEMMA EdgesAreStates == \A s \in States : Legal[s] \subseteq States
  BY DEF Legal, Terminal, States, Outcomes, Stops

\* A verification outcome is reached from VERIFYING only.
LEMMA OutcomesComeFromVerifying ==
  ASSUME NEW s \in States, NEW t \in Legal[s], t \in Outcomes
  PROVE  s = "VERIFYING"
  <1>1. CASE s \in Terminal
    BY <1>1, TerminalIsFinal
  <1>2. CASE s \notin Terminal
    BY <1>2 DEF Legal, Terminal, States, Outcomes, Stops
  <1> QED BY <1>1, <1>2

LEMMA TargetsAreStates ==
  \A want \in DOMAIN Target : Target[want] \in States \ Outcomes
  BY DEF Target, States, Terminal, Outcomes

-----------------------------------------------------------------------------
(* The callers. *)

Good == tasks \in [Callers -> Tasks] /\ \A a \in Callers : Permitted(a, tasks[a])

LEMMA IInvMeans ==
  ASSUME IInv
  PROVE  /\ Good
         /\ state \in States
         /\ \A a \in Callers : /\ tasks[a] \in Tasks
                               /\ tasks[a].to \in States /\ tasks[a].seen \in States
                               /\ tasks[a].want \in DOMAIN Target \cup {"none"}
  BY DEF IInv, Good, TypeOK, Tasks

\* A caller that is moved to a permitted place leaves the others where they are.
LEMMA SetKeeps ==
  ASSUME IInv, NEW a \in Callers, NEW task \in Tasks, Permitted(a, task), Set(a, task),
         UNCHANGED checkable
  PROVE  Good'
  <1>1. tasks' = [tasks EXCEPT ![a] = task]
    BY DEF Set
  <1>2. tasks' \in [Callers -> Tasks]
    BY <1>1, IInvMeans DEF Good
  <1>3. ASSUME NEW b \in Callers
        PROVE  Permitted(b, tasks[b])'
    <2>1. tasks'[b] = tasks[b] \/ (b = a /\ tasks'[b] = task)
      BY <1>1, IInvMeans DEF Good
    <2>2. Permitted(b, tasks[b])
      BY IInvMeans DEF Good
    <2> QED BY <2>1, <2>2 DEF Permitted
  <1> QED BY <1>2, <1>3 DEF Good

LEMMA IdleIsGood == Idle \in Tasks /\ \A a : Permitted(a, Idle)
  BY DEF Idle, Tasks, States, Terminal, Records, Permitted

LEMMA LeaveKeeps ==
  ASSUME IInv, NEW a \in Callers, Leave(a), UNCHANGED checkable
  PROVE  Good'
  BY IdleIsGood, SetKeeps DEF Leave

\* A caller anywhere but at the verifier or at the update.
LEMMA ElsewhereKeeps ==
  ASSUME IInv, NEW a \in Callers, NEW task \in Tasks, task.pc \notin {"verify", "write"},
         a \in Callbacks /\ task.to = "RUNNING" => task.want # "none",
         Set(a, task), UNCHANGED checkable
  PROVE  Good'
  BY SetKeeps DEF Permitted

LEMMA EnterKeeps ==
  ASSUME IInv, NEW a \in Callers, NEW t \in Legal[state], Enter(a, t),
         a \in Callbacks => t # "RUNNING", UNCHANGED checkable
  PROVE  Good'
  <1> DEFINE task == [Idle EXCEPT !.pc = IF t \in Outcomes THEN "verify" ELSE "write",
                                  !.from = state, !.to = t, !.want = tasks[a].want]
  <1>1. t \in States /\ state \in States /\ tasks[a].want \in DOMAIN Target \cup {"none"}
    BY IInvMeans, EdgesAreStates
  <1>2. task \in Tasks
    BY <1>1, IdleIsGood DEF Tasks
  <1>3. Permitted(a, task)
    BY DEF Permitted, Idle
  <1> QED BY <1>2, <1>3, SetKeeps DEF Enter

LEMMA StrictKeeps ==
  ASSUME IInv, NEW a \in Callers, NEW t, NEW seen, Strict(a, t, seen),
         a \in Callbacks => t # "RUNNING", UNCHANGED checkable
  PROVE  Good'
  BY EnterKeeps, LeaveKeeps DEF Strict, Edge

LEMMA AdvanceKeeps ==
  ASSUME IInv, NEW t \in States, Advance(t), UNCHANGED checkable
  PROVE  Good'
  <1>0. Command \in Callers \ Callbacks
    BY MissionAssumption DEF Callers, MissionAssumption
  <1> DEFINE stay == [Idle EXCEPT !.pc = "ready", !.to = t, !.seen = state]
             there == [stay EXCEPT !.seen = t]
  <1>1. stay \in Tasks /\ there \in Tasks /\ stay.pc = "ready" /\ there.pc = "ready"
    BY IInvMeans, IdleIsGood DEF Tasks
  <1>2. Set(Command, stay) => Good'
    BY <1>0, <1>1, ElsewhereKeeps
  <1>3. Set(Command, there) => Good'
    BY <1>0, <1>1, ElsewhereKeeps
  <1> HIDE DEF stay, there
  <1>4. \/ Set(Command, stay) \/ Set(Command, there) \/ Leave(Command)
        \/ Edge(t) /\ Enter(Command, t)
    BY DEF Advance, stay, there
  <1> QED BY <1>0, <1>2, <1>3, <1>4, LeaveKeeps, EnterKeeps DEF Edge

\* An edge that needs no verifier.
LEMMA PlainWriteKeeps ==
  ASSUME IInv, NEW a \in Callers, NEW t \in Legal[state] \ Outcomes, NEW want \in DOMAIN Target,
         Set(a, [Idle EXCEPT !.pc = "write", !.from = state, !.to = t, !.want = want]),
         UNCHANGED checkable
  PROVE  Good'
  <1> DEFINE task == [Idle EXCEPT !.pc = "write", !.from = state, !.to = t, !.want = want]
  <1>1. t \in States /\ state \in States
    BY IInvMeans, EdgesAreStates
  <1>2. task \in Tasks
    BY <1>1, IdleIsGood DEF Tasks
  <1>3. Permitted(a, task)
    BY DEF Permitted, Idle, Target
  <1> QED BY <1>2, <1>3, SetKeeps

LEMMA ProjectKeeps ==
  ASSUME IInv, NEW a \in Callers, NEW want \in DOMAIN Target, Project(a, want), UNCHANGED checkable
  PROVE  Good'
  <1>1. CASE Leave(a)
    BY <1>1, LeaveKeeps
  <1>2. CASE /\ Edge(Target[want])
             /\ Set(a, [Idle EXCEPT !.pc = "write", !.from = state, !.to = Target[want],
                                    !.want = want])
    BY <1>2, TargetsAreStates, PlainWriteKeeps DEF Edge
  <1> QED BY <1>1, <1>2 DEF Project

-----------------------------------------------------------------------------
(* The steps that leave the mission's row and what was learned as they are. *)

Rest ==
  /\ deadline \in {"none", "armed", "passed"}
  /\ run \in BOOLEAN /\ bound \in BOOLEAN /\ accepted \in BOOLEAN /\ local \in BOOLEAN
  /\ calls \in 0..MaxCalls
  /\ crashes \in 0..MaxCrashes

Steady == UNCHANGED <<state, record, checkable, learned>>

Quiet == Steady /\ Good' /\ Rest'

LEMMA RestHolds == ASSUME IInv PROVE Rest
  BY DEF IInv, TypeOK, Rest

LEMMA QuietKeeps == ASSUME IInv, Quiet PROVE IInv'
  BY DEF IInv, Quiet, Steady, TypeOK, Good, Rest, LearnedIsTrue

\* The verifier's answer leads to the update only where it supports the outcome.
LEMMA VerifyIsQuiet ==
  ASSUME IInv, NEW a \in Callers, Verify(a)
  PROVE  Quiet
  <1>1. /\ Steady /\ Rest' /\ UNCHANGED checkable
        /\ At(a, "verify") /\ tasks[a] \in Tasks /\ Permitted(a, tasks[a])
    BY IInvMeans, RestHolds DEF Verify, row, given, Steady, Rest, Good
  <1>2. CASE Leave(a)
    BY <1>1, <1>2, LeaveKeeps DEF Quiet
  <1>3. CASE Strict(a, "UNVERIFIABLE", "VERIFYING")
    BY <1>1, <1>3, StrictKeeps DEF Quiet
  <1>4. ASSUME NEW rec \in {"supports", "short"},
               tasks[a].to = "VERIFIED_SUCCESS" => checkable /\ rec # "short",
               Set(a, [tasks[a] EXCEPT !.pc = "write", !.rec = rec])
        PROVE  Quiet
    <2> DEFINE task == [tasks[a] EXCEPT !.pc = "write", !.rec = rec]
    <2>1. /\ task \in Tasks /\ task.pc = "write" /\ task.rec = rec
          /\ task.to = tasks[a].to /\ task.from = tasks[a].from
      BY <1>1 DEF Tasks, Records
    <2>2. Permitted(a, task)
      BY <1>1, <1>4, <2>1 DEF Permitted, At
    <2> QED BY <1>1, <1>4, <2>1, <2>2, SetKeeps DEF Quiet
  <1> QED BY <1>2, <1>3, <1>4 DEF Verify, Insufficient

LEMMA NoteIsQuiet ==
  ASSUME IInv, NEW a \in Callers, Note(a)
  PROVE  Quiet
  <1> DEFINE task == [tasks[a] EXCEPT !.pc = "settle"]
  <1>1. Steady /\ Rest' /\ UNCHANGED checkable /\ Set(a, task)
    BY RestHolds DEF Note, given, Steady, Rest
  <1>2. task \in Tasks /\ task.pc = "settle"
        /\ (a \in Callbacks /\ task.to = "RUNNING" => task.want # "none")
    BY IInvMeans DEF Tasks, Good, Permitted
  <1> HIDE DEF task
  <1> QED BY <1>1, <1>2, ElsewhereKeeps DEF Quiet

LEMMA LadderStates ==
  /\ {"UNDERSTOOD", "PLANNED", "AUTHORIZED", "BLOCKED_POLICY", "RUNNING"} \subseteq States
  BY DEF States, Terminal

\* The command's handler.
LEMMA HandlerIsQuiet ==
  ASSUME IInv, Handler
  PROVE  Quiet
  <1>1. Rest /\ Command \in Callers \ Callbacks /\ tasks[Command] \in Tasks
    BY IInvMeans, RestHolds, MissionAssumption DEF Callers, MissionAssumption
  <1>2. CASE Climb \/ Block \/ Start
    <2>1. Steady /\ Rest'
      BY <1>1, <1>2 DEF Climb, Block, Start, row, given, Steady, Rest
    <2>2. \E t \in States : Advance(t)
      BY <1>2, LadderStates DEF Climb, Block, Start
    <2> QED BY <2>1, <2>2, AdvanceKeeps DEF Quiet, Steady
  <1>3. CASE Stall \/ Answer
    <2>1. Steady /\ Rest' /\ Leave(Command)
      BY <1>1, <1>3 DEF Stall, Answer, row, given, Steady, Rest
    <2> QED BY <1>1, <2>1, LeaveKeeps DEF Quiet, Steady
  <1>4. CASE DenyLocal \/ Work
    <2>1. Steady /\ Rest'
      BY <1>1, <1>4 DEF DenyLocal, Work, row, given, Steady, Rest
    <2>2. \E t, seen \in {"EXPIRED", "BLOCKED_POLICY", "FAILED", "VERIFYING", "RUNNING",
                          tasks[Command].seen} : Strict(Command, t, seen)
      BY <1>4 DEF DenyLocal, Work
    <2> QED BY <1>1, <2>1, <2>2, StrictKeeps DEF Quiet, Steady
  <1>5. CASE Delegate
    <2> DEFINE task == [tasks[Command] EXCEPT !.pc = "dispatched"]
    <2>1. Steady /\ Rest' /\ (Set(Command, task) \/ Leave(Command))
      BY <1>1, <1>5 DEF Delegate, row, given, Steady, Rest
    <2>2. task \in Tasks /\ task.pc = "dispatched"
      BY <1>1 DEF Tasks
    <2> HIDE DEF task
    <2> QED BY <1>1, <2>1, <2>2, ElsewhereKeeps, LeaveKeeps DEF Quiet, Steady
  <1>6. CASE SetDeadline
    <2> DEFINE task == [tasks[Command] EXCEPT !.pc = IF local THEN "work" ELSE "answer"]
    <2>1. Steady /\ Rest' /\ Set(Command, task)
      BY <1>1, <1>6 DEF SetDeadline, given, Steady, Rest
    <2>2. task \in Tasks /\ task.pc \in {"work", "answer"}
      BY <1>1 DEF Tasks
    <2> HIDE DEF task
    <2> QED BY <1>1, <2>1, <2>2, ElsewhereKeeps DEF Quiet, Steady
  <1> QED BY <1>2, <1>3, <1>4, <1>5, <1>6 DEF Handler

\* Hermes reports, and what follows from its report.
LEMMA HermesIsQuiet ==
  ASSUME IInv, NEW a \in Callers, Hermes(a)
  PROVE  Quiet
  <1>1. Rest /\ tasks[a] \in Tasks /\ tasks[a].want \in DOMAIN Target \cup {"none"}
    BY IInvMeans, RestHolds
  <1>2. CASE Report(a)
    <2>1. Steady /\ Rest'
      BY <1>1, <1>2, MissionAssumption DEF Report, row, given, Steady, Rest, MissionAssumption
    <2>2. PICK want \in DOMAIN Target :
            IF state \in Resumable /\ want \in {"COMPLETED", "FAILED"}
            THEN Set(a, [Idle EXCEPT !.pc = "write", !.from = state, !.to = "RUNNING",
                                     !.want = want])
            ELSE Project(a, want)
      BY <1>2 DEF Report
    <2>3. CASE state \in Resumable /\ want \in {"COMPLETED", "FAILED"}
      <3>1. "RUNNING" \in Legal[state] \ Outcomes
        BY <2>3 DEF Resumable, Legal, States, Terminal, Outcomes, Stops
      <3> QED BY <2>1, <2>2, <2>3, <3>1, PlainWriteKeeps DEF Quiet, Steady
    <2>4. CASE ~(state \in Resumable /\ want \in {"COMPLETED", "FAILED"})
      BY <2>1, <2>2, <2>4, ProjectKeeps DEF Quiet, Steady
    <2> QED BY <2>3, <2>4
  <1>3. CASE Resumed(a)
    <2>1. Steady /\ Rest'
      BY <1>1, <1>3 DEF Resumed, row, given, Steady, Rest
    <2>2. tasks[a].want \in DOMAIN Target
      BY <1>1, <1>3, IInvMeans DEF Resumed, Good, Permitted
    <2> QED BY <1>3, <2>1, <2>2, ProjectKeeps, LeaveKeeps DEF Resumed, Quiet, Steady
  <1>4. CASE Conclude(a) \/ Reported(a)
    <2>1. Steady /\ Rest'
      BY <1>1, <1>4 DEF Conclude, Reported, row, given, Steady, Rest
    <2> QED BY <1>4, <2>1, StrictKeeps, LeaveKeeps DEF Conclude, Reported, Quiet, Steady
  <1> QED BY <1>2, <1>3, <1>4 DEF Hermes

\* The owner, the agent, the sweeper, the clock and a crash.
LEMMA OthersAreQuiet ==
  ASSUME IInv, Cancel \/ Steer \/ DeadlinePasses \/ Sweep \/ Crash
  PROVE  Quiet
  <1>1. Rest /\ Good
    BY IInvMeans, RestHolds
  <1>2. Steady
    BY DEF Cancel, Steer, Call, DeadlinePasses, Sweep, Crash, row, given, Steady
  <1>3. ASSUME NEW a \in Callers \ Callbacks, NEW t, Call(a, t)
        PROVE  Quiet
    <2>1. Rest'
      BY <1>1, <1>3, MissionAssumption DEF Call, row, given, Rest, MissionAssumption
    <2> QED BY <1>2, <1>3, <2>1, EnterKeeps DEF Call, Edge, Quiet, Steady
  <1>4. CASE Cancel \/ Steer
    BY <1>3, <1>4, MissionAssumption DEF Cancel, Steer, Callers, MissionAssumption
  <1>5. CASE DeadlinePasses
    BY <1>1, <1>2, <1>5 DEF DeadlinePasses, given, Rest, Good, Quiet, Permitted, Steady
  <1>6. CASE Sweep
    <2>1. Rest' /\ Sweeper \in Callers
      BY <1>1, <1>6 DEF Sweep, row, given, Rest, Callers
    <2> QED BY <1>2, <1>6, <2>1, StrictKeeps DEF Sweep, Quiet, Steady
  <1>7. CASE Crash
    <2>1. Rest'
      BY <1>1, <1>7, MissionAssumption DEF Crash, row, given, Rest, MissionAssumption
    <2>2. tasks' = [a \in Callers |-> Idle]
      BY <1>7 DEF Crash
    <2>3. Idle \in Tasks /\ \A a \in Callers : Permitted(a, Idle)'
      BY IdleIsGood DEF Permitted, Idle
    <2>4. Good'
      BY <2>2, <2>3 DEF Good, Permitted
    <2> QED BY <1>2, <2>1, <2>4 DEF Quiet
  <1> QED BY <1>4, <1>5, <1>6, <1>7

-----------------------------------------------------------------------------
(* The update of the row, and what a finished mission teaches. *)

\* The ladder is built from the same data.
LEMMA SameData ==
  Ladder!Legal = Legal /\ Ladder!Outcomes = Outcomes /\ Ladder!Records = Records
  BY DEF Ladder!Legal, Legal, Ladder!Outcomes, Outcomes, Ladder!Records, Records,
         Ladder!States, States, Ladder!Terminal, Terminal, Ladder!Stops, Stops

LEMMA WriteKeeps ==
  ASSUME IInv, NEW a \in Callers, Write(a)
  PROVE  IInv' /\ [Ladder!Next]_<<state, record, checkable>>
  <1> DEFINE task == [Idle EXCEPT !.pc = IF NamesRun(a) THEN "note" ELSE "settle",
                                  !.to = tasks[a].to, !.want = tasks[a].want]
  <1>1. /\ Rest /\ state \in States /\ tasks[a] \in Tasks /\ Permitted(a, tasks[a])
        /\ tasks[a].to \in States /\ tasks[a].pc = "write"
    BY IInvMeans, RestHolds DEF Write, At, Good
  <1>2. UNCHANGED <<checkable, learned>> /\ Rest' /\ Set(a, task)
    BY <1>1 DEF Write, given, Rest
  <1>3. task \in Tasks /\ task.pc \in {"note", "settle"}
        /\ (a \in Callbacks /\ task.to = "RUNNING" => task.want # "none")
    BY <1>1, IdleIsGood DEF Tasks, Permitted
  <1> HIDE DEF task
  <1>4. Good'
    BY <1>2, <1>3, ElsewhereKeeps
  <1>5. CASE ~StillThere(a)
    <2>1. Steady
      BY <1>2, <1>5 DEF Write, Steady
    <2> QED BY <1>2, <1>4, <2>1, QuietKeeps DEF Quiet, Steady
  <1>6. CASE StillThere(a)
    <2>1. /\ state' = tasks[a].to /\ state' \in Legal[state]
          /\ record' = IF state' \in Outcomes THEN tasks[a].rec ELSE record
      BY <1>1, <1>6 DEF Write, StillThere, Permitted
    <2>2. state \notin Terminal
      BY <2>1, TerminalIsFinal
    <2>3. state' \in States /\ record' \in Records
      BY <1>1, <2>1 DEF Tasks, IInv, TypeOK
    <2>4. LearnedIsTrue'
      BY <1>2, <2>2 DEF IInv, LearnedIsTrue, TypeOK
    <2>5. IInv'
      BY <1>2, <1>4, <2>3, <2>4 DEF IInv, TypeOK, Good, Rest
    <2>6. CASE state' \in Outcomes
      <3>1. state = "VERIFYING"
        BY <1>1, <2>1, <2>6, OutcomesComeFromVerifying
      <3>2. /\ record' \in Records \ {"none"}
            /\ state' = "VERIFIED_SUCCESS" => checkable /\ record' = "supports"
        BY <1>1, <2>1, <2>3, <2>6 DEF Permitted
      <3> QED BY <1>2, <2>5, <2>6, <3>1, <3>2, SameData DEF Ladder!Next, Ladder!Conclude
    <2>7. CASE state' \notin Outcomes
      BY <1>2, <2>1, <2>5, <2>7, SameData DEF Ladder!Next, Ladder!Move
    <2> QED BY <2>6, <2>7
  <1> QED BY <1>5, <1>6

LEMMA SettleKeeps ==
  ASSUME IInv, NEW a \in Callers, Settle(a)
  PROVE  IInv' /\ UNCHANGED <<state, record, checkable>>
  <1> DEFINE task == [tasks[a] EXCEPT !.pc = "ready", !.seen = state]
  <1>1. /\ UNCHANGED <<state, record, checkable>> /\ Rest'
        /\ Set(a, task) \/ Leave(a)
        /\ learned' = IF state \in Terminal THEN state ELSE learned
    BY RestHolds DEF Settle, given, Rest, IsOutcome, Reached
  <1>2. /\ task \in Tasks /\ task.pc = "ready"
        /\ (a \in Callbacks /\ task.to = "RUNNING" => task.want # "none")
    BY IInvMeans DEF Tasks, Good, Permitted
  <1> HIDE DEF task
  <1>3. Good'
    BY <1>1, <1>2, ElsewhereKeeps, LeaveKeeps
  <1>4. LearnedIsTrue' /\ learned' \in Terminal \cup {"none"}
    BY <1>1 DEF IInv, LearnedIsTrue, TypeOK
  <1> QED BY <1>1, <1>3, <1>4 DEF IInv, TypeOK, Good, Rest

-----------------------------------------------------------------------------
(* The theorems. *)

LEMMA InitHolds == ASSUME Init PROVE IInv /\ Ladder!Init
  <1>1. \A a \in Callers : tasks[a] = Idle \/ tasks[a] = [Idle EXCEPT !.pc = "ready"]
    BY DEF Init
  <1>2. [Idle EXCEPT !.pc = "ready"] \in Tasks /\ [Idle EXCEPT !.pc = "ready"].pc = "ready"
        /\ [Idle EXCEPT !.pc = "ready"].to = "CAPTURED"
    BY IdleIsGood DEF Tasks, Idle
  <1>3. Good
    BY <1>1, <1>2, IdleIsGood DEF Init, Good, Permitted
  <1>4. Rest
    <2>1. 0 \in 0..MaxCalls /\ 0 \in 0..MaxCrashes
      BY MissionAssumption DEF MissionAssumption
    <2>2. calls \in 0..MaxCalls /\ crashes \in 0..MaxCrashes /\ local \in BOOLEAN
      BY <2>1 DEF Init
    <2> QED BY <2>2 DEF Init, Rest
  <1>5. TypeOK
    <2>1. state \in States /\ record \in Records /\ checkable \in BOOLEAN /\ learned = "none"
      BY DEF Init, States, Records
    <2> QED BY <1>3, <1>4, <2>1 DEF TypeOK, Good, Rest
  <1>6. LearnedIsTrue
    BY DEF Init, LearnedIsTrue
  <1> QED BY <1>3, <1>5, <1>6 DEF Init, IInv, Good, Ladder!Init

LEMMA StepKeeps ==
  ASSUME IInv, [Next]_vars
  PROVE  IInv' /\ [Ladder!Next]_<<state, record, checkable>>
  <1>1. CASE Quiet
    BY <1>1, QuietKeeps DEF Quiet, Steady
  <1>2. ASSUME NEW a \in Callers, Transition(a)
        PROVE  IInv' /\ [Ladder!Next]_<<state, record, checkable>>
    BY <1>1, <1>2, VerifyIsQuiet, NoteIsQuiet, WriteKeeps, SettleKeeps DEF Transition
  <1>3. CASE UNCHANGED vars
    BY <1>3 DEF vars, IInv, TypeOK, LearnedIsTrue, Permitted
  <1> QED
    BY <1>1, <1>2, <1>3, HandlerIsQuiet, HermesIsQuiet, OthersAreQuiet DEF Next, Callers

THEOREM MissionInvariant == Spec => []IInv
  <1> QED BY InitHolds, StepKeeps, PTL DEF Spec

\* The mission's row and its callers keep their types.
THEOREM MissionTypes == Spec => []TypeOK
  <1>1. IInv => TypeOK
    BY DEF IInv
  <1> QED BY <1>1, MissionInvariant, PTL

\* For any number of callers between a read and its update, the mission climbs
\* legal edges, ends once, and ends in an outcome only with the record for it
\* (MissionService.transition implements MissionLadder).
THEOREM MissionImplementsLadder == Spec => ImplementsLadder
  <1>1. [Ladder!Next]_<<state, record, checkable>> <=> [Ladder!Next]_Ladder!vars
    BY DEF Ladder!vars
  <1>2. IInv /\ [Next]_vars => [Ladder!Next]_Ladder!vars
    BY <1>1, StepKeeps
  <1>3. Init => Ladder!Init
    BY InitHolds
  <1> QED BY <1>2, <1>3, MissionInvariant, PTL DEF Spec, ImplementsLadder, Ladder!Spec

\* What is learned from a mission is how it ended, whoever records it.
THEOREM LearnedIsTrueAlways == Spec => []LearnedIsTrue
  <1>1. IInv => LearnedIsTrue
    BY DEF IInv
  <1> QED BY <1>1, MissionInvariant, PTL

-----------------------------------------------------------------------------
(* What the ladder means for the owner. *)

(***************************************************************************)
(* A mission is called verified only on evidence: an outcome of the         *)
(* verifier stands beside its record, a record beside its outcome, and      *)
(* VERIFIED_SUCCESS beside a supporting record of a contract that has a     *)
(* postcondition (_verify and the update in MissionService.transition).     *)
(***************************************************************************)
OutcomeIsEvidenced ==
  /\ record # "none" <=> state \in Outcomes
  /\ state = "VERIFIED_SUCCESS" => checkable /\ record = "supports"

\* No step of the ladder parts an outcome from its record.
LEMMA LadderKeepsEvidence ==
  ASSUME state \in States, OutcomeIsEvidenced, [Ladder!Next]_<<state, record, checkable>>
  PROVE  OutcomeIsEvidenced'
  <1>1. CASE Ladder!Move
    <2>1. state' \in Legal[state] \ Outcomes /\ record' = record /\ checkable' = checkable
      BY <1>1, SameData DEF Ladder!Move
    <2>2. state \notin Terminal
      BY <2>1, TerminalIsFinal
    <2>3. state \notin Outcomes /\ state' # "VERIFIED_SUCCESS"
      BY <2>1, <2>2 DEF Outcomes, Terminal
    <2> QED BY <2>1, <2>3 DEF OutcomeIsEvidenced
  <1>2. CASE Ladder!Conclude
    BY <1>2, SameData DEF Ladder!Conclude, OutcomeIsEvidenced
  <1>3. CASE UNCHANGED <<state, record, checkable>>
    BY <1>3 DEF OutcomeIsEvidenced
  <1> QED BY <1>1, <1>2, <1>3 DEF Ladder!Next

\* Whoever races whom, an outcome is the verifier's and never lacks its record.
THEOREM OutcomesAreEvidenced == Spec => []OutcomeIsEvidenced
  <1>1. Init => OutcomeIsEvidenced
    BY DEF Init, OutcomeIsEvidenced, Outcomes
  <1>2. IInv /\ OutcomeIsEvidenced /\ [Next]_vars => OutcomeIsEvidenced'
    BY StepKeeps, LadderKeepsEvidence, IInvMeans
  <1> QED BY <1>1, <1>2, MissionInvariant, PTL DEF Spec

(***************************************************************************)
(* The end of a mission is final: no late callback, cancellation, steering, *)
(* sweep or restart moves a finished mission or replaces its record, and    *)
(* what was learned from it never becomes untrue.                           *)
(***************************************************************************)
EndsAreFinal ==
  [][/\ state \in Terminal => UNCHANGED <<state, record>>
     /\ learned # "none" => learned = state']_vars

\* A terminal state has no edge and no outcome is concluded from it.
LEMMA LadderKeepsEnds ==
  ASSUME state \in Terminal, [Ladder!Next]_<<state, record, checkable>>
  PROVE  UNCHANGED <<state, record>>
  <1>1. CASE Ladder!Move
    BY <1>1, TerminalIsFinal, SameData DEF Ladder!Move
  <1>2. CASE Ladder!Conclude
    BY <1>2 DEF Ladder!Conclude, Terminal
  <1> QED BY <1>1, <1>2 DEF Ladder!Next

\* It holds of every step of every behaviour.
THEOREM MissionEndsAreFinal == Spec => EndsAreFinal
  <1> DEFINE Final == /\ state \in Terminal => UNCHANGED <<state, record>>
                      /\ learned # "none" => learned = state'
  <1>1. IInv /\ [Next]_vars => [Final]_vars
    <2> SUFFICES ASSUME IInv, [Next]_vars PROVE Final
      OBVIOUS
    <2>1. state \in Terminal => UNCHANGED <<state, record>>
      BY StepKeeps, LadderKeepsEnds
    <2>2. learned # "none" => learned = state /\ state \in Terminal
      BY DEF IInv, TypeOK, LearnedIsTrue
    <2> QED BY <2>1, <2>2
  <1>2. Spec => [][Final]_vars
    BY <1>1, MissionInvariant, PTL DEF Spec
  <1> QED BY <1>2 DEF EndsAreFinal

-----------------------------------------------------------------------------
(* What keeps an accepted command from hanging. *)

(***************************************************************************)
(* An owner who was told that a command was accepted was told so of a       *)
(* mission with a deadline, which the sweeper will find however the command *)
(* ends: also when the gateway dies between the update to RUNNING and       *)
(* set_deadline, an update of its own (the safety AcceptedEnds rests on).   *)
(***************************************************************************)
AcceptedIsTimed == accepted => deadline # "none"

\* The handler is past set_deadline.
Needs(task) ==
  \/ task.pc \in {"work", "answer"}
  \/ task.pc # "idle" /\ task.to \in Outcomes \cup {"VERIFYING"}

TimedInv ==
  /\ AcceptedIsTimed
  /\ Needs(tasks[Command]) => deadline # "none"

\* A step of one caller; the handler needs the deadline no sooner than it has it.
LEMMA TimedSet ==
  ASSUME IInv, TimedInv, NEW a \in Callers, NEW task, Set(a, task), UNCHANGED deadline,
         a = Command /\ Needs(task) => Needs(tasks[Command]),
         accepted' => accepted \/ Needs(tasks[Command])
  PROVE  TimedInv'
  <1>0. Command \in Callers /\ tasks \in [Callers -> Tasks]
    BY IInvMeans DEF Callers, Good
  <1>1. tasks'[Command] = IF a = Command THEN task ELSE tasks[Command]
    BY <1>0 DEF Set
  <1>2. CASE a = Command
    <2>1. Needs(tasks[Command]') => Needs(tasks[Command])
      BY <1>1, <1>2 DEF Needs
    <2> QED BY <2>1 DEF TimedInv, AcceptedIsTimed, Needs
  <1>3. CASE a # Command
    <2>1. tasks'[Command] = tasks[Command]
      BY <1>1, <1>3
    <2> QED BY <2>1 DEF TimedInv, AcceptedIsTimed, Needs
  <1> QED BY <1>2, <1>3

\* What Enter, Leave, Strict and Advance make of a caller.
LEMMA EntersNeedy ==
  ASSUME NEW a, NEW t
  PROVE  /\ Leave(a) => \E task : Set(a, task) /\ ~Needs(task)
         /\ Enter(a, t) => \E task : Set(a, task) /\ (Needs(task) => t \in Outcomes \cup {"VERIFYING"})
         /\ \A seen : Strict(a, t, seen) =>
              \E task : Set(a, task) /\ (Needs(task) => t \in Outcomes \cup {"VERIFYING"})
  <1>1. ~Needs(Idle)
    BY DEF Needs, Idle
  <1>2. Leave(a) => \E task : Set(a, task) /\ ~Needs(task)
    BY <1>1 DEF Leave
  <1>3. Enter(a, t) => \E task : Set(a, task) /\ (Needs(task) => t \in Outcomes \cup {"VERIFYING"})
    <2> DEFINE entered == [Idle EXCEPT !.pc = IF t \in Outcomes THEN "verify" ELSE "write",
                                       !.from = state, !.to = t, !.want = tasks[a].want]
    <2>1. entered.to = t /\ entered.pc \in {"verify", "write"}
      BY DEF Idle
    <2>2. Needs(entered) => t \in Outcomes \cup {"VERIFYING"}
      BY <2>1 DEF Needs
    <2>3. Enter(a, t) => Set(a, entered)
      BY DEF Enter
    <2> HIDE DEF entered
    <2> QED BY <2>2, <2>3
  <1> QED BY <1>2, <1>3 DEF Strict

LEMMA AdvanceNotNeedy ==
  ASSUME NEW t, t \notin Outcomes \cup {"VERIFYING"}, Advance(t)
  PROVE  \E task : Set(Command, task) /\ ~Needs(task)
  <1> DEFINE stay == [Idle EXCEPT !.pc = "ready", !.to = t, !.seen = state]
             there == [stay EXCEPT !.seen = t]
  <1>1. stay.to = t /\ there.to = t /\ stay.pc = "ready" /\ there.pc = "ready"
    BY DEF Idle
  <1>2. ~Needs(stay) /\ ~Needs(there)
    BY <1>1 DEF Needs
  <1> HIDE DEF stay, there
  <1>3. \/ Set(Command, stay) \/ Set(Command, there) \/ Leave(Command) \/ Enter(Command, t)
    BY DEF Advance, stay, there
  <1> QED BY <1>2, <1>3, EntersNeedy

\* The gate: the verifier, the update, the event, the second read.
LEMMA TransitionTimed ==
  ASSUME IInv, TimedInv, NEW a \in Callers, Transition(a)
  PROVE  TimedInv'
  <1>0. tasks[a] \in Tasks /\ Permitted(a, tasks[a]) /\ UNCHANGED <<deadline, accepted>>
    BY IInvMeans DEF Good, Transition, Verify, Write, Note, Settle, row
  <1>1. CASE Verify(a)
    <2>1. Needs(tasks[a])
      BY <1>0, <1>1 DEF Verify, At, Permitted, Needs
    <2>2. \E task : Set(a, task)
      BY <1>1 DEF Verify, Leave, Strict, Enter
    <2>3. a = Command => Needs(tasks[Command])
      BY <2>1
    <2> QED BY <1>0, <2>2, <2>3, TimedSet
  <1>2. CASE Write(a)
    <2> DEFINE task == [Idle EXCEPT !.pc = IF NamesRun(a) THEN "note" ELSE "settle",
                                    !.to = tasks[a].to, !.want = tasks[a].want]
    <2>1. task.to = tasks[a].to /\ task.pc \in {"note", "settle"} /\ tasks[a].pc = "write"
      BY <1>2 DEF Write, At, Idle
    <2>2. Needs(task) => Needs(tasks[a])
      BY <2>1 DEF Needs
    <2>3. Set(a, task)
      BY <1>2 DEF Write
    <2> HIDE DEF task
    <2> QED BY <1>0, <2>2, <2>3, TimedSet
  <1>3. CASE Note(a)
    <2> DEFINE task == [tasks[a] EXCEPT !.pc = "settle"]
    <2>1. task.to = tasks[a].to /\ task.pc = "settle" /\ tasks[a].pc = "note"
      BY <1>0, <1>3 DEF Note, At, Tasks
    <2>2. Needs(task) => Needs(tasks[a])
      BY <2>1 DEF Needs
    <2>3. Set(a, task)
      BY <1>3 DEF Note
    <2> HIDE DEF task
    <2> QED BY <1>0, <2>2, <2>3, TimedSet
  <1>4. CASE Settle(a)
    <2> DEFINE task == [tasks[a] EXCEPT !.pc = "ready", !.seen = state]
    <2>1. task.to = tasks[a].to /\ task.pc = "ready" /\ tasks[a].pc = "settle"
      BY <1>0, <1>4 DEF Settle, At, Tasks
    <2>2. Needs(task) => Needs(tasks[a])
      BY <2>1 DEF Needs
    <2>3. Set(a, task) \/ Leave(a)
      BY <1>4 DEF Settle
    <2> HIDE DEF task
    <2> QED BY <1>0, <2>2, <2>3, TimedSet, EntersNeedy
  <1> QED BY <1>1, <1>2, <1>3, <1>4 DEF Transition

\* The command's handler.
LEMMA HandlerTimed ==
  ASSUME IInv, TimedInv, Handler
  PROVE  TimedInv'
  <1>0. Command \in Callers /\ tasks \in [Callers -> Tasks] /\ tasks[Command] \in Tasks
    BY IInvMeans DEF Callers, Good
  <1>1. CASE Climb \/ Block \/ Start
    <2>1. UNCHANGED <<deadline, accepted>>
      BY <1>1 DEF Climb, Block, Start, row
    <2>2. \E t \in {"UNDERSTOOD", "PLANNED", "AUTHORIZED", "BLOCKED_POLICY", "RUNNING"} : Advance(t)
      BY <1>1 DEF Climb, Block, Start
    <2>3. \E task : Set(Command, task) /\ ~Needs(task)
      BY <2>2, AdvanceNotNeedy DEF Outcomes
    <2> QED BY <1>0, <2>1, <2>3, TimedSet
  <1>2. CASE Stall
    <2>1. UNCHANGED <<deadline, accepted>> /\ Leave(Command)
      BY <1>2 DEF Stall, row
    <2> QED BY <1>0, <2>1, TimedSet, EntersNeedy
  <1>3. CASE Delegate
    <2> DEFINE task == [tasks[Command] EXCEPT !.pc = "dispatched"]
    <2>1. task.to = "AUTHORIZED" /\ task.pc = "dispatched"
      BY <1>0, <1>3 DEF Delegate, Arrived, At, Tasks
    <2>2. ~Needs(task)
      BY <2>1 DEF Needs, Outcomes
    <2>3. UNCHANGED <<deadline, accepted>> /\ (Set(Command, task) \/ Leave(Command))
      BY <1>3 DEF Delegate, row
    <2> HIDE DEF task
    <2> QED BY <1>0, <2>2, <2>3, TimedSet, EntersNeedy
  <1>4. CASE DenyLocal
    <2>1. UNCHANGED <<deadline, accepted>>
      BY <1>4 DEF DenyLocal, row
    <2>2. \E t \in {"EXPIRED", "BLOCKED_POLICY"} : \E seen : Strict(Command, t, seen)
      BY <1>4 DEF DenyLocal
    <2>3. \E task : Set(Command, task) /\ ~Needs(task)
      BY <2>2, EntersNeedy DEF Outcomes
    <2> QED BY <1>0, <2>1, <2>3, TimedSet
  <1>5. CASE SetDeadline
    <2>1. deadline' = "armed"
      BY <1>5 DEF SetDeadline
    <2> QED BY <2>1 DEF TimedInv, AcceptedIsTimed
  <1>6. CASE Work
    <2>1. UNCHANGED <<deadline, accepted>> /\ Needs(tasks[Command])
      BY <1>6 DEF Work, row, At, Needs
    <2>2. \E task : Set(Command, task)
      BY <1>6 DEF Work, Strict, Enter, Leave
    <2> QED BY <1>0, <2>1, <2>2, TimedSet
  <1>7. CASE Answer
    <2>1. UNCHANGED deadline /\ Leave(Command)
      BY <1>7 DEF Answer, row
    <2>2. accepted' => accepted \/ Needs(tasks[Command])
      BY <1>7 DEF Answer, Arrived, At, Needs
    <2> QED BY <1>0, <2>1, <2>2, TimedSet, EntersNeedy
  <1> QED BY <1>1, <1>2, <1>3, <1>4, <1>5, <1>6, <1>7 DEF Handler

\* Hermes, the owner, the agent, the sweeper, the clock and a crash.
LEMMA OthersTimed ==
  ASSUME IInv, TimedInv,
         \/ \E a \in Callbacks \cup {Command} : Hermes(a)
         \/ Cancel \/ Steer \/ DeadlinePasses \/ Sweep \/ Crash
  PROVE  TimedInv'
  <1>0. Command \in Callers /\ tasks \in [Callers -> Tasks] /\ Idle.pc = "idle" /\ Idle.to = "CAPTURED"
    BY IInvMeans DEF Callers, Good, Idle
  <1>1. ASSUME NEW a \in Callers, a # Command, UNCHANGED <<deadline, accepted>>,
               \E task : Set(a, task)
        PROVE  TimedInv'
    BY <1>1, TimedSet
  <1>2. ASSUME NEW a \in Callbacks \cup {Command}, Conclude(a)
        PROVE  TimedInv'
    <2>1. UNCHANGED <<deadline, accepted>> /\ Needs(tasks[a]) /\ a \in Callers
      BY <1>2 DEF Conclude, row, At, Needs, Callers
    <2>2. \E task : Set(a, task)
      BY <1>2 DEF Conclude, Strict, Enter, Leave
    <2> QED BY <2>1, <2>2, TimedSet
  <1>3. ASSUME NEW a \in Callbacks, Report(a) \/ Resumed(a) \/ Reported(a)
        PROVE  TimedInv'
    <2>1. UNCHANGED <<deadline, accepted>> /\ a # Command /\ a \in Callers
      BY <1>3, MissionAssumption DEF Report, Resumed, Reported, row, Callers, MissionAssumption
    <2>2. \E task : Set(a, task)
      BY <1>3 DEF Report, Resumed, Reported, Project, Leave
    <2> QED BY <1>1, <2>1, <2>2
  <1>4. CASE \E a \in Callbacks \cup {Command} : Hermes(a)
    BY <1>2, <1>3, <1>4 DEF Hermes, Report, Resumed, Reported
  <1>5. ASSUME NEW a \in {Owner, Agent}, NEW t, Call(a, t)
        PROVE  TimedInv'
    <2>1. UNCHANGED <<deadline, accepted>> /\ a # Command /\ a \in Callers
      BY <1>5, MissionAssumption DEF Call, row, Callers, MissionAssumption
    <2>2. \E task : Set(a, task)
      BY <1>5 DEF Call, Enter
    <2> QED BY <1>1, <2>1, <2>2
  <1>6. CASE Sweep
    <2>1. UNCHANGED <<deadline, accepted>> /\ Sweeper # Command /\ Sweeper \in Callers
      BY <1>6, MissionAssumption DEF Sweep, row, Callers, MissionAssumption
    <2>2. \E task : Set(Sweeper, task)
      BY <1>6 DEF Sweep, Strict, Enter, Leave
    <2> QED BY <1>1, <2>1, <2>2
  <1>7. CASE DeadlinePasses
    BY <1>7 DEF DeadlinePasses, TimedInv, AcceptedIsTimed
  <1>8. CASE Crash
    <2>1. UNCHANGED <<deadline, accepted>> /\ tasks'[Command] = Idle
      BY <1>0, <1>8 DEF Crash, row
    <2>2. ~Needs(Idle)
      BY <1>0 DEF Needs
    <2> QED BY <2>1, <2>2 DEF TimedInv, AcceptedIsTimed, Needs
  <1> QED BY <1>4, <1>5, <1>6, <1>7, <1>8 DEF Cancel, Steer

\* "Accepted" is never told of a mission without a deadline.
THEOREM AcceptedIsTimedAlways == Spec => []AcceptedIsTimed
  <1>1. Init => TimedInv
    <2> SUFFICES ASSUME Init PROVE TimedInv
      OBVIOUS
    <2>1. tasks[Command] = [Idle EXCEPT !.pc = "ready"]
      BY DEF Init, Callers
    <2>2. tasks[Command].pc = "ready" /\ tasks[Command].to = "CAPTURED"
      BY <2>1 DEF Idle
    <2> QED BY <2>2 DEF Init, TimedInv, AcceptedIsTimed, Needs, Outcomes
  <1>2. IInv /\ TimedInv /\ [Next]_vars => TimedInv'
    <2> SUFFICES ASSUME IInv, TimedInv, [Next]_vars PROVE TimedInv'
      OBVIOUS
    <2>1. CASE UNCHANGED vars
      BY <2>1 DEF vars, TimedInv, AcceptedIsTimed, Needs
    <2> QED BY <2>1, TransitionTimed, HandlerTimed, OthersTimed DEF Next
  <1>3. TimedInv => AcceptedIsTimed
    BY DEF TimedInv
  <1> QED BY <1>1, <1>2, <1>3, MissionInvariant, PTL DEF Spec

=============================================================================
