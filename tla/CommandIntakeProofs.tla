------------------------- MODULE CommandIntakeProofs -------------------------
(***************************************************************************)
(* What CommandIntake guarantees for any number of requests, keys, handlers  *)
(* and challenges, whichever requests share a key or a proof.               *)
(***************************************************************************)
EXTENDS CommandIntakeImplements, TLAPS

\* The places of a handler behind the nonce check, and behind the approval.
PastNonce == {"gate", "mission", "create", "plan", "seal", "dispatch"}

PastGate == PastNonce \ {"gate"}

\* A handler that works has a request; only one that stores has an answer.
HandlerInv ==
  \A h \in Handlers :
    /\ jobs[h].pc # "idle" => jobs[h].of \in Envelopes
    /\ jobs[h].pc # "store" => jobs[h].answer = NoAnswer

\* Who works under a key, opened a mission or ran under it holds its row: the
\* request in the row is never replaced.
KeyInv ==
  /\ \A h \in Handlers :
       jobs[h].pc \in Working \cup {"reclaim"} => claims[Key(h)].by = jobs[h].of
  /\ \A e \in Envelopes : missions[e] > 0 \/ runs[e] > 0 => claims[KeyOf[e]].by = e
  /\ \A e \in Envelopes : missions[e] <= 1

\* A nonce lets one handler through, and a request runs behind it only.
NonceInv ==
  /\ \A h \in Handlers :
       jobs[h].pc \in PastNonce /\ jobs[h].of \in Nonced =>
         jobs[h].of \in consumed /\ runs[jobs[h].of] = 0
  /\ \A g, h \in Handlers :
       (/\ jobs[g].pc \in PastNonce /\ jobs[h].pc \in PastNonce
        /\ jobs[g].of = jobs[h].of /\ jobs[h].of \in Nonced) => g = h
  /\ \A e \in Nonced : runs[e] <= 1 /\ (e \notin consumed => runs[e] = 0)

\* Was this challenge spent for the request.
SpentFor(e) == ProofOf[e] # None /\ challenges[ProofOf[e]] = "gone"

\* A challenge lets one handler through; while it works nothing ran on the
\* challenge, and once it ran nobody else works on it.
ProofInv ==
  /\ \A h \in Handlers :
       jobs[h].pc \in PastGate /\ jobs[h].of \in Sensitive =>
         /\ SpentFor(jobs[h].of)
         /\ \A f \in Sensitive : ProofOf[f] = ProofOf[jobs[h].of] => runs[f] = 0
  /\ \A g, h \in Handlers :
       (/\ jobs[g].pc \in PastGate /\ jobs[h].pc \in PastGate
        /\ jobs[g].of \in Sensitive /\ jobs[h].of \in Sensitive
        /\ ProofOf[jobs[g].of] = ProofOf[jobs[h].of]) => g = h
  /\ ApprovalCarriesOne

\* "accepted" is only stored, and only told, for a request that ran.
AnswerInv ==
  /\ \A h \in Handlers :
       jobs[h].answer = "accepted" =>
         runs[jobs[h].of] > 0 /\ claims[Key(h)].by = jobs[h].of
  /\ \A k \in Keys :
       claims[k].answer = "accepted" => claims[k].by \in Envelopes /\ runs[claims[k].by] > 0
  /\ AcceptedIsTrue

IInv == TypeOK /\ HandlerInv /\ KeyInv /\ NonceInv /\ ProofInv /\ AnswerInv

-----------------------------------------------------------------------------
(* The initial state. *)

LEMMA InitHolds == ASSUME Init PROVE IInv
  <1>1. TypeOK
    BY IntakeAssumption DEF Init, TypeOK, Rows, Jobs, NoRow, Idle, IdempotencyStatus, Answers,
                            NoAnswer, Working
  <1>2. \A h \in Handlers : jobs[h] = Idle
    BY DEF Init
  <1>3. HandlerInv
    BY <1>2 DEF HandlerInv, Idle
  <1>4. KeyInv
    BY <1>2 DEF Init, KeyInv, Idle, Working
  <1>5. /\ \A h \in Handlers : jobs[h].pc \notin PastNonce
        /\ \A e \in Envelopes : runs[e] = 0
    BY <1>2 DEF Init, Idle, PastNonce
  <1>6. NonceInv
    BY <1>5, IntakeAssumption DEF NonceInv, IntakeAssumption
  <1>7. ProofInv
    BY <1>5, IntakeAssumption DEF ProofInv, ApprovalCarriesOne, PastGate, IntakeAssumption
  <1>8. AnswerInv
    BY <1>2 DEF Init, AnswerInv, AcceptedIsTrue, Idle, NoRow, NoAnswer
  <1> QED BY <1>1, <1>3, <1>4, <1>6, <1>7, <1>8 DEF IInv

-----------------------------------------------------------------------------
(* A handler moves on: where it is then, and that the others stay. *)

Places == Working \cup {"idle", "mismatch", "reclaim", "store"}

Typed == jobs \in [Handlers -> Jobs] /\ HandlerInv

Alone(h) == \A g \in Handlers \ {h} : jobs'[g] = jobs[g]

LEMMA GotoMeans ==
  ASSUME Typed, NEW h \in Handlers, NEW pc \in Places \ {"store", "idle"}, Goto(h, pc),
         jobs[h].pc \notin {"idle", "store"}
  PROVE  /\ Typed'
         /\ Alone(h)
         /\ jobs'[h].pc = pc /\ jobs'[h].of = jobs[h].of /\ jobs'[h].answer = NoAnswer
  <1>1. jobs[h] \in Jobs /\ jobs[h].of \in Envelopes /\ jobs[h].answer = NoAnswer
    BY DEF Typed, HandlerInv
  <1>2. jobs' = [jobs EXCEPT ![h] = [jobs[h] EXCEPT !.pc = pc]]
    BY DEF Goto
  <1>3. [jobs[h] EXCEPT !.pc = pc] \in Jobs
    BY <1>1 DEF Jobs, Places
  <1>4. jobs' \in [Handlers -> Jobs] /\ Alone(h) /\ jobs'[h] = [jobs[h] EXCEPT !.pc = pc]
    BY <1>2, <1>3 DEF Typed, Alone
  <1>5. jobs'[h].pc = pc /\ jobs'[h].of = jobs[h].of /\ jobs'[h].answer = NoAnswer
    BY <1>1, <1>4 DEF Jobs
  <1>6. HandlerInv'
    BY <1>1, <1>4, <1>5 DEF HandlerInv, Typed, Alone
  <1> QED BY <1>4, <1>5, <1>6 DEF Typed

LEMMA SettleMeans ==
  ASSUME Typed, NEW h \in Handlers, NEW answer \in Answers, NEW status \in IdempotencyStatus,
         Settle(h, answer, status), jobs[h].pc # "idle"
  PROVE  /\ Typed'
         /\ Alone(h)
         /\ jobs'[h].pc = "store" /\ jobs'[h].of = jobs[h].of /\ jobs'[h].answer = answer
  <1>1. jobs[h] \in Jobs /\ jobs[h].of \in Envelopes
    BY DEF Typed, HandlerInv
  <1> DEFINE j == [jobs[h] EXCEPT !.pc = "store", !.answer = answer, !.status = status]
  <1>2. jobs' = [jobs EXCEPT ![h] = j]
    BY DEF Settle
  <1>3. j \in Jobs /\ j.pc = "store" /\ j.of = jobs[h].of /\ j.answer = answer
    BY <1>1 DEF Jobs
  <1> HIDE DEF j
  <1>4. jobs' \in [Handlers -> Jobs] /\ Alone(h) /\ jobs'[h] = j
    BY <1>2, <1>3 DEF Typed, Alone
  <1>5. HandlerInv'
    BY <1>1, <1>3, <1>4 DEF HandlerInv, Typed, Alone
  <1> QED BY <1>3, <1>4, <1>5 DEF Typed

LEMMA TakeMeans ==
  ASSUME Typed, NEW h \in Handlers, NEW e \in Envelopes, NEW pc \in Places \ {"idle", "store"},
         Take(h, e, pc)
  PROVE  /\ Typed'
         /\ Alone(h)
         /\ jobs'[h].pc = pc /\ jobs'[h].of = e /\ jobs'[h].answer = NoAnswer
  <1> DEFINE j == [Idle EXCEPT !.pc = pc, !.of = e]
  <1>1. jobs' = [jobs EXCEPT ![h] = j]
    BY DEF Take
  <1>2. j \in Jobs /\ j.pc = pc /\ j.of = e /\ j.answer = NoAnswer
    BY DEF Jobs, Places, Idle
  <1> HIDE DEF j
  <1>3. jobs' \in [Handlers -> Jobs] /\ Alone(h) /\ jobs'[h] = j
    BY <1>1, <1>2 DEF Typed, Alone
  <1>4. HandlerInv'
    BY <1>2, <1>3 DEF HandlerInv, Typed, Alone
  <1> QED BY <1>2, <1>3, <1>4 DEF Typed

LEMMA LeaveMeans ==
  ASSUME Typed, NEW h \in Handlers, jobs' = [jobs EXCEPT ![h] = Idle]
  PROVE  /\ Typed'
         /\ Alone(h)
         /\ jobs'[h].pc = "idle" /\ jobs'[h].answer = NoAnswer
  <1>1. Idle \in Jobs /\ Idle.pc = "idle" /\ Idle.answer = NoAnswer
    BY DEF Idle, Jobs
  <1>2. jobs' \in [Handlers -> Jobs] /\ Alone(h) /\ jobs'[h] = Idle
    BY <1>1 DEF Typed, Alone
  <1>3. HandlerInv'
    BY <1>1, <1>2 DEF HandlerInv, Typed, Alone
  <1> QED BY <1>1, <1>2, <1>3 DEF Typed

LEMMA RejectMeans ==
  ASSUME Typed, NEW h \in Handlers, NEW e \in Envelopes, Reject(h, e)
  PROVE  /\ Typed'
         /\ Alone(h)
         /\ jobs'[h].pc = "store" /\ jobs'[h].of = e /\ jobs'[h].answer = "conflict"
  <1> DEFINE j == [pc |-> "store", of |-> e, answer |-> "conflict", status |-> "FAILED"]
  <1>1. jobs' = [jobs EXCEPT ![h] = j]
    BY DEF Reject
  <1>2. j \in Jobs /\ j.pc = "store" /\ j.of = e /\ j.answer = "conflict"
    BY DEF Jobs, Answers, IdempotencyStatus
  <1> HIDE DEF j
  <1>3. jobs' \in [Handlers -> Jobs] /\ Alone(h) /\ jobs'[h] = j
    BY <1>1, <1>2 DEF Typed, Alone
  <1>4. HandlerInv'
    BY <1>2, <1>3 DEF HandlerInv, Typed, Alone
  <1> QED BY <1>2, <1>3, <1>4 DEF Typed

-----------------------------------------------------------------------------
(* What a step of a handler does to what the invariants speak of. *)

\* Behind the nonce, or behind the approval, is only who was there or who has
\* just consumed the nonce, or spent the challenge.
Onward(h) ==
  /\ jobs'[h].pc \in PastNonce =>
       /\ jobs'[h].of = jobs[h].of
       /\ \/ jobs[h].pc \in PastNonce
          \/ jobs[h].of \in Nonced => jobs[h].of \notin consumed /\ jobs[h].of \in consumed'
  /\ jobs'[h].pc \in PastGate =>
       /\ jobs'[h].of = jobs[h].of
       /\ \/ jobs[h].pc \in PastGate
          \/ jobs[h].of \in Sensitive =>
               /\ ProofOf[jobs[h].of] # None
               /\ challenges[ProofOf[jobs[h].of]] = "open"
               /\ challenges'[ProofOf[jobs[h].of]] = "gone"

\* What is used up stays used up.
UsedUp ==
  /\ consumed \subseteq consumed'
  /\ \A e \in Envelopes : challenges[e] = "gone" => challenges'[e] = "gone"

\* Who works under a key is in its row, and who is in a row stays there; an
\* answer in a row was there, or is the one of this handler.
RowsKept(h) ==
  /\ jobs'[h].pc \in Working \cup {"reclaim"} => claims'[KeyOf[jobs'[h].of]].by = jobs'[h].of
  /\ \A k \in Keys : claims[k].by # None => claims'[k].by = claims[k].by
  /\ \A k \in Keys : claims'[k].answer = "accepted" =>
       \/ claims[k].answer = "accepted"
       \/ k = Key(h) /\ jobs[h].answer = "accepted"

\* Only the dispatch runs a request, and only the insert opens a mission.
Works(h) ==
  /\ \A e \in Envelopes :
       \/ runs'[e] = runs[e]
       \/ /\ e = jobs[h].of /\ jobs[h].pc = "dispatch" /\ jobs'[h].pc = "store"
          /\ runs'[e] = runs[e] + 1
  /\ \A e \in Envelopes :
       \/ missions'[e] = missions[e]
       \/ e = jobs[h].of /\ jobs[h].pc = "create" /\ missions[e] = 0 /\ missions'[e] = 1

\* A new "accepted" is the dispatch's; who is told so is told what the row or the
\* handler has.
Tells(h) ==
  /\ jobs'[h].answer = "accepted" =>
       jobs'[h].of = jobs[h].of /\ jobs[h].pc = "dispatch" /\ runs'[jobs[h].of] > 0
  /\ \A e \in Envelopes : <<e, "accepted">> \in told' =>
       \/ <<e, "accepted">> \in told
       \/ claims[KeyOf[e]].by = e /\ claims[KeyOf[e]].answer = "accepted"
       \/ e = jobs[h].of /\ jobs[h].answer = "accepted"

Moves(h) ==
  TypeOK' /\ HandlerInv' /\ Alone(h) /\ Onward(h) /\ UsedUp /\ RowsKept(h) /\ Works(h) /\ Tells(h)

LEMMA TypedMeans ==
  ASSUME TypeOK, HandlerInv
  PROVE  /\ Typed
         /\ \A h \in Handlers : /\ jobs[h] \in Jobs
                                /\ jobs[h].pc # "idle" =>
                                     jobs[h].of \in Envelopes /\ Key(h) \in Keys
         /\ \A k \in Keys : claims[k] \in Rows
  BY IntakeAssumption DEF TypeOK, HandlerInv, Typed, Key, Jobs, IntakeAssumption

LEMMA MarkConflictMoves ==
  ASSUME TypeOK, HandlerInv, KeyInv, NEW h \in Handlers, MarkConflict(h)
  PROVE  Moves(h)
  <1>1. /\ Typed /\ jobs[h] \in Jobs /\ jobs[h].of \in Envelopes /\ Key(h) \in Keys
        /\ \A k \in Keys : claims[k] \in Rows
    BY TypedMeans DEF MarkConflict, At
  <1>2. /\ Typed' /\ Alone(h)
        /\ jobs'[h].pc = "store" /\ jobs'[h].of = jobs[h].of /\ jobs'[h].answer = "conflict"
    BY <1>1, SettleMeans DEF MarkConflict, At, Answers, IdempotencyStatus
  <1>3. TypeOK' /\ HandlerInv'
    <2>1. claims' \in [Keys -> Rows]
      BY <1>1 DEF MarkConflict, Typed, TypeOK, Rows, IdempotencyStatus
    <2> QED BY <1>1, <1>2, <2>1 DEF MarkConflict, Typed, TypeOK, Answers, NoAnswer
  <1>4. Onward(h) /\ UsedUp
    BY <1>1, <1>2 DEF MarkConflict, At, Onward, UsedUp, PastNonce, PastGate
  <1>5. RowsKept(h)
    BY <1>1, <1>2 DEF MarkConflict, At, RowsKept, KeyInv, Key, Working, TypeOK, Rows, NoAnswer
  <1>6. Works(h) /\ Tells(h)
    BY <1>1, <1>2 DEF MarkConflict, At, Works, Tells, TypeOK, NoAnswer
  <1> QED BY <1>2, <1>3, <1>4, <1>5, <1>6 DEF Moves

LEMMA ReclaimMoves ==
  ASSUME TypeOK, HandlerInv, KeyInv, NEW h \in Handlers, Reclaim(h)
  PROVE  Moves(h)
  <1>1. /\ Typed /\ jobs[h] \in Jobs /\ jobs[h].of \in Envelopes /\ Key(h) \in Keys
        /\ \A k \in Keys : claims[k] \in Rows
    BY TypedMeans DEF Reclaim, At
  <1>2. /\ Typed' /\ Alone(h)
        /\ jobs'[h].pc = "vet" /\ jobs'[h].of = jobs[h].of /\ jobs'[h].answer = NoAnswer
    BY <1>1, GotoMeans DEF Reclaim, At, Places, Working
  <1>3. TypeOK' /\ HandlerInv'
    <2>1. claims' \in [Keys -> Rows]
      <3> DEFINE row == [claims[Key(h)] EXCEPT !.status = "IN_FLIGHT", !.stale = FALSE]
      <3>1. row \in Rows
        BY <1>1 DEF Rows, IdempotencyStatus
      <3>2. claims' = [claims EXCEPT ![Key(h)] = row]
        BY DEF Reclaim
      <3> HIDE DEF row
      <3> QED BY <1>1, <3>1, <3>2 DEF TypeOK
    <2> QED BY <1>1, <1>2, <2>1 DEF Reclaim, Typed, TypeOK
  <1>4. Onward(h) /\ UsedUp
    BY <1>1, <1>2 DEF Reclaim, At, Onward, UsedUp, PastNonce, PastGate
  <1>5. RowsKept(h)
    BY <1>1, <1>2 DEF Reclaim, At, RowsKept, KeyInv, Key, Working, TypeOK, Rows, NoAnswer
  <1>6. Works(h) /\ Tells(h)
    BY <1>1, <1>2 DEF Reclaim, At, Works, Tells, TypeOK, NoAnswer
  <1> QED BY <1>2, <1>3, <1>4, <1>5, <1>6 DEF Moves

LEMMA StoreMoves ==
  ASSUME TypeOK, HandlerInv, KeyInv, NEW h \in Handlers, Store(h)
  PROVE  Moves(h)
  <1>1. /\ Typed /\ jobs[h] \in Jobs /\ jobs[h].of \in Envelopes /\ Key(h) \in Keys
        /\ \A k \in Keys : claims[k] \in Rows
    BY TypedMeans DEF Store, At
  <1>2. /\ Typed' /\ Alone(h)
        /\ jobs'[h].pc = "idle" /\ jobs'[h].answer = NoAnswer
    BY <1>1, LeaveMeans DEF Store
  <1>3. TypeOK' /\ HandlerInv'
    <2>1. /\ jobs[h].status \in IdempotencyStatus \cup {"ABSENT"}
          /\ Readable(jobs[h].answer, jobs[h].status) \in Answers \cup {NoAnswer}
      BY <1>1 DEF Jobs, Readable
    <2>2. claims' \in [Keys -> Rows]
      <3> DEFINE row == [claims[Key(h)] EXCEPT !.status = jobs[h].status, !.stale = FALSE,
                                               !.answer = Readable(jobs[h].answer, jobs[h].status)]
      <3>1. row \in Rows
        BY <1>1, <2>1 DEF Rows
      <3>2. claims' = [claims EXCEPT ![Key(h)] = row]
        BY DEF Store
      <3> HIDE DEF row
      <3> QED BY <1>1, <3>1, <3>2 DEF TypeOK
    <2>3. told' \subseteq Envelopes \X Acted
      BY DEF Store, Respond, TypeOK
    <2> QED BY <1>1, <1>2, <2>2, <2>3 DEF Store, TypeOK, Typed
  <1>4. Onward(h) /\ UsedUp
    BY <1>1, <1>2 DEF Store, At, Onward, UsedUp, PastNonce, PastGate
  <1>5. RowsKept(h)
    BY <1>1, <1>2
       DEF Store, Respond, Readable, At, RowsKept, KeyInv, Key, Working, TypeOK, Rows, NoAnswer
  <1>6. Works(h) /\ Tells(h)
    BY <1>1, <1>2 DEF Store, Respond, Readable, At, Works, Tells, TypeOK, NoAnswer
  <1> QED BY <1>2, <1>3, <1>4, <1>5, <1>6 DEF Moves

LEMMA RefuseSenderMoves ==
  ASSUME TypeOK, HandlerInv, KeyInv, NEW h \in Handlers, RefuseSender(h)
  PROVE  Moves(h)
  <1>1. /\ Typed /\ jobs[h] \in Jobs /\ jobs[h].of \in Envelopes /\ Key(h) \in Keys
        /\ \A k \in Keys : claims[k] \in Rows
    BY TypedMeans DEF RefuseSender, At
  <1>2. /\ Typed' /\ Alone(h)
        /\ jobs'[h].pc = "store" /\ jobs'[h].of = jobs[h].of /\ jobs'[h].answer = "refused"
    BY <1>1, SettleMeans DEF RefuseSender, At, Answers, IdempotencyStatus
  <1>3. TypeOK' /\ HandlerInv'
    BY <1>1, <1>2 DEF RefuseSender, Typed, TypeOK, Rows, IdempotencyStatus, Answers, NoAnswer
  <1>4. Onward(h) /\ UsedUp
    BY <1>1, <1>2 DEF RefuseSender, At, Onward, UsedUp, PastNonce, PastGate
  <1>5. RowsKept(h)
    BY <1>1, <1>2 DEF RefuseSender, At, RowsKept, KeyInv, Key, Working, TypeOK, Rows, NoAnswer
  <1>6. Works(h) /\ Tells(h)
    BY <1>1, <1>2 DEF RefuseSender, At, Works, Tells, TypeOK, NoAnswer
  <1> QED BY <1>2, <1>3, <1>4, <1>5, <1>6 DEF Moves

LEMMA RefuseIntentMoves ==
  ASSUME TypeOK, HandlerInv, KeyInv, NEW h \in Handlers, RefuseIntent(h)
  PROVE  Moves(h)
  <1>1. /\ Typed /\ jobs[h] \in Jobs /\ jobs[h].of \in Envelopes /\ Key(h) \in Keys
        /\ \A k \in Keys : claims[k] \in Rows
    BY TypedMeans DEF RefuseIntent, At
  <1>2. /\ Typed' /\ Alone(h)
        /\ jobs'[h].pc = "store" /\ jobs'[h].of = jobs[h].of /\ jobs'[h].answer = "refused"
    BY <1>1, SettleMeans DEF RefuseIntent, At, Answers, IdempotencyStatus
  <1>3. TypeOK' /\ HandlerInv'
    BY <1>1, <1>2 DEF RefuseIntent, Typed, TypeOK, Rows, IdempotencyStatus, Answers, NoAnswer
  <1>4. Onward(h) /\ UsedUp
    BY <1>1, <1>2 DEF RefuseIntent, At, Onward, UsedUp, PastNonce, PastGate
  <1>5. RowsKept(h)
    BY <1>1, <1>2 DEF RefuseIntent, At, RowsKept, KeyInv, Key, Working, TypeOK, Rows, NoAnswer
  <1>6. Works(h) /\ Tells(h)
    BY <1>1, <1>2 DEF RefuseIntent, At, Works, Tells, TypeOK, NoAnswer
  <1> QED BY <1>2, <1>3, <1>4, <1>5, <1>6 DEF Moves

LEMMA StopBeforeSealMoves ==
  ASSUME TypeOK, HandlerInv, KeyInv, NEW h \in Handlers, StopBeforeSeal(h)
  PROVE  Moves(h)
  <1>1. /\ Typed /\ jobs[h] \in Jobs /\ jobs[h].of \in Envelopes /\ Key(h) \in Keys
        /\ \A k \in Keys : claims[k] \in Rows
    BY TypedMeans DEF StopBeforeSeal, At
  <1>2. /\ Typed' /\ Alone(h)
        /\ jobs'[h].pc = "store" /\ jobs'[h].of = jobs[h].of /\ jobs'[h].answer = "refused"
    BY <1>1, SettleMeans DEF StopBeforeSeal, At, Answers, IdempotencyStatus
  <1>3. TypeOK' /\ HandlerInv'
    BY <1>1, <1>2 DEF StopBeforeSeal, Typed, TypeOK, Rows, IdempotencyStatus, Answers, NoAnswer
  <1>4. Onward(h) /\ UsedUp
    BY <1>1, <1>2 DEF StopBeforeSeal, At, Onward, UsedUp, PastNonce, PastGate
  <1>5. RowsKept(h)
    BY <1>1, <1>2 DEF StopBeforeSeal, At, RowsKept, KeyInv, Key, Working, TypeOK, Rows, NoAnswer
  <1>6. Works(h) /\ Tells(h)
    BY <1>1, <1>2 DEF StopBeforeSeal, At, Works, Tells, TypeOK, NoAnswer
  <1> QED BY <1>2, <1>3, <1>4, <1>5, <1>6 DEF Moves

LEMMA WriteSealMoves ==
  ASSUME TypeOK, HandlerInv, KeyInv, NEW h \in Handlers, WriteSeal(h)
  PROVE  Moves(h)
  <1>1. /\ Typed /\ jobs[h] \in Jobs /\ jobs[h].of \in Envelopes /\ Key(h) \in Keys
        /\ \A k \in Keys : claims[k] \in Rows
    BY TypedMeans DEF WriteSeal, At
  <1>2. /\ Typed' /\ Alone(h)
        /\ jobs'[h].pc = "dispatch" /\ jobs'[h].of = jobs[h].of /\ jobs'[h].answer = NoAnswer
    BY <1>1, GotoMeans DEF WriteSeal, At, Places, Working
  <1>3. TypeOK' /\ HandlerInv'
    BY <1>1, <1>2 DEF WriteSeal, Typed, TypeOK, Rows, IdempotencyStatus, Answers, NoAnswer
  <1>4. Onward(h) /\ UsedUp
    BY <1>1, <1>2 DEF WriteSeal, At, Onward, UsedUp, PastNonce, PastGate
  <1>5. RowsKept(h)
    BY <1>1, <1>2 DEF WriteSeal, At, RowsKept, KeyInv, Key, Working, TypeOK, Rows, NoAnswer
  <1>6. Works(h) /\ Tells(h)
    BY <1>1, <1>2 DEF WriteSeal, At, Works, Tells, TypeOK, NoAnswer
  <1> QED BY <1>2, <1>3, <1>4, <1>5, <1>6 DEF Moves

LEMMA DispatchMoves ==
  ASSUME TypeOK, HandlerInv, KeyInv, NEW h \in Handlers, Dispatch(h)
  PROVE  Moves(h)
  <1>1. /\ Typed /\ jobs[h] \in Jobs /\ jobs[h].of \in Envelopes /\ Key(h) \in Keys
        /\ \A k \in Keys : claims[k] \in Rows
    BY TypedMeans DEF Dispatch, At
  <1>2. /\ Typed' /\ Alone(h)
        /\ jobs'[h].pc = "store" /\ jobs'[h].of = jobs[h].of /\ jobs'[h].answer = "accepted"
    BY <1>1, SettleMeans DEF Dispatch, At, Answers, IdempotencyStatus
  <1>3. TypeOK' /\ HandlerInv'
    BY <1>1, <1>2 DEF Dispatch, Typed, TypeOK, Rows, IdempotencyStatus, Answers, NoAnswer
  <1>4. Onward(h) /\ UsedUp
    BY <1>1, <1>2 DEF Dispatch, At, Onward, UsedUp, PastNonce, PastGate
  <1>5. RowsKept(h)
    BY <1>1, <1>2 DEF Dispatch, At, RowsKept, KeyInv, Key, Working, TypeOK, Rows, NoAnswer
  <1>6. Works(h) /\ Tells(h)
    BY <1>1, <1>2 DEF Dispatch, At, Works, Tells, TypeOK, NoAnswer
  <1> QED BY <1>2, <1>3, <1>4, <1>5, <1>6 DEF Moves

LEMMA RefuseDispatchMoves ==
  ASSUME TypeOK, HandlerInv, KeyInv, NEW h \in Handlers, RefuseDispatch(h)
  PROVE  Moves(h)
  <1>1. /\ Typed /\ jobs[h] \in Jobs /\ jobs[h].of \in Envelopes /\ Key(h) \in Keys
        /\ \A k \in Keys : claims[k] \in Rows
    BY TypedMeans DEF RefuseDispatch, At
  <1>2. /\ Typed' /\ Alone(h)
        /\ jobs'[h].pc = "store" /\ jobs'[h].of = jobs[h].of /\ jobs'[h].answer = "refused"
    BY <1>1, SettleMeans DEF RefuseDispatch, At, Answers, IdempotencyStatus
  <1>3. TypeOK' /\ HandlerInv'
    BY <1>1, <1>2 DEF RefuseDispatch, Typed, TypeOK, Rows, IdempotencyStatus, Answers, NoAnswer
  <1>4. Onward(h) /\ UsedUp
    BY <1>1, <1>2 DEF RefuseDispatch, At, Onward, UsedUp, PastNonce, PastGate
  <1>5. RowsKept(h)
    BY <1>1, <1>2 DEF RefuseDispatch, At, RowsKept, KeyInv, Key, Working, TypeOK, Rows, NoAnswer
  <1>6. Works(h) /\ Tells(h)
    BY <1>1, <1>2 DEF RefuseDispatch, At, Works, Tells, TypeOK, NoAnswer
  <1> QED BY <1>2, <1>3, <1>4, <1>5, <1>6 DEF Moves

LEMMA HandlerDiesMoves ==
  ASSUME TypeOK, HandlerInv, KeyInv, NEW h \in Handlers, HandlerDies(h)
  PROVE  Moves(h)
  <1>1. /\ Typed /\ jobs[h] \in Jobs /\ jobs[h].of \in Envelopes /\ Key(h) \in Keys
        /\ \A k \in Keys : claims[k] \in Rows
    BY TypedMeans DEF HandlerDies, At
  <1>2. /\ Typed' /\ Alone(h)
        /\ jobs'[h].pc = "idle" /\ jobs'[h].answer = NoAnswer
    BY <1>1, LeaveMeans DEF HandlerDies
  <1>3. TypeOK' /\ HandlerInv'
    BY <1>1, <1>2 DEF HandlerDies, Typed, TypeOK, Rows, IdempotencyStatus, Answers, NoAnswer
  <1>4. Onward(h) /\ UsedUp
    BY <1>1, <1>2 DEF HandlerDies, At, Onward, UsedUp, PastNonce, PastGate
  <1>5. RowsKept(h)
    BY <1>1, <1>2 DEF HandlerDies, At, RowsKept, KeyInv, Key, Working, TypeOK, Rows, NoAnswer
  <1>6. Works(h) /\ Tells(h)
    BY <1>1, <1>2 DEF HandlerDies, At, Works, Tells, TypeOK, NoAnswer
  <1> QED BY <1>2, <1>3, <1>4, <1>5, <1>6 DEF Moves

LEMMA CheckNonceMoves ==
  ASSUME TypeOK, HandlerInv, KeyInv, NEW h \in Handlers, CheckNonce(h)
  PROVE  Moves(h)
  <1>1. /\ Typed /\ jobs[h] \in Jobs /\ jobs[h].of \in Envelopes /\ Key(h) \in Keys
        /\ \A k \in Keys : claims[k] \in Rows
    BY TypedMeans DEF CheckNonce, At
  <1>2. CASE ~HasNonce(jobs[h].of) /\ Goto(h, "gate") /\ UNCHANGED consumed
    <2>1. /\ Typed' /\ Alone(h)
          /\ jobs'[h].pc = "gate" /\ jobs'[h].of = jobs[h].of /\ jobs'[h].answer = NoAnswer
      BY <1>1, <1>2, GotoMeans DEF CheckNonce, At, Places, Working
    <2>2. TypeOK' /\ HandlerInv'
      BY <1>1, <1>2, <2>1, IntakeAssumption
         DEF CheckNonce, Typed, TypeOK, IntakeAssumption, Consume, HasNonce
    <2>3. Onward(h) /\ UsedUp
      BY <1>1, <1>2, <2>1
         DEF CheckNonce, At, Onward, UsedUp, PastNonce, PastGate, TypeOK, Consume, HasNonce
    <2>4. RowsKept(h)
      BY <1>1, <1>2, <2>1 DEF CheckNonce, At, RowsKept, KeyInv, Key, Working
    <2>5. Works(h) /\ Tells(h)
      BY <1>1, <1>2, <2>1 DEF CheckNonce, At, Works, Tells, TypeOK, NoAnswer
    <2> QED BY <2>1, <2>2, <2>3, <2>4, <2>5 DEF Moves
  <1>3. CASE HasNonce(jobs[h].of) /\ Consume(jobs[h].of) /\ Goto(h, "gate")
    <2>1. /\ Typed' /\ Alone(h)
          /\ jobs'[h].pc = "gate" /\ jobs'[h].of = jobs[h].of /\ jobs'[h].answer = NoAnswer
      BY <1>1, <1>3, GotoMeans DEF CheckNonce, At, Places, Working
    <2>2. TypeOK' /\ HandlerInv'
      BY <1>1, <1>3, <2>1, IntakeAssumption
         DEF CheckNonce, Typed, TypeOK, IntakeAssumption, Consume, HasNonce
    <2>3. Onward(h) /\ UsedUp
      BY <1>1, <1>3, <2>1
         DEF CheckNonce, At, Onward, UsedUp, PastNonce, PastGate, TypeOK, Consume, HasNonce
    <2>4. RowsKept(h)
      BY <1>1, <1>3, <2>1 DEF CheckNonce, At, RowsKept, KeyInv, Key, Working
    <2>5. Works(h) /\ Tells(h)
      BY <1>1, <1>3, <2>1 DEF CheckNonce, At, Works, Tells, TypeOK, NoAnswer
    <2> QED BY <2>1, <2>2, <2>3, <2>4, <2>5 DEF Moves
  <1>4. CASE /\ HasNonce(jobs[h].of) /\ Replayed(jobs[h].of)
             /\ Settle(h, "refused", "COMPLETED")
             /\ UNCHANGED consumed
    <2>1. /\ Typed' /\ Alone(h)
          /\ jobs'[h].pc = "store" /\ jobs'[h].of = jobs[h].of /\ jobs'[h].answer = "refused"
      BY <1>1, <1>4, SettleMeans DEF CheckNonce, At, Answers, IdempotencyStatus
    <2>2. TypeOK' /\ HandlerInv'
      BY <1>1, <1>4, <2>1, IntakeAssumption
         DEF CheckNonce, Typed, TypeOK, IntakeAssumption, Consume, HasNonce
    <2>3. Onward(h) /\ UsedUp
      BY <1>1, <1>4, <2>1
         DEF CheckNonce, At, Onward, UsedUp, PastNonce, PastGate, TypeOK, Consume, HasNonce
    <2>4. RowsKept(h)
      BY <1>1, <1>4, <2>1 DEF CheckNonce, At, RowsKept, KeyInv, Key, Working
    <2>5. Works(h) /\ Tells(h)
      BY <1>1, <1>4, <2>1 DEF CheckNonce, At, Works, Tells, TypeOK, NoAnswer
    <2> QED BY <2>1, <2>2, <2>3, <2>4, <2>5 DEF Moves
  <1> QED BY <1>2, <1>3, <1>4 DEF CheckNonce, HasNonce, Consume, Replayed

LEMMA GateMoves ==
  ASSUME TypeOK, HandlerInv, KeyInv, NEW h \in Handlers, Gate(h)
  PROVE  Moves(h)
  <1>1. /\ Typed /\ jobs[h] \in Jobs /\ jobs[h].of \in Envelopes /\ Key(h) \in Keys
        /\ \A k \in Keys : claims[k] \in Rows
    BY TypedMeans DEF Gate, At
  <1>2. CASE jobs[h].of \notin Sensitive /\ Goto(h, "mission") /\ UNCHANGED challenges
    <2>1. /\ Typed' /\ Alone(h)
          /\ jobs'[h].pc = "mission" /\ jobs'[h].of = jobs[h].of /\ jobs'[h].answer = NoAnswer
      BY <1>1, <1>2, GotoMeans DEF Gate, At, Places, Working
    <2>2. TypeOK' /\ HandlerInv'
      BY <1>1, <1>2, <2>1, IntakeAssumption
         DEF Gate, Typed, TypeOK, IntakeAssumption, ChallengeOpen
    <2>3. Onward(h) /\ UsedUp
      BY <1>1, <1>2, <2>1, IntakeAssumption
         DEF Gate, At, Onward, UsedUp, PastNonce, PastGate, TypeOK, ChallengeOpen,
             IntakeAssumption
    <2>4. RowsKept(h)
      BY <1>1, <1>2, <2>1 DEF Gate, At, RowsKept, KeyInv, Key, Working
    <2>5. Works(h) /\ Tells(h)
      BY <1>1, <1>2, <2>1 DEF Gate, At, Works, Tells, TypeOK, NoAnswer
    <2> QED BY <2>1, <2>2, <2>3, <2>4, <2>5 DEF Moves
  <1>3. CASE /\ jobs[h].of \in Sensitive
           /\ challenges' = [challenges EXCEPT ![jobs[h].of] = IF @ = "none" THEN "open" ELSE @]
           /\ Settle(h, "approval_required", "COMPLETED")
    <2>1. /\ Typed' /\ Alone(h)
          /\ jobs'[h].pc = "store" /\ jobs'[h].of = jobs[h].of
          /\ jobs'[h].answer = "approval_required"
      BY <1>1, <1>3, SettleMeans DEF Gate, At, Answers, IdempotencyStatus
    <2>2. TypeOK' /\ HandlerInv'
      BY <1>1, <1>3, <2>1, IntakeAssumption
         DEF Gate, Typed, TypeOK, IntakeAssumption, ChallengeOpen
    <2>3. Onward(h) /\ UsedUp
      BY <1>1, <1>3, <2>1, IntakeAssumption
         DEF Gate, At, Onward, UsedUp, PastNonce, PastGate, TypeOK, ChallengeOpen,
             IntakeAssumption
    <2>4. RowsKept(h)
      BY <1>1, <1>3, <2>1 DEF Gate, At, RowsKept, KeyInv, Key, Working
    <2>5. Works(h) /\ Tells(h)
      BY <1>1, <1>3, <2>1 DEF Gate, At, Works, Tells, TypeOK, NoAnswer
    <2> QED BY <2>1, <2>2, <2>3, <2>4, <2>5 DEF Moves
  <1>4. CASE /\ jobs[h].of \in Sensitive /\ ProofOf[jobs[h].of] # None
           /\ ChallengeOpen(ProofOf[jobs[h].of])
           /\ challenges' = [challenges EXCEPT ![ProofOf[jobs[h].of]] = "gone"]
           /\ Goto(h, "mission")
    <2>1. /\ Typed' /\ Alone(h)
          /\ jobs'[h].pc = "mission" /\ jobs'[h].of = jobs[h].of /\ jobs'[h].answer = NoAnswer
      BY <1>1, <1>4, GotoMeans DEF Gate, At, Places, Working
    <2>2. TypeOK' /\ HandlerInv'
      BY <1>1, <1>4, <2>1, IntakeAssumption
         DEF Gate, Typed, TypeOK, IntakeAssumption, ChallengeOpen
    <2>a. ProofOf[jobs[h].of] \in Envelopes
      BY <1>1, <1>4, IntakeAssumption DEF IntakeAssumption
    <2>b. /\ challenges[ProofOf[jobs[h].of]] = "open" /\ challenges'[ProofOf[jobs[h].of]] = "gone"
          /\ \A e \in Envelopes : challenges[e] = "gone" => challenges'[e] = "gone"
      BY <1>4, <2>a DEF ChallengeOpen, TypeOK
    <2>3. Onward(h) /\ UsedUp
      BY <1>1, <1>4, <2>1, <2>b DEF Gate, At, Onward, UsedUp, PastNonce, PastGate
    <2>4. RowsKept(h)
      BY <1>1, <1>4, <2>1 DEF Gate, At, RowsKept, KeyInv, Key, Working
    <2>5. Works(h) /\ Tells(h)
      BY <1>1, <1>4, <2>1 DEF Gate, At, Works, Tells, TypeOK, NoAnswer
    <2> QED BY <2>1, <2>2, <2>3, <2>4, <2>5 DEF Moves
  <1>5. CASE Settle(h, "refused", "COMPLETED") /\ UNCHANGED challenges
    <2>1. /\ Typed' /\ Alone(h)
          /\ jobs'[h].pc = "store" /\ jobs'[h].of = jobs[h].of /\ jobs'[h].answer = "refused"
      BY <1>1, <1>5, SettleMeans DEF Gate, At, Answers, IdempotencyStatus
    <2>2. TypeOK' /\ HandlerInv'
      BY <1>1, <1>5, <2>1, IntakeAssumption
         DEF Gate, Typed, TypeOK, IntakeAssumption, ChallengeOpen
    <2>3. Onward(h) /\ UsedUp
      BY <1>1, <1>5, <2>1, IntakeAssumption
         DEF Gate, At, Onward, UsedUp, PastNonce, PastGate, TypeOK, ChallengeOpen,
             IntakeAssumption
    <2>4. RowsKept(h)
      BY <1>1, <1>5, <2>1 DEF Gate, At, RowsKept, KeyInv, Key, Working
    <2>5. Works(h) /\ Tells(h)
      BY <1>1, <1>5, <2>1 DEF Gate, At, Works, Tells, TypeOK, NoAnswer
    <2> QED BY <2>1, <2>2, <2>3, <2>4, <2>5 DEF Moves
  <1> QED BY <1>2, <1>3, <1>4, <1>5 DEF Gate, SpendChallenge, ChallengeOpen

LEMMA FindMissionMoves ==
  ASSUME TypeOK, HandlerInv, KeyInv, NEW h \in Handlers, FindMission(h)
  PROVE  Moves(h)
  <1>1. /\ Typed /\ jobs[h] \in Jobs /\ jobs[h].of \in Envelopes /\ Key(h) \in Keys
        /\ \A k \in Keys : claims[k] \in Rows
    BY TypedMeans DEF FindMission, At
  <1>2. CASE Goto(h, "create")
    <2>1. /\ Typed' /\ Alone(h)
          /\ jobs'[h].pc = "create" /\ jobs'[h].of = jobs[h].of /\ jobs'[h].answer = NoAnswer
      BY <1>1, <1>2, GotoMeans DEF FindMission, At, Places, Working
    <2>2. TypeOK' /\ HandlerInv'
      BY <1>1, <1>2, <2>1, IntakeAssumption DEF FindMission, Typed, TypeOK, IntakeAssumption
    <2>3. Onward(h) /\ UsedUp
      BY <1>1, <1>2, <2>1 DEF FindMission, At, Onward, UsedUp, PastNonce, PastGate, TypeOK
    <2>4. RowsKept(h)
      BY <1>1, <1>2, <2>1 DEF FindMission, At, RowsKept, KeyInv, Key, Working
    <2>5. Works(h) /\ Tells(h)
      BY <1>1, <1>2, <2>1 DEF FindMission, At, Works, Tells, TypeOK, NoAnswer
    <2> QED BY <2>1, <2>2, <2>3, <2>4, <2>5 DEF Moves
  <1>3. CASE Goto(h, "plan")
    <2>1. /\ Typed' /\ Alone(h)
          /\ jobs'[h].pc = "plan" /\ jobs'[h].of = jobs[h].of /\ jobs'[h].answer = NoAnswer
      BY <1>1, <1>3, GotoMeans DEF FindMission, At, Places, Working
    <2>2. TypeOK' /\ HandlerInv'
      BY <1>1, <1>3, <2>1, IntakeAssumption DEF FindMission, Typed, TypeOK, IntakeAssumption
    <2>3. Onward(h) /\ UsedUp
      BY <1>1, <1>3, <2>1 DEF FindMission, At, Onward, UsedUp, PastNonce, PastGate, TypeOK
    <2>4. RowsKept(h)
      BY <1>1, <1>3, <2>1 DEF FindMission, At, RowsKept, KeyInv, Key, Working
    <2>5. Works(h) /\ Tells(h)
      BY <1>1, <1>3, <2>1 DEF FindMission, At, Works, Tells, TypeOK, NoAnswer
    <2> QED BY <2>1, <2>2, <2>3, <2>4, <2>5 DEF Moves
  <1>4. CASE jobs' = [jobs EXCEPT ![h] = Idle]
    <2>1. Typed' /\ Alone(h) /\ jobs'[h].pc = "idle" /\ jobs'[h].answer = NoAnswer
      BY <1>1, <1>4, LeaveMeans DEF FindMission, At
    <2>2. TypeOK' /\ HandlerInv'
      BY <1>1, <1>4, <2>1, IntakeAssumption DEF FindMission, Typed, TypeOK, IntakeAssumption
    <2>3. Onward(h) /\ UsedUp
      BY <1>1, <1>4, <2>1 DEF FindMission, At, Onward, UsedUp, PastNonce, PastGate, TypeOK
    <2>4. RowsKept(h)
      BY <1>1, <1>4, <2>1 DEF FindMission, At, RowsKept, KeyInv, Key, Working
    <2>5. Works(h) /\ Tells(h)
      BY <1>1, <1>4, <2>1 DEF FindMission, At, Works, Tells, TypeOK, NoAnswer
    <2> QED BY <2>1, <2>2, <2>3, <2>4, <2>5 DEF Moves
  <1> QED BY <1>2, <1>3, <1>4 DEF FindMission

LEMMA OpenMissionMoves ==
  ASSUME TypeOK, HandlerInv, KeyInv, NEW h \in Handlers, OpenMission(h)
  PROVE  Moves(h)
  <1>1. /\ Typed /\ jobs[h] \in Jobs /\ jobs[h].of \in Envelopes /\ Key(h) \in Keys
        /\ \A k \in Keys : claims[k] \in Rows
    BY TypedMeans DEF OpenMission, At
  <1>2. CASE /\ missions[jobs[h].of] = 0
           /\ missions' = [missions EXCEPT ![jobs[h].of] = @ + 1]
           /\ Goto(h, "plan")
    <2>1. /\ Typed' /\ Alone(h)
          /\ jobs'[h].pc = "plan" /\ jobs'[h].of = jobs[h].of /\ jobs'[h].answer = NoAnswer
      BY <1>1, <1>2, GotoMeans DEF OpenMission, At, Places, Working
    <2>2. TypeOK' /\ HandlerInv'
      BY <1>1, <1>2, <2>1, IntakeAssumption DEF OpenMission, Typed, TypeOK, IntakeAssumption
    <2>3. Onward(h) /\ UsedUp
      BY <1>1, <1>2, <2>1 DEF OpenMission, At, Onward, UsedUp, PastNonce, PastGate, TypeOK
    <2>4. RowsKept(h)
      BY <1>1, <1>2, <2>1 DEF OpenMission, At, RowsKept, KeyInv, Key, Working
    <2>5. Works(h) /\ Tells(h)
      BY <1>1, <1>2, <2>1 DEF OpenMission, At, Works, Tells, TypeOK, NoAnswer
    <2> QED BY <2>1, <2>2, <2>3, <2>4, <2>5 DEF Moves
  <1>3. CASE jobs' = [jobs EXCEPT ![h] = Idle] /\ UNCHANGED missions
    <2>1. Typed' /\ Alone(h) /\ jobs'[h].pc = "idle" /\ jobs'[h].answer = NoAnswer
      BY <1>1, <1>3, LeaveMeans DEF OpenMission, At
    <2>2. TypeOK' /\ HandlerInv'
      BY <1>1, <1>3, <2>1, IntakeAssumption DEF OpenMission, Typed, TypeOK, IntakeAssumption
    <2>3. Onward(h) /\ UsedUp
      BY <1>1, <1>3, <2>1 DEF OpenMission, At, Onward, UsedUp, PastNonce, PastGate, TypeOK
    <2>4. RowsKept(h)
      BY <1>1, <1>3, <2>1 DEF OpenMission, At, RowsKept, KeyInv, Key, Working
    <2>5. Works(h) /\ Tells(h)
      BY <1>1, <1>3, <2>1 DEF OpenMission, At, Works, Tells, TypeOK, NoAnswer
    <2> QED BY <2>1, <2>2, <2>3, <2>4, <2>5 DEF Moves
  <1> QED BY <1>2, <1>3 DEF OpenMission, Unopened

LEMMA ReadSealMoves ==
  ASSUME TypeOK, HandlerInv, KeyInv, NEW h \in Handlers, ReadSeal(h)
  PROVE  Moves(h)
  <1>1. /\ Typed /\ jobs[h] \in Jobs /\ jobs[h].of \in Envelopes /\ Key(h) \in Keys
        /\ \A k \in Keys : claims[k] \in Rows
    BY TypedMeans DEF ReadSeal, At
  <1>2. CASE Settle(h, "refused", "COMPLETED")
    <2>1. /\ Typed' /\ Alone(h)
          /\ jobs'[h].pc = "store" /\ jobs'[h].of = jobs[h].of /\ jobs'[h].answer = "refused"
      BY <1>1, <1>2, SettleMeans DEF ReadSeal, At, Answers, IdempotencyStatus
    <2>2. TypeOK' /\ HandlerInv'
      BY <1>1, <1>2, <2>1, IntakeAssumption DEF ReadSeal, Typed, TypeOK, IntakeAssumption
    <2>3. Onward(h) /\ UsedUp
      BY <1>1, <1>2, <2>1 DEF ReadSeal, At, Onward, UsedUp, PastNonce, PastGate, TypeOK
    <2>4. RowsKept(h)
      BY <1>1, <1>2, <2>1 DEF ReadSeal, At, RowsKept, KeyInv, Key, Working
    <2>5. Works(h) /\ Tells(h)
      BY <1>1, <1>2, <2>1 DEF ReadSeal, At, Works, Tells, TypeOK, NoAnswer
    <2> QED BY <2>1, <2>2, <2>3, <2>4, <2>5 DEF Moves
  <1>3. CASE Goto(h, "seal")
    <2>1. /\ Typed' /\ Alone(h)
          /\ jobs'[h].pc = "seal" /\ jobs'[h].of = jobs[h].of /\ jobs'[h].answer = NoAnswer
      BY <1>1, <1>3, GotoMeans DEF ReadSeal, At, Places, Working
    <2>2. TypeOK' /\ HandlerInv'
      BY <1>1, <1>3, <2>1, IntakeAssumption DEF ReadSeal, Typed, TypeOK, IntakeAssumption
    <2>3. Onward(h) /\ UsedUp
      BY <1>1, <1>3, <2>1 DEF ReadSeal, At, Onward, UsedUp, PastNonce, PastGate, TypeOK
    <2>4. RowsKept(h)
      BY <1>1, <1>3, <2>1 DEF ReadSeal, At, RowsKept, KeyInv, Key, Working
    <2>5. Works(h) /\ Tells(h)
      BY <1>1, <1>3, <2>1 DEF ReadSeal, At, Works, Tells, TypeOK, NoAnswer
    <2> QED BY <2>1, <2>2, <2>3, <2>4, <2>5 DEF Moves
  <1> QED BY <1>2, <1>3 DEF ReadSeal

LEMMA DispatchFailsMoves ==
  ASSUME TypeOK, HandlerInv, KeyInv, NEW h \in Handlers, DispatchFails(h)
  PROVE  Moves(h)
  <1>1. /\ Typed /\ jobs[h] \in Jobs /\ jobs[h].of \in Envelopes /\ Key(h) \in Keys
        /\ \A k \in Keys : claims[k] \in Rows
    BY TypedMeans DEF DispatchFails, At
  <1>2. CASE Settle(h, "refused", "COMPLETED")
    <2>1. /\ Typed' /\ Alone(h)
          /\ jobs'[h].pc = "store" /\ jobs'[h].of = jobs[h].of /\ jobs'[h].answer = "refused"
      BY <1>1, <1>2, SettleMeans DEF DispatchFails, At, Answers, IdempotencyStatus
    <2>2. TypeOK' /\ HandlerInv'
      BY <1>1, <1>2, <2>1, IntakeAssumption DEF DispatchFails, Typed, TypeOK, IntakeAssumption
    <2>3. Onward(h) /\ UsedUp
      BY <1>1, <1>2, <2>1 DEF DispatchFails, At, Onward, UsedUp, PastNonce, PastGate, TypeOK
    <2>4. RowsKept(h)
      BY <1>1, <1>2, <2>1 DEF DispatchFails, At, RowsKept, KeyInv, Key, Working
    <2>5. Works(h) /\ Tells(h)
      BY <1>1, <1>2, <2>1 DEF DispatchFails, At, Works, Tells, TypeOK, NoAnswer
    <2> QED BY <2>1, <2>2, <2>3, <2>4, <2>5 DEF Moves
  <1>3. CASE Settle(h, "refused", "FAILED")
    <2>1. /\ Typed' /\ Alone(h)
          /\ jobs'[h].pc = "store" /\ jobs'[h].of = jobs[h].of /\ jobs'[h].answer = "refused"
      BY <1>1, <1>3, SettleMeans DEF DispatchFails, At, Answers, IdempotencyStatus
    <2>2. TypeOK' /\ HandlerInv'
      BY <1>1, <1>3, <2>1, IntakeAssumption DEF DispatchFails, Typed, TypeOK, IntakeAssumption
    <2>3. Onward(h) /\ UsedUp
      BY <1>1, <1>3, <2>1 DEF DispatchFails, At, Onward, UsedUp, PastNonce, PastGate, TypeOK
    <2>4. RowsKept(h)
      BY <1>1, <1>3, <2>1 DEF DispatchFails, At, RowsKept, KeyInv, Key, Working
    <2>5. Works(h) /\ Tells(h)
      BY <1>1, <1>3, <2>1 DEF DispatchFails, At, Works, Tells, TypeOK, NoAnswer
    <2> QED BY <2>1, <2>2, <2>3, <2>4, <2>5 DEF Moves
  <1> QED BY <1>2, <1>3 DEF DispatchFails

\* A request arrives: the key is taken, or the request turned away, or answered.
LEMMA BeginMoves ==
  ASSUME TypeOK, HandlerInv, KeyInv, NEW h \in Handlers, NEW e \in Envelopes, Begin(h, e)
  PROVE  Moves(h)
  <1> DEFINE k == KeyOf[e]
             row == claims[k]
  <1>1. /\ Typed /\ k \in Keys /\ row \in Rows /\ jobs[h].pc = "idle"
        /\ jobs[h].answer = NoAnswer
    BY TypedMeans, IntakeAssumption DEF Begin, At, IntakeAssumption, HandlerInv
  <1>2. UNCHANGED <<consumed, challenges, missions, blocked, sealed, runs, signed>>
    BY DEF Begin
  <1>3. UsedUp
    BY <1>2 DEF UsedUp
  <1>4. CASE Take(h, e, "vet") /\ UNCHANGED told
    <2>1. /\ Typed' /\ Alone(h)
          /\ jobs'[h].pc = "vet" /\ jobs'[h].of = e /\ jobs'[h].answer = NoAnswer
      BY <1>1, <1>4, TakeMeans DEF Places, Working
    <2>2. ASSUME row = NoRow,
                 claims' = [claims EXCEPT ![k] = [NoRow EXCEPT !.status = "IN_FLIGHT", !.by = e]]
          PROVE  claims' \in [Keys -> Rows] /\ RowsKept(h)
      <3>1. [NoRow EXCEPT !.status = "IN_FLIGHT", !.by = e] \in Rows
        BY DEF NoRow, Rows, NoAnswer, IdempotencyStatus
      <3>2. claims' \in [Keys -> Rows]
        BY <2>2, <3>1 DEF TypeOK
      <3>3. RowsKept(h)
        BY <1>1, <2>1, <2>2, <3>1 DEF RowsKept, NoRow, NoAnswer, TypeOK, Rows
      <3> QED BY <3>2, <3>3
    <2>3. ASSUME Abandoned(e, row), claims' = [claims EXCEPT ![k].stale = FALSE]
          PROVE  claims' \in [Keys -> Rows] /\ RowsKept(h)
      BY <1>1, <2>1, <2>3 DEF RowsKept, NoAnswer, TypeOK, Rows, Abandoned
    <2>4. claims' \in [Keys -> Rows] /\ RowsKept(h)
      <3>1. \/ /\ row = NoRow
               /\ claims' = [claims EXCEPT ![k] = [NoRow EXCEPT !.status = "IN_FLIGHT", !.by = e]]
            \/ Abandoned(e, row) /\ claims' = [claims EXCEPT ![k].stale = FALSE]
            \/ Verdict(h, e, row)
        BY DEF Begin
      <3>2. ~Verdict(h, e, row)
        <4>1. ASSUME NEW pc \in Places \ {"idle", "store", "vet"}, Take(h, e, pc) PROVE FALSE
          BY <1>1, <2>1, <4>1, TakeMeans
        <4>2. ~Reject(h, e)
          BY <1>1, <2>1, RejectMeans
        <4>3. ~UNCHANGED jobs
          BY <1>1, <2>1
        <4> QED BY <4>1, <4>2, <4>3 DEF Verdict, Places, Working
      <3> QED BY <2>2, <2>3, <3>1, <3>2
    <2>5. Onward(h) /\ Works(h) /\ Tells(h)
      BY <1>2, <1>4, <2>1 DEF Onward, Works, Tells, PastNonce, PastGate, NoAnswer
    <2> QED BY <1>2, <1>3, <1>4, <2>1, <2>4, <2>5 DEF Moves, Typed, TypeOK
  <1>5. CASE UNCHANGED claims /\ Verdict(h, e, row)
    <2>1. /\ Typed' /\ Alone(h) /\ jobs'[h].answer # "accepted"
          /\ jobs'[h].pc \notin PastNonce \cup PastGate
          /\ jobs'[h].pc \in Working \cup {"reclaim"} => jobs'[h].of = e /\ SameRequest(e, row)
      <3>1. CASE ~SameRequest(e, row) /\ Take(h, e, "mismatch")
        BY <1>1, <3>1, TakeMeans DEF Places, Working, PastNonce, PastGate, NoAnswer
      <3>2. CASE UNCHANGED jobs
        BY <1>1, <3>2 DEF Typed, HandlerInv, Alone, NoAnswer, Working, PastNonce, PastGate
      <3>3. CASE Reject(h, e)
        BY <1>1, <3>3, RejectMeans DEF Working, PastNonce, PastGate
      <3>4. CASE SameRequest(e, row) /\ Take(h, e, "reclaim")
        BY <1>1, <3>4, TakeMeans DEF Places, Working, PastNonce, PastGate, NoAnswer
      <3> QED BY <1>5, <3>1, <3>2, <3>3, <3>4 DEF Verdict
    <2>2. \/ UNCHANGED told
          \/ SameRequest(e, row) /\ \E a \in {row.answer, "in_flight"} : Respond(e, a)
      BY <1>5 DEF Verdict
    <2>3. told' \subseteq Envelopes \X Acted
      BY <2>2 DEF Respond, TypeOK
    <2>4. TypeOK' /\ HandlerInv'
      BY <1>2, <1>5, <2>1, <2>3 DEF TypeOK, Typed
    <2>5. RowsKept(h)
      BY <1>5, <2>1 DEF RowsKept, SameRequest
    <2>6. Onward(h) /\ Works(h)
      BY <1>2, <2>1 DEF Onward, Works
    <2>7. Tells(h)
      BY <2>1, <2>2 DEF Tells, Respond, SameRequest
    <2> QED BY <1>3, <2>1, <2>4, <2>5, <2>6, <2>7 DEF Moves
  <1> QED BY <1>4, <1>5 DEF Begin

LEMMA HandleMoves ==
  ASSUME TypeOK, HandlerInv, KeyInv, NEW h \in Handlers, Handle(h)
  PROVE  Moves(h)
  <1>1. ASSUME NEW e \in signed, Begin(h, e)
        PROVE  Moves(h)
    <2>1. e \in Envelopes
      BY IntakeAssumption DEF TypeOK, IntakeAssumption
    <2> QED BY <1>1, <2>1, BeginMoves
  <1> QED
    BY <1>1, MarkConflictMoves, ReclaimMoves, StoreMoves, RefuseSenderMoves, CheckNonceMoves,
       RefuseIntentMoves, GateMoves, FindMissionMoves, OpenMissionMoves, StopBeforeSealMoves,
       ReadSealMoves, WriteSealMoves, DispatchMoves, RefuseDispatchMoves, DispatchFailsMoves,
       HandlerDiesMoves
       DEF Handle

-----------------------------------------------------------------------------
(* A handler's step preserves each part. *)

LEMMA KeyKept ==
  ASSUME TypeOK, HandlerInv, KeyInv, NEW h \in Handlers, Moves(h)
  PROVE  KeyInv'
  <1> USE IntakeAssumption DEF IntakeAssumption
  <1>1. \A k \in Keys : claims[k].by # None => claims'[k].by = claims[k].by
    BY DEF Moves, RowsKept
  <1>2. ASSUME NEW g \in Handlers, jobs'[g].pc \in Working \cup {"reclaim"}
        PROVE  claims'[KeyOf[jobs'[g].of]].by = jobs'[g].of
    <2>1. CASE g = h
      BY <1>2, <2>1 DEF Moves, RowsKept
    <2>2. CASE g # h
      <3>1. jobs'[g] = jobs[g]
        BY <2>2 DEF Moves, Alone
      <3>2. jobs[g].of \in Envelopes /\ claims[KeyOf[jobs[g].of]].by = jobs[g].of
        BY <1>2, <3>1 DEF KeyInv, Key, HandlerInv, Working
      <3> QED BY <1>1, <3>1, <3>2
    <2> QED BY <2>1, <2>2
  <1>3. ASSUME NEW e \in Envelopes, missions'[e] > 0 \/ runs'[e] > 0
        PROVE  claims'[KeyOf[e]].by = e
    <2>1. claims[KeyOf[e]].by = e
      <3>1. CASE missions[e] > 0 \/ runs[e] > 0
        BY <3>1 DEF KeyInv
      <3>2. CASE ~(missions[e] > 0 \/ runs[e] > 0)
        <4>1. e = jobs[h].of /\ jobs[h].pc \in {"dispatch", "create"}
          BY <1>3, <3>2 DEF Moves, Works
        <4> QED BY <4>1 DEF KeyInv, Key, Working
      <3> QED BY <3>1, <3>2
    <2> QED BY <1>1, <2>1
  <1>4. ASSUME NEW e \in Envelopes
        PROVE  missions'[e] <= 1
    BY DEF Moves, Works, KeyInv
  <1> QED BY <1>2, <1>3, <1>4 DEF KeyInv, Key

LEMMA NonceKept ==
  ASSUME IInv, NEW h \in Handlers, Moves(h)
  PROVE  NonceInv'
  <1>1. /\ \A g \in Handlers \ {h} : jobs'[g] = jobs[g]
        /\ consumed \subseteq consumed'
    BY DEF Moves, Alone, UsedUp
  <1>2. jobs'[h].pc \in PastNonce =>
          /\ jobs'[h].of = jobs[h].of
          /\ \/ jobs[h].pc \in PastNonce
             \/ jobs[h].of \in Nonced => jobs[h].of \notin consumed /\ jobs[h].of \in consumed'
    BY DEF Moves, Onward
  <1>3. \A e \in Envelopes :
          \/ runs'[e] = runs[e]
          \/ /\ e = jobs[h].of /\ jobs[h].pc = "dispatch" /\ jobs'[h].pc = "store"
             /\ runs'[e] = runs[e] + 1
    BY DEF Moves, Works
  <1>4. Nonced \subseteq Envelopes
    BY IntakeAssumption DEF IntakeAssumption
  <1>5. NonceInv
    BY DEF IInv
  <1>6. ASSUME NEW g \in Handlers, jobs'[g].pc \in PastNonce, jobs'[g].of \in Nonced
        PROVE  jobs'[g].of \in consumed' /\ runs'[jobs'[g].of] = 0
    <2>1. jobs'[g].of \in consumed' /\ runs[jobs'[g].of] = 0
      BY <1>1, <1>2, <1>5, <1>6 DEF NonceInv
    <2>2. runs'[jobs'[g].of] = runs[jobs'[g].of]
      <3>1. CASE g = h
        BY <1>3, <1>4, <1>6, <3>1 DEF PastNonce
      <3>2. CASE g # h
        BY <1>1, <1>3, <1>4, <1>5, <1>6, <3>2 DEF NonceInv, PastNonce
      <3> QED BY <3>1, <3>2
    <2> QED BY <2>1, <2>2
  <1>7. ASSUME NEW f \in Handlers, NEW g \in Handlers,
               jobs'[f].pc \in PastNonce, jobs'[g].pc \in PastNonce,
               jobs'[f].of = jobs'[g].of, jobs'[g].of \in Nonced
        PROVE  f = g
    BY <1>1, <1>2, <1>5, <1>7 DEF NonceInv
  <1>8. ASSUME NEW e \in Nonced
        PROVE  runs'[e] <= 1 /\ (e \notin consumed' => runs'[e] = 0)
    <2>1. CASE runs'[e] = runs[e]
      BY <1>1, <1>5, <2>1 DEF NonceInv
    <2>2. CASE runs'[e] # runs[e]
      <3>1. e = jobs[h].of /\ jobs[h].pc \in PastNonce /\ runs'[e] = runs[e] + 1
        BY <1>3, <1>4, <2>2 DEF PastNonce
      <3>2. e \in consumed /\ runs[e] = 0
        BY <1>5, <3>1 DEF NonceInv
      <3> QED BY <1>1, <3>1, <3>2
    <2> QED BY <2>1, <2>2
  <1> QED BY <1>6, <1>7, <1>8 DEF NonceInv

LEMMA ProofKept ==
  ASSUME IInv, NEW h \in Handlers, Moves(h)
  PROVE  ProofInv'
  <1>1. \A g \in Handlers \ {h} : jobs'[g] = jobs[g]
    BY DEF Moves, Alone
  <1>2. jobs'[h].pc \in PastGate =>
          /\ jobs'[h].of = jobs[h].of
          /\ \/ jobs[h].pc \in PastGate
             \/ jobs[h].of \in Sensitive =>
                  /\ ProofOf[jobs[h].of] # None
                  /\ challenges[ProofOf[jobs[h].of]] = "open"
                  /\ challenges'[ProofOf[jobs[h].of]] = "gone"
    BY DEF Moves, Onward
  <1>3. \A e \in Envelopes :
          \/ runs'[e] = runs[e]
          \/ /\ e = jobs[h].of /\ jobs[h].pc = "dispatch" /\ jobs'[h].pc = "store"
             /\ runs'[e] = runs[e] + 1
    BY DEF Moves, Works
  <1>4. /\ \A e \in Sensitive : e \in Envelopes /\ ProofOf[e] \in Envelopes \cup {None}
        /\ \A e \in Envelopes : runs[e] \in Nat
    BY IntakeAssumption DEF IntakeAssumption, IInv, TypeOK
  <1>5. ProofInv
    BY DEF IInv
  <1>6. \A e \in Sensitive : SpentFor(e) => SpentFor(e)'
    BY <1>4 DEF SpentFor, Moves, UsedUp
  \* While a challenge is open nothing ran on it and nobody works on it.
  <1>7. \A e, f \in Sensitive :
          /\ ProofOf[f] = ProofOf[e] /\ ProofOf[e] # None /\ challenges[ProofOf[e]] = "open"
          => ~(runs[f] > 0)
    BY <1>5 DEF ProofInv, ApprovalCarriesOne
  <1>8. ASSUME NEW g \in Handlers, NEW e \in Sensitive, jobs'[g].pc \in PastGate, jobs'[g].of = e
        PROVE  /\ SpentFor(e)'
               /\ \A f \in Sensitive : ProofOf[f] = ProofOf[e] => runs'[f] = 0
    <2>1. /\ SpentFor(e)'
          /\ \A f \in Sensitive : ProofOf[f] = ProofOf[e] => runs[f] = 0
      <3>1. CASE jobs[g].pc \in PastGate /\ jobs[g].of = e
        BY <1>5, <1>6, <3>1 DEF ProofInv
      <3>2. CASE g = h /\ jobs[h].pc \notin PastGate
        <4>1. /\ jobs[h].of = e /\ ProofOf[e] # None
              /\ challenges[ProofOf[e]] = "open" /\ challenges'[ProofOf[e]] = "gone"
          BY <1>2, <1>8, <3>2
        <4>2. ASSUME NEW f \in Sensitive, ProofOf[f] = ProofOf[e]
              PROVE  runs[f] = 0
          BY <1>4, <1>7, <4>1, <4>2
        <4> QED BY <4>1, <4>2 DEF SpentFor
      <3> QED BY <1>1, <1>2, <1>8, <3>1, <3>2
    <2>2. ASSUME NEW f \in Sensitive, ProofOf[f] = ProofOf[e], runs'[f] # runs[f]
          PROVE  FALSE
      <3>1. f = jobs[h].of /\ jobs[h].pc \in PastGate /\ g # h
        BY <1>3, <1>4, <1>8, <2>2 DEF PastGate, PastNonce
      <3>2. jobs[g].pc \in PastGate /\ jobs[g].of = e
        BY <1>1, <1>8, <3>1
      <3> QED BY <1>5, <2>2, <3>1, <3>2 DEF ProofInv
    <2> QED BY <2>1, <2>2
  <1>9. ASSUME NEW f \in Handlers, NEW g \in Handlers,
               jobs'[f].pc \in PastGate, jobs'[g].pc \in PastGate,
               jobs'[f].of \in Sensitive, jobs'[g].of \in Sensitive,
               ProofOf[jobs'[f].of] = ProofOf[jobs'[g].of], f # g
        PROVE  FALSE
    <2>1. ASSUME NEW i \in Handlers, i # h, jobs'[i].pc \in PastGate, jobs'[i].of \in Sensitive,
                 jobs'[h].pc \in PastGate, jobs'[h].of \in Sensitive,
                 ProofOf[jobs'[i].of] = ProofOf[jobs'[h].of]
          PROVE  FALSE
      <3>1. /\ jobs[i].pc \in PastGate /\ jobs[i].of = jobs'[i].of /\ jobs'[h].of = jobs[h].of
            /\ SpentFor(jobs[i].of)
        BY <1>1, <1>2, <1>5, <2>1 DEF ProofInv
      <3>2. jobs[h].pc \in PastGate
        BY <1>2, <2>1, <3>1 DEF SpentFor
      <3> QED BY <1>5, <2>1, <3>1, <3>2 DEF ProofInv
    <2>2. CASE f # h /\ g # h
      BY <1>1, <1>5, <1>9, <2>2 DEF ProofInv
    <2> QED BY <1>9, <2>1, <2>2
  <1>10. ASSUME NEW e \in Sensitive, runs'[e] > 0
         PROVE  /\ SpentFor(e)'
                /\ \A f \in Sensitive \ {e} : ProofOf[f] = ProofOf[e] => runs'[f] = 0
    <2>1. CASE runs'[e] = runs[e]
      <3>1. /\ SpentFor(e)
            /\ \A f \in Sensitive \ {e} : ProofOf[f] = ProofOf[e] => runs[f] = 0
        BY <1>5, <1>10, <2>1 DEF ProofInv, ApprovalCarriesOne, SpentFor
      <3>2. ASSUME NEW f \in Sensitive \ {e}, ProofOf[f] = ProofOf[e], runs'[f] # runs[f]
            PROVE  FALSE
        <4>1. f = jobs[h].of /\ jobs[h].pc \in PastGate
          BY <1>3, <1>4, <3>2 DEF PastGate, PastNonce
        <4>2. runs[e] = 0
          BY <1>5, <3>2, <4>1 DEF ProofInv
        <4> QED BY <1>10, <2>1, <4>2
      <3> QED BY <1>6, <3>1, <3>2
    <2>2. CASE runs'[e] # runs[e]
      <3>1. e = jobs[h].of /\ jobs[h].pc \in PastGate
        BY <1>3, <1>4, <2>2 DEF PastGate, PastNonce
      <3>2. /\ SpentFor(e)
            /\ \A f \in Sensitive : ProofOf[f] = ProofOf[e] => runs[f] = 0
        BY <1>5, <3>1 DEF ProofInv
      <3> QED BY <1>3, <1>4, <1>6, <3>1, <3>2
    <2> QED BY <2>1, <2>2
  <1>11. ApprovalCarriesOne'
    BY <1>10 DEF ApprovalCarriesOne, SpentFor
  <1>12. \A g \in Handlers :
           jobs'[g].pc \in PastGate /\ jobs'[g].of \in Sensitive =>
             /\ ProofOf[jobs'[g].of] # None /\ challenges'[ProofOf[jobs'[g].of]] = "gone"
             /\ \A f \in Sensitive : ProofOf[f] = ProofOf[jobs'[g].of] => runs'[f] = 0
    BY <1>8 DEF SpentFor
  <1> QED BY <1>9, <1>11, <1>12 DEF ProofInv, SpentFor

LEMMA AnswerKept ==
  ASSUME IInv, NEW h \in Handlers, Moves(h)
  PROVE  AnswerInv'
  <1> USE IntakeAssumption DEF IntakeAssumption
  <1>1. /\ \A g \in Handlers \ {h} : jobs'[g] = jobs[g]
        /\ \A k \in Keys : claims[k].by # None => claims'[k].by = claims[k].by
    BY DEF Moves, Alone, RowsKept
  <1>2. \A e \in Envelopes : runs[e] > 0 => runs'[e] > 0
    <2>1. ASSUME NEW e \in Envelopes, runs[e] > 0
          PROVE  runs'[e] > 0
      <3>1. runs[e] \in Nat /\ (runs'[e] = runs[e] \/ runs'[e] = runs[e] + 1)
        BY DEF Moves, Works, IInv, TypeOK
      <3> QED BY <2>1, <3>1
    <2> QED BY <2>1
  <1>3. AnswerInv /\ KeyInv /\ HandlerInv /\ KeyInv'
    BY KeyKept DEF IInv
  <1>4. \A g \in Handlers : jobs[g].answer = "accepted" =>
          /\ jobs[g].of \in Envelopes /\ Key(g) \in Keys
          /\ runs[jobs[g].of] > 0 /\ claims[Key(g)].by = jobs[g].of
    BY <1>3 DEF AnswerInv, HandlerInv, Key, NoAnswer
  <1>5. ASSUME NEW g \in Handlers, jobs'[g].answer = "accepted"
        PROVE  runs'[jobs'[g].of] > 0 /\ claims'[KeyOf[jobs'[g].of]].by = jobs'[g].of
    <2>1. CASE g = h
      <3>1. jobs'[h].of = jobs[h].of /\ jobs[h].pc = "dispatch" /\ runs'[jobs[h].of] > 0
        BY <1>5, <2>1 DEF Moves, Tells
      <3>2. jobs[h].of \in Envelopes
        BY <1>3, <3>1 DEF HandlerInv
      <3>3. claims'[KeyOf[jobs[h].of]].by = jobs[h].of
        BY <1>3, <3>1, <3>2 DEF KeyInv
      <3> QED BY <2>1, <3>1, <3>3
    <2>2. CASE g # h
      BY <1>1, <1>2, <1>4, <1>5, <2>2 DEF Key
    <2> QED BY <2>1, <2>2
  <1>6. ASSUME NEW k \in Keys, claims'[k].answer = "accepted"
        PROVE  claims'[k].by \in Envelopes /\ runs'[claims'[k].by] > 0
    <2>1. \/ claims[k].answer = "accepted"
          \/ k = Key(h) /\ jobs[h].answer = "accepted"
      BY <1>6 DEF Moves, RowsKept
    <2>2. claims[k].by \in Envelopes /\ runs[claims[k].by] > 0
      BY <1>3, <1>4, <2>1 DEF AnswerInv
    <2> QED BY <1>1, <1>2, <2>2
  <1>7. ASSUME NEW e \in Envelopes, <<e, "accepted">> \in told'
        PROVE  runs'[e] > 0
    <2>1. \/ <<e, "accepted">> \in told
          \/ claims[KeyOf[e]].by = e /\ claims[KeyOf[e]].answer = "accepted"
          \/ e = jobs[h].of /\ jobs[h].answer = "accepted"
      BY <1>7 DEF Moves, Tells
    <2>2. runs[e] > 0
      BY <1>3, <1>4, <2>1 DEF AnswerInv, AcceptedIsTrue
    <2> QED BY <1>2, <2>2
  <1> QED BY <1>5, <1>6, <1>7 DEF AnswerInv, AcceptedIsTrue, Key

-----------------------------------------------------------------------------
(* The clock's steps, and the theorems. *)

LEMMA ClaimGrowsOldKeeps ==
  ASSUME IInv, NEW k \in Keys, ClaimGrowsOld(k)
  PROVE  IInv'
  <1>1. /\ TypeOK /\ HandlerInv /\ KeyInv /\ NonceInv /\ ProofInv /\ AnswerInv
        /\ UNCHANGED <<consumed, challenges, missions, blocked, sealed, runs, jobs, told, signed>>
    BY DEF IInv, ClaimGrowsOld
  <1>2. /\ claims' \in [Keys -> Rows]
        /\ \A l \in Keys : claims'[l].by = claims[l].by /\ claims'[l].answer = claims[l].answer
    BY <1>1 DEF ClaimGrowsOld, TypeOK, Rows
  <1>3. TypeOK' /\ HandlerInv'
    BY <1>1, <1>2 DEF TypeOK, HandlerInv
  <1>4. \A h \in Handlers : jobs[h].pc # "idle" => Key(h) \in Keys
    BY <1>1, TypedMeans
  <1>5. KeyInv'
    BY <1>1, <1>2, <1>4, IntakeAssumption DEF KeyInv, Key, Working, IntakeAssumption
  <1>6. NonceInv' /\ ProofInv'
    BY <1>1 DEF NonceInv, ProofInv, SpentFor, ApprovalCarriesOne
  <1>7. AnswerInv'
    <2>1. \A h \in Handlers : jobs[h].answer = "accepted" => Key(h) \in Keys
      BY <1>1, <1>4 DEF HandlerInv, NoAnswer
    <2>2. \A h \in Handlers : jobs[h].answer = "accepted" =>
            runs[jobs[h].of] > 0 /\ claims'[Key(h)].by = jobs[h].of
      BY <1>1, <1>2, <2>1 DEF AnswerInv
    <2>3. \A l \in Keys : claims'[l].answer = "accepted" =>
            claims'[l].by \in Envelopes /\ runs[claims'[l].by] > 0
      BY <1>1, <1>2 DEF AnswerInv
    <2> QED BY <1>1, <2>2, <2>3 DEF AnswerInv, AcceptedIsTrue, Key
  <1> QED BY <1>3, <1>5, <1>6, <1>7 DEF IInv

LEMMA ChallengeExpiresKeeps ==
  ASSUME IInv, NEW e \in Envelopes, ChallengeExpires(e)
  PROVE  IInv'
  <1>1. /\ TypeOK /\ HandlerInv /\ KeyInv /\ NonceInv /\ ProofInv /\ AnswerInv
        /\ UNCHANGED <<claims, consumed, missions, blocked, sealed, runs, jobs, told, signed>>
    BY DEF IInv, ChallengeExpires
  <1>2. /\ challenges' \in [Envelopes -> {"none", "open", "gone"}]
        /\ \A f \in Envelopes : challenges[f] = "gone" => challenges'[f] = "gone"
    BY <1>1 DEF ChallengeExpires, TypeOK
  <1>3. TypeOK' /\ HandlerInv'
    BY <1>1, <1>2 DEF TypeOK, HandlerInv
  <1>4. KeyInv' /\ NonceInv' /\ AnswerInv'
    BY <1>1 DEF KeyInv, NonceInv, AnswerInv, AcceptedIsTrue, Key
  <1>5. \A f \in Sensitive : SpentFor(f) => SpentFor(f)'
    BY <1>2, IntakeAssumption DEF SpentFor, IntakeAssumption
  <1>6. ApprovalCarriesOne'
    <2>1. ASSUME NEW f \in Sensitive, runs[f] > 0
          PROVE  /\ SpentFor(f)'
                 /\ \A g \in Sensitive \ {f} : ProofOf[g] = ProofOf[f] => runs[g] = 0
      BY <1>1, <1>5, <2>1 DEF ProofInv, ApprovalCarriesOne, SpentFor
    <2> QED BY <1>1, <2>1 DEF ApprovalCarriesOne, SpentFor
  <1>7. ProofInv'
    <2>1. \A h \in Handlers : jobs[h].pc \in PastGate /\ jobs[h].of \in Sensitive =>
            ProofOf[jobs[h].of] # None /\ challenges'[ProofOf[jobs[h].of]] = "gone"
      BY <1>1, <1>5 DEF ProofInv, SpentFor
    <2> QED BY <1>1, <1>6, <2>1 DEF ProofInv, SpentFor
  <1> QED BY <1>3, <1>4, <1>7 DEF IInv

LEMMA StepKeeps ==
  ASSUME IInv, [Next]_vars
  PROVE  IInv'
  <1>1. ASSUME NEW h \in Handlers, Handle(h)
        PROVE  IInv'
    <2>1. TypeOK /\ HandlerInv /\ KeyInv
      BY DEF IInv
    <2>2. Moves(h)
      BY <1>1, <2>1, HandleMoves
    <2>3. KeyInv' /\ NonceInv' /\ ProofInv' /\ AnswerInv'
      BY <2>1, <2>2, KeyKept, NonceKept, ProofKept, AnswerKept
    <2> QED BY <2>2, <2>3 DEF IInv, Moves
  <1>2. CASE UNCHANGED vars
    BY <1>2
       DEF vars, IInv, TypeOK, HandlerInv, KeyInv, NonceInv, ProofInv, AnswerInv, SpentFor,
           ApprovalCarriesOne, AcceptedIsTrue, Key
  <1> QED BY <1>1, <1>2, ClaimGrowsOldKeeps, ChallengeExpiresKeeps DEF Next

\* The inductive invariant holds whatever is sent, lost or left behind.
THEOREM IntakeInvariant == Spec => []IInv
  <1> QED BY InitHolds, StepKeeps, PTL DEF Spec

\* The tables and handlers of the intake keep their types.
THEOREM IntakeTypes == Spec => []TypeOK
  <1>1. IInv => TypeOK
    BY DEF IInv
  <1> QED BY <1>1, IntakeInvariant, PTL

\* For any number of requests under a key and any number of handlers, one request
\* is carried out under it and opens its mission, and one with a nonce runs once
\* (IdempotencyService, CommandNonceService, the unique index of migration 18).
THEOREM OnceUnderItsKeyAlways == Spec => []OnceUnderItsKey
  <1>1. IInv => OnceUnderItsKey
    <2>1. ASSUME IInv
          PROVE  OnceUnderItsKey
      <3>1. KeyInv /\ NonceInv
        BY <2>1 DEF IInv
      <3>2. \A e, f \in Envelopes :
              KeyOf[e] = KeyOf[f] /\ runs[e] > 0 /\ missions[f] > 0 => e = f
        BY <3>1 DEF KeyInv
      <3> QED BY <3>1, <3>2 DEF KeyInv, NonceInv, OnceUnderItsKey
    <2> QED BY <2>1
  <1> QED BY <1>1, IntakeInvariant, PTL

\* For any number of proofs of any number of challenges, an A4 request runs on a
\* spent challenge, and no other runs on the same (verify_and_consume).
THEOREM ApprovalCarriesOneAlways == Spec => []ApprovalCarriesOne
  <1>1. IInv => ApprovalCarriesOne
    BY DEF IInv, ProofInv
  <1> QED BY <1>1, IntakeInvariant, PTL

\* Nobody is told "accepted" for a request that did not run.
THEOREM AcceptedIsTrueAlways == Spec => []AcceptedIsTrue
  <1>1. IInv => AcceptedIsTrue
    BY DEF IInv, AnswerInv
  <1> QED BY <1>1, IntakeInvariant, PTL

-----------------------------------------------------------------------------
(* The intake implements the once-only executor. *)

Accepted == {e \in Envelopes : <<e, "accepted">> \in told}

LEMMA NothingHappens ==
  ASSUME \A k \in Keys : claims'[k].by = claims[k].by, UNCHANGED <<runs, told>>
  PROVE  UNCHANGED Executor!evars
  BY IntakeAssumption DEF Executor!evars, Claiming, IntakeAssumption

\* A key without a row is given to the request that asks for it.
LEMMA ClaimAsks ==
  ASSUME TypeOK, NEW e \in Envelopes, claims[KeyOf[e]].by = None,
         \A k \in Keys : claims'[k].by = IF k = KeyOf[e] THEN e ELSE claims[k].by,
         UNCHANGED <<runs, told>>
  PROVE  Executor!Next
  <1>1. Claiming' = Claiming \cup {e}
    BY IntakeAssumption DEF Claiming, IntakeAssumption
  <1>2. \A r, s \in Claiming \cup {e} : KeyOf[r] = KeyOf[s] => r = s
    BY IntakeAssumption DEF Claiming, IntakeAssumption
  <1>3. Executor!Ask({e})
    BY <1>1, <1>2 DEF Executor!Ask
  <1> QED BY <1>3 DEF Executor!Next

\* An answer goes out; "accepted" only of a request that ran.
LEMMA AnswerConfirms ==
  ASSUME NEW e \in Envelopes, NEW answer, Respond(e, answer),
         answer = "accepted" => runs[e] > 0,
         \A k \in Keys : claims'[k].by = claims[k].by, UNCHANGED runs
  PROVE  [Executor!Next]_Executor!evars
  <1>1. Claiming' = Claiming
    BY IntakeAssumption DEF Claiming, IntakeAssumption
  <1>2. CASE answer = "accepted" /\ told' # told
    <2>1. told' = told \cup {<<e, "accepted">>}
      BY <1>2 DEF Respond, Acted
    <2>2. Accepted' = Accepted \cup {e}
      BY <2>1 DEF Accepted
    <2>3. Executor!Confirm(e)
      BY <1>1, <1>2, <2>2 DEF Executor!Confirm, Accepted
    <2> QED BY <2>3 DEF Executor!Next
  <1>3. CASE answer # "accepted" \/ told' = told
    <2>1. Accepted' = Accepted
      BY <1>3 DEF Respond, Accepted
    <2> QED BY <1>1, <2>1 DEF Executor!evars, Accepted
  <1> QED BY <1>2, <1>3

LEMMA BeginImplements ==
  ASSUME IInv, NEW h \in Handlers, NEW e \in Envelopes, Begin(h, e)
  PROVE  [Executor!Next]_Executor!evars
  <1> DEFINE k == KeyOf[e]
             row == claims[k]
  <1>0. TypeOK /\ AnswerInv /\ k \in Keys /\ claims \in [Keys -> Rows] /\ UNCHANGED runs
    BY IntakeAssumption DEF IInv, TypeOK, Begin, IntakeAssumption
  <1>1. CASE /\ row = NoRow /\ UNCHANGED told
             /\ claims' = [claims EXCEPT ![k] = [NoRow EXCEPT !.status = "IN_FLIGHT", !.by = e]]
    <2>1. row.by = None /\ [NoRow EXCEPT !.status = "IN_FLIGHT", !.by = e].by = e
      BY <1>1 DEF NoRow
    <2>2. \A l \in Keys : claims'[l].by = IF l = k THEN e ELSE claims[l].by
      BY <1>0, <1>1, <2>1
    <2> QED BY <1>0, <1>1, <2>1, <2>2, ClaimAsks
  <1>2. CASE claims' = [claims EXCEPT ![k].stale = FALSE] /\ UNCHANGED told
    <2>1. \A l \in Keys : claims'[l].by = claims[l].by
      BY <1>0, <1>2 DEF Rows
    <2> QED BY <1>0, <1>2, <2>1, NothingHappens
  <1>3. CASE UNCHANGED claims /\ Verdict(h, e, row)
    <2>1. ASSUME SameRequest(e, row), NEW a \in {row.answer, "in_flight"}, Respond(e, a)
          PROVE  [Executor!Next]_Executor!evars
      <3>1. a = "accepted" => runs[e] > 0
        BY <1>0, <2>1 DEF AnswerInv, SameRequest
      <3> QED BY <1>0, <1>3, <2>1, <3>1, AnswerConfirms
    <2>2. CASE UNCHANGED told
      BY <1>0, <1>3, <2>2, NothingHappens
    <2> QED BY <1>3, <2>1, <2>2 DEF Verdict
  <1> QED BY <1>1, <1>2, <1>3 DEF Begin

LEMMA StoreImplements ==
  ASSUME IInv, NEW h \in Handlers, Store(h)
  PROVE  [Executor!Next]_Executor!evars
  <1> DEFINE job == jobs[h]
  <1>1. TypeOK /\ HandlerInv /\ AnswerInv /\ claims \in [Keys -> Rows]
    BY DEF IInv, TypeOK
  <1>2. /\ job.of \in Envelopes /\ Key(h) \in Keys
        /\ job.answer = "accepted" => runs[job.of] > 0
    BY <1>1, IntakeAssumption DEF Store, At, HandlerInv, AnswerInv, Key, IntakeAssumption
  <1>3. /\ claims' = [claims EXCEPT ![Key(h)] =
                        [@ EXCEPT !.status = job.status, !.stale = FALSE,
                                  !.answer = Readable(job.answer, job.status)]]
        /\ Respond(job.of, job.answer) /\ UNCHANGED runs
    BY DEF Store
  <1>4. \A k \in Keys : claims'[k].by = claims[k].by
    BY <1>1, <1>2, <1>3 DEF Rows
  <1> HIDE DEF job
  <1> QED BY <1>2, <1>3, <1>4, AnswerConfirms

\* A dispatch: its handler holds the key, and the nonce if there is one.
LEMMA DispatchImplements ==
  ASSUME IInv, NEW h \in Handlers, At(h, "dispatch"),
         runs' \in {runs, [runs EXCEPT ![jobs[h].of] = @ + 1]}, UNCHANGED <<claims, told>>
  PROVE  [Executor!Next]_Executor!evars
  <1>1. PICK e \in Envelopes : e = jobs[h].of
    BY DEF IInv, HandlerInv, At
  <1>2. CASE runs' = runs
    BY <1>2, NothingHappens
  <1>3. CASE runs' = [runs EXCEPT ![e] = @ + 1]
    <2>1. e \in Claiming
      BY <1>1 DEF IInv, KeyInv, Key, At, Working, Claiming
    <2>2. runs[e] = 0 \/ e \in Envelopes \ Nonced
      BY <1>1 DEF IInv, NonceInv, At, PastNonce
    <2>3. UNCHANGED Claiming /\ UNCHANGED Accepted
      BY DEF Claiming, Accepted
    <2>4. Executor!CarryOut(e)
      BY <1>3, <2>1, <2>2, <2>3 DEF Executor!CarryOut, Accepted
    <2> QED BY <2>4 DEF Executor!Next
  <1> QED BY <1>1, <1>2, <1>3

LEMMA HandleImplements ==
  ASSUME IInv, NEW h \in Handlers, Handle(h)
  PROVE  [Executor!Next]_Executor!evars
  <1>0. TypeOK /\ HandlerInv /\ claims \in [Keys -> Rows]
    BY DEF IInv, TypeOK
  <1>1. ASSUME NEW e \in signed, Begin(h, e) PROVE [Executor!Next]_Executor!evars
    <2>1. e \in Envelopes
      BY <1>0, IntakeAssumption DEF TypeOK, IntakeAssumption
    <2> QED BY <1>1, <2>1, BeginImplements
  <1>2. CASE MarkConflict(h) \/ Reclaim(h)
    <2>1. Key(h) \in Keys
      BY <1>0, <1>2, TypedMeans DEF MarkConflict, Reclaim, At
    <2>2. \A k \in Keys : claims'[k].by = claims[k].by
      <3>1. claims[Key(h)] \in Rows
        BY <1>0, <2>1
      <3>2. PICK row :
              /\ row \in {[claims[Key(h)] EXCEPT !.status = "CONFLICT", !.stale = FALSE,
                                                 !.answer = NoAnswer],
                          [claims[Key(h)] EXCEPT !.status = "IN_FLIGHT", !.stale = FALSE]}
              /\ claims' = [claims EXCEPT ![Key(h)] = row]
        BY <1>0, <1>2, <2>1 DEF MarkConflict, Reclaim
      <3>3. row.by = claims[Key(h)].by
        BY <3>1, <3>2 DEF Rows
      <3> QED BY <1>0, <2>1, <3>2, <3>3
    <2>3. UNCHANGED <<runs, told>>
      BY <1>2 DEF MarkConflict, Reclaim
    <2> QED BY <2>2, <2>3, NothingHappens
  <1>3. CASE Dispatch(h) \/ DispatchFails(h)
    BY <1>3, DispatchImplements DEF Dispatch, DispatchFails
  <1>4. CASE UNCHANGED <<claims, runs, told>>
    BY <1>4, NothingHappens
  <1> QED BY <1>1, <1>2, <1>3, <1>4, StoreImplements
          DEF Handle, RefuseSender, CheckNonce, RefuseIntent, Gate, FindMission, OpenMission,
              StopBeforeSeal, ReadSeal, WriteSeal, RefuseDispatch, HandlerDies

\* Whatever is delivered, signed again, retried, reclaimed or left behind, a key
\* carries out the one request that claimed it, one with a nonce once, and
\* "accepted" is said of what was handed over.
THEOREM IntakeImplementsExecutor == Spec => ImplementsExecutor
  <1>1. Init => Executor!Init
    <2> SUFFICES ASSUME Init PROVE Executor!Init
      OBVIOUS
    <2>1. Claiming = {}
      BY IntakeAssumption DEF Init, Claiming, NoRow, IntakeAssumption
    <2> QED BY <2>1 DEF Init, Executor!Init
  <1>2. ASSUME IInv, [Next]_vars PROVE [Executor!Next]_Executor!evars
    <2>1. ASSUME NEW k \in Keys, ClaimGrowsOld(k) PROVE UNCHANGED Executor!evars
      <3>1. \A l \in Keys : claims'[l].by = claims[l].by
        BY <1>2, <2>1 DEF ClaimGrowsOld, IInv, TypeOK, Rows
      <3> QED BY <2>1, <3>1, NothingHappens DEF ClaimGrowsOld
    <2>2. CASE UNCHANGED vars \/ \E e \in Envelopes : ChallengeExpires(e)
      <3>1. UNCHANGED <<claims, runs, told>>
        BY <2>2 DEF vars, ChallengeExpires
      <3> QED BY <3>1, NothingHappens
    <2> QED BY <1>2, <2>1, <2>2, HandleImplements DEF Next
  <1> QED BY <1>1, <1>2, IntakeInvariant, PTL DEF Spec, ImplementsExecutor, Executor!Spec

==============================================================================
