---------------------------- MODULE CommandIntake ----------------------------
(***************************************************************************)
(* The intake of owner commands at the gateway: the handler of POST          *)
(* /v1/commands (van_gateway/orchestrator.py), the idempotency claim         *)
(* (idempotency/service.py), the single-use nonce (command/nonce.py), the    *)
(* owner's biometric approval (approval/service.py), the mission a command   *)
(* opens (command/mission_link.py), the sealed authority                     *)
(* (command/authority.py) and the dispatch to Hermes or to a local executor. *)
(*                                                                          *)
(* One signed request is an envelope: the same bytes every time it is        *)
(* delivered.  The app retries the same bytes, its offline queue signs the   *)
(* command again (a new envelope under the same idempotency key), and an     *)
(* approved A4 command is a new envelope that carries the owner's proof.     *)
(* Any number of deliveries is handled, several at a time; each handler      *)
(* stops at every await, and may raise or die with the process there.        *)
(***************************************************************************)
EXTENDS Naturals, FiniteSets

CONSTANTS
  Envelopes,     \* the signed requests, each always the same bytes
  Keys,          \* the idempotency keys
  KeyOf,         \* the key of each envelope
  Nonced,        \* the envelopes that carry a nonce, each its own (signature v2, v3)
  Sensitive,     \* those whose effective action class is A4
  ProofOf,       \* the envelope whose challenge an envelope's proof answers, or None
  Local,         \* those the gateway executes itself (LOCAL_EXECUTORS)
  Handlers,      \* requests the gateway handles at the same time
  None,          \* no envelope
  Scenarios      \* sets of envelopes that are signed in one behaviour

ASSUME IntakeAssumption ==
  /\ None \notin Envelopes
  /\ KeyOf \in [Envelopes -> Keys]
  /\ ProofOf \in [Envelopes -> Envelopes \cup {None}]
  /\ Sensitive \subseteq Envelopes
  /\ Nonced \subseteq Envelopes
  /\ Local \subseteq Envelopes
  /\ Scenarios \subseteq SUBSET Envelopes

VARIABLES
  claims,      \* the row of each key in table idempotency
  consumed,    \* table command_nonces: the envelopes whose nonce is used
  challenges,  \* the approval challenge issued to each envelope
  missions,    \* the number of missions opened for each envelope
  blocked,     \* envelopes whose mission is BLOCKED_POLICY
  sealed,      \* envelopes with a command authority record
  runs,        \* how often each envelope was carried out
  jobs,        \* the handlers: where each one is, and what it will answer
  signed,      \* the envelopes the clients sign in this behaviour
  told         \* the answers that reached a client and that it acts upon

vars == <<claims, consumed, challenges, missions, blocked, sealed, runs, jobs, told, signed>>

\* "refused" stands for denied, expired, degraded and rejected_untrusted.
Answers == {"accepted", "approval_required", "refused", "conflict", "in_flight"}

Acted == {"accepted", "approval_required"}

NoAnswer == "none"

IdempotencyStatus == {"IN_FLIGHT", "COMPLETED", "CONFLICT", "FAILED"}

NoRow == [status |-> "ABSENT", by |-> None, stale |-> FALSE, answer |-> NoAnswer]

Idle == [pc |-> "idle", of |-> None, answer |-> NoAnswer, status |-> "ABSENT"]

At(h, pc) == jobs[h].pc = pc

Key(h) == KeyOf[jobs[h].of]

Take(h, e, pc) == jobs' = [jobs EXCEPT ![h] = [Idle EXCEPT !.pc = pc, !.of = e]]

Goto(h, pc) == jobs' = [jobs EXCEPT ![h].pc = pc]

\* The handler has its result and is about to store it under the key.
Settle(h, answer, status) ==
  jobs' = [jobs EXCEPT ![h].pc = "store", ![h].answer = answer, ![h].status = status]

\* The response goes out, and may be lost on its way.
Respond(e, answer) == told' \in {told, told \cup ({<<e, answer>>} \cap (Envelopes \X Acted))}

Init ==
  /\ claims = [k \in Keys |-> NoRow]
  /\ consumed = {}
  /\ challenges = [e \in Envelopes |-> "none"]
  /\ missions = [e \in Envelopes |-> 0]
  /\ blocked = {}
  /\ sealed = {}
  /\ runs = [e \in Envelopes |-> 0]
  /\ jobs = [h \in Handlers |-> Idle]
  /\ signed \in Scenarios
  /\ told = {}

-----------------------------------------------------------------------------
(* The idempotency claim. *)

\* A client signs a proof only for a challenge it was given.
Signable(e) == ProofOf[e] = None \/ <<ProofOf[e], "approval_required">> \in told

\* Mutant: the hash of the request is not compared.
AnyRequest(e, row) == TRUE

SameRequest(e, row) == row.by = e

Abandoned(e, row) == row.status = "IN_FLIGHT" /\ row.by = e /\ row.stale

\* The key had a conflict before: the handler will fail the row.
Reject(h, e) ==
  jobs' = [jobs EXCEPT ![h] = [pc |-> "store", of |-> e, answer |-> "conflict", status |-> "FAILED"]]

\* The verdict of begin on a row that is there and not abandoned.
Verdict(h, e, row) ==
  \/ ~SameRequest(e, row) /\ Take(h, e, "mismatch") /\ UNCHANGED told
  \/ /\ SameRequest(e, row)
     /\ \/ row.status = "COMPLETED" /\ Respond(e, row.answer) /\ UNCHANGED jobs
        \/ row.status = "IN_FLIGHT" /\ Respond(e, "in_flight") /\ UNCHANGED jobs
        \/ row.status = "CONFLICT" /\ Reject(h, e) /\ UNCHANGED told
        \/ row.status = "FAILED" /\ Take(h, e, "reclaim") /\ UNCHANGED told

\* A request arrives: BEGIN IMMEDIATE .. commit, and the verdict on the row.
Begin(h, e) ==
  LET k == KeyOf[e]
      row == claims[k]
  IN  /\ At(h, "idle")
      /\ Signable(e)
      /\ \/ /\ row = NoRow
            /\ claims' = [claims EXCEPT ![k] = [NoRow EXCEPT !.status = "IN_FLIGHT", !.by = e]]
            /\ Take(h, e, "vet")
            /\ UNCHANGED told
         \/ /\ Abandoned(e, row)
            /\ claims' = [claims EXCEPT ![k].stale = FALSE]
            /\ Take(h, e, "vet")
            /\ UNCHANGED told
         \/ /\ row # NoRow
            /\ ~Abandoned(e, row)
            /\ Verdict(h, e, row)
            /\ UNCHANGED claims
      /\ UNCHANGED <<consumed, challenges, missions, blocked, sealed, runs, signed>>

\* The key names another request: begin marks the row, the handler then fails it.
MarkConflict(h) ==
  /\ At(h, "mismatch")
  /\ claims' = [claims EXCEPT ![Key(h)] =
                  [@ EXCEPT !.status = "CONFLICT", !.stale = FALSE, !.answer = NoAnswer]]
  /\ Settle(h, "conflict", "FAILED")
  /\ UNCHANGED <<consumed, challenges, missions, blocked, sealed, runs, told, signed>>

\* A failed claim is taken again, outside the transaction that read FAILED.
Reclaim(h) ==
  /\ At(h, "reclaim")
  /\ claims' = [claims EXCEPT ![Key(h)] =
                  [@ EXCEPT !.status = "IN_FLIGHT", !.stale = FALSE]]
  /\ Goto(h, "vet")
  /\ UNCHANGED <<consumed, challenges, missions, blocked, sealed, runs, told, signed>>

\* The response of a failed claim is stored too, and never read.
Readable(answer, status) == IF status = "COMPLETED" THEN answer ELSE NoAnswer

\* complete and fail: the status and the response, whatever the row says by now.
Store(h) ==
  LET job == jobs[h] IN
  /\ At(h, "store")
  /\ claims' = [claims EXCEPT ![Key(h)] =
                  [@ EXCEPT !.status = job.status, !.stale = FALSE,
                            !.answer = Readable(job.answer, job.status)]]
  /\ Respond(job.of, job.answer)
  /\ jobs' = [jobs EXCEPT ![h] = Idle]
  /\ UNCHANGED <<consumed, challenges, missions, blocked, sealed, runs, signed>>

\* The handlers that are past begin and not yet at their result.
Working == {"vet", "gate", "mission", "create", "plan", "seal", "dispatch"}

\* 900 s since the row was last written; its handler may only be slow.
ClaimGrowsOld(k) ==
  /\ claims[k].status = "IN_FLIGHT"
  /\ ~claims[k].stale
  /\ claims' = [claims EXCEPT ![k].stale = TRUE]
  /\ UNCHANGED <<consumed, challenges, missions, blocked, sealed, runs, jobs, told, signed>>

-----------------------------------------------------------------------------
(* Who sent it, and may it run. *)

\* AuthError, or speaker evidence on a command that was not spoken.
RefuseSender(h) ==
  /\ At(h, "vet")
  /\ Settle(h, "refused", "FAILED")
  /\ UNCHANGED <<claims, consumed, challenges, missions, blocked, sealed, runs, told, signed>>

\* Mutant: the nonce is stored and never compared.
ConsumeUnchecked(e) == consumed' = consumed \cup {e}

\* CommandNonceService.consume: the insert is the check.
Consume(e) == e \notin consumed /\ consumed' = consumed \cup {e}

Replayed(e) == e \in consumed

\* Mutant: a nonce is consumed whether or not the request has one.
AnyNonce(e) == TRUE

HasNonce(e) == e \in Nonced

CheckNonce(h) ==
  LET e == jobs[h].of IN
  /\ At(h, "vet")
  /\ \/ ~HasNonce(e) /\ Goto(h, "gate") /\ UNCHANGED consumed
     \/ HasNonce(e) /\ Consume(e) /\ Goto(h, "gate")
     \/ HasNonce(e) /\ Replayed(e) /\ Settle(h, "refused", "COMPLETED") /\ UNCHANGED consumed
  /\ UNCHANGED <<claims, challenges, missions, blocked, sealed, runs, told, signed>>

\* Expired, A5, a voice that is not the owner's, a missing exact action; after
\* the approval the no-stale window and third-party content.
RefuseIntent(h) ==
  /\ jobs[h].pc \in {"gate", "mission"}
  /\ Settle(h, "refused", "COMPLETED")
  /\ UNCHANGED <<claims, consumed, challenges, missions, blocked, sealed, runs, told, signed>>

\* Mutant: a spent challenge verifies again.
ChallengeSpentTwice(c) == challenges[c] # "none"

ChallengeOpen(c) == challenges[c] = "open"

\* verify_and_consume: one transaction checks the challenge and deletes it; a
\* proof that does not fit (device, turn, intent, signature) leaves it open.
SpendChallenge(h, c) ==
  \/ /\ ChallengeOpen(c)
     /\ challenges' = [challenges EXCEPT ![c] = "gone"]
     /\ Goto(h, "mission")
  \/ Settle(h, "refused", "COMPLETED") /\ UNCHANGED challenges

\* The gate: an A4 command without a proof is given a challenge; asked again, it
\* gets another one, which no proof of this model answers.
Gate(h) ==
  LET e == jobs[h].of IN
  /\ At(h, "gate")
  /\ \/ e \notin Sensitive /\ Goto(h, "mission") /\ UNCHANGED challenges
     \/ /\ e \in Sensitive
        /\ ProofOf[e] = None
        /\ challenges' = [challenges EXCEPT ![e] = IF @ = "none" THEN "open" ELSE @]
        /\ Settle(h, "approval_required", "COMPLETED")
     \/ e \in Sensitive /\ ProofOf[e] # None /\ SpendChallenge(h, ProofOf[e])
  /\ UNCHANGED <<claims, consumed, missions, blocked, sealed, runs, told, signed>>

\* The challenge's 60 s are over.
ChallengeExpires(e) ==
  /\ challenges[e] = "open"
  /\ challenges' = [challenges EXCEPT ![e] = "gone"]
  /\ UNCHANGED <<claims, consumed, missions, blocked, sealed, runs, jobs, told, signed>>

-----------------------------------------------------------------------------
(* The mission, the sealed authority and the dispatch. *)

\* existing_for_command; advancing a mission that is terminal raises.
FindMission(h) ==
  LET e == jobs[h].of IN
  /\ At(h, "mission")
  /\ \/ missions[e] = 0 /\ Goto(h, "create")
     \/ missions[e] > 0 /\ e \notin blocked /\ Goto(h, "plan")
     \/ missions[e] > 0 /\ e \in blocked /\ jobs' = [jobs EXCEPT ![h] = Idle]
  /\ UNCHANGED <<claims, consumed, challenges, missions, blocked, sealed, runs, told, signed>>

\* idx_missions_source_command: one mission for a command.
Unopened(e) == missions[e] = 0

\* The insert; the unique index makes the loser of two raise.
OpenMission(h) ==
  LET e == jobs[h].of IN
  /\ At(h, "create")
  /\ \/ /\ Unopened(e)
        /\ missions' = [missions EXCEPT ![e] = @ + 1]
        /\ Goto(h, "plan")
     \/ ~Unopened(e) /\ jobs' = [jobs EXCEPT ![h] = Idle] /\ UNCHANGED missions
  /\ UNCHANGED <<claims, consumed, challenges, blocked, sealed, runs, told, signed>>

\* The truth gate blocks the mission; an unavailable context only stalls it.
StopBeforeSeal(h) ==
  /\ At(h, "plan")
  /\ blocked' \in {blocked, blocked \cup {jobs[h].of}}
  /\ Settle(h, "refused", "COMPLETED")
  /\ UNCHANGED <<claims, consumed, challenges, missions, sealed, runs, told, signed>>

\* seal reads the record; one from an earlier attempt has another time and
\* another snapshot, and conflicts.
ReadSeal(h) ==
  /\ At(h, "plan")
  /\ IF jobs[h].of \in sealed
     THEN Settle(h, "refused", "COMPLETED")
     ELSE Goto(h, "seal")
  /\ UNCHANGED <<claims, consumed, challenges, missions, blocked, sealed, runs, told, signed>>

WriteSeal(h) ==
  /\ At(h, "seal")
  /\ sealed' = sealed \cup {jobs[h].of}
  /\ Goto(h, "dispatch")
  /\ UNCHANGED <<claims, consumed, challenges, missions, blocked, runs, told, signed>>

Dispatch(h) ==
  /\ At(h, "dispatch")
  /\ runs' = [runs EXCEPT ![jobs[h].of] = @ + 1]
  /\ Settle(h, "accepted", "COMPLETED")
  /\ UNCHANGED <<claims, consumed, challenges, missions, blocked, sealed, told, signed>>

\* Hermes is offline, or the action may not run: nothing was handed over.
RefuseDispatch(h) ==
  /\ At(h, "dispatch")
  /\ Settle(h, "refused", "COMPLETED")
  /\ UNCHANGED <<claims, consumed, challenges, missions, blocked, sealed, runs, told, signed>>

\* HermesBridgeError or LocalExecutionError, before or after the work was taken.
DispatchFails(h) ==
  LET e == jobs[h].of IN
  /\ At(h, "dispatch")
  /\ runs' \in {runs, [runs EXCEPT ![e] = @ + 1]}
  /\ Settle(h, "refused", IF e \in Local THEN "COMPLETED" ELSE "FAILED")
  /\ UNCHANGED <<claims, consumed, challenges, missions, blocked, sealed, told, signed>>

\* The handler raises, or dies with the process: its rows stay as they are.
HandlerDies(h) ==
  /\ ~At(h, "idle")
  /\ jobs' = [jobs EXCEPT ![h] = Idle]
  /\ UNCHANGED <<claims, consumed, challenges, missions, blocked, sealed, runs, told, signed>>

Handle(h) ==
  \/ \E e \in signed : Begin(h, e)
  \/ MarkConflict(h)
  \/ Reclaim(h)
  \/ Store(h)
  \/ RefuseSender(h)
  \/ CheckNonce(h)
  \/ RefuseIntent(h)
  \/ Gate(h)
  \/ FindMission(h)
  \/ OpenMission(h)
  \/ StopBeforeSeal(h)
  \/ ReadSeal(h)
  \/ WriteSeal(h)
  \/ Dispatch(h)
  \/ RefuseDispatch(h)
  \/ DispatchFails(h)
  \/ HandlerDies(h)

Next ==
  \/ \E h \in Handlers : Handle(h)
  \/ \E k \in Keys : ClaimGrowsOld(k)
  \/ \E e \in Envelopes : ChallengeExpires(e)

Spec == Init /\ [][Next]_vars

-----------------------------------------------------------------------------
(* Properties. *)

Rows == [status : IdempotencyStatus \cup {"ABSENT"}, by : Envelopes \cup {None},
         stale : BOOLEAN, answer : Answers \cup {NoAnswer}]

Jobs == [pc : Working \cup {"idle", "mismatch", "reclaim", "store"},
         of : Envelopes \cup {None}, answer : Answers \cup {NoAnswer},
         status : IdempotencyStatus \cup {"ABSENT"}]

\* The type invariant of the tables and handlers of the intake.
TypeOK ==
  /\ claims \in [Keys -> Rows]
  /\ consumed \subseteq Nonced
  /\ challenges \in [Envelopes -> {"none", "open", "gone"}]
  /\ missions \in [Envelopes -> Nat]
  /\ blocked \subseteq Envelopes
  /\ sealed \subseteq Envelopes
  /\ runs \in [Envelopes -> Nat]
  /\ jobs \in [Handlers -> Jobs]
  /\ signed \in Scenarios
  /\ told \subseteq Envelopes \X Acted

\* Whatever is retried, duplicated, signed again or left behind by a crash, a
\* key carries out one envelope and opens a mission for no other: the claim turns
\* a second one away, the unique index a second mission.  Under a nonce that
\* envelope runs once; only one without (signature v1) may run again.
OnceUnderItsKey ==
  /\ \A e, f \in Envelopes :
       KeyOf[e] = KeyOf[f] /\ runs[e] > 0 /\ missions[f] > 0 => e = f
  /\ \A e \in Envelopes : missions[e] <= 1
  /\ \A e \in Nonced : runs[e] <= 1

\* An A4 command is carried out only on the owner's proof, and one challenge
\* carries one of them, also when its proof is sent twice at once
\* (verify_and_consume).
ApprovalCarriesOne ==
  \A e \in Sensitive : runs[e] > 0 =>
    /\ ProofOf[e] # None
    /\ challenges[ProofOf[e]] = "gone"
    /\ \A f \in Sensitive \ {e} : ProofOf[f] = ProofOf[e] => runs[f] = 0

\* A client told that its command was accepted was told the truth of that very
\* request: never another request's stored response, nor one for work that was
\* not handed over.
AcceptedIsTrue ==
  \A e \in Envelopes : <<e, "accepted">> \in told => runs[e] > 0

==============================================================================
