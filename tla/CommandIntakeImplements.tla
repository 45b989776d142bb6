---------------------- MODULE CommandIntakeImplements ----------------------
(* The gateway carries an owner command out once: the refinement mapping.    *)
EXTENDS CommandIntake

\* The requests that hold the claim of their key.
Claiming == {e \in Envelopes : claims[KeyOf[e]].by = e}

Executor == INSTANCE OnceExecutor WITH
              Requests   <- Envelopes,
              KeyOf      <- KeyOf,
              Repeatable <- Envelopes \ Nonced,
              asked      <- Claiming,
              times      <- runs,
              confirmed  <- {e \in Envelopes : <<e, "accepted">> \in told}

(***************************************************************************)
(* Every behaviour of the intake is a behaviour of the once-only executor   *)
(* over the idempotency keys: however often a request is delivered, failed, *)
(* reclaimed, abandoned and taken up by a second handler, its key carries   *)
(* out that request alone, a request with a nonce once, and a client is     *)
(* told "accepted" only of a request that was handed over (the claim of     *)
(* idempotency/service.py, the nonce and the dispatch of orchestrator.py).  *)
(***************************************************************************)
ImplementsExecutor == Executor!Spec

=============================================================================
