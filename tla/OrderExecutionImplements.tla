---------------------- MODULE OrderExecutionImplements ----------------------
(* The order path sends a candidate to the venue once: the refinement        *)
(* mapping.                                                                  *)
EXTENDS OrderExecution

\* The intents the venue was given for a candidate; their keys differ.
SentFor(c) == {i \in commands : CandidateOf(i) = c}

Generated == {c \in Candidate : c.gen <= pass}

Executor == INSTANCE OnceExecutor WITH
              Requests   <- Candidate,
              KeyOf      <- [c \in Candidate |-> c],
              Repeatable <- {},
              asked      <- Generated,
              times      <- [c \in Candidate |-> Cardinality(SentFor(c))],
              confirmed  <- {CandidateOf(i) : i \in receipts}

(***************************************************************************)
(* Every behaviour of the order path is a behaviour of the once-only        *)
(* executor whose requests are the candidates: although the idempotency key *)
(* of a candidate's intent changes with every pass and a restart empties    *)
(* the pool, the venue is given one order for a candidate, and a receipt in *)
(* the ledger is one of such an order (candidate_pool.py, coordinator.step  *)
(* and execute together).  A candidate's id carries the time of its pass:   *)
(* what this says of the bar behind it is OneOrderPerBar, and no more.      *)
(***************************************************************************)
ImplementsExecutor == Executor!Spec

=============================================================================
