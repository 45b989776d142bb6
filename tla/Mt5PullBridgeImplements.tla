---------------------- MODULE Mt5PullBridgeImplements ----------------------
(* The pull bridge carries its commands out once: the refinement mapping.    *)
EXTENDS Mt5PullBridge

\* What a receipt says happened at the venue.
Affirmative == {"FILLED", "FILLED_UNCONFIRMED", "ACCEPTED"}

CommandIds == 1..MaxCommands

TimesExecuted == [c \in CommandIds |-> IF c \in Ids THEN executed[c] ELSE 0]

Executor == INSTANCE OnceExecutor WITH
              Requests   <- CommandIds,
              KeyOf      <- [c \in CommandIds |-> c],
              Repeatable <- {},
              asked      <- Ids,
              times      <- TimesExecuted,
              confirmed  <- {c \in Ids : told[c] \in Affirmative}

(***************************************************************************)
(* Every behaviour of the bridge is a behaviour of the once-only executor:  *)
(* whatever poll or reply is lost, repeated or late, whichever of the three *)
(* processes restarts, the venue sees a command at most once and only after *)
(* it was put on the queue, and a receipt affirms what was carried out      *)
(* (BridgeQueue, Mt5PullAdapter and OnTimer of the advisor together).       *)
(***************************************************************************)
ImplementsExecutor == Executor!Spec

=============================================================================
