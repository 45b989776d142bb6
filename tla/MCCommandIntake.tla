--------------------------- MODULE MCCommandIntake ---------------------------
(* Small instances of CommandIntake for TLC. *)
EXTENDS CommandIntakeImplements, TLC

CONSTANTS ask, yes, other, cmd, again, plain, ka, ky, ko, kc

\* An A4 command, the approved command and a second use of its proof under
\* another key; a command, its copy signed again by the offline queue and one
\* without a nonce, under one key.
MCScenarios == {{ask, yes, other}, {cmd, again, plain}}

MCKeyOf == ask :> ka @@ yes :> ky @@ other :> ko @@ cmd :> kc @@ again :> kc @@ plain :> kc

MCProofOf == [e \in {ask, yes, other, cmd, again, plain} |->
                IF e \in {yes, other} THEN ask ELSE None]

Symmetry == Permutations(Handlers)
==============================================================================
