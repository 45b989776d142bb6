---------------------------- MODULE FencingToken ----------------------------
(***************************************************************************)
(* What the account lease promises the rest of the system, without rows,    *)
(* clocks or connections: a counter of authority epochs, one holder of the  *)
(* newest epoch, at most one attached submission, which only the holder     *)
(* starts and during which authority does not move, and strays: submissions *)
(* whose attachment was lost, each marked with the epoch it began under.    *)
(***************************************************************************)
EXTENDS Naturals

CONSTANTS Instances, None

VARIABLES
  epoch,   \* the newest epoch granted
  holder,  \* who it was granted to
  busy,    \* the instance whose submission is attached, or None
  strays   \* <<instance, epoch>> of the submissions that lost their attachment

fvars == <<epoch, holder, busy, strays>>

Init ==
  /\ epoch = 0
  /\ holder = None
  /\ busy = None
  /\ strays = {}

\* Authority moves, but never under an attached submission.
Grant(i) ==
  /\ busy = None
  /\ epoch' = epoch + 1
  /\ holder' = i
  /\ UNCHANGED <<busy, strays>>

\* A process runs one submission at a time.
Begin(i) ==
  /\ busy = None
  /\ holder = i
  /\ \A s \in strays : s[1] # i
  /\ busy' = i
  /\ UNCHANGED <<epoch, holder, strays>>

Finish(i) ==
  /\ busy = i
  /\ busy' = None
  /\ UNCHANGED <<epoch, holder, strays>>

Detach(i) ==
  /\ busy = i
  /\ busy' = None
  /\ strays' = strays \cup {<<i, epoch>>}
  /\ UNCHANGED <<epoch, holder>>

StrayEnds(s) ==
  /\ strays' = strays \ {s}
  /\ UNCHANGED <<epoch, holder, busy>>

Next ==
  \/ \E i \in Instances : Grant(i) \/ Begin(i) \/ Finish(i) \/ Detach(i)
  \/ \E s \in strays : StrayEnds(s)

Spec == Init /\ [][Next]_fvars

=============================================================================
