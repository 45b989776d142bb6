---------------------------- MODULE OnceExecutor ----------------------------
(***************************************************************************)
(* What three layers of the system promise of the requests they carry out   *)
(* (the gateway of owner commands, the order path of candidates, the MT5    *)
(* bridge of venue commands): a request is carried out only after it was    *)
(* asked for, once unless it may be repeated, under its key no other one    *)
(* is, and it is confirmed only when it was carried out.  No queue, ledger, *)
(* process or message appears here, and nothing is ever undone.             *)
(***************************************************************************)
EXTENDS Naturals

CONSTANTS
  Requests,    \* what can be asked for
  KeyOf,       \* the key of each request
  Repeatable   \* the requests that may be carried out again

VARIABLES
  asked,       \* the requests accepted under their keys
  times,       \* how often each was carried out
  confirmed    \* the requests reported as carried out

evars == <<asked, times, confirmed>>

Init ==
  /\ asked = {}
  /\ times = [r \in Requests |-> 0]
  /\ confirmed = {}

\* A key is given to one request and keeps it.
Ask(S) ==
  /\ \A r, s \in asked \cup S : KeyOf[r] = KeyOf[s] => r = s
  /\ asked' = asked \cup S
  /\ UNCHANGED <<times, confirmed>>

CarryOut(r) ==
  /\ r \in asked
  /\ times[r] = 0 \/ r \in Repeatable
  /\ times' = [times EXCEPT ![r] = @ + 1]
  /\ UNCHANGED <<asked, confirmed>>

Confirm(r) ==
  /\ times[r] > 0
  /\ confirmed' = confirmed \cup {r}
  /\ UNCHANGED <<asked, times>>

Next ==
  \/ \E S \in SUBSET Requests : Ask(S)
  \/ \E r \in Requests : CarryOut(r) \/ Confirm(r)

Spec == Init /\ [][Next]_evars

=============================================================================
