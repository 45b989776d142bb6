------------------------------ MODULE EventFeed ------------------------------
(***************************************************************************)
(* What a device is promised of the events addressed to it, over all the    *)
(* lives of its process: what is published is never taken back, only what   *)
(* was published is brought to the history and only what was brought is     *)
(* announced, and a cursor, in memory or on disk, may move forth and back   *)
(* but stands only where everything behind it was brought.  No page, reply, *)
(* carrier, thread or restart appears here.                                 *)
(***************************************************************************)
EXTENDS Naturals

CONSTANT Numbers   \* the sequence numbers of events, and 0

VARIABLES
  published,  \* the events addressed to the device
  brought,    \* those its history was ever given
  announced,  \* those its producers were told
  cursor,     \* where it reads on
  saved       \* where its next life begins to read

fvars == <<published, brought, announced, cursor, saved>>

Init ==
  /\ published = {}
  /\ brought = {}
  /\ announced = {}
  /\ cursor = 0
  /\ saved = 0

\* Everything up to n is in S.
Behind(n, S) == \A m \in published : m <= n => m \in S

\* An event is published ahead of both cursors.
Publish(n) ==
  /\ n > cursor /\ n > saved
  /\ published' = published \cup {n}
  /\ UNCHANGED <<brought, announced, cursor, saved>>

\* Events S reach the history, and the cursor moves to n.
Bring(S, n) ==
  /\ Behind(n, brought \cup S)
  /\ brought' = brought \cup S
  /\ cursor' = n
  /\ UNCHANGED <<published, announced, saved>>

Save(n) ==
  /\ Behind(n, brought)
  /\ saved' = n
  /\ UNCHANGED <<published, brought, announced, cursor>>

Announce(S) ==
  /\ announced' = announced \cup S
  /\ UNCHANGED <<published, brought, cursor, saved>>

Next ==
  \E n \in Numbers :
    \/ Publish(n)
    \/ \E S \in SUBSET published : Bring(S, n)
    \/ Save(n)
    \/ \E S \in SUBSET brought : Announce(S)

Spec == Init /\ [][Next]_fvars

==============================================================================
