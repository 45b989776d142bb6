----------------------- MODULE PositionProtectionProofs -----------------------
(***************************************************************************)
(* What PositionProtection guarantees for every number of positions, every  *)
(* range of stops and every way of failing of the adapter calls.            *)
(***************************************************************************)
EXTENDS PositionProtection, TLAPS

Rule == [stop : Stops, pending : BOOLEAN]

(***************************************************************************)
(* A batch exists only while exits are sent, and a thesis is assessed only  *)
(* during supervision: a rule that a full close gives up is in no batch.    *)
(***************************************************************************)
ProtInv ==
  /\ TypeOK
  /\ batch # {} => pc = "exits"
  /\ at # None => pc = "supervise"

(***************************************************************************)
(* A step that gives nothing new: positions may close, a rule is given up   *)
(* only where the close of its position is answered FILLED, no stop moves   *)
(* and the kill switch stays tripped.                                       *)
(***************************************************************************)
Shrinks ==
  /\ venue' \in Partial(Positions, Stops)
  /\ DOMAIN venue' \subseteq DOMAIN venue
  /\ \A q \in DOMAIN venue' : venue'[q] = venue[q]
  /\ rules' \in Partial(Positions, Rule)
  /\ DOMAIN rules' \subseteq DOMAIN rules
  /\ \A q \in DOMAIN rules' : rules'[q].stop = rules[q].stop
  /\ \A q \in DOMAIN rules \ DOMAIN rules' : CloseFilled(q) /\ CloseConfirmed(q)
  /\ kill => kill'

-----------------------------------------------------------------------------
(* Partial functions. *)

\* A partial function is a function on its own domain.
LEMMA PartialMeans ==
  ASSUME NEW D, NEW R, NEW f
  PROVE  f \in Partial(D, R) <=> DOMAIN f \subseteq D /\ f \in [DOMAIN f -> R]
  BY DEF Partial

\* Updating or extending a partial function keeps it one.
LEMMA WithIsPartial ==
  ASSUME NEW D, NEW R, NEW f \in Partial(D, R), NEW p \in D, NEW v \in R
  PROVE  /\ With(f, p, v) \in Partial(D, R)
         /\ DOMAIN With(f, p, v) = DOMAIN f \cup {p}
         /\ With(f, p, v)[p] = v
         /\ \A q \in DOMAIN f : q # p => With(f, p, v)[q] = f[q]
  <1>1. DOMAIN f \subseteq D /\ f \in [DOMAIN f -> R]
    BY PartialMeans
  <1>2. DOMAIN With(f, p, v) = DOMAIN f \cup {p}
    BY DEF With
  <1>3. With(f, p, v) \in [DOMAIN f \cup {p} -> R]
    BY <1>1 DEF With
  <1>4. With(f, p, v) \in Partial(D, R)
    BY <1>1, <1>2, <1>3, PartialMeans
  <1> QED BY <1>2, <1>4 DEF With

\* Removing a point of a partial function keeps it one.
LEMMA WithoutIsPartial ==
  ASSUME NEW D, NEW R, NEW f \in Partial(D, R), NEW p
  PROVE  Without(f, p) \in Partial(D, R)
  <1>1. DOMAIN f \subseteq D /\ f \in [DOMAIN f -> R]
    BY PartialMeans
  <1>2. DOMAIN Without(f, p) = DOMAIN f \ {p}
    BY DEF Without
  <1>3. Without(f, p) \in [DOMAIN f \ {p} -> R]
    BY <1>1 DEF Without
  <1> QED BY <1>1, <1>2, <1>3, PartialMeans

\* The operators on rules keep them rules; which are left and what they say.
LEMMA PendedIsPartial ==
  ASSUME NEW r \in Partial(Positions, Rule), NEW P
  PROVE  /\ Pended(r, P) \in Partial(Positions, Rule)
         /\ DOMAIN Pended(r, P) = DOMAIN r
         /\ \A q \in DOMAIN r : /\ Pended(r, P)[q].stop = r[q].stop
                                /\ Pended(r, P)[q].pending => r[q].pending \/ q \in P
  <1>1. DOMAIN r \subseteq Positions /\ r \in [DOMAIN r -> Rule]
    BY PartialMeans
  <1>2. DOMAIN Pended(r, P) = DOMAIN r
    BY DEF Pended
  <1>3. ASSUME NEW q \in DOMAIN r
        PROVE  /\ Pended(r, P)[q] \in Rule
               /\ Pended(r, P)[q].stop = r[q].stop
               /\ Pended(r, P)[q].pending => r[q].pending \/ q \in P
    <2>1. r[q] \in Rule
      BY <1>1
    <2>2. CASE q \in P
      BY <2>1, <2>2 DEF Pended, Rule
    <2>3. CASE q \notin P
      BY <2>1, <2>3 DEF Pended, Rule
    <2> QED BY <2>2, <2>3
  <1>4. Pended(r, P) \in [DOMAIN r -> Rule]
    BY <1>2, <1>3 DEF Pended
  <1>5. Pended(r, P) \in Partial(Positions, Rule)
    BY <1>1, <1>2, <1>4, PartialMeans
  <1> QED BY <1>2, <1>3, <1>5

\* A refused close clears the request and touches nothing else.
LEMMA CloseFailedRules ==
  ASSUME rules \in Partial(Positions, Rule), NEW p \in DOMAIN rules, CloseFailed(p)
  PROVE  /\ rules' \in Partial(Positions, Rule)
         /\ DOMAIN rules' = DOMAIN rules
         /\ ~rules'[p].pending
         /\ \A q \in DOMAIN rules : /\ rules'[q].stop = rules[q].stop
                                    /\ rules'[q].pending => rules[q].pending
  <1>1. DOMAIN rules \subseteq Positions /\ rules \in [DOMAIN rules -> Rule]
    BY PartialMeans
  <1>2. rules' = [rules EXCEPT ![p] = [rules[p] EXCEPT !.pending = FALSE]]
    BY DEF CloseFailed
  <1>3. rules[p] \in Rule
    BY <1>1
  <1>4. /\ [rules[p] EXCEPT !.pending = FALSE] \in Rule
        /\ [rules[p] EXCEPT !.pending = FALSE].stop = rules[p].stop
        /\ ~[rules[p] EXCEPT !.pending = FALSE].pending
    BY <1>3 DEF Rule
  <1>5. rules' \in [DOMAIN rules -> Rule] /\ DOMAIN rules' = DOMAIN rules
    BY <1>1, <1>2, <1>4
  <1>6. rules' \in Partial(Positions, Rule)
    BY <1>1, <1>5, PartialMeans
  <1>7. \A q \in DOMAIN rules : q # p => rules'[q] = rules[q]
    BY <1>2
  <1>8. rules'[p] = [rules[p] EXCEPT !.pending = FALSE]
    BY <1>2
  <1> QED BY <1>4, <1>5, <1>6, <1>7, <1>8

\* Setting the stop of a rule touches nothing else.
LEMMA StopSetRules ==
  ASSUME rules \in Partial(Positions, Rule), NEW p \in DOMAIN rules, NEW s \in Stops,
         rules' = [rules EXCEPT ![p].stop = s]
  PROVE  /\ rules' \in Partial(Positions, Rule)
         /\ DOMAIN rules' = DOMAIN rules
         /\ rules'[p].stop = s
         /\ \A q \in DOMAIN rules : /\ q # p => rules'[q].stop = rules[q].stop
                                    /\ rules'[q].pending => rules[q].pending
  <1>1. DOMAIN rules \subseteq Positions /\ rules \in [DOMAIN rules -> Rule]
    BY PartialMeans
  <1>2. rules' = [rules EXCEPT ![p] = [rules[p] EXCEPT !.stop = s]]
    OBVIOUS
  <1>3. rules[p] \in Rule
    BY <1>1
  <1>4. /\ [rules[p] EXCEPT !.stop = s] \in Rule
        /\ [rules[p] EXCEPT !.stop = s].stop = s
        /\ [rules[p] EXCEPT !.stop = s].pending = rules[p].pending
    BY <1>3 DEF Rule
  <1>5. rules' \in [DOMAIN rules -> Rule] /\ DOMAIN rules' = DOMAIN rules
    BY <1>1, <1>2, <1>4
  <1>6. rules' \in Partial(Positions, Rule)
    BY <1>1, <1>5, PartialMeans
  <1>7. \A q \in DOMAIN rules : q # p => rules'[q] = rules[q]
    BY <1>2
  <1>8. rules'[p] = [rules[p] EXCEPT !.stop = s]
    BY <1>2
  <1> QED BY <1>4, <1>5, <1>6, <1>7, <1>8

\* A close that was filled removes the position, unless only a part of it was filled.
LEMMA CloseFilledVenue ==
  ASSUME TypeOK, NEW p, CloseFilled(p)
  PROVE  /\ venue' \in Partial(Positions, Stops)
         /\ DOMAIN venue' \subseteq DOMAIN venue
         /\ \A q \in DOMAIN venue' : venue'[q] = venue[q]
         /\ PartialFills \/ DOMAIN venue' = DOMAIN venue \ {p}
  <1>1. venue \in Partial(Positions, Stops)
    BY DEF TypeOK
  <1>2. CASE venue' = Without(venue, p)
    <2>1. Without(venue, p) \in Partial(Positions, Stops)
      BY <1>1, WithoutIsPartial
    <2>2. DOMAIN Without(venue, p) = DOMAIN venue \ {p}
      BY DEF Without
    <2>3. \A q \in DOMAIN venue \ {p} : Without(venue, p)[q] = venue[q]
      BY DEF Without
    <2> QED BY <1>2, <2>1, <2>2, <2>3
  <1>3. CASE PartialFills /\ venue' = venue
    BY <1>1, <1>3
  <1> QED BY <1>2, <1>3 DEF CloseFilled

\* A close that was refused or not answered may have removed the position.
LEMMA CloseRefusedVenue ==
  ASSUME TypeOK, NEW p, CloseRefused(p)
  PROVE  /\ venue' \in Partial(Positions, Stops)
         /\ DOMAIN venue' \subseteq DOMAIN venue
         /\ \A q \in DOMAIN venue' : venue'[q] = venue[q]
  <1>1. venue \in Partial(Positions, Stops)
    BY DEF TypeOK
  <1>2. CASE venue' = Without(venue, p)
    <2>1. Without(venue, p) \in Partial(Positions, Stops)
      BY <1>1, WithoutIsPartial
    <2>2. DOMAIN Without(venue, p) = DOMAIN venue \ {p}
      BY DEF Without
    <2>3. \A q \in DOMAIN venue \ {p} : Without(venue, p)[q] = venue[q]
      BY DEF Without
    <2> QED BY <1>2, <2>1, <2>2, <2>3
  <1>3. CASE venue' = venue
    BY <1>1, <1>3
  <1> QED BY <1>2, <1>3 DEF CloseRefused

-----------------------------------------------------------------------------
(* Closes, whoever asks for them, shrink. *)

\* A filled close and the confirmation of its rule.
LEMMA FilledShrinks ==
  ASSUME TypeOK, NEW p \in DOMAIN rules, CloseFilled(p), CloseConfirmed(p), kill' = kill
  PROVE  Shrinks /\ rules' = Without(rules, p) /\ DOMAIN rules' = DOMAIN rules \ {p}
  <1>1. rules \in Partial(Positions, Rule)
    BY DEF TypeOK, Rule
  <1>2. rules' = Without(rules, p)
    BY DEF CloseConfirmed
  <1>3. /\ rules' \in Partial(Positions, Rule)
        /\ DOMAIN rules' = DOMAIN rules \ {p}
        /\ \A q \in DOMAIN rules \ {p} : rules'[q] = rules[q]
    <2>1. Without(rules, p) \in Partial(Positions, Rule)
      BY <1>1, WithoutIsPartial
    <2>2. DOMAIN Without(rules, p) = DOMAIN rules \ {p}
      BY DEF Without
    <2>3. \A q \in DOMAIN rules \ {p} : Without(rules, p)[q] = rules[q]
      BY DEF Without
    <2> QED BY <1>2, <2>1, <2>2, <2>3
  <1>4. \A q \in DOMAIN rules \ DOMAIN rules' : CloseFilled(q) /\ CloseConfirmed(q)
    BY <1>3
  <1> QED BY <1>2, <1>3, <1>4, CloseFilledVenue DEF Shrinks

\* A refused close whose rule is told so.
LEMMA RefusedShrinks ==
  ASSUME TypeOK, NEW p \in DOMAIN rules, CloseRefused(p), CloseFailed(p), kill' = kill
  PROVE  Shrinks /\ DOMAIN rules' = DOMAIN rules
  <1>1. rules \in Partial(Positions, Rule)
    BY DEF TypeOK, Rule
  <1> QED BY <1>1, CloseFailedRules, CloseRefusedVenue DEF Shrinks

\* A close that raised, with the requests that were pending before it was sent.
LEMMA RaisedShrinks ==
  ASSUME TypeOK, NEW p, CloseRefused(p), NEW P, rules' = Pended(rules, P), kill'
  PROVE  Shrinks /\ DOMAIN rules' = DOMAIN rules
  <1>1. rules \in Partial(Positions, Rule)
    BY DEF TypeOK, Rule
  <1>2. /\ rules' \in Partial(Positions, Rule)
        /\ DOMAIN rules' = DOMAIN rules
        /\ \A q \in DOMAIN rules : rules'[q].stop = rules[q].stop
    BY <1>1, PendedIsPartial
  <1> QED BY <1>2, CloseRefusedVenue DEF Shrinks

\* Nothing happened to the venue and the rules.
LEMMA IdleShrinks ==
  ASSUME TypeOK, venue' = venue, rules' = rules, kill => kill'
  PROVE  Shrinks
  BY DEF TypeOK, Rule, Shrinks

\* A full close in whatever way it ends.
LEMMA FullCloseShrinks ==
  ASSUME TypeOK, NEW p, FullClose(p)
  PROVE  Shrinks /\ DOMAIN rules \ {p} \subseteq DOMAIN rules'
  <1>0. p \in DOMAIN rules
    BY DEF FullClose
  <1>1. CASE CloseFilled(p) /\ CloseConfirmed(p) /\ UNCHANGED kill
    BY <1>0, <1>1, FilledShrinks
  <1>2. CASE CloseRefused(p) /\ CloseFailed(p) /\ UNCHANGED kill
    BY <1>0, <1>2, RefusedShrinks
  <1>3. CASE CloseRefused(p) /\ rules' = Pended(rules, {p}) /\ Abandon
    <2>1. kill'
      BY <1>3 DEF Abandon
    <2> QED BY <1>3, <2>1, RaisedShrinks
  <1> QED BY <1>1, <1>2, <1>3 DEF FullClose

\* A close of the batch in whatever way it ends.
LEMMA SendCloseShrinks ==
  ASSUME TypeOK, NEW p, SendClose(p)
  PROVE  Shrinks /\ DOMAIN rules \ {p} \subseteq DOMAIN rules'
  <1>0. p \in DOMAIN rules
    BY DEF SendClose, TypeOK
  <1>1. CASE CloseFilled(p) /\ CloseConfirmed(p) /\ UNCHANGED kill
    BY <1>0, <1>1, FilledShrinks
  <1>2. CASE CloseRefused(p) /\ CloseFailed(p) /\ UNCHANGED kill
    BY <1>0, <1>2, RefusedShrinks
  <1>3. CASE CloseRefused(p) /\ Abandon /\ UNCHANGED rules
    <2>1. kill' /\ rules' = rules
      BY <1>3 DEF Abandon
    <2>2. rules \in Partial(Positions, Rule)
      BY DEF TypeOK, Rule
    <2> QED BY <1>3, <2>1, <2>2, CloseRefusedVenue DEF Shrinks
  <1> QED BY <1>1, <1>2, <1>3 DEF SendClose

\* Marking the requests of a batch as pending.
LEMMA ApplyExitsShrinks ==
  ASSUME TypeOK, NEW others, ApplyExits(others)
  PROVE  Shrinks /\ DOMAIN rules' = DOMAIN rules /\ batch' \subseteq DOMAIN rules
  <1> DEFINE due == {p \in DOMAIN rules : ~rules[p].pending /\ (Breached(p) \/ p \in others)}
  <1>1. rules' = Pended(rules, due) /\ batch' = due
    BY DEF ApplyExits
  <1>2. rules \in Partial(Positions, Rule)
    BY DEF TypeOK, Rule
  <1>3. due \subseteq DOMAIN rules
    OBVIOUS
  <1> HIDE DEF due
  <1>4. /\ rules' \in Partial(Positions, Rule)
        /\ DOMAIN rules' = DOMAIN rules
        /\ \A q \in DOMAIN rules : rules'[q].stop = rules[q].stop
    BY <1>1, <1>2, PendedIsPartial
  <1>5. venue' = venue /\ kill' = kill /\ venue \in Partial(Positions, Stops)
    BY DEF ApplyExits, TypeOK
  <1> QED BY <1>1, <1>3, <1>4, <1>5 DEF Shrinks

-----------------------------------------------------------------------------
(* The steps that do not only shrink. *)

\* A position is opened with a rule that says what the venue holds.
LEMMA OpenEffect ==
  ASSUME TypeOK, NEW p \in Positions, NEW stop \in Stops, Open(p, stop)
  PROVE  /\ venue' \in Partial(Positions, Stops)
         /\ rules' \in Partial(Positions, Rule)
         /\ DOMAIN venue' = DOMAIN venue \cup {p}
         /\ DOMAIN rules' = DOMAIN rules \cup {p}
         /\ venue'[p] = stop /\ rules'[p].stop = stop
         /\ \A q \in DOMAIN venue : q # p => venue'[q] = venue[q]
         /\ \A q \in DOMAIN rules : q # p => rules'[q] = rules[q]
         /\ ~rules'[p].pending
  <1> DEFINE r == [stop |-> stop, pending |-> FALSE]
  <1>1. r \in Rule /\ r.stop = stop /\ ~r.pending
    BY DEF Rule
  <1>2. venue' = With(venue, p, stop) /\ rules' = With(rules, p, r)
    BY DEF Open
  <1>3. venue \in Partial(Positions, Stops) /\ rules \in Partial(Positions, Rule)
    BY DEF TypeOK, Rule
  <1> HIDE DEF r
  <1>4. /\ venue' \in Partial(Positions, Stops)
        /\ DOMAIN venue' = DOMAIN venue \cup {p}
        /\ venue'[p] = stop
        /\ \A q \in DOMAIN venue : q # p => venue'[q] = venue[q]
    BY <1>2, <1>3, WithIsPartial
  <1>5. /\ rules' \in Partial(Positions, Rule)
        /\ DOMAIN rules' = DOMAIN rules \cup {p}
        /\ rules'[p] = r
        /\ \A q \in DOMAIN rules : q # p => rules'[q] = rules[q]
    BY <1>1, <1>2, <1>3, WithIsPartial
  <1> QED BY <1>1, <1>4, <1>5

\* A stop the venue moves, now or later, only rises.
LEMMA MoveEffect ==
  ASSUME TypeOK, NEW p, NEW stop \in Stops, Movable(p, stop), venue' = With(venue, p, stop)
  PROVE  /\ venue' \in Partial(Positions, Stops)
         /\ DOMAIN venue' = DOMAIN venue
         /\ venue'[p] = stop
         /\ \A q \in DOMAIN venue : q # p => venue'[q] = venue[q]
         /\ stop >= venue[p]
  <1>1. venue \in Partial(Positions, Stops)
    BY DEF TypeOK
  <1>2. p \in DOMAIN venue /\ stop >= venue[p]
    BY DEF Movable
  <1>3. p \in Positions
    BY <1>1, <1>2, PartialMeans
  <1>4. DOMAIN venue' = DOMAIN venue \cup {p}
    BY DEF With
  <1>5. With(venue, p, stop) \in Partial(Positions, Stops)
    BY <1>1, <1>3, WithIsPartial
  <1>6. venue'[p] = stop /\ \A q \in DOMAIN venue : q # p => venue'[q] = venue[q]
    BY DEF With
  <1> QED BY <1>2, <1>4, <1>5, <1>6

\* A tightening that was accepted moves both stops, any other leaves them.
LEMMA TightenEffect ==
  ASSUME TypeOK, NEW p, NEW stop \in Stops, Tighten(p, stop)
  PROVE  \/ Shrinks /\ DOMAIN rules' = DOMAIN rules
         \/ /\ ModifyAccepted(p, stop)
            /\ kill' = kill
            /\ rules' \in Partial(Positions, Rule)
            /\ DOMAIN rules' = DOMAIN rules
            /\ rules'[p].stop = stop
            /\ \A q \in DOMAIN rules : q # p => rules'[q].stop = rules[q].stop
  <1>1. p \in DOMAIN rules /\ rules \in Partial(Positions, Rule)
    BY DEF Tighten, TypeOK, Rule
  <1>2. CASE ModifyAccepted(p, stop) /\ rules' = [rules EXCEPT ![p].stop = stop] /\ kill' = kill
    BY <1>1, <1>2, StopSetRules
  <1>3. CASE ModifyRefused(p, stop) /\ RolledBack(p, rules[p].stop, stop) /\ kill'
    <2>1. rules[p].stop \in Stops
      <3>1. rules \in [DOMAIN rules -> Rule]
        BY <1>1, PartialMeans
      <3> QED BY <1>1, <3>1 DEF Rule
    <2>2. rules' = [rules EXCEPT ![p].stop = rules[p].stop]
      BY <1>3 DEF RolledBack
    <2>3. /\ rules' \in Partial(Positions, Rule)
          /\ DOMAIN rules' = DOMAIN rules
          /\ \A q \in DOMAIN rules : rules'[q].stop = rules[q].stop
      BY <1>1, <2>1, <2>2, StopSetRules
    <2>4. venue' = venue /\ venue \in Partial(Positions, Stops)
      BY <1>3 DEF ModifyRefused, TypeOK
    <2> QED BY <1>3, <2>3, <2>4 DEF Shrinks
  <1> QED BY <1>2, <1>3 DEF Tighten, Abandon

\* A restart takes the rules from the venue; what it cannot resolve trips the switch.
LEMMA RestartEffect ==
  ASSUME TypeOK, NEW unresolved, Restart(unresolved)
  PROVE  /\ venue' = venue
         /\ rules' \in Partial(Positions, Rule)
         /\ DOMAIN rules' = DOMAIN venue \ unresolved
         /\ \A p \in DOMAIN rules' : rules'[p].stop = venue[p] /\ ~rules'[p].pending
         /\ kill' \in BOOLEAN
         /\ unresolved # {} => kill'
  <1>1. DOMAIN venue \subseteq Positions /\ venue \in [DOMAIN venue -> Stops]
    BY PartialMeans DEF TypeOK
  <1>2. rules' = [p \in DOMAIN venue \ unresolved |-> [stop |-> venue[p], pending |-> FALSE]]
    BY DEF Restart
  <1>3. rules' \in [DOMAIN venue \ unresolved -> Rule]
    BY <1>1, <1>2 DEF Rule
  <1>4. DOMAIN rules' = DOMAIN venue \ unresolved
    BY <1>2
  <1>5. rules' \in Partial(Positions, Rule)
    BY <1>1, <1>3, <1>4, PartialMeans
  <1>6. \A p \in DOMAIN rules' : rules'[p].stop = venue[p] /\ ~rules'[p].pending
    BY <1>2
  <1>7. venue' = venue /\ kill' \in BOOLEAN /\ (unresolved # {} => kill')
    BY DEF Restart, HaltAfter
  <1> QED BY <1>4, <1>5, <1>6, <1>7

\* Every step shrinks, opens, moves a stop or is a restart.
LEMMA StepShape ==
  ASSUME TypeOK, [Next]_vars
  PROVE  \/ Shrinks
         \/ \E p \in Positions, stop \in Stops : Open(p, stop) \/ LateMove(p, stop) \/ Tighten(p, stop)
         \/ \E unresolved \in SUBSET Positions : Restart(unresolved)
  <1>1. CASE UNCHANGED vars
    BY <1>1, IdleShrinks DEF vars
  <1>2. CASE \E px \in Bids : Mark(px)
    BY <1>2, IdleShrinks DEF Mark
  <1>3. ASSUME NEW p \in Positions, PreserveNothing(p) \/ ThesisHolds(p)
        PROVE  Shrinks
    BY <1>3, IdleShrinks DEF PreserveNothing, ThesisHolds
  <1>4. ASSUME NEW p \in Positions, PartialCloseRaises(p) \/ RuleMissing(p)
        PROVE  Shrinks
    BY <1>4, IdleShrinks DEF PartialCloseRaises, RuleMissing, Abandon
  <1>5. ASSUME NEW p \in Positions, PreserveClose(p) \/ ThesisExit(p)
        PROVE  Shrinks
    BY <1>5, FullCloseShrinks DEF PreserveClose, ThesisExit
  <1>6. CASE \E others \in SUBSET Positions : ApplyExits(others)
    BY <1>6, ApplyExitsShrinks
  <1>7. CASE \E p \in Positions : SendClose(p)
    BY <1>7, SendCloseShrinks
  <1>8. CASE EndMark
    BY <1>8, IdleShrinks DEF EndMark
  <1>9. ASSUME NEW p \in Positions, VenueCloses(p)
        PROVE  Shrinks
    <2>1. venue \in Partial(Positions, Stops) /\ rules \in Partial(Positions, Rule)
      BY DEF TypeOK, Rule
    <2>2. venue' = Without(venue, p) /\ rules' = rules /\ kill' = kill
      BY <1>9 DEF VenueCloses
    <2>3. venue' \in Partial(Positions, Stops)
      BY <2>1, <2>2, WithoutIsPartial
    <2>4. DOMAIN venue' = DOMAIN venue \ {p} /\ \A q \in DOMAIN venue' : venue'[q] = venue[q]
      BY <2>2 DEF Without
    <2> QED BY <2>1, <2>2, <2>3, <2>4 DEF Shrinks
  <1> QED
    BY <1>1, <1>2, <1>3, <1>4, <1>5, <1>6, <1>7, <1>8, <1>9 DEF Next, Supervise, Exits

-----------------------------------------------------------------------------
(* Types. *)

\* The stops of the venue and of the rules stay stops.
LEMMA DataTypes ==
  ASSUME TypeOK, [Next]_vars
  PROVE  venue' \in Partial(Positions, Stops) /\ rules' \in Partial(Positions, Rule)
  <1>1. venue \in Partial(Positions, Stops) /\ rules \in Partial(Positions, Rule)
    BY DEF TypeOK, Rule
  <1>2. CASE Shrinks
    BY <1>2 DEF Shrinks
  <1>3. ASSUME NEW p \in Positions, NEW stop \in Stops, Open(p, stop)
        PROVE  venue' \in Partial(Positions, Stops) /\ rules' \in Partial(Positions, Rule)
    BY <1>3, OpenEffect
  <1>4. ASSUME NEW p \in Positions, NEW stop \in Stops, LateMove(p, stop)
        PROVE  venue' \in Partial(Positions, Stops) /\ rules' \in Partial(Positions, Rule)
    <2>1. rules' = rules
      BY <1>4 DEF LateMove
    <2>2. CASE Movable(p, stop)
      BY <1>1, <1>4, <2>1, <2>2, MoveEffect DEF LateMove
    <2>3. CASE ~Movable(p, stop)
      BY <1>1, <1>4, <2>1, <2>3 DEF LateMove
    <2> QED BY <2>2, <2>3
  <1>5. ASSUME NEW p \in Positions, NEW stop \in Stops, Tighten(p, stop)
        PROVE  venue' \in Partial(Positions, Stops) /\ rules' \in Partial(Positions, Rule)
    <2>1. CASE Shrinks
      BY <2>1 DEF Shrinks
    <2>2. CASE ModifyAccepted(p, stop)
      <3>1. venue' \in Partial(Positions, Stops)
        BY <2>2, MoveEffect DEF ModifyAccepted
      <3>2. rules' \in Partial(Positions, Rule)
        BY <1>5, TightenEffect DEF Shrinks
      <3> QED BY <3>1, <3>2
    <2> QED BY <1>5, <2>1, <2>2, TightenEffect
  <1>6. ASSUME NEW unresolved \in SUBSET Positions, Restart(unresolved)
        PROVE  venue' \in Partial(Positions, Stops) /\ rules' \in Partial(Positions, Rule)
    BY <1>1, <1>6, RestartEffect
  <1> QED BY <1>2, <1>3, <1>4, <1>5, <1>6, StepShape

\* Everything of the invariant but the types of the venue and of the rules.
Control ==
  /\ late \subseteq Positions \X Stops
  /\ fresh \subseteq Positions
  /\ entries \subseteq Positions
  /\ kill \in BOOLEAN
  /\ bid \in Bids
  /\ pc \in {"idle", "supervise", "exits"}
  /\ todo \subseteq Positions
  /\ at \in Positions \cup {None}
  /\ batch \subseteq DOMAIN rules
  /\ batch # {} => pc = "exits"
  /\ at # None => pc = "supervise"

\* Everything but the stops and the rules, one step per action.
LEMMA ControlStep ==
  ASSUME ProtInv, [Next]_vars
  PROVE  Control'
  <1>0. TypeOK /\ Control
    BY DEF ProtInv, TypeOK, Control
  <1>1. CASE UNCHANGED vars
    BY <1>0, <1>1 DEF vars, Control
  <1>2. ASSUME NEW px \in Bids, Mark(px)
        PROVE  Control'
    BY <1>0, <1>2 DEF Mark, Control
  <1>3. ASSUME NEW p \in Positions, PreserveNothing(p)
        PROVE  Control'
    BY <1>0, <1>3 DEF PreserveNothing, Supervising, ToThesis, Control
  <1>4. ASSUME NEW p \in Positions, PartialCloseRaises(p)
        PROVE  Control'
    BY <1>0, <1>4 DEF PartialCloseRaises, Supervising, Abandon, Control
  <1>5. ASSUME NEW p \in Positions, RuleMissing(p)
        PROVE  Control'
    BY <1>0, <1>5 DEF RuleMissing, Abandon, Control
  <1>6. ASSUME NEW p \in Positions, ThesisHolds(p)
        PROVE  Control'
    BY <1>0, <1>6 DEF ThesisHolds, Done, Control
  <1>7. ASSUME NEW p \in Positions, FullClose(p), pc = "supervise", at = p \/ at = None
        PROVE  Control'
    <2>1. batch = {}
      BY <1>0, <1>7 DEF Control
    <2>2. CASE Abandon
      BY <1>0, <2>2, <1>7 DEF Abandon, Control, FullClose, CloseFilled, CloseRefused
    <2>3. CASE Done(p) /\ kill' = kill /\ entries' \subseteq entries
      BY <1>0, <2>1, <2>3, <1>7 DEF Done, Control, FullClose, CloseFilled, CloseRefused
    <2>4. CASE ToThesis(p) /\ kill' = kill /\ entries' \subseteq entries
      BY <1>0, <2>1, <2>4, <1>7 DEF ToThesis, Control, FullClose, CloseFilled, CloseRefused
    <2> QED BY <1>7, <2>2, <2>3, <2>4 DEF FullClose
  <1>8. ASSUME NEW p \in Positions, PreserveClose(p) \/ ThesisExit(p)
        PROVE  Control'
    <2>1. FullClose(p) /\ pc = "supervise" /\ (at = p \/ at = None)
      BY <1>0, <1>8, ProtectionAssumption DEF PreserveClose, ThesisExit, Supervising, Control
    <2> QED BY <1>7, <2>1
  <1>9. ASSUME NEW others \in SUBSET Positions, ApplyExits(others)
        PROVE  Control'
    <2>1. batch' \subseteq DOMAIN rules'
      BY <1>0, <1>9, ApplyExitsShrinks
    <2> QED BY <1>0, <1>9, <2>1 DEF ApplyExits, Control
  <1>10. ASSUME NEW p \in Positions, SendClose(p)
         PROVE  Control'
    <2>1. DOMAIN rules \ {p} \subseteq DOMAIN rules'
      BY <1>0, <1>10, SendCloseShrinks
    <2>2. pc = "exits" /\ at = None
      BY <1>0, <1>10 DEF SendClose, Control
    <2>3. CASE Abandon
      BY <1>0, <1>10, <2>3 DEF Abandon, Control, SendClose, CloseFilled, CloseRefused
    <2>4. CASE batch' = batch \ {p} /\ UNCHANGED <<late, fresh, entries, kill, bid, pc, todo, at>>
      BY <1>0, <2>1, <2>2, <2>4 DEF Control
    <2> QED BY <1>10, <2>3, <2>4 DEF SendClose, CloseFilled, CloseRefused
  <1>11. CASE EndMark
    BY <1>0, <1>11, ProtectionAssumption DEF EndMark, Control
  <1>12. ASSUME NEW p \in Positions, NEW stop \in Stops, Open(p, stop)
         PROVE  Control'
    <2>1. DOMAIN rules' = DOMAIN rules \cup {p}
      BY <1>0, <1>12, OpenEffect
    <2> QED BY <1>0, <1>12, <2>1 DEF Open, Control
  <1>13. ASSUME NEW p \in Positions, NEW stop \in Stops, LateMove(p, stop)
         PROVE  Control'
    BY <1>0, <1>13 DEF LateMove, Control
  <1>14. ASSUME NEW p \in Positions, VenueCloses(p)
         PROVE  Control'
    BY <1>0, <1>14 DEF VenueCloses, Control
  <1>15. ASSUME NEW p \in Positions, NEW stop \in Stops, Tighten(p, stop)
         PROVE  Control'
    <2>1. late' \subseteq Positions \X Stops
      BY <1>0, <1>15 DEF Tighten, ModifyAccepted, ModifyRefused, Control
    <2>2. DOMAIN rules' = DOMAIN rules
      BY <1>0, <1>15, TightenEffect
    <2>3. CASE Abandon
      BY <1>0, <2>1, <2>3 DEF Abandon, Control
    <2>4. CASE ToThesis(p) /\ kill' \in BOOLEAN /\ entries' = entries
      BY <1>0, <1>15, <2>1, <2>2, <2>4 DEF ToThesis, Tighten, Supervising, Control
    <2>5. kill \in BOOLEAN
      BY <1>0 DEF Control
    <2> QED BY <1>15, <2>3, <2>4, <2>5 DEF Tighten
  <1>16. ASSUME NEW unresolved \in SUBSET Positions, Restart(unresolved)
         PROVE  Control'
    <2>1. kill' \in BOOLEAN
      BY <1>0, <1>16, RestartEffect
    <2>2. DOMAIN venue \subseteq Positions
      BY <1>0, PartialMeans DEF TypeOK
    <2> QED BY <1>0, <1>16, <2>1, <2>2 DEF Restart, Control
  <1> QED
    BY <1>1, <1>2, <1>3, <1>4, <1>5, <1>6, <1>8, <1>9, <1>10, <1>11, <1>12, <1>13,
       <1>14, <1>15, <1>16 DEF Next, Supervise, Exits

(***************************************************************************)
(* Every state the marks, refusals, exceptions and restarts can reach is    *)
(* well formed, and a batch exists only while its exits are being sent.     *)
(***************************************************************************)
THEOREM ProtectionTypes == Spec => []ProtInv
  <1>1. Init => ProtInv
    <2> SUFFICES ASSUME Init PROVE ProtInv
      OBVIOUS
    <2>1. DOMAIN venue = {} /\ DOMAIN rules = {}
      BY DEF Init
    <2>2. venue \in [DOMAIN venue -> Stops] /\ rules \in [DOMAIN rules -> Rule]
      BY <2>1 DEF Init
    <2>3. venue \in Partial(Positions, Stops) /\ rules \in Partial(Positions, Rule)
      BY <2>1, <2>2, PartialMeans
    <2>4. MaxStop + 1 \in Bids
      BY ProtectionAssumption DEF Bids
    <2> QED BY <2>3, <2>4 DEF Init, ProtInv, TypeOK, Rule
  <1>2. ProtInv /\ [Next]_vars => ProtInv'
    <2> SUFFICES ASSUME ProtInv, [Next]_vars PROVE ProtInv'
      OBVIOUS
    <2>1. venue' \in Partial(Positions, Stops) /\ rules' \in Partial(Positions, Rule)
      BY DataTypes DEF ProtInv
    <2>2. Control'
      BY ControlStep
    <2> QED BY <2>1, <2>2 DEF ProtInv, TypeOK, Control, Rule
  <1> QED BY <1>1, <1>2, PTL DEF Spec

\* The type invariant of the component (the state of protection.py, router.py and
\* trade_lifecycle.py stays in its domains).
THEOREM ProtectionTypeOK == Spec => []TypeOK
  <1>1. ProtInv => TypeOK
    BY DEF ProtInv
  <1> QED BY <1>1, ProtectionTypes, PTL

-----------------------------------------------------------------------------
(* The mirror. *)

\* A step keeps every rule at or below the stop the venue holds.
LEMMA MirrorStep ==
  ASSUME TypeOK, TypeOK', MirrorNotTighter, [Next]_vars
  PROVE  MirrorNotTighter'
  <1>0. /\ DOMAIN venue \subseteq Positions /\ venue \in [DOMAIN venue -> Stops]
        /\ DOMAIN rules \subseteq Positions /\ rules \in [DOMAIN rules -> Rule]
    <2>1. venue \in Partial(Positions, Stops) /\ rules \in Partial(Positions, Rule)
      BY DEF TypeOK, Rule
    <2> QED BY <2>1, PartialMeans
  <1>1. CASE Shrinks
    <2> SUFFICES ASSUME NEW p \in DOMAIN rules' \cap DOMAIN venue'
                 PROVE  rules'[p].stop <= venue'[p]
      BY DEF MirrorNotTighter
    <2>1. p \in DOMAIN rules \cap DOMAIN venue
      BY <1>1 DEF Shrinks
    <2>2. rules'[p].stop = rules[p].stop /\ venue'[p] = venue[p]
      BY <1>1 DEF Shrinks
    <2> QED BY <2>1, <2>2 DEF MirrorNotTighter
  <1>2. ASSUME NEW p \in Positions, NEW stop \in Stops, Open(p, stop)
        PROVE  MirrorNotTighter'
    <2> SUFFICES ASSUME NEW q \in DOMAIN rules' \cap DOMAIN venue'
                 PROVE  rules'[q].stop <= venue'[q]
      BY DEF MirrorNotTighter
    <2>0. /\ DOMAIN venue' = DOMAIN venue \cup {p}
          /\ DOMAIN rules' = DOMAIN rules \cup {p}
          /\ venue'[p] = stop /\ rules'[p].stop = stop
          /\ \A x \in DOMAIN venue : x # p => venue'[x] = venue[x]
          /\ \A x \in DOMAIN rules : x # p => rules'[x] = rules[x]
      BY <1>2, OpenEffect
    <2>1. CASE q = p
      BY <2>0, <2>1 DEF Stops
    <2>2. CASE q # p
      <3>1. q \in DOMAIN rules \cap DOMAIN venue
        BY <2>0, <2>2
      <3>2. rules'[q] = rules[q] /\ venue'[q] = venue[q]
        BY <2>0, <2>2, <3>1
      <3> QED BY <3>1, <3>2 DEF MirrorNotTighter
    <2> QED BY <2>1, <2>2
  <1>3. ASSUME NEW p \in Positions, NEW stop \in Stops, LateMove(p, stop)
        PROVE  MirrorNotTighter'
    <2>1. rules' = rules
      BY <1>3 DEF LateMove
    <2>2. CASE ~Movable(p, stop)
      BY <1>3, <2>1, <2>2 DEF LateMove, MirrorNotTighter
    <2>3. CASE Movable(p, stop)
      <3>1. /\ DOMAIN venue' = DOMAIN venue
            /\ venue'[p] = stop /\ stop >= venue[p]
            /\ \A q \in DOMAIN venue : q # p => venue'[q] = venue[q]
        BY <1>3, <2>3, MoveEffect DEF LateMove
      <3> SUFFICES ASSUME NEW q \in DOMAIN rules \cap DOMAIN venue
                   PROVE  rules[q].stop <= venue'[q]
        BY <2>1, <3>1 DEF MirrorNotTighter
      <3>2. rules[q].stop <= venue[q]
        BY DEF MirrorNotTighter
      <3>3. venue[q] \in Stops /\ rules[q].stop \in Stops
        BY <1>0 DEF Rule
      <3>4. CASE q = p
        BY <3>1, <3>2, <3>3, <3>4 DEF Stops
      <3>5. CASE q # p
        BY <3>1, <3>2, <3>5
      <3> QED BY <3>4, <3>5
    <2> QED BY <2>2, <2>3
  <1>4. ASSUME NEW p \in Positions, NEW stop \in Stops, Tighten(p, stop), ~Shrinks
        PROVE  MirrorNotTighter'
    <2>1. /\ ModifyAccepted(p, stop)
          /\ DOMAIN rules' = DOMAIN rules
          /\ rules'[p].stop = stop
          /\ \A q \in DOMAIN rules : q # p => rules'[q].stop = rules[q].stop
      BY <1>4, TightenEffect
    <2>2. Movable(p, stop) /\ venue' = With(venue, p, stop)
      BY <2>1 DEF ModifyAccepted
    <2>3. /\ DOMAIN venue' = DOMAIN venue
          /\ venue'[p] = stop
          /\ \A q \in DOMAIN venue : q # p => venue'[q] = venue[q]
      BY <2>2, MoveEffect
    <2> SUFFICES ASSUME NEW q \in DOMAIN rules \cap DOMAIN venue
                 PROVE  rules'[q].stop <= venue'[q]
      BY <2>1, <2>3 DEF MirrorNotTighter
    <2>4. CASE q = p
      BY <2>1, <2>3, <2>4 DEF Stops
    <2>5. CASE q # p
      BY <2>1, <2>3, <2>5 DEF MirrorNotTighter
    <2> QED BY <2>4, <2>5
  <1>5. ASSUME NEW unresolved \in SUBSET Positions, Restart(unresolved)
        PROVE  MirrorNotTighter'
    <2>1. /\ venue' = venue
          /\ DOMAIN rules' \subseteq DOMAIN venue
          /\ \A p \in DOMAIN rules' : rules'[p].stop = venue[p]
      BY <1>5, RestartEffect
    <2> QED BY <1>0, <2>1 DEF MirrorNotTighter, Stops
  <1> QED BY <1>1, <1>2, <1>3, <1>4, <1>5, StepShape

(***************************************************************************)
(* The rule's stop is never beyond the stop the venue holds, for any number *)
(* of positions and stop levels and whatever the adapter calls come to.     *)
(***************************************************************************)
THEOREM MirrorIsNotTighter == Spec => []MirrorNotTighter
  <1>1. Init => MirrorNotTighter
    BY DEF Init, MirrorNotTighter
  <1>2. TypeOK /\ TypeOK' /\ MirrorNotTighter /\ [Next]_vars => MirrorNotTighter'
    BY MirrorStep
  <1> QED BY <1>1, <1>2, ProtectionTypeOK, PTL DEF Spec

-----------------------------------------------------------------------------
(* No stop is loosened. *)

\* A position not opened yet is neither at the venue nor in a rule.
FreshInv == fresh \cap (DOMAIN venue \cup DOMAIN rules) = {}

\* Only an opening takes a position that was fresh; none becomes fresh again.
LEMMA FreshShrinks ==
  ASSUME [Next]_vars
  PROVE  fresh' \subseteq fresh
  <1>1. ASSUME NEW p \in Positions, FullClose(p) PROVE fresh' \subseteq fresh
    BY <1>1 DEF FullClose, Done, ToThesis, Abandon
  <1>2. ASSUME NEW p \in Positions, NEW stop \in Stops, Tighten(p, stop)
        PROVE  fresh' \subseteq fresh
    BY <1>2 DEF Tighten, ToThesis, Abandon
  <1>3. ASSUME NEW p \in Positions, SendClose(p) PROVE fresh' \subseteq fresh
    BY <1>3 DEF SendClose, Abandon
  <1>4. CASE Supervise
    BY <1>1, <1>2, <1>4
       DEF Supervise, PreserveNothing, PartialCloseRaises, PreserveClose, RuleMissing,
           ThesisHolds, ThesisExit, ToThesis, Done, Abandon
  <1>5. CASE Exits
    BY <1>3, <1>5 DEF Exits, ApplyExits, EndMark
  <1>6. CASE \E p \in Positions, stop \in Stops : Open(p, stop) \/ LateMove(p, stop)
    BY <1>6 DEF Open, LateMove
  <1>7. CASE \E unresolved \in SUBSET Positions : Restart(unresolved)
    BY <1>7 DEF Restart
  <1> QED BY <1>4, <1>5, <1>6, <1>7 DEF Next, Mark, VenueCloses, vars

\* A late move, carried out or not, opens nothing and gives up no rule.
LEMMA LateMoveEffect ==
  ASSUME TypeOK, NEW p \in Positions, NEW stop \in Stops, LateMove(p, stop)
  PROVE  /\ DOMAIN venue' = DOMAIN venue
         /\ \A q \in DOMAIN venue : venue[q] <= venue'[q]
         /\ rules' = rules
  <1>0. venue \in [DOMAIN venue -> Stops]
    BY PartialMeans DEF TypeOK
  <1>1. CASE Movable(p, stop)
    BY <1>0, <1>1, MoveEffect DEF LateMove, Stops
  <1>2. CASE ~Movable(p, stop)
    BY <1>0, <1>2 DEF LateMove, Stops
  <1> QED BY <1>1, <1>2 DEF LateMove

\* An accepted tightening opens nothing and raises the stop at the venue.
LEMMA AcceptedEffect ==
  ASSUME TypeOK, NEW p \in Positions, NEW stop \in Stops, ModifyAccepted(p, stop)
  PROVE  /\ DOMAIN venue' = DOMAIN venue
         /\ \A q \in DOMAIN venue : venue[q] <= venue'[q]
  <1>0. venue \in [DOMAIN venue -> Stops]
    BY PartialMeans DEF TypeOK
  <1> QED BY <1>0, MoveEffect DEF ModifyAccepted, Stops

\* One step of FreshInv.
LEMMA FreshStep ==
  ASSUME TypeOK, FreshInv, [Next]_vars
  PROVE  FreshInv'
  <1>0. fresh' \subseteq fresh
    BY FreshShrinks
  <1>1. CASE Shrinks
    BY <1>0, <1>1 DEF Shrinks, FreshInv
  <1>2. ASSUME NEW p \in Positions, NEW stop \in Stops, Open(p, stop)
        PROVE  FreshInv'
    <2>1. fresh' = fresh \ {p}
      BY <1>2 DEF Open
    <2>2. DOMAIN venue' = DOMAIN venue \cup {p} /\ DOMAIN rules' = DOMAIN rules \cup {p}
      BY <1>2, OpenEffect
    <2> QED BY <2>1, <2>2 DEF FreshInv
  <1>3. ASSUME NEW p \in Positions, NEW stop \in Stops, LateMove(p, stop)
        PROVE  FreshInv'
    BY <1>0, <1>3, LateMoveEffect DEF FreshInv
  <1>4. ASSUME NEW p \in Positions, NEW stop \in Stops, Tighten(p, stop), ~Shrinks
        PROVE  FreshInv'
    <2>1. ModifyAccepted(p, stop) /\ DOMAIN rules' = DOMAIN rules
      BY <1>4, TightenEffect
    <2>2. DOMAIN venue' = DOMAIN venue
      BY <2>1, AcceptedEffect
    <2> QED BY <1>0, <2>1, <2>2 DEF FreshInv
  <1>5. ASSUME NEW unresolved \in SUBSET Positions, Restart(unresolved)
        PROVE  FreshInv'
    <2>1. venue' = venue /\ DOMAIN rules' \subseteq DOMAIN venue
      BY <1>5, RestartEffect
    <2> QED BY <1>0, <2>1 DEF FreshInv
  <1> QED BY <1>1, <1>2, <1>3, <1>4, <1>5, StepShape

(***************************************************************************)
(* No position's stop is ever loosened, at the venue or in the rule: not by *)
(* a rollback, not by a move carried out after a newer one, and not by the  *)
(* restart that takes the rules from the venue (tighten, rollback_          *)
(* unconfirmed_tighten, modify_stop, restore).                              *)
(***************************************************************************)
StopsNeverLoosen ==
  [][/\ \A p \in DOMAIN venue \cap DOMAIN venue' : venue[p] <= venue'[p]
     /\ \A p \in DOMAIN rules \cap DOMAIN rules' : rules[p].stop <= rules'[p].stop]_vars

\* A restart may only raise a rule's stop because the mirror was not tighter.
LEMMA LoosenStep ==
  ASSUME TypeOK, MirrorNotTighter, FreshInv, [Next]_vars
  PROVE  /\ \A p \in DOMAIN venue \cap DOMAIN venue' : venue[p] <= venue'[p]
         /\ \A p \in DOMAIN rules \cap DOMAIN rules' : rules[p].stop <= rules'[p].stop
  <1> DEFINE Kept == /\ \A p \in DOMAIN venue \cap DOMAIN venue' : venue[p] <= venue'[p]
                     /\ \A p \in DOMAIN rules \cap DOMAIN rules' : rules[p].stop <= rules'[p].stop
  <1>0. /\ \A q \in DOMAIN venue : venue[q] \in Stops
        /\ \A q \in DOMAIN rules : rules[q].stop \in Stops
    <2>1. venue \in [DOMAIN venue -> Stops] /\ rules \in [DOMAIN rules -> Rule]
      BY PartialMeans DEF TypeOK, Rule
    <2> QED BY <2>1 DEF Rule
  <1>00. \A s \in Stops : s <= s
    BY DEF Stops
  <1>1. CASE Shrinks
    BY <1>0, <1>00, <1>1 DEF Shrinks
  <1>2. ASSUME NEW p \in Positions, NEW stop \in Stops, Open(p, stop)
        PROVE  Kept
    <2>1. p \notin DOMAIN venue /\ p \notin DOMAIN rules
      BY <1>2 DEF Open, FreshInv
    <2>2. /\ \A q \in DOMAIN venue : q # p => venue'[q] = venue[q]
          /\ \A q \in DOMAIN rules : q # p => rules'[q] = rules[q]
      BY <1>2, OpenEffect
    <2> QED BY <1>0, <1>00, <2>1, <2>2
  <1>3. ASSUME NEW p \in Positions, NEW stop \in Stops, LateMove(p, stop)
        PROVE  Kept
    BY <1>0, <1>00, <1>3, LateMoveEffect
  <1>4. ASSUME NEW p \in Positions, NEW stop \in Stops, Tighten(p, stop), ~Shrinks
        PROVE  Kept
    <2>1. /\ ModifyAccepted(p, stop)
          /\ rules'[p].stop = stop
          /\ \A q \in DOMAIN rules : q # p => rules'[q].stop = rules[q].stop
      BY <1>4, TightenEffect
    <2>2. \A q \in DOMAIN venue : venue[q] <= venue'[q]
      BY <2>1, AcceptedEffect
    <2>3. p \in DOMAIN rules /\ stop > rules[p].stop
      BY <1>4 DEF Tighten
    <2>4. rules[p].stop <= rules'[p].stop
      BY <1>0, <2>1, <2>3 DEF Stops
    <2> QED BY <1>0, <1>00, <2>1, <2>2, <2>4
  <1>5. ASSUME NEW unresolved \in SUBSET Positions, Restart(unresolved)
        PROVE  Kept
    <2>1. /\ venue' = venue
          /\ DOMAIN rules' \subseteq DOMAIN venue
          /\ \A p \in DOMAIN rules' : rules'[p].stop = venue[p]
      BY <1>5, RestartEffect
    <2>2. \A p \in DOMAIN rules \cap DOMAIN rules' : rules[p].stop <= rules'[p].stop
      BY <2>1 DEF MirrorNotTighter
    <2> QED BY <1>0, <1>00, <2>1, <2>2
  <1> QED BY <1>1, <1>2, <1>3, <1>4, <1>5, StepShape

\* Every step of every behaviour keeps or raises both stops.
THEOREM NoStopIsLoosened == Spec => StopsNeverLoosen
  <1>1. Init => FreshInv
    BY DEF Init, FreshInv
  <1>2. TypeOK /\ FreshInv /\ [Next]_vars => FreshInv'
    BY FreshStep
  <1>3. TypeOK /\ MirrorNotTighter /\ FreshInv /\ [Next]_vars
        => [/\ \A p \in DOMAIN venue \cap DOMAIN venue' : venue[p] <= venue'[p]
            /\ \A p \in DOMAIN rules \cap DOMAIN rules' : rules[p].stop <= rules'[p].stop]_vars
    BY LoosenStep
  <1>4. Spec => []FreshInv
    BY <1>1, <1>2, ProtectionTypeOK, PTL DEF Spec
  <1>5. Spec => [][/\ \A p \in DOMAIN venue \cap DOMAIN venue' : venue[p] <= venue'[p]
                   /\ \A p \in DOMAIN rules \cap DOMAIN rules' : rules[p].stop <= rules'[p].stop]_vars
    BY <1>3, <1>4, ProtectionTypeOK, MirrorIsNotTighter, PTL DEF Spec
  <1> QED BY <1>5 DEF StopsNeverLoosen

-----------------------------------------------------------------------------
(* Rules and closed positions. *)

(***************************************************************************)
(* The close of p is answered FILLED and its rule given up, in one of the   *)
(* three places that send closes.                                           *)
(***************************************************************************)
CloseAnswered(p) ==
  /\ PreserveClose(p) \/ ThesisExit(p) \/ SendClose(p)
  /\ CloseFilled(p)
  /\ CloseConfirmed(p)

\* Where no fill is partial, a position whose close is filled is closed.
LEMMA WholeFillCloses ==
  ASSUME TypeOK, ~PartialFills, NEW q, CloseFilled(q)
  PROVE  q \notin DOMAIN venue'
  BY CloseFilledVenue

\* A step that gives a rule up answers the close of that rule's position.
LEMMA RuleLost ==
  ASSUME TypeOK, [Next]_vars, ~\E unresolved \in SUBSET Positions : Restart(unresolved),
         NEW q \in DOMAIN rules \ DOMAIN rules'
  PROVE  CloseAnswered(q)
  <1>1. ASSUME NEW p \in Positions, NEW stop \in Stops
        PROVE  ~Open(p, stop) /\ ~LateMove(p, stop) /\ (Tighten(p, stop) => Shrinks)
    BY OpenEffect, TightenEffect DEF LateMove
  <1>2. Shrinks
    BY <1>1, StepShape
  <1>3. CloseFilled(q) /\ CloseConfirmed(q)
    BY <1>2 DEF Shrinks
  <1>4. ASSUME NEW p \in Positions, PreserveClose(p) \/ ThesisExit(p) \/ SendClose(p)
        PROVE  CloseAnswered(q)
    <2>1. DOMAIN rules \ {p} \subseteq DOMAIN rules'
      BY <1>4, FullCloseShrinks, SendCloseShrinks DEF PreserveClose, ThesisExit
    <2>2. q = p
      BY <2>1
    <2> QED BY <1>3, <1>4, <2>2 DEF CloseAnswered
  <1>5. \A others \in SUBSET Positions : ~ApplyExits(others)
    BY ApplyExitsShrinks
  <1>6. rules' # rules
    OBVIOUS
  <1>7. ~UNCHANGED vars /\ ~EndMark /\ \A px \in Bids : ~Mark(px)
    BY <1>6 DEF vars, EndMark, Mark
  <1>8. ASSUME NEW p \in Positions
        PROVE  /\ ~PreserveNothing(p) /\ ~PartialCloseRaises(p) /\ ~RuleMissing(p)
               /\ ~ThesisHolds(p) /\ ~VenueCloses(p)
    BY <1>6 DEF PreserveNothing, PartialCloseRaises, RuleMissing, ThesisHolds, VenueCloses
  <1>9. ASSUME NEW p \in Positions, NEW stop \in Stops
        PROVE  ~Tighten(p, stop)
    BY TightenEffect
  <1> QED BY <1>1, <1>4, <1>5, <1>7, <1>8, <1>9 DEF Next, Supervise, Exits

(***************************************************************************)
(* Whatever fills, raises or is refused: within a life of the process a     *)
(* rule ends only in the step in which its own position's close is answered *)
(* FILLED - never with another position's close, a refusal, an exception, a *)
(* refused tightening or the mark that abandons a batch (close_confirmed,   *)
(* whose only callers stand behind a FILLED receipt).                       *)
(***************************************************************************)
RuleEndsWithItsClose ==
  [][\/ \E unresolved \in SUBSET Positions : Restart(unresolved)
     \/ \A p \in DOMAIN rules \ DOMAIN rules' : CloseAnswered(p)]_vars

THEOREM OnlyItsCloseEndsARule == Spec => RuleEndsWithItsClose
  <1> DEFINE Kept == \/ \E unresolved \in SUBSET Positions : Restart(unresolved)
                     \/ \A p \in DOMAIN rules \ DOMAIN rules' : CloseAnswered(p)
  <1>1. TypeOK /\ [Next]_vars => [Kept]_vars
    BY RuleLost
  <1>2. Spec => [][Kept]_vars
    BY <1>1, ProtectionTypeOK, PTL DEF Spec
  <1> QED BY <1>2 DEF RuleEndsWithItsClose

(***************************************************************************)
(* The open positions that nothing watches while the account takes new      *)
(* risk.                                                                    *)
(***************************************************************************)
Orphans == {p \in DOMAIN venue : p \notin DOMAIN rules /\ ~kill}

(***************************************************************************)
(* There is one way for an open position to become unwatched on a trading   *)
(* account: its own close is answered FILLED although a part of it stays    *)
(* open.  Late fills of other closes, moves, refusals, exceptions and any   *)
(* number of restarts make none (FilledIsManagedOrHalted without the        *)
(* assumption that fills are whole).                                        *)
(***************************************************************************)
OrphansAreMisreported ==
  [][\A p \in Orphans' \ Orphans : CloseAnswered(p) /\ PartialFills /\ venue' = venue]_vars

THEOREM OnlyMisreportedFillsOrphan == Spec => OrphansAreMisreported
  <1> DEFINE Told == \A p \in Orphans' \ Orphans :
                       CloseAnswered(p) /\ PartialFills /\ venue' = venue
  <1>1. TypeOK /\ [Next]_vars => [Told]_vars
    <2> SUFFICES ASSUME TypeOK, [Next]_vars, NEW p \in DOMAIN venue',
                        p \notin DOMAIN rules', ~kill',
                        p \notin DOMAIN venue \/ p \in DOMAIN rules \/ kill
                 PROVE  CloseAnswered(p) /\ PartialFills /\ venue' = venue
      BY DEF Orphans
    <2>1. ASSUME NEW unresolved \in SUBSET Positions PROVE ~Restart(unresolved)
      <3> SUFFICES ASSUME Restart(unresolved) PROVE FALSE
        OBVIOUS
      <3> QED BY RestartEffect
    <2>2. ASSUME NEW q \in Positions, NEW stop \in Stops, Open(q, stop)
          PROVE  FALSE
      <3>1. /\ DOMAIN venue' = DOMAIN venue \cup {q}
            /\ DOMAIN rules' = DOMAIN rules \cup {q}
            /\ kill' = kill
        BY <2>2, OpenEffect DEF Open
      <3> QED BY <3>1
    <2>3. ASSUME NEW q \in Positions, NEW stop \in Stops, LateMove(q, stop)
          PROVE  FALSE
      <3>1. DOMAIN venue' = DOMAIN venue
        <4>1. CASE Movable(q, stop)
          BY <2>3, <4>1, MoveEffect DEF LateMove
        <4>2. CASE ~Movable(q, stop)
          BY <2>3, <4>2 DEF LateMove
        <4> QED BY <4>1, <4>2
      <3> QED BY <2>3, <3>1 DEF LateMove
    <2>4. ASSUME NEW q \in Positions, NEW stop \in Stops, Tighten(q, stop), ~Shrinks
          PROVE  FALSE
      <3>1. ModifyAccepted(q, stop) /\ kill' = kill /\ DOMAIN rules' = DOMAIN rules
        BY <2>4, TightenEffect
      <3>2. DOMAIN venue' = DOMAIN venue
        BY <3>1, MoveEffect DEF ModifyAccepted
      <3> QED BY <3>1, <3>2
    <2>5. Shrinks
      BY <2>1, <2>2, <2>3, <2>4, StepShape
    <2>6. p \in DOMAIN rules
      BY <2>5 DEF Shrinks
    <2>7. CloseAnswered(p)
      BY <2>1, <2>6, RuleLost
    <2>8. PartialFills /\ venue' = venue
      <3>1. CloseFilled(p)
        BY <2>7 DEF CloseAnswered
      <3>2. venue' # Without(venue, p)
        BY DEF Without
      <3> QED BY <3>1, <3>2 DEF CloseFilled
    <2> QED BY <2>7, <2>8
  <1>2. Spec => [][Told]_vars
    BY <1>1, ProtectionTypeOK, PTL DEF Spec
  <1> QED BY <1>2 DEF OrphansAreMisreported

(***************************************************************************)
(* While no fill is partial, a rule is given up within a life of the        *)
(* process only for a closed position.                                      *)
(***************************************************************************)
THEOREM RulesOutliveOnlyClosed ==
  ASSUME ~PartialFills
  PROVE  Spec => RuleUntilClosed
  <1> DEFINE Kept == \/ \E unresolved \in SUBSET Positions : Restart(unresolved)
                     \/ \A p \in DOMAIN rules \ DOMAIN rules' : p \notin DOMAIN venue'
  <1>1. TypeOK /\ [Next]_vars => [Kept]_vars
    <2> SUFFICES ASSUME TypeOK, [Next]_vars, ~\E unresolved \in SUBSET Positions : Restart(unresolved)
                 PROVE  \A p \in DOMAIN rules \ DOMAIN rules' : p \notin DOMAIN venue'
      OBVIOUS
    <2>1. CASE Shrinks
      BY <2>1, WholeFillCloses DEF Shrinks
    <2>2. ASSUME NEW p \in Positions, NEW stop \in Stops, Open(p, stop)
          PROVE  DOMAIN rules \subseteq DOMAIN rules'
      BY <2>2, OpenEffect
    <2>3. ASSUME NEW p \in Positions, NEW stop \in Stops, LateMove(p, stop)
          PROVE  DOMAIN rules \subseteq DOMAIN rules'
      BY <2>3 DEF LateMove
    <2>4. ASSUME NEW p \in Positions, NEW stop \in Stops, Tighten(p, stop)
          PROVE  DOMAIN rules \subseteq DOMAIN rules'
      BY <2>4, TightenEffect
    <2> QED BY <2>1, <2>2, <2>3, <2>4, StepShape
  <1>2. Spec => [][Kept]_vars
    BY <1>1, ProtectionTypeOK, PTL DEF Spec
  <1> QED BY <1>2 DEF RuleUntilClosed

(***************************************************************************)
(* While no fill is partial, every open position is managed or the account  *)
(* takes no new risk.                                                       *)
(***************************************************************************)
THEOREM FilledStaysManaged ==
  ASSUME ~PartialFills
  PROVE  Spec => []FilledIsManagedOrHalted
  <1>1. Init => FilledIsManagedOrHalted
    BY DEF Init, FilledIsManagedOrHalted
  <1>2. TypeOK /\ FilledIsManagedOrHalted /\ [Next]_vars => FilledIsManagedOrHalted'
    <2> SUFFICES ASSUME TypeOK, FilledIsManagedOrHalted, [Next]_vars
                 PROVE  FilledIsManagedOrHalted'
      OBVIOUS
    <2>1. CASE Shrinks
      BY <2>1, WholeFillCloses DEF Shrinks, FilledIsManagedOrHalted
    <2>2. ASSUME NEW p \in Positions, NEW stop \in Stops, Open(p, stop)
          PROVE  FilledIsManagedOrHalted'
      <3>1. /\ DOMAIN venue' = DOMAIN venue \cup {p}
            /\ DOMAIN rules' = DOMAIN rules \cup {p}
            /\ kill' = kill
        BY <2>2, OpenEffect DEF Open
      <3> QED BY <3>1 DEF FilledIsManagedOrHalted
    <2>3. ASSUME NEW p \in Positions, NEW stop \in Stops, LateMove(p, stop)
          PROVE  FilledIsManagedOrHalted'
      <3>1. DOMAIN venue' = DOMAIN venue
        <4>1. CASE Movable(p, stop)
          BY <2>3, <4>1, MoveEffect DEF LateMove
        <4>2. CASE ~Movable(p, stop)
          BY <2>3, <4>2 DEF LateMove
        <4> QED BY <4>1, <4>2
      <3> QED BY <2>3, <3>1 DEF LateMove, FilledIsManagedOrHalted
    <2>4. ASSUME NEW p \in Positions, NEW stop \in Stops, Tighten(p, stop), ~Shrinks
          PROVE  FilledIsManagedOrHalted'
      <3>1. ModifyAccepted(p, stop) /\ kill' = kill /\ DOMAIN rules' = DOMAIN rules
        BY <2>4, TightenEffect
      <3>2. DOMAIN venue' = DOMAIN venue
        BY <3>1, MoveEffect DEF ModifyAccepted
      <3> QED BY <3>1, <3>2 DEF FilledIsManagedOrHalted
    <2>5. ASSUME NEW unresolved \in SUBSET Positions, Restart(unresolved)
          PROVE  FilledIsManagedOrHalted'
      BY <2>5, RestartEffect DEF FilledIsManagedOrHalted
    <2> QED BY <2>1, <2>2, <2>3, <2>4, <2>5, StepShape
  <1> QED BY <1>1, <1>2, ProtectionTypeOK, PTL DEF Spec

-----------------------------------------------------------------------------
(* Requests. *)

(***************************************************************************)
(* A rule is pending only while its close is still to be sent, or after an  *)
(* exception took the mark away from it: then the account is halted until   *)
(* a restart, and the restart clears the flag.                              *)
(***************************************************************************)
PendingInv ==
  \A p \in DOMAIN rules : rules[p].pending => p \in batch \/ (Raises /\ kill)

\* A full close leaves a request unanswered only by raising, and then halts.
LEMMA FullCloseAnswers ==
  ASSUME ProtInv, batch = {}, NEW p \in Positions, FullClose(p), PendingInv
  PROVE  PendingInv'
  <1>0. rules \in Partial(Positions, Rule) /\ p \in DOMAIN rules
    BY DEF ProtInv, TypeOK, Rule, FullClose
  <1>1. \A q \in DOMAIN rules : rules[q].pending => Raises /\ kill
    BY DEF PendingInv
  <1>2. CASE CloseConfirmed(p) /\ kill' = kill
    BY <1>1, <1>2 DEF CloseConfirmed, Without, PendingInv
  <1>3. CASE CloseFailed(p) /\ kill' = kill
    <2>1. /\ DOMAIN rules' = DOMAIN rules
          /\ \A q \in DOMAIN rules : rules'[q].pending => rules[q].pending
      BY <1>0, <1>3, CloseFailedRules
    <2> QED BY <1>1, <1>3, <2>1 DEF PendingInv
  <1>4. CASE Raises /\ kill'
    BY <1>4 DEF PendingInv
  <1> QED BY <1>2, <1>3, <1>4 DEF FullClose, Abandon

\* A step that clears no halt, asks for nothing new and sends nothing.
LEMMA NothingAsked ==
  ASSUME PendingInv,
         DOMAIN rules' = DOMAIN rules,
         \A q \in DOMAIN rules : rules'[q].pending => rules[q].pending,
         batch' = batch, kill => kill'
  PROVE  PendingInv'
  BY DEF PendingInv

\* One step of PendingInv for every action.
LEMMA PendingStep ==
  ASSUME ProtInv, PendingInv, [Next]_vars
  PROVE  PendingInv'
  <1>0. /\ rules \in Partial(Positions, Rule) /\ batch \subseteq DOMAIN rules
        /\ pc # "exits" => batch = {}
        /\ at # None => pc = "supervise"
    BY DEF ProtInv, TypeOK, Rule
  <1>1. ASSUME UNCHANGED <<rules, batch>>, kill => kill' PROVE PendingInv'
    BY <1>1 DEF PendingInv
  <1>2. ASSUME NEW p \in Positions, NEW stop \in Stops, Open(p, stop)
        PROVE  PendingInv'
    <2>1. /\ rules' = With(rules, p, [stop |-> stop, pending |-> FALSE])
          /\ batch' = batch /\ kill' = kill
      BY <1>2 DEF Open
    <2> QED BY <2>1 DEF With, PendingInv
  <1>3. ASSUME NEW p \in Positions, NEW stop \in Stops, Tighten(p, stop)
        PROVE  PendingInv'
    <2>1. p \in DOMAIN rules /\ pc = "supervise" /\ batch' = batch /\ (kill => kill')
      BY <1>0, <1>3 DEF Tighten, Supervising, ToThesis, Abandon
    <2>2. \E s \in Stops : rules' = [rules EXCEPT ![p].stop = s]
      <3>1. rules[p].stop \in Stops
        <4>1. rules \in [DOMAIN rules -> Rule]
          BY <1>0, PartialMeans
        <4> QED BY <2>1, <4>1 DEF Rule
      <3> QED BY <1>3, <3>1 DEF Tighten, RolledBack
    <2>3. PICK s \in Stops : rules' = [rules EXCEPT ![p].stop = s]
      BY <2>2
    <2>4. /\ DOMAIN rules' = DOMAIN rules
          /\ \A q \in DOMAIN rules : rules'[q].pending => rules[q].pending
      BY <1>0, <2>1, <2>3, StopSetRules
    <2> QED BY <2>1, <2>4, NothingAsked
  <1>4. ASSUME NEW p \in Positions, PreserveClose(p) \/ ThesisExit(p)
        PROVE  PendingInv'
    <2>1. FullClose(p) /\ pc = "supervise"
      BY <1>0, <1>4, ProtectionAssumption
         DEF PreserveClose, ThesisExit, Supervising, ProtectionAssumption
    <2> QED BY <1>0, <2>1, FullCloseAnswers
  <1>5. ASSUME NEW p \in Positions, RuleMissing(p) \/ PartialCloseRaises(p)
        PROVE  PendingInv'
    <2>1. batch' = batch /\ UNCHANGED rules /\ kill'
      BY <1>0, <1>5, ProtectionAssumption
         DEF RuleMissing, PartialCloseRaises, Supervising, Abandon, ProtectionAssumption
    <2> QED BY <1>1, <2>1
  <1>6. ASSUME NEW others \in SUBSET Positions, ApplyExits(others) PROVE PendingInv'
    <2>1. batch = {} /\ rules' = Pended(rules, batch') /\ kill' = kill
      BY <1>0, <1>6 DEF ApplyExits
    <2>2. DOMAIN rules' = DOMAIN rules
          /\ \A q \in DOMAIN rules : rules'[q].pending => rules[q].pending \/ q \in batch'
      BY <1>0, <2>1, PendedIsPartial
    <2> QED BY <2>1, <2>2 DEF PendingInv
  <1>7. ASSUME NEW p \in Positions, SendClose(p) PROVE PendingInv'
    <2>0. p \in DOMAIN rules
      BY <1>0, <1>7 DEF SendClose
    <2>1. CASE CloseConfirmed(p) /\ batch' = batch \ {p} /\ kill' = kill
      BY <2>0, <2>1 DEF CloseConfirmed, Without, PendingInv
    <2>2. CASE CloseFailed(p) /\ batch' = batch \ {p} /\ kill' = kill
      <3>1. /\ DOMAIN rules' = DOMAIN rules
            /\ ~rules'[p].pending
            /\ \A q \in DOMAIN rules : rules'[q].pending => rules[q].pending
        BY <1>0, <2>0, <2>2, CloseFailedRules
      <3> QED BY <2>2, <3>1 DEF PendingInv
    <2>3. CASE Raises /\ kill'
      BY <2>3 DEF PendingInv
    <2> QED BY <1>7, <2>1, <2>2, <2>3 DEF SendClose, Abandon
  <1>8. ASSUME NEW unresolved \in SUBSET Positions, Restart(unresolved)
        PROVE  PendingInv'
    BY <1>8 DEF Restart, PendingInv
  <1>9. ASSUME NEW p \in Positions, PreserveNothing(p) \/ ThesisHolds(p)
        PROVE  PendingInv'
    BY <1>1, <1>9 DEF PreserveNothing, ThesisHolds, ToThesis, Done
  <1>10. CASE Supervise
    BY <1>3, <1>4, <1>5, <1>9, <1>10 DEF Supervise
  <1>11. CASE Exits
    BY <1>1, <1>6, <1>7, <1>11 DEF Exits, EndMark
  <1>12. CASE \E p \in Positions, stop \in Stops : Open(p, stop) \/ LateMove(p, stop)
    BY <1>1, <1>2, <1>12 DEF LateMove
  <1>13. CASE \/ UNCHANGED vars
              \/ \E px \in Bids : Mark(px)
              \/ \E p \in Positions : VenueCloses(p)
    BY <1>1, <1>13 DEF Mark, VenueCloses, vars
  <1> QED BY <1>8, <1>10, <1>11, <1>12, <1>13 DEF Next

\* The invariant behind both statements about requests.
LEMMA PendingAlways == Spec => []PendingInv
  <1>1. Init => PendingInv
    BY DEF Init, PendingInv
  <1>2. ProtInv /\ PendingInv /\ [Next]_vars => PendingInv'
    BY PendingStep
  <1> QED BY <1>1, <1>2, ProtectionTypes, PTL DEF Spec

\* Between marks no rule is pending.
PendingMeansRequested == \A p \in DOMAIN rules : rules[p].pending => p \in batch

(***************************************************************************)
(* While no adapter call raises, every request to close is answered within  *)
(* its mark: no rule stays pending, and the next mark may ask again.        *)
(***************************************************************************)
THEOREM RequestsAreAnswered ==
  ASSUME ~Raises
  PROVE  Spec => []PendingMeansRequested
  <1>1. PendingInv => PendingMeansRequested
    BY DEF PendingInv, PendingMeansRequested
  <1> QED BY <1>1, PendingAlways, PTL

(***************************************************************************)
(* No close request is lost silently: an exception that abandons a mark     *)
(* after on_mark set pending_close halts the account, and the halt outlasts *)
(* every later mark until a restart builds the rules anew.                  *)
(***************************************************************************)
THEOREM LostRequestsHalt == Spec => []UnsentMeansHalted
  <1>1. PendingInv => UnsentMeansHalted
    BY DEF PendingInv, UnsentMeansHalted
  <1> QED BY <1>1, PendingAlways, PTL

(***************************************************************************)
(* A mark that gets through supervision asks for the exit of every position *)
(* whose stop the bid has reached; it can leave one out only where a call   *)
(* raised in an earlier mark, on a halted account (on_mark, whose skip of   *)
(* pending rules would otherwise lose exits; the safety ExitsGetThrough     *)
(* rests on).                                                               *)
(***************************************************************************)
DueExitsAreAsked ==
  [][pc = "supervise" /\ pc' = "exits"
       => \A p \in DOMAIN rules : Breached(p) => p \in batch' \/ (Raises /\ kill)]_vars

\* Only apply_exits leads from supervision to the exits.
LEMMA ExitsBegin ==
  ASSUME [Next]_vars, pc = "supervise", pc' = "exits"
  PROVE  \E others \in SUBSET Positions : ApplyExits(others)
  <1>1. ~UNCHANGED vars
    BY DEF vars
  <1>2. ~Supervise
    BY DEF Supervise, PreserveNothing, PartialCloseRaises, PreserveClose, RuleMissing, ThesisHolds,
           ThesisExit, Tighten, FullClose, ToThesis, Done, Abandon
  <1>3. ASSUME NEW p \in Positions, NEW stop \in Stops
        PROVE  ~Open(p, stop) /\ ~LateMove(p, stop)
    BY DEF Open, LateMove
  <1>4. /\ \A px \in Bids : ~Mark(px)
        /\ \A unresolved \in SUBSET Positions : ~Restart(unresolved)
        /\ ~EndMark
    BY DEF Mark, Restart, EndMark
  <1>5. \A p \in Positions : ~VenueCloses(p) /\ ~SendClose(p)
    BY DEF VenueCloses, SendClose, Abandon
  <1> QED BY <1>1, <1>2, <1>3, <1>4, <1>5 DEF Next, Exits

THEOREM EveryDueExitIsAsked == Spec => DueExitsAreAsked
  <1> DEFINE Asked == pc = "supervise" /\ pc' = "exits"
                        => \A p \in DOMAIN rules : Breached(p) => p \in batch' \/ (Raises /\ kill)
  <1>1. ProtInv /\ PendingInv /\ [Next]_vars => [Asked]_vars
    <2> SUFFICES ASSUME ProtInv, PendingInv, [Next]_vars, pc = "supervise", pc' = "exits",
                        NEW p \in DOMAIN rules, Breached(p)
                 PROVE  p \in batch' \/ (Raises /\ kill)
      OBVIOUS
    <2>1. PICK others \in SUBSET Positions : ApplyExits(others)
      BY ExitsBegin
    <2>2. batch = {}
      BY DEF ProtInv
    <2>3. CASE rules[p].pending
      BY <2>2, <2>3 DEF PendingInv
    <2>4. CASE ~rules[p].pending
      BY <2>1, <2>4 DEF ApplyExits
    <2> QED BY <2>3, <2>4
  <1> QED BY <1>1, ProtectionTypes, PendingAlways, PTL DEF Spec, DueExitsAreAsked

=============================================================================
