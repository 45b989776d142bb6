------------------------ MODULE OrderExecutionProofs ------------------------
(***************************************************************************)
(* What OrderExecution guarantees for every set of instruments, every       *)
(* number of passes, every freshness and every limit of the mandate.        *)
(***************************************************************************)
EXTENDS OrderExecutionImplements, FiniteSetTheorems, TLAPS

(***************************************************************************)
(* The inductive invariant, in parts.                                       *)
(***************************************************************************)

\* Nothing carries a later time than the clock's; until the symbols of a pass
\* are evaluated nothing but its exits carries the clock's.
Dated ==
  /\ \A i \in commands : i.gen <= pass /\ i.at <= pass /\ (pc = "marked" => i.gen < pass)
  /\ \A c \in pool : c.gen <= pass
  /\ order # None => order.at = pass /\ order.gen <= pass

\* The candidate of the intent being executed is still in the pool and was
\* taken off the list; a process that is down holds no candidate.
Held ==
  /\ pc = "down" => pool = {}
  /\ order # None => CandidateOf(order) \in pool \ todo

\* A candidate that was sent is out of the pool, or it cannot be sent again:
\* the switch is tripped, or it is the one that was just sent.
SentOut ==
  /\ pc = "sent" => order \in commands
  /\ \A i \in commands :
       CandidateOf(i) \in pool => kill # {} \/ (pc = "sent" /\ i = order)

\* What could be sent, or was sent by this process, while the switch is clear:
\* the bars of it are noted, or of the pass that is being evaluated, and no
\* two candidates share a bar.
Kin == pool \cup {CandidateOf(i) : i \in {k \in commands : k.at > born}}

BarsNoted ==
  pc # "down" /\ kill = {} =>
    /\ \A c \in Kin : \/ BarOf(c) <= last[c.symbol]
                      \/ c.gen = pass /\ pc \in {"admit", "send", "sent"}
    /\ \A c, d \in Kin : c.symbol = d.symbol /\ BarOf(c) = BarOf(d) => c = d

\* Everything the venue and the process hold has its command, and what may
\* still fill was never told filled.
Traced ==
  /\ entries \cup DOMAIN book \cup afloat \subseteq commands
  /\ afloat \cap (entries \cup DOMAIN book \cup receipts) = {}

\* A halt older than the pass has tripped the switch, and nothing that was
\* approved was approved under one.
Halting ==
  /\ pc \in {"marked", "admit"} /\ halt # 0 /\ halt < pass => kill # {}
  /\ pc \in {"send", "sent"} => halt = 0 \/ halt >= pass

\* What is open and unknown has filled in the pass of the approval.
Known ==
  pc \in {"send", "sent"} =>
    \A i \in DOMAIN book \ (entries \cup {order}) : book[i].since = pass

\* Between the approval and the answer there is room for one more position.
Told == DOMAIN book \cap receipts

ToldOf(s) == {i \in Told : i.symbol = s}

Room ==
  pc \in {"send", "sent"} =>
    /\ Cardinality(Told \ {order}) < Total
    /\ Cardinality(ToldOf(order.symbol) \ {order}) < PerInstrument

OrderInv ==
  /\ TypeOK
  /\ Dated
  /\ Held
  /\ SentOut
  /\ CandidateSentOnce
  /\ BarsNoted
  /\ OneOrderPerBar
  /\ Traced
  /\ Halting
  /\ Known
  /\ BareMeansHalted
  /\ IsFiniteSet(commands)
  /\ Room
  /\ LimitsHold

-----------------------------------------------------------------------------
(* Candidates and intents. *)

\* The intent of a candidate carries the candidate and the time of the pass.
LEMMA IntentOfCandidate ==
  ASSUME NEW c \in Candidate, pass \in 1..MaxPass
  PROVE  /\ IntentOf(c) \in Intent
         /\ CandidateOf(IntentOf(c)) = c
         /\ IntentOf(c).symbol = c.symbol
         /\ IntentOf(c).gen = c.gen
         /\ IntentOf(c).at = pass
  BY DEF Candidate, Intent, IntentOf, CandidateOf

\* An intent names an instrument and times, and is not None.
LEMMA IntentMeans ==
  ASSUME NEW i \in Intent
  PROVE  /\ i.symbol \in Symbols
         /\ i.gen \in 1..MaxPass
         /\ i.at \in 1..MaxPass
         /\ i # None
         /\ CandidateOf(i) \in Candidate
         /\ CandidateOf(i).gen = i.gen
  <1>1. i \in [symbol : Symbols, gen : Nat, at : Nat]
    BY OrderAssumption DEF Intent
  <1> QED BY <1>1, OrderAssumption DEF Intent, Candidate, CandidateOf

-----------------------------------------------------------------------------
(* The parts of the invariant, one by one. *)

\* Types.
LEMMA TypeStep ==
  ASSUME TypeOK, Dated, Held, Traced, [Next]_vars
  PROVE  TypeOK'
  <1> USE OrderAssumption DEF TypeOK, Steps, Triggers, time
  <1>1. ASSUME NEW found \in SUBSET {"VENUE_DISCONNECT", "UNAUTHORIZED_ACCOUNT"}, Start(found)
        PROVE  TypeOK'
    BY <1>1 DEF Start, OwnerHalt, Attributed, venue, ledger
  <1>2. CASE Crash
    BY <1>2 DEF Crash, venue, ledger
  <1>3. CASE Fault
    BY <1>3 DEF Fault, Fail, venue, ledger
  <1>4. ASSUME NEW gone \in SUBSET entries, NEW closed \in SUBSET Symbols, BeginPass(gone, closed)
        PROVE  TypeOK'
    <2>1. book' \in [DOMAIN book' -> Position] /\ DOMAIN book' \subseteq Intent
      BY <1>4 DEF BeginPass, Closed
    <2>2. bars' \in [0..MaxPass -> [Symbols -> Nat]]
      <3> DEFINE latest == [s \in Symbols |-> bars[pass][s] + IF s \in closed THEN 1 ELSE 0]
      <3>1. latest \in [Symbols -> Nat]
        OBVIOUS
      <3>2. bars' = [bars EXCEPT ![pass + 1] = latest]
        BY <1>4 DEF BeginPass
      <3> HIDE DEF latest
      <3> QED BY <3>1, <3>2
    <2>3. pass' \in 0..MaxPass /\ born \in 0..pass' /\ halt \in 0..pass'
      BY <1>4 DEF BeginPass
    <2> QED BY <1>4, <2>1, <2>2, <2>3 DEF BeginPass, OwnerHalt, ledger
  <1>5. ASSUME NEW new \in SUBSET {c \in Candidate : c.gen = pass}, NEW superseded \in SUBSET pool,
               Evaluate(new, superseded)
        PROVE  TypeOK'
    BY <1>5 DEF Evaluate, venue, ledger
  <1>6. CASE EndPass
    BY <1>6 DEF EndPass, venue, ledger
  <1>7. ASSUME NEW c \in todo, Defer(c)
        PROVE  TypeOK'
    BY <1>7 DEF Defer, venue, ledger
  <1>8. ASSUME NEW c \in todo, TurnDown(c)
        PROVE  TypeOK'
    BY <1>8 DEF TurnDown, venue, ledger
  <1>9. ASSUME NEW c \in todo, Approve(c)
        PROVE  TypeOK'
    <2>1. c \in Candidate /\ pass \in 1..MaxPass
      BY <1>9 DEF Dated, Candidate
    <2>2. IntentOf(c) \in Intent /\ IntentOf(c) # None
      BY <2>1, IntentOfCandidate, IntentMeans
    <2> QED BY <1>9, <2>2 DEF Approve, venue, ledger
  <1>10. CASE Disconnected
    BY <1>10 DEF Disconnected, venue, ledger
  <1>11. CASE Command
    BY <1>11 DEF Command
  <1>12. CASE Filled
    BY <1>12 DEF Filled, Selected, Held, Traced, venue
  <1>13. CASE NotFilled
    BY <1>13 DEF NotFilled, Selected, Held, ledger
  <1>14. ASSUME NEW done \in BOOLEAN, Flattened(done)
         PROVE  TypeOK'
    <2>1. book' \in [DOMAIN book' -> Position] /\ DOMAIN book' \subseteq Intent
      BY <1>14 DEF Flattened, Closed
    <2> QED BY <1>14, <2>1 DEF Flattened, Traced
  <1>15. CASE FlattenRaises
    BY <1>15 DEF FlattenRaises, Fail, Traced, venue
  <1>16. CASE RecordRaises
    BY <1>16 DEF RecordRaises, Fail, Traced, venue
  <1>17. CASE SubmitRaises
    BY <1>17 DEF SubmitRaises, Fail, venue, ledger
  <1>18. ASSUME NEW i \in afloat, NEW stop \in BOOLEAN, VenueFills(i, stop)
         PROVE  TypeOK'
    <2>1. book' \in [DOMAIN book' -> Position] /\ DOMAIN book' \subseteq Intent
      BY <1>18 DEF VenueFills, Opened, Position
    <2> QED BY <1>18, <2>1 DEF VenueFills, process, ledger
  <1>19. ASSUME NEW i \in DOMAIN book, VenueCloses(i)
         PROVE  TypeOK'
    <2>1. book' \in [DOMAIN book' -> Position] /\ DOMAIN book' \subseteq Intent
      BY <1>19 DEF VenueCloses, Closed
    <2> QED BY <1>19, <2>1 DEF VenueCloses, process, ledger
  <1>20. CASE OwnerHalts \/ OwnerClears
    BY <1>20 DEF OwnerHalts, OwnerClears, process, venue
  <1>21. CASE UNCHANGED vars
    BY <1>21 DEF vars, process, venue, ledger
  <1> QED BY <1>1, <1>2, <1>3, <1>4, <1>5, <1>6, <1>7, <1>8, <1>9, <1>10, <1>11, <1>12, <1>13,
             <1>14, <1>15, <1>16, <1>17, <1>18, <1>19, <1>20, <1>21 DEF Next

\* Times: only the steps that begin a pass, evaluate it, approve or command
\* bring one.
LEMMA DatedStep ==
  ASSUME TypeOK, Dated, [Next]_vars
  PROVE  Dated'
  <1> USE OrderAssumption DEF Dated, time
  <1> pass \in Nat /\ \A i \in commands : i.gen \in Nat /\ i.at \in Nat
    BY IntentMeans DEF TypeOK
  <1>1. ASSUME NEW found \in SUBSET {"VENUE_DISCONNECT", "UNAUTHORIZED_ACCOUNT"}, Start(found)
        PROVE  Dated'
    BY <1>1 DEF Start, ledger
  <1>2. CASE Crash \/ Fault \/ EndPass \/ Disconnected
    BY <1>2 DEF Crash, Fault, Fail, EndPass, Disconnected, ledger
  <1>3. ASSUME NEW gone \in SUBSET entries, NEW closed \in SUBSET Symbols, BeginPass(gone, closed)
        PROVE  Dated'
    <2>1. pass' = pass + 1 /\ commands' = commands /\ pool' = pool /\ order' = order
      BY <1>3 DEF BeginPass, ledger
    <2>2. order = None
      BY <1>3 DEF BeginPass, TypeOK
    <2>3. \A c \in pool : c.gen \in Nat
      BY DEF TypeOK, Candidate
    <2> QED BY <2>1, <2>2, <2>3
  <1>4. ASSUME NEW new \in SUBSET {c \in Candidate : c.gen = pass}, NEW superseded \in SUBSET pool,
               Evaluate(new, superseded)
        PROVE  Dated'
    BY <1>4 DEF Evaluate, ledger
  <1>5. ASSUME NEW c \in todo, Defer(c) \/ TurnDown(c)
        PROVE  Dated'
    BY <1>5 DEF Defer, TurnDown, ledger
  <1>6. ASSUME NEW c \in todo, Approve(c)
        PROVE  Dated'
    <2>1. c \in Candidate /\ c.gen <= pass /\ pass \in 1..MaxPass
      BY DEF TypeOK, Candidate
    <2>2. IntentOf(c).at = pass /\ IntentOf(c).gen <= pass
      BY <2>1, IntentOfCandidate
    <2> QED BY <1>6, <2>2 DEF Approve, ledger
  <1>7. CASE Command
    BY <1>7 DEF Command, TypeOK
  <1>8. CASE Filled \/ NotFilled \/ FlattenRaises \/ RecordRaises \/ SubmitRaises
    BY <1>8 DEF Filled, NotFilled, Selected, FlattenRaises, RecordRaises, SubmitRaises, Fail, ledger
  <1>9. ASSUME NEW done \in BOOLEAN, Flattened(done)
        PROVE  Dated'
    BY <1>9 DEF Flattened
  <1>10. ASSUME NEW i \in afloat, NEW stop \in BOOLEAN, VenueFills(i, stop)
         PROVE  Dated'
    BY <1>10 DEF VenueFills, process, ledger
  <1>11. ASSUME NEW i \in DOMAIN book, VenueCloses(i)
         PROVE  Dated'
    BY <1>11 DEF VenueCloses, process, ledger
  <1>12. CASE OwnerHalts \/ OwnerClears \/ UNCHANGED vars
    BY <1>12 DEF OwnerHalts, OwnerClears, vars, process, ledger
  <1> QED BY <1>1, <1>2, <1>3, <1>4, <1>5, <1>6, <1>7, <1>8, <1>9, <1>10, <1>11, <1>12 DEF Next

\* The candidate of the intent being executed stays in the pool until the
\* execution is over, and the list never gets it back.
LEMMA HeldStep ==
  ASSUME TypeOK, Dated, Held, [Next]_vars
  PROVE  Held'
  <1> USE DEF Held
  <1>1. ASSUME NEW found \in SUBSET {"VENUE_DISCONNECT", "UNAUTHORIZED_ACCOUNT"}, Start(found)
        PROVE  Held'
    BY <1>1 DEF Start
  <1>2. CASE Crash \/ Fault \/ EndPass \/ Disconnected
    BY <1>2 DEF Crash, Fault, Fail, EndPass, Disconnected, TypeOK
  <1>3. ASSUME NEW gone \in SUBSET entries, NEW closed \in SUBSET Symbols, BeginPass(gone, closed)
        PROVE  Held'
    BY <1>3 DEF BeginPass, TypeOK
  <1>4. ASSUME NEW new \in SUBSET {c \in Candidate : c.gen = pass}, NEW superseded \in SUBSET pool,
               Evaluate(new, superseded)
        PROVE  Held'
    BY <1>4 DEF Evaluate, TypeOK
  <1>5. ASSUME NEW c \in todo, Defer(c) \/ TurnDown(c)
        PROVE  Held'
    BY <1>5 DEF Defer, TurnDown, TypeOK
  <1>6. ASSUME NEW c \in todo, Approve(c)
        PROVE  Held'
    <2>1. c \in Candidate /\ pass \in 1..MaxPass
      BY OrderAssumption DEF Dated, TypeOK, Candidate
    <2>2. CandidateOf(IntentOf(c)) = c
      BY <2>1, IntentOfCandidate
    <2> QED BY <1>6, <2>2 DEF Approve, TypeOK
  <1>7. CASE Command
    BY <1>7 DEF Command
  <1>8. CASE Filled \/ NotFilled \/ FlattenRaises \/ RecordRaises \/ SubmitRaises
    BY <1>8 DEF Filled, NotFilled, Selected, FlattenRaises, RecordRaises, SubmitRaises, Fail
  <1>9. ASSUME NEW done \in BOOLEAN, Flattened(done)
        PROVE  Held'
    BY <1>9 DEF Flattened
  <1>10. ASSUME NEW i \in afloat, NEW stop \in BOOLEAN, VenueFills(i, stop)
         PROVE  Held'
    BY <1>10 DEF VenueFills, process
  <1>11. ASSUME NEW i \in DOMAIN book, VenueCloses(i)
         PROVE  Held'
    BY <1>11 DEF VenueCloses, process
  <1>12. CASE OwnerHalts \/ OwnerClears \/ UNCHANGED vars
    BY <1>12 DEF OwnerHalts, OwnerClears, vars, process
  <1> QED BY <1>1, <1>2, <1>3, <1>4, <1>5, <1>6, <1>7, <1>8, <1>9, <1>10, <1>11, <1>12 DEF Next

\* A candidate goes out once.  A second command for it would need it in the
\* pool and the switch untripped, and SentOut says it is not so.
LEMMA SentOutStep ==
  ASSUME TypeOK, Dated, Held, SentOut, CandidateSentOnce, [Next]_vars
  PROVE  SentOut' /\ CandidateSentOnce'
  <1> USE DEF SentOut, CandidateSentOnce, time
  <1>1. ASSUME NEW found \in SUBSET {"VENUE_DISCONNECT", "UNAUTHORIZED_ACCOUNT"}, Start(found)
        PROVE  SentOut' /\ CandidateSentOnce'
    BY <1>1 DEF Start, Held, CandidateOf, ledger
  <1>2. CASE Crash
    BY <1>2 DEF Crash, CandidateOf, ledger
  <1>3. CASE Fault \/ EndPass \/ Disconnected
    BY <1>3 DEF Fault, Fail, EndPass, Disconnected, CandidateOf, ledger
  <1>4. ASSUME NEW gone \in SUBSET entries, NEW closed \in SUBSET Symbols, BeginPass(gone, closed)
        PROVE  SentOut' /\ CandidateSentOnce'
    BY <1>4 DEF BeginPass, CandidateOf, ledger
  <1>5. ASSUME NEW new \in SUBSET {c \in Candidate : c.gen = pass}, NEW superseded \in SUBSET pool,
               Evaluate(new, superseded)
        PROVE  SentOut' /\ CandidateSentOnce'
    <2>1. \A i \in commands : CandidateOf(i).gen < pass
      BY <1>5, IntentMeans DEF Evaluate, Dated, TypeOK
    <2>2. \A i \in commands : CandidateOf(i) \notin new
      <3>1. \A c \in new : c.gen = pass /\ pass \in Nat
        BY DEF TypeOK
      <3> QED BY <2>1, <3>1
    <2> QED BY <1>5, <2>2 DEF Evaluate, CandidateOf, ledger
  <1>6. ASSUME NEW c \in todo, Defer(c) \/ TurnDown(c)
        PROVE  SentOut' /\ CandidateSentOnce'
    BY <1>6 DEF Defer, TurnDown, CandidateOf, ledger
  <1>7. ASSUME NEW c \in todo, Approve(c)
        PROVE  SentOut' /\ CandidateSentOnce'
    BY <1>7 DEF Approve, CandidateOf, ledger
  <1>8. CASE Command
    <2>1. order # None /\ CandidateOf(order) \in pool
      BY <1>8 DEF Command, TypeOK, Held
    <2>2. \A i \in commands : CandidateOf(i) \notin pool
      BY <1>8 DEF Command
    <2> QED BY <1>8, <2>1, <2>2 DEF Command, CandidateOf
  <1>9. CASE Filled \/ NotFilled
    BY <1>9 DEF Filled, NotFilled, Selected, CandidateOf, ledger
  <1>10. CASE FlattenRaises \/ RecordRaises \/ SubmitRaises
    BY <1>10 DEF FlattenRaises, RecordRaises, SubmitRaises, Fail, CandidateOf, ledger
  <1>11. ASSUME NEW done \in BOOLEAN, Flattened(done)
         PROVE  SentOut' /\ CandidateSentOnce'
    BY <1>11 DEF Flattened, CandidateOf
  <1>12. ASSUME NEW i \in afloat, NEW stop \in BOOLEAN, VenueFills(i, stop)
         PROVE  SentOut' /\ CandidateSentOnce'
    BY <1>12 DEF VenueFills, CandidateOf, process, ledger
  <1>13. ASSUME NEW i \in DOMAIN book, VenueCloses(i)
         PROVE  SentOut' /\ CandidateSentOnce'
    BY <1>13 DEF VenueCloses, CandidateOf, process, ledger
  <1>14. CASE OwnerHalts \/ OwnerClears \/ UNCHANGED vars
    BY <1>14 DEF OwnerHalts, OwnerClears, vars, CandidateOf, process, ledger
  <1> QED BY <1>1, <1>2, <1>3, <1>4, <1>5, <1>6, <1>7, <1>8, <1>9, <1>10, <1>11, <1>12, <1>13,
             <1>14 DEF Next

-----------------------------------------------------------------------------
(* One order for a bar. *)

\* The candidates at hand have types, and none is of a later pass.
LEMMA KinType ==
  ASSUME TypeOK, Dated
  PROVE  \A c \in Kin : /\ c \in Candidate /\ c.symbol \in Symbols
                        /\ c.gen \in 1..MaxPass /\ c.gen <= pass
                        /\ BarOf(c) \in Nat
  <1>1. \A i \in commands : /\ CandidateOf(i) \in Candidate
                            /\ CandidateOf(i).gen = i.gen
    BY IntentMeans DEF TypeOK
  <1>2. \A c \in Kin : c \in Candidate /\ c.gen <= pass
    BY <1>1 DEF Kin, Dated, TypeOK
  <1>3. \A c \in Candidate : BarOf(c) \in Nat
    BY OrderAssumption DEF BarOf, Candidate, TypeOK
  <1> QED BY <1>2, <1>3 DEF Candidate

\* Nothing changes for the bars while nothing comes to hand and no pass ends.
LEMMA NotedKept ==
  ASSUME BarsNoted, Kin' \subseteq Kin, UNCHANGED <<pass, bars, last>>,
         kill' = {} => kill = {}, pc # "down",
         pc \in {"admit", "send", "sent"} => pc' \in {"admit", "send", "sent"}
  PROVE  BarsNoted'
  <1>1. \A c : BarOf(c)' = BarOf(c)
    BY DEF BarOf
  <1> QED BY <1>1 DEF BarsNoted

\* A pass takes only bars that are not noted, and notes them when it ends; one
\* that fails trips the switch.
LEMMA BarsStep ==
  ASSUME TypeOK, Dated, Held, BarsNoted, [Next]_vars
  PROVE  BarsNoted'
  <1> DEFINE Own == {k \in commands : k.at > born}
  <1>k. Kin = pool \cup {CandidateOf(i) : i \in Own}
    BY DEF Kin
  <1>s. ASSUME pool' \subseteq pool, commands' = commands, born' = born
        PROVE  Kin' \subseteq Kin
    BY <1>s DEF Kin, CandidateOf
  <1>t. ASSUME kill' # {} \/ pc' = "down"
        PROVE  BarsNoted'
    BY <1>t DEF BarsNoted
  <1>1. ASSUME NEW found \in SUBSET {"VENUE_DISCONNECT", "UNAUTHORIZED_ACCOUNT"}, Start(found)
        PROVE  BarsNoted'
    <2>1. pool' = {} /\ commands' = commands /\ born' = pass
      BY <1>1 DEF Start, Held, ledger
    <2>2. {k \in commands' : k.at > born'} = {}
      <3>1. \A k \in commands : k.at <= pass /\ k.at \in Nat
        BY IntentMeans DEF Dated, TypeOK
      <3> QED BY <2>1, <3>1 DEF TypeOK
    <2>3. Kin' = {}
      BY <2>1, <2>2 DEF Kin
    <2> QED BY <2>3 DEF BarsNoted
  <1>2. CASE Crash \/ Fault \/ Disconnected \/ FlattenRaises \/ RecordRaises \/ SubmitRaises
    BY <1>2, <1>t DEF Crash, Fault, Fail, Disconnected, FlattenRaises, RecordRaises, SubmitRaises
  <1>3. ASSUME NEW done \in BOOLEAN, Flattened(done)
        PROVE  BarsNoted'
    BY <1>3, <1>t DEF Flattened
  <1>4. ASSUME NEW gone \in SUBSET entries, NEW closed \in SUBSET Symbols, BeginPass(gone, closed)
        PROVE  BarsNoted'
    <2>1. /\ pool' = pool /\ commands' = commands /\ born' = born /\ last' = last
          /\ pass' = pass + 1 /\ pc = "idle" /\ kill \subseteq kill'
          /\ bars' = [bars EXCEPT ![pass + 1] =
                        [s \in Symbols |-> bars[pass][s] + IF s \in closed THEN 1 ELSE 0]]
      BY <1>4 DEF BeginPass, ledger
    <2>2. Kin' \subseteq Kin
      BY <2>1, <1>s
    <2>3. \A c \in Kin : BarOf(c)' = BarOf(c)
      <3>1. ASSUME NEW c \in Kin
            PROVE  bars'[c.gen] = bars[c.gen]
        <4>1. c.gen \in 1..MaxPass /\ c.gen # pass + 1 /\ pass \in Nat
          BY KinType, OrderAssumption DEF TypeOK
        <4> QED BY <2>1, <4>1 DEF TypeOK
      <3> QED BY <3>1 DEF BarOf
    <2> QED BY <2>1, <2>2, <2>3 DEF BarsNoted
  <1>5. ASSUME NEW new \in SUBSET {c \in Candidate : c.gen = pass}, NEW superseded \in SUBSET pool,
               Evaluate(new, superseded)
        PROVE  BarsNoted'
    <2>1. /\ commands' = commands /\ born' = born /\ last' = last /\ pass' = pass
          /\ kill' = kill /\ bars' = bars /\ pc = "marked" /\ pc' = "admit"
          /\ pool' \subseteq pool \cup new
          /\ \A c \in new : c.gen = pass /\ c.symbol \in Advanced
      BY <1>5 DEF Evaluate, time, ledger
    <2>2. Kin' \subseteq Kin \cup new
      BY <2>1 DEF Kin, CandidateOf
    <2>3. \A c : BarOf(c)' = BarOf(c)
      BY <2>1 DEF BarOf
    <2>4. \A c \in new : /\ c \in Candidate /\ c.gen = pass /\ BarOf(c) \in Nat
                         /\ last[c.symbol] \in Nat /\ BarOf(c) > last[c.symbol]
      BY <2>1, OrderAssumption DEF Advanced, BarOf, Candidate, TypeOK
    <2>5. SUFFICES ASSUME kill = {}
                   PROVE  BarsNoted'
      BY <2>1, <1>t
    <2>6. \A c \in Kin : BarOf(c) <= last[c.symbol] /\ BarOf(c) \in Nat
      BY <2>1, <2>5, KinType DEF BarsNoted
    <2>7. \A c, d \in new : c.symbol = d.symbol => c = d
      BY <2>4 DEF Candidate
    <2>8. \A c \in Kin, d \in new : c.symbol = d.symbol => BarOf(c) # BarOf(d)
      BY <2>4, <2>6
    <2>9. \A c, d \in Kin : c.symbol = d.symbol /\ BarOf(c) = BarOf(d) => c = d
      BY <2>1, <2>5 DEF BarsNoted
    <2>10. \A c, d \in Kin \cup new : c.symbol = d.symbol /\ BarOf(c) = BarOf(d) => c = d
      BY <2>7, <2>8, <2>9
    <2> QED BY <2>1, <2>2, <2>3, <2>4, <2>6, <2>10 DEF BarsNoted
  <1>6. CASE EndPass
    <2>1. /\ pool' = pool /\ commands' = commands /\ born' = born /\ pass' = pass
          /\ kill' = kill /\ bars' = bars /\ pc # "down"
          /\ last' = [s \in Symbols |-> IF s \in Advanced THEN bars[pass][s] ELSE last[s]]
      BY <1>6 DEF EndPass, time, ledger
    <2>2. Kin' \subseteq Kin
      BY <2>1, <1>s
    <2>3. \A c : BarOf(c)' = BarOf(c)
      BY <2>1 DEF BarOf
    <2>4. \A s \in Symbols : bars[pass][s] \in Nat /\ last[s] \in Nat
      BY DEF TypeOK
    <2>5. \A s \in Symbols : last'[s] \in Nat /\ last[s] <= last'[s] /\ bars[pass][s] <= last'[s]
      BY <2>1, <2>4 DEF Advanced
    <2>6. ASSUME NEW c \in Kin, BarOf(c) <= last[c.symbol] \/ c.gen = pass
          PROVE  BarOf(c) <= last'[c.symbol]
      <3>1. c.symbol \in Symbols /\ BarOf(c) \in Nat
        BY KinType
      <3>2. CASE BarOf(c) <= last[c.symbol]
        BY <3>1, <3>2, <2>4, <2>5
      <3>3. CASE c.gen = pass
        BY <3>1, <3>3, <2>5 DEF BarOf
      <3> QED BY <2>6, <3>2, <3>3
    <2> QED BY <2>1, <2>2, <2>3, <2>6 DEF BarsNoted
  <1>7. ASSUME NEW c \in todo, Defer(c) \/ TurnDown(c) \/ Approve(c)
        PROVE  BarsNoted'
    <2>1. Kin' \subseteq Kin
      BY <1>7, <1>s DEF Defer, TurnDown, Approve, time, ledger
    <2> QED BY <1>7, <2>1, NotedKept DEF Defer, TurnDown, Approve, time
  <1>8. CASE Command
    <2>1. /\ commands' = commands \cup {order} /\ pool' = pool /\ born' = born
          /\ CandidateOf(order) \in pool
      BY <1>8, OrderAssumption DEF Command, time, Held, TypeOK
    <2>2. Kin' \subseteq Kin
      BY <2>1 DEF Kin, CandidateOf
    <2> QED BY <1>8, <2>2, NotedKept DEF Command, time
  <1>9. CASE Filled \/ NotFilled
    <2>1. Kin' \subseteq Kin
      BY <1>9, <1>s DEF Filled, NotFilled, Selected, time, ledger
    <2> QED BY <1>9, <2>1, NotedKept DEF Filled, NotFilled, Selected, time
  <1>10. CASE \/ \E i \in afloat, stop \in BOOLEAN : VenueFills(i, stop)
              \/ \E i \in DOMAIN book : VenueCloses(i)
              \/ OwnerHalts \/ OwnerClears \/ UNCHANGED vars
    <2>1. /\ UNCHANGED process /\ UNCHANGED time /\ commands' = commands
      BY <1>10 DEF VenueFills, VenueCloses, OwnerHalts, OwnerClears, vars, ledger
    <2>2. Kin' \subseteq Kin
      BY <2>1, <1>s DEF process, time
    <2>3. CASE pc = "down"
      BY <2>1, <2>3, <1>t DEF process
    <2>4. CASE pc # "down"
      BY <2>1, <2>2, <2>4, NotedKept DEF process, time
    <2> QED BY <2>3, <2>4
  <1> QED BY <1>1, <1>2, <1>3, <1>4, <1>5, <1>6, <1>7, <1>8, <1>9, <1>10 DEF Next

\* A second command for a bar would need a second candidate of the bar at hand.
LEMMA OncePerBarStep ==
  ASSUME TypeOK, Dated, Held, SentOut, BarsNoted, OneOrderPerBar, [Next]_vars
  PROVE  OneOrderPerBar'
  <1> DEFINE Own == {k \in commands : k.at > born}
  <1>1. \A i \in commands : i.gen \in 1..MaxPass /\ i.gen <= pass /\ i.at \in Nat /\ i.at <= pass
    BY IntentMeans DEF Dated, TypeOK
  <1>2. ASSUME Own' \subseteq Own, \A i \in Own : BarOf(i)' = BarOf(i)
        PROVE  OneOrderPerBar'
    BY <1>2 DEF OneOrderPerBar
  <1>3. ASSUME commands' = commands, born' = born \/ born' = pass, bars' = bars
        PROVE  OneOrderPerBar'
    <2>1. Own' \subseteq Own
      BY <1>1, <1>3 DEF TypeOK
    <2>2. \A i : BarOf(i)' = BarOf(i)
      BY <1>3 DEF BarOf
    <2> QED BY <1>2, <2>1, <2>2
  <1>4. ASSUME NEW gone \in SUBSET entries, NEW closed \in SUBSET Symbols, BeginPass(gone, closed)
        PROVE  OneOrderPerBar'
    <2>1. commands' = commands /\ born' = born
      BY <1>4 DEF BeginPass, ledger
    <2>2. ASSUME NEW i \in Own
          PROVE  bars'[i.gen] = bars[i.gen]
      <3>1. i.gen \in 1..MaxPass /\ i.gen # pass + 1
        BY <1>1 DEF TypeOK
      <3> QED BY <1>4, <3>1 DEF BeginPass, TypeOK
    <2>3. \A i \in Own : BarOf(i)' = BarOf(i)
      BY <2>2 DEF BarOf
    <2> QED BY <1>2, <2>1, <2>3
  <1>5. CASE Command
    <2>1. /\ commands' = commands \cup {order} /\ bars' = bars /\ born' = born
          /\ kill = {} /\ pc = "send" /\ CandidateOf(order) \in pool
      BY <1>5, OrderAssumption DEF Command, time, Held, TypeOK
    <2>2. \A i : BarOf(i)' = BarOf(i)
      BY <2>1 DEF BarOf
    <2>3. \A i : BarOf(CandidateOf(i)) = BarOf(i) /\ CandidateOf(i).symbol = i.symbol
      BY DEF BarOf, CandidateOf
    <2>4. ASSUME NEW i \in Own, i.symbol = order.symbol, BarOf(i) = BarOf(order)
          PROVE  FALSE
      <3>1. CandidateOf(i) \in Kin /\ CandidateOf(order) \in Kin
        BY <2>1 DEF Kin
      <3>2. CandidateOf(i) = CandidateOf(order)
        BY <2>1, <2>3, <2>4, <3>1 DEF BarsNoted
      <3> QED BY <2>1, <3>2 DEF SentOut
    <2>5. Own' \subseteq Own \cup {order}
      BY <2>1
    <2>6. \A i, j \in Own : i.symbol = j.symbol /\ BarOf(i) = BarOf(j) => i = j
      BY DEF OneOrderPerBar
    <2>7. \A i, j \in Own' : i.symbol = j.symbol /\ BarOf(i) = BarOf(j) => i = j
      BY <2>4, <2>5, <2>6
    <2> QED BY <2>2, <2>7 DEF OneOrderPerBar
  <1>6. CASE UNCHANGED <<commands, born, bars>>
    BY <1>3, <1>6
  <1>7. CASE \E found \in SUBSET {"VENUE_DISCONNECT", "UNAUTHORIZED_ACCOUNT"} : Start(found)
    BY <1>3, <1>7 DEF Start, ledger
  <1> QED BY <1>4, <1>5, <1>6, <1>7
          DEF Next, vars, time, ledger, Crash, Fault, Evaluate, EndPass, Defer, TurnDown, Approve,
              Disconnected, Filled, NotFilled, Flattened, FlattenRaises, RecordRaises,
              SubmitRaises, VenueFills, VenueCloses, OwnerHalts, OwnerClears

-----------------------------------------------------------------------------
\* An order that floats was commanded and neither filled nor told filled: it
\* is a new command, or it floated before.
LEMMA TracedStep ==
  ASSUME TypeOK, SentOut, Traced, [Next]_vars
  PROVE  Traced'
  <1> USE DEF Traced
  <1>1. ASSUME NEW found \in SUBSET {"VENUE_DISCONNECT", "UNAUTHORIZED_ACCOUNT"}, Start(found)
        PROVE  Traced'
    BY <1>1 DEF Start, Attributed, venue, ledger
  <1>2. CASE Crash \/ Fault \/ EndPass \/ Disconnected
    BY <1>2 DEF Crash, Fault, Fail, EndPass, Disconnected, venue, ledger
  <1>3. ASSUME NEW gone \in SUBSET entries, NEW closed \in SUBSET Symbols, BeginPass(gone, closed)
        PROVE  Traced'
    <2>1. DOMAIN book' \subseteq DOMAIN book
      BY <1>3 DEF BeginPass, Closed
    <2> QED BY <1>3, <2>1 DEF BeginPass, ledger
  <1>4. ASSUME NEW new \in SUBSET {c \in Candidate : c.gen = pass}, NEW superseded \in SUBSET pool,
               Evaluate(new, superseded)
        PROVE  Traced'
    BY <1>4 DEF Evaluate, venue, ledger
  <1>5. ASSUME NEW c \in todo, Defer(c) \/ TurnDown(c) \/ Approve(c)
        PROVE  Traced'
    BY <1>5 DEF Defer, TurnDown, Approve, venue, ledger
  <1>6. CASE Command
    <2>1. order \notin commands
      BY <1>6 DEF Command, Seen
    <2> QED BY <1>6, <2>1 DEF Command, TypeOK
  <1>7. CASE Filled \/ RecordRaises \/ FlattenRaises
    BY <1>7 DEF Filled, RecordRaises, FlattenRaises, Selected, Fail, venue
  <1>8. CASE NotFilled \/ SubmitRaises
    BY <1>8 DEF NotFilled, SubmitRaises, Selected, Fail, venue, ledger
  <1>9. ASSUME NEW done \in BOOLEAN, Flattened(done)
        PROVE  Traced'
    <2>1. DOMAIN book' \subseteq DOMAIN book
      BY <1>9 DEF Flattened, Closed
    <2> QED BY <1>9, <2>1 DEF Flattened
  <1>10. ASSUME NEW i \in afloat, NEW stop \in BOOLEAN, VenueFills(i, stop)
         PROVE  Traced'
    <2>1. DOMAIN book' = DOMAIN book \cup {i}
      BY <1>10 DEF VenueFills, Opened
    <2> QED BY <1>10, <2>1 DEF VenueFills, process, ledger
  <1>11. ASSUME NEW i \in DOMAIN book, VenueCloses(i)
         PROVE  Traced'
    <2>1. DOMAIN book' \subseteq DOMAIN book
      BY <1>11 DEF VenueCloses, Closed
    <2> QED BY <1>11, <2>1 DEF VenueCloses, process, ledger
  <1>12. CASE OwnerHalts \/ OwnerClears \/ UNCHANGED vars
    BY <1>12 DEF OwnerHalts, OwnerClears, vars, process, venue, ledger
  <1> QED BY <1>1, <1>2, <1>3, <1>4, <1>5, <1>6, <1>7, <1>8, <1>9, <1>10, <1>11, <1>12 DEF Next

\* The halt is read when a pass begins and lasts in the switch: what is
\* approved in the pass is approved under no older one.
LEMMA HaltingStep ==
  ASSUME TypeOK, Halting, [Next]_vars
  PROVE  Halting'
  <1> USE DEF Halting, TypeOK, Steps, time
  <1>1. ASSUME NEW found \in SUBSET {"VENUE_DISCONNECT", "UNAUTHORIZED_ACCOUNT"}, Start(found)
        PROVE  Halting'
    BY <1>1 DEF Start, ledger
  <1>2. CASE Crash \/ Fault \/ EndPass \/ Disconnected
    BY <1>2 DEF Crash, Fault, Fail, EndPass, Disconnected, ledger
  <1>3. ASSUME NEW gone \in SUBSET entries, NEW closed \in SUBSET Symbols, BeginPass(gone, closed)
        PROVE  Halting'
    BY <1>3 DEF BeginPass, OwnerHalt, ledger
  <1>4. ASSUME NEW new \in SUBSET {c \in Candidate : c.gen = pass}, NEW superseded \in SUBSET pool,
               Evaluate(new, superseded)
        PROVE  Halting'
    BY <1>4 DEF Evaluate, ledger
  <1>5. ASSUME NEW c \in todo, Defer(c) \/ TurnDown(c)
        PROVE  Halting'
    BY <1>5 DEF Defer, TurnDown, ledger
  <1>6. ASSUME NEW c \in todo, Approve(c)
        PROVE  Halting'
    BY <1>6 DEF Approve, RiskAllows, ledger
  <1>7. CASE Command
    BY <1>7 DEF Command
  <1>8. CASE Filled \/ NotFilled
    BY <1>8 DEF Filled, NotFilled, Selected, ledger
  <1>9. CASE FlattenRaises \/ RecordRaises \/ SubmitRaises
    BY <1>9 DEF FlattenRaises, RecordRaises, SubmitRaises, Fail
  <1>10. ASSUME NEW done \in BOOLEAN, Flattened(done)
         PROVE  Halting'
    BY <1>10 DEF Flattened
  <1>11. ASSUME NEW i \in afloat, NEW stop \in BOOLEAN, VenueFills(i, stop)
         PROVE  Halting'
    BY <1>11 DEF VenueFills, process, ledger
  <1>12. ASSUME NEW i \in DOMAIN book, VenueCloses(i)
         PROVE  Halting'
    BY <1>12 DEF VenueCloses, process, ledger
  <1>13. CASE OwnerHalts \/ OwnerClears \/ UNCHANGED vars
    BY <1>13 DEF OwnerHalts, OwnerClears, vars, process, ledger
  <1> QED BY <1>1, <1>2, <1>3, <1>4, <1>5, <1>6, <1>7, <1>8, <1>9, <1>10, <1>11, <1>12, <1>13 DEF Next

\* The risk authority approved over a book that reconciled: what is open and
\* unknown since then has filled in this pass.
LEMMA KnownStep ==
  ASSUME TypeOK, Known, [Next]_vars
  PROVE  Known'
  <1> USE DEF Known, time
  <1>1. ASSUME NEW found \in SUBSET {"VENUE_DISCONNECT", "UNAUTHORIZED_ACCOUNT"}, Start(found)
        PROVE  Known'
    BY <1>1 DEF Start
  <1>2. CASE Crash \/ Fault \/ EndPass \/ Disconnected
    BY <1>2 DEF Crash, Fault, Fail, EndPass, Disconnected
  <1>3. ASSUME NEW gone \in SUBSET entries, NEW closed \in SUBSET Symbols, BeginPass(gone, closed)
        PROVE  Known'
    BY <1>3 DEF BeginPass
  <1>4. ASSUME NEW new \in SUBSET {c \in Candidate : c.gen = pass}, NEW superseded \in SUBSET pool,
               Evaluate(new, superseded)
        PROVE  Known'
    BY <1>4 DEF Evaluate
  <1>5. ASSUME NEW c \in todo, Defer(c) \/ TurnDown(c)
        PROVE  Known'
    BY <1>5 DEF Defer, TurnDown
  <1>6. ASSUME NEW c \in todo, Approve(c)
        PROVE  Known'
    <2>1. DOMAIN book \subseteq entries
      BY <1>6 DEF Approve, RiskAllows, Reconciles
    <2> QED BY <1>6, <2>1 DEF Approve, venue
  <1>7. CASE Command
    BY <1>7 DEF Command
  <1>8. CASE Filled \/ NotFilled
    BY <1>8 DEF Filled, NotFilled, Selected
  <1>9. CASE FlattenRaises \/ RecordRaises \/ SubmitRaises
    BY <1>9 DEF FlattenRaises, RecordRaises, SubmitRaises, Fail
  <1>10. ASSUME NEW done \in BOOLEAN, Flattened(done)
         PROVE  Known'
    BY <1>10 DEF Flattened
  <1>11. ASSUME NEW i \in afloat, NEW stop \in BOOLEAN, VenueFills(i, stop)
         PROVE  Known'
    <2>1. /\ DOMAIN book' = DOMAIN book \cup {i}
          /\ book'[i].since = pass
          /\ \A j \in DOMAIN book \ {i} : book'[j] = book[j]
      BY <1>11 DEF VenueFills, Opened
    <2> QED BY <1>11, <2>1 DEF VenueFills, process
  <1>12. ASSUME NEW i \in DOMAIN book, VenueCloses(i)
         PROVE  Known'
    <2>1. DOMAIN book' \subseteq DOMAIN book /\ \A j \in DOMAIN book' : book'[j] = book[j]
      BY <1>12 DEF VenueCloses, Closed
    <2> QED BY <1>12, <2>1 DEF VenueCloses, process
  <1>13. CASE OwnerHalts \/ OwnerClears \/ UNCHANGED vars
    BY <1>13 DEF OwnerHalts, OwnerClears, vars, process, venue
  <1> QED BY <1>1, <1>2, <1>3, <1>4, <1>5, <1>6, <1>7, <1>8, <1>9, <1>10, <1>11, <1>12, <1>13 DEF Next

\* A position without its stop becomes known only by a start, which trips the
\* switch, or by a receipt, after which the pass ends in a trip as well.
LEMMA BareStep ==
  ASSUME TypeOK, Traced, BareMeansHalted, [Next]_vars
  PROVE  BareMeansHalted'
  <1> USE DEF BareMeansHalted
  <1>1. ASSUME NEW found \in SUBSET {"VENUE_DISCONNECT", "UNAUTHORIZED_ACCOUNT"}, Start(found)
        PROVE  BareMeansHalted'
    <2>1. CASE \A i \in DOMAIN book : book[i].stop
      BY <1>1, <2>1 DEF Start, venue
    <2>2. CASE ~ \A i \in DOMAIN book : book[i].stop
      <3>1. ~Reconciles(entries')
        BY <2>2 DEF Reconciles
      <3>2. "RECONCILIATION_FAILURE" \in kill'
        BY <1>1, <3>1 DEF Start
      <3> QED BY <3>2
    <2> QED BY <2>1, <2>2
  <1>2. CASE Crash
    BY <1>2 DEF Crash
  <1>3. CASE Fault \/ EndPass \/ Disconnected
    BY <1>3 DEF Fault, Fail, EndPass, Disconnected, venue, ledger
  <1>4. ASSUME NEW gone \in SUBSET entries, NEW closed \in SUBSET Symbols, BeginPass(gone, closed)
        PROVE  BareMeansHalted'
    <2>1. DOMAIN book' \subseteq DOMAIN book /\ \A j \in DOMAIN book' : book'[j] = book[j]
      BY <1>4 DEF BeginPass, Closed
    <2> QED BY <1>4, <2>1 DEF BeginPass, ledger
  <1>5. ASSUME NEW new \in SUBSET {c \in Candidate : c.gen = pass}, NEW superseded \in SUBSET pool,
               Evaluate(new, superseded)
        PROVE  BareMeansHalted'
    BY <1>5 DEF Evaluate, venue, ledger
  <1>6. ASSUME NEW c \in todo, Defer(c) \/ TurnDown(c) \/ Approve(c)
        PROVE  BareMeansHalted'
    BY <1>6 DEF Defer, TurnDown, Approve, venue, ledger
  <1>7. CASE Command
    BY <1>7 DEF Command
  <1>8. CASE Filled
    BY <1>8 DEF Filled, Selected, venue
  <1>9. CASE NotFilled
    BY <1>9 DEF NotFilled, Selected, ledger
  <1>10. CASE FlattenRaises \/ RecordRaises \/ SubmitRaises
    BY <1>10 DEF FlattenRaises, RecordRaises, SubmitRaises, Fail
  <1>11. ASSUME NEW done \in BOOLEAN, Flattened(done)
         PROVE  BareMeansHalted'
    BY <1>11 DEF Flattened
  <1>12. ASSUME NEW i \in afloat, NEW stop \in BOOLEAN, VenueFills(i, stop)
         PROVE  BareMeansHalted'
    <2>1. /\ DOMAIN book' = DOMAIN book \cup {i}
          /\ \A j \in DOMAIN book \ {i} : book'[j] = book[j]
      BY <1>12 DEF VenueFills, Opened
    <2>2. i \notin entries \cup receipts
      BY <1>12 DEF Traced
    <2> QED BY <1>12, <2>1, <2>2 DEF VenueFills, process, ledger
  <1>13. ASSUME NEW i \in DOMAIN book, VenueCloses(i)
         PROVE  BareMeansHalted'
    <2>1. DOMAIN book' \subseteq DOMAIN book /\ \A j \in DOMAIN book' : book'[j] = book[j]
      BY <1>13 DEF VenueCloses, Closed
    <2> QED BY <1>13, <2>1 DEF VenueCloses, process, ledger
  <1>14. CASE OwnerHalts \/ OwnerClears \/ UNCHANGED vars
    BY <1>14 DEF OwnerHalts, OwnerClears, vars, process, venue, ledger
  <1> QED BY <1>1, <1>2, <1>3, <1>4, <1>5, <1>6, <1>7, <1>8, <1>9, <1>10, <1>11, <1>12, <1>13,
             <1>14 DEF Next

-----------------------------------------------------------------------------
(* The limits of the mandate. *)

\* A finite set is as large as its subsets, and one more element adds one.
LEMMA OneMore ==
  ASSUME NEW S, IsFiniteSet(S), NEW T, NEW x, T \subseteq S \cup {x}
  PROVE  IsFiniteSet(T) /\ Cardinality(T) <= Cardinality(S) + 1
  <1>1. Cardinality(S) \in Nat
    BY FS_CardinalityType
  <1>2. /\ IsFiniteSet(S \cup {x})
        /\ Cardinality(S \cup {x}) = IF x \in S THEN Cardinality(S) ELSE Cardinality(S) + 1
    BY FS_AddElement
  <1>3. IsFiniteSet(T) /\ Cardinality(T) <= Cardinality(S \cup {x})
    BY <1>2, FS_Subset
  <1>4. Cardinality(T) \in Nat
    BY <1>3, FS_CardinalityType
  <1> QED BY <1>1, <1>2, <1>3, <1>4

\* There are finitely many commands, and so finitely many of anything else.
LEMMA ToldIsFinite ==
  ASSUME TypeOK, IsFiniteSet(commands)
  PROVE  /\ IsFiniteSet(Told) /\ Cardinality(Told) \in Nat
         /\ \A s : IsFiniteSet(ToldOf(s)) /\ Cardinality(ToldOf(s)) \in Nat
  <1>1. Told \subseteq commands
    BY DEF Told, TypeOK
  <1>2. \A s : ToldOf(s) \subseteq commands
    BY <1>1 DEF ToldOf
  <1> QED BY <1>1, <1>2, FS_Subset, FS_CardinalityType

\* Fewer positions told of break no limit.
LEMMA LimitsKept ==
  ASSUME TypeOK, IsFiniteSet(commands), LimitsHold, Told' \subseteq Told
  PROVE  LimitsHold'
  <1>1. Cardinality(Told') <= Cardinality(Told) /\ Cardinality(Told') \in Nat
    BY ToldIsFinite, FS_Subset, FS_CardinalityType
  <1>2. ASSUME NEW s \in Symbols
        PROVE  Cardinality(ToldOf(s)') <= Cardinality(ToldOf(s)) /\ Cardinality(ToldOf(s)') \in Nat
    <2>1. ToldOf(s)' \subseteq ToldOf(s)
      BY DEF ToldOf
    <2> QED BY <2>1, ToldIsFinite, FS_Subset, FS_CardinalityType
  <1>3. Cardinality(Told') <= Total
    BY <1>1, ToldIsFinite, OrderAssumption DEF LimitsHold, Told
  <1>4. ASSUME NEW s \in Symbols
        PROVE  Cardinality(ToldOf(s)') <= PerInstrument
    <2>1. Cardinality(ToldOf(s)) <= PerInstrument
      BY DEF LimitsHold, ToldOf, Told
    <2> QED BY <1>2, <2>1, ToldIsFinite, OrderAssumption
  <1> QED BY <1>3, <1>4 DEF LimitsHold, ToldOf, Told

\* The position of the intent being executed takes the room there is.
LEMMA LimitsReached ==
  ASSUME TypeOK, IsFiniteSet(commands), LimitsHold, Room, pc = "sent",
         Told' \subseteq Told \cup {order}
  PROVE  LimitsHold'
  <1> DEFINE Rest == Told \ {order}
             RestOf(s) == ToldOf(s) \ {order}
  <1>1. /\ IsFiniteSet(Rest) /\ Cardinality(Rest) \in Nat
        /\ \A s : /\ IsFiniteSet(RestOf(s)) /\ Cardinality(RestOf(s)) \in Nat
                  /\ Cardinality(RestOf(s)) <= Cardinality(ToldOf(s))
    <2>1. Rest \subseteq Told /\ \A s : RestOf(s) \subseteq ToldOf(s)
      OBVIOUS
    <2> QED BY <2>1, ToldIsFinite, FS_Subset, FS_CardinalityType
  <1>2. Cardinality(Told') <= Total
    <2>1. Told' \subseteq Rest \cup {order}
      OBVIOUS
    <2>2. IsFiniteSet(Told') /\ Cardinality(Told') <= Cardinality(Rest) + 1
      BY <1>1, <2>1, OneMore
    <2>3. Cardinality(Rest) < Total
      BY DEF Room
    <2> HIDE DEF Rest
    <2> QED BY <1>1, <2>2, <2>3, OrderAssumption, FS_CardinalityType
  <1>3. ASSUME NEW s \in Symbols
        PROVE  Cardinality(ToldOf(s)') <= PerInstrument
    <2>1. Cardinality(ToldOf(s)) <= PerInstrument
      BY DEF LimitsHold, ToldOf, Told
    <2>2. CASE s = order.symbol
      <3>1. ToldOf(s)' \subseteq RestOf(s) \cup {order}
        BY DEF ToldOf
      <3>2. IsFiniteSet(ToldOf(s)') /\ Cardinality(ToldOf(s)') <= Cardinality(RestOf(s)) + 1
        BY <1>1, <3>1, OneMore
      <3>3. Cardinality(RestOf(s)) < PerInstrument
        BY <2>2 DEF Room
      <3> HIDE DEF RestOf
      <3> QED BY <1>1, <3>2, <3>3, OrderAssumption, FS_CardinalityType
    <2>3. CASE s # order.symbol
      <3>1. ToldOf(s)' \subseteq ToldOf(s)
        BY <2>3 DEF ToldOf
      <3>2. Cardinality(ToldOf(s)') <= Cardinality(ToldOf(s)) /\ Cardinality(ToldOf(s)') \in Nat
        BY <3>1, ToldIsFinite, FS_Subset, FS_CardinalityType
      <3> QED BY <2>1, <3>2, ToldIsFinite, OrderAssumption
    <2> QED BY <2>2, <2>3
  <1> QED BY <1>2, <1>3 DEF LimitsHold, ToldOf, Told

\* Room stays while nothing more is told of.
LEMMA RoomKept ==
  ASSUME TypeOK, IsFiniteSet(commands), Room, order' = order, Told' \subseteq Told,
         pc' \in {"send", "sent"} => pc \in {"send", "sent"}
  PROVE  Room'
  <1> SUFFICES ASSUME pc' \in {"send", "sent"}
               PROVE  /\ Cardinality(Told' \ {order}) < Total
                      /\ Cardinality(ToldOf(order.symbol)' \ {order}) < PerInstrument
    BY DEF Room, ToldOf
  <1>1. /\ Cardinality(Told \ {order}) < Total
        /\ Cardinality(ToldOf(order.symbol) \ {order}) < PerInstrument
    BY DEF Room
  <1>2. Told \ {order} \subseteq Told /\ Told' \ {order} \subseteq Told \ {order}
    OBVIOUS
  <1>3. /\ ToldOf(order.symbol) \ {order} \subseteq ToldOf(order.symbol)
        /\ ToldOf(order.symbol)' \ {order} \subseteq ToldOf(order.symbol) \ {order}
    BY DEF ToldOf
  <1>4. /\ Cardinality(Told' \ {order}) \in Nat
        /\ Cardinality(Told \ {order}) \in Nat
        /\ Cardinality(Told' \ {order}) <= Cardinality(Told \ {order})
    BY <1>2, ToldIsFinite, FS_Subset, FS_CardinalityType
  <1>5. /\ Cardinality(ToldOf(order.symbol)' \ {order}) \in Nat
        /\ Cardinality(ToldOf(order.symbol) \ {order}) \in Nat
        /\ Cardinality(ToldOf(order.symbol)' \ {order}) <= Cardinality(ToldOf(order.symbol) \ {order})
    BY <1>3, ToldIsFinite, FS_Subset, FS_CardinalityType
  <1> QED BY <1>1, <1>4, <1>5, OrderAssumption

-----------------------------------------------------------------------------
\* Commands stay finite, there is room wherever an order is under way, and the
\* limits hold.
LEMMA LimitsStep ==
  ASSUME TypeOK, Dated, Held, SentOut, Traced, IsFiniteSet(commands), Room, LimitsHold, [Next]_vars
  PROVE  IsFiniteSet(commands)' /\ Room' /\ LimitsHold'
  <1> DEFINE Done == IsFiniteSet(commands)' /\ Room' /\ LimitsHold'
  <1>a. ASSUME Told' \subseteq Told, commands' = commands, pc' \notin {"send", "sent"}
        PROVE  Done
    BY <1>a, LimitsKept DEF Room
  <1>b. ASSUME Told' \subseteq Told, commands' = commands, order' = order,
               pc' \in {"send", "sent"} => pc \in {"send", "sent"}
        PROVE  Done
    BY <1>b, LimitsKept, RoomKept
  <1>c. ASSUME Told' \subseteq Told \cup {order}, commands' = commands, pc = "sent",
               pc' \notin {"send", "sent"}
        PROVE  Done
    BY <1>c, LimitsReached DEF Room
  <1>1. ASSUME NEW found \in SUBSET {"VENUE_DISCONNECT", "UNAUTHORIZED_ACCOUNT"}, Start(found)
        PROVE  Done
    BY <1>1, <1>a DEF Start, Told, venue, ledger
  <1>2. CASE Crash \/ Fault \/ EndPass \/ Disconnected
    <2>1. Told' = Told /\ commands' = commands /\ pc' \notin {"send", "sent"}
      BY <1>2 DEF Crash, Fault, Fail, EndPass, Disconnected, Told, venue, ledger
    <2> QED BY <2>1, <1>a
  <1>3. ASSUME NEW gone \in SUBSET entries, NEW closed \in SUBSET Symbols, BeginPass(gone, closed)
        PROVE  Done
    <2>1. Told' \subseteq Told /\ commands' = commands /\ pc' = "marked"
      BY <1>3 DEF BeginPass, Closed, Told, ledger
    <2> QED BY <2>1, <1>a
  <1>4. ASSUME NEW new \in SUBSET {c \in Candidate : c.gen = pass}, NEW superseded \in SUBSET pool,
               Evaluate(new, superseded)
        PROVE  Done
    BY <1>4, <1>a DEF Evaluate, Told, venue, ledger
  <1>5. ASSUME NEW c \in todo, Defer(c) \/ TurnDown(c)
        PROVE  Done
    BY <1>5, <1>b DEF Defer, TurnDown, Told, venue, ledger
  <1>6. ASSUME NEW c \in todo, Approve(c)
        PROVE  Done
    <2>1. c \in Candidate /\ pass \in 1..MaxPass
      BY OrderAssumption DEF Dated, TypeOK, Candidate
    <2>2. IntentOf(c).symbol = c.symbol
      BY <2>1, IntentOfCandidate
    <2>3. Told' = Told /\ commands' = commands /\ order' = IntentOf(c) /\ \A s : ToldOf(s)' = ToldOf(s)
      BY <1>6 DEF Approve, Told, ToldOf, venue, ledger
    <2>4. IsFiniteSet(DOMAIN book) /\ Cardinality(DOMAIN book) \in Nat
      BY FS_Subset, FS_CardinalityType DEF Traced
    <2>5. IsFiniteSet(Of(c.symbol)) /\ Cardinality(Of(c.symbol)) \in Nat
      <3>1. Of(c.symbol) \subseteq DOMAIN book
        BY DEF Of
      <3> QED BY <2>4, <3>1, FS_Subset, FS_CardinalityType
    <2>6. Cardinality(DOMAIN book) < Total /\ Cardinality(Of(c.symbol)) < PerInstrument
      BY <1>6 DEF Approve, RiskAllows
    <2>7. Cardinality(Told \ {IntentOf(c)}) < Total
      <3>1. Told \ {IntentOf(c)} \subseteq DOMAIN book
        BY DEF Told
      <3>2. /\ Cardinality(Told \ {IntentOf(c)}) <= Cardinality(DOMAIN book)
            /\ Cardinality(Told \ {IntentOf(c)}) \in Nat
        BY <2>4, <3>1, FS_Subset, FS_CardinalityType
      <3> QED BY <2>4, <2>6, <3>2, OrderAssumption
    <2>8. Cardinality(ToldOf(c.symbol) \ {IntentOf(c)}) < PerInstrument
      <3>1. ToldOf(c.symbol) \ {IntentOf(c)} \subseteq Of(c.symbol)
        BY DEF Told, ToldOf, Of
      <3>2. /\ Cardinality(ToldOf(c.symbol) \ {IntentOf(c)}) <= Cardinality(Of(c.symbol))
            /\ Cardinality(ToldOf(c.symbol) \ {IntentOf(c)}) \in Nat
        BY <2>5, <3>1, FS_Subset, FS_CardinalityType
      <3> QED BY <2>5, <2>6, <3>2, OrderAssumption
    <2>9. Room'
      <3>1. {i \in Told' : i.symbol = order'.symbol} = ToldOf(c.symbol)
        BY <2>2, <2>3 DEF ToldOf
      <3>2. Cardinality(Told' \ {order'}) < Total
        BY <2>3, <2>7
      <3>3. Cardinality({i \in Told' : i.symbol = order'.symbol} \ {order'}) < PerInstrument
        BY <2>3, <2>8, <3>1
      <3> QED BY <3>2, <3>3 DEF Room, ToldOf
    <2> QED BY <2>3, <2>9, LimitsKept
  <1>7. CASE Command
    <2>1. Told' = Told /\ order' = order /\ commands' = commands \cup {order}
          /\ pc = "send"
      BY <1>7 DEF Command, Told
    <2> QED BY <2>1, LimitsKept, RoomKept, FS_AddElement
  <1>8. CASE Filled \/ FlattenRaises \/ RecordRaises
    <2>1. Told' \subseteq Told \cup {order} /\ commands' = commands /\ pc = "sent"
          /\ pc' \notin {"send", "sent"}
      BY <1>8 DEF Filled, Selected, FlattenRaises, RecordRaises, Fail, Told, venue
    <2> QED BY <2>1, <1>c
  <1>9. CASE NotFilled \/ SubmitRaises
    <2>1. Told' = Told /\ commands' = commands /\ pc' \notin {"send", "sent"}
      BY <1>9 DEF NotFilled, Selected, SubmitRaises, Fail, Told, venue, ledger
    <2> QED BY <2>1, <1>a
  <1>10. ASSUME NEW done \in BOOLEAN, Flattened(done)
         PROVE  Done
    <2>1. Told' \subseteq Told \cup {order} /\ commands' = commands /\ pc = "sent" /\ pc' = "idle"
      BY <1>10 DEF Flattened, Closed, Told
    <2> QED BY <2>1, <1>c
  <1>11. ASSUME NEW i \in afloat, NEW stop \in BOOLEAN, VenueFills(i, stop)
         PROVE  Done
    <2>1. DOMAIN book' = DOMAIN book \cup {i} /\ i \notin receipts
      BY <1>11 DEF VenueFills, Opened, Traced
    <2>2. Told' = Told /\ commands' = commands /\ order' = order /\ pc' = pc
      BY <1>11, <2>1 DEF VenueFills, Told, process, ledger
    <2> QED BY <2>2, <1>b
  <1>12. ASSUME NEW i \in DOMAIN book, VenueCloses(i)
         PROVE  Done
    <2>1. Told' \subseteq Told /\ commands' = commands /\ order' = order /\ pc' = pc
      BY <1>12 DEF VenueCloses, Closed, Told, process, ledger
    <2> QED BY <2>1, <1>b
  <1>13. CASE OwnerHalts \/ OwnerClears \/ UNCHANGED vars
    <2>1. Told' = Told /\ commands' = commands /\ order' = order /\ pc' = pc
      BY <1>13 DEF OwnerHalts, OwnerClears, vars, process, venue, ledger, Told
    <2> QED BY <2>1, <1>b
  <1> QED BY <1>1, <1>2, <1>3, <1>4, <1>5, <1>6, <1>7, <1>8, <1>9, <1>10, <1>11, <1>12, <1>13 DEF Next

-----------------------------------------------------------------------------
(* The theorems. *)

\* The first state has the invariant.
LEMMA InitInv == Init => OrderInv
  <1> SUFFICES ASSUME Init PROVE OrderInv
    OBVIOUS
  <1> USE OrderAssumption DEF Init
  <1>1. TypeOK
    BY DEF TypeOK, Steps, Triggers
  <1>2. Dated /\ Held /\ SentOut /\ CandidateSentOnce /\ BarsNoted /\ OneOrderPerBar /\ Traced
    BY DEF Dated, Held, SentOut, CandidateSentOnce, BarsNoted, OneOrderPerBar, Traced
  <1>3. Halting /\ Known /\ BareMeansHalted /\ Room
    BY DEF Halting, Known, BareMeansHalted, Room
  <1>4. IsFiniteSet(commands)
    BY FS_EmptySet
  <1>5. LimitsHold
    <2>1. Told = {} /\ \A s : ToldOf(s) = {}
      BY DEF Told, ToldOf
    <2>2. Cardinality(Told) = 0 /\ \A s : Cardinality(ToldOf(s)) = 0
      BY <2>1, FS_EmptySet
    <2> QED BY <2>2 DEF LimitsHold, Told, ToldOf
  <1> QED BY <1>1, <1>2, <1>3, <1>4, <1>5 DEF OrderInv

\* Every step keeps the invariant.
LEMMA NextInv == OrderInv /\ [Next]_vars => OrderInv'
  BY TypeStep, DatedStep, HeldStep, SentOutStep, BarsStep, OncePerBarStep, TracedStep, HaltingStep, KnownStep, BareStep,
     LimitsStep DEF OrderInv

\* The invariant of the order path, from the pass to the venue and the ledger.
THEOREM OrderInvariant == Spec => []OrderInv
  BY InitInv, NextInv, PTL DEF Spec

\* Types.
THEOREM OrderTypeOK == Spec => []TypeOK
  <1>1. OrderInv => TypeOK
    BY DEF OrderInv
  <1> QED BY <1>1, OrderInvariant, PTL

\* A process sends one order for a bar of a setup, whatever raises, fills late
\* or is evaluated again.
THEOREM BarOrderedOnce == Spec => []OneOrderPerBar
  <1>1. OrderInv => OneOrderPerBar
    BY DEF OrderInv
  <1> QED BY <1>1, OrderInvariant, PTL

\* No candidate is sent twice, however its executions end and whatever
\* restarts, although _seen never meets an idempotency key again.
THEOREM SentOnce == Spec => []CandidateSentOnce
  <1>1. OrderInv => CandidateSentOnce
    BY DEF OrderInv
  <1> QED BY <1>1, OrderInvariant, PTL

(***************************************************************************)
(* The replay guard of execute never refuses anything: when an order        *)
(* reaches it with the switch clear, its key is new, because the candidate  *)
(* was not sent in an earlier pass either.  What prevents the second order  *)
(* is the pool and the switch, not _seen.                                   *)
(***************************************************************************)
SeenIsRedundant == pc = "send" /\ kill = {} => order \notin Seen

THEOREM SeenNeverRefuses == Spec => []SeenIsRedundant
  <1>1. OrderInv => SeenIsRedundant
    <2> SUFFICES ASSUME OrderInv, pc = "send", kill = {}, order \in commands
                 PROVE  FALSE
      BY DEF SeenIsRedundant, Seen
    <2>1. order # None
      BY DEF OrderInv, TypeOK
    <2>2. CandidateOf(order) \in pool
      BY <2>1 DEF OrderInv, Held
    <2> QED BY <2>2 DEF OrderInv, SentOut
  <1> QED BY <1>1, OrderInvariant, PTL

\* A halt of the owner stops every pass that begins under it.
THEOREM OwnerHaltStops == Spec => []OwnerHaltHonoured
  <1>1. OrderInv => OwnerHaltHonoured
    BY DEF OrderInv, TypeOK, Dated, Halting, OwnerHaltHonoured
  <1> QED BY <1>1, OrderInvariant, PTL

\* Orders leave only over a book that reconciled in this pass.
THEOREM BookIsKnown == Spec => []NewRiskOverKnownBook
  <1>1. OrderInv => NewRiskOverKnownBook
    BY DEF OrderInv, Known, NewRiskOverKnownBook
  <1> QED BY <1>1, OrderInvariant, PTL

\* The limits of the mandate bound what the process was told is open.
THEOREM LimitsAreKept == Spec => []LimitsHold
  <1>1. OrderInv => LimitsHold
    BY DEF OrderInv
  <1> QED BY <1>1, OrderInvariant, PTL

\* A known position without its stop halts new risk, also after a restart.
THEOREM BareIsHalted == Spec => []BareMeansHalted
  <1>1. OrderInv => BareMeansHalted
    BY DEF OrderInv
  <1> QED BY <1>1, OrderInvariant, PTL

(***************************************************************************)
(* What a start gives, with either kind of adapter: the entries of all      *)
(* positions where positions name their intents, each of which has its      *)
(* command in the ledger, and otherwise a tripped switch over any position. *)
(***************************************************************************)
RestoredOrHalted ==
  [][pc = "down" /\ pc' # "down" =>
       /\ NamesIntents => entries' = DOMAIN book
       /\ ~NamesIntents /\ DOMAIN book # {} => kill' # {}]_vars

THEOREM StartRestoresOrHalts == Spec => RestoredOrHalted
  <1>1. OrderInv /\ [Next]_vars =>
          [pc = "down" /\ pc' # "down" =>
             /\ NamesIntents => entries' = DOMAIN book
             /\ ~NamesIntents /\ DOMAIN book # {} => kill' # {}]_vars
    <2> SUFFICES ASSUME OrderInv, Next, pc = "down", pc' # "down"
                 PROVE  /\ NamesIntents => entries' = DOMAIN book
                        /\ ~NamesIntents /\ DOMAIN book # {} => kill' # {}
      OBVIOUS
    <2>1. DOMAIN book \subseteq commands /\ todo = {}
      BY DEF OrderInv, Traced, TypeOK
    <2>2. PICK found \in SUBSET {"VENUE_DISCONNECT", "UNAUTHORIZED_ACCOUNT"} : Start(found)
      BY <2>1 DEF Next, Crash, Fault, BeginPass, Evaluate, EndPass, Disconnected, Command, Filled,
                  NotFilled, Flattened, FlattenRaises, RecordRaises, SubmitRaises, VenueFills,
                  VenueCloses, OwnerHalts, OwnerClears, process
    <2> QED BY <2>1, <2>2 DEF Start, Attributed
  <1> QED BY <1>1, OrderInvariant, PTL DEF Spec, RestoredOrHalted

-----------------------------------------------------------------------------
(* The order path implements the once-only executor. *)

TimesSent == [c \in Candidate |-> Cardinality(SentFor(c))]

Confirmed == {CandidateOf(i) : i \in receipts}

LEMMA NothingHappens ==
  ASSUME UNCHANGED <<pass, commands, receipts>>
  PROVE  UNCHANGED Executor!evars
  <1>1. \A c : SentFor(c)' = SentFor(c)
    BY DEF SentFor
  <1>2. UNCHANGED TimesSent /\ UNCHANGED Generated /\ UNCHANGED Confirmed
    BY <1>1 DEF TimesSent, Generated, Confirmed
  <1> QED BY <1>2 DEF Executor!evars, TimesSent, Confirmed

\* With a new pass its candidates can be asked for.
LEMMA PassAsks ==
  ASSUME pass \in Nat, pass' = pass + 1, UNCHANGED <<commands, receipts>>
  PROVE  Executor!Next
  <1> DEFINE S == {c \in Candidate : c.gen = pass + 1}
  <1>1. Generated' = Generated \cup S /\ S \in SUBSET Candidate
    BY DEF Generated, Candidate
  <1>2. \A r, s \in Generated \cup S :
          [c \in Candidate |-> c][r] = [c \in Candidate |-> c][s] => r = s
    BY DEF Generated
  <1>3. UNCHANGED TimesSent /\ UNCHANGED Confirmed
    BY DEF TimesSent, SentFor, Confirmed
  <1> HIDE DEF S
  <1>4. PICK T \in SUBSET Candidate : T = S
    BY <1>1
  <1>5. Executor!Ask(T)
    BY <1>1, <1>2, <1>3, <1>4 DEF Executor!Ask, TimesSent, Confirmed
  <1> QED BY <1>5 DEF Executor!Next

\* A command leaves for a candidate no command has left for.
LEMMA CommandCarriesOut ==
  ASSUME OrderInv, Command
  PROVE  Executor!Next
  <1> USE DEF time
  <1>1. /\ order \in Intent /\ order.gen <= pass /\ kill = {} /\ pc = "send"
        /\ CandidateOf(order) \in pool
    BY OrderAssumption DEF OrderInv, TypeOK, Dated, Held, Command
  <1>2. PICK c \in Candidate : c = CandidateOf(order)
    BY <1>1, IntentMeans
  <1>3. SentFor(c) = {}
    BY <1>1, <1>2 DEF OrderInv, SentOut, SentFor
  <1>4. /\ SentFor(c)' = {order}
        /\ \A d \in Candidate \ {c} : SentFor(d)' = SentFor(d)
    BY <1>2, <1>3 DEF Command, SentFor
  <1>5. Cardinality(SentFor(c)) = 0 /\ Cardinality(SentFor(c)') = 1
    BY <1>3, <1>4, FS_EmptySet, FS_Singleton
  <1>6. \A d \in Candidate :
          TimesSent'[d] = IF d = c THEN 0 + 1 ELSE TimesSent[d]
    BY <1>4, <1>5 DEF TimesSent
  <1>7. TimesSent[c] = 0 /\ TimesSent' = [TimesSent EXCEPT ![c] = @ + 1]
    BY <1>5, <1>6 DEF TimesSent
  <1>8. c \in Generated
    BY <1>1, <1>2 DEF Generated, CandidateOf
  <1>9. UNCHANGED Generated /\ UNCHANGED Confirmed
    BY DEF Command, Generated, Confirmed
  <1>10. Executor!CarryOut(c)
    BY <1>7, <1>8, <1>9 DEF Executor!CarryOut, TimesSent, Confirmed
  <1> QED BY <1>10 DEF Executor!Next

\* A receipt confirms the order whose answer it is.
LEMMA ReceiptConfirms ==
  ASSUME OrderInv, pc = "sent", receipts' = receipts \cup {order}, UNCHANGED <<pass, commands>>
  PROVE  Executor!Next
  <1>1. order \in Intent /\ order \in commands
    BY OrderAssumption DEF OrderInv, TypeOK, SentOut
  <1>2. PICK c \in Candidate : c = CandidateOf(order)
    BY <1>1, IntentMeans
  <1>3. SentFor(c) = {order}
    BY <1>1, <1>2 DEF OrderInv, CandidateSentOnce, SentFor
  <1>4. TimesSent[c] = 1
    BY <1>3, FS_Singleton DEF TimesSent
  <1>5. Confirmed' = Confirmed \cup {c}
    BY <1>2 DEF Confirmed
  <1>6. UNCHANGED TimesSent /\ UNCHANGED Generated
    BY DEF TimesSent, SentFor, Generated
  <1>7. Executor!Confirm(c)
    BY <1>4, <1>5, <1>6 DEF Executor!Confirm, TimesSent, Confirmed
  <1> QED BY <1>7 DEF Executor!Next

\* Whatever raises, crashes, restarts or fills late, the venue is given one order
\* for a candidate, and the ledger's fills are fills of such orders.
THEOREM OrdersImplementExecutor == Spec => ImplementsExecutor
  <1>1. Init => Executor!Init
    <2> SUFFICES ASSUME Init PROVE Executor!Init
      OBVIOUS
    <2>1. Generated = {} /\ Confirmed = {} /\ \A c : SentFor(c) = {}
      BY DEF Init, Generated, Candidate, Confirmed, SentFor
    <2>2. TimesSent = [c \in Candidate |-> 0]
      BY <2>1, FS_EmptySet DEF TimesSent
    <2> QED BY <2>1, <2>2 DEF Executor!Init, TimesSent, Confirmed
  <1>2. ASSUME OrderInv, [Next]_vars PROVE [Executor!Next]_Executor!evars
    <2>1. CASE UNCHANGED <<pass, commands, receipts>>
      BY <2>1, NothingHappens
    <2>2. ASSUME NEW gone \in SUBSET entries, NEW closed \in SUBSET Symbols, BeginPass(gone, closed)
          PROVE  Executor!Next
      BY <1>2, <2>2, OrderAssumption, PassAsks
         DEF BeginPass, OrderInv, TypeOK, OrderAssumption, ledger
    <2>3. CASE Command
      BY <1>2, <2>3, CommandCarriesOut
    <2>4. CASE Filled \/ (\E done \in BOOLEAN : Flattened(done)) \/ FlattenRaises \/ RecordRaises
      BY <1>2, <2>4, ReceiptConfirms DEF Filled, Flattened, FlattenRaises, RecordRaises, time
    <2> QED BY <1>2, <2>1, <2>2, <2>3, <2>4
            DEF Next, vars, time, ledger, Start, Crash, Fault, Evaluate, EndPass, Defer, TurnDown,
                Approve, Disconnected, NotFilled, SubmitRaises, VenueFills, VenueCloses,
                OwnerHalts, OwnerClears
  <1> QED BY <1>1, <1>2, OrderInvariant, PTL DEF Spec, ImplementsExecutor, Executor!Spec

=============================================================================
