--------------------------- MODULE OrderExecution ---------------------------
(***************************************************************************)
(* From a candidate to an order at the venue: the account service's passes  *)
(* (trading/vati/app/account_service.py), the coordinator's admission loop  *)
(* and candidate pool (account_coordinator.py, candidate_pool.py), execute  *)
(* of execution/router.py, the recovery of app/trade_lifecycle.py and       *)
(* execution/reconciliation.py, over a ledger that survives the process.    *)
(*                                                                          *)
(* One process trades the account at a time: AccountLease shows why.  It is *)
(* single-threaded; what happens beside it is the venue, which fills orders *)
(* when it likes and closes positions on its own, the owner, who halts      *)
(* trading through the ledger, and the crash, possible between any two      *)
(* steps.  An exception ends a pass and trips the kill switch.              *)
(*                                                                          *)
(* A symbol stands for one setup in one instrument.  A pass evaluates the   *)
(* symbols whose latest closed bar is newer than the last one this process  *)
(* evaluated; that memory, like the pool, dies with the process.  A         *)
(* candidate is its symbol and the pass that generated it: its id carries   *)
(* the time of the pass, so that the same bar evaluated again is another    *)
(* candidate.  The intent made of it, and the intent's idempotency key,     *)
(* also carry the time it is ranked at, because the allocation's hash       *)
(* covers the candidate's freshness.                                        *)
(*                                                                          *)
(* positions() tells what is open when it is called, as far as              *)
(* Mt5PullBridge shows; a stop is attached or refused together with a fill. *)
(* Scale-in orders, owner tickets and quantities are left out.              *)
(***************************************************************************)
EXTENDS Naturals, FiniteSets

CONSTANTS
  Symbols,        \* the instruments of the account
  None,           \* no order
  MaxPass,        \* bound on the passes
  Ttl,            \* for how many passes a candidate is fresh
  Budget,         \* max_new_intents_per_pass
  PerInstrument,  \* max_positions_per_instrument of the mandate
  Total,          \* max_total_positions of the mandate
  NamesIntents    \* do the adapter's positions and closes name their intent

ASSUME OrderAssumption ==
  /\ MaxPass \in Nat
  /\ Ttl \in Nat \ {0}
  /\ Budget \in Nat \ {0}
  /\ PerInstrument \in Nat \ {0}
  /\ Total \in Nat \ {0}
  /\ NamesIntents \in BOOLEAN
  /\ None \notin [symbol : Symbols, gen : Nat, at : Nat]

VARIABLES
  pc,        \* "down", or where the process is in its loop
  pass,      \* the clock: the passes begun so far
  bars,      \* history: the latest closed bar of each symbol, pass by pass
  born,      \* history: the clock when the process last started
  kill,      \* KillSwitch.active
  pool,      \* the candidates in a state from which they may become intents
  todo,      \* the ranked candidates this pass has yet to look at
  admitted,  \* how many intents this pass has executed
  last,      \* last_bar_end_ms: the latest bar of each symbol evaluated
  order,     \* the intent being executed, or None
  entries,   \* the intents with an open entry in the lifecycle
  book,      \* the positions open at the venue: stop held, pass they opened in
  afloat,    \* the orders the venue has been given and may still fill
  commands,  \* ledger: the intents with an ORDER_COMMAND
  receipts,  \* ledger: the intents with a receipt that says they filled
  halt       \* ledger: pass of the latest OWNER_HALT not cleared, 0 if none

process == <<pc, kill, pool, todo, admitted, last, order, entries>>
time    == <<pass, bars, born>>
venue   == <<book, afloat>>
ledger  == <<commands, receipts, halt>>
vars    == <<process, time, venue, ledger>>

Steps == {"down", "idle", "marked", "admit", "send", "sent"}

Triggers == {"OWNER_HALT", "VENUE_DISCONNECT", "UNAUTHORIZED_ACCOUNT",
             "STOP_REJECTED", "RECONCILIATION_FAILURE"}

Candidate == [symbol : Symbols, gen : 1..MaxPass]

Intent == [symbol : Symbols, gen : 1..MaxPass, at : 1..MaxPass]

Position == [stop : BOOLEAN, since : 0..MaxPass]

CandidateOf(i) == [symbol |-> i.symbol, gen |-> i.gen]

IntentOf(c) == [symbol |-> c.symbol, gen |-> c.gen, at |-> pass]

\* The bar a candidate, or the candidate of an intent, was generated on.
BarOf(c) == bars[c.gen][c.symbol]

Of(s) == {i \in DOMAIN book : i.symbol = s}

Opened(i, stop) ==
  [j \in DOMAIN book \cup {i} |->
     IF j = i THEN [stop |-> stop, since |-> pass] ELSE book[j]]

Closed(S) == [j \in DOMAIN book \ S |-> book[j]]

Init ==
  /\ pc = "down"
  /\ pass = 0
  /\ bars = [n \in 0..MaxPass |-> [s \in Symbols |-> 0]]
  /\ born = 0
  /\ kill = {}
  /\ pool = {}
  /\ todo = {}
  /\ admitted = 0
  /\ last = [s \in Symbols |-> 0]
  /\ order = None
  /\ entries = {}
  /\ book = << >>
  /\ afloat = {}
  /\ commands = {}
  /\ receipts = {}
  /\ halt = 0

-----------------------------------------------------------------------------
(* What the process reads.                                                  *)

\* The intents positions() attributes its positions to.  mt5_pull tags an
\* order with the first 26 of the 36 characters of its intent id, so that no
\* tag it reads back is the id of an intent.
Attributed == IF NamesIntents THEN DOMAIN book ELSE {}

\* Mutant: as reconcile once was, blind to a position no entry is open for.
ReconcilesEntries(E) ==
  /\ E \subseteq Attributed
  /\ \A i \in DOMAIN book : book[i].stop

\* Mutant: stops are not compared.
ReconcilesStopless(E) ==
  /\ E = Attributed
  /\ Attributed = DOMAIN book

\* reconcile: every open entry has its position and every position its entry,
\* and the venue holds every stop.
Reconciles(E) ==
  /\ E = Attributed
  /\ Attributed = DOMAIN book
  /\ \A i \in DOMAIN book : book[i].stop

\* Mutant: only a start observes the owner's halt.
OwnerHaltAtStart ==
  IF halt = 0 \/ pc # "down" THEN {} ELSE {"OWNER_HALT"}

\* _observe_owner_halt: the latest OWNER_HALT in the ledger, if it stands.
OwnerHalt == IF halt = 0 THEN {} ELSE {"OWNER_HALT"}

\* ExecutionRouter._seen: read from the ledger when the router is built, and
\* added to just before each ORDER_COMMAND is logged.
Seen == commands

\* Mutant: one position too many in an instrument.
RiskAllowsOneMore(c) ==
  /\ kill = {}
  /\ Reconciles(entries)
  /\ Cardinality(Of(c.symbol)) <= PerInstrument
  /\ Cardinality(DOMAIN book) < Total

\* RiskAuthority.evaluate, as far as this state decides it.
RiskAllows(c) ==
  /\ kill = {}
  /\ Reconciles(entries)
  /\ Cardinality(Of(c.symbol)) < PerInstrument
  /\ Cardinality(DOMAIN book) < Total

-----------------------------------------------------------------------------
(* The life of the process.                                                 *)

\* start: the lease is acquired, the account and the venue are probed
\* (found), entries are rebuilt from positions whose command the ledger has,
\* the result is reconciled and the owner's halt observed.
Start(found) ==
  /\ pc = "down"
  /\ pc' = "idle"
  /\ entries' = Attributed \cap commands
  /\ kill' = found \cup OwnerHalt
             \cup IF DOMAIN book \subseteq entries' /\ Reconciles(entries')
                  THEN {} ELSE {"RECONCILIATION_FAILURE"}
  /\ born' = pass
  /\ UNCHANGED <<pass, bars, pool, todo, admitted, last, order, venue, ledger>>

\* The process dies or is stopped; whatever it had in memory is gone.
Crash ==
  /\ pc # "down"
  /\ pc' = "down"
  /\ kill' = {}
  /\ pool' = {}
  /\ todo' = {}
  /\ admitted' = 0
  /\ last' = [s \in Symbols |-> 0]
  /\ order' = None
  /\ entries' = {}
  /\ UNCHANGED <<time, venue, ledger>>

\* Mutant: the loop goes on without tripping the switch.
FailUnnoticed ==
  /\ kill' = kill
  /\ pc' = "idle"
  /\ todo' = {}
  /\ order' = None

\* Mutant: the intent being executed is not forgotten.
FailHolding ==
  /\ kill' = kill \cup {"RECONCILIATION_FAILURE"}
  /\ pc' = "idle"
  /\ todo' = {}
  /\ order' = order

\* An exception leaves step_once: run_forever trips the switch and goes on
\* with the next pass.  Candidates keep the state they have in the pool, and
\* the bars of this pass count as not yet evaluated.
Fail ==
  /\ kill' = kill \cup {"RECONCILIATION_FAILURE"}
  /\ pc' = "idle"
  /\ todo' = {}
  /\ order' = None

Fault ==
  /\ pc \in {"marked", "admit", "send"}
  /\ Fail
  /\ UNCHANGED <<time, pool, admitted, last, entries, venue, ledger>>

-----------------------------------------------------------------------------
(* One pass.                                                                *)

\* step_once up to the marks: the owner's halt is observed, the bars are read
\* and the exits of the new ones are carried out.  A close receipt removes the
\* entry it names.
BeginPass(gone, closed) ==
  /\ pc = "idle"
  /\ pass < MaxPass
  /\ gone \subseteq DOMAIN book \cap entries
  /\ pass' = pass + 1
  /\ bars' = [bars EXCEPT ![pass + 1] =
                [s \in Symbols |-> bars[pass][s] + IF s \in closed THEN 1 ELSE 0]]
  /\ pc' = "marked"
  /\ kill' = kill \cup OwnerHalt
  /\ book' = Closed(gone)
  /\ entries' = entries \ (gone \cap Attributed)
  /\ UNCHANGED <<born, pool, todo, admitted, last, order, afloat, ledger>>

\* advanced_bars: the symbols with a bar this process has not evaluated.
Advanced == {s \in Symbols : bars[pass][s] > last[s]}

\* coordinator.step up to the ranking, once the lease is renewed: candidates
\* of the symbols with a new bar enter the pool, supersede older ones of the
\* same setup, and what is past its time leaves.
Evaluate(new, superseded) ==
  /\ pc = "marked"
  /\ Advanced # {}
  /\ new \subseteq {c \in Candidate : c.gen = pass /\ c.symbol \in Advanced}
  /\ superseded \subseteq {c \in pool : \E d \in new : d.symbol = c.symbol}
  /\ pool' = {c \in (pool \ superseded) \cup new : pass < c.gen + Ttl}
  /\ todo' = pool'
  /\ admitted' = 0
  /\ pc' = "admit"
  /\ UNCHANGED <<time, kill, last, order, entries, venue, ledger>>

\* Mutant: the bars of the pass are not noted.
EndPassUnnoted ==
  /\ \/ pc = "marked"
     \/ pc = "admit" /\ todo = {}
  /\ pc' = "idle"
  /\ UNCHANGED <<time, kill, pool, todo, admitted, last, order, entries, venue, ledger>>

\* The end of a pass: nothing left to admit, no new bar, or no lease.
EndPass ==
  /\ \/ pc = "marked"
     \/ pc = "admit" /\ todo = {}
  /\ pc' = "idle"
  /\ last' = [s \in Symbols |-> IF s \in Advanced THEN bars[pass][s] ELSE last[s]]
  /\ UNCHANGED <<time, kill, pool, todo, admitted, order, entries, venue, ledger>>

\* The budget of the pass is spent: the candidate stays eligible.
Defer(c) ==
  /\ pc = "admit"
  /\ c \in todo
  /\ admitted >= Budget
  /\ todo' = todo \ {c}
  /\ UNCHANGED <<pc, time, kill, pool, admitted, last, order, entries, venue, ledger>>

\* The allocator did not select it or the risk authority refused it.
TurnDown(c) ==
  /\ pc = "admit"
  /\ c \in todo
  /\ admitted < Budget
  /\ todo' = todo \ {c}
  /\ pool' = pool \ {c}
  /\ UNCHANGED <<pc, time, kill, admitted, last, order, entries, venue, ledger>>

\* The risk authority, given a snapshot read for this candidate, approves.
Approve(c) ==
  /\ pc = "admit"
  /\ c \in todo
  /\ admitted < Budget
  /\ RiskAllows(c)
  /\ todo' = todo \ {c}
  /\ order' = IntentOf(c)
  /\ pc' = "send"
  /\ UNCHANGED <<time, kill, pool, admitted, last, entries, venue, ledger>>

-----------------------------------------------------------------------------
(* execute.                                                                 *)

\* The venue does not answer its heartbeat.  Any other gate that refuses is a
\* Fault: RouterError leaves the pass.
Disconnected ==
  /\ pc = "send"
  /\ kill = {}
  /\ order \notin Seen
  /\ pc' = "idle"
  /\ kill' = kill \cup {"VENUE_DISCONNECT", "RECONCILIATION_FAILURE"}
  /\ todo' = {}
  /\ order' = None
  /\ UNCHANGED <<time, pool, admitted, last, entries, venue, ledger>>

\* Mutant: the venue hears of the order and the ledger does not.
CommandUnlogged ==
  /\ pc = "send"
  /\ kill = {}
  /\ order \notin Seen
  /\ afloat' = afloat \cup {order}
  /\ pc' = "sent"
  /\ UNCHANGED <<time, kill, pool, todo, admitted, last, order, entries, book, ledger>>

\* The last gates pass: the command is logged, then handed to the venue.
Command ==
  /\ pc = "send"
  /\ kill = {}
  /\ order \notin Seen
  /\ commands' = commands \cup {order}
  /\ afloat' = afloat \cup {order}
  /\ pc' = "sent"
  /\ UNCHANGED <<time, kill, pool, todo, admitted, last, order, entries, book,
                 receipts, halt>>

\* execute returned: whatever the receipt says, the candidate is SELECTED.
Selected ==
  /\ pool' = pool \ {CandidateOf(order)}
  /\ admitted' = admitted + 1
  /\ order' = None
  /\ pc' = "admit"

\* FILLED with its stop: rule and entry are made.
Filled ==
  /\ pc = "sent"
  /\ order \in DOMAIN book
  /\ book[order].stop
  /\ receipts' = receipts \cup {order}
  /\ entries' = entries \cup {order}
  /\ Selected
  /\ UNCHANGED <<time, kill, todo, last, venue, commands, halt>>

\* REJECTED or UNKNOWN.  An order told UNKNOWN, and with mt5_pull one told
\* REJECTED, may have filled or fill later; a rejected one may also be dead.
NotFilled ==
  /\ pc = "sent"
  /\ afloat' \in {afloat, afloat \ {order}}
  /\ Selected
  /\ UNCHANGED <<time, kill, todo, last, entries, book, ledger>>

\* FILLED without its stop: the position is closed at once, which the venue
\* may refuse, the switch is tripped and RouterError leaves the pass.
Flattened(done) ==
  /\ pc = "sent"
  /\ order \in DOMAIN book
  /\ ~book[order].stop
  /\ book' = IF done THEN Closed({order}) ELSE book
  /\ kill' = kill \cup {"STOP_REJECTED", "RECONCILIATION_FAILURE"}
  /\ receipts' = receipts \cup {order}
  /\ pc' = "idle"
  /\ todo' = {}
  /\ order' = None
  /\ UNCHANGED <<time, pool, admitted, last, entries, afloat, commands, halt>>

\* The close of a position without stop raises, before the switch is tripped.
FlattenRaises ==
  /\ pc = "sent"
  /\ order \in DOMAIN book
  /\ ~book[order].stop
  /\ receipts' = receipts \cup {order}
  /\ Fail
  /\ UNCHANGED <<time, pool, admitted, last, entries, venue, commands, halt>>

\* The entry is made, and then what record_entry does with it raises: the
\* candidate keeps its state.
RecordRaises ==
  /\ pc = "sent"
  /\ order \in DOMAIN book
  /\ book[order].stop
  /\ receipts' = receipts \cup {order}
  /\ entries' = entries \cup {order}
  /\ Fail
  /\ UNCHANGED <<time, pool, admitted, last, venue, commands, halt>>

\* submit itself raises: nothing is known of the order.
SubmitRaises ==
  /\ pc = "sent"
  /\ Fail
  /\ UNCHANGED <<time, pool, admitted, last, entries, venue, ledger>>

-----------------------------------------------------------------------------
(* The venue and the owner.                                                 *)

\* An order fills, in time or late; its stop is attached or refused.
VenueFills(i, stop) ==
  /\ i \in afloat
  /\ afloat' = afloat \ {i}
  /\ book' = Opened(i, stop)
  /\ UNCHANGED <<process, time, ledger>>

\* A stop is hit, or the owner closes the position in the terminal.
VenueCloses(i) ==
  /\ i \in DOMAIN book
  /\ book' = Closed({i})
  /\ UNCHANGED <<process, time, afloat, ledger>>

\* The owner halts trading through the commander or the gateway.
OwnerHalts ==
  /\ halt = 0
  /\ pass > 0
  /\ halt' = pass
  /\ UNCHANGED <<process, time, venue, commands, receipts>>

\* A later OWNER_HALT event carries "cleared".
OwnerClears ==
  /\ halt > 0
  /\ halt' = 0
  /\ UNCHANGED <<process, time, venue, commands, receipts>>

Next ==
  \/ \E found \in SUBSET {"VENUE_DISCONNECT", "UNAUTHORIZED_ACCOUNT"} : Start(found)
  \/ Crash
  \/ Fault
  \/ \E gone \in SUBSET entries, closed \in SUBSET Symbols : BeginPass(gone, closed)
  \/ \E new \in SUBSET {c \in Candidate : c.gen = pass}, superseded \in SUBSET pool :
       Evaluate(new, superseded)
  \/ EndPass
  \/ \E c \in todo : Defer(c) \/ TurnDown(c) \/ Approve(c)
  \/ Disconnected
  \/ Command
  \/ Filled
  \/ NotFilled
  \/ \E done \in BOOLEAN : Flattened(done)
  \/ FlattenRaises
  \/ RecordRaises
  \/ SubmitRaises
  \/ \E i \in afloat, stop \in BOOLEAN : VenueFills(i, stop)
  \/ \E i \in DOMAIN book : VenueCloses(i)
  \/ OwnerHalts
  \/ OwnerClears

Spec == Init /\ [][Next]_vars

-----------------------------------------------------------------------------
(* Properties.                                                              *)

\* Everything has its type; something is executed exactly from the approval
\* on, and candidates are left to look at only while they are admitted.
TypeOK ==
  /\ pc \in Steps
  /\ pass \in 0..MaxPass
  /\ bars \in [0..MaxPass -> [Symbols -> Nat]]
  /\ born \in 0..pass
  /\ kill \subseteq Triggers
  /\ pool \subseteq Candidate
  /\ todo \subseteq pool
  /\ admitted \in Nat
  /\ last \in [Symbols -> Nat]
  /\ order \in Intent \cup {None}
  /\ entries \subseteq Intent
  /\ DOMAIN book \subseteq Intent
  /\ book \in [DOMAIN book -> Position]
  /\ afloat \subseteq Intent
  /\ commands \subseteq Intent
  /\ receipts \subseteq commands
  /\ halt \in 0..pass
  /\ (order # None) <=> pc \in {"send", "sent"}
  /\ todo # {} => pc \in {"admit", "send", "sent"}

\* A candidate is sent to the venue at most once, although its idempotency
\* key changes with every pass and _seen cannot catch the second time: what
\* keeps it from being sent again is its state in the pool and, where execute
\* raised and left that state alone, the kill switch.
CandidateSentOnce ==
  \A i, j \in commands : CandidateOf(i) = CandidateOf(j) => i = j

\* One process sends the venue one order for a bar of a setup, although each
\* evaluation of the bar is a new candidate with a new id and a pass that
\* failed leaves the bar to be evaluated again: last_bar_end_ms, the states in
\* the pool and the switch see to it together.  It is said of one life of the
\* process, because a restart forgets the first two and may clear the third:
\* the next process may evaluate the bar and send an order for it again.
\* make_candidate_id ("Deterministic across restart: the same economic
\* decision keeps its id") and admit ("SELECTED must never become ACTIVE again
\* simply because the same bar was evaluated twice") claim more than that.
OneOrderPerBar ==
  \A i, j \in {k \in commands : k.at > born} :
    i.symbol = j.symbol /\ BarOf(i) = BarOf(j) => i = j

\* No order leaves in a pass that began under an owner's halt, whatever
\* crashed and started again since the owner asked for it.
OwnerHaltHonoured ==
  pc \in {"send", "sent"} => halt = 0 \/ halt >= order.at

\* An order leaves only over a book the process knows: a position without an
\* entry has filled since this very pass began.  Unanswered orders that fill
\* late, refused flattenings and restarts all make such positions.
NewRiskOverKnownBook ==
  pc = "sent" =>
    \A i \in DOMAIN book \ (entries \cup {order}) : book[i].since = pass

\* The positions whose fill was told to the process keep the mandate's
\* limits, since the snapshot is read afresh for every candidate.
LimitsHold ==
  LET told == DOMAIN book \cap receipts IN
  /\ Cardinality(told) <= Total
  /\ \A s \in Symbols : Cardinality({i \in told : i.symbol = s}) <= PerInstrument

\* A position the process knows of and whose stop the venue does not hold
\* keeps the switch tripped, also after a restart.
BareMeansHalted ==
  pc # "down" =>
    \A i \in DOMAIN book : ~book[i].stop /\ i \in entries \cup receipts => kill # {}

\* A start finds the entry of every position the account has at the venue:
\* the command is in the ledger before the venue hears of it.  It takes an
\* adapter that tells which intent a position belongs to; recover_from_venue
\* promises to "Rebuild open entry/protection state from venue plus ledger
\* provenance" of every adapter.
RestartRestores ==
  [][pc = "down" /\ pc' # "down" => DOMAIN book \subseteq entries']_vars

=============================================================================
