------------------------- MODULE PositionProtection -------------------------
(***************************************************************************)
(* Stops and exits of the open positions of one account and symbol          *)
(* (trading/vati/execution/protection.py, the exit half of router.py, and   *)
(* the mark, supervision and recovery of trading/vati/app/                  *)
(* trade_lifecycle.py), against a venue reached through one of the live     *)
(* adapters.                                                                *)
(*                                                                          *)
(* One thread marks the positions: every entry is supervised in turn, then  *)
(* the protection rules are marked and the exits they ask for are sent one  *)
(* by one.  Each adapter call is a step: it may be done, refused, answered  *)
(* too late or fail, before or after the venue acted, and between two calls *)
(* the venue closes positions and carries out moves it was thought to have  *)
(* refused.  An exception abandons the mark where it is.                    *)
(*                                                                          *)
(* The positions are long and their stops are held by the venue.            *)
(***************************************************************************)
EXTENDS Naturals, FiniteSets

CONSTANTS
  Positions,     \* the positions that may ever be opened
  None,          \* no position
  MaxStop,       \* stop levels are 1..MaxStop, bids 0..MaxStop + 1
  Raises,        \* may an adapter call raise
  Restarts,      \* may the process die and start again
  PartialFills   \* may a close be reported FILLED that left a part open

ASSUME ProtectionAssumption ==
  /\ None \notin Positions
  /\ MaxStop \in Nat \ {0}
  /\ Raises \in BOOLEAN
  /\ Restarts \in BOOLEAN
  /\ PartialFills \in BOOLEAN

VARIABLES
  venue,    \* the open positions at the venue, each with its stop
  late,     \* moves told REJECTED that the venue may still carry out
  fresh,    \* the positions not opened yet
  rules,    \* ProtectionManager.rules: stop and pending_close
  entries,  \* the open entries of the lifecycle
  kill,     \* the kill switch
  bid,      \* the bid of the running mark
  pc,       \* "idle" between marks, "supervise" or "exits" within one
  todo,     \* the entries this mark has yet to supervise
  at,       \* the entry whose thesis is being assessed, or None
  batch     \* the close instructions this mark has yet to send

vars == <<venue, late, fresh, rules, entries, kill, bid, pc, todo, at, batch>>

Stops == 1..MaxStop

Bids == 0..(MaxStop + 1)

Partial(D, R) == UNION {[S -> R] : S \in SUBSET D}

Without(f, p) == [q \in DOMAIN f \ {p} |-> f[q]]

With(f, p, v) == [q \in DOMAIN f \cup {p} |-> IF q = p THEN v ELSE f[q]]

Init ==
  /\ venue = <<>>
  /\ late = {}
  /\ fresh = Positions
  /\ rules = <<>>
  /\ entries = {}
  /\ kill = FALSE
  /\ bid = MaxStop + 1
  /\ pc = "idle"
  /\ todo = {}
  /\ at = None
  /\ batch = {}

-----------------------------------------------------------------------------
(* What an adapter call may come to. *)

\* modify_stop refuses to widen and to move what is not there.
Movable(p, stop) == p \in DOMAIN venue /\ stop >= venue[p]

ModifyAccepted(p, stop) ==
  /\ Movable(p, stop)
  /\ venue' = With(venue, p, stop)
  /\ UNCHANGED late

\* Told REJECTED, or raised: the venue may have the request and act on it later.
ModifyRefused(p, stop) ==
  /\ UNCHANGED venue
  /\ late' \in {late} \cup (IF Movable(p, stop) THEN {late \cup {<<p, stop>>}} ELSE {})

CloseFilled(p) ==
  /\ p \in DOMAIN venue
  /\ \/ venue' = Without(venue, p)
     \/ PartialFills /\ venue' = venue
  /\ UNCHANGED late

\* REJECTED, UNKNOWN, or raised.
CloseRefused(p) ==
  /\ venue' \in {venue, Without(venue, p)}
  /\ UNCHANGED late

-----------------------------------------------------------------------------
(* ProtectionManager. *)

Pended(r, P) == [q \in DOMAIN r |-> IF q \in P THEN [r[q] EXCEPT !.pending = TRUE] ELSE r[q]]

\* Mutant: close_failed leaves the request pending.
CloseFailedStuck(p) == rules' = Pended(rules, {p})

\* Mutant: a refused close drops the rule.
CloseFailedForgets(p) == rules' = Without(rules, p)

CloseFailed(p) == rules' = [rules EXCEPT ![p].pending = FALSE]

CloseConfirmed(p) == rules' = Without(rules, p)

\* Mutant: no rollback, as if the venue had moved the stop.
RolledBackNot(p, old, stop) == rules' = [rules EXCEPT ![p].stop = stop]

\* rollback_unconfirmed_tighten after tighten: the rule is what it was.
RolledBack(p, old, stop) == rules' = [rules EXCEPT ![p].stop = old]

\* Mutant: a bid at the stop is not an exit.
BreachedBelow(p) == bid < rules[p].stop

\* on_mark: the rules whose stop is reached; target and time stop are left open.
Breached(p) == bid <= rules[p].stop

-----------------------------------------------------------------------------
(* The environment. *)

\* The coordinator opens a position after the marks of a pass: execute() registers
\* the rule, record_entry() the entry.
Open(p, stop) ==
  /\ pc = "idle"
  /\ ~kill
  /\ p \in fresh
  /\ stop < bid
  /\ fresh' = fresh \ {p}
  /\ venue' = With(venue, p, stop)
  /\ rules' = With(rules, p, [stop |-> stop, pending |-> FALSE])
  /\ entries' = entries \cup {p}
  /\ UNCHANGED <<late, kill, bid, pc, todo, at, batch>>

\* The stop or target is hit, the owner closes the position, or a close whose
\* answer was not awaited is carried out.
VenueCloses(p) ==
  /\ p \in DOMAIN venue
  /\ venue' = Without(venue, p)
  /\ UNCHANGED <<late, fresh, rules, entries, kill, bid, pc, todo, at, batch>>

LateMove(p, stop) ==
  /\ <<p, stop>> \in late
  /\ late' = late \ {<<p, stop>>}
  /\ venue' = IF Movable(p, stop) THEN With(venue, p, stop) ELSE venue
  /\ UNCHANGED <<fresh, rules, entries, kill, bid, pc, todo, at, batch>>

-----------------------------------------------------------------------------
(* One mark: AccountTradeLifecycle.mark. *)

Mark(px) ==
  /\ pc = "idle"
  /\ bid' = px
  /\ pc' = "supervise"
  /\ todo' = entries
  /\ UNCHANGED <<venue, late, fresh, rules, entries, kill, at, batch>>

\* Mutant: the instructions of an abandoned mark are kept.
AbandonKeepingBatch ==
  /\ kill' = TRUE
  /\ pc' = "idle"
  /\ todo' = {}
  /\ at' = None
  /\ UNCHANGED <<fresh, entries, bid, batch>>

\* The exception leaves mark(); run_forever trips the switch and the next pass
\* marks the same bar again.
Abandon ==
  /\ kill' = TRUE
  /\ pc' = "idle"
  /\ todo' = {}
  /\ at' = None
  /\ batch' = {}
  /\ UNCHANGED <<fresh, entries, bid>>

\* Supervision takes up p: health, envelope and preservation decide.
Supervising(p) == pc = "supervise" /\ at = None /\ p \in todo

\* Preservation of p is over, its thesis is next.
ToThesis(p) ==
  /\ todo' = todo \ {p}
  /\ at' = p
  /\ UNCHANGED <<fresh, bid, pc, batch>>

\* p is done with for this mark.
Done(p) ==
  /\ todo' = todo \ {p}
  /\ at' = None
  /\ UNCHANGED <<fresh, bid, pc, batch>>

\* No action, a halt of new risk, or a partial close that was carried out or refused.
PreserveNothing(p) ==
  /\ Supervising(p)
  /\ ToThesis(p)
  /\ UNCHANGED <<venue, late, rules, entries, kill>>

PartialCloseRaises(p) ==
  /\ Raises
  /\ Supervising(p)
  /\ Abandon
  /\ UNCHANGED <<venue, late, rules>>

\* apply_preservation TIGHTEN_STOP, to a stop beyond the current one and below the mark.
Tighten(p, stop) ==
  /\ Supervising(p)
  /\ p \in DOMAIN rules
  /\ stop > rules[p].stop
  /\ stop < bid
  /\ \/ /\ ModifyAccepted(p, stop)
        /\ rules' = [rules EXCEPT ![p].stop = stop]
        /\ ToThesis(p)
        /\ UNCHANGED <<entries, kill>>
     \/ /\ ModifyRefused(p, stop)
        /\ RolledBack(p, rules[p].stop, stop)
        /\ kill' = TRUE
        /\ ToThesis(p)
        /\ UNCHANGED entries
     \/ /\ Raises
        /\ ModifyRefused(p, stop)
        /\ RolledBack(p, rules[p].stop, stop)
        /\ Abandon

\* An entry without a rule: stop_of and mark_close_pending raise KeyError.
RuleMissing(p) ==
  /\ \/ Supervising(p)
     \/ at = p
  /\ p \notin DOMAIN rules
  /\ Abandon
  /\ UNCHANGED <<venue, late, rules>>

\* apply_preservation FULL_CLOSE, and _on_close when it was filled.
FullClose(p) ==
  /\ p \in DOMAIN rules
  /\ \/ /\ CloseFilled(p)
        /\ CloseConfirmed(p)
        /\ entries' = entries \ {p}
        /\ Done(p)
        /\ UNCHANGED kill
     \/ /\ CloseRefused(p)
        /\ CloseFailed(p)
        /\ IF at = p THEN Done(p) ELSE ToThesis(p)
        /\ UNCHANGED <<entries, kill>>
     \/ /\ Raises
        /\ CloseRefused(p)
        /\ rules' = Pended(rules, {p})
        /\ Abandon

PreserveClose(p) ==
  /\ Supervising(p)
  /\ FullClose(p)

\* No thesis, or one that says hold.
ThesisHolds(p) ==
  /\ at = p
  /\ Done(p)
  /\ UNCHANGED <<venue, late, rules, entries, kill>>

ThesisExit(p) ==
  /\ at = p
  /\ FullClose(p)

\* apply_exits asks on_mark: every instruction of the batch is marked pending at once.
ApplyExits(others) ==
  /\ pc = "supervise"
  /\ todo = {}
  /\ at = None
  /\ LET due == {p \in DOMAIN rules : ~rules[p].pending /\ (Breached(p) \/ p \in others)}
     IN  /\ rules' = Pended(rules, due)
         /\ batch' = due
  /\ pc' = "exits"
  /\ UNCHANGED <<venue, late, fresh, entries, kill, bid, todo, at>>

\* The receipts of the live adapters name no intent, so the entry stays.
SendClose(p) ==
  /\ p \in batch
  /\ \/ /\ CloseFilled(p)
        /\ CloseConfirmed(p)
        /\ batch' = batch \ {p}
        /\ UNCHANGED <<fresh, entries, kill, bid, pc, todo, at>>
     \/ /\ CloseRefused(p)
        /\ CloseFailed(p)
        /\ batch' = batch \ {p}
        /\ UNCHANGED <<fresh, entries, kill, bid, pc, todo, at>>
     \/ /\ Raises
        /\ CloseRefused(p)
        /\ Abandon
        /\ UNCHANGED rules

EndMark ==
  /\ pc = "exits"
  /\ batch = {}
  /\ pc' = "idle"
  /\ UNCHANGED <<venue, late, fresh, rules, entries, kill, bid, todo, at, batch>>

-----------------------------------------------------------------------------
(* Restart: recover_from_venue and the reconciliation of start(). *)

\* Mutant: unresolved positions do not trip the switch.
HaltAfterUnasked(unresolved) == BOOLEAN

\* The kill switch after start(): unresolved positions trip it.  A ledger position
\* the venue no longer has trips it too; that comparison is left open.
HaltAfter(unresolved) == IF unresolved = {} THEN BOOLEAN ELSE {TRUE}

\* A position is resolved when its intent is found in the ledger.
Restart(unresolved) ==
  /\ Restarts
  /\ unresolved \subseteq DOMAIN venue
  /\ LET managed == DOMAIN venue \ unresolved
     IN  /\ rules' = [p \in managed |-> [stop |-> venue[p], pending |-> FALSE]]
         /\ entries' = managed
  /\ kill' \in HaltAfter(unresolved)
  /\ pc' = "idle"
  /\ todo' = {}
  /\ at' = None
  /\ batch' = {}
  /\ UNCHANGED <<venue, late, fresh, bid>>

Supervise ==
  \E p \in Positions :
    \/ PreserveNothing(p) \/ PartialCloseRaises(p) \/ PreserveClose(p)
    \/ RuleMissing(p) \/ ThesisHolds(p) \/ ThesisExit(p)
    \/ \E stop \in Stops : Tighten(p, stop)

Exits ==
  \/ \E others \in SUBSET Positions : ApplyExits(others)
  \/ \E p \in Positions : SendClose(p)
  \/ EndMark

Next ==
  \/ \E px \in Bids : Mark(px)
  \/ Supervise \/ Exits
  \/ \E p \in Positions, stop \in Stops : Open(p, stop) \/ LateMove(p, stop)
  \/ \E p \in Positions : VenueCloses(p)
  \/ \E unresolved \in SUBSET Positions : Restart(unresolved)

Spec == Init /\ [][Next]_vars

\* Bars keep arriving, the thread keeps running, and a venue asked again and again to
\* close a position it has reports it closed at last.
FairSpec ==
  /\ Spec
  /\ WF_vars(\E px \in Bids : Mark(px))
  /\ WF_vars(Supervise)
  /\ WF_vars(Exits)
  /\ \A p \in Positions : SF_vars(SendClose(p) /\ CloseConfirmed(p))

-----------------------------------------------------------------------------
(* What protection promises. *)

TypeOK ==
  /\ venue \in Partial(Positions, Stops)
  /\ late \subseteq Positions \X Stops
  /\ fresh \subseteq Positions
  /\ rules \in Partial(Positions, [stop : Stops, pending : BOOLEAN])
  /\ entries \subseteq Positions
  /\ kill \in BOOLEAN
  /\ bid \in Bids
  /\ pc \in {"idle", "supervise", "exits"}
  /\ todo \subseteq Positions
  /\ at \in Positions \cup {None}
  /\ batch \subseteq DOMAIN rules

(***************************************************************************)
(* The system never believes a position better protected than it is: the    *)
(* rule's stop is at most the stop the venue holds, also when moves are     *)
(* refused, raise or are carried out after they were given up, and across   *)
(* restarts (tighten, rollback_unconfirmed_tighten, restore).               *)
(***************************************************************************)
MirrorNotTighter ==
  \A p \in DOMAIN rules \cap DOMAIN venue : rules[p].stop <= venue[p]

(***************************************************************************)
(* Within one life of the process a rule is given up only for a position    *)
(* that is closed: a refused, unanswered or raising close keeps it          *)
(* ("retained until an actual fill/owner confirmation proves the position   *)
(* closed", on_mark).                                                       *)
(***************************************************************************)
RuleUntilClosed ==
  [][\/ \E unresolved \in SUBSET Positions : Restart(unresolved)
     \/ \A p \in DOMAIN rules \ DOMAIN rules' : p \notin DOMAIN venue']_vars

(***************************************************************************)
(* A position the router was told is filled is managed, or the account takes *)
(* no new risk: no sequence of refused closes, exceptions and restarts      *)
(* leaves one without a rule while the kill switch is clear.                *)
(***************************************************************************)
FilledIsManagedOrHalted ==
  \A p \in DOMAIN venue : p \in DOMAIN rules \/ kill

(***************************************************************************)
(* A request to close that nobody will send any more is found only on a     *)
(* halted account: on_mark passes over a pending rule, a refused or         *)
(* unanswered close is asked for again by the next mark (close_failed), and *)
(* only an exception leaves one behind, for run_forever trips the switch.   *)
(***************************************************************************)
UnsentMeansHalted ==
  \A p \in DOMAIN rules : rules[p].pending /\ p \notin batch => kill

(***************************************************************************)
(* An open position whose bid stays at or below its stop is closed at last, *)
(* however often the close is refused or not answered.  For _execute_       *)
(* adjustment "a control that can block de-risking is a control that can    *)
(* trap the account": no other position may stand in the way.               *)
(***************************************************************************)
ExitsGetThrough ==
  \A p \in Positions :
    ~<>[](/\ p \in DOMAIN venue \cap DOMAIN rules
          /\ bid <= rules[p].stop)

\* A mark that ends before it sent its exits: an exception left it, or the process died.
CutShort ==
  /\ pc' = "idle"
  /\ pc = "supervise" \/ (pc = "exits" /\ batch # {})

(***************************************************************************)
(* The same over exceptions and restarts: an open position whose bid stays  *)
(* at or below its stop is closed at last, however often its close is       *)
(* refused, unless marks are cut short again and again or the one request   *)
(* to close it was lost to an exception (apply_exits, on_mark).             *)
(***************************************************************************)
ExitsUnlessCutShort ==
  \A p \in Positions :
    <>[](/\ p \in DOMAIN venue \cap DOMAIN rules
         /\ bid <= rules[p].stop
         /\ rules[p].pending => p \in batch)
      => []<><<CutShort>>_vars

=============================================================================
