---------------------------- MODULE Mt5PullBridge ----------------------------
(***************************************************************************)
(* The MT5 pull bridge (trading/vati/execution/mt5_pull.py and the Expert   *)
(* Advisor deploy/van-trading-core/mql5/VanBridgeEA.mq5) for one account:   *)
(* the session puts commands on a shared queue and waits with a deadline,   *)
(* the pull server answers the advisor's polls, the advisor executes what   *)
(* it is handed at the venue and reports results on later polls until one   *)
(* is answered with 200.                                                    *)
(*                                                                          *)
(* Session, server and advisor are three processes; each statement the      *)
(* server runs on the queue commits by itself; requests and replies may be  *)
(* lost, a request may be delivered twice or after the advisor has given up *)
(* on it, the server, the session and the terminal may restart, and the     *)
(* venue may close a position by itself.                                    *)
(***************************************************************************)
EXTENDS Naturals, Sequences, FiniteSets

CONSTANTS
  None,         \* no snapshot, no request, no reply
  MaxCommands,  \* bound on the commands ever enqueued
  MaxOrders,    \* bound on the orders among them
  MaxStop,      \* stop levels are 1..MaxStop; 0 is "no stop"
  Limit,        \* how many commands a reply takes at most
  MaxInFlight,  \* bound on the poll requests in the network
  Late,         \* may a request arrive after the advisor has given up on it
  Deadlines,    \* may the session's wait end before the result is there
  Losses        \* may messages be lost and processes restart

ASSUME BridgeAssumption ==
  /\ None \notin Seq(Nat)
  /\ MaxCommands \in Nat \ {0}
  /\ MaxOrders \in 0..MaxCommands
  /\ MaxStop \in Nat \ {0}
  /\ Limit \in Nat \ {0}
  /\ MaxInFlight \in Nat \ {0}
  /\ Late \in BOOLEAN
  /\ Deadlines \in BOOLEAN
  /\ Losses \in BOOLEAN

VARIABLES
  queue,     \* the commands table; a command's id is its index
  snapshot,  \* the positions in the state table, or None
  waiting,   \* the command the session awaits, or 0
  told,      \* what the session told its caller of each command
  requests,  \* the poll requests in the network
  server,    \* the poll the server is handling, or None
  reply,     \* the reply on its way to the advisor, or None
  ea,        \* where the advisor is
  inbox,     \* the command lines the advisor has yet to execute
  results,   \* pendingResults of the advisor
  venue,     \* the open positions, each with its stop
  placed,    \* the orders the venue took whose positions are not open yet
  executed   \* how often each command was carried out at the venue

vars == <<queue, snapshot, waiting, told, requests, server, reply, ea, inbox, results,
          venue, placed, executed>>

Stops == 0..MaxStop

\* A position is named by the order that opened it.
Ids == 1..Len(queue)

Positions == UNION {[P -> Stops] : P \in SUBSET (1..MaxCommands)}

Command == [op: {"ORDER_SEND", "MODIFY_SL", "CLOSE"}, position: 0..MaxCommands, stop: Stops]

\* What the advisor can report of a command, reduced to what the adapter reads.
Report == {"FILLED", "FILLED_UNCONFIRMED", "PARTIAL", "ACCEPTED", "REJECTED", "OK", "NOT_OK",
           "UNKNOWN"}

Row == [cmd: Command, status: {"QUEUED", "TAKEN", "DONE"}, result: Report \cup {"none"}]

Result == [id: 1..MaxCommands, report: Report]

\* A poll request; "current" while the advisor waits for its reply, "seen" once
\* its nonce is in the nonces table.
Request == [positions: Positions, results: Seq(Result), current: BOOLEAN, seen: BOOLEAN]

Init ==
  /\ queue = <<>>
  /\ snapshot = None
  /\ waiting = 0
  /\ told = <<>>
  /\ requests = {}
  /\ server = None
  /\ reply = None
  /\ ea = "timer"
  /\ inbox = <<>>
  /\ results = <<>>
  /\ venue = <<>>
  /\ placed = {}
  /\ executed = <<>>

-----------------------------------------------------------------------------
(* The session: Mt5PullAdapter. *)

Enqueue(cmd) ==
  /\ Len(queue) < MaxCommands
  /\ queue' = Append(queue, [cmd |-> cmd, status |-> "QUEUED", result |-> "none"])
  /\ waiting' = Len(queue) + 1
  /\ told' = Append(told, "nothing")
  /\ executed' = Append(executed, 0)

\* submit refuses without a stop and, when the advisor never reported, without enqueuing.
Submit(stop) ==
  /\ waiting = 0
  /\ snapshot # None
  /\ stop # 0
  /\ Cardinality({c \in Ids : queue[c].cmd.op = "ORDER_SEND"}) < MaxOrders
  /\ Enqueue([op |-> "ORDER_SEND", position |-> 0, stop |-> stop])
  /\ UNCHANGED <<snapshot, requests, server, reply, ea, inbox, results, venue, placed>>

\* The widening check is against the last snapshot; the positions here are long.
ModifyStop(p, stop) ==
  /\ waiting = 0
  /\ snapshot # None
  /\ p \in DOMAIN snapshot
  /\ stop >= snapshot[p]
  /\ Enqueue([op |-> "MODIFY_SL", position |-> p, stop |-> stop])
  /\ UNCHANGED <<snapshot, requests, server, reply, ea, inbox, results, venue, placed>>

\* The positions a caller can name: receipts it was given, and the snapshot.
Named ==
  {c \in Ids : /\ queue[c].cmd.op = "ORDER_SEND"
                /\ told[c] \in {"FILLED", "FILLED_UNCONFIRMED"}}
    \cup (IF snapshot = None THEN {} ELSE DOMAIN snapshot)

Close(p) ==
  /\ waiting = 0
  /\ p \in Named
  /\ Enqueue([op |-> "CLOSE", position |-> p, stop |-> 0])
  /\ UNCHANGED <<snapshot, requests, server, reply, ea, inbox, results, venue, placed>>

\* Mutant: submit() does not look at the reported status.
ReceiptUnread(op, report) == IF op = "MODIFY_SL" THEN "ACCEPTED" ELSE "FILLED"

\* The receipt an adapter operation makes of a reported result.
Receipt(op, report) ==
  CASE op = "ORDER_SEND" -> IF report \in {"FILLED", "FILLED_UNCONFIRMED"} THEN report
                            ELSE "REJECTED"
    [] op = "MODIFY_SL"  -> IF report = "OK" THEN "ACCEPTED" ELSE "REJECTED"
    [] op = "CLOSE"      -> report

\* Mutant: a status ExecutionReceipt does not have.
NoAnswerTimeout(op) == "TIMEOUT"

\* The receipt of an operation whose deadline passed.
NoAnswer(op) == IF op = "MODIFY_SL" THEN "REJECTED" ELSE "UNKNOWN"

ReadResult ==
  /\ waiting # 0
  /\ queue[waiting].status = "DONE"
  /\ told' = [told EXCEPT ![waiting] = Receipt(queue[waiting].cmd.op, queue[waiting].result)]
  /\ waiting' = 0
  /\ UNCHANGED <<queue, snapshot, requests, server, reply, ea, inbox, results, venue,
                 placed, executed>>

\* The deadline passes; the row stays as it is on the queue.
GiveUp ==
  /\ Deadlines
  /\ waiting # 0
  /\ told' = [told EXCEPT ![waiting] = NoAnswer(queue[waiting].cmd.op)]
  /\ waiting' = 0
  /\ UNCHANGED <<queue, snapshot, requests, server, reply, ea, inbox, results, venue,
                 placed, executed>>

SessionRestarts ==
  /\ Losses
  /\ waiting # 0
  /\ waiting' = 0
  /\ UNCHANGED <<queue, snapshot, told, requests, server, reply, ea, inbox, results, venue,
                 placed, executed>>

-----------------------------------------------------------------------------
(* The pull server: one poll at a time, one committed statement per step. *)

\* Signature and nonce pass; a request whose nonce was seen is answered 401.
Receive(r) ==
  /\ server = None
  /\ r \in requests
  /\ ~r.seen
  /\ Late \/ r.current
  /\ requests' = (requests \ {r}) \cup {[r EXCEPT !.seen = TRUE]}
  /\ server' = [stage |-> "state", positions |-> r.positions, results |-> r.results,
                current |-> r.current]
  /\ UNCHANGED <<queue, snapshot, waiting, told, reply, ea, inbox, results, venue, placed,
                 executed>>

Refuse(r) ==
  /\ server = None
  /\ r \in requests
  /\ r.seen
  /\ requests' = requests \ {r}
  /\ UNCHANGED <<queue, snapshot, waiting, told, server, reply, ea, inbox, results, venue,
                 placed, executed>>

SetState ==
  /\ server # None
  /\ server.stage = "state"
  /\ snapshot' = server.positions
  /\ server' = [server EXCEPT !.stage = "results"]
  /\ UNCHANGED <<queue, waiting, told, requests, reply, ea, inbox, results, venue, placed,
                 executed>>

\* Mutant: complete() without its status filter.
CompletedAgain(row, report) == [row EXCEPT !.status = "DONE", !.result = report]

\* complete(): the first result of a command that is not DONE yet.
Completed(row, report) ==
  IF row.status = "DONE" THEN row ELSE [row EXCEPT !.status = "DONE", !.result = report]

\* Mutant: the results are recorded before the state is stored.
CompleteFirst ==
  /\ server # None
  /\ server.results # <<>>
  /\ LET r == Head(server.results)
     IN  queue' = [queue EXCEPT ![r.id] = Completed(@, r.report)]
  /\ server' = [server EXCEPT !.results = Tail(@)]
  /\ UNCHANGED <<snapshot, waiting, told, requests, reply, ea, inbox, results, venue,
                 placed, executed>>

Complete ==
  /\ server # None
  /\ server.stage = "results"
  /\ server.results # <<>>
  /\ LET r == Head(server.results)
     IN  queue' = [queue EXCEPT ![r.id] = Completed(@, r.report)]
  /\ server' = [server EXCEPT !.results = Tail(@)]
  /\ UNCHANGED <<snapshot, waiting, told, requests, reply, ea, inbox, results, venue,
                 placed, executed>>

Queued == {c \in Ids : queue[c].status = "QUEUED"}

Batch == IF Cardinality(Queued) < Limit THEN Cardinality(Queued) ELSE Limit

\* The ids take_pending selects: the oldest, in their order.
Pending ==
  {ids \in [1..Batch -> Queued] :
     /\ \A j, k \in DOMAIN ids : j < k => ids[j] < ids[k]
     /\ \A c \in Queued, j \in DOMAIN ids :
          c <= ids[j] => \E k \in DOMAIN ids : ids[k] = c}

\* Mutant: the rows are handed out and stay QUEUED.
TakenUnmarked(ids) == queue

Taken(ids) ==
  [c \in Ids |-> IF \E k \in DOMAIN ids : ids[k] = c
                 THEN [queue[c] EXCEPT !.status = "TAKEN"]
                 ELSE queue[c]]

\* The oldest pending rows are marked TAKEN and handed out in the reply, if the advisor
\* still waits for it.
Take ==
  /\ server # None
  /\ server.stage = "results"
  /\ server.results = <<>>
  /\ \E ids \in Pending :
       /\ queue' = Taken(ids)
       /\ reply' = IF server.current THEN ids ELSE reply
  /\ server' = None
  /\ UNCHANGED <<snapshot, waiting, told, requests, ea, inbox, results, venue, placed,
                 executed>>

\* The server dies between two statements; in take_pending, after some rows.
ServerRestarts ==
  /\ Losses
  /\ server # None
  /\ \/ UNCHANGED queue
     \/ /\ server.stage = "results"
        /\ server.results = <<>>
        /\ \E ids \in Pending : \E n \in DOMAIN ids : queue' = Taken(SubSeq(ids, 1, n))
  /\ server' = None
  /\ UNCHANGED <<snapshot, waiting, told, requests, reply, ea, inbox, results, venue,
                 placed, executed>>

-----------------------------------------------------------------------------
(* The Expert Advisor: OnTimer. *)

Poll ==
  /\ ea = "timer"
  /\ Cardinality(requests) < MaxInFlight
  /\ requests' = requests \cup {[positions |-> venue, results |-> results,
                                 current |-> TRUE, seen |-> FALSE]}
  /\ ea' = "polling"
  /\ UNCHANGED <<queue, snapshot, waiting, told, server, reply, inbox, results, venue,
                 placed, executed>>

\* 200: the pending results are dropped and the command lines are taken over.
GetReply ==
  /\ ea = "polling"
  /\ reply # None
  /\ inbox' = reply
  /\ reply' = None
  /\ results' = <<>>
  /\ ea' = "executing"
  /\ requests' = {r \in requests : ~r.current}
  /\ UNCHANGED <<queue, snapshot, waiting, told, server, venue, placed, executed>>

\* What the rest of the bridge still holds of a poll the advisor has given up on.
Abandon ==
  /\ requests' = {[r EXCEPT !.current = FALSE] : r \in requests}
  /\ server' = IF server = None THEN None ELSE [server EXCEPT !.current = FALSE]
  /\ reply' = None

\* No reply within TimeoutMs, or a status other than 200: pendingResults are kept.
PollFails ==
  /\ Losses
  /\ ea = "polling"
  /\ Abandon
  /\ ea' = "timer"
  /\ UNCHANGED <<queue, snapshot, waiting, told, inbox, results, venue, placed, executed>>

Drop(r) ==
  /\ r \in requests
  /\ ~r.current
  /\ requests' = requests \ {r}
  /\ UNCHANGED <<queue, snapshot, waiting, told, server, reply, ea, inbox, results, venue,
                 placed, executed>>

Executing(c, op) ==
  /\ ea = "executing"
  /\ inbox # <<>>
  /\ c = Head(inbox)
  /\ queue[c].cmd.op = op
  /\ inbox' = Tail(inbox)

\* Mutant: nothing is pushed for a position that is not there.
ReportsSilent(c, reports) ==
  results' = IF reports = <<"UNKNOWN">> THEN results
             ELSE results \o [k \in DOMAIN reports |-> [id |-> c, report |-> reports[k]]]

Reports(c, reports) ==
  results' = results \o [k \in DOMAIN reports |-> [id |-> c, report |-> reports[k]]]

With(p, stop) == [q \in DOMAIN venue \cup {p} |-> IF q = p THEN stop ELSE venue[q]]

Without(p) == [q \in DOMAIN venue \ {p} |-> venue[q]]

\* The venue refuses; fills with the stop attached, in full or in part; fills without
\* the stop, and then the advisor's own close may succeed or fail; or only takes the
\* order (TRADE_RETCODE_PLACED), whose position opens later or never.
ExecOrderSend(c) ==
  /\ Executing(c, "ORDER_SEND")
  /\ \/ /\ Reports(c, <<"REJECTED">>)
        /\ UNCHANGED <<venue, placed, executed>>
     \/ /\ venue' = With(c, queue[c].cmd.stop)
        /\ \E fill \in {"FILLED", "PARTIAL"} : Reports(c, <<fill>>)
        /\ executed' = [executed EXCEPT ![c] = @ + 1]
        /\ UNCHANGED placed
     \/ /\ venue' \in {venue, With(c, 0)}
        /\ \E fill \in {"FILLED_UNCONFIRMED", "PARTIAL"} : Reports(c, <<fill, "REJECTED">>)
        /\ executed' = [executed EXCEPT ![c] = @ + 1]
        /\ UNCHANGED placed
     \/ /\ placed' = placed \cup {c}
        /\ Reports(c, <<"ACCEPTED">>)
        /\ executed' = [executed EXCEPT ![c] = @ + 1]
        /\ UNCHANGED venue
  /\ UNCHANGED <<queue, snapshot, waiting, told, requests, server, reply, ea>>

\* Mutant: the advisor trusts the session's check.
WidensTrusted(p, stop) == FALSE

\* The advisor checks against the stop the venue has now.
Widens(p, stop) == venue[p] > 0 /\ stop < venue[p]

ExecModifySl(c) ==
  /\ Executing(c, "MODIFY_SL")
  /\ LET p == queue[c].cmd.position
         stop == queue[c].cmd.stop
     IN  \/ /\ p \in DOMAIN venue
            /\ ~Widens(p, stop)
            /\ venue' = With(p, stop)
            /\ Reports(c, <<"OK">>)
            /\ executed' = [executed EXCEPT ![c] = @ + 1]
         \/ /\ venue' = venue
            /\ Reports(c, <<"NOT_OK">>)
            /\ UNCHANGED executed
  /\ UNCHANGED <<queue, snapshot, waiting, told, requests, server, reply, ea, placed>>

\* A close done in part is reported FILLED too.
ExecClose(c) ==
  /\ Executing(c, "CLOSE")
  /\ LET p == queue[c].cmd.position
     IN  \/ /\ p \notin DOMAIN venue
            /\ venue' = venue
            /\ Reports(c, <<"UNKNOWN">>)
            /\ UNCHANGED executed
         \/ /\ p \in DOMAIN venue
            /\ venue' \in {venue, Without(p)}
            /\ Reports(c, <<"FILLED">>)
            /\ executed' = [executed EXCEPT ![c] = @ + 1]
         \/ /\ p \in DOMAIN venue
            /\ venue' = venue
            /\ Reports(c, <<"REJECTED">>)
            /\ UNCHANGED executed
  /\ UNCHANGED <<queue, snapshot, waiting, told, requests, server, reply, ea, placed>>

\* All lines executed: the next poll follows, at once if there is something to report.
AllExecuted ==
  /\ ea = "executing"
  /\ inbox = <<>>
  /\ ea' = "timer"
  /\ UNCHANGED <<queue, snapshot, waiting, told, requests, server, reply, inbox, results,
                 venue, placed, executed>>

\* pendingResults and the command lines live in the terminal's memory.
TerminalRestarts ==
  /\ Losses
  /\ Abandon
  /\ ea' = "timer"
  /\ inbox' = <<>>
  /\ results' = <<>>
  /\ UNCHANGED <<queue, snapshot, waiting, told, venue, placed, executed>>

\* The position of an order that was only taken opens, with the stop it carries or without.
PlacedFills(c) ==
  /\ c \in placed
  /\ placed' = placed \ {c}
  /\ venue' \in {With(c, queue[c].cmd.stop), With(c, 0)}
  /\ UNCHANGED <<queue, snapshot, waiting, told, requests, server, reply, ea, inbox, results,
                 executed>>

\* The venue cancels an order it had taken, or lets it expire.
PlacedDies(c) ==
  /\ c \in placed
  /\ placed' = placed \ {c}
  /\ UNCHANGED <<queue, snapshot, waiting, told, requests, server, reply, ea, inbox, results,
                 venue, executed>>

\* The venue closes a position: its stop or target is hit, or the owner closes it.
VenueCloses(p) ==
  /\ p \in DOMAIN venue
  /\ venue' = Without(p)
  /\ UNCHANGED <<queue, snapshot, waiting, told, requests, server, reply, ea, inbox,
                 results, placed, executed>>

Session ==
  \/ \E stop \in Stops : Submit(stop)
  \/ \E p \in Ids, stop \in Stops : ModifyStop(p, stop)
  \/ \E p \in Ids : Close(p)
  \/ ReadResult \/ GiveUp \/ SessionRestarts

Server ==
  \/ \E r \in requests : Receive(r) \/ Refuse(r)
  \/ SetState \/ Complete \/ Take \/ ServerRestarts

Advisor ==
  \/ Poll \/ GetReply \/ PollFails \/ AllExecuted \/ TerminalRestarts
  \/ \E c \in Ids : ExecOrderSend(c) \/ ExecModifySl(c) \/ ExecClose(c)

Next ==
  \/ Session \/ Server \/ Advisor
  \/ \E r \in requests : Drop(r)
  \/ \E c \in placed : PlacedFills(c) \/ PlacedDies(c)
  \/ \E p \in DOMAIN venue : VenueCloses(p)

Spec == Init /\ [][Next]_vars

\* The bridge moves on when nothing is in the way: the advisor's timer fires, a
\* request and its reply are delivered, the server and the session run.
FairSpec ==
  /\ Spec
  /\ WF_vars(ReadResult)
  /\ WF_vars(Server)
  /\ WF_vars(Poll \/ GetReply \/ AllExecuted
             \/ \E c \in Ids : ExecOrderSend(c) \/ ExecModifySl(c) \/ ExecClose(c))

-----------------------------------------------------------------------------
(* What the bridge promises. *)

TypeOK ==
  /\ queue \in Seq(Row) /\ Len(queue) <= MaxCommands
  /\ snapshot \in Positions \cup {None}
  /\ waiting \in 0..Len(queue)
  /\ told \in [Ids -> Report \cup {"nothing"}]
  /\ requests \subseteq Request
  /\ server # None => server.stage \in {"state", "results"} /\ server.results \in Seq(Result)
  /\ reply # None => reply \in Seq(Ids)
  /\ ea \in {"timer", "polling", "executing"}
  /\ inbox \in Seq(Ids)
  /\ results \in Seq(Result)
  /\ venue \in Positions
  /\ placed \subseteq Ids
  /\ executed \in [Ids -> Nat]

(***************************************************************************)
(* No command is carried out twice at the venue, whatever is lost, repeated *)
(* or restarted: take_pending marks a row TAKEN before the reply leaves and *)
(* nothing ever offers it again.                                            *)
(***************************************************************************)
ExecutedAtMostOnce == \A c \in Ids : executed[c] <= 1

(***************************************************************************)
(* What a receipt asserts happened did happen, and happened once: an order  *)
(* told FILLED was carried out, a stop told ACCEPTED was moved, a position  *)
(* told closed was closed at least in part (Mt5PullAdapter.submit,          *)
(* modify_stop, close).                                                     *)
(***************************************************************************)
ReceiptsAreGrounded ==
  \A c \in Ids :
    told[c] \in {"FILLED", "FILLED_UNCONFIRMED", "ACCEPTED"} => executed[c] = 1

\* The orders recorded as filled whose position is open and not in the snapshot. An
\* order told ACCEPTED promises no position.
Uncovered ==
  {c \in Ids : /\ queue[c].cmd.op = "ORDER_SEND"
               /\ queue[c].result \in {"FILLED", "FILLED_UNCONFIRMED", "PARTIAL"}
               /\ c \in DOMAIN venue
               /\ c \notin DOMAIN snapshot}

(***************************************************************************)
(* The snapshot the session reconciles against is not behind the fills it   *)
(* is told of: a fill that is recorded finds its position there already,    *)
(* and only a poll that arrives after the advisor gave up on it can take it *)
(* away again, until the next poll in time brings all of them (poll stores  *)
(* the state before the results, and both come from one moment of the       *)
(* terminal; the late poll passes the clock skew of mt5_pull.py:297).       *)
(***************************************************************************)
SnapshotCoversFills ==
  [][/\ SetState /\ server.current => Uncovered' = {}
     /\ ~SetState => Uncovered' \subseteq Uncovered]_vars

(***************************************************************************)
(* The stop of an open position is never loosened at the venue, though the  *)
(* session judged the move by a snapshot and sends moves whose predecessors *)
(* it gave up on (modify_stop, ExecModifySl).                               *)
(***************************************************************************)
NeverWidened ==
  [][\A p \in DOMAIN venue \cap DOMAIN venue' : venue'[p] >= venue[p]]_vars

(***************************************************************************)
(* A recorded result is final: a repeated or second report of a command     *)
(* never replaces the first, so what the session read stays true of the row *)
(* (BridgeQueue.complete).                                                  *)
(***************************************************************************)
ResultsAreFinal ==
  [][\A c \in Ids : queue[c].status = "DONE" => queue'[c] = queue[c]]_vars

(***************************************************************************)
(* With every message delivered and nothing restarted, every command is     *)
(* handed out, executed, reported and recorded, also when the session gave  *)
(* up on it: an order told UNKNOWN is still carried out later, which is why *)
(* the receipt says to reconcile first.                                     *)
(***************************************************************************)
EveryCommandAnswered ==
  \A c \in 1..MaxCommands : c \in Ids ~> c \in Ids /\ queue[c].status = "DONE"

=============================================================================
