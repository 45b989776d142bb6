-------------------------- MODULE Mt5PullBridgeProofs --------------------------
(***************************************************************************)
(* What the MT5 pull bridge guarantees for any number of commands, stop      *)
(* levels and polls in flight, whatever is lost, repeated or restarted.      *)
(***************************************************************************)
EXTENDS Mt5PullBridgeImplements, SequenceTheorems, FiniteSetTheorems, TLAPS

-----------------------------------------------------------------------------
(* The inductive invariant. *)

Fills == {"FILLED", "FILLED_UNCONFIRMED", "PARTIAL", "ACCEPTED"}

\* A report that can only come from a command that was carried out.
Asserts(op, report) ==
  \/ Receipt(op, report) \in {"FILLED", "FILLED_UNCONFIRMED", "ACCEPTED"}
  \/ op = "ORDER_SEND" /\ report \in Fills

\* The results rs are of commands of q and claim only what ex says was done.
Grounded(rs, q, ex) ==
  \A k \in DOMAIN rs :
    /\ rs[k].id \in 1..Len(q)
    /\ Asserts(q[rs[k].id].cmd.op, rs[k].report) => ex[rs[k].id] = 1

\* The commands ids were handed out by q, each once, and were not carried out.
Untouched(ids, q, ex) ==
  /\ \A k \in DOMAIN ids : q[ids[k]].status # "QUEUED" /\ ex[ids[k]] = 0
  /\ \A j, k \in DOMAIN ids : ids[j] = ids[k] => j = k

Handling == [stage: {"state", "results"}, positions: Positions, results: Seq(Result),
             current: BOOLEAN]

TypeInv ==
  /\ TypeOK
  /\ server # None => server \in Handling
  /\ \A c \in Ids : queue[c].status = "DONE" => queue[c].result # "none"

\* Each command is at one place of its way only: on the queue, in the reply, in
\* the advisor's hands, or carried out.
PlaceInv ==
  /\ ea # "executing" => inbox = <<>>
  /\ Untouched(inbox, queue, executed)
  /\ reply # None => /\ Untouched(reply, queue, executed)
                     /\ \A j \in DOMAIN reply, k \in DOMAIN inbox : reply[j] # inbox[k]
  /\ \A c \in Ids : executed[c] <= 1 /\ (queue[c].status = "QUEUED" => executed[c] = 0)
  /\ \A c \in DOMAIN venue : c \in Ids /\ executed[c] = 1
  /\ \A c \in placed : /\ c \in Ids /\ executed[c] = 1 /\ c \notin DOMAIN venue
                        /\ queue[c].cmd.op = "ORDER_SEND"

\* No result on its way, recorded or told claims what was not done.
GroundInv ==
  /\ Grounded(results, queue, executed)
  /\ \A r \in requests : Grounded(r.results, queue, executed)
  /\ server # None => Grounded(server.results, queue, executed)
  /\ \A c \in Ids : Asserts(queue[c].cmd.op, queue[c].result) => executed[c] = 1
  /\ ReceiptsAreGrounded

IInv == TypeInv /\ PlaceInv /\ GroundInv

-----------------------------------------------------------------------------
(* Facts the steps share. *)

LEMMA TypesMean ==
  ASSUME TypeInv
  PROVE  /\ MaxCommands \in Nat /\ Len(queue) \in Nat /\ Len(queue) <= MaxCommands
         /\ DOMAIN queue = Ids /\ Ids = 1..Len(queue) /\ Ids \subseteq 1..MaxCommands
         /\ queue \in [Ids -> Row]
         /\ \A c \in Ids : queue[c] \in Row /\ queue[c].cmd \in Command
         /\ told \in [Ids -> Report \cup {"nothing"}]
         /\ executed \in [Ids -> Nat]
  <1>1. queue \in Seq(Row) /\ Len(queue) <= MaxCommands
    BY DEF TypeInv, TypeOK
  <1>2. Len(queue) \in Nat /\ queue \in [1..Len(queue) -> Row] /\ DOMAIN queue = 1..Len(queue)
    BY <1>1, LenProperties
  <1>3. MaxCommands \in Nat
    BY BridgeAssumption DEF BridgeAssumption
  <1>4. \A c \in Ids : queue[c] \in Row /\ queue[c].cmd \in Command
    BY <1>2 DEF Ids, Row
  <1> QED BY <1>1, <1>2, <1>3, <1>4 DEF TypeInv, TypeOK, Ids

\* What was done and asked stays done and asked.
Later(q, ex, q2, ex2) ==
  /\ Len(q) \in Nat /\ Len(q2) \in Nat /\ Len(q) <= Len(q2)
  /\ \A c \in 1..Len(q) : q2[c].cmd = q[c].cmd /\ (ex[c] = 1 => ex2[c] = 1)

LEMMA GroundedLater ==
  ASSUME NEW q, NEW ex, NEW q2, NEW ex2, Later(q, ex, q2, ex2),
         NEW rs, Grounded(rs, q, ex)
  PROVE  Grounded(rs, q2, ex2)
  BY DEF Later, Grounded

LEMMA UntouchedLater ==
  ASSUME NEW q, NEW ex, NEW q2, NEW ex2, NEW ids, Untouched(ids, q, ex),
         \A k \in DOMAIN ids : /\ q[ids[k]].status # "QUEUED" => q2[ids[k]].status # "QUEUED"
                               /\ ex[ids[k]] = 0 => ex2[ids[k]] = 0
  PROVE  Untouched(ids, q2, ex2)
  BY DEF Untouched

LEMMA TailMeans ==
  ASSUME NEW S, NEW s \in Seq(S), s # <<>>
  PROVE  /\ Head(s) = s[1] /\ Head(s) \in S /\ Tail(s) \in Seq(S) /\ 1 \in DOMAIN s
         /\ \A k \in DOMAIN Tail(s) : k + 1 \in DOMAIN s /\ Tail(s)[k] = s[k + 1] /\ k \in Nat
  <1>1. /\ Head(s) \in S /\ Tail(s) \in Seq(S) /\ Len(Tail(s)) = Len(s) - 1
        /\ \A k \in 1..Len(Tail(s)) : Tail(s)[k] = s[k + 1]
    BY HeadTailProperties
  <1>2. /\ Len(s) \in Nat /\ DOMAIN s = 1..Len(s) /\ DOMAIN Tail(s) = 1..Len(Tail(s))
        /\ Len(s) # 0
    BY <1>1, LenProperties, EmptySeq
  <1> QED BY <1>1, <1>2

LEMMA GroundedTail ==
  ASSUME NEW rs \in Seq(Result), rs # <<>>, NEW q, NEW ex, Grounded(rs, q, ex)
  PROVE  Grounded(Tail(rs), q, ex)
  BY TailMeans DEF Grounded

LEMMA GroundedEmpty ==
  ASSUME NEW q, NEW ex
  PROVE  Grounded(<<>>, q, ex) /\ Untouched(<<>>, q, ex)
  BY DEF Grounded, Untouched

LEMMA GroundedJoin ==
  ASSUME NEW q, NEW ex, NEW rs, NEW these, NEW those,
         Grounded(these, q, ex), Grounded(those, q, ex),
         \A i \in DOMAIN rs : \/ i \in DOMAIN these /\ rs[i] = these[i]
                              \/ \E k \in DOMAIN those : rs[i] = those[k]
  PROVE  Grounded(rs, q, ex)
  <1> SUFFICES ASSUME NEW i \in DOMAIN rs
               PROVE  /\ rs[i].id \in 1..Len(q)
                      /\ Asserts(q[rs[i].id].cmd.op, rs[i].report) => ex[rs[i].id] = 1
    BY DEF Grounded
  <1>1. CASE i \in DOMAIN these /\ rs[i] = these[i]
    BY <1>1 DEF Grounded
  <1>2. ASSUME NEW k \in DOMAIN those, rs[i] = those[k]
        PROVE  /\ rs[i].id \in 1..Len(q)
               /\ Asserts(q[rs[i].id].cmd.op, rs[i].report) => ex[rs[i].id] = 1
    BY <1>2 DEF Grounded
  <1> QED BY <1>1, <1>2

LEMMA InitHolds == ASSUME Init PROVE IInv
  <1>1. TypeInv
    <2>1. venue \in Positions
      <3>1. venue \in [{} -> Stops]
        BY DEF Init
      <3> QED BY <3>1 DEF Positions
    <2> QED BY <2>1, BridgeAssumption DEF Init, TypeInv, TypeOK, Ids, BridgeAssumption
  <1>2. PlaceInv /\ GroundInv
    BY GroundedEmpty DEF Init, PlaceInv, GroundInv, Ids, ReceiptsAreGrounded
  <1> QED BY <1>1, <1>2 DEF IInv

-----------------------------------------------------------------------------
(* The session. *)

LEMMA EnqueueGrows ==
  ASSUME TypeInv, NEW cmd \in Command, Enqueue(cmd)
  PROVE  /\ queue' \in Seq(Row) /\ Len(queue') = Len(queue) + 1 /\ Len(queue') <= MaxCommands
         /\ Ids' = Ids \cup {Len(queue) + 1} /\ Ids \subseteq Ids'
         /\ \A c \in Ids : /\ queue'[c] = queue[c]
                           /\ told'[c] = told[c] /\ executed'[c] = executed[c]
         /\ LET n == Len(queue) + 1
            IN  /\ queue'[n].status = "QUEUED" /\ queue'[n].result = "none"
                /\ told'[n] = "nothing" /\ executed'[n] = 0 /\ n \notin Ids
         /\ told' \in [Ids' -> Report \cup {"nothing"}]
         /\ executed' \in [Ids' -> Nat]
  <1> DEFINE row == [cmd |-> cmd, status |-> "QUEUED", result |-> "none"]
             T == Report \cup {"nothing"}
  <1>0. row \in Row
    BY DEF Row
  <1>1. /\ queue \in Seq(Row) /\ told \in Seq(T) /\ executed \in Seq(Nat)
        /\ Len(told) = Len(queue) /\ Len(executed) = Len(queue)
    <2>1. queue \in Seq(Row) /\ told \in [1..Len(queue) -> T] /\ executed \in [1..Len(queue) -> Nat]
          /\ Len(queue) \in Nat
      BY TypesMean DEF TypeInv, TypeOK, Ids
    <2> QED BY <2>1
  <1>2. queue' = Append(queue, row) /\ told' = Append(told, "nothing")
        /\ executed' = Append(executed, 0) /\ Len(queue) < MaxCommands
    BY DEF Enqueue
  <1> HIDE DEF row, T
  <1>3. /\ queue' \in Seq(Row) /\ Len(queue') = Len(queue) + 1
        /\ \A c \in 1..Len(queue) : queue'[c] = queue[c]
        /\ queue'[Len(queue) + 1] = row
    BY <1>0, <1>1, <1>2
  <1>4. /\ told' \in Seq(T) /\ Len(told') = Len(queue) + 1
        /\ \A c \in 1..Len(queue) : told'[c] = told[c]
        /\ told'[Len(queue) + 1] = "nothing"
    BY <1>1, <1>2 DEF T
  <1>5. /\ executed' \in Seq(Nat) /\ Len(executed') = Len(queue) + 1
        /\ \A c \in 1..Len(queue) : executed'[c] = executed[c]
        /\ executed'[Len(queue) + 1] = 0
    BY <1>1, <1>2
  <1>6. Len(queue) \in Nat /\ MaxCommands \in Nat
    BY TypesMean
  <1>7. Ids' = 1..(Len(queue) + 1) /\ Ids = 1..Len(queue)
    BY <1>3 DEF Ids
  <1>8. told' \in [Ids' -> T] /\ executed' \in [Ids' -> Nat]
    BY <1>4, <1>5, <1>7, LenProperties
  <1> QED BY <1>2, <1>3, <1>4, <1>5, <1>6, <1>7, <1>8 DEF row, T

LEMMA EnqueueKeeps ==
  ASSUME IInv, NEW cmd \in Command, Enqueue(cmd),
         UNCHANGED <<snapshot, requests, server, reply, ea, inbox, results, venue, placed>>
  PROVE  IInv'
  <1>0. TypeInv /\ PlaceInv /\ GroundInv
    BY DEF IInv
  <1> USE <1>0, TypesMean, EnqueueGrows
  <1>1. TypeInv'
    <2>1. inbox' \in Seq(Ids') /\ (reply' # None => reply' \in Seq(Ids'))
      BY SeqMonotonic DEF TypeInv, TypeOK
    <2>2. waiting' \in 0..Len(queue')
      BY DEF Enqueue
    <2>3. \A c \in Ids' : queue'[c].status = "DONE" => queue'[c].result # "none"
      BY DEF TypeInv
    <2> QED BY <2>1, <2>2, <2>3 DEF TypeInv, TypeOK
  <1>2. Later(queue, executed, queue', executed')
    BY DEF Later, Ids
  <1>3. /\ \A k \in DOMAIN inbox : inbox[k] \in Ids
        /\ reply # None => \A k \in DOMAIN reply : reply[k] \in Ids
    BY ElementOfSeq, LenProperties DEF TypeInv, TypeOK
  <1>4. PlaceInv'
    <2>0. /\ \A d \in Ids : queue'[d] = queue[d] /\ executed'[d] = executed[d]
          /\ inbox' = inbox /\ reply' = reply
      OBVIOUS
    <2>1. Untouched(inbox, queue, executed)'
      <3>1. Untouched(inbox, queue, executed)
        BY DEF PlaceInv
      <3> QED BY <1>3, <2>0, <3>1 DEF Untouched
    <2>2. reply' # None => Untouched(reply, queue, executed)'
      <3>1. reply # None => Untouched(reply, queue, executed)
        BY DEF PlaceInv
      <3> QED BY <1>3, <2>0, <3>1 DEF Untouched
    <2>3. \A c \in Ids' : executed'[c] <= 1 /\ (queue'[c].status = "QUEUED" => executed'[c] = 0)
      BY DEF PlaceInv
    <2>4. \A c \in DOMAIN venue : c \in Ids' /\ executed'[c] = 1
      BY DEF PlaceInv
    <2>5. \A c \in placed : /\ c \in Ids' /\ executed'[c] = 1 /\ c \notin DOMAIN venue
                            /\ queue'[c].cmd.op = "ORDER_SEND"
      BY DEF PlaceInv
    <2> QED BY <2>1, <2>2, <2>3, <2>4, <2>5 DEF PlaceInv
  <1>5. GroundInv'
    <2>1. \A rs : Grounded(rs, queue, executed) => Grounded(rs, queue', executed')
      BY <1>2, GroundedLater
    <2>2. \A c \in Ids' : Asserts(queue'[c].cmd.op, queue'[c].result) => executed'[c] = 1
      <3>1. \A row \in Row : row.result = "none" => ~Asserts(row.cmd.op, row.result)
        BY DEF Row, Command, Asserts, Receipt, Fills
      <3>2. queue'[Len(queue) + 1] \in Row
        BY <1>1 DEF TypeInv, TypeOK, Ids
      <3>3. ~Asserts(queue'[Len(queue) + 1].cmd.op, queue'[Len(queue) + 1].result)
        BY <3>1, <3>2
      <3>4. ASSUME NEW c \in Ids, Asserts(queue'[c].cmd.op, queue'[c].result)
            PROVE  executed'[c] = 1
        BY <3>4 DEF GroundInv
      <3> QED BY <3>3, <3>4
    <2>3. ReceiptsAreGrounded'
      BY DEF GroundInv, ReceiptsAreGrounded
    <2> QED BY <2>1, <2>2, <2>3 DEF GroundInv
  <1> QED BY <1>1, <1>4, <1>5 DEF IInv

LEMMA SubmitKeeps == ASSUME IInv, NEW stop \in Stops, Submit(stop) PROVE IInv'
  <1>1. [op |-> "ORDER_SEND", position |-> 0, stop |-> stop] \in Command
    BY BridgeAssumption DEF Command, BridgeAssumption
  <1> QED BY <1>1, EnqueueKeeps DEF Submit

\* A position has the number of the order that opened it.
LEMMA PositionsMean ==
  ASSUME NEW P \in Positions
  PROVE  P \in [DOMAIN P -> Stops] /\ DOMAIN P \subseteq 1..MaxCommands
  BY DEF Positions

LEMMA PositionsBuilt ==
  ASSUME NEW D \in SUBSET (1..MaxCommands), NEW P \in [D -> Stops]
  PROVE  P \in Positions
  BY DEF Positions

LEMMA ModifyStopKeeps ==
  ASSUME IInv, NEW p \in Ids, NEW stop \in Stops, ModifyStop(p, stop) PROVE IInv'
  <1>1. [op |-> "MODIFY_SL", position |-> p, stop |-> stop] \in Command
    BY TypesMean DEF Command, IInv
  <1> QED BY <1>1, EnqueueKeeps DEF ModifyStop

LEMMA CloseKeeps == ASSUME IInv, NEW p \in Ids, Close(p) PROVE IInv'
  <1>1. [op |-> "CLOSE", position |-> p, stop |-> 0] \in Command
    BY TypesMean, BridgeAssumption DEF Command, IInv, Stops, BridgeAssumption
  <1> QED BY <1>1, EnqueueKeeps DEF Close

\* The commands the session enqueues.
LEMMA CommandsAreTyped ==
  ASSUME TypeInv
  PROVE  /\ \A stop \in Stops : Submit(stop) => \E cmd \in Command : Enqueue(cmd)
         /\ \A p \in Ids, stop \in Stops :
              ModifyStop(p, stop) => \E cmd \in Command : Enqueue(cmd)
         /\ \A p \in Ids : Close(p) => \E cmd \in Command : Enqueue(cmd)
  <1>1. 0 \in 0..MaxCommands /\ 0 \in Stops /\ Ids \subseteq 0..MaxCommands
    BY TypesMean, BridgeAssumption DEF Stops, BridgeAssumption
  <1>2. \A stop \in Stops :
          [op |-> "ORDER_SEND", position |-> 0, stop |-> stop] \in Command
    BY <1>1 DEF Command
  <1>3. \A p \in Ids, stop \in Stops :
          [op |-> "MODIFY_SL", position |-> p, stop |-> stop] \in Command
    BY <1>1 DEF Command
  <1>4. \A p \in Ids : [op |-> "CLOSE", position |-> p, stop |-> 0] \in Command
    BY <1>1 DEF Command
  <1> QED BY <1>2, <1>3, <1>4 DEF Submit, ModifyStop, Close

\* What the session reads and tells leaves the rest of the bridge as it is.
LEMMA TellKeeps ==
  ASSUME IInv, waiting' \in 0..Len(queue), told' \in [Ids -> Report \cup {"nothing"}],
         \A c \in Ids : told'[c] \in {"FILLED", "FILLED_UNCONFIRMED", "ACCEPTED"}
                          => told'[c] = told[c] \/ executed[c] = 1,
         UNCHANGED <<queue, snapshot, requests, server, reply, ea, inbox, results, venue,
                     placed, executed>>
  PROVE  IInv'
  <1>1. TypeInv'
    BY DEF IInv, TypeInv, TypeOK, Ids
  <1>2. PlaceInv'
    BY DEF IInv, PlaceInv, Ids
  <1>3. GroundInv'
    <2>1. ReceiptsAreGrounded'
      BY DEF IInv, GroundInv, ReceiptsAreGrounded, Ids
    <2> QED BY <2>1 DEF IInv, GroundInv, Ids
  <1> QED BY <1>1, <1>2, <1>3 DEF IInv

LEMMA ReadResultKeeps == ASSUME IInv, ReadResult PROVE IInv'
  <1>0. TypeInv /\ GroundInv
    BY DEF IInv
  <1>1. waiting \in Ids /\ queue[waiting].status = "DONE"
    BY <1>0, TypesMean DEF TypeInv, TypeOK, ReadResult
  <1>2. queue[waiting].cmd.op \in {"ORDER_SEND", "MODIFY_SL", "CLOSE"}
        /\ queue[waiting].result \in Report
    BY <1>0, <1>1, TypesMean DEF TypeInv, Row, Command
  <1> DEFINE receipt == Receipt(queue[waiting].cmd.op, queue[waiting].result)
  <1>3. receipt \in Report
    BY <1>2 DEF Receipt, Report
  <1>4. receipt \in {"FILLED", "FILLED_UNCONFIRMED", "ACCEPTED"} => executed[waiting] = 1
    BY <1>0, <1>1 DEF GroundInv, Asserts
  <1>5. told' = [told EXCEPT ![waiting] = receipt] /\ waiting' = 0
        /\ UNCHANGED <<queue, snapshot, requests, server, reply, ea, inbox, results, venue,
                       placed, executed>>
    BY DEF ReadResult
  <1> HIDE DEF receipt
  <1>6. told \in [Ids -> Report \cup {"nothing"}] /\ Len(queue) \in Nat
    BY <1>0, TypesMean
  <1>7. \A c \in Ids : told'[c] = IF c = waiting THEN receipt ELSE told[c]
    BY <1>5, <1>6
  <1>8. told' \in [Ids -> Report \cup {"nothing"}]
    BY <1>3, <1>5, <1>6
  <1> QED BY <1>4, <1>5, <1>6, <1>7, <1>8, TellKeeps

LEMMA GiveUpKeeps == ASSUME IInv, GiveUp PROVE IInv'
  <1>0. TypeInv /\ told \in [Ids -> Report \cup {"nothing"}] /\ Len(queue) \in Nat
    BY TypesMean DEF IInv
  <1>1. waiting \in Ids
    BY <1>0 DEF TypeInv, TypeOK, GiveUp, Ids
  <1> DEFINE receipt == NoAnswer(queue[waiting].cmd.op)
  <1>2. receipt \in {"REJECTED", "UNKNOWN"}
    BY DEF NoAnswer
  <1>3. told' = [told EXCEPT ![waiting] = receipt] /\ waiting' = 0
        /\ UNCHANGED <<queue, snapshot, requests, server, reply, ea, inbox, results, venue,
                       placed, executed>>
    BY DEF GiveUp
  <1> HIDE DEF receipt
  <1>4. told' \in [Ids -> Report \cup {"nothing"}]
        /\ \A c \in Ids : told'[c] = IF c = waiting THEN receipt ELSE told[c]
    BY <1>0, <1>2, <1>3 DEF Report
  <1> QED BY <1>0, <1>2, <1>3, <1>4, TellKeeps

LEMMA SessionRestartsKeeps == ASSUME IInv, SessionRestarts PROVE IInv'
  BY TellKeeps, TypesMean DEF SessionRestarts, IInv

-----------------------------------------------------------------------------
(* The pull server. *)

LEMMA ReceiveKeeps == ASSUME IInv, NEW r \in requests, Receive(r) PROVE IInv'
  <1> DEFINE seen == [r EXCEPT !.seen = TRUE]
             rest == <<queue, snapshot, waiting, told, reply, ea, inbox, results, venue, placed,
                       executed>>
  <1>0. TypeInv /\ PlaceInv /\ GroundInv /\ UNCHANGED rest /\ server = None
        /\ (Late \/ r.current) /\ ~r.seen
    BY DEF IInv, Receive
  <1>1. r \in Request
    BY <1>0 DEF TypeInv, TypeOK
  <1>2. /\ seen \in Request /\ seen.results = r.results /\ seen.current = r.current /\ seen.seen
        /\ seen.positions = r.positions
    BY <1>1 DEF Request
  <1>3. requests' = (requests \ {r}) \cup {seen}
    BY DEF Receive
  <1>4. /\ server' \in Handling /\ server'.stage = "state" /\ server'.results = r.results
        /\ server'.positions = r.positions /\ server'.current = r.current
    BY <1>1 DEF Receive, Request, Handling
  <1> HIDE DEF seen
  <1>5. TypeInv'
    BY <1>0, <1>2, <1>3, <1>4 DEF TypeInv, TypeOK, Ids, Handling
  <1>6. PlaceInv'
    BY <1>0 DEF PlaceInv, Ids
  <1>7. GroundInv'
    BY <1>0, <1>2, <1>3, <1>4 DEF GroundInv, Ids, ReceiptsAreGrounded
  <1> QED BY <1>5, <1>6, <1>7 DEF IInv

\* Requests leave the network.
LEMMA FewerRequestsKeep ==
  ASSUME IInv, requests' \subseteq requests,
         UNCHANGED <<queue, snapshot, waiting, told, server, reply, ea, inbox, results, venue,
                     placed, executed>>
  PROVE  IInv'
  <1>1. TypeInv'
    BY DEF IInv, TypeInv, TypeOK, Ids
  <1>2. PlaceInv' /\ GroundInv'
    BY DEF IInv, PlaceInv, GroundInv, Ids, ReceiptsAreGrounded
  <1> QED BY <1>1, <1>2 DEF IInv

LEMMA RefuseKeeps == ASSUME IInv, NEW r \in requests, Refuse(r) PROVE IInv'
  BY FewerRequestsKeep DEF Refuse

LEMMA DropKeeps == ASSUME IInv, NEW r \in requests, Drop(r) PROVE IInv'
  BY FewerRequestsKeep DEF Drop

LEMMA SetStateKeeps == ASSUME IInv, SetState PROVE IInv'
  <1>0. TypeInv /\ PlaceInv /\ GroundInv /\ server # None /\ server \in Handling
    BY DEF IInv, SetState, TypeInv
  <1>1. /\ server' \in Handling /\ server'.stage = "results" /\ server'.results = server.results
        /\ server'.positions = server.positions /\ server'.current = server.current
        /\ snapshot' = server.positions /\ server.positions \in Positions
    BY <1>0 DEF Handling, SetState
  <1>2. UNCHANGED <<queue, waiting, told, requests, reply, ea, inbox, results, venue, placed,
                    executed>>
    BY DEF SetState
  <1>3. TypeInv'
    BY <1>0, <1>1, <1>2 DEF TypeInv, TypeOK, Ids, Handling
  <1>4. PlaceInv' /\ GroundInv'
    BY <1>0, <1>1, <1>2 DEF PlaceInv, GroundInv, Ids, ReceiptsAreGrounded
  <1> QED BY <1>3, <1>4 DEF IInv

\* A row moves on: its command stays, what was handed out is not offered again, and a
\* result that comes in claims only what was done.
Moved(q2) ==
  /\ q2 \in [Ids -> Row]
  /\ \A c \in Ids :
       /\ q2[c].cmd = queue[c].cmd
       /\ q2[c].status = "QUEUED" => queue[c].status = "QUEUED"
       /\ q2[c].status = "DONE" => q2[c].result # "none"
       /\ \/ q2[c].result = queue[c].result
          \/ Asserts(q2[c].cmd.op, q2[c].result) => executed[c] = 1

LEMMA MovedMeans ==
  ASSUME IInv, NEW q2, Moved(q2)
  PROVE  /\ q2 \in Seq(Row) /\ Len(q2) = Len(queue) /\ DOMAIN q2 = Ids
         /\ \A c \in Ids : q2[c].status = "QUEUED" => executed[c] = 0
         /\ \A c \in Ids : Asserts(q2[c].cmd.op, q2[c].result) => executed[c] = 1
         /\ Untouched(inbox, q2, executed)
         /\ reply # None => Untouched(reply, q2, executed)
         /\ \A rs : Grounded(rs, queue, executed) => Grounded(rs, q2, executed)
  <1>0. TypeInv /\ PlaceInv /\ GroundInv
    BY DEF IInv
  <1>1. Len(queue) \in Nat /\ Ids = 1..Len(queue)
    BY <1>0, TypesMean
  <1>2. q2 \in [1..Len(queue) -> Row] /\ DOMAIN q2 = Ids
    BY <1>1 DEF Moved
  <1>3. q2 \in Seq(Row) /\ Len(q2) = Len(queue)
    BY <1>1, <1>2
  <1>4. /\ \A k \in DOMAIN inbox : inbox[k] \in Ids
        /\ reply # None => \A k \in DOMAIN reply : reply[k] \in Ids
    BY <1>0, ElementOfSeq, LenProperties DEF TypeInv, TypeOK
  <1>5. Untouched(inbox, q2, executed)
    BY <1>0, <1>4, UntouchedLater DEF PlaceInv, Moved
  <1>6. reply # None => Untouched(reply, q2, executed)
    BY <1>0, <1>4, UntouchedLater DEF PlaceInv, Moved
  <1>7. Later(queue, executed, q2, executed)
    BY <1>1, <1>3 DEF Later, Moved
  <1>8. \A rs : Grounded(rs, queue, executed) => Grounded(rs, q2, executed)
    BY <1>7, GroundedLater
  <1>9. \A c \in Ids : /\ q2[c].status = "QUEUED" => executed[c] = 0
                       /\ Asserts(q2[c].cmd.op, q2[c].result) => executed[c] = 1
    BY <1>0 DEF PlaceInv, GroundInv, Moved
  <1> QED BY <1>2, <1>3, <1>5, <1>6, <1>8, <1>9

\* The row of the result the server is at is done.
LEMMA CompleteMoves ==
  ASSUME IInv, Complete
  PROVE  Moved(queue') /\ executed' = executed
  <1> DEFINE r == Head(server.results)
  <1>0. TypeInv /\ PlaceInv /\ GroundInv /\ server # None /\ server \in Handling
        /\ server.results # <<>> /\ server.stage = "results" /\ server.results \in Seq(Result)
    BY DEF IInv, Complete, TypeInv, Handling
  <1>1. /\ r = server.results[1] /\ r \in Result /\ Tail(server.results) \in Seq(Result)
        /\ 1 \in DOMAIN server.results
    BY <1>0, TailMeans
  <1>2. /\ r.id \in Ids /\ r.report \in Report
        /\ Asserts(queue[r.id].cmd.op, r.report) => executed[r.id] = 1
    BY <1>0, <1>1 DEF GroundInv, Grounded, Result, Ids
  <1>3. queue \in [Ids -> Row] /\ \A c \in Ids : queue[c] \in Row
    BY <1>0, TypesMean
  <1>4. queue' = [queue EXCEPT ![r.id] = Completed(@, r.report)]
        /\ server' = [server EXCEPT !.results = Tail(@)]
        /\ UNCHANGED <<snapshot, waiting, told, requests, reply, ea, inbox, results, venue,
                       placed, executed>>
    BY DEF Complete
  <1> HIDE DEF r
  <1>5. \A row \in Row : /\ Completed(row, r.report) \in Row
                         /\ Completed(row, r.report).cmd = row.cmd
                         /\ Completed(row, r.report).status = "DONE"
                         /\ \/ Completed(row, r.report) = row
                            \/ Completed(row, r.report).result = r.report
    BY <1>2 DEF Row, Completed
  <1>6. Moved(queue')
    <2>1. queue' \in [Ids -> Row]
      BY <1>2, <1>3, <1>4, <1>5
    <2>2. \A c \in Ids : queue'[c] = IF c = r.id THEN Completed(queue[c], r.report) ELSE queue[c]
      BY <1>3, <1>4
    <2>3. r.report # "none"
      BY <1>2 DEF Report
    <2>4. ASSUME NEW c \in Ids, c # r.id
          PROVE  /\ queue'[c] = queue[c] /\ (queue[c].status = "DONE" => queue[c].result # "none")
      BY <1>0, <2>2, <2>4 DEF TypeInv
    <2>5. /\ queue'[r.id] = Completed(queue[r.id], r.report)
          /\ queue[r.id] \in Row /\ (queue[r.id].status = "DONE" => queue[r.id].result # "none")
      BY <1>0, <1>2, <1>3, <2>2 DEF TypeInv
    <2>6. queue'[r.id].status = "DONE" => queue'[r.id].result # "none"
      BY <1>5, <2>3, <2>5
    <2> QED BY <1>2, <1>5, <2>1, <2>4, <2>5, <2>6 DEF Moved
  <1> QED BY <1>4, <1>6

LEMMA CompleteKeeps == ASSUME IInv, Complete PROVE IInv'
  <1> DEFINE r == Head(server.results)
  <1>0. TypeInv /\ PlaceInv /\ GroundInv /\ server # None /\ server \in Handling
        /\ server.results # <<>> /\ server.stage = "results" /\ server.results \in Seq(Result)
    BY DEF IInv, Complete, TypeInv, Handling
  <1>1. /\ r = server.results[1] /\ r \in Result /\ Tail(server.results) \in Seq(Result)
        /\ 1 \in DOMAIN server.results
    BY <1>0, TailMeans
  <1>4. queue' = [queue EXCEPT ![r.id] = Completed(@, r.report)]
        /\ server' = [server EXCEPT !.results = Tail(@)]
        /\ UNCHANGED <<snapshot, waiting, told, requests, reply, ea, inbox, results, venue,
                       placed, executed>>
    BY DEF Complete
  <1> HIDE DEF r
  <1>6. /\ server' \in Handling /\ server'.stage = "results" /\ server'.current = server.current
        /\ server'.positions = server.positions /\ server'.results = Tail(server.results)
    BY <1>0, <1>1, <1>4 DEF Handling
  <1>7. Moved(queue')
    BY CompleteMoves
  <1>8. Grounded(Tail(server.results), queue, executed)
    BY <1>0, GroundedTail DEF GroundInv
  <1>9. Ids' = Ids
    BY <1>7, MovedMeans DEF Ids
  <1> HIDE DEF Complete
  <1>10. TypeInv'
    BY <1>0, <1>4, <1>6, <1>7, <1>9, MovedMeans DEF TypeInv, TypeOK, Handling, Moved
  <1>11. PlaceInv'
    <2>1. \A c \in placed : queue'[c].cmd.op = "ORDER_SEND"
      BY <1>0, <1>7 DEF PlaceInv, Moved
    <2>2. /\ Untouched(inbox, queue', executed)
          /\ reply # None => Untouched(reply, queue', executed)
          /\ \A c \in Ids : queue'[c].status = "QUEUED" => executed[c] = 0
      BY <1>7, MovedMeans
    <2> QED BY <1>0, <1>4, <1>9, <2>1, <2>2 DEF PlaceInv
  <1>12. GroundInv'
    <2>1. Grounded(server'.results, queue', executed')
      BY <1>4, <1>6, <1>7, <1>8, MovedMeans
    <2>2. ReceiptsAreGrounded'
      BY <1>0, <1>4, <1>9 DEF GroundInv, ReceiptsAreGrounded
    <2> QED BY <1>0, <1>4, <1>7, <1>9, <2>1, <2>2, MovedMeans DEF GroundInv
  <1> QED BY <1>10, <1>11, <1>12 DEF IInv

\* The ids that take_pending selects are queued and each is selected once.
LEMMA PendingMeans ==
  ASSUME TypeInv, NEW ids \in Pending
  PROVE  /\ ids \in Seq(Ids)
         /\ \A k \in DOMAIN ids : ids[k] \in Ids /\ queue[ids[k]].status = "QUEUED"
         /\ \A j, k \in DOMAIN ids : ids[j] = ids[k] => j = k
         /\ DOMAIN ids \subseteq Nat
  <1>1. Len(queue) \in Nat /\ Ids = 1..Len(queue)
    BY TypesMean
  <1>2. IsFiniteSet(Ids)
    BY <1>1, FS_Interval
  <1>3. Queued \subseteq Ids
    BY DEF Queued
  <1>4. Cardinality(Queued) \in Nat
    BY <1>2, <1>3, FS_Subset, FS_CardinalityType
  <1>4a. Batch \in Nat
    BY <1>4, BridgeAssumption DEF Batch, BridgeAssumption
  <1>5. ids \in [1..Batch -> Queued]
        /\ \A j, k \in DOMAIN ids : j < k => ids[j] < ids[k]
    BY DEF Pending
  <1>6. \A k \in DOMAIN ids : k \in Nat /\ ids[k] \in Nat
    <2>1. DOMAIN ids = 1..Batch
      BY <1>5
    <2>2. \A k \in DOMAIN ids : ids[k] \in Ids
      BY <1>3, <1>5
    <2>3. Ids \subseteq Nat /\ 1..Batch \subseteq Nat
      BY <1>1, <1>4a
    <2> QED BY <2>1, <2>2, <2>3
  <1>7. ASSUME NEW j \in DOMAIN ids, NEW k \in DOMAIN ids, ids[j] = ids[k]
        PROVE  j = k
    <2>1. ~(j < k) /\ ~(k < j)
      BY <1>5, <1>6, <1>7
    <2> QED BY <1>6, <2>1
  <1>8. ids \in Seq(Ids)
    BY <1>3, <1>4a, <1>5
  <1> QED BY <1>3, <1>5, <1>6, <1>7, <1>8 DEF Queued

LEMMA PendingPrefix ==
  ASSUME TypeInv, NEW ids \in Pending, NEW n \in DOMAIN ids
  PROVE  \A k \in DOMAIN SubSeq(ids, 1, n) :
           /\ SubSeq(ids, 1, n)[k] \in Ids
           /\ queue[SubSeq(ids, 1, n)[k]].status = "QUEUED"
  <1> DEFINE some == SubSeq(ids, 1, n)
  <1>1. /\ ids \in Seq(Ids) /\ DOMAIN ids = 1..Len(ids) /\ Len(ids) \in Nat
        /\ \A k \in DOMAIN ids : ids[k] \in Ids /\ queue[ids[k]].status = "QUEUED"
    BY PendingMeans, LenProperties
  <1>2. n \in Int /\ 1 <= n /\ n <= Len(ids)
    BY <1>1
  <1>3. \A i \in 1..n : ids[i] \in Ids
    BY <1>1, <1>2
  <1>4. some \in Seq(Ids) /\ Len(some) = n /\ \A i \in 1..n : some[i] = ids[i]
    BY <1>2, <1>3
  <1>5. \A k \in DOMAIN some : k \in DOMAIN ids /\ some[k] = ids[k]
    BY <1>1, <1>2, <1>4, LenProperties
  <1> HIDE DEF some
  <1>6. \A k \in DOMAIN some : some[k] \in Ids /\ queue[some[k]].status = "QUEUED"
    BY <1>1, <1>5
  <1> QED BY <1>6 DEF some

LEMMA TakenMeans ==
  ASSUME TypeInv, NEW ids, \A k \in DOMAIN ids : ids[k] \in Ids
  PROVE  /\ Moved(Taken(ids))
         /\ \A k \in DOMAIN ids : Taken(ids)[ids[k]].status # "QUEUED"
         /\ \A c \in Ids : /\ Taken(ids)[c].cmd = queue[c].cmd
                           /\ Taken(ids)[c].result = queue[c].result
  <1>1. \A c \in Ids : queue[c] \in Row
    BY TypesMean
  <1>2. ASSUME NEW c \in Ids
        PROVE  /\ Taken(ids)[c] \in Row /\ Taken(ids)[c].cmd = queue[c].cmd
               /\ Taken(ids)[c].result = queue[c].result
               /\ Taken(ids)[c].status \in {queue[c].status, "TAKEN"}
               /\ (\E k \in DOMAIN ids : ids[k] = c) => Taken(ids)[c].status = "TAKEN"
    BY <1>1 DEF Taken, Row
  <1>3. Taken(ids) \in [Ids -> Row]
    BY <1>2 DEF Taken
  <1> QED BY <1>2, <1>3 DEF Moved, TypeInv

\* The server is done with a poll, or dies in the middle of it.
LEMMA TakenKeeps ==
  ASSUME IInv, NEW ids, \A k \in DOMAIN ids : ids[k] \in Ids /\ queue[ids[k]].status = "QUEUED",
         server # None, server' = None, queue' = Taken(ids),
         \/ reply' = reply
         \/ /\ reply' = ids /\ ids \in Seq(Ids) /\ server.current
            /\ \A j, k \in DOMAIN ids : ids[j] = ids[k] => j = k,
         UNCHANGED <<snapshot, waiting, told, requests, ea, inbox, results, venue, placed,
                     executed>>
  PROVE  IInv'
  <1>0. TypeInv /\ PlaceInv /\ GroundInv
    BY DEF IInv
  <1>1. /\ Moved(queue')
        /\ \A k \in DOMAIN ids : queue'[ids[k]].status # "QUEUED"
        /\ \A c \in Ids : queue'[c].cmd = queue[c].cmd /\ queue'[c].result = queue[c].result
    BY <1>0, TakenMeans
  <1>2. Ids' = Ids
    BY <1>1, MovedMeans DEF Ids
  <1>3. TypeInv'
    BY <1>0, <1>1, <1>2, MovedMeans DEF TypeInv, TypeOK, Moved
  <1>4. PlaceInv'
    <2>1. /\ Untouched(inbox, queue', executed')
          /\ \A c \in Ids' : executed'[c] <= 1 /\ (queue'[c].status = "QUEUED" => executed'[c] = 0)
          /\ ea' # "executing" => inbox' = <<>>
          /\ \A c \in DOMAIN venue' : c \in Ids' /\ executed'[c] = 1
          /\ \A c \in placed' : /\ c \in Ids' /\ executed'[c] = 1 /\ c \notin DOMAIN venue'
                                 /\ queue'[c].cmd.op = "ORDER_SEND"
      BY <1>0, <1>1, <1>2, MovedMeans DEF PlaceInv
    <2>2. CASE reply' = reply
      BY <1>0, <1>1, <2>1, <2>2, MovedMeans DEF PlaceInv
    <2>3. CASE reply' = ids /\ \A j, k \in DOMAIN ids : ids[j] = ids[k] => j = k
      <3>1. Untouched(ids, queue', executed')
        BY <1>0, <1>1, <2>3 DEF Untouched, PlaceInv
      <3>2. \A j \in DOMAIN ids, k \in DOMAIN inbox : ids[j] # inbox[k]
        BY <1>0 DEF PlaceInv, Untouched
      <3> QED BY <2>1, <2>3, <3>1, <3>2 DEF PlaceInv
    <2> QED BY <2>2, <2>3
  <1>5. GroundInv'
    <2>1. ReceiptsAreGrounded'
      BY <1>0, <1>2 DEF GroundInv, ReceiptsAreGrounded
    <2> QED BY <1>0, <1>1, <1>2, <2>1, MovedMeans DEF GroundInv
  <1> QED BY <1>3, <1>4, <1>5 DEF IInv

LEMMA TakeKeeps == ASSUME IInv, Take PROVE IInv'
  <1>1. PICK ids \in Pending : /\ queue' = Taken(ids)
                               /\ reply' = IF server.current THEN ids ELSE reply
    BY DEF Take
  <1>2. TypeInv
    BY DEF IInv
  <1> QED BY <1>1, <1>2, PendingMeans, TakenKeeps DEF Take

LEMMA ServerRestartsKeeps == ASSUME IInv, ServerRestarts PROVE IInv'
  <1>1. TypeInv
    BY DEF IInv
  <1>2. CASE UNCHANGED queue
    <2>1. TypeInv' /\ PlaceInv' /\ GroundInv'
      BY <1>2 DEF ServerRestarts, IInv, TypeInv, TypeOK, PlaceInv, GroundInv, Ids,
                  ReceiptsAreGrounded
    <2> QED BY <2>1 DEF IInv
  <1>3. ASSUME NEW ids \in Pending, NEW n \in DOMAIN ids, queue' = Taken(SubSeq(ids, 1, n))
        PROVE  IInv'
    BY <1>1, <1>3, PendingPrefix, TakenKeeps DEF ServerRestarts
  <1> QED BY <1>2, <1>3 DEF ServerRestarts

-----------------------------------------------------------------------------
(* The advisor. *)

LEMMA PollKeeps == ASSUME IInv, Poll PROVE IInv'
  <1> DEFINE new == [positions |-> venue, results |-> results, current |-> TRUE, seen |-> FALSE]
  <1>0. TypeInv /\ PlaceInv /\ GroundInv /\ ea = "timer"
    BY DEF IInv, Poll
  <1>1. new \in Request /\ new.positions = venue /\ new.results = results /\ new.current
        /\ ~new.seen
    BY <1>0 DEF TypeInv, TypeOK, Request
  <1>2. requests' = requests \cup {new} /\ ea' = "polling"
        /\ UNCHANGED <<queue, snapshot, waiting, told, server, reply, inbox, results, venue,
                       placed, executed>>
    BY DEF Poll
  <1> HIDE DEF new
  <1>3. TypeInv'
    BY <1>0, <1>1, <1>2 DEF TypeInv, TypeOK, Ids
  <1>4. PlaceInv'
    BY <1>0, <1>2 DEF PlaceInv, Ids
  <1>5. GroundInv'
    BY <1>0, <1>1, <1>2 DEF GroundInv, Ids, ReceiptsAreGrounded
  <1> QED BY <1>3, <1>4, <1>5 DEF IInv

LEMMA GetReplyKeeps == ASSUME IInv, GetReply PROVE IInv'
  <1>0. TypeInv /\ PlaceInv /\ GroundInv /\ reply # None
    BY DEF IInv, GetReply
  <1>1. /\ inbox' = reply /\ reply' = None /\ results' = <<>> /\ ea' = "executing"
        /\ requests' = {r \in requests : ~r.current}
        /\ UNCHANGED <<queue, snapshot, waiting, told, server, venue, placed, executed>>
    BY DEF GetReply
  <1>2. TypeInv'
    BY <1>0, <1>1 DEF TypeInv, TypeOK, Ids
  <1>3. PlaceInv'
    BY <1>0, <1>1 DEF PlaceInv, Ids
  <1>4. GroundInv'
    <2>1. Grounded(results', queue', executed')
      BY <1>1, GroundedEmpty
    <2> QED BY <1>0, <1>1, <2>1 DEF GroundInv, Ids, ReceiptsAreGrounded
  <1> QED BY <1>2, <1>3, <1>4 DEF IInv

\* The advisor gives up on its poll, with or without what it held in memory.
LEMMA AbandonKeeps ==
  ASSUME IInv, Abandon, ea' = "timer", inbox' = <<>>,
         results' = results \/ results' = <<>>,
         UNCHANGED <<queue, snapshot, waiting, told, venue, placed, executed>>
  PROVE  IInv'
  <1>0. TypeInv /\ PlaceInv /\ GroundInv
    BY DEF IInv
  <1>1. \A r \in requests : r \in Request
    BY <1>0 DEF TypeInv, TypeOK
  <1>2. \A r \in Request : LET s == [r EXCEPT !.current = FALSE]
                           IN  s \in Request /\ s.results = r.results /\ ~s.current
    BY DEF Request
  <1>3. \A q \in requests' : /\ q \in Request /\ ~q.current
                             /\ \E r \in requests : q.results = r.results
    BY <1>1, <1>2 DEF Abandon
  <1>4. /\ server = None => server' = None
        /\ server # None => /\ server' \in Handling /\ server'.results = server.results
                            /\ server'.positions = server.positions /\ ~server'.current
                            /\ server'.stage = server.stage
    BY <1>0 DEF Abandon, TypeInv, Handling
  <1>5. reply' = None
    BY DEF Abandon
  <1>6. TypeInv'
    <2>1. TypeOK'
      <3>1. requests' \subseteq Request
        BY <1>3
      <3>2. inbox' \in Seq(Ids') /\ results' \in Seq(Result)
        BY <1>0, EmptySeq DEF TypeInv, TypeOK
      <3>3. server' # None => server'.stage \in {"state", "results"} /\ server'.results \in Seq(Result)
        BY <1>4 DEF Handling
      <3> QED BY <1>0, <1>5, <3>1, <3>2, <3>3 DEF TypeInv, TypeOK, Ids
    <2> QED BY <1>0, <1>4, <2>1 DEF TypeInv, Ids
  <1>7. PlaceInv'
    BY <1>0, <1>5, GroundedEmpty DEF PlaceInv, Ids
  <1>8. GroundInv'
    <2>1. Grounded(results', queue, executed)
      BY <1>0, GroundedEmpty DEF GroundInv
    <2>2. \A q \in requests' : Grounded(q.results, queue, executed)
      BY <1>0, <1>3 DEF GroundInv
    <2>3. server' # None => Grounded(server'.results, queue, executed)
      BY <1>0, <1>4 DEF GroundInv
    <2> QED BY <1>0, <2>1, <2>2, <2>3 DEF GroundInv, Ids, ReceiptsAreGrounded
  <1> QED BY <1>6, <1>7, <1>8 DEF IInv

LEMMA PollFailsKeeps == ASSUME IInv, PollFails PROVE IInv'
  <1>1. inbox = <<>>
    BY DEF IInv, PlaceInv, PollFails
  <1> QED BY <1>1, AbandonKeeps DEF PollFails

LEMMA TerminalRestartsKeeps == ASSUME IInv, TerminalRestarts PROVE IInv'
  BY AbandonKeeps DEF TerminalRestarts

LEMMA AllExecutedKeeps == ASSUME IInv, AllExecuted PROVE IInv'
  <1>1. TypeInv'
    BY DEF IInv, AllExecuted, TypeInv, TypeOK, Ids
  <1>2. PlaceInv' /\ GroundInv'
    BY DEF IInv, AllExecuted, PlaceInv, GroundInv, Ids, ReceiptsAreGrounded
  <1> QED BY <1>1, <1>2 DEF IInv

\* Positions leave the venue.
LEMMA VenueClosesKeeps == ASSUME IInv, NEW p \in DOMAIN venue, VenueCloses(p) PROVE IInv'
  <1>0. TypeInv /\ PlaceInv /\ GroundInv
    BY DEF IInv
  <1>1. venue' \in Positions /\ DOMAIN venue' \subseteq DOMAIN venue
    <2>1. venue \in [DOMAIN venue -> Stops] /\ DOMAIN venue \subseteq 1..MaxCommands
      BY <1>0, PositionsMean DEF TypeInv, TypeOK
    <2>2. venue' \in [DOMAIN venue \ {p} -> Stops]
      BY <2>1 DEF VenueCloses, Without
    <2>3. DOMAIN venue \ {p} \in SUBSET (1..MaxCommands)
      BY <2>1
    <2>4. venue' \in Positions
      BY <2>2, <2>3 DEF Positions
    <2> QED BY <2>2, <2>4
  <1>2. UNCHANGED <<queue, snapshot, waiting, told, requests, server, reply, ea, inbox, results,
                    placed, executed>>
    BY DEF VenueCloses
  <1>3. TypeInv'
    BY <1>0, <1>1, <1>2 DEF TypeInv, TypeOK, Ids
  <1>4. PlaceInv' /\ GroundInv'
    BY <1>0, <1>1, <1>2 DEF PlaceInv, GroundInv, Ids, ReceiptsAreGrounded
  <1> QED BY <1>3, <1>4 DEF IInv

\* A stop is set on a position that is there or is opened now.
LEMMA WithMeans ==
  ASSUME TypeInv, NEW p \in 1..MaxCommands, NEW stop \in Stops
  PROVE  With(p, stop) \in Positions /\ DOMAIN With(p, stop) = DOMAIN venue \cup {p}
  <1>1. venue \in [DOMAIN venue -> Stops] /\ DOMAIN venue \subseteq 1..MaxCommands
    BY PositionsMean DEF TypeInv, TypeOK
  <1>2. With(p, stop) \in [DOMAIN venue \cup {p} -> Stops]
    BY <1>1 DEF With
  <1>3. DOMAIN venue \cup {p} \in SUBSET (1..MaxCommands)
    BY <1>1
  <1>4. With(p, stop) \in Positions
    BY <1>2, <1>3 DEF Positions
  <1> QED BY <1>2, <1>4

\* An order the venue had taken opens its position, or ends without one.
LEMMA PlacedKeeps ==
  ASSUME IInv, NEW c \in placed, PlacedFills(c) \/ PlacedDies(c)
  PROVE  IInv'
  <1>0. TypeInv /\ PlaceInv /\ GroundInv /\ c \in Ids /\ executed[c] = 1 /\ c \notin DOMAIN venue
    BY DEF IInv, PlaceInv
  <1>1. c \in 1..MaxCommands /\ queue[c].cmd.stop \in Stops /\ 0 \in Stops
    BY <1>0, TypesMean, BridgeAssumption DEF Command, BridgeAssumption, Stops
  <1>2. /\ placed' = placed \ {c}
        /\ UNCHANGED <<queue, snapshot, waiting, told, requests, server, reply, ea, inbox, results,
                       executed>>
    BY DEF PlacedFills, PlacedDies
  <1>3. venue' \in Positions /\ DOMAIN venue' \subseteq DOMAIN venue \cup {c}
    <2>1. CASE PlacedFills(c)
      <3>1. venue' = With(c, queue[c].cmd.stop) \/ venue' = With(c, 0)
        BY <2>1 DEF PlacedFills
      <3> QED BY <1>0, <1>1, <3>1, WithMeans
    <2>2. CASE PlacedDies(c)
      BY <1>0, <2>2 DEF PlacedDies, TypeInv, TypeOK
    <2> QED BY <2>1, <2>2
  <1>4. TypeInv'
    BY <1>0, <1>2, <1>3 DEF TypeInv, TypeOK, Ids
  <1>5. PlaceInv'
    BY <1>0, <1>2, <1>3 DEF PlaceInv, Ids
  <1>6. GroundInv'
    BY <1>0, <1>2 DEF GroundInv, Ids, ReceiptsAreGrounded
  <1> QED BY <1>4, <1>5, <1>6 DEF IInv

\* A command line is executed: it is done or not, positions close or move, and
\* only an order that is done opens one, under its own number.
LEMMA ExecKeeps ==
  ASSUME IInv, NEW c \in Ids, NEW op, Executing(c, op),
         NEW reports \in Seq(Report), Reports(c, reports),
         NEW done \in BOOLEAN,
         executed' = IF done THEN [executed EXCEPT ![c] = @ + 1] ELSE executed,
         \A k \in DOMAIN reports : Asserts(op, reports[k]) => done,
         venue' \in Positions,
         \A p \in DOMAIN venue' : p \in DOMAIN venue \/ (p = c /\ done /\ op = "ORDER_SEND"),
         \/ placed' = placed
         \/ placed' = placed \cup {c} /\ done /\ op = "ORDER_SEND" /\ venue' = venue,
         UNCHANGED <<queue, snapshot, waiting, told, requests, server, reply, ea>>
  PROVE  IInv'
  <1>0. TypeInv /\ PlaceInv /\ GroundInv /\ inbox \in Seq(Ids) /\ inbox # <<>>
        /\ ea = "executing" /\ results \in Seq(Result) /\ c = Head(inbox)
        /\ inbox' = Tail(inbox) /\ queue[c].cmd.op = op
    BY DEF IInv, TypeInv, TypeOK, Executing
  <1>1. /\ inbox' \in Seq(Ids) /\ 1 \in DOMAIN inbox /\ c = inbox[1]
        /\ \A k \in DOMAIN inbox' : /\ k + 1 \in DOMAIN inbox /\ inbox'[k] = inbox[k + 1]
                                    /\ k \in Nat
    BY <1>0, TailMeans
  <1>2. executed[c] = 0 /\ executed \in [Ids -> Nat] /\ queue[c].status # "QUEUED"
    BY <1>0, <1>1, TypesMean DEF PlaceInv, Untouched
  <1>3. /\ executed' \in [Ids -> Nat]
        /\ executed'[c] = IF done THEN 1 ELSE 0
        /\ \A d \in Ids : d # c => executed'[d] = executed[d]
    BY <1>2
  <1>4. \A k \in DOMAIN inbox' : inbox'[k] # c /\ inbox'[k] \in Ids
    <2>1. \A k \in DOMAIN inbox' : k + 1 # 1
      BY <1>1
    <2>2. \A j, k \in DOMAIN inbox : inbox[j] = inbox[k] => j = k
      BY <1>0 DEF PlaceInv, Untouched
    <2>3. \A k \in DOMAIN inbox : inbox[k] \in Ids
      BY <1>0, ElementOfSeq, LenProperties
    <2> QED BY <1>1, <2>1, <2>2, <2>3
  <1>5. Untouched(inbox', queue, executed')
    <2>1. \A j, k \in DOMAIN inbox' : inbox'[j] = inbox'[k] => j = k
      <3> SUFFICES ASSUME NEW j \in DOMAIN inbox', NEW k \in DOMAIN inbox', inbox'[j] = inbox'[k]
                   PROVE  j = k
        OBVIOUS
      <3>1. j + 1 = k + 1
        BY <1>0, <1>1 DEF PlaceInv, Untouched
      <3> QED BY <1>1, <3>1
    <2>2. \A k \in DOMAIN inbox' : queue[inbox'[k]].status # "QUEUED" /\ executed[inbox'[k]] = 0
      BY <1>0, <1>1 DEF PlaceInv, Untouched
    <2> QED BY <1>3, <1>4, <2>1, <2>2 DEF Untouched
  <1>6. reply # None => /\ Untouched(reply, queue, executed')
                        /\ \A j \in DOMAIN reply, k \in DOMAIN inbox' : reply[j] # inbox'[k]
    <2> SUFFICES ASSUME reply # None
                 PROVE  /\ Untouched(reply, queue, executed')
                        /\ \A j \in DOMAIN reply, k \in DOMAIN inbox' : reply[j] # inbox'[k]
      OBVIOUS
    <2>1. /\ Untouched(reply, queue, executed)
          /\ \A j \in DOMAIN reply, k \in DOMAIN inbox : reply[j] # inbox[k]
      BY <1>0 DEF PlaceInv
    <2>2. \A j \in DOMAIN reply : reply[j] \in Ids
      BY <1>0, ElementOfSeq, LenProperties DEF TypeInv, TypeOK
    <2>3. \A j \in DOMAIN reply : reply[j] # c
      BY <1>1, <2>1
    <2>4. Untouched(reply, queue, executed')
      BY <1>3, <2>1, <2>2, <2>3, UntouchedLater
    <2> QED BY <1>1, <2>1, <2>4
  <1>7. \A p \in DOMAIN venue' : p \in Ids /\ executed'[p] = 1
    <2>1. \A p \in DOMAIN venue : p \in Ids /\ executed[p] = 1
      BY <1>0 DEF PlaceInv
    <2> QED BY <1>2, <1>3, <2>1
  <1>8. PlaceInv'
    <2>1. \A d \in Ids : executed'[d] <= 1 /\ (queue[d].status = "QUEUED" => executed'[d] = 0)
      BY <1>0, <1>2, <1>3 DEF PlaceInv
    <2>2. ea' = "executing" /\ Ids' = Ids
      BY <1>0 DEF Ids
    <2>3. c \notin placed /\ c \notin DOMAIN venue
      BY <1>0, <1>2 DEF PlaceInv
    <2>4. \A d \in placed' : /\ d \in Ids /\ executed'[d] = 1 /\ d \notin DOMAIN venue'
                             /\ queue[d].cmd.op = "ORDER_SEND"
      BY <1>0, <1>3, <2>3 DEF PlaceInv
    <2> QED BY <1>5, <1>6, <1>7, <2>1, <2>2, <2>4 DEF PlaceInv
  <1>9. Later(queue, executed, queue', executed')
    BY <1>0, <1>2, <1>3, TypesMean DEF Later
  <1> DEFINE made == [k \in DOMAIN reports |-> [id |-> c, report |-> reports[k]]]
  <1>10. /\ made \in Seq(Result) /\ Grounded(made, queue', executed')
    <2>1. DOMAIN reports = 1..Len(reports) /\ Len(reports) \in Nat
          /\ \A k \in DOMAIN reports : reports[k] \in Report
      BY LenProperties, ElementOfSeq
    <2>2. c \in 1..MaxCommands /\ c \in 1..Len(queue')
      BY <1>0, TypesMean
    <2>3. \A k \in DOMAIN reports : made[k] \in Result /\ made[k].id = c
                                    /\ made[k].report = reports[k]
      BY <2>1, <2>2 DEF Result
    <2>4. made \in Seq(Result)
      BY <2>1, <2>3
    <2> HIDE DEF made
    <2>5. DOMAIN made = DOMAIN reports
      BY DEF made
    <2> QED BY <1>0, <1>3, <2>2, <2>3, <2>4, <2>5 DEF Grounded
  <1>11. results' \in Seq(Result) /\ Grounded(results', queue', executed')
    <2>1. results' = results \o made
      BY DEF Reports
    <2> HIDE DEF made
    <2>2. Grounded(results, queue', executed')
      BY <1>0, <1>9, GroundedLater DEF GroundInv
    <2>3. results' \in Seq(Result) /\ Len(results') = Len(results) + Len(made)
          /\ \A i \in 1..Len(results') : results'[i] = IF i <= Len(results) THEN results[i]
                                                      ELSE made[i - Len(results)]
      BY <1>0, <1>10, <2>1, ConcatProperties
    <2>4. /\ DOMAIN results' = 1..Len(results') /\ DOMAIN results = 1..Len(results)
          /\ DOMAIN made = 1..Len(made) /\ Len(made) \in Nat /\ Len(results) \in Nat
      BY <1>0, <1>10, <2>3, LenProperties
    <2>5. \A i \in DOMAIN results' : \/ i \in DOMAIN results /\ results'[i] = results[i]
                                     \/ \E k \in DOMAIN made : results'[i] = made[k]
      <3>1. ASSUME NEW n \in Nat, NEW m \in Nat, NEW i \in 1..(n + m), ~(i <= n)
            PROVE  i - n \in 1..m
        BY <3>1
      <3>2. ASSUME NEW i \in 1..Len(results'), ~(i <= Len(results))
            PROVE  i - Len(results) \in DOMAIN made /\ results'[i] = made[i - Len(results)]
        <4>1. i \in 1..(Len(results) + Len(made))
          BY <2>3
        <4>2. i - Len(results) \in 1..Len(made)
          BY <2>4, <3>1, <3>2, <4>1
        <4> QED BY <2>3, <2>4, <3>2, <4>2
      <3>3. ASSUME NEW i \in 1..Len(results'), i <= Len(results)
            PROVE  i \in DOMAIN results /\ results'[i] = results[i]
        BY <2>3, <2>4, <3>3
      <3> QED BY <2>4, <3>2, <3>3
    <2>6. Grounded(results', queue', executed')
      BY <1>10, <2>2, <2>5, GroundedJoin
    <2> QED BY <2>3, <2>6
  <1> HIDE DEF made
  <1>12. TypeInv'
    <2>1. placed' \subseteq Ids
      BY <1>0 DEF TypeInv, TypeOK
    <2> QED BY <1>0, <1>1, <1>3, <1>11, <2>1 DEF TypeInv, TypeOK, Ids
  <1>13. GroundInv'
    <2>1. \A rs : Grounded(rs, queue, executed) => Grounded(rs, queue', executed')
      BY <1>9, GroundedLater
    <2>2. \A d \in Ids : executed[d] = 1 => executed'[d] = 1
      BY <1>2, <1>3
    <2>3. Ids' = Ids
      BY DEF Ids
    <2>4. \A d \in Ids' : Asserts(queue'[d].cmd.op, queue'[d].result) => executed'[d] = 1
      BY <1>0, <2>2, <2>3 DEF GroundInv
    <2>5. ReceiptsAreGrounded'
      BY <1>0, <2>2, <2>3 DEF GroundInv, ReceiptsAreGrounded
    <2>6. \A r \in requests' : Grounded(r.results, queue', executed')
      BY <1>0, <2>1 DEF GroundInv
    <2>7. server' # None => Grounded(server'.results, queue', executed')
      BY <1>0, <2>1 DEF GroundInv
    <2> QED BY <1>11, <2>4, <2>5, <2>6, <2>7 DEF GroundInv
  <1> QED BY <1>8, <1>12, <1>13 DEF IInv

LEMMA OneReport ==
  ASSUME NEW x \in Report
  PROVE  <<x>> \in Seq(Report) /\ \A k \in DOMAIN <<x>> : <<x>>[k] = x
  OBVIOUS

LEMMA TwoReports ==
  ASSUME NEW x \in Report, NEW y \in Report
  PROVE  <<x, y>> \in Seq(Report) /\ \A k \in DOMAIN <<x, y>> : <<x, y>>[k] \in {x, y}
  OBVIOUS

LEMMA WithoutMeans ==
  ASSUME TypeInv, NEW p
  PROVE  Without(p) \in Positions /\ DOMAIN Without(p) = DOMAIN venue \ {p}
  <1>1. venue \in [DOMAIN venue -> Stops] /\ DOMAIN venue \subseteq 1..MaxCommands
    BY PositionsMean DEF TypeInv, TypeOK
  <1>2. Without(p) \in [DOMAIN venue \ {p} -> Stops]
    BY <1>1 DEF Without
  <1>3. DOMAIN venue \ {p} \in SUBSET (1..MaxCommands)
    BY <1>1
  <1>4. Without(p) \in Positions
    BY <1>2, <1>3 DEF Positions
  <1> QED BY <1>2, <1>4

LEMMA ExecOrderSendKeeps == ASSUME IInv, NEW c \in Ids, ExecOrderSend(c) PROVE IInv'
  <1>0. TypeInv /\ Executing(c, "ORDER_SEND")
        /\ UNCHANGED <<queue, snapshot, waiting, told, requests, server, reply, ea>>
    BY DEF IInv, ExecOrderSend
  <1>1. /\ c \in 1..MaxCommands /\ queue[c].cmd.stop \in Stops /\ 0 \in Stops
        /\ venue \in Positions
    BY <1>0, TypesMean, BridgeAssumption DEF Command, BridgeAssumption, Stops, TypeInv, TypeOK
  <1>2. ASSUME Reports(c, <<"REJECTED">>), UNCHANGED <<venue, placed, executed>>
        PROVE  IInv'
    <2>1. "REJECTED" \in Report /\ ~Asserts("ORDER_SEND", "REJECTED")
      BY DEF Report, Asserts, Receipt, Fills
    <2>2. <<"REJECTED">> \in Seq(Report)
          /\ \A k \in DOMAIN <<"REJECTED">> : ~Asserts("ORDER_SEND", <<"REJECTED">>[k])
      BY <2>1, OneReport
    <2> QED BY <1>0, <1>1, <1>2, <2>2, ExecKeeps
  <1>3. ASSUME venue' = With(c, queue[c].cmd.stop),
               NEW fill \in {"FILLED", "PARTIAL"}, Reports(c, <<fill>>),
               executed' = [executed EXCEPT ![c] = @ + 1], UNCHANGED placed
        PROVE  IInv'
    <2>1. <<fill>> \in Seq(Report)
      BY OneReport DEF Report
    <2>2. venue' \in Positions /\ DOMAIN venue' = DOMAIN venue \cup {c}
      BY <1>0, <1>1, <1>3, WithMeans
    <2> QED BY <1>0, <1>3, <2>1, <2>2, ExecKeeps
  <1>4. ASSUME venue' \in {venue, With(c, 0)},
               NEW fill \in {"FILLED_UNCONFIRMED", "PARTIAL"}, Reports(c, <<fill, "REJECTED">>),
               executed' = [executed EXCEPT ![c] = @ + 1], UNCHANGED placed
        PROVE  IInv'
    <2>1. <<fill, "REJECTED">> \in Seq(Report)
      BY TwoReports DEF Report
    <2>2. venue' \in Positions /\ DOMAIN venue' \subseteq DOMAIN venue \cup {c}
      BY <1>0, <1>1, <1>4, WithMeans
    <2> QED BY <1>0, <1>4, <2>1, <2>2, ExecKeeps
  <1>5. ASSUME placed' = placed \cup {c}, Reports(c, <<"ACCEPTED">>),
               executed' = [executed EXCEPT ![c] = @ + 1], UNCHANGED venue
        PROVE  IInv'
    <2>1. <<"ACCEPTED">> \in Seq(Report)
      BY OneReport DEF Report
    <2> QED BY <1>0, <1>1, <1>5, <2>1, ExecKeeps
  <1> QED BY <1>2, <1>3, <1>4, <1>5 DEF ExecOrderSend

LEMMA ExecModifySlKeeps == ASSUME IInv, NEW c \in Ids, ExecModifySl(c) PROVE IInv'
  <1> DEFINE p == queue[c].cmd.position
             stop == queue[c].cmd.stop
  <1>0. TypeInv /\ Executing(c, "MODIFY_SL")
        /\ UNCHANGED <<queue, snapshot, waiting, told, requests, server, reply, ea, placed>>
    BY DEF IInv, ExecModifySl
  <1>1. /\ stop \in Stops /\ venue \in Positions /\ DOMAIN venue \subseteq 1..MaxCommands
    BY <1>0, TypesMean, PositionsMean DEF Command, TypeInv, TypeOK
  <1>2. CASE /\ p \in DOMAIN venue /\ venue' = With(p, stop) /\ Reports(c, <<"OK">>)
             /\ executed' = [executed EXCEPT ![c] = @ + 1]
    <2>1. <<"OK">> \in Seq(Report)
      BY OneReport DEF Report
    <2>2. venue' \in Positions /\ DOMAIN venue' = DOMAIN venue
      <3>1. p \in 1..MaxCommands /\ stop \in Stops /\ p \in DOMAIN venue /\ venue' = With(p, stop)
        BY <1>1, <1>2
      <3> HIDE DEF p, stop
      <3>2. With(p, stop) \in Positions /\ DOMAIN With(p, stop) = DOMAIN venue \cup {p}
        BY <1>0, <3>1, WithMeans
      <3> QED BY <3>1, <3>2
    <2> QED BY <1>0, <1>2, <2>1, <2>2, ExecKeeps
  <1>3. CASE venue' = venue /\ Reports(c, <<"NOT_OK">>) /\ UNCHANGED executed
    <2>1. "NOT_OK" \in Report /\ ~Asserts("MODIFY_SL", "NOT_OK")
      BY DEF Report, Asserts, Receipt, Fills
    <2>2. <<"NOT_OK">> \in Seq(Report)
          /\ \A k \in DOMAIN <<"NOT_OK">> : ~Asserts("MODIFY_SL", <<"NOT_OK">>[k])
      BY <2>1, OneReport
    <2> QED BY <1>0, <1>1, <1>3, <2>2, ExecKeeps
  <1> QED BY <1>2, <1>3 DEF ExecModifySl

LEMMA ExecCloseKeeps == ASSUME IInv, NEW c \in Ids, ExecClose(c) PROVE IInv'
  <1> DEFINE p == queue[c].cmd.position
  <1>0. TypeInv /\ Executing(c, "CLOSE") /\ venue \in Positions
        /\ UNCHANGED <<queue, snapshot, waiting, told, requests, server, reply, ea, placed>>
    BY DEF IInv, ExecClose, TypeInv, TypeOK
  <1>1. CASE venue' = venue /\ UNCHANGED executed
             /\ \E report \in {"UNKNOWN", "REJECTED"} : Reports(c, <<report>>)
    <2>1. PICK report \in {"UNKNOWN", "REJECTED"} : Reports(c, <<report>>)
      BY <1>1
    <2>2. report \in Report /\ ~Asserts("CLOSE", report)
      BY DEF Report, Asserts, Receipt, Fills
    <2>3. <<report>> \in Seq(Report) /\ \A k \in DOMAIN <<report>> : <<report>>[k] = report
      BY <2>2, OneReport
    <2> QED BY <1>0, <1>1, <2>1, <2>2, <2>3, ExecKeeps
  <1>2. CASE /\ venue' \in {venue, Without(p)} /\ Reports(c, <<"FILLED">>)
             /\ executed' = [executed EXCEPT ![c] = @ + 1]
    <2>1. <<"FILLED">> \in Seq(Report)
      BY OneReport DEF Report
    <2>2. venue' \in Positions /\ DOMAIN venue' \subseteq DOMAIN venue
      BY <1>0, <1>2, WithoutMeans
    <2> QED BY <1>0, <1>2, <2>1, <2>2, ExecKeeps
  <1> QED BY <1>1, <1>2 DEF ExecClose

-----------------------------------------------------------------------------
(* The theorems. *)

LEMMA NextKeeps == ASSUME IInv, [Next]_vars PROVE IInv'
  <1>1. ASSUME UNCHANGED vars PROVE IInv'
    <2>1. TypeInv' /\ PlaceInv' /\ GroundInv'
      BY <1>1 DEF vars, IInv, TypeInv, TypeOK, PlaceInv, GroundInv, Ids,
                  ReceiptsAreGrounded
    <2> QED BY <2>1 DEF IInv
  <1>2. ASSUME Session PROVE IInv'
    BY <1>2, SubmitKeeps, ModifyStopKeeps, CloseKeeps, ReadResultKeeps, GiveUpKeeps,
       SessionRestartsKeeps DEF Session
  <1>3. ASSUME Server PROVE IInv'
    BY <1>3, ReceiveKeeps, RefuseKeeps, SetStateKeeps, CompleteKeeps, TakeKeeps,
       ServerRestartsKeeps DEF Server
  <1>4. ASSUME Advisor PROVE IInv'
    BY <1>4, PollKeeps, GetReplyKeeps, PollFailsKeeps, AllExecutedKeeps, TerminalRestartsKeeps,
       ExecOrderSendKeeps, ExecModifySlKeeps, ExecCloseKeeps DEF Advisor
  <1> QED BY <1>1, <1>2, <1>3, <1>4, DropKeeps, VenueClosesKeeps, PlacedKeeps
          DEF Next

\* The inductive invariant of the bridge.
THEOREM BridgeInvariant == Spec => []IInv
  <1> QED BY InitHolds, NextKeeps, PTL DEF Spec

\* Every variable of the bridge has its type.
THEOREM BridgeTypes == Spec => []TypeOK
  <1>1. IInv => TypeOK
    BY DEF IInv, TypeInv
  <1> QED BY <1>1, BridgeInvariant, PTL

\* No command is carried out twice at the venue, whatever is lost, repeated or
\* restarted and however late a poll arrives (take_pending, OnTimer).
THEOREM AtMostOnce == Spec => []ExecutedAtMostOnce
  <1>1. IInv => ExecutedAtMostOnce
    BY DEF IInv, PlaceInv, ExecutedAtMostOnce
  <1> QED BY <1>1, BridgeInvariant, PTL

\* What a receipt asserts happened at the venue did happen, once (Mt5PullAdapter).
THEOREM ReceiptsHold == Spec => []ReceiptsAreGrounded
  <1>1. IInv => ReceiptsAreGrounded
    BY DEF IInv, GroundInv
  <1> QED BY <1>1, BridgeInvariant, PTL

\* A recorded result is never replaced (BridgeQueue.complete).
THEOREM RecordedIsFinal == Spec => ResultsAreFinal
  <1> DEFINE Final == \A c \in Ids : queue[c].status = "DONE" => queue'[c] = queue[c]
  <1>1. ASSUME IInv, [Next]_vars PROVE Final
    <2>0. TypeInv
      BY <1>1 DEF IInv
    <2>1. ASSUME NEW cmd \in Command, Enqueue(cmd) PROVE Final
      BY <2>0, <2>1, EnqueueGrows
    <2>2. ASSUME Complete PROVE Final
      <3>1. queue' = [queue EXCEPT ![Head(server.results).id]
                        = Completed(@, Head(server.results).report)]
        BY <2>2 DEF Complete
      <3>2. queue \in [Ids -> Row]
        BY <2>0, TypesMean
      <3> QED BY <3>1, <3>2 DEF Completed
    <2>3. ASSUME NEW ids, \A k \in DOMAIN ids : queue[ids[k]].status = "QUEUED",
                 queue' = Taken(ids)
          PROVE  Final
      BY <2>3 DEF Taken
    <2>4. ASSUME Take PROVE Final
      <3>1. PICK ids \in Pending : queue' = Taken(ids)
        BY <2>4 DEF Take
      <3> QED BY <2>0, <2>3, <3>1, PendingMeans
    <2>5. ASSUME ServerRestarts PROVE Final
      <3>1. CASE UNCHANGED queue
        BY <3>1
      <3>2. ASSUME NEW ids \in Pending, NEW n \in DOMAIN ids, queue' = Taken(SubSeq(ids, 1, n))
            PROVE  Final
        <4>1. \A k \in DOMAIN SubSeq(ids, 1, n) : queue[SubSeq(ids, 1, n)[k]].status = "QUEUED"
          BY <2>0, <3>2, PendingPrefix
        <4> QED BY <2>3, <3>2, <4>1
      <3> QED BY <2>5, <3>1, <3>2 DEF ServerRestarts
    <2>6. ASSUME Session PROVE Final
      <3>1. \/ UNCHANGED queue
            \/ \E cmd \in Command : Enqueue(cmd)
        BY <2>0, <2>6, CommandsAreTyped DEF Session, ReadResult, GiveUp, SessionRestarts
      <3> QED BY <2>1, <3>1
    <2>7. ASSUME UNCHANGED queue PROVE Final
      BY <2>7
    <2> QED BY <1>1, <2>2, <2>4, <2>5, <2>6, <2>7
            DEF Next, Server, Advisor, Receive, Refuse, SetState, Drop, VenueCloses, PlacedFills,
                PlacedDies, Poll, GetReply, PollFails, AllExecuted, TerminalRestarts,
                ExecOrderSend, ExecModifySl, ExecClose, vars
  <1> QED BY <1>1, BridgeInvariant, PTL DEF Spec, ResultsAreFinal

\* No step loosens the stop of a position that stays open.
Tight == \A p \in DOMAIN venue \cap DOMAIN venue' : venue'[p] >= venue[p]

LEMMA StepTightens ==
  ASSUME IInv, [Next]_vars
  PROVE  Tight
  <1> USE DEF Tight
  <1>0. TypeInv /\ PlaceInv /\ venue \in Positions
    BY DEF IInv, TypeInv, TypeOK
  <1>1. \A p \in DOMAIN venue : venue[p] \in Nat
    BY <1>0, PositionsMean, BridgeAssumption DEF Stops, BridgeAssumption
  <1>2. ASSUME UNCHANGED venue PROVE Tight
    BY <1>1, <1>2
  <1>3. ASSUME NEW p, venue' = Without(p) PROVE Tight
    BY <1>1, <1>3 DEF Without
  <1>8. ASSUME NEW c, c \notin DOMAIN venue, NEW stop, venue' = With(c, stop) PROVE Tight
    <2>1. \A p \in DOMAIN venue : venue'[p] = venue[p]
      BY <1>8 DEF With
    <2> QED BY <1>1, <2>1
  <1>9. ASSUME NEW c \in placed, PlacedFills(c) \/ PlacedDies(c) PROVE Tight
    <2>1. c \notin DOMAIN venue
      BY <1>0 DEF PlaceInv
    <2> QED BY <1>2, <1>8, <1>9, <2>1 DEF PlacedFills, PlacedDies
  <1>4. ASSUME NEW c \in Ids, ExecOrderSend(c) PROVE Tight
    <2>1. c \notin DOMAIN venue
      <3>1. inbox \in Seq(Ids) /\ inbox # <<>> /\ c = Head(inbox)
        BY <1>0, <1>4 DEF ExecOrderSend, Executing, TypeInv, TypeOK
      <3>2. 1 \in DOMAIN inbox /\ c = inbox[1]
        BY <3>1, TailMeans
      <3>3. executed[c] = 0
        BY <1>0, <3>2 DEF PlaceInv, Untouched
      <3> QED BY <1>0, <3>3 DEF PlaceInv
    <2>2. \/ venue' = venue
          \/ \E stop : venue' = With(c, stop)
      BY <1>4 DEF ExecOrderSend
    <2> QED BY <1>2, <1>8, <2>1, <2>2
  <1>5. ASSUME NEW c \in Ids, ExecModifySl(c) PROVE Tight
    <2> DEFINE p == queue[c].cmd.position
               stop == queue[c].cmd.stop
    <2>1. stop \in Nat
      BY <1>0, TypesMean, BridgeAssumption DEF Command, Stops, BridgeAssumption
    <2>2. CASE p \in DOMAIN venue /\ ~Widens(p, stop) /\ venue' = With(p, stop)
      <3>1. stop >= venue[p]
        BY <1>1, <2>1, <2>2 DEF Widens
      <3> HIDE DEF p, stop
      <3>2. \A q \in DOMAIN venue : venue'[q] = IF q = p THEN stop ELSE venue[q]
        BY <2>2 DEF With
      <3> QED BY <1>1, <3>1, <3>2
    <2> QED BY <1>2, <1>5, <2>2 DEF ExecModifySl
  <1>6. ASSUME NEW c \in Ids, ExecClose(c) PROVE Tight
    BY <1>2, <1>3, <1>6 DEF ExecClose
  <1>7. ASSUME Session \/ Server PROVE Tight
    BY <1>2, <1>7 DEF Session, Server, Submit, ModifyStop, Close, ReadResult, GiveUp,
                      SessionRestarts, Receive, Refuse, SetState, Complete, Take, ServerRestarts
  <1> QED BY <1>2, <1>3, <1>4, <1>5, <1>6, <1>7, <1>9
          DEF Next, Advisor, Drop, VenueCloses, Poll, GetReply, PollFails, AllExecuted,
              TerminalRestarts, vars

\* The stop of an open position is never loosened at the venue (ExecModifySl).
THEOREM StopsOnlyTighten == Spec => NeverWidened
  <1>1. IInv /\ [Next]_vars => Tight
    BY StepTightens
  <1> QED BY <1>1, BridgeInvariant, PTL DEF Spec, NeverWidened, Tight

-----------------------------------------------------------------------------
(* The bridge implements the once-only executor. *)

\* A caller still waiting was told nothing yet.
WaitInv == waiting # 0 => told[waiting] = "nothing"

LEMMA WaitKeeps == ASSUME IInv, WaitInv, [Next]_vars PROVE WaitInv'
  <1>0. TypeInv
    BY DEF IInv
  <1>1. ASSUME UNCHANGED <<waiting, told>> PROVE WaitInv'
    BY <1>1 DEF WaitInv
  <1>2. ASSUME NEW cmd \in Command, Enqueue(cmd) PROVE WaitInv'
    BY <1>0, <1>2, EnqueueGrows DEF Enqueue, WaitInv
  <1>3. ASSUME waiting' = 0 PROVE WaitInv'
    BY <1>3 DEF WaitInv
  <1>4. CASE Session
    BY <1>0, <1>2, <1>3, <1>4, CommandsAreTyped DEF Session, ReadResult, GiveUp, SessionRestarts
  <1>5. CASE Server
    BY <1>1, <1>5 DEF Server, Receive, Refuse, SetState, Complete, Take, ServerRestarts
  <1>6. CASE Advisor
    BY <1>1, <1>6 DEF Advisor, Poll, GetReply, PollFails, AllExecuted, TerminalRestarts,
                      ExecOrderSend, ExecModifySl, ExecClose
  <1>7. CASE UNCHANGED vars \/ (\E r \in requests : Drop(r))
             \/ (\E p \in DOMAIN venue : VenueCloses(p))
             \/ \E c \in placed : PlacedFills(c) \/ PlacedDies(c)
    BY <1>1, <1>7 DEF vars, Drop, VenueCloses, PlacedFills, PlacedDies
  <1> QED BY <1>4, <1>5, <1>6, <1>7 DEF Next

\* A caller is told once what became of its command.
THEOREM WaitingIsUntold == Spec => []WaitInv
  <1>1. Init => WaitInv
    BY DEF Init, WaitInv
  <1> QED BY <1>1, WaitKeeps, BridgeInvariant, PTL DEF Spec

\* A step that neither asks, executes nor tells is none of the executor.
LEMMA NothingHappens ==
  ASSUME Ids' = Ids, UNCHANGED <<told, executed>>
  PROVE  UNCHANGED Executor!evars
  BY DEF Executor!evars, TimesExecuted

LEMMA EnqueueAsks ==
  ASSUME TypeInv, NEW cmd \in Command, Enqueue(cmd)
  PROVE  Executor!Next
  <1> DEFINE n == Len(queue) + 1
  <1>1. /\ Ids' = Ids \cup {n} /\ n \notin Ids /\ n \in CommandIds /\ Ids \subseteq CommandIds
        /\ told'[n] = "nothing" /\ executed'[n] = 0
        /\ \A c \in Ids : told'[c] = told[c] /\ executed'[c] = executed[c]
    BY EnqueueGrows, TypesMean DEF CommandIds
  <1> HIDE DEF n
  <1>2. UNCHANGED TimesExecuted
    BY <1>1 DEF TimesExecuted
  <1>3. {c \in Ids' : told'[c] \in Affirmative} = {c \in Ids : told[c] \in Affirmative}
    BY <1>1 DEF Affirmative
  <1>4. \A r, s \in Ids \cup {n} :
          [c \in CommandIds |-> c][r] = [c \in CommandIds |-> c][s] => r = s
    BY <1>1
  <1>5. Executor!Ask({n})
    BY <1>1, <1>2, <1>3, <1>4 DEF Executor!Ask
  <1>6. {n} \in SUBSET CommandIds
    BY <1>1
  <1> QED BY <1>5, <1>6 DEF Executor!Next

\* The session tells its caller of a command; an affirmation is grounded.
LEMMA TellConfirms ==
  ASSUME TypeInv, WaitInv, waiting # 0, NEW word,
         told' = [told EXCEPT ![waiting] = word],
         word \in Affirmative => executed[waiting] = 1,
         UNCHANGED <<queue, executed>>
  PROVE  [Executor!Next]_Executor!evars
  <1>1. /\ waiting \in Ids /\ Ids \subseteq CommandIds /\ Ids' = Ids
        /\ told \in [Ids -> Report \cup {"nothing"}]
    <2>1. waiting \in 0..Len(queue) /\ Len(queue) \in Nat
      BY TypesMean DEF TypeInv, TypeOK
    <2> QED BY <2>1, TypesMean DEF Ids, CommandIds
  <1>2. UNCHANGED TimesExecuted
    BY <1>1 DEF TimesExecuted
  <1>3. told[waiting] \notin Affirmative
    BY DEF WaitInv, Affirmative
  <1>4. CASE word \in Affirmative
    <2>1. {c \in Ids' : told'[c] \in Affirmative}
            = {c \in Ids : told[c] \in Affirmative} \cup {waiting}
      BY <1>1, <1>4
    <2>2. TimesExecuted[waiting] = 1
      BY <1>1, <1>4 DEF TimesExecuted
    <2>3. PICK c \in CommandIds : c = waiting
      BY <1>1
    <2>4. Executor!Confirm(c)
      BY <1>1, <1>2, <2>1, <2>2, <2>3 DEF Executor!Confirm
    <2> QED BY <2>4 DEF Executor!Next
  <1>5. CASE word \notin Affirmative
    <2>1. {c \in Ids' : told'[c] \in Affirmative} = {c \in Ids : told[c] \in Affirmative}
      BY <1>1, <1>3, <1>5
    <2> QED BY <1>1, <1>2, <2>1 DEF Executor!evars
  <1> QED BY <1>4, <1>5

LEMMA SessionImplements ==
  ASSUME IInv, WaitInv, Session
  PROVE  [Executor!Next]_Executor!evars
  <1>0. TypeInv /\ GroundInv
    BY DEF IInv
  <1>1. ASSUME NEW cmd \in Command, Enqueue(cmd) PROVE Executor!Next
    BY <1>0, <1>1, EnqueueAsks
  <1>2. CASE ReadResult
    <2> DEFINE word == Receipt(queue[waiting].cmd.op, queue[waiting].result)
    <2>1. waiting # 0 /\ waiting \in Ids
      BY <1>0, <1>2, TypesMean DEF ReadResult, TypeInv, TypeOK
    <2>2. word \in Affirmative => executed[waiting] = 1
      BY <1>0, <2>1 DEF GroundInv, Asserts, Affirmative
    <2>3. told' = [told EXCEPT ![waiting] = word] /\ UNCHANGED <<queue, executed>>
      BY <1>2 DEF ReadResult
    <2> HIDE DEF word
    <2> QED BY <1>0, <2>1, <2>2, <2>3, TellConfirms
  <1>3. CASE GiveUp
    <2>1. NoAnswer(queue[waiting].cmd.op) \notin Affirmative
      BY DEF NoAnswer, Affirmative
    <2> QED BY <1>0, <1>3, <2>1, TellConfirms DEF GiveUp
  <1>4. CASE SessionRestarts
    BY <1>4, NothingHappens DEF SessionRestarts, Ids
  <1> QED BY <1>0, <1>1, <1>2, <1>3, <1>4, CommandsAreTyped DEF Session

\* The server moves rows on; it adds none.
LEMMA ServerImplements ==
  ASSUME IInv, Server
  PROVE  UNCHANGED Executor!evars
  <1>0. TypeInv
    BY DEF IInv
  <1>1. DOMAIN queue' = DOMAIN queue /\ UNCHANGED <<told, executed>>
    <2>1. DOMAIN queue = Ids
      BY <1>0, TypesMean
    <2> QED BY <2>1 DEF Server, Receive, Refuse, SetState, Complete, Take, ServerRestarts, Taken
  <1>2. queue' \in Seq(Row)
    <2>1. IInv'
      BY ReceiveKeeps, RefuseKeeps, SetStateKeeps, CompleteKeeps, TakeKeeps,
         ServerRestartsKeeps DEF Server
    <2> QED BY <2>1 DEF IInv, TypeInv, TypeOK
  <1>3. Ids' = Ids
    <2>1. DOMAIN queue' = 1..Len(queue')
      BY <1>2, LenProperties
    <2> QED BY <1>0, <1>1, <2>1, TypesMean DEF Ids
  <1> QED BY <1>1, <1>3, NothingHappens

\* The advisor carries a command out when it takes it from its inbox, and never else.
LEMMA ExecImplements ==
  ASSUME IInv, NEW c \in Ids, NEW op, Executing(c, op),
         executed' \in {executed, [executed EXCEPT ![c] = @ + 1]},
         UNCHANGED <<queue, told>>
  PROVE  [Executor!Next]_Executor!evars
  <1>0. TypeInv /\ PlaceInv /\ Ids' = Ids
    BY DEF IInv, Ids
  <1>1. c \in CommandIds /\ executed \in [Ids -> Nat] /\ Ids \subseteq CommandIds
    BY <1>0, TypesMean DEF CommandIds
  <1>2. executed[c] = 0
    <2>1. inbox \in Seq(Ids) /\ inbox # <<>> /\ c = Head(inbox)
      BY <1>0 DEF Executing, TypeInv, TypeOK
    <2>2. 1 \in DOMAIN inbox /\ c = inbox[1]
      BY <2>1, TailMeans
    <2> QED BY <1>0, <2>2 DEF PlaceInv, Untouched
  <1>3. CASE executed' = executed
    BY <1>0, <1>3, NothingHappens
  <1>4. CASE executed' = [executed EXCEPT ![c] = @ + 1]
    <2>1. TimesExecuted[c] = 0
      BY <1>1, <1>2 DEF TimesExecuted
    <2>2. \A d \in CommandIds :
            (IF d \in Ids THEN executed'[d] ELSE 0)
              = IF d = c THEN 0 + 1 ELSE TimesExecuted[d]
      BY <1>1, <1>2, <1>4 DEF TimesExecuted
    <2>3. TimesExecuted' = [TimesExecuted EXCEPT ![c] = @ + 1]
      BY <1>0, <1>1, <2>1, <2>2 DEF TimesExecuted
    <2>4. Executor!CarryOut(c)
      BY <1>0, <2>1, <2>3 DEF Executor!CarryOut
    <2> QED BY <1>1, <2>4 DEF Executor!Next
  <1> QED BY <1>3, <1>4

LEMMA AdvisorImplements ==
  ASSUME IInv, Advisor
  PROVE  [Executor!Next]_Executor!evars
  <1>1. CASE Poll \/ GetReply \/ PollFails \/ AllExecuted \/ TerminalRestarts
    <2>1. UNCHANGED <<queue, told, executed>>
      BY <1>1 DEF Poll, GetReply, PollFails, AllExecuted, TerminalRestarts
    <2> QED BY <2>1, NothingHappens DEF Ids
  <1>2. ASSUME NEW c \in Ids, ExecOrderSend(c) PROVE [Executor!Next]_Executor!evars
    BY <1>2, ExecImplements DEF ExecOrderSend
  <1>3. ASSUME NEW c \in Ids, ExecModifySl(c) PROVE [Executor!Next]_Executor!evars
    BY <1>3, ExecImplements DEF ExecModifySl
  <1>4. ASSUME NEW c \in Ids, ExecClose(c) PROVE [Executor!Next]_Executor!evars
    BY <1>4, ExecImplements DEF ExecClose
  <1> QED BY <1>1, <1>2, <1>3, <1>4 DEF Advisor

\* Whatever is lost, late, repeated or restarted, the bridge carries a command out
\* once, after it was enqueued, and affirms only what was carried out.
THEOREM BridgeImplementsExecutor == Spec => ImplementsExecutor
  <1>1. Init => Executor!Init
    <2> SUFFICES ASSUME Init PROVE Executor!Init
      OBVIOUS
    <2>1. Ids = {}
      BY DEF Init, Ids
    <2> QED BY <2>1 DEF Executor!Init, TimesExecuted
  <1>2. ASSUME IInv, WaitInv, [Next]_vars PROVE [Executor!Next]_Executor!evars
    <2>1. CASE UNCHANGED vars \/ (\E r \in requests : Drop(r))
               \/ (\E p \in DOMAIN venue : VenueCloses(p))
               \/ \E c \in placed : PlacedFills(c) \/ PlacedDies(c)
      <3>1. UNCHANGED <<queue, told, executed>>
        BY <2>1 DEF vars, Drop, VenueCloses, PlacedFills, PlacedDies
      <3> QED BY <3>1, NothingHappens DEF Ids
    <2> QED BY <1>2, <2>1, SessionImplements, ServerImplements, AdvisorImplements DEF Next
  <1> QED BY <1>1, <1>2, BridgeInvariant, WaitingIsUntold, PTL
          DEF Spec, ImplementsExecutor, Executor!Spec

-----------------------------------------------------------------------------
(* No command is lost while nothing is lost. *)

Recorded(c) == queue[c].status = "DONE"

\* A command handed out is in the reply, in the advisor's hands or in its results.
OnItsWay(c) ==
  \/ reply # None /\ \E k \in DOMAIN reply : reply[k] = c
  \/ \E k \in DOMAIN inbox : inbox[k] = c
  \/ \E k \in DOMAIN results : results[k].id = c

NothingLost == \A c \in Ids : queue[c].status = "TAKEN" => OnItsWay(c)

\* What the advisor has to report is recorded, or the poll being handled brings it.
ServerBrings ==
  \A k \in DOMAIN results :
    Recorded(results[k].id) \/ \E j \in DOMAIN server.results : server.results[j].id = results[k].id

\* There is one poll at a time; until the server takes it up it holds all the advisor
\* has to report, and all of that is recorded before the reply leaves.
OnePoll ==
  /\ \A r \in requests : r.current
  /\ \A q, r \in requests : q = r
  /\ ea # "polling" => requests = {} /\ server = None /\ reply = None
  /\ \A r \in requests : ~r.seen => r.results = results /\ server = None /\ reply = None
  /\ server # None => server.current /\ reply = None /\ ServerBrings
  /\ reply # None => \A k \in DOMAIN results : Recorded(results[k].id)

LossFreeInv == OnePoll /\ NothingLost

\* A command the session adds is queued, and nothing else changes for the others.
LEMMA EnqueueLoses ==
  ASSUME IInv, LossFreeInv, NEW cmd \in Command, Enqueue(cmd),
         UNCHANGED <<requests, server, reply, ea, inbox, results>>
  PROVE  LossFreeInv'
  <1>0. TypeInv /\ Grounded(results, queue, executed)
    BY DEF IInv, GroundInv
  <1>1. /\ Ids' = Ids \cup {Len(queue) + 1} /\ \A c \in Ids : queue'[c] = queue[c]
        /\ queue'[Len(queue) + 1].status = "QUEUED"
    BY <1>0, EnqueueGrows
  <1>2. \A k \in DOMAIN results : results[k].id \in Ids
    BY <1>0 DEF Grounded, Ids
  <1>3. \A k \in DOMAIN results : Recorded(results[k].id) => Recorded(results[k].id)'
    BY <1>1, <1>2 DEF Recorded
  <1>4. OnePoll'
    BY <1>3 DEF LossFreeInv, OnePoll, ServerBrings
  <1>5. NothingLost'
    BY <1>1 DEF LossFreeInv, NothingLost, OnItsWay
  <1> QED BY <1>4, <1>5 DEF LossFreeInv

LEMMA ReceiveLoses ==
  ASSUME IInv, LossFreeInv, NEW r \in requests, Receive(r)
  PROVE  LossFreeInv'
  <1> DEFINE seen == [r EXCEPT !.seen = TRUE]
  <1>1. /\ requests' = (requests \ {r}) \cup {seen} /\ ~r.seen /\ r \in Request
        /\ server' = [stage |-> "state", positions |-> r.positions, results |-> r.results,
                      current |-> r.current]
        /\ UNCHANGED <<queue, reply, ea, inbox, results>>
    BY DEF Receive, IInv, TypeInv, TypeOK
  <1>2. seen.current = r.current /\ seen.seen
    BY <1>1 DEF Request
  <1>3. server'.current = r.current /\ server'.results = r.results
    BY <1>1
  <1> HIDE DEF seen
  <1>4. r.results = results /\ r.current /\ reply = None /\ requests' = {seen} /\ ea = "polling"
    BY <1>1 DEF LossFreeInv, OnePoll
  <1>5. ServerBrings'
    BY <1>1, <1>3, <1>4 DEF ServerBrings
  <1>6. OnePoll'
    BY <1>1, <1>2, <1>3, <1>4, <1>5 DEF OnePoll
  <1>7. NothingLost'
    BY <1>1 DEF LossFreeInv, NothingLost, OnItsWay, Ids
  <1> QED BY <1>6, <1>7 DEF LossFreeInv

\* Requests leave the network.
LEMMA FewerRequestsLose ==
  ASSUME LossFreeInv, requests' \subseteq requests,
         UNCHANGED <<queue, server, reply, ea, inbox, results>>
  PROVE  LossFreeInv'
  <1>1. OnePoll'
    BY DEF LossFreeInv, OnePoll, ServerBrings, Recorded
  <1>2. NothingLost'
    BY DEF LossFreeInv, NothingLost, OnItsWay, Ids
  <1> QED BY <1>1, <1>2 DEF LossFreeInv

LEMMA SetStateLoses ==
  ASSUME IInv, LossFreeInv, SetState
  PROVE  LossFreeInv'
  <1>1. /\ server # None /\ server \in Handling /\ server' = [server EXCEPT !.stage = "results"]
        /\ UNCHANGED <<queue, requests, reply, ea, inbox, results>>
    BY DEF SetState, IInv, TypeInv
  <1>2. server'.current = server.current /\ server'.results = server.results
    BY <1>1 DEF Handling
  <1>3. OnePoll'
    BY <1>1, <1>2 DEF LossFreeInv, OnePoll, ServerBrings, Recorded
  <1>4. NothingLost'
    BY <1>1 DEF LossFreeInv, NothingLost, OnItsWay, Ids
  <1> QED BY <1>3, <1>4 DEF LossFreeInv

\* The result the server is at is recorded before it leaves the list.
LEMMA CompleteLoses ==
  ASSUME IInv, LossFreeInv, Complete
  PROVE  LossFreeInv'
  <1> DEFINE r == Head(server.results)
  <1>0. TypeInv /\ GroundInv /\ server # None /\ server \in Handling
        /\ server.results # <<>> /\ server.results \in Seq(Result)
    BY DEF IInv, Complete, TypeInv, Handling
  <1>1. /\ r = server.results[1] /\ r \in Result /\ Tail(server.results) \in Seq(Result)
        /\ 1 \in DOMAIN server.results
    BY <1>0, TailMeans
  <1>2. r.id \in Ids /\ queue \in [Ids -> Row] /\ \A c \in Ids : queue[c] \in Row
    BY <1>0, <1>1, TypesMean DEF GroundInv, Grounded, Ids
  <1>3. /\ queue' = [queue EXCEPT ![r.id] = Completed(@, r.report)]
        /\ server' = [server EXCEPT !.results = Tail(@)]
        /\ UNCHANGED <<requests, reply, ea, inbox, results>>
    BY DEF Complete
  <1>4. /\ server'.current = server.current /\ server'.results = Tail(server.results)
    BY <1>0, <1>3 DEF Handling
  <1>5. \A d \in DOMAIN server.results :
          server.results[d] = r \/ \E j \in DOMAIN server'.results : server'.results[j] = server.results[d]
    <2> SUFFICES ASSUME NEW d \in DOMAIN server.results, d # 1
                 PROVE  \E j \in DOMAIN server'.results : server'.results[j] = server.results[d]
      BY <1>1
    <2>1. /\ Len(server.results) \in Nat /\ DOMAIN server.results = 1..Len(server.results)
          /\ DOMAIN Tail(server.results) = 1..(Len(server.results) - 1)
          /\ \A k \in 1..(Len(server.results) - 1) : Tail(server.results)[k] = server.results[k + 1]
      BY <1>0, <1>1, HeadTailProperties, LenProperties
    <2>2. d - 1 \in 1..(Len(server.results) - 1) /\ (d - 1) + 1 = d
      BY <2>1
    <2> QED BY <1>4, <2>1, <2>2
  <1> HIDE DEF r
  <1>6. /\ Ids' = Ids
        /\ \A c \in Ids : queue'[c] = IF c = r.id THEN Completed(queue[c], r.report) ELSE queue[c]
    <2>1. DOMAIN queue' = DOMAIN queue /\ queue' \in Seq(Row)
      BY <1>3, CompleteKeeps DEF IInv, TypeInv, TypeOK
    <2>2. DOMAIN queue' = 1..Len(queue') /\ DOMAIN queue = Ids
      BY <1>0, <2>1, LenProperties, TypesMean
    <2> QED BY <1>2, <1>3, <2>1, <2>2, TypesMean, <1>0 DEF Ids
  <1>7. /\ queue'[r.id].status = "DONE"
        /\ \A c \in Ids : queue[c].status = "DONE" => queue'[c].status = "DONE"
        /\ \A c \in Ids : queue'[c].status = "TAKEN" => queue[c].status = "TAKEN"
    <2>1. \A row \in Row : Completed(row, r.report).status = "DONE"
      BY DEF Completed, Row
    <2> QED BY <1>2, <1>6, <2>1
  <1>8. \A k \in DOMAIN results : results[k].id \in Ids
    BY <1>0 DEF GroundInv, Grounded, Ids
  <1>9. ServerBrings'
    <2> SUFFICES ASSUME NEW k \in DOMAIN results
                 PROVE  \/ queue'[results[k].id].status = "DONE"
                        \/ \E j \in DOMAIN server'.results : server'.results[j].id = results[k].id
      BY <1>3 DEF ServerBrings, Recorded
    <2>1. CASE queue[results[k].id].status = "DONE"
      BY <1>7, <1>8, <2>1
    <2>2. ASSUME NEW d \in DOMAIN server.results, server.results[d].id = results[k].id
          PROVE  \/ queue'[results[k].id].status = "DONE"
                 \/ \E j \in DOMAIN server'.results : server'.results[j].id = results[k].id
      BY <1>5, <1>7, <2>2
    <2> QED BY <1>0, <2>1, <2>2 DEF LossFreeInv, OnePoll, ServerBrings, Recorded
  <1>10. OnePoll'
    BY <1>0, <1>3, <1>4, <1>9 DEF LossFreeInv, OnePoll
  <1>11. NothingLost'
    BY <1>3, <1>6, <1>7 DEF LossFreeInv, NothingLost, OnItsWay
  <1> QED BY <1>10, <1>11 DEF LossFreeInv

\* The rows taken leave with the reply the advisor waits for.
LEMMA TakeLoses ==
  ASSUME IInv, LossFreeInv, Take
  PROVE  LossFreeInv'
  <1>0. TypeInv /\ server # None /\ server.results = <<>> /\ server.current /\ server' = None
        /\ UNCHANGED <<requests, ea, inbox, results>>
    BY DEF IInv, Take, LossFreeInv, OnePoll
  <1>1. PICK ids \in Pending : queue' = Taken(ids) /\ reply' = ids
    BY <1>0 DEF Take
  <1>2. /\ ids \in Seq(Ids) /\ Ids \subseteq Nat /\ ids # None
        /\ \A k \in DOMAIN ids : ids[k] \in Ids /\ queue[ids[k]].status = "QUEUED"
    <2>1. ids \in Seq(Ids) /\ Ids \subseteq Nat
      BY <1>0, PendingMeans, TypesMean
    <2>2. ids \in Seq(Nat)
      BY <2>1, SeqMonotonic
    <2> QED BY <1>0, <2>1, <2>2, PendingMeans, BridgeAssumption DEF BridgeAssumption
  <1>3. Ids' = Ids /\ \A c \in Ids : queue[c] \in Row
    BY <1>0, <1>1, <1>2, TakenMeans, MovedMeans, TypesMean DEF Ids
  <1>4. /\ \A c \in Ids : queue[c].status = "DONE" /\ (\A k \in DOMAIN ids : ids[k] # c)
                           => queue'[c].status = "DONE"
        /\ \A c \in Ids : queue'[c].status = "TAKEN"
             => queue[c].status = "TAKEN" \/ \E k \in DOMAIN ids : ids[k] = c
    BY <1>1, <1>2 DEF Taken
  <1>5. \A k \in DOMAIN results : queue'[results[k].id].status = "DONE"
    <2>1. \A k \in DOMAIN results : results[k].id \in Ids
      BY DEF IInv, GroundInv, Grounded, Ids
    <2>2. \A k \in DOMAIN results : Recorded(results[k].id)
      BY <1>0 DEF LossFreeInv, OnePoll, ServerBrings
    <2> QED BY <1>2, <1>4, <2>1, <2>2 DEF Recorded
  <1>6. ea = "polling" /\ \A r \in requests : r.seen
    BY <1>0 DEF LossFreeInv, OnePoll
  <1>7. OnePoll'
    <2>1. (\A k \in DOMAIN results : Recorded(results[k].id))'
      BY <1>0, <1>5 DEF Recorded
    <2> QED BY <1>0, <1>6, <2>1 DEF LossFreeInv, OnePoll
  <1>8. NothingLost'
    <2> SUFFICES ASSUME NEW c \in Ids, queue'[c].status = "TAKEN" PROVE OnItsWay(c)'
      BY <1>3 DEF NothingLost
    <2>1. CASE \E k \in DOMAIN ids : ids[k] = c
      BY <1>1, <1>2, <2>1 DEF OnItsWay
    <2>2. CASE queue[c].status = "TAKEN"
      <3>1. OnItsWay(c) /\ reply = None
        BY <1>0, <2>2 DEF LossFreeInv, NothingLost, OnePoll
      <3> QED BY <1>0, <3>1 DEF OnItsWay
    <2> QED BY <1>4, <2>1, <2>2
  <1> QED BY <1>7, <1>8 DEF LossFreeInv

LEMMA PollLoses ==
  ASSUME IInv, LossFreeInv, Poll
  PROVE  LossFreeInv'
  <1> DEFINE new == [positions |-> venue, results |-> results, current |-> TRUE, seen |-> FALSE]
  <1>1. new.results = results /\ new.current
    OBVIOUS
  <1>2. /\ requests' = requests \cup {new} /\ ea' = "polling" /\ ea = "timer"
        /\ UNCHANGED <<queue, server, reply, inbox, results>>
    BY DEF Poll
  <1> HIDE DEF new
  <1>3. requests' = {new} /\ server' = None /\ reply' = None
    BY <1>2 DEF LossFreeInv, OnePoll
  <1>4. OnePoll'
    BY <1>1, <1>2, <1>3 DEF OnePoll
  <1>5. NothingLost'
    BY <1>2 DEF LossFreeInv, NothingLost, OnItsWay, Ids
  <1> QED BY <1>4, <1>5 DEF LossFreeInv

\* The results the advisor drops are recorded; the commands it takes over were in the reply.
LEMMA GetReplyLoses ==
  ASSUME IInv, LossFreeInv, GetReply
  PROVE  LossFreeInv'
  <1>1. /\ ea = "polling" /\ reply # None /\ inbox' = reply /\ reply' = None /\ results' = <<>>
        /\ ea' = "executing" /\ requests' = {r \in requests : ~r.current}
        /\ UNCHANGED <<queue, server>>
    BY DEF GetReply
  <1>2. server' = None /\ requests' = {} /\ inbox = <<>>
    BY <1>1 DEF LossFreeInv, OnePoll, IInv, PlaceInv
  <1>3. OnePoll'
    BY <1>1, <1>2 DEF OnePoll
  <1>4. NothingLost'
    <2> SUFFICES ASSUME NEW c \in Ids, queue[c].status = "TAKEN"
                 PROVE  \E k \in DOMAIN reply : reply[k] = c
      BY <1>1 DEF NothingLost, OnItsWay, Ids
    <2>1. \A k \in DOMAIN results : results[k].id # c
      BY <1>1 DEF LossFreeInv, OnePoll, Recorded
    <2>2. OnItsWay(c) /\ DOMAIN inbox = {}
      BY <1>2 DEF LossFreeInv, NothingLost
    <2> QED BY <2>1, <2>2 DEF OnItsWay
  <1> QED BY <1>3, <1>4 DEF LossFreeInv

\* Whatever becomes of a command line, something is reported of it.
LEMMA ExecLoses ==
  ASSUME IInv, LossFreeInv, NEW c \in Ids, NEW op, Executing(c, op),
         NEW made \in Seq(Report), made # <<>>, Reports(c, made),
         UNCHANGED <<queue, requests, server, reply, ea>>
  PROVE  LossFreeInv'
  <1>0. TypeInv /\ ea = "executing" /\ inbox # <<>> /\ c = Head(inbox) /\ inbox' = Tail(inbox)
    BY DEF IInv, Executing
  <1>1. inbox \in Seq(Ids) /\ results \in Seq(Result)
    BY <1>0 DEF TypeInv, TypeOK
  <1>2. OnePoll'
    BY <1>0 DEF LossFreeInv, OnePoll
  <1> DEFINE new == [k \in DOMAIN made |-> [id |-> c, report |-> made[k]]]
  <1>3. /\ new \in Seq(Result) /\ Len(new) = Len(made)
        /\ \A k \in 1..Len(made) : new[k].id = c
    <2>1. /\ Len(made) \in Nat /\ DOMAIN made = 1..Len(made)
          /\ \A k \in DOMAIN made : made[k] \in Report
      BY LenProperties, ElementOfSeq
    <2>2. c \in 1..MaxCommands
      BY <1>0, TypesMean
    <2>3. new \in [1..Len(made) -> Result]
      BY <2>1, <2>2 DEF Result
    <2>4. new \in Seq(Result) /\ Len(new) = Len(made)
      BY <2>1, <2>3
    <2> QED BY <2>1, <2>4
  <1>4. results' = results \o new
    BY DEF Reports
  <1> HIDE DEF new
  <1>5. /\ Len(results) \in Nat /\ Len(made) \in Nat /\ Len(made) # 0
        /\ DOMAIN results = 1..Len(results)
    BY <1>1, LenProperties, EmptySeq
  <1>6. /\ DOMAIN results' = 1..(Len(results) + Len(made))
        /\ \A k \in 1..Len(results) : results'[k] = results[k]
        /\ results'[Len(results) + 1] = new[1]
    <2>1. /\ results \o new \in Seq(Result) /\ Len(results \o new) = Len(results) + Len(new)
          /\ \A i \in 1..(Len(results) + Len(new)) :
               (results \o new)[i] = IF i <= Len(results) THEN results[i]
                                    ELSE new[i - Len(results)]
      <3>1. results \in Seq(Result) /\ new \in Seq(Result)
        BY <1>1, <1>3
      <3> QED BY <3>1, ConcatProperties
    <2>2. /\ Len(results) + 1 \in 1..(Len(results) + Len(new)) /\ ~(Len(results) + 1 <= Len(results))
          /\ (Len(results) + 1) - Len(results) = 1
          /\ \A k \in 1..Len(results) : k \in 1..(Len(results) + Len(new)) /\ k <= Len(results)
      BY <1>3, <1>5
    <2>3. DOMAIN (results \o new) = 1..(Len(results) + Len(made))
      BY <1>3, <2>1, LenProperties
    <2> QED BY <1>3, <1>4, <2>1, <2>2, <2>3
  <1>7. \E k \in DOMAIN results' : results'[k].id = c
    <2>1. Len(results) + 1 \in DOMAIN results' /\ 1 \in 1..Len(made)
      BY <1>5, <1>6
    <2> QED BY <1>3, <1>6, <2>1
  <1>8. \A k \in DOMAIN results : k \in DOMAIN results' /\ results'[k] = results[k]
    BY <1>5, <1>6
  <1>9. \A k \in DOMAIN inbox : inbox[k] = c \/ \E j \in DOMAIN inbox' : inbox'[j] = inbox[k]
    <2> SUFFICES ASSUME NEW k \in DOMAIN inbox, k # 1
                 PROVE  \E j \in DOMAIN Tail(inbox) : Tail(inbox)[j] = inbox[k]
      BY <1>0, <1>1, TailMeans
    <2>1. /\ Len(inbox) \in Nat /\ DOMAIN inbox = 1..Len(inbox)
          /\ DOMAIN Tail(inbox) = 1..(Len(inbox) - 1)
          /\ \A j \in 1..(Len(inbox) - 1) : Tail(inbox)[j] = inbox[j + 1]
      BY <1>0, <1>1, HeadTailProperties, LenProperties
    <2>2. k - 1 \in 1..(Len(inbox) - 1) /\ (k - 1) + 1 = k
      BY <2>1
    <2> QED BY <2>1, <2>2
  <1>10. NothingLost'
    <2> SUFFICES ASSUME NEW d \in Ids, queue[d].status = "TAKEN" PROVE OnItsWay(d)'
      BY DEF NothingLost, Ids
    <2>1. OnItsWay(d)
      BY DEF LossFreeInv, NothingLost
    <2> QED BY <1>7, <1>8, <1>9, <2>1 DEF OnItsWay
  <1> QED BY <1>2, <1>10 DEF LossFreeInv

LEMMA AdvisorLoses ==
  ASSUME IInv, LossFreeInv, ~Losses, Advisor
  PROVE  LossFreeInv'
  <1>0. \A x, y : /\ x \in Report => <<x>> \in Seq(Report) /\ <<x>> # <<>>
                  /\ x \in Report /\ y \in Report => <<x, y>> \in Seq(Report) /\ <<x, y>> # <<>>
    OBVIOUS
  <1>1. CASE AllExecuted
    <2>1. OnePoll'
      BY <1>1 DEF AllExecuted, LossFreeInv, OnePoll
    <2>2. NothingLost'
      BY <1>1 DEF AllExecuted, LossFreeInv, NothingLost, OnItsWay, Ids
    <2> QED BY <2>1, <2>2 DEF LossFreeInv
  <1>2. ASSUME NEW c \in Ids, ExecOrderSend(c) PROVE LossFreeInv'
    <2>1. \E made \in Seq(Report) : made # <<>> /\ Reports(c, made)
      BY <1>0, <1>2 DEF ExecOrderSend, Report
    <2> QED BY <1>2, <2>1, ExecLoses DEF ExecOrderSend
  <1>3. ASSUME NEW c \in Ids, ExecModifySl(c) PROVE LossFreeInv'
    <2>1. \E made \in Seq(Report) : made # <<>> /\ Reports(c, made)
      BY <1>0, <1>3 DEF ExecModifySl, Report
    <2> QED BY <1>3, <2>1, ExecLoses DEF ExecModifySl
  <1>4. ASSUME NEW c \in Ids, ExecClose(c) PROVE LossFreeInv'
    <2>1. \E made \in Seq(Report) : made # <<>> /\ Reports(c, made)
      BY <1>0, <1>4 DEF ExecClose, Report
    <2> QED BY <1>4, <2>1, ExecLoses DEF ExecClose
  <1> QED BY <1>1, <1>2, <1>3, <1>4, PollLoses, GetReplyLoses DEF Advisor, PollFails, TerminalRestarts

LEMMA SessionLoses ==
  ASSUME IInv, LossFreeInv, Session
  PROVE  LossFreeInv'
  <1>0. TypeInv
    BY DEF IInv
  <1>1. CASE ReadResult \/ GiveUp \/ SessionRestarts
    BY <1>1, FewerRequestsLose DEF ReadResult, GiveUp, SessionRestarts
  <1>2. ASSUME NEW cmd \in Command, Enqueue(cmd),
               UNCHANGED <<requests, server, reply, ea, inbox, results>>
        PROVE  LossFreeInv'
    BY <1>2, EnqueueLoses
  <1>3. CASE \/ \E stop \in Stops : Submit(stop)
             \/ \E p \in Ids, stop \in Stops : ModifyStop(p, stop)
             \/ \E p \in Ids : Close(p)
    <2>1. UNCHANGED <<requests, server, reply, ea, inbox, results>>
      BY <1>3 DEF Submit, ModifyStop, Close
    <2> QED BY <1>0, <1>2, <1>3, <2>1, CommandsAreTyped
  <1> QED BY <1>1, <1>3 DEF Session

LEMMA LossFreeStep ==
  ASSUME IInv, LossFreeInv, ~Losses, [Next]_vars
  PROVE  LossFreeInv'
  <1>1. ASSUME UNCHANGED vars PROVE LossFreeInv'
    BY <1>1, FewerRequestsLose DEF vars
  <1>2. ASSUME NEW p \in DOMAIN venue, VenueCloses(p) PROVE LossFreeInv'
    BY <1>2, FewerRequestsLose DEF VenueCloses
  <1>5. ASSUME NEW c \in placed, PlacedFills(c) \/ PlacedDies(c) PROVE LossFreeInv'
    BY <1>5, FewerRequestsLose DEF PlacedFills, PlacedDies
  <1>3. ASSUME NEW r \in requests, Drop(r) \/ Refuse(r) PROVE LossFreeInv'
    BY <1>3, FewerRequestsLose DEF Drop, Refuse
  <1>4. ASSUME Server PROVE LossFreeInv'
    BY <1>3, <1>4, ReceiveLoses, SetStateLoses, CompleteLoses, TakeLoses
       DEF Server, ServerRestarts
  <1> QED BY <1>1, <1>2, <1>3, <1>4, <1>5, SessionLoses, AdvisorLoses DEF Next

\* With every message delivered and nothing restarted, a command that was handed out
\* and is not recorded is in the reply, in the advisor's hands or among its results:
\* no step drops it (take_pending, OnTimer, complete).
THEOREM NoCommandIsLost ==
  ASSUME ~Losses
  PROVE  Spec => []NothingLost
  <1>1. Init => LossFreeInv
    BY DEF Init, LossFreeInv, OnePoll, NothingLost, Ids
  <1>2. IInv /\ LossFreeInv /\ [Next]_vars => LossFreeInv'
    BY LossFreeStep
  <1>3. LossFreeInv => NothingLost
    BY DEF LossFreeInv
  <1> QED BY <1>1, <1>2, <1>3, BridgeInvariant, PTL DEF Spec

-----------------------------------------------------------------------------
(* What the session sees of the venue, however late and stale the poll is.   *)

\* The orders that were carried out and whose position has opened, if it ever does: only
\* they can be positions.
Opened == {c \in Ids : queue[c].cmd.op = "ORDER_SEND" /\ executed[c] = 1 /\ c \notin placed}

\* P holds no position that was never opened, and no stop above the venue's.
Older(P) ==
  /\ DOMAIN P \subseteq Opened
  /\ \A p \in DOMAIN P \cap DOMAIN venue : P[p] <= venue[p]

\* The same of the next state, for positions that may be of this one.
OlderNext(P) ==
  /\ DOMAIN P \subseteq Opened'
  /\ \A p \in DOMAIN P \cap DOMAIN venue' : P[p] <= venue'[p]

\* Wherever positions are held: the state table, a poll, the server, the venue.
StaleInv ==
  /\ snapshot # None => Older(snapshot)
  /\ \A r \in requests : Older(r.positions)
  /\ server # None => Older(server.positions)
  /\ DOMAIN venue \subseteq Opened

\* The snapshot the session judges by lags behind the venue on one side only.
SnapshotIsOlder ==
  snapshot # None =>
    /\ DOMAIN snapshot \subseteq Opened
    /\ \A p \in DOMAIN snapshot \cap DOMAIN venue : snapshot[p] <= venue[p]

\* A position that is closed never comes back.
ClosedStaysClosed ==
  [][\A p \in Opened : p \notin DOMAIN venue => p \notin DOMAIN venue']_vars

\* What a step does to the positions and the orders behind them.
Ages ==
  /\ Opened \subseteq Opened'
  /\ \A p \in Opened : p \notin DOMAIN venue => p \notin DOMAIN venue'
  /\ DOMAIN venue' \subseteq Opened'
  /\ Tight

\* Old positions get no younger.
LEMMA OlderStays ==
  ASSUME TypeInv, Ages, venue' \in Positions, NEW P \in Positions, Older(P)
  PROVE  OlderNext(P)
  <1>1. /\ \A p \in DOMAIN P : P[p] \in Nat
        /\ \A p \in DOMAIN venue : venue[p] \in Nat
        /\ \A p \in DOMAIN venue' : venue'[p] \in Nat
    BY PositionsMean, BridgeAssumption DEF TypeInv, TypeOK, Stops, BridgeAssumption
  <1>2. DOMAIN P \subseteq Opened'
    BY DEF Older, Ages
  <1>3. ASSUME NEW p \in DOMAIN P, p \in DOMAIN venue' PROVE P[p] <= venue'[p]
    <2>1. p \in DOMAIN venue
      BY <1>3 DEF Older, Ages
    <2>2. P[p] <= venue[p] /\ venue[p] <= venue'[p]
      BY <1>3, <2>1 DEF Older, Ages, Tight
    <2> QED BY <1>1, <1>3, <2>1, <2>2
  <1> QED BY <1>2, <1>3 DEF OlderNext

\* An order the venue took opens its position, or never will.
LEMMA PlacedAges ==
  ASSUME IInv, DOMAIN venue \subseteq Opened, Tight, NEW c \in placed,
         PlacedFills(c) \/ PlacedDies(c)
  PROVE  Ages
  <1>1. /\ c \in Ids /\ executed[c] = 1 /\ queue[c].cmd.op = "ORDER_SEND"
        /\ queue' = queue /\ executed' = executed /\ placed' = placed \ {c}
    BY DEF IInv, PlaceInv, PlacedFills, PlacedDies
  <1>2. c \notin Opened /\ c \in Opened' /\ Opened \subseteq Opened'
    BY <1>1 DEF Opened, Ids
  <1>3. DOMAIN venue' \subseteq DOMAIN venue \cup {c}
    BY DEF PlacedFills, PlacedDies, With
  <1> QED BY <1>2, <1>3 DEF Ages

\* A step that opens nothing.
LEMMA NothingOpens ==
  ASSUME DOMAIN venue \subseteq Opened, Tight, Ids \subseteq Ids',
         \A c \in Ids : queue'[c].cmd = queue[c].cmd /\ (executed[c] = 1 => executed'[c] = 1),
         DOMAIN venue' \subseteq DOMAIN venue, placed' \subseteq placed
  PROVE  Ages
  <1>1. Opened \subseteq Opened'
    BY DEF Opened
  <1> QED BY <1>1 DEF Ages

\* The command the advisor is at was not carried out yet, and is only now.
LEMMA ExecutesOnce ==
  ASSUME IInv, NEW c \in Ids, NEW op, Executing(c, op), queue' = queue,
         executed' \in {executed, [executed EXCEPT ![c] = @ + 1]}
  PROVE  /\ executed[c] = 0 /\ Ids' = Ids
         /\ \A d \in Ids : executed[d] = 1 => executed'[d] = 1
         /\ executed' # executed => executed'[c] = 1
  <1>1. TypeInv /\ PlaceInv
    BY DEF IInv
  <1>2. inbox \in Seq(Ids) /\ inbox # <<>> /\ c = Head(inbox)
    BY <1>1 DEF Executing, TypeInv, TypeOK
  <1>3. 1 \in DOMAIN inbox /\ c = inbox[1]
    BY <1>2, TailMeans
  <1>4. executed[c] = 0
    BY <1>1, <1>3 DEF PlaceInv, Untouched
  <1>5. executed \in [Ids -> Nat]
    BY <1>1, TypesMean
  <1> QED BY <1>4, <1>5 DEF Ids

\* The order that opens a position is carried out at that moment.
LEMMA OrderAges ==
  ASSUME IInv, DOMAIN venue \subseteq Opened, Tight, NEW c \in Ids, ExecOrderSend(c)
  PROVE  Ages
  <1>1. /\ Executing(c, "ORDER_SEND") /\ queue' = queue /\ queue[c].cmd.op = "ORDER_SEND"
        /\ executed' \in {executed, [executed EXCEPT ![c] = @ + 1]}
        /\ placed' \in {placed, placed \cup {c}}
        /\ \/ venue' = venue
           \/ /\ \E stop : venue' = With(c, stop)
              /\ executed' = [executed EXCEPT ![c] = @ + 1] /\ placed' = placed
    BY DEF ExecOrderSend, Executing
  <1>2. /\ executed[c] = 0 /\ Ids' = Ids
        /\ \A d \in Ids : executed[d] = 1 => executed'[d] = 1
    BY <1>1, ExecutesOnce
  <1>3. /\ c \notin Opened /\ Opened \subseteq Opened'
        /\ c \notin placed
    BY <1>1, <1>2 DEF Opened, IInv, PlaceInv
  <1>4. CASE venue' = venue
    BY <1>3, <1>4 DEF Ages
  <1>5. ASSUME NEW stop, venue' = With(c, stop), executed' = [executed EXCEPT ![c] = @ + 1],
               placed' = placed
        PROVE  Ages
    <2>1. executed \in [Ids -> Nat]
      BY TypesMean DEF IInv
    <2>2. executed'[c] = 1
      BY <1>2, <1>5, <2>1
    <2>3. c \in Opened'
      BY <1>1, <1>2, <1>3, <1>5, <2>2 DEF Opened
    <2>4. DOMAIN venue' = DOMAIN venue \cup {c}
      BY <1>5 DEF With
    <2> QED BY <1>3, <2>3, <2>4 DEF Ages
  <1> QED BY <1>1, <1>4, <1>5

LEMMA ChangeAges ==
  ASSUME IInv, DOMAIN venue \subseteq Opened, Tight, NEW c \in Ids,
         ExecModifySl(c) \/ ExecClose(c)
  PROVE  Ages
  <1>1. /\ \E op : Executing(c, op)
        /\ queue' = queue /\ executed' \in {executed, [executed EXCEPT ![c] = @ + 1]}
        /\ placed' = placed
    BY DEF ExecModifySl, ExecClose
  <1>2. Ids' = Ids /\ \A d \in Ids : executed[d] = 1 => executed'[d] = 1
    BY <1>1, ExecutesOnce
  <1>3. DOMAIN venue' \subseteq DOMAIN venue
    BY DEF ExecModifySl, ExecClose, With, Without
  <1> QED BY <1>1, <1>2, <1>3, NothingOpens

\* No step of the session or the server touches the venue.
LEMMA RowsAge ==
  ASSUME IInv, DOMAIN venue \subseteq Opened, Tight, Session \/ Server
  PROVE  Ages
  <1>0. TypeInv
    BY DEF IInv
  <1>1. venue' = venue /\ placed' = placed
    BY DEF Session, Server, Submit, ModifyStop, Close, ReadResult, GiveUp, SessionRestarts,
           Receive, Refuse, SetState, Complete, Take, ServerRestarts
  <1>2. ASSUME NEW cmd \in Command, Enqueue(cmd) PROVE Ages
    <2>1. Ids \subseteq Ids' /\ \A c \in Ids : queue'[c] = queue[c] /\ executed'[c] = executed[c]
      BY <1>0, <1>2, EnqueueGrows
    <2> QED BY <1>1, <2>1, NothingOpens
  <1>3. ASSUME Moved(queue'), executed' = executed PROVE Ages
    <2>1. Ids' = Ids /\ \A c \in Ids : queue'[c].cmd = queue[c].cmd
      BY <1>3, MovedMeans DEF Ids, Moved
    <2> QED BY <1>1, <1>3, <2>1, NothingOpens
  <1>4. ASSUME queue' = queue, executed' = executed PROVE Ages
    BY <1>1, <1>4, NothingOpens DEF Ids
  <1>5. CASE Session
    <2>1. \/ queue' = queue /\ executed' = executed
          \/ \E cmd \in Command : Enqueue(cmd)
      BY <1>0, <1>5, CommandsAreTyped DEF Session, ReadResult, GiveUp, SessionRestarts
    <2> QED BY <1>2, <1>4, <2>1
  <1>6. CASE Server
    <2>1. Complete => Moved(queue') /\ executed' = executed
      BY CompleteMoves
    <2>2. Take \/ ServerRestarts => (Moved(queue') \/ queue' = queue) /\ executed' = executed
      BY <1>0, PendingMeans, PendingPrefix, TakenMeans DEF Take, ServerRestarts
    <2> QED BY <1>3, <1>4, <1>6, <2>1, <2>2 DEF Server, Receive, Refuse, SetState
  <1> QED BY <1>5, <1>6

LEMMA StepAges ==
  ASSUME IInv, DOMAIN venue \subseteq Opened, [Next]_vars
  PROVE  Ages
  <1>0. Tight
    BY StepTightens
  <1>1. ASSUME queue' = queue, executed' = executed, DOMAIN venue' \subseteq DOMAIN venue,
               placed' = placed
        PROVE  Ages
    BY <1>0, <1>1, NothingOpens DEF Ids
  <1>2. ASSUME NEW p \in DOMAIN venue, VenueCloses(p) PROVE Ages
    BY <1>1, <1>2 DEF VenueCloses, Without
  <1> QED BY <1>0, <1>1, <1>2, OrderAges, ChangeAges, RowsAge, PlacedAges
          DEF Next, Advisor, Drop, Poll, GetReply, PollFails, AllExecuted, TerminalRestarts, vars

\* The positions a step leaves in the state table, a poll or the server were there
\* before, or are the venue's of this moment.
Passed ==
  /\ snapshot' \in {snapshot} \cup (IF server = None THEN {} ELSE {server.positions})
  /\ \A r \in requests' : r.positions = venue \/ \E q \in requests : r.positions = q.positions
  /\ server' # None => \/ server # None /\ server'.positions = server.positions
                       \/ \E q \in requests : server'.positions = q.positions

LEMMA StepPasses ==
  ASSUME IInv, [Next]_vars
  PROVE  Passed
  <1>0. /\ \A r \in requests : r \in Request
        /\ server # None => server \in Handling
    BY DEF IInv, TypeInv, TypeOK
  <1>1. ASSUME UNCHANGED <<snapshot, server>>, requests' \subseteq requests PROVE Passed
    BY <1>1 DEF Passed
  <1>2. ASSUME NEW r \in requests, Receive(r) PROVE Passed
    <2> DEFINE seen == [r EXCEPT !.seen = TRUE]
    <2>1. seen.positions = r.positions
      BY <1>0 DEF Request
    <2>2. /\ requests' = (requests \ {r}) \cup {seen} /\ snapshot' = snapshot
          /\ server' # None => server'.positions = r.positions
      BY <1>2 DEF Receive
    <2> HIDE DEF seen
    <2>3. \A q \in requests' : \E d \in requests : q.positions = d.positions
      BY <1>2, <2>1, <2>2
    <2>4. server' # None => \E q \in requests : server'.positions = q.positions
      BY <1>2, <2>2
    <2> QED BY <2>2, <2>3, <2>4 DEF Passed
  <1>3. CASE SetState \/ Complete \/ Take \/ ServerRestarts
    <2>1. requests' = requests
          /\ snapshot' \in {snapshot} \cup (IF server = None THEN {} ELSE {server.positions})
      BY <1>3 DEF SetState, Complete, Take, ServerRestarts
    <2>2. server' # None => server # None /\ server'.positions = server.positions
      BY <1>0, <1>3 DEF SetState, Complete, Take, ServerRestarts, Handling
    <2> QED BY <2>1, <2>2 DEF Passed
  <1>4. CASE Poll
    <2>1. \A r \in requests' : r \in requests \/ r.positions = venue
      BY <1>4 DEF Poll
    <2> QED BY <1>4, <2>1 DEF Poll, Passed
  <1>5. CASE PollFails \/ TerminalRestarts
    <2>1. /\ requests' = {[r EXCEPT !.current = FALSE] : r \in requests}
          /\ server' = IF server = None THEN None ELSE [server EXCEPT !.current = FALSE]
          /\ snapshot' = snapshot
      BY <1>5 DEF PollFails, TerminalRestarts, Abandon
    <2>2. \A r \in requests' : \E q \in requests : r.positions = q.positions
      BY <1>0, <2>1 DEF Request
    <2>3. server' # None => server # None /\ server'.positions = server.positions
      BY <1>0, <2>1 DEF Handling
    <2> QED BY <2>1, <2>2, <2>3 DEF Passed
  <1>6. CASE Session
    BY <1>1, <1>6 DEF Session, Submit, ModifyStop, Close, ReadResult, GiveUp, SessionRestarts
  <1>7. CASE Advisor
    BY <1>1, <1>4, <1>5, <1>7
       DEF Advisor, GetReply, AllExecuted, ExecOrderSend, ExecModifySl, ExecClose
  <1> QED BY <1>1, <1>2, <1>3, <1>6, <1>7
          DEF Next, Server, Refuse, Drop, VenueCloses, PlacedFills, PlacedDies, vars

LEMMA StaleKeeps ==
  ASSUME IInv, StaleInv, [Next]_vars
  PROVE  StaleInv'
  <1>0. TypeInv /\ TypeInv' /\ Ages /\ Passed
    BY NextKeeps, StepAges, StepPasses DEF IInv, StaleInv
  <1>1. /\ venue \in Positions /\ venue' \in Positions
        /\ snapshot # None => snapshot \in Positions
        /\ \A r \in requests : r.positions \in Positions
        /\ server # None => server.positions \in Positions
    BY <1>0 DEF TypeInv, TypeOK, Request, Handling
  <1>2. Older(venue)
    <2>1. \A p \in DOMAIN venue : venue[p] \in Nat
      BY <1>1, PositionsMean, BridgeAssumption DEF Stops, BridgeAssumption
    <2> QED BY <2>1 DEF Older, StaleInv
  <1>3. \A P \in Positions : Older(P) => OlderNext(P)
    BY <1>0, <1>1, OlderStays
  <1>4. snapshot' # None => OlderNext(snapshot')
    BY <1>0, <1>1, <1>3 DEF StaleInv, Passed
  <1>5. \A r \in requests' : OlderNext(r.positions)
    BY <1>0, <1>1, <1>2, <1>3 DEF StaleInv, Passed
  <1>6. server' # None => OlderNext(server'.positions)
    BY <1>0, <1>1, <1>3 DEF StaleInv, Passed
  <1> QED BY <1>0, <1>4, <1>5, <1>6 DEF StaleInv, Older, OlderNext, Ages

\* However late, lost or repeated its polls, the session sees of the venue only
\* positions that were opened, at stops no higher than they now have.
THEOREM SnapshotLagsBehind == Spec => []SnapshotIsOlder
  <1>1. Init => StaleInv
    BY DEF Init, StaleInv
  <1>2. StaleInv => SnapshotIsOlder
    BY DEF StaleInv, SnapshotIsOlder, Older
  <1> QED BY <1>1, <1>2, BridgeInvariant, StaleKeeps, PTL DEF Spec

\* A position that is closed never comes back, whatever repeated or late command names it.
THEOREM ClosedIsClosed == Spec => ClosedStaysClosed
  <1>1. Init => StaleInv
    BY DEF Init, StaleInv
  <1>2. IInv /\ StaleInv /\ [Next]_vars =>
          \A p \in Opened : p \notin DOMAIN venue => p \notin DOMAIN venue'
    BY StepAges DEF StaleInv, Ages
  <1> QED BY <1>1, <1>2, BridgeInvariant, StaleKeeps, PTL DEF Spec, ClosedStaysClosed

-----------------------------------------------------------------------------
(* What the snapshot covers: the fills the session is told of. *)

Fill == {"FILLED", "FILLED_UNCONFIRMED", "PARTIAL"}

\* The orders of q that the results rs report as filled.
FillsIn(rs, q) ==
  {c \in 1..Len(q) : /\ q[c].cmd.op = "ORDER_SEND"
                     /\ \E k \in DOMAIN rs : rs[k].id = c /\ rs[k].report \in Fill}

FillsRecorded == {c \in Ids : queue[c].cmd.op = "ORDER_SEND" /\ queue[c].result \in Fill}

FillsOnTheirWay == UNION {FillsIn(r.results, queue) : r \in requests}

FillsAtServer == IF server = None THEN {} ELSE FillsIn(server.results, queue)

\* The orders whose fill is told of anywhere: in the table, by the advisor, in a poll, at
\* the server.
Reported == FillsRecorded \cup FillsIn(results, queue) \cup FillsOnTheirWay \cup FillsAtServer

\* The advisor waits for one poll, and of that one the server answers once.
OneCurrent ==
  /\ \A r \in requests : r.current => ea = "polling"
  /\ \A q, r \in requests : q.current /\ r.current => q = r
  /\ reply # None => ea = "polling"
  /\ server # None /\ server.current => ea = "polling" /\ reply = None
  /\ reply # None \/ (server # None /\ server.current) =>
       \A r \in requests : r.current => r.seen

\* A poll has the open positions of the fills it reports, the poll the advisor waits for
\* those of every fill there is; the server recorded no result whose positions it has not
\* stored.
CoverInv ==
  /\ OneCurrent
  /\ Reported \subseteq Opened
  /\ \A r \in requests :
       /\ FillsIn(r.results, queue) \cap DOMAIN venue \subseteq DOMAIN r.positions
       /\ r.current => Reported \cap DOMAIN venue \subseteq DOMAIN r.positions
  /\ server # None =>
       /\ FillsIn(server.results, queue) \cap DOMAIN venue \subseteq DOMAIN server.positions
       /\ server.current => Reported \cap DOMAIN venue \subseteq DOMAIN server.positions
       /\ server.stage = "results" => snapshot = server.positions

\* The poll r is the poll q, at most given up on since.
SamePoll(r, q) ==
  r.positions = q.positions /\ r.results = q.results /\ (r.current => q.current)

\* Where a step takes the polls and what they hold.
Carried ==
  /\ \A r \in requests' : \/ \E q \in requests : SamePoll(r, q)
                          \/ r.positions = venue /\ r.results = results
  /\ server' # None =>
       \/ /\ server # None /\ server'.positions = server.positions
          /\ server'.current => server.current
          /\ \A k \in DOMAIN server'.results :
               \E j \in DOMAIN server.results : server'.results[k] = server.results[j]
          /\ \/ server'.stage = server.stage /\ snapshot' = snapshot
             \/ snapshot' = server'.positions
       \/ server'.stage = "state" /\ \E q \in requests : SamePoll(server', q)

LEMMA OneCurrentKeeps == ASSUME IInv, OneCurrent, [Next]_vars PROVE OneCurrent'
  <1>0. /\ \A r \in requests : r \in Request
        /\ server # None => server \in Handling
    BY DEF IInv, TypeInv, TypeOK
  <1>1. ASSUME requests' \subseteq requests, UNCHANGED <<server, reply, ea>> PROVE OneCurrent'
    BY <1>1 DEF OneCurrent
  <1>2. ASSUME NEW r \in requests, Receive(r) PROVE OneCurrent'
    <2> DEFINE seen == [r EXCEPT !.seen = TRUE]
    <2>1. /\ requests' = (requests \ {r}) \cup {seen} /\ ~r.seen /\ server = None
          /\ server' # None => server'.current = r.current
          /\ UNCHANGED <<reply, ea>>
      BY <1>2 DEF Receive
    <2>2. seen.current = r.current /\ seen.seen
      BY <1>0, <1>2 DEF Request
    <2> HIDE DEF seen
    <2> QED BY <1>2, <2>1, <2>2 DEF OneCurrent
  <1>3. CASE SetState \/ Complete
    <2>1. /\ UNCHANGED <<requests, reply, ea>> /\ server # None
          /\ server' # None => server'.current = server.current
      BY <1>0, <1>3 DEF SetState, Complete, Handling
    <2> QED BY <2>1 DEF OneCurrent
  <1>4. CASE Take \/ ServerRestarts
    <2>1. /\ UNCHANGED <<requests, ea>> /\ server # None /\ server' = None
          /\ reply' = reply \/ server.current
      BY <1>4 DEF Take, ServerRestarts
    <2> QED BY <2>1 DEF OneCurrent
  <1>5. CASE Poll
    <2> DEFINE polled == [positions |-> venue, results |-> results, current |-> TRUE, seen |-> FALSE]
    <2>1. /\ requests' = requests \cup {polled} /\ ea = "timer" /\ ea' = "polling"
          /\ UNCHANGED <<server, reply>>
      BY <1>5 DEF Poll
    <2> HIDE DEF polled
    <2> QED BY <2>1 DEF OneCurrent
  <1>6. CASE GetReply
    <2>1. /\ \A r \in requests' : ~r.current
          /\ server' = server /\ reply' = None /\ reply # None
      BY <1>6 DEF GetReply
    <2> QED BY <2>1 DEF OneCurrent
  <1>7. CASE PollFails \/ TerminalRestarts
    <2>1. /\ requests' = {[r EXCEPT !.current = FALSE] : r \in requests}
          /\ server' = IF server = None THEN None ELSE [server EXCEPT !.current = FALSE]
          /\ reply' = None
      BY <1>7 DEF PollFails, TerminalRestarts, Abandon
    <2>2. \A r \in requests' : ~r.current
      BY <1>0, <2>1 DEF Request
    <2>3. server' # None => ~server'.current
      BY <1>0, <2>1 DEF Handling
    <2> QED BY <2>1, <2>2, <2>3 DEF OneCurrent
  <1>8. CASE AllExecuted
    BY <1>8 DEF AllExecuted, OneCurrent
  <1>9. CASE Session
    BY <1>1, <1>9 DEF Session, Submit, ModifyStop, Close, ReadResult, GiveUp, SessionRestarts
  <1>10. CASE Advisor
    BY <1>1, <1>5, <1>6, <1>7, <1>8, <1>10
       DEF Advisor, ExecOrderSend, ExecModifySl, ExecClose
  <1> QED BY <1>1, <1>2, <1>3, <1>4, <1>9, <1>10
          DEF Next, Server, Refuse, Drop, VenueCloses, PlacedFills, PlacedDies, vars

LEMMA StepCarries == ASSUME IInv, [Next]_vars PROVE Carried
  <1>0. /\ \A r \in requests : r \in Request
        /\ server # None => server \in Handling
    BY DEF IInv, TypeInv, TypeOK
  <1>1. ASSUME UNCHANGED <<snapshot, server>>, requests' \subseteq requests PROVE Carried
    BY <1>1 DEF Carried, SamePoll
  <1>2. ASSUME NEW r \in requests, Receive(r) PROVE Carried
    <2> DEFINE seen == [r EXCEPT !.seen = TRUE]
    <2>1. SamePoll(seen, r)
      BY <1>0, <1>2 DEF Request, SamePoll
    <2>2. /\ requests' = (requests \ {r}) \cup {seen}
          /\ server'.stage = "state" /\ SamePoll(server', r)
      BY <1>2 DEF Receive, SamePoll
    <2> HIDE DEF seen
    <2>3. \A q \in requests' : \E d \in requests : SamePoll(q, d)
      BY <1>2, <2>1, <2>2 DEF SamePoll
    <2> QED BY <1>2, <2>2, <2>3 DEF Carried
  <1>3. CASE SetState
    <2>1. /\ requests' = requests /\ snapshot' = server.positions /\ server # None
          /\ server' = [server EXCEPT !.stage = "results"]
      BY <1>3 DEF SetState
    <2>2. /\ server'.positions = server.positions /\ server'.current = server.current
          /\ server'.results = server.results
      BY <1>0, <2>1 DEF Handling
    <2> QED BY <2>1, <2>2 DEF Carried, SamePoll
  <1>4. CASE Complete
    <2>1. /\ requests' = requests /\ snapshot' = snapshot /\ server # None
          /\ server' = [server EXCEPT !.results = Tail(@)] /\ server.results # <<>>
      BY <1>4 DEF Complete
    <2>2. /\ server'.positions = server.positions /\ server'.current = server.current
          /\ server'.stage = server.stage /\ server'.results = Tail(server.results)
          /\ server.results \in Seq(Result)
      BY <1>0, <2>1 DEF Handling
    <2>3. \A k \in DOMAIN server'.results :
            \E j \in DOMAIN server.results : server'.results[k] = server.results[j]
      BY <2>1, <2>2, TailMeans
    <2> QED BY <2>1, <2>2, <2>3 DEF Carried, SamePoll
  <1>5. CASE Take \/ ServerRestarts
    BY <1>5 DEF Take, ServerRestarts, Carried, SamePoll
  <1>6. CASE Poll
    <2> DEFINE polled == [positions |-> venue, results |-> results, current |-> TRUE,
                          seen |-> FALSE]
    <2>1. requests' = requests \cup {polled} /\ UNCHANGED <<snapshot, server>>
          /\ polled.positions = venue /\ polled.results = results
      BY <1>6 DEF Poll
    <2> HIDE DEF polled
    <2> QED BY <2>1 DEF Carried, SamePoll
  <1>7. CASE PollFails \/ TerminalRestarts
    <2>1. /\ requests' = {[r EXCEPT !.current = FALSE] : r \in requests}
          /\ server' = IF server = None THEN None ELSE [server EXCEPT !.current = FALSE]
          /\ snapshot' = snapshot
      BY <1>7 DEF PollFails, TerminalRestarts, Abandon
    <2>2. \A r \in requests' : \E q \in requests : SamePoll(r, q)
      BY <1>0, <2>1 DEF Request, SamePoll
    <2>3. server' # None => /\ server # None /\ server'.positions = server.positions
                            /\ ~server'.current /\ server'.results = server.results
                            /\ server'.stage = server.stage
      BY <1>0, <2>1 DEF Handling
    <2> QED BY <2>1, <2>2, <2>3 DEF Carried
  <1>8. CASE Session
    BY <1>1, <1>8 DEF Session, Submit, ModifyStop, Close, ReadResult, GiveUp, SessionRestarts
  <1>9. CASE Advisor
    BY <1>1, <1>6, <1>7, <1>9
       DEF Advisor, GetReply, AllExecuted, ExecOrderSend, ExecModifySl, ExecClose
  <1> QED BY <1>1, <1>2, <1>3, <1>4, <1>5, <1>8, <1>9
          DEF Next, Server, Refuse, Drop, VenueCloses, PlacedFills, PlacedDies, vars

LEMMA ReportedHas ==
  /\ FillsRecorded \subseteq Reported /\ FillsIn(results, queue) \subseteq Reported
  /\ \A r \in requests : FillsIn(r.results, queue) \subseteq Reported
  /\ server # None => FillsIn(server.results, queue) \subseteq Reported
  <1>1. server # None => FillsIn(server.results, queue) \subseteq FillsAtServer
    BY DEF FillsAtServer
  <1>2. \A r \in requests : FillsIn(r.results, queue) \subseteq FillsOnTheirWay
    BY DEF FillsOnTheirWay
  <1> QED BY <1>1, <1>2 DEF Reported

\* What is reported of rows that only grow in number stays what it is.
LEMMA FillsStay ==
  ASSUME NEW q, NEW q2, NEW rs, \A k \in DOMAIN rs : rs[k].id \in 1..Len(q),
         1..Len(q) \subseteq 1..Len(q2), \A c \in 1..Len(q) : q2[c].cmd = q[c].cmd
  PROVE  FillsIn(rs, q2) = FillsIn(rs, q)
  BY DEF FillsIn

\* A step changes no command and records no fill that was not reported to the server; it
\* records one only as the server handles results.
LEMMA StepRecords ==
  ASSUME IInv, [Next]_vars
  PROVE  /\ Ids \subseteq Ids' /\ \A c \in Ids : queue'[c].cmd = queue[c].cmd
         /\ \A c \in FillsRecorded' :
              \/ c \in FillsRecorded
              \/ /\ server # None /\ server.stage = "results" /\ ~SetState
                 /\ c \in FillsIn(server.results, queue)
  <1> DEFINE Goal == /\ Ids \subseteq Ids' /\ \A c \in Ids : queue'[c].cmd = queue[c].cmd
                     /\ \A c \in FillsRecorded' :
                          \/ c \in FillsRecorded
                          \/ /\ server # None /\ server.stage = "results" /\ ~SetState
                             /\ c \in FillsIn(server.results, queue)
  <1>0. TypeInv
    BY DEF IInv
  <1>1. ASSUME queue' = queue PROVE Goal
    BY <1>1 DEF FillsRecorded, Ids
  <1>2. ASSUME NEW cmd \in Command, Enqueue(cmd) PROVE Goal
    <2>1. /\ Ids' = Ids \cup {Len(queue) + 1}
          /\ \A c \in Ids : queue'[c] = queue[c]
          /\ queue'[Len(queue) + 1].result = "none"
      BY <1>0, <1>2, EnqueueGrows
    <2> QED BY <2>1 DEF FillsRecorded, Fill
  <1>3. ASSUME NEW ids, \A k \in DOMAIN ids : ids[k] \in Ids /\ queue[ids[k]].status = "QUEUED",
               queue' = Taken(ids)
        PROVE  Goal
    <2>1. /\ Moved(queue')
          /\ \A c \in Ids : queue'[c].cmd = queue[c].cmd /\ queue'[c].result = queue[c].result
      BY <1>0, <1>3, TakenMeans
    <2>2. Ids' = Ids
      BY <2>1, MovedMeans DEF Ids
    <2> QED BY <2>1, <2>2 DEF FillsRecorded
  <1>4. CASE Complete
    <2> DEFINE r == Head(server.results)
    <2>1. /\ server # None /\ server.stage = "results" /\ server.results # <<>>
          /\ queue' = [queue EXCEPT ![r.id] = Completed(@, r.report)]
          /\ server.results \in Seq(Result)
      BY <1>0, <1>4 DEF Complete, TypeInv, Handling
    <2>2. 1 \in DOMAIN server.results /\ r = server.results[1]
      BY <2>1, TailMeans
    <2>3. Moved(queue') /\ queue \in [Ids -> Row]
      BY <1>0, <1>4, CompleteMoves, TypesMean
    <2>4. Ids' = Ids /\ \A c \in Ids : queue'[c].cmd = queue[c].cmd
      BY <2>3, MovedMeans DEF Ids, Moved
    <2> HIDE DEF r
    <2>5. \A c \in Ids : queue'[c].result = queue[c].result
                         \/ (c = r.id /\ queue'[c].result = r.report)
      <3>1. ASSUME NEW c \in Ids, c # r.id PROVE queue'[c] = queue[c]
        BY <2>1, <2>3, <3>1
      <3>2. ASSUME r.id \in Ids PROVE queue'[r.id] = Completed(queue[r.id], r.report)
        BY <2>1, <2>3, <3>2
      <3>3. \A row \in Row : Completed(row, r.report).result \in {row.result, r.report}
        BY DEF Completed, Row
      <3>4. ASSUME r.id \in Ids PROVE queue'[r.id].result \in {queue[r.id].result, r.report}
        BY <2>3, <3>2, <3>3, <3>4
      <3>5. ASSUME NEW c \in Ids
            PROVE  queue'[c].result = queue[c].result \/ (c = r.id /\ queue'[c].result = r.report)
        <4>1. CASE c = r.id
          BY <3>4, <4>1
        <4> QED BY <3>1, <4>1
      <3> QED BY <3>5
    <2>6. ~SetState
      BY <2>1 DEF SetState
    <2>7. ASSUME NEW c \in FillsRecorded', c \notin FillsRecorded
          PROVE  c \in FillsIn(server.results, queue)
      <3>1. /\ c \in Ids /\ queue[c].cmd.op = "ORDER_SEND" /\ queue'[c].result \in Fill
            /\ queue[c].result \notin Fill
        BY <2>4, <2>7 DEF FillsRecorded
      <3>2. c = r.id /\ r.report \in Fill
        BY <2>5, <3>1
      <3> QED BY <2>2, <3>1, <3>2 DEF FillsIn, Ids
    <2> QED BY <2>1, <2>4, <2>6, <2>7
  <1>5. CASE Take \/ ServerRestarts
    <2>1. \/ queue' = queue
          \/ \E ids : /\ \A k \in DOMAIN ids : ids[k] \in Ids /\ queue[ids[k]].status = "QUEUED"
                      /\ queue' = Taken(ids)
      BY <1>0, <1>5, PendingMeans, PendingPrefix DEF Take, ServerRestarts
    <2> QED BY <1>1, <1>3, <2>1
  <1>6. CASE Session
    <2>1. queue' = queue \/ \E cmd \in Command : Enqueue(cmd)
      BY <1>0, <1>6, CommandsAreTyped DEF Session, ReadResult, GiveUp, SessionRestarts
    <2> QED BY <1>1, <1>2, <2>1
  <1> QED BY <1>1, <1>4, <1>5, <1>6
          DEF Next, Server, Advisor, Receive, Refuse, SetState, Drop, VenueCloses, PlacedFills,
              PlacedDies, Poll, GetReply, PollFails, AllExecuted, TerminalRestarts,
              ExecOrderSend, ExecModifySl, ExecClose, vars

\* The advisor adds to its results only with no poll under way, and only fills of orders
\* whose position opens then.
LEMMA ResultsCarry ==
  ASSUME IInv, CoverInv, [Next]_vars, Ages
  PROVE  \/ results' \in {results, <<>>}
         \/ /\ ea = "executing"
            /\ FillsIn(results', queue') \subseteq FillsIn(results, queue) \cup Opened'
  <1>1. \/ results' \in {results, <<>>}
        \/ \E c \in Ids : ExecOrderSend(c) \/ ExecModifySl(c) \/ ExecClose(c)
    BY DEF Next, Session, Submit, ModifyStop, Close, ReadResult, GiveUp, SessionRestarts, Server,
           Advisor, Receive, Refuse, SetState, Complete, Take, ServerRestarts, Drop, VenueCloses,
           PlacedFills, PlacedDies, Poll, GetReply, PollFails, AllExecuted, TerminalRestarts,
           Enqueue, vars
  <1>2. ASSUME NEW c \in Ids, NEW reports \in Seq(Report), Reports(c, reports), queue' = queue,
               \A k \in DOMAIN reports :
                 queue[c].cmd.op = "ORDER_SEND" /\ reports[k] \in Fill => c \in Opened'
        PROVE  FillsIn(results', queue') \subseteq FillsIn(results, queue) \cup Opened'
    <2> DEFINE new == [k \in DOMAIN reports |-> [id |-> c, report |-> reports[k]]]
    <2>0. results \in Seq(Result) /\ new \in Seq([id : {c}, report : Report])
      <3>1. reports \in [1..Len(reports) -> Report] /\ Len(reports) \in Nat
            /\ DOMAIN reports = 1..Len(reports)
        BY <1>2, LenProperties
      <3>2. new \in [1..Len(reports) -> [id : {c}, report : Report]]
        BY <3>1
      <3> QED BY <3>1, <3>2 DEF IInv, TypeInv, TypeOK
    <2>1. results' = results \o new
      BY <1>2 DEF Reports
    <2>2. \A k \in DOMAIN new : k \in DOMAIN reports /\ new[k].id = c /\ new[k].report = reports[k]
      OBVIOUS
    <2> HIDE DEF new
    <2>3. \A k \in DOMAIN results' : \/ k \in DOMAIN results /\ results'[k] = results[k]
                                     \/ \E j \in DOMAIN new : results'[k] = new[j]
      BY <2>0, <2>1
    <2>4. ASSUME NEW d \in FillsIn(results', queue'), d \notin FillsIn(results, queue)
          PROVE  d \in Opened'
      <3>1. PICK k \in DOMAIN results' : results'[k].id = d /\ results'[k].report \in Fill
        BY <2>4 DEF FillsIn
      <3>2. /\ d \in 1..Len(queue) /\ queue[d].cmd.op = "ORDER_SEND"
            /\ ~\E i \in DOMAIN results : results[i].id = d /\ results[i].report \in Fill
        BY <1>2, <2>4 DEF FillsIn
      <3>3. PICK j \in DOMAIN new : results'[k] = new[j]
        BY <2>3, <3>1, <3>2
      <3>4. d = c /\ reports[j] \in Fill /\ j \in DOMAIN reports
        BY <2>2, <3>1, <3>3
      <3> QED BY <1>2, <3>2, <3>4
    <2> QED BY <2>4
  <1>3. ASSUME NEW c \in Ids, ExecModifySl(c) \/ ExecClose(c)
        PROVE  FillsIn(results', queue') \subseteq FillsIn(results, queue) \cup Opened'
    <2>1. queue' = queue /\ queue[c].cmd.op # "ORDER_SEND"
      BY <1>3 DEF ExecModifySl, ExecClose, Executing
    <2>2. \E report \in Report : Reports(c, <<report>>)
      BY <1>3 DEF ExecModifySl, ExecClose, Report
    <2> QED BY <1>2, <2>1, <2>2, OneReport
  <1>4. ASSUME NEW c \in Ids, ExecOrderSend(c)
        PROVE  FillsIn(results', queue') \subseteq FillsIn(results, queue) \cup Opened'
    <2>0. /\ queue' = queue /\ queue[c].cmd.op = "ORDER_SEND" /\ Executing(c, "ORDER_SEND")
          /\ executed' \in {executed, [executed EXCEPT ![c] = @ + 1]}
      BY <1>4 DEF ExecOrderSend, Executing
    <2>1. executed[c] = 0 /\ executed \in [Ids -> Nat] /\ Ids' = Ids /\ c \notin placed
      BY <2>0, ExecutesOnce, TypesMean DEF IInv, PlaceInv
    <2>2. ASSUME executed' = [executed EXCEPT ![c] = @ + 1], placed' = placed PROVE c \in Opened'
      BY <2>0, <2>1, <2>2 DEF Opened
    <2>3. CASE \E report \in {"REJECTED", "ACCEPTED"} : Reports(c, <<report>>)
      <3>1. PICK report \in {"REJECTED", "ACCEPTED"} : Reports(c, <<report>>)
        BY <2>3
      <3>2. report \in Report /\ report \notin Fill
        BY DEF Report, Fill
      <3> QED BY <1>2, <2>0, <3>1, <3>2, OneReport
    <2>4. CASE /\ executed' = [executed EXCEPT ![c] = @ + 1] /\ placed' = placed
               /\ \E reports \in Seq(Report) : Reports(c, reports)
      BY <1>2, <2>0, <2>2, <2>4
    <2>5. ASSUME NEW fill \in Fill PROVE <<fill>> \in Seq(Report) /\ <<fill, "REJECTED">> \in Seq(Report)
      BY <2>5, OneReport, TwoReports DEF Fill, Report
    <2> QED BY <1>4, <2>3, <2>4, <2>5 DEF ExecOrderSend, Fill
  <1> QED BY <1>1, <1>3, <1>4 DEF ExecOrderSend, ExecModifySl, ExecClose, Executing

\* The fills that are told of anywhere were told of before, or their orders open now.
LEMMA ReportedCarry ==
  ASSUME IInv, CoverInv, [Next]_vars, Ages
  PROVE  /\ Reported' \subseteq Opened'
         /\ Reported' \subseteq Reported \/ ea = "executing"
  <1>0. Carried /\ IInv' /\ TypeInv /\ GroundInv
    BY StepCarries, NextKeeps DEF IInv
  <1>1. /\ Ids \subseteq Ids' /\ \A c \in Ids : queue'[c].cmd = queue[c].cmd
        /\ FillsRecorded' \subseteq Reported
    BY StepRecords, ReportedHas
  <1>2. ASSUME NEW rs, Grounded(rs, queue, executed)
        PROVE  FillsIn(rs, queue') = FillsIn(rs, queue)
    BY <1>1, <1>2, FillsStay DEF Grounded, Ids
  <1>3. ASSUME NEW r \in requests' PROVE FillsIn(r.results, queue') \subseteq Reported
    <2>1. (\E q \in requests : r.results = q.results) \/ r.results = results
      BY <1>0 DEF Carried, SamePoll
    <2> QED BY <1>0, <1>2, <2>1, ReportedHas DEF GroundInv
  <1>4. server' # None => FillsIn(server'.results, queue') \subseteq Reported
    <2>1. ASSUME server' # None, server # None,
                 \A k \in DOMAIN server'.results :
                   \E j \in DOMAIN server.results : server'.results[k] = server.results[j]
          PROVE  FillsIn(server'.results, queue') \subseteq Reported
      <3>1. Grounded(server'.results, queue, executed)
        BY <1>0, <2>1 DEF GroundInv, Grounded
      <3>2. FillsIn(server'.results, queue) \subseteq FillsIn(server.results, queue)
        BY <2>1 DEF FillsIn
      <3> QED BY <1>2, <2>1, <3>1, <3>2, ReportedHas
    <2>2. ASSUME server' # None, NEW q \in requests, SamePoll(server', q)
          PROVE  FillsIn(server'.results, queue') \subseteq Reported
      BY <1>0, <1>2, <2>2, ReportedHas DEF GroundInv, SamePoll
    <2> QED BY <1>0, <2>1, <2>2 DEF Carried
  <1>5. \/ FillsIn(results', queue') \subseteq Reported
        \/ ea = "executing" /\ FillsIn(results', queue') \subseteq Reported \cup Opened'
    <2>1. FillsIn(<<>>, queue') = {}
      BY DEF FillsIn
    <2>2. FillsIn(results, queue') = FillsIn(results, queue)
      BY <1>0, <1>2 DEF GroundInv
    <2> QED BY <2>1, <2>2, ResultsCarry, ReportedHas
  <1>6. FillsAtServer' \subseteq Reported
    BY <1>4 DEF FillsAtServer
  <1>9. FillsOnTheirWay' \subseteq Reported
    BY <1>3 DEF FillsOnTheirWay
  <1>7. Reported \subseteq Opened'
    BY DEF CoverInv, Ages
  <1>8. Reported' \subseteq Reported \cup FillsIn(results', queue')
    BY <1>1, <1>6, <1>9 DEF Reported
  <1> QED BY <1>5, <1>7, <1>8

LEMMA CoverKeeps == ASSUME IInv, StaleInv, CoverInv, [Next]_vars PROVE CoverInv'
  <1>0. /\ Carried /\ Ages /\ OneCurrent' /\ TypeInv /\ GroundInv
        /\ Reported' \subseteq Opened' /\ (Reported' \subseteq Reported \/ ea = "executing")
    BY StepCarries, StepAges, OneCurrentKeeps, ReportedCarry DEF StaleInv, CoverInv, IInv
  <1>1. /\ Ids \subseteq Ids' /\ \A c \in Ids : queue'[c].cmd = queue[c].cmd
    BY StepRecords
  <1>2. ASSUME NEW rs, Grounded(rs, queue, executed)
        PROVE  FillsIn(rs, queue') = FillsIn(rs, queue)
    BY <1>1, <1>2, FillsStay DEF Grounded, Ids
  <1>3. ASSUME NEW S, S \subseteq Opened, NEW P, S \cap DOMAIN venue \subseteq DOMAIN P
        PROVE  S \cap DOMAIN venue' \subseteq DOMAIN P
    BY <1>0, <1>3 DEF Ages
  \* A poll that was there: what it has still covers what it tells, and all there is.
  <1>4. ASSUME NEW rs, FillsIn(rs, queue) \subseteq Reported, NEW P,
               FillsIn(rs, queue) \cap DOMAIN venue \subseteq DOMAIN P
        PROVE  FillsIn(rs, queue) \cap DOMAIN venue' \subseteq DOMAIN P
    BY <1>3, <1>4 DEF CoverInv
  <1>5. ASSUME NEW P, Reported \cap DOMAIN venue \subseteq DOMAIN P, Reported' \subseteq Reported
        PROVE  Reported' \cap DOMAIN venue' \subseteq DOMAIN P
    BY <1>3, <1>5 DEF CoverInv
  <1>6. ASSUME NEW r \in requests'
        PROVE  /\ FillsIn(r.results, queue') \cap DOMAIN venue' \subseteq DOMAIN r.positions
               /\ r.current => Reported' \cap DOMAIN venue' \subseteq DOMAIN r.positions
    <2>1. ASSUME NEW q \in requests, SamePoll(r, q)
          PROVE  /\ FillsIn(r.results, queue') \cap DOMAIN venue' \subseteq DOMAIN r.positions
                 /\ r.current => Reported' \cap DOMAIN venue' \subseteq DOMAIN r.positions
      <3>1. FillsIn(r.results, queue') = FillsIn(q.results, queue)
        BY <1>0, <1>2, <2>1 DEF GroundInv, SamePoll
      <3>2. FillsIn(q.results, queue) \cap DOMAIN venue' \subseteq DOMAIN q.positions
        BY <1>4, ReportedHas DEF CoverInv
      <3>3. ASSUME r.current PROVE Reported' \cap DOMAIN venue' \subseteq DOMAIN q.positions
        <4>1. q.current /\ ea = "polling"
          BY <2>1, <3>3 DEF SamePoll, CoverInv, OneCurrent
        <4> QED BY <1>0, <1>5, <4>1 DEF CoverInv
      <3> QED BY <2>1, <3>1, <3>2, <3>3 DEF SamePoll
    <2>2. ASSUME r.positions = venue, r.results = results
          PROVE  /\ FillsIn(r.results, queue') \cap DOMAIN venue' \subseteq DOMAIN r.positions
                 /\ r.current => Reported' \cap DOMAIN venue' \subseteq DOMAIN r.positions
      <3>1. FillsIn(r.results, queue') = FillsIn(results, queue)
        BY <1>0, <1>2, <2>2 DEF GroundInv
      <3>2. FillsIn(results, queue) \cap DOMAIN venue' \subseteq DOMAIN venue
        BY <1>4, ReportedHas
      <3>3. r.current => Reported' \cap DOMAIN venue' \subseteq DOMAIN venue
        <4>1. ASSUME r.current PROVE ea' = "polling"
          BY <1>0, <4>1 DEF OneCurrent
        <4>2. ASSUME ea' = "polling", ea = "executing" PROVE FALSE
          BY <4>2 DEF Next, Session, Submit, ModifyStop, Close, Enqueue, ReadResult, GiveUp,
             SessionRestarts, Server, Receive, Refuse, SetState, Complete, Take, ServerRestarts,
             Advisor, Poll, GetReply, PollFails, AllExecuted, TerminalRestarts, ExecOrderSend,
             ExecModifySl, ExecClose, Drop, VenueCloses, PlacedFills, PlacedDies, vars
        <4> QED BY <1>0, <1>5, <4>1, <4>2
      <3> QED BY <2>2, <3>1, <3>2, <3>3
    <2> QED BY <1>0, <2>1, <2>2 DEF Carried
  <1>7. ASSUME server' # None
        PROVE  /\ FillsIn(server'.results, queue') \cap DOMAIN venue' \subseteq DOMAIN server'.positions
               /\ server'.current => Reported' \cap DOMAIN venue' \subseteq DOMAIN server'.positions
               /\ server'.stage = "results" => snapshot' = server'.positions
    <2>1. ASSUME server # None, server'.positions = server.positions,
                 server'.current => server.current,
                 \A k \in DOMAIN server'.results :
                   \E j \in DOMAIN server.results : server'.results[k] = server.results[j],
                 \/ server'.stage = server.stage /\ snapshot' = snapshot
                 \/ snapshot' = server'.positions
          PROVE  /\ FillsIn(server'.results, queue') \cap DOMAIN venue'
                      \subseteq DOMAIN server'.positions
                 /\ server'.current => Reported' \cap DOMAIN venue' \subseteq DOMAIN server'.positions
                 /\ server'.stage = "results" => snapshot' = server'.positions
      <3>1. Grounded(server'.results, queue, executed)
        BY <1>0, <2>1 DEF GroundInv, Grounded
      <3>2. FillsIn(server'.results, queue') \subseteq FillsIn(server.results, queue)
        <4>1. FillsIn(server'.results, queue) \subseteq FillsIn(server.results, queue)
          BY <2>1 DEF FillsIn
        <4> QED BY <1>2, <3>1, <4>1
      <3>3. FillsIn(server.results, queue) \cap DOMAIN venue' \subseteq DOMAIN server.positions
        BY <1>4, <2>1, ReportedHas DEF CoverInv
      <3>4. ASSUME server'.current
            PROVE  Reported' \cap DOMAIN venue' \subseteq DOMAIN server.positions
        <4>1. server.current /\ ea = "polling"
          BY <2>1, <3>4 DEF CoverInv, OneCurrent
        <4> QED BY <1>0, <1>5, <2>1, <4>1 DEF CoverInv
      <3>5. server'.stage = "results" => snapshot' = server'.positions
        BY <2>1 DEF CoverInv
      <3> QED BY <2>1, <3>2, <3>3, <3>4, <3>5
    <2>2. ASSUME server'.stage = "state", NEW q \in requests, SamePoll(server', q)
          PROVE  /\ FillsIn(server'.results, queue') \cap DOMAIN venue'
                      \subseteq DOMAIN server'.positions
                 /\ server'.current => Reported' \cap DOMAIN venue' \subseteq DOMAIN server'.positions
                 /\ server'.stage = "results" => snapshot' = server'.positions
      <3>1. FillsIn(server'.results, queue') = FillsIn(q.results, queue)
        BY <1>0, <1>2, <2>2 DEF GroundInv, SamePoll
      <3>2. FillsIn(q.results, queue) \cap DOMAIN venue' \subseteq DOMAIN q.positions
        BY <1>4, ReportedHas DEF CoverInv
      <3>3. ASSUME server'.current PROVE Reported' \cap DOMAIN venue' \subseteq DOMAIN q.positions
        <4>1. q.current /\ ea = "polling"
          BY <2>2, <3>3 DEF SamePoll, CoverInv, OneCurrent
        <4> QED BY <1>0, <1>5, <4>1 DEF CoverInv
      <3> QED BY <2>2, <3>1, <3>2, <3>3 DEF SamePoll
    <2> QED BY <1>0, <1>7, <2>1, <2>2 DEF Carried
  <1> QED BY <1>0, <1>6, <1>7 DEF CoverInv

\* However late, lost or repeated the polls and whenever an order the venue took opens its
\* position: a fill that becomes known finds its position in the snapshot, the next poll in
\* time brings every one, and nothing but a late poll takes one away (BridgeQueue.set_state,
\* complete; the poll handler; VanBridgeEA's OnTimer).
THEOREM FillsAreCovered == Spec => SnapshotCoversFills
  <1>1. Init => StaleInv /\ CoverInv
    BY DEF Init, StaleInv, CoverInv, OneCurrent, Reported, FillsRecorded, FillsIn, Ids,
           FillsAtServer, FillsOnTheirWay
  <1> DEFINE Covers == /\ SetState /\ server.current => Uncovered' = {}
                       /\ ~SetState => Uncovered' \subseteq Uncovered
  <1>2. ASSUME IInv, StaleInv, CoverInv, [Next]_vars PROVE Covers
    <2>0. /\ Ages /\ Reported \subseteq Opened /\ FillsRecorded \subseteq Reported
          /\ CoverInv'
      BY <1>2, StepAges, CoverKeeps, ReportedHas DEF StaleInv, CoverInv
    <2>1. Uncovered = {c \in FillsRecorded : c \in DOMAIN venue /\ c \notin DOMAIN snapshot}
      BY DEF Uncovered, FillsRecorded, Fill
    <2>2. Uncovered' =
            {c \in FillsRecorded' : c \in DOMAIN venue' /\ c \notin DOMAIN snapshot'}
      BY DEF Uncovered, FillsRecorded, Fill
    <2>3. ASSUME SetState, server.current PROVE Uncovered' = {}
      <3>1. /\ FillsRecorded' = FillsRecorded /\ venue' = venue /\ server # None
            /\ snapshot' = server.positions
        BY <2>3 DEF SetState, FillsRecorded, Ids
      <3>2. Reported \cap DOMAIN venue \subseteq DOMAIN server.positions
        BY <1>2, <2>3, <3>1 DEF CoverInv
      <3> QED BY <2>0, <2>2, <3>1, <3>2
    <2>4. ASSUME ~SetState, NEW c \in Uncovered' PROVE c \in Uncovered
      <3>1. snapshot' = snapshot
        BY <1>2, <2>4 DEF Next, Session, Submit, ModifyStop, Close, ReadResult, GiveUp,
           SessionRestarts, Server, Receive, Refuse, Complete, Take, ServerRestarts, Advisor, Poll,
           GetReply, PollFails, AllExecuted, TerminalRestarts, ExecOrderSend, ExecModifySl,
           ExecClose, Drop, VenueCloses, PlacedFills, PlacedDies, vars
      <3>2. \/ c \in FillsRecorded
            \/ /\ server # None /\ server.stage = "results" /\ c \in FillsIn(server.results, queue)
        BY <1>2, <2>2, <2>4, StepRecords
      <3>3. c \in Opened
        BY <2>0, <3>2, ReportedHas
      <3>4. c \in DOMAIN venue /\ c \notin DOMAIN snapshot
        BY <2>0, <2>2, <2>4, <3>1, <3>3 DEF Ages
      <3>5. c \in FillsRecorded
        BY <1>2, <3>2, <3>4 DEF CoverInv
      <3> QED BY <2>1, <3>4, <3>5
    <2> QED BY <2>3, <2>4
  <1>3. IInv /\ StaleInv /\ CoverInv /\ [Next]_vars => StaleInv' /\ CoverInv'
    BY StaleKeeps, CoverKeeps
  <1> QED BY <1>1, <1>2, <1>3, BridgeInvariant, PTL DEF Spec, SnapshotCoversFills

=============================================================================
