----------------------------- MODULE EventStream -----------------------------
(***************************************************************************)
(* The event stream from the gateway to one device: the table of events and  *)
(* its replay (van_gateway/events/bus.py), the two carriers that replay it,  *)
(* the poll of the activity feed (WorkModules.kt, GET /v1/events) and the    *)
(* session's socket (session/api.py, VanHermesSessionManager.kt), and the    *)
(* one history they both feed on the device (EventStream.kt,                 *)
(* VanEventStreamStore.kt) with the cursor that survives its process.        *)
(*                                                                          *)
(* The carriers run at the same time.  A replay reads the ceiling and the    *)
(* rows by two statements; a page is applied on its carrier's own thread,    *)
(* without a lock: the state is read, replaced, the cursor saved, and the    *)
(* new records announced.  Replies get lost, which is counted in the same    *)
(* state, the socket breaks once and for all, and the device's process dies  *)
(* and starts again.                                                         *)
(***************************************************************************)
EXTENDS Naturals, Sequences, FiniteSets, FiniteSetsExt

CONSTANTS
  Poll,          \* the loop of the activity feed
  Socket,        \* the pump of the session's socket
  PageSize,      \* events in a page of replay
  MaxRetained,   \* events the device keeps
  MaxEvents,     \* bound: events published
  MaxRestarts    \* bound: starts of the device's process after the first

Carriers == {Poll, Socket}

ASSUME StreamAssumption ==
  /\ Poll # Socket
  /\ PageSize \in Nat \ {0} /\ MaxRetained \in Nat \ {0}
  /\ MaxEvents \in Nat /\ MaxRestarts \in Nat

VARIABLES
  log,        \* table events: is event n for this device (or for every one)
  replays,    \* the replay of each carrier at the gateway
  pushed,     \* the cursor of the socket's pump
  linked,     \* is the socket up
  wire,       \* frames on their way to the device, one event each, in their order
  hands,      \* the page each carrier's thread is applying
  shown,      \* the device's history: its cursor and the events it holds
  saved,      \* the cursor on the device's disk
  seen,       \* events that a page brought to the history
  announced,  \* events emitted to the producers (newRecords)
  restarts    \* starts so far

vars == <<log, replays, pushed, linked, wire, hands, shown, saved, seen, announced, restarts>>

gateway == <<log, replays, pushed, linked, wire>>
device == <<hands, shown, saved, seen, announced, restarts>>

Events == 1..MaxEvents

NoPage == [events |-> {}, next |-> 0]

NoReplay == [pc |-> "idle", after |-> 0, ceiling |-> 0, page |-> NoPage]

Empty == [cursor |-> 0, events |-> {}]

NoHand == [pc |-> "idle", page |-> NoPage, before |-> Empty]

Init ==
  /\ log = <<>>
  /\ replays = [c \in Carriers |-> NoReplay]
  /\ pushed = 0
  /\ linked = TRUE
  /\ wire = {}
  /\ hands = [c \in Carriers |-> NoHand]
  /\ shown = Empty
  /\ saved = 0
  /\ seen = {}
  /\ announced = {}
  /\ restarts = 0

-----------------------------------------------------------------------------
(* The gateway. *)

\* The sequence number comes from the table.
Publish(mine) ==
  /\ Len(log) < MaxEvents
  /\ log' = Append(log, mine)
  /\ UNCHANGED <<replays, pushed, linked, wire, device>>

\* Mutant: the events of other devices are replayed too.
Everything(after, ceiling) == (after + 1)..ceiling

\* seq > after AND seq <= ceiling AND (target_device_id IS NULL OR ..= device).
Visible(after, ceiling) == {n \in (after + 1)..ceiling : log[n]}

FirstPage(ns) == {n \in ns : Cardinality({k \in ns : k < n}) < PageSize}

\* Mutant: the cursor moves to the ceiling although the page was cut.
ToCeiling(page, r) == IF r.ceiling > r.after THEN r.ceiling ELSE r.after

\* A full page ends at its last event, any other at the ceiling.
NextCursor(page, r) == IF Cardinality(page) = PageSize THEN Max(page) ELSE ToCeiling(page, r)

Ask(c, after) ==
  /\ replays[c].pc = "idle"
  /\ replays' = [replays EXCEPT ![c] = [NoReplay EXCEPT !.pc = "asked", !.after = after]]

\* GET /v1/events with the history's cursor, when the last page is applied.
PollAsks ==
  /\ hands[Poll].pc = "idle"
  /\ Ask(Poll, shown.cursor)
  /\ UNCHANGED <<log, pushed, linked, wire, device>>

PumpAsks ==
  /\ linked
  /\ Ask(Socket, pushed)
  /\ UNCHANGED <<log, pushed, linked, wire, device>>

\* SELECT MAX(seq).
ReadFirst(r) == [r EXCEPT !.pc = "ceiling", !.ceiling = Len(log)]

ReadCeiling(c) ==
  /\ replays[c].pc = "asked"
  /\ replays' = [replays EXCEPT ![c] = ReadFirst(@)]
  /\ UNCHANGED <<log, pushed, linked, wire, device>>

PageOf(r) ==
  LET events == FirstPage(Visible(r.after, r.ceiling))
  IN  [events |-> events, next |-> NextCursor(events, r)]

\* The poll's reply is on its way.
ReadRows ==
  /\ replays[Poll].pc = "ceiling"
  /\ replays' = [replays EXCEPT ![Poll].pc = "reply", ![Poll].page = PageOf(replays[Poll])]
  /\ UNCHANGED <<log, pushed, linked, wire, device>>

\* The pump sends a frame for each event of its page, and goes on from its end.
PumpRows ==
  LET page == PageOf(replays[Socket]) IN
  /\ replays[Socket].pc = "ceiling"
  /\ replays' = [replays EXCEPT ![Socket] = NoReplay]
  /\ wire' = wire \cup page.events
  /\ pushed' = page.next
  /\ UNCHANGED <<log, linked, device>>

\* onFailure, onClosed: nothing connects the socket again before the next start.
Unlink ==
  /\ linked
  /\ linked' = FALSE
  /\ replays' = [replays EXCEPT ![Socket] = NoReplay]
  /\ wire' = {}
  /\ UNCHANGED <<log, pushed, device>>

-----------------------------------------------------------------------------
(* The device. *)

Take(c, page) ==
  /\ hands[c].pc = "idle"
  /\ hands' = [hands EXCEPT ![c] = [NoHand EXCEPT !.pc = "page", !.page = page]]

PollReceives ==
  /\ replays[Poll].pc = "reply"
  /\ Take(Poll, replays[Poll].page)
  /\ replays' = [replays EXCEPT ![Poll] = NoReplay]
  /\ UNCHANGED <<log, pushed, linked, wire, shown, saved, seen, announced, restarts>>

\* The request or its reply is lost, or the gateway refuses it: fail() counts it in
\* the state, again without a lock.
PollFails ==
  /\ replays[Poll].pc # "idle"
  /\ replays' = [replays EXCEPT ![Poll] = NoReplay]
  /\ hands' = [hands EXCEPT ![Poll] = [NoHand EXCEPT !.pc = "fail"]]
  /\ UNCHANGED <<log, pushed, linked, wire, shown, saved, seen, announced, restarts>>

\* onMessage: a frame is a page of one event; frames arrive in the order in which
\* they were sent, that of their events.
FrameArrives ==
  LET n == Min(wire) IN
  /\ wire # {}
  /\ Take(Socket, [events |-> {n}, next |-> n])
  /\ wire' = wire \ {n}
  /\ UNCHANGED <<log, replays, pushed, linked, shown, saved, seen, announced, restarts>>

\* apply and fail: the state is read into a local.
ReadState(c) ==
  /\ hands[c].pc \in {"page", "fail"}
  /\ hands' = [hands EXCEPT ![c].pc = IF @ = "page" THEN "write" ELSE "keep",
                            ![c].before = shown]
  /\ UNCHANGED <<gateway, shown, saved, seen, announced, restarts>>

Newest(ns) == {n \in ns : Cardinality({k \in ns : k > n}) < MaxRetained}

\* EventStream.applyPage: never rewinds what it was given.
Applied(hand) ==
  [cursor |-> Max({hand.before.cursor, hand.page.next}),
   events |-> Newest(hand.before.events \cup hand.page.events)]

WriteState(c) ==
  /\ hands[c].pc = "write"
  /\ shown' = Applied(hands[c])
  /\ seen' = seen \cup hands[c].page.events
  /\ hands' = [hands EXCEPT ![c].pc = "save"]
  /\ UNCHANGED <<gateway, saved, announced, restarts>>

KeepState(c) ==
  /\ hands[c].pc = "keep"
  /\ shown' = hands[c].before
  /\ hands' = [hands EXCEPT ![c] = NoHand]
  /\ UNCHANGED <<gateway, saved, seen, announced, restarts>>

SaveCursor(c) ==
  /\ hands[c].pc = "save"
  /\ saved' = Applied(hands[c]).cursor
  /\ hands' = [hands EXCEPT ![c].pc = "announce"]
  /\ UNCHANGED <<gateway, shown, seen, announced, restarts>>

\* Mutant: the page is compared with the history it is already part of.
NewLate(hand) == hand.page.events \ shown.events

\* Events that were not in the state it read.
New(hand) == hand.page.events \ hand.before.events

Announce(c) ==
  /\ hands[c].pc = "announce"
  /\ announced' = announced \cup New(hands[c])
  /\ hands' = [hands EXCEPT ![c] = NoHand]
  /\ UNCHANGED <<gateway, shown, saved, seen, restarts>>

\* The process dies and starts again: the history is empty, its cursor the saved
\* one; the session is a new one, and its pump begins at the first event.
Restart ==
  /\ restarts < MaxRestarts
  /\ restarts' = restarts + 1
  /\ hands' = [c \in Carriers |-> NoHand]
  /\ shown' = [Empty EXCEPT !.cursor = saved]
  /\ replays' = [c \in Carriers |-> NoReplay]
  /\ wire' = {}
  /\ linked' = TRUE
  /\ pushed' = 0
  /\ UNCHANGED <<log, saved, seen, announced>>

Apply(c) == ReadState(c) \/ WriteState(c) \/ KeepState(c) \/ SaveCursor(c) \/ Announce(c)

Next ==
  \/ \E mine \in BOOLEAN : Publish(mine)
  \/ PollAsks
  \/ PumpAsks
  \/ \E c \in Carriers : ReadCeiling(c) \/ Apply(c)
  \/ ReadRows
  \/ PumpRows
  \/ PollFails
  \/ Unlink
  \/ PollReceives
  \/ FrameArrives
  \/ Restart

Spec == Init /\ [][Next]_vars

\* The feed stays open: it polls again and again, not every request fails, and
\* a thread that has a page applies it.
FairSpec ==
  /\ Spec
  /\ WF_vars(PollAsks)
  /\ SF_vars(ReadCeiling(Poll))
  /\ SF_vars(ReadRows)
  /\ SF_vars(PollReceives)
  /\ WF_vars(Apply(Poll))
  /\ WF_vars(Apply(Socket))

-----------------------------------------------------------------------------
(* Properties. *)

Mine == {n \in 1..Len(log) : log[n]}

Pages == [events : SUBSET Events, next : 0..MaxEvents]

Histories == [cursor : 0..MaxEvents, events : SUBSET Events]

Replays == [pc : {"idle", "asked", "ceiling", "reply"}, after : 0..MaxEvents,
            ceiling : 0..MaxEvents, page : Pages]

Hands == [pc : {"idle", "page", "fail", "write", "keep", "save", "announce"}, page : Pages,
          before : Histories]

\* The type invariant of the stream; no event addressed to another device ever
\* is on its way to this one or held by it.
TypeOK ==
  /\ log \in Seq(BOOLEAN) /\ Len(log) <= MaxEvents
  /\ replays \in [Carriers -> Replays]
  /\ pushed \in 0..MaxEvents
  /\ linked \in BOOLEAN
  /\ wire \subseteq Mine
  /\ hands \in [Carriers -> Hands]
  /\ shown \in Histories
  /\ saved \in 0..MaxEvents
  /\ shown.events \subseteq seen /\ seen \subseteq Mine
  /\ announced \subseteq seen
  /\ restarts \in 0..MaxRestarts

\* The device never moves past an event it was not shown: what is published
\* between the two reads of a replay, a page that was cut, two carriers that
\* apply their pages at once over each other's state, and a process that dies
\* in the middle of it lose nothing below the cursor it asks and starts from.
NothingSkipped ==
  \A n \in Mine : n <= shown.cursor \/ n <= saved => n \in seen

\* While the feed is open every event for the device is brought to the history and
\* announced, unless the device's process dies meanwhile: replies are lost, pages
\* are cut, the socket breaks, and each carrier leaves to the other what it finds in
\* the history (VanEventStreamStore.apply, WorkModules' loop).
EveryEventAnnounced ==
  \A n \in Events, life \in 0..MaxRestarts :
    (n \in Mine /\ n > shown.cursor /\ restarts = life)
      ~> (n \in announced \/ restarts # life)

==============================================================================
