-------------------------- MODULE EventStreamProofs --------------------------
(***************************************************************************)
(* What EventStream guarantees for every page size, every length of history  *)
(* and any number of events and restarts: no event is skipped.               *)
(***************************************************************************)
EXTENDS EventStreamImplements, FiniteSetTheorems, WellFoundedInduction, TLAPS

-----------------------------------------------------------------------------
(* Least and greatest numbers. *)

\* Every set of naturals that is not empty has a least number.
LEMMA LeastExists ==
  ASSUME NEW S \in SUBSET Nat, S # {}
  PROVE  \E n \in S : \A m \in S : n <= m
  <1>1. IsWellFoundedOn(OpToRel(<, Nat), Nat)
    BY NatLessThanWellFounded
  <1>2. PICK n \in S : \A m \in S : ~(<<m, n>> \in OpToRel(<, Nat))
    <2> HIDE DEF OpToRel
    <2> QED BY <1>1, WFMin
  <1>3. \A m \in S : ~(m < n)
    BY <1>2 DEF OpToRel
  <1> QED BY <1>3

LEMMA MinMeans ==
  ASSUME NEW S \in SUBSET Nat, S # {}
  PROVE  Min(S) \in S /\ \A m \in S : Min(S) <= m
  BY LeastExists DEF Min

\* So has a set that ends somewhere a greatest one.
LEMMA MaxMeans ==
  ASSUME NEW N \in Nat, NEW S \in SUBSET (0..N), S # {}
  PROVE  Max(S) \in S /\ \A m \in S : m <= Max(S)
  <1> DEFINE T == {N - n : n \in S}
  <1>1. T \in SUBSET Nat /\ T # {}
    <2>1. \A n \in S : N - n \in Nat
      OBVIOUS
    <2>2. PICK n \in S : TRUE
      OBVIOUS
    <2> QED BY <2>1, <2>2
  <1>2. PICK t \in T : \A u \in T : t <= u
    BY <1>1, LeastExists
  <1>3. PICK n \in S : t = N - n
    BY <1>2
  <1>4. \A m \in S : m <= n
    <2> TAKE m \in S
    <2>1. N - n <= N - m
      BY <1>2, <1>3
    <2> QED BY <2>1
  <1> QED BY <1>3, <1>4 DEF Max

-----------------------------------------------------------------------------
(* A page of replay. *)

LEMMA BelowIsFinite ==
  ASSUME NEW N \in Nat, NEW ns \in SUBSET (0..N), NEW n
  PROVE  /\ IsFiniteSet(ns) /\ IsFiniteSet({k \in ns : k < n})
         /\ Cardinality({k \in ns : k < n}) \in Nat
  <1>1. IsFiniteSet(0..N)
    BY FS_Interval
  <1>2. IsFiniteSet(ns)
    BY <1>1, FS_Subset
  <1>3. {k \in ns : k < n} \in SUBSET ns
    OBVIOUS
  <1>4. IsFiniteSet({k \in ns : k < n})
    <2> DEFINE T == {k \in ns : k < n}
    <2>1. T \in SUBSET ns
      BY <1>3
    <2> HIDE DEF T
    <2>2. IsFiniteSet(T)
      BY <1>2, <2>1, FS_Subset
    <2> QED BY <2>2 DEF T
  <1> QED BY <1>2, <1>4, FS_CardinalityType

\* A page holds, with an event, every one before it.
LEMMA FirstPageIsPrefix ==
  ASSUME NEW N \in Nat, NEW ns \in SUBSET (0..N),
         NEW m \in FirstPage(ns), NEW n \in ns, n <= m
  PROVE  n \in FirstPage(ns)
  <1> DEFINE L == {k \in ns : k < n}
             M == {k \in ns : k < m}
  <1>1. m \in ns /\ Cardinality(M) < PageSize
    BY DEF FirstPage
  <1>2. L \in SUBSET M
    <2> SUFFICES ASSUME NEW k \in ns, k < n
                 PROVE  k < m
      OBVIOUS
    <2> QED BY <1>1
  <1>3. IsFiniteSet(M) /\ Cardinality(M) \in Nat /\ Cardinality(L) \in Nat
    BY BelowIsFinite
  <1>4. Cardinality(L) < PageSize
    <2> HIDE DEF L, M
    <2>1. Cardinality(L) <= Cardinality(M)
      BY <1>2, <1>3, FS_Subset
    <2> QED BY <1>1, <1>3, <2>1, StreamAssumption DEF StreamAssumption
  <1> QED BY <1>4 DEF FirstPage

\* A page that is not full holds all there is.
LEMMA ShortPageIsAll ==
  ASSUME NEW N \in Nat, NEW ns \in SUBSET (0..N), Cardinality(FirstPage(ns)) # PageSize
  PROVE  FirstPage(ns) = ns
  <1> DEFINE page == FirstPage(ns)
             rest == ns \ page
  <1>1. /\ page \in SUBSET ns /\ rest \in SUBSET Nat
        /\ PageSize \in Nat \ {0} /\ Cardinality(page) # PageSize
    <2>1. page \in SUBSET ns
      BY DEF FirstPage
    <2>2. ns \subseteq Nat
      OBVIOUS
    <2>3. rest \in SUBSET Nat
      <3> HIDE DEF page
      <3> QED BY <2>2
    <2> QED BY <2>1, <2>3, StreamAssumption DEF StreamAssumption
  <1>2. \A m \in page, n \in ns : n <= m => n \in page
    BY FirstPageIsPrefix
  <1>3. \A n \in ns : n \in page <=> Cardinality({k \in ns : k < n}) < PageSize
    BY DEF FirstPage
  <1>4. rest = ns \ page
    OBVIOUS
  <1> HIDE DEF page, rest
  <1>5. ASSUME rest # {}
        PROVE  FALSE
    <2>1. PICK n \in rest : \A k \in rest : n <= k
      BY <1>1, <1>5, LeastExists
    \* Before the first that is left out are those of the page, and only they.
    <2>2. page = {k \in ns : k < n}
      <3>1. ASSUME NEW k \in ns, k < n
            PROVE  k \in page
        <4>1. ~(n <= k)
          BY <1>4, <2>1, <3>1
        <4> QED BY <1>4, <2>1, <4>1
      <3>2. ASSUME NEW k \in page, ~(k < n)
            PROVE  FALSE
        <4>1. k \in ns /\ n \in ns /\ n \notin page
          BY <1>1, <1>4, <2>1
        <4>2. n <= k
          BY <3>2, <4>1
        <4> QED BY <1>2, <4>1, <4>2
      <3> QED BY <1>1, <3>1, <3>2
    <2>3. IsFiniteSet(page) /\ Cardinality(page) \in Nat
      BY <2>2, BelowIsFinite
    <2>4. ~(Cardinality(page) < PageSize)
      BY <1>3, <1>4, <2>1, <2>2
    <2>5. page # {}
      <3>1. Cardinality({}) = 0
        BY FS_EmptySet
      <3> QED BY <1>1, <2>4, <3>1
    <2>6. PICK last \in page : \A k \in page : k <= last
      <3>1. page \in SUBSET (0..N)
        BY <1>1
      <3> QED BY <2>5, <3>1, MaxMeans
    <2>7. page \ {last} = {k \in ns : k < last}
      <3>1. ASSUME NEW k \in ns, k < last
            PROVE  k \in page
        <4>1. k <= last
          BY <1>1, <3>1
        <4> QED BY <1>2, <4>1
      <3>2. ASSUME NEW k \in page, k # last
            PROVE  k < last
        BY <1>1, <2>6, <3>2
      <3>3. ~(last < last)
        BY <1>1
      <3> QED BY <1>1, <3>1, <3>2, <3>3
    <2>8. Cardinality(page \ {last}) < PageSize
      BY <1>1, <1>3, <2>7
    <2>9. Cardinality(page \ {last}) = Cardinality(page) - 1
      BY <2>3, FS_RemoveElement
    <2> QED BY <1>1, <2>3, <2>4, <2>8, <2>9
  <1> QED BY <1>1, <1>4, <1>5 DEF page

Log == log \in Seq(BOOLEAN)

\* Between the cursor it was asked from and the one it returns a page leaves out
\* no event.
LEMMA PageOfMeans ==
  ASSUME Log, NEW r, r.after \in 0..Len(log), r.ceiling \in 0..Len(log)
  PROVE  /\ PageOf(r).events \subseteq Mine
         /\ PageOf(r).next \in r.after..Len(log)
         /\ \A n \in PageOf(r).events : n <= PageOf(r).next
         /\ \A n \in Mine : n <= PageOf(r).next => n <= r.after \/ n \in PageOf(r).events
  <1> DEFINE ns == Visible(r.after, r.ceiling)
             page == FirstPage(ns)
  <1>1. Len(log) \in Nat
    BY DEF Log
  <1>2. ns \in SUBSET (0..Len(log)) /\ ns \subseteq Mine
    BY <1>1 DEF Visible, Mine
  <1>3. \A n \in ns : r.after < n /\ n <= r.ceiling
    BY <1>1 DEF Visible
  <1>4. \A n \in Mine : r.after < n /\ n <= r.ceiling => n \in ns
    BY <1>1 DEF Visible, Mine
  <1>5. PageOf(r).events = page /\ PageOf(r).next = NextCursor(page, r)
    BY DEF PageOf
  <1>6. page \in SUBSET ns /\ \A m \in page, n \in ns : n <= m => n \in page
    BY <1>1, <1>2, FirstPageIsPrefix DEF FirstPage
  <1>7. Cardinality(page) # PageSize => page = ns
    BY <1>1, <1>2, ShortPageIsAll
  <1>8. \A n \in Mine : n \in Nat
    BY <1>1 DEF Mine
  <1> HIDE DEF ns, page
  <1>9. CASE Cardinality(page) = PageSize
    <2>1. page # {}
      BY <1>9, FS_EmptySet, StreamAssumption DEF StreamAssumption
    <2>2. page \in SUBSET (0..Len(log))
      BY <1>2, <1>6
    <2>3. Max(page) \in page /\ \A k \in page : k <= Max(page)
      BY <1>1, <2>1, <2>2, MaxMeans
    <2>4. NextCursor(page, r) = Max(page)
      BY <1>9 DEF NextCursor
    <2>5. Max(page) \in r.after..Len(log) /\ Max(page) <= r.ceiling
      <3>1. Max(page) \in ns /\ Max(page) \in 0..Len(log)
        BY <1>2, <1>6, <2>3
      <3>2. r.after < Max(page) /\ Max(page) <= r.ceiling
        BY <1>3, <3>1
      <3> QED BY <1>1, <3>1, <3>2
    <2>6. ASSUME NEW n \in Mine, n <= Max(page), ~(n <= r.after)
          PROVE  n \in page
      <3>1. n \in ns
        BY <1>1, <1>4, <1>8, <2>5, <2>6
      <3> QED BY <1>6, <2>3, <2>6, <3>1
    <2> QED BY <1>2, <1>5, <1>6, <2>3, <2>4, <2>5, <2>6
  <1>10. CASE Cardinality(page) # PageSize
    <2>1. NextCursor(page, r) = IF r.ceiling > r.after THEN r.ceiling ELSE r.after
      BY <1>10 DEF NextCursor, ToCeiling
    <2>2. /\ NextCursor(page, r) \in r.after..Len(log)
          /\ \A n \in ns : n <= NextCursor(page, r)
      BY <1>1, <1>2, <1>3, <2>1
    <2>3. ASSUME NEW n \in Mine, n <= NextCursor(page, r), ~(n <= r.after)
          PROVE  n \in ns
      BY <1>1, <1>4, <1>8, <2>1, <2>3
    <2> QED BY <1>2, <1>5, <1>7, <1>10, <2>2, <2>3
  <1> QED BY <1>9, <1>10

-----------------------------------------------------------------------------
(* The inductive invariant. *)

\* Every event for the device up to n is in S.
Covers(lg, n, S) == \A m \in 1..Len(lg) : lg[m] /\ m <= n => m \in S

\* Once a page is applied, nothing up to its end is missing.
PageFits(lg, sn, page) ==
  /\ page.events \subseteq {n \in 1..Len(lg) : lg[n]}
  /\ page.next \in 0..Len(lg)
  /\ Covers(lg, page.next, sn \cup page.events)

\* The history a thread read before it lets go of it.
StateFits(lg, sn, state) ==
  /\ state.cursor \in 0..Len(lg)
  /\ state.events \subseteq sn
  /\ Covers(lg, state.cursor, sn)

HandFits(lg, sn, hand) ==
  /\ hand.pc \in {"page", "write", "save"} => PageFits(lg, sn, hand.page)
  /\ hand.pc \in {"save", "announce"} => hand.page.events \subseteq sn
  /\ hand.pc \in {"write", "keep", "save"} => StateFits(lg, sn, hand.before)

ReplayFits(lg, r) == r.after \in 0..Len(lg) /\ r.ceiling \in 0..Len(lg)

\* The poll asks from where the device has seen everything.
PollFits(lg, sn, r) ==
  /\ ReplayFits(lg, r)
  /\ r.pc # "idle" => Covers(lg, r.after, sn)
  /\ r.pc = "reply" => PageFits(lg, sn, r.page)

PumpFits(lg, r, from, up) ==
  /\ ReplayFits(lg, r)
  /\ r.pc \in {"idle", "asked", "ceiling"}
  /\ r.pc # "idle" => up /\ r.after = from

\* What the socket's thread still has to bring into the history.
InHand(hand) == IF hand.pc \in {"page", "write"} THEN hand.page.events ELSE {}

\* While the socket is up, what the pump has passed has been seen, is on the wire
\* or in the hand of the socket's thread.
WireInv ==
  /\ pushed \in 0..Len(log)
  /\ \A n \in wire : n <= pushed
  /\ linked \/ wire = {}
  /\ linked => Covers(log, pushed, seen \cup wire \cup InHand(hands[Socket]))

HistoryInv ==
  /\ StateFits(log, seen, shown)
  /\ saved \in 0..Len(log) /\ Covers(log, saved, seen)

HandInv == \A c \in Carriers : HandFits(log, seen, hands[c])

ReplayInv ==
  /\ PollFits(log, seen, replays[Poll])
  /\ PumpFits(log, replays[Socket], pushed, linked)

IInv == TypeOK /\ HistoryInv /\ HandInv /\ ReplayInv /\ WireInv

-----------------------------------------------------------------------------
(* What holds of a stream still holds of it when it is longer and more of it was seen. *)

Grows(lg, lh) ==
  /\ lg \in Seq(BOOLEAN) /\ lh \in Seq(BOOLEAN)
  /\ Len(lg) <= Len(lh)
  /\ \A m \in 1..Len(lg) : lh[m] = lg[m]

LEMMA CoversLater ==
  ASSUME NEW lg, NEW lh, Grows(lg, lh), NEW S, NEW T, S \subseteq T,
         NEW n \in 0..Len(lg), NEW k \in Nat, k <= n, Covers(lg, n, S)
  PROVE  Covers(lh, k, T)
  <1>1. Len(lg) \in Nat /\ Len(lh) \in Nat
    BY DEF Grows
  <1>2. ASSUME NEW m \in 1..Len(lh), lh[m], m <= k
        PROVE  m \in T
    <2>1. m \in 1..Len(lg) /\ m <= n
      BY <1>1, <1>2
    <2>2. lg[m]
      BY <1>2, <2>1 DEF Grows
    <2> QED BY <2>1, <2>2 DEF Covers
  <1> QED BY <1>2 DEF Covers

LEMMA PageLater ==
  ASSUME NEW lg, NEW lh, Grows(lg, lh), NEW S, NEW T, S \subseteq T, NEW page,
         PageFits(lg, S, page)
  PROVE  PageFits(lh, T, page)
  <1>1. Len(lg) \in Nat /\ Len(lh) \in Nat /\ Len(lg) <= Len(lh)
    BY DEF Grows
  <1>2. page.events \subseteq {n \in 1..Len(lh) : lh[n]}
    BY <1>1 DEF Grows, PageFits
  <1>3. page.next \in 0..Len(lg) /\ page.next \in 0..Len(lh) /\ page.next \in Nat
    BY <1>1 DEF PageFits
  <1>4. Covers(lh, page.next, T \cup page.events)
    <2>1. S \cup page.events \subseteq T \cup page.events
      OBVIOUS
    <2>2. Covers(lg, page.next, S \cup page.events)
      BY DEF PageFits
    <2> QED BY <1>1, <1>3, <2>1, <2>2, CoversLater
  <1> QED BY <1>2, <1>3, <1>4 DEF PageFits

LEMMA StateLater ==
  ASSUME NEW lg, NEW lh, Grows(lg, lh), NEW S, NEW T, S \subseteq T, NEW state,
         StateFits(lg, S, state)
  PROVE  StateFits(lh, T, state)
  <1>1. Len(lg) \in Nat /\ Len(lh) \in Nat /\ Len(lg) <= Len(lh)
    BY DEF Grows
  <1>2. state.cursor \in 0..Len(lg) /\ state.cursor \in 0..Len(lh) /\ state.cursor \in Nat
    BY <1>1 DEF StateFits
  <1>3. Covers(lh, state.cursor, T)
    BY <1>2, CoversLater DEF StateFits
  <1> QED BY <1>2, <1>3 DEF StateFits

LEMMA HandLater ==
  ASSUME NEW lg, NEW lh, Grows(lg, lh), NEW S, NEW T, S \subseteq T, NEW hand,
         HandFits(lg, S, hand)
  PROVE  HandFits(lh, T, hand)
  BY PageLater, StateLater DEF HandFits

LEMMA PollLater ==
  ASSUME NEW lg, NEW lh, Grows(lg, lh), NEW S, NEW T, S \subseteq T, NEW r,
         PollFits(lg, S, r)
  PROVE  PollFits(lh, T, r)
  <1>1. Len(lg) \in Nat /\ Len(lh) \in Nat /\ Len(lg) <= Len(lh)
    BY DEF Grows
  <1>2. r.after \in 0..Len(lg) /\ r.after \in Nat /\ ReplayFits(lh, r)
    BY <1>1 DEF PollFits, ReplayFits
  <1>3. r.pc # "idle" => Covers(lh, r.after, T)
    BY <1>2, CoversLater DEF PollFits
  <1>4. r.pc = "reply" => PageFits(lh, T, r.page)
    BY PageLater DEF PollFits
  <1> QED BY <1>2, <1>3, <1>4 DEF PollFits

LEMMA PumpLater ==
  ASSUME NEW lg, NEW lh, Grows(lg, lh), NEW r, NEW from, NEW up, PumpFits(lg, r, from, up)
  PROVE  PumpFits(lh, r, from, up)
  <1>1. Len(lg) \in Nat /\ Len(lh) \in Nat /\ Len(lg) <= Len(lh)
    BY DEF Grows
  <1> QED BY <1>1 DEF PumpFits, ReplayFits

LEMMA Same ==
  ASSUME TypeOK
  PROVE  Grows(log, log) /\ Len(log) \in Nat
  BY DEF TypeOK, Grows

\* A longer history, the rest as it was: the history, the hands and the poll.
LEMMA DeviceLater ==
  ASSUME HistoryInv, HandInv, Grows(log, log'), seen \subseteq seen',
         shown' = shown, saved' = saved, hands' = hands
  PROVE  HistoryInv' /\ HandInv'
  <1>1. StateFits(log', seen', shown')
    BY StateLater DEF HistoryInv
  <1>2. saved' \in 0..Len(log') /\ Covers(log', saved', seen')
    <2>1. Len(log) \in Nat /\ Len(log') \in Nat /\ Len(log) <= Len(log')
      BY DEF Grows
    <2>2. saved \in 0..Len(log) /\ saved \in Nat /\ saved \in 0..Len(log')
      BY <2>1 DEF HistoryInv
    <2> QED BY <2>2, CoversLater DEF HistoryInv
  <1>3. HandInv'
    BY HandLater DEF HandInv
  <1> QED BY <1>1, <1>2, <1>3 DEF HistoryInv

\* The same stream and the same device: what a replay at the gateway does.
LEMMA GatewaySteps ==
  ASSUME IInv, UNCHANGED <<log, device>>
  PROVE  /\ HistoryInv' /\ HandInv' /\ Grows(log, log') /\ seen' = seen
         /\ Mine' = Mine
  BY Same, DeviceLater DEF IInv, device, Mine

LEMMA PublishKeeps ==
  ASSUME IInv, NEW mine \in BOOLEAN, Publish(mine)
  PROVE  IInv'
  <1> USE DEF Publish, device
  <1>1. /\ TypeOK /\ log' = Append(log, mine) /\ log \in Seq(BOOLEAN)
        /\ Len(log) \in Nat /\ Len(log) < MaxEvents
    BY DEF IInv, TypeOK
  <1>2. /\ log' \in Seq(BOOLEAN) /\ Len(log') = Len(log) + 1
        /\ \A m \in 1..Len(log) : log'[m] = log[m]
    BY <1>1
  <1>3. Grows(log, log') /\ Len(log') <= MaxEvents
    BY <1>1, <1>2, StreamAssumption DEF Grows, StreamAssumption
  <1>4. Mine \subseteq Mine'
    BY <1>1, <1>2 DEF Mine
  <1>5. TypeOK'
    BY <1>1, <1>2, <1>3, <1>4 DEF TypeOK, Carriers, Events, Pages, Histories, Replays, Hands
  <1>6. HistoryInv' /\ HandInv'
    BY <1>3, DeviceLater DEF IInv
  <1>7. ReplayInv'
    <2>1. PollFits(log', seen', replays'[Poll])
      BY <1>3, PollLater DEF IInv, ReplayInv
    <2>2. PumpFits(log', replays'[Socket], pushed', linked')
      BY <1>3, PumpLater DEF IInv, ReplayInv
    <2> QED BY <2>1, <2>2 DEF ReplayInv
  <1>8. WireInv'
    <2> DEFINE T == seen \cup wire \cup InHand(hands[Socket])
    <2>1. pushed \in 0..Len(log) /\ pushed \in Nat /\ pushed \in 0..Len(log')
      BY <1>1, <1>2 DEF IInv, WireInv
    <2>2. linked => Covers(log, pushed, T)
      BY DEF IInv, WireInv
    <2> HIDE DEF T
    <2>3. linked => Covers(log', pushed, T)
      BY <1>3, <2>1, <2>2, CoversLater
    <2> QED BY <2>1, <2>3 DEF IInv, WireInv, T
  <1> QED BY <1>5, <1>6, <1>7, <1>8 DEF IInv

\* The types of what a replay becomes.
LEMMA AskedTypes ==
  ASSUME TypeOK, NEW after \in 0..Len(log)
  PROVE  /\ [NoReplay EXCEPT !.pc = "asked", !.after = after] \in Replays
         /\ ReplayFits(log, [NoReplay EXCEPT !.pc = "asked", !.after = after])
         /\ NoReplay \in Replays /\ ReplayFits(log, NoReplay)
  <1>1. Len(log) \in Nat /\ after \in 0..MaxEvents /\ 0 \in 0..MaxEvents /\ 0 \in 0..Len(log)
    BY Same, StreamAssumption DEF TypeOK, StreamAssumption
  <1>2. NoPage \in Pages
    BY <1>1 DEF NoPage, Pages
  <1>3. NoReplay \in Replays
    BY <1>1, <1>2 DEF NoReplay, Replays
  <1>4. [NoReplay EXCEPT !.pc = "asked", !.after = after] \in Replays
    BY <1>1, <1>3 DEF Replays
  <1> QED BY <1>1, <1>3, <1>4 DEF ReplayFits, NoReplay

LEMMA PollAsksKeeps ==
  ASSUME IInv, PollAsks
  PROVE  IInv'
  <1> DEFINE r == [NoReplay EXCEPT !.pc = "asked", !.after = shown.cursor]
  <1> USE DEF PollAsks, Ask
  <1>1. HistoryInv' /\ HandInv' /\ Mine' = Mine
    BY GatewaySteps
  <1>2. /\ Poll \in Carriers /\ Socket \in Carriers /\ Poll # Socket
        /\ replays \in [Carriers -> Replays]
    BY StreamAssumption DEF IInv, TypeOK, Carriers, StreamAssumption
  <1>3. replays' = [replays EXCEPT ![Poll] = r]
    OBVIOUS
  <1>4. shown.cursor \in 0..Len(log) /\ Covers(log, shown.cursor, seen)
    BY DEF IInv, HistoryInv, StateFits
  <1>5. r \in Replays /\ ReplayFits(log, r)
    BY <1>4, AskedTypes DEF IInv
  <1>6. r.pc = "asked" /\ r.after = shown.cursor
    BY DEF NoReplay
  <1> HIDE DEF r
  <1>7. replays' \in [Carriers -> Replays] /\ replays'[Poll] = r /\ replays'[Socket] = replays[Socket]
    BY <1>2, <1>3, <1>5
  <1>8. TypeOK'
    BY <1>1, <1>7 DEF IInv, TypeOK, device
  <1>9. ReplayInv'
    BY <1>4, <1>5, <1>6, <1>7 DEF IInv, ReplayInv, PollFits, device
  <1>10. WireInv'
    BY DEF IInv, WireInv, device
  <1> QED BY <1>1, <1>8, <1>9, <1>10 DEF IInv

LEMMA PumpAsksKeeps ==
  ASSUME IInv, PumpAsks
  PROVE  IInv'
  <1> DEFINE r == [NoReplay EXCEPT !.pc = "asked", !.after = pushed]
  <1> USE DEF PumpAsks, Ask
  <1>1. HistoryInv' /\ HandInv' /\ Mine' = Mine
    BY GatewaySteps
  <1>2. /\ Poll \in Carriers /\ Socket \in Carriers /\ Poll # Socket
        /\ replays \in [Carriers -> Replays]
    BY StreamAssumption DEF IInv, TypeOK, Carriers, StreamAssumption
  <1>3. replays' = [replays EXCEPT ![Socket] = r]
    OBVIOUS
  <1>4. pushed \in 0..Len(log)
    BY DEF IInv, WireInv
  <1>5. r \in Replays /\ ReplayFits(log, r)
    BY <1>4, AskedTypes DEF IInv
  <1>6. r.pc = "asked" /\ r.after = pushed
    BY DEF NoReplay
  <1> HIDE DEF r
  <1>7. replays' \in [Carriers -> Replays] /\ replays'[Socket] = r /\ replays'[Poll] = replays[Poll]
    BY <1>2, <1>3, <1>5
  <1>8. TypeOK'
    BY <1>1, <1>7 DEF IInv, TypeOK, device
  <1>9. ReplayInv'
    BY <1>5, <1>6, <1>7 DEF IInv, ReplayInv, PumpFits, device
  <1>10. WireInv'
    BY DEF IInv, WireInv, device
  <1> QED BY <1>1, <1>8, <1>9, <1>10 DEF IInv

LEMMA ReadCeilingKeeps ==
  ASSUME IInv, NEW c \in Carriers, ReadCeiling(c)
  PROVE  IInv'
  <1> DEFINE r == ReadFirst(replays[c])
  <1> USE DEF ReadCeiling
  <1>1. HistoryInv' /\ HandInv' /\ Mine' = Mine
    BY GatewaySteps
  <1>2. /\ Poll \in Carriers /\ Socket \in Carriers /\ Poll # Socket
        /\ replays \in [Carriers -> Replays] /\ replays[c] \in Replays /\ replays[c].pc = "asked"
    BY StreamAssumption DEF IInv, TypeOK, Carriers, StreamAssumption
  <1>3. Len(log) \in 0..MaxEvents /\ Len(log) \in 0..Len(log)
    BY Same, StreamAssumption DEF IInv, TypeOK, StreamAssumption
  <1>4. r = [replays[c] EXCEPT !.pc = "ceiling", !.ceiling = Len(log)]
    BY DEF ReadFirst
  <1>5. r \in Replays /\ r.pc = "ceiling" /\ r.after = replays[c].after /\ r.ceiling = Len(log)
    BY <1>2, <1>3, <1>4 DEF Replays
  <1>6. replays' = [replays EXCEPT ![c] = r]
    BY <1>2
  <1> HIDE DEF r
  <1>7. /\ replays' \in [Carriers -> Replays] /\ replays'[c] = r
        /\ \A d \in Carriers : d # c => replays'[d] = replays[d]
    BY <1>2, <1>5, <1>6
  <1>8. TypeOK'
    BY <1>1, <1>7 DEF IInv, TypeOK, device
  <1>9. PollFits(log, seen, replays'[Poll])
    BY <1>2, <1>3, <1>5, <1>7 DEF IInv, ReplayInv, PollFits, ReplayFits
  <1>10. PumpFits(log, replays'[Socket], pushed, linked)
    BY <1>2, <1>3, <1>5, <1>7 DEF IInv, ReplayInv, PumpFits, ReplayFits
  <1>11. ReplayInv'
    BY <1>9, <1>10 DEF ReplayInv, device
  <1>12. WireInv'
    BY DEF IInv, WireInv, device
  <1> QED BY <1>1, <1>8, <1>11, <1>12 DEF IInv

\* A page extends what was covered up to the cursor it was asked from.
LEMMA PageExtends ==
  ASSUME TypeOK, NEW r, ReplayFits(log, r), NEW S, Covers(log, r.after, S)
  PROVE  /\ PageFits(log, S, PageOf(r)) /\ PageOf(r) \in Pages
         /\ \A n \in PageOf(r).events : n <= PageOf(r).next
         /\ r.after <= PageOf(r).next
  <1> DEFINE page == PageOf(r)
  <1>1. Len(log) \in Nat /\ Log /\ Len(log) <= MaxEvents /\ MaxEvents \in Nat
    BY Same, StreamAssumption DEF TypeOK, Log, StreamAssumption
  <1>2. r.after \in 0..Len(log) /\ r.ceiling \in 0..Len(log)
    BY DEF ReplayFits
  <1>3. /\ page.events \subseteq Mine
        /\ page.next \in r.after..Len(log)
        /\ \A n \in page.events : n <= page.next
        /\ \A n \in Mine : n <= page.next => n <= r.after \/ n \in page.events
    BY <1>1, <1>2, PageOfMeans
  <1>4. page = [events |-> page.events, next |-> page.next]
    BY DEF PageOf
  <1> HIDE DEF page
  <1>5. page.next \in 0..Len(log) /\ page.next \in 0..MaxEvents /\ r.after <= page.next
    BY <1>1, <1>2, <1>3
  <1>6. page.events \subseteq Events
    BY <1>1, <1>3 DEF Mine, Events
  <1>7. page \in Pages
    BY <1>4, <1>5, <1>6 DEF Pages
  <1>8. Covers(log, page.next, S \cup page.events)
    BY <1>3 DEF Covers, Mine
  <1>9. PageFits(log, S, page)
    BY <1>3, <1>5, <1>8 DEF PageFits, Mine
  <1> QED BY <1>3, <1>5, <1>7, <1>9 DEF page

LEMMA ReadRowsKeeps ==
  ASSUME IInv, ReadRows
  PROVE  IInv'
  <1> DEFINE page == PageOf(replays[Poll])
             r == [replays[Poll] EXCEPT !.pc = "reply", !.page = page]
  <1> USE DEF ReadRows
  <1>1. HistoryInv' /\ HandInv' /\ Mine' = Mine
    BY GatewaySteps
  <1>2. /\ Poll \in Carriers /\ Socket \in Carriers /\ Poll # Socket
        /\ replays \in [Carriers -> Replays] /\ replays[Poll] \in Replays
        /\ replays[Poll].pc = "ceiling"
    BY StreamAssumption DEF IInv, TypeOK, Carriers, StreamAssumption
  <1>3. PollFits(log, seen, replays[Poll]) /\ ReplayFits(log, replays[Poll])
    BY DEF IInv, ReplayInv, PollFits
  <1>4. PageFits(log, seen, page) /\ page \in Pages
    BY <1>2, <1>3, PageExtends DEF IInv, PollFits
  <1> HIDE DEF page
  <1>5. /\ r \in Replays /\ r.pc = "reply" /\ r.page = page
        /\ r.after = replays[Poll].after /\ r.ceiling = replays[Poll].ceiling
    BY <1>2, <1>4 DEF Replays
  <1>6. replays' = [replays EXCEPT ![Poll] = r]
    BY <1>2 DEF page
  <1> HIDE DEF r
  <1>7. replays' \in [Carriers -> Replays] /\ replays'[Poll] = r /\ replays'[Socket] = replays[Socket]
    BY <1>2, <1>5, <1>6
  <1>8. TypeOK'
    BY <1>1, <1>7 DEF IInv, TypeOK, device
  <1>9. ReplayInv'
    BY <1>2, <1>3, <1>4, <1>5, <1>7
    DEF IInv, ReplayInv, PollFits, PumpFits, ReplayFits, device
  <1>10. WireInv'
    BY DEF IInv, WireInv, device
  <1> QED BY <1>1, <1>8, <1>9, <1>10 DEF IInv

LEMMA PumpRowsKeeps ==
  ASSUME IInv, PumpRows
  PROVE  IInv'
  <1> DEFINE page == PageOf(replays[Socket])
             held == InHand(hands[Socket])
  <1> USE DEF PumpRows
  <1>1. HistoryInv' /\ HandInv' /\ Mine' = Mine
    BY GatewaySteps
  <1>2. /\ Poll \in Carriers /\ Socket \in Carriers /\ Poll # Socket
        /\ replays \in [Carriers -> Replays] /\ replays[Socket].pc = "ceiling"
    BY StreamAssumption DEF IInv, TypeOK, Carriers, StreamAssumption
  <1>3. /\ ReplayFits(log, replays[Socket]) /\ linked /\ replays[Socket].after = pushed
    BY <1>2 DEF IInv, ReplayInv, PumpFits
  <1>4. Covers(log, pushed, seen \cup wire \cup held)
    BY <1>3 DEF IInv, WireInv
  <1>5. /\ PageFits(log, seen \cup wire \cup held, page) /\ page \in Pages
        /\ \A n \in page.events : n <= page.next
        /\ pushed <= page.next
    BY <1>3, <1>4, PageExtends DEF IInv
  <1>6. wire' = wire \cup page.events /\ pushed' = page.next /\ replays' = [replays EXCEPT ![Socket] = NoReplay]
    BY <1>2
  <1> HIDE DEF page
  <1>7. NoReplay \in Replays /\ ReplayFits(log, NoReplay) /\ NoReplay.pc = "idle"
    BY <1>3, AskedTypes DEF IInv, ReplayFits, NoReplay
  <1>8. /\ replays' \in [Carriers -> Replays] /\ replays'[Socket] = NoReplay
        /\ replays'[Poll] = replays[Poll]
    BY <1>2, <1>6, <1>7
  <1>9. /\ pushed' \in 0..MaxEvents /\ pushed' \in 0..Len(log)
        /\ page.events \subseteq Mine
    BY <1>5, <1>6 DEF Pages, PageFits, Mine
  <1>10. TypeOK'
    BY <1>1, <1>6, <1>8, <1>9 DEF IInv, TypeOK, device
  <1>11. ReplayInv'
    BY <1>7, <1>8 DEF IInv, ReplayInv, PumpFits, device
  <1>12. \A n \in wire' : n <= pushed'
    <2>1. ASSUME NEW n \in wire
          PROVE  n <= page.next
      <3>1. n \in Nat /\ n <= pushed
        BY Same DEF IInv, WireInv, TypeOK, Mine
      <3>2. pushed \in Nat /\ page.next \in Nat
        BY <1>5, Same DEF IInv, WireInv, Pages
      <3> QED BY <1>5, <3>1, <3>2
    <2> QED BY <1>5, <1>6, <2>1
  <1>13. Covers(log, pushed', seen \cup wire' \cup held)
    BY <1>5, <1>6 DEF PageFits, Covers
  <1>14. WireInv'
    BY <1>3, <1>9, <1>12, <1>13 DEF IInv, WireInv, device
  <1> QED BY <1>1, <1>10, <1>11, <1>14 DEF IInv

LEMMA UnlinkKeeps ==
  ASSUME IInv, Unlink
  PROVE  IInv'
  <1> USE DEF Unlink
  <1>1. HistoryInv' /\ HandInv' /\ Mine' = Mine
    BY GatewaySteps
  <1>2. /\ Poll \in Carriers /\ Socket \in Carriers /\ Poll # Socket
        /\ replays \in [Carriers -> Replays]
    BY StreamAssumption DEF IInv, TypeOK, Carriers, StreamAssumption
  <1>3. NoReplay \in Replays /\ ReplayFits(log, NoReplay) /\ NoReplay.pc = "idle"
    BY AskedTypes DEF IInv, WireInv, NoReplay
  <1>4. /\ replays' \in [Carriers -> Replays] /\ replays'[Socket] = NoReplay
        /\ replays'[Poll] = replays[Poll]
    BY <1>2, <1>3
  <1>5. TypeOK'
    BY <1>1, <1>4 DEF IInv, TypeOK, device
  <1>6. ReplayInv'
    BY <1>3, <1>4 DEF IInv, ReplayInv, PumpFits, device
  <1>7. WireInv'
    BY DEF IInv, WireInv, device
  <1> QED BY <1>1, <1>5, <1>6, <1>7 DEF IInv

\* The types of an idle hand, and of one that takes a page.
LEMMA HandTypes ==
  ASSUME NEW page \in Pages
  PROVE  /\ NoHand \in Hands /\ NoHand.pc = "idle"
         /\ [NoHand EXCEPT !.pc = "fail"] \in Hands
         /\ [NoHand EXCEPT !.pc = "page", !.page = page] \in Hands
         /\ NoPage \in Pages /\ Empty \in Histories
  <1>1. 0 \in 0..MaxEvents
    BY StreamAssumption DEF StreamAssumption
  <1>2. NoPage \in Pages /\ Empty \in Histories
    BY <1>1 DEF NoPage, Pages, Empty, Histories
  <1>3. NoHand \in Hands
    BY <1>2 DEF NoHand, Hands
  <1> QED BY <1>2, <1>3 DEF NoHand, Hands

\* A hand that changes, and the rest of the hands.
LEMMA HandChanges ==
  ASSUME TypeOK, NEW c \in Carriers, NEW h \in Hands, hands' = [hands EXCEPT ![c] = h]
  PROVE  /\ hands' \in [Carriers -> Hands] /\ hands'[c] = h
         /\ \A d \in Carriers : d # c => hands'[d] = hands[d]
  BY DEF TypeOK

LEMMA PollReceivesKeeps ==
  ASSUME IInv, PollReceives
  PROVE  IInv'
  <1> DEFINE page == replays[Poll].page
             h == [NoHand EXCEPT !.pc = "page", !.page = page]
  <1> USE DEF PollReceives, Take
  <1>1. /\ Poll \in Carriers /\ Socket \in Carriers /\ Poll # Socket
        /\ replays \in [Carriers -> Replays] /\ replays[Poll] \in Replays
    BY StreamAssumption DEF IInv, TypeOK, Carriers, StreamAssumption
  <1>2. page \in Pages /\ PageFits(log, seen, page)
    BY <1>1 DEF Replays, IInv, ReplayInv, PollFits
  <1>3. h \in Hands /\ h.pc = "page" /\ h.page = page
    BY <1>2, HandTypes DEF NoHand
  <1>4. hands' = [hands EXCEPT ![Poll] = h]
    OBVIOUS
  <1> HIDE DEF h, page
  <1>5. /\ hands' \in [Carriers -> Hands] /\ hands'[Poll] = h
        /\ \A d \in Carriers : d # Poll => hands'[d] = hands[d]
    BY <1>1, <1>3, <1>4, HandChanges DEF IInv
  <1>6. NoReplay \in Replays /\ ReplayFits(log, NoReplay) /\ NoReplay.pc = "idle"
    BY AskedTypes DEF IInv, WireInv, NoReplay
  <1>7. /\ replays' \in [Carriers -> Replays] /\ replays'[Poll] = NoReplay
        /\ replays'[Socket] = replays[Socket]
    BY <1>1, <1>6
  <1>8. Mine' = Mine
    BY DEF Mine
  <1>9. TypeOK'
    BY <1>5, <1>7, <1>8 DEF IInv, TypeOK
  <1>10. HistoryInv' /\ WireInv'
    BY <1>1, <1>5 DEF IInv, HistoryInv, WireInv
  <1>11. HandInv'
    BY <1>2, <1>3, <1>5 DEF IInv, HandInv, HandFits
  <1>12. ReplayInv'
    BY <1>6, <1>7 DEF IInv, ReplayInv, PollFits
  <1> QED BY <1>9, <1>10, <1>11, <1>12 DEF IInv

LEMMA PollFailsKeeps ==
  ASSUME IInv, PollFails
  PROVE  IInv'
  <1> DEFINE h == [NoHand EXCEPT !.pc = "fail"]
  <1> USE DEF PollFails
  <1>1. /\ Poll \in Carriers /\ Socket \in Carriers /\ Poll # Socket
        /\ replays \in [Carriers -> Replays] /\ NoPage \in Pages
    BY StreamAssumption
    DEF IInv, TypeOK, Carriers, StreamAssumption, NoPage, Pages
  <1>2. h \in Hands /\ h.pc = "fail"
    BY <1>1, HandTypes DEF NoHand
  <1>3. hands' = [hands EXCEPT ![Poll] = h]
    OBVIOUS
  <1> HIDE DEF h
  <1>4. /\ hands' \in [Carriers -> Hands] /\ hands'[Poll] = h
        /\ \A d \in Carriers : d # Poll => hands'[d] = hands[d]
    BY <1>1, <1>2, <1>3, HandChanges DEF IInv
  <1>5. NoReplay \in Replays /\ ReplayFits(log, NoReplay) /\ NoReplay.pc = "idle"
    BY AskedTypes DEF IInv, WireInv, NoReplay
  <1>6. /\ replays' \in [Carriers -> Replays] /\ replays'[Poll] = NoReplay
        /\ replays'[Socket] = replays[Socket]
    BY <1>1, <1>5
  <1>7. Mine' = Mine
    BY DEF Mine
  <1>8. TypeOK'
    BY <1>4, <1>6, <1>7 DEF IInv, TypeOK
  <1>9. HistoryInv' /\ WireInv'
    BY <1>1, <1>4 DEF IInv, HistoryInv, WireInv
  <1>10. HandInv'
    BY <1>2, <1>4 DEF IInv, HandInv, HandFits
  <1>11. ReplayInv'
    BY <1>5, <1>6 DEF IInv, ReplayInv, PollFits
  <1> QED BY <1>8, <1>9, <1>10, <1>11 DEF IInv

LEMMA FrameArrivesKeeps ==
  ASSUME IInv, FrameArrives
  PROVE  IInv'
  <1> DEFINE n == Min(wire)
             page == [events |-> {n}, next |-> n]
             h == [NoHand EXCEPT !.pc = "page", !.page = page]
  <1> USE DEF FrameArrives, Take
  <1>1. /\ Socket \in Carriers /\ Poll \in Carriers /\ Poll # Socket
        /\ Len(log) \in Nat /\ Len(log) <= MaxEvents /\ MaxEvents \in Nat
    BY Same, StreamAssumption DEF IInv, TypeOK, Carriers, StreamAssumption
  <1>2. wire \in SUBSET Nat /\ wire \subseteq Mine
    BY <1>1 DEF IInv, TypeOK, Mine
  <1>3. n \in wire /\ \A m \in wire : n <= m
    BY <1>2, MinMeans
  <1>4. wire' = wire \ {n} /\ hands' = [hands EXCEPT ![Socket] = h] /\ hands[Socket].pc = "idle"
    OBVIOUS
  <1> HIDE DEF n
  <1>5. n \in 1..Len(log) /\ n \in 1..MaxEvents /\ log[n] /\ n <= pushed /\ pushed \in 0..Len(log)
    BY <1>1, <1>2, <1>3 DEF Mine, IInv, WireInv
  <1>6. linked /\ Covers(log, pushed, seen \cup wire)
    BY <1>3, <1>4 DEF IInv, WireInv, InHand
  <1>7. page \in Pages
    BY <1>1, <1>5 DEF Pages, Events
  <1>8. Covers(log, n, seen \cup {n})
    <2>1. ASSUME NEW m \in 1..Len(log), log[m], m <= n
          PROVE  m \in seen \cup {n}
      <3>1. m \in seen \cup wire
        BY <1>1, <1>5, <1>6, <2>1 DEF Covers
      <3>2. m \in wire => m = n
        BY <1>1, <1>3, <1>5, <2>1
      <3> QED BY <3>1, <3>2
    <2> QED BY <2>1 DEF Covers
  <1>9. PageFits(log, seen, page)
    BY <1>1, <1>5, <1>8 DEF PageFits
  <1>10. h \in Hands /\ h.pc = "page" /\ h.page = page
    BY <1>7, HandTypes DEF NoHand
  <1>11. page.events = {n}
    OBVIOUS
  <1> HIDE DEF h, page
  <1>12. /\ hands' \in [Carriers -> Hands] /\ hands'[Socket] = h
         /\ \A d \in Carriers : d # Socket => hands'[d] = hands[d]
    BY <1>1, <1>4, <1>10, HandChanges DEF IInv
  <1>13. Mine' = Mine
    BY DEF Mine
  <1>14. TypeOK'
    BY <1>4, <1>12, <1>13 DEF IInv, TypeOK
  <1>15. HistoryInv' /\ ReplayInv'
    BY DEF IInv, HistoryInv, ReplayInv
  <1>16. HandInv'
    BY <1>9, <1>10, <1>12 DEF IInv, HandInv, HandFits
  <1>17. InHand(hands'[Socket]) = {n}
    BY <1>10, <1>11, <1>12 DEF InHand
  <1>18. Covers(log, pushed, seen \cup wire' \cup {n})
    BY <1>4, <1>6 DEF Covers
  <1>19. WireInv'
    BY <1>4, <1>6, <1>17, <1>18 DEF IInv, WireInv
  <1> QED BY <1>14, <1>15, <1>16, <1>19 DEF IInv

\* A page applied to a history, whatever happened to the device's since it was read.
LEMMA AppliedFits ==
  ASSUME TypeOK, NEW hand \in Hands,
         PageFits(log, seen, hand.page), StateFits(log, seen, hand.before)
  PROVE  /\ Applied(hand) \in Histories
         /\ StateFits(log, seen \cup hand.page.events, Applied(hand))
  <1> DEFINE old == hand.before.cursor
             next == hand.page.next
             both == {old, next}
             end == Max(both)
             kept == Newest(hand.before.events \cup hand.page.events)
  <1>1. Len(log) \in Nat /\ Len(log) <= MaxEvents /\ MaxEvents \in Nat
    BY Same, StreamAssumption DEF TypeOK, StreamAssumption
  <1>2. old \in 0..Len(log) /\ next \in 0..Len(log)
    BY DEF PageFits, StateFits
  <1>3. end \in both /\ \A k \in both : k <= end
    <2>1. both \in SUBSET (0..Len(log)) /\ both # {}
      BY <1>2
    <2> HIDE DEF both
    <2> QED BY <1>1, <2>1, MaxMeans
  <1>4. Applied(hand) = [cursor |-> end, events |-> kept]
    BY DEF Applied
  <1>5. kept \subseteq hand.before.events \cup hand.page.events
    BY DEF Newest
  <1>6. hand.before.events \subseteq seen /\ hand.before.events \subseteq Events
        /\ hand.page.events \subseteq Events
    BY DEF Hands, Histories, Pages, StateFits
  <1>7. end = old \/ end = next
    BY <1>3
  <1> HIDE DEF kept, end, both
  <1>8. Applied(hand) \in Histories
    BY <1>1, <1>2, <1>4, <1>5, <1>6, <1>7 DEF Histories
  <1>9. Covers(log, end, seen \cup hand.page.events)
    BY <1>7 DEF PageFits, StateFits, Covers
  <1> QED BY <1>2, <1>4, <1>5, <1>6, <1>7, <1>8, <1>9 DEF StateFits

LEMMA ReadStateKeeps ==
  ASSUME IInv, NEW c \in Carriers, ReadState(c)
  PROVE  IInv'
  <1> DEFINE h == [hands[c] EXCEPT !.pc = IF hands[c].pc = "page" THEN "write" ELSE "keep",
                                   !.before = shown]
  <1> USE DEF ReadState, gateway
  <1>1. hands \in [Carriers -> Hands] /\ hands[c] \in Hands /\ shown \in Histories
    BY DEF IInv, TypeOK
  <1>2. hands[c].pc \in {"page", "fail"}
    OBVIOUS
  <1>3. /\ h \in Hands /\ h.page = hands[c].page /\ h.before = shown
        /\ h.pc = IF hands[c].pc = "page" THEN "write" ELSE "keep"
    BY <1>1 DEF Hands
  <1>4. hands' = [hands EXCEPT ![c] = h]
    BY <1>1
  <1> HIDE DEF h
  <1>5. /\ hands' \in [Carriers -> Hands] /\ hands'[c] = h
        /\ \A d \in Carriers : d # c => hands'[d] = hands[d]
    BY <1>3, <1>4, HandChanges DEF IInv
  <1>6. Mine' = Mine
    BY DEF Mine
  <1>7. TypeOK'
    BY <1>5, <1>6 DEF IInv, TypeOK
  <1>8. HistoryInv' /\ ReplayInv'
    BY DEF IInv, HistoryInv, ReplayInv
  <1>9. HandFits(log, seen, h)
    BY <1>2, <1>3 DEF IInv, HistoryInv, HandInv, HandFits
  <1>10. HandInv'
    BY <1>5, <1>9 DEF IInv, HandInv
  <1>11. \A d \in Carriers : InHand(hands'[d]) = InHand(hands[d])
    BY <1>2, <1>3, <1>5 DEF InHand
  <1>12. WireInv'
    BY <1>11, StreamAssumption DEF IInv, WireInv, Carriers
  <1> QED BY <1>7, <1>8, <1>10, <1>12 DEF IInv

LEMMA WriteStateKeeps ==
  ASSUME IInv, NEW c \in Carriers, WriteState(c)
  PROVE  IInv'
  <1> DEFINE h == [hands[c] EXCEPT !.pc = "save"]
             page == hands[c].page
  <1> USE DEF WriteState, gateway
  <1>1. /\ hands \in [Carriers -> Hands] /\ hands[c] \in Hands /\ hands[c].pc = "write"
        /\ HandFits(log, seen, hands[c]) /\ Grows(log, log)
    BY Same DEF IInv, TypeOK, HandInv
  <1>2. PageFits(log, seen, page) /\ StateFits(log, seen, hands[c].before)
    BY <1>1 DEF HandFits
  <1>3. /\ h \in Hands /\ h.page = page /\ h.before = hands[c].before /\ h.pc = "save"
    BY <1>1 DEF Hands
  <1>4. /\ hands' = [hands EXCEPT ![c] = h] /\ seen' = seen \cup page.events /\ log' = log
        /\ shown' = Applied(hands[c])
    BY <1>1
  <1>5. shown' \in Histories /\ StateFits(log, seen', shown')
    BY <1>1, <1>2, <1>4, AppliedFits DEF IInv
  <1>6. seen \subseteq seen' /\ page.events \subseteq seen'
    BY <1>4
  <1>7. page.events \subseteq Mine /\ Mine' = Mine
    BY <1>2, <1>4 DEF PageFits, Mine
  <1> HIDE DEF h, page
  <1>8. /\ hands' \in [Carriers -> Hands] /\ hands'[c] = h
        /\ \A d \in Carriers : d # c => hands'[d] = hands[d]
    BY <1>3, <1>4, HandChanges DEF IInv
  <1>9. shown'.events \subseteq seen' /\ seen' \subseteq Mine
    BY <1>4, <1>5, <1>7 DEF StateFits, IInv, TypeOK
  <1>10. TypeOK'
    BY <1>4, <1>5, <1>6, <1>7, <1>8, <1>9 DEF IInv, TypeOK
  <1>11. saved \in 0..Len(log) /\ Covers(log, saved, seen')
    BY <1>6 DEF IInv, HistoryInv, Covers
  <1>12. HistoryInv'
    BY <1>4, <1>5, <1>11 DEF HistoryInv
  <1>13. HandFits(log, seen', h)
    BY <1>1, <1>2, <1>3, <1>6, PageLater, StateLater DEF HandFits
  <1>14. \A d \in Carriers : HandFits(log, seen', hands[d])
    BY <1>1, <1>6, HandLater DEF IInv, HandInv
  <1>15. HandInv'
    BY <1>4, <1>8, <1>13, <1>14 DEF HandInv
  <1>16. ReplayInv'
    BY <1>1, <1>4, <1>6, PollLater DEF IInv, ReplayInv
  <1>17. \A d \in Carriers : InHand(hands[d]) \subseteq InHand(hands'[d]) \cup seen'
    BY <1>1, <1>6, <1>8 DEF InHand, page
  <1>18. WireInv'
    <2>1. InHand(hands[Socket]) \subseteq InHand(hands'[Socket]) \cup seen'
      BY <1>17 DEF Carriers
    <2>2. linked => Covers(log, pushed, seen' \cup wire \cup InHand(hands'[Socket]))
      BY <1>6, <2>1 DEF IInv, WireInv, Covers
    <2> QED BY <1>4, <2>2 DEF IInv, WireInv
  <1> QED BY <1>10, <1>12, <1>15, <1>16, <1>18 DEF IInv

LEMMA KeepStateKeeps ==
  ASSUME IInv, NEW c \in Carriers, KeepState(c)
  PROVE  IInv'
  <1> USE DEF KeepState, gateway
  <1>1. /\ hands \in [Carriers -> Hands] /\ hands[c] \in Hands /\ hands[c].pc = "keep"
        /\ HandFits(log, seen, hands[c]) /\ NoPage \in Pages
    BY StreamAssumption DEF IInv, TypeOK, HandInv, NoPage, Pages, StreamAssumption
  <1>2. StateFits(log, seen, hands[c].before) /\ hands[c].before \in Histories
    BY <1>1 DEF HandFits, Hands
  <1>3. NoHand \in Hands /\ NoHand.pc = "idle"
    BY <1>1, HandTypes
  <1>4. /\ hands' \in [Carriers -> Hands] /\ hands'[c] = NoHand
        /\ \A d \in Carriers : d # c => hands'[d] = hands[d]
    BY <1>3, HandChanges DEF IInv
  <1>5. Mine' = Mine
    BY DEF Mine
  <1>6. TypeOK'
    BY <1>2, <1>4, <1>5 DEF IInv, TypeOK, StateFits
  <1>7. HistoryInv' /\ ReplayInv'
    BY <1>2 DEF IInv, HistoryInv, ReplayInv
  <1>8. HandInv'
    BY <1>3, <1>4 DEF IInv, HandInv, HandFits
  <1>9. \A d \in Carriers : InHand(hands'[d]) = InHand(hands[d])
    BY <1>1, <1>3, <1>4 DEF InHand
  <1>10. WireInv'
    BY <1>9 DEF IInv, WireInv, Carriers
  <1> QED BY <1>6, <1>7, <1>8, <1>10 DEF IInv

LEMMA SaveCursorKeeps ==
  ASSUME IInv, NEW c \in Carriers, SaveCursor(c)
  PROVE  IInv'
  <1> DEFINE h == [hands[c] EXCEPT !.pc = "announce"]
  <1> USE DEF SaveCursor, gateway
  <1>1. /\ hands \in [Carriers -> Hands] /\ hands[c] \in Hands /\ hands[c].pc = "save"
        /\ HandFits(log, seen, hands[c])
    BY DEF IInv, TypeOK, HandInv
  <1>2. /\ PageFits(log, seen, hands[c].page) /\ StateFits(log, seen, hands[c].before)
        /\ hands[c].page.events \subseteq seen
    BY <1>1 DEF HandFits
  <1>3. /\ Applied(hands[c]) \in Histories
        /\ StateFits(log, seen \cup hands[c].page.events, Applied(hands[c]))
    BY <1>1, <1>2, AppliedFits DEF IInv
  <1>4. seen \cup hands[c].page.events = seen
    BY <1>2
  <1>5. /\ saved' \in 0..MaxEvents /\ saved' \in 0..Len(log) /\ Covers(log, saved', seen)
    BY <1>3, <1>4 DEF Histories, StateFits
  <1>6. /\ h \in Hands /\ h.page = hands[c].page /\ h.pc = "announce"
    BY <1>1 DEF Hands
  <1>7. hands' = [hands EXCEPT ![c] = h]
    BY <1>1
  <1> HIDE DEF h
  <1>8. /\ hands' \in [Carriers -> Hands] /\ hands'[c] = h
        /\ \A d \in Carriers : d # c => hands'[d] = hands[d]
    BY <1>6, <1>7, HandChanges DEF IInv
  <1>9. Mine' = Mine
    BY DEF Mine
  <1>10. TypeOK'
    BY <1>5, <1>8, <1>9 DEF IInv, TypeOK
  <1>11. HistoryInv' /\ ReplayInv'
    BY <1>5 DEF IInv, HistoryInv, ReplayInv
  <1>12. HandInv'
    BY <1>2, <1>6, <1>8 DEF IInv, HandInv, HandFits
  <1>13. \A d \in Carriers : InHand(hands'[d]) = InHand(hands[d])
    BY <1>1, <1>6, <1>8 DEF InHand
  <1>14. WireInv'
    BY <1>13 DEF IInv, WireInv, Carriers
  <1> QED BY <1>10, <1>11, <1>12, <1>14 DEF IInv

LEMMA AnnounceKeeps ==
  ASSUME IInv, NEW c \in Carriers, Announce(c)
  PROVE  IInv'
  <1> USE DEF Announce, New, gateway
  <1>1. /\ hands \in [Carriers -> Hands] /\ hands[c] \in Hands /\ hands[c].pc = "announce"
        /\ hands[c].page.events \subseteq seen /\ NoPage \in Pages
    BY StreamAssumption
    DEF IInv, TypeOK, HandInv, HandFits, NoPage, Pages, StreamAssumption
  <1>2. NoHand \in Hands /\ NoHand.pc = "idle"
    BY <1>1, HandTypes
  <1>3. /\ hands' \in [Carriers -> Hands] /\ hands'[c] = NoHand
        /\ \A d \in Carriers : d # c => hands'[d] = hands[d]
    BY <1>2, HandChanges DEF IInv
  <1>4. Mine' = Mine
    BY DEF Mine
  <1>5. announced' \subseteq seen
    BY <1>1 DEF IInv, TypeOK
  <1>6. TypeOK'
    BY <1>3, <1>4, <1>5 DEF IInv, TypeOK
  <1>7. HistoryInv' /\ ReplayInv'
    BY DEF IInv, HistoryInv, ReplayInv
  <1>8. HandInv'
    BY <1>2, <1>3 DEF IInv, HandInv, HandFits
  <1>9. \A d \in Carriers : InHand(hands'[d]) = InHand(hands[d])
    BY <1>1, <1>2, <1>3 DEF InHand
  <1>10. WireInv'
    BY <1>9 DEF IInv, WireInv, Carriers
  <1> QED BY <1>6, <1>7, <1>8, <1>10 DEF IInv

\* With nothing below the first event to see, every part holds of a fresh process.
LEMMA CoversNothing ==
  ASSUME NEW lg, Len(lg) \in Nat, NEW S
  PROVE  Covers(lg, 0, S)
  BY DEF Covers

LEMMA RestartKeeps ==
  ASSUME IInv, Restart
  PROVE  IInv'
  <1> USE DEF Restart
  <1>1. /\ Len(log) \in Nat /\ NoPage \in Pages /\ 0 \in 0..MaxEvents /\ 0 \in 0..Len(log)
    BY Same, StreamAssumption DEF IInv, NoPage, Pages, StreamAssumption
  <1>2. NoHand \in Hands /\ NoHand.pc = "idle"
    BY <1>1, HandTypes
  <1>3. NoReplay \in Replays /\ ReplayFits(log, NoReplay) /\ NoReplay.pc = "idle"
    BY <1>1, AskedTypes DEF IInv, NoReplay
  <1>4. hands' \in [Carriers -> Hands] /\ replays' \in [Carriers -> Replays]
    BY <1>2, <1>3
  <1>5. saved \in 0..MaxEvents /\ saved \in 0..Len(log) /\ Covers(log, saved, seen)
    BY DEF IInv, TypeOK, HistoryInv
  <1>6. shown' = [cursor |-> saved, events |-> {}]
    BY DEF Empty
  <1>7. shown' \in Histories /\ shown'.events \subseteq seen /\ StateFits(log, seen, shown')
    <2>1. shown'.cursor = saved /\ shown'.events = {}
      BY <1>6
    <2>2. shown' \in Histories
      <3> HIDE DEF Restart
      <3>1. {} \in SUBSET Events
        OBVIOUS
      <3>2. [cursor |-> saved, events |-> {}] \in Histories
        BY <1>5, <3>1 DEF Histories
      <3> QED BY <1>6, <3>2
    <2>3. StateFits(log, seen, shown')
      BY <1>5, <2>1 DEF StateFits
    <2> QED BY <2>1, <2>2, <2>3
  <1>8. Mine' = Mine
    BY DEF Mine
  <1>9. restarts' \in 0..MaxRestarts
    BY StreamAssumption DEF IInv, TypeOK, StreamAssumption
  <1>10. TypeOK'
    BY <1>1, <1>4, <1>7, <1>8, <1>9 DEF IInv, TypeOK
  <1>11. HistoryInv'
    BY <1>5, <1>7 DEF HistoryInv
  <1>12. HandInv'
    BY <1>2 DEF HandInv, HandFits
  <1>13. ReplayInv'
    BY <1>3 DEF ReplayInv, PollFits, PumpFits, Carriers
  <1>14. WireInv'
    BY <1>1, CoversNothing DEF WireInv
  <1> QED BY <1>10, <1>11, <1>12, <1>13, <1>14 DEF IInv

LEMMA InitInv ==
  ASSUME Init
  PROVE  IInv
  <1> USE DEF Init
  <1>1. /\ log \in Seq(BOOLEAN) /\ Len(log) = 0 /\ 0 \in 0..MaxEvents /\ 0 \in 0..MaxRestarts
        /\ NoPage \in Pages
    BY StreamAssumption DEF StreamAssumption, NoPage, Pages
  <1>2. NoHand \in Hands /\ NoHand.pc = "idle" /\ Empty \in Histories
    BY <1>1, HandTypes
  <1>3. NoReplay \in Replays /\ ReplayFits(log, NoReplay) /\ NoReplay.pc = "idle"
    BY <1>1 DEF NoReplay, Replays, ReplayFits
  <1>4. Empty.cursor = 0 /\ Empty.events = {}
    BY DEF Empty
  <1>5. MaxEvents \in Nat
    BY StreamAssumption DEF StreamAssumption
  <1>6. TypeOK
    BY <1>1, <1>2, <1>3, <1>4, <1>5 DEF TypeOK
  <1>7. Covers(log, 0, seen) /\ Covers(log, 0, seen \cup wire \cup InHand(hands[Socket]))
    BY <1>1, CoversNothing
  <1>8. HistoryInv
    BY <1>1, <1>4, <1>7 DEF HistoryInv, StateFits
  <1>9. HandInv
    BY <1>2 DEF HandInv, HandFits
  <1>10. ReplayInv
    BY <1>3 DEF ReplayInv, PollFits, PumpFits, Carriers
  <1>11. WireInv
    BY <1>1, <1>7 DEF WireInv
  <1> QED BY <1>6, <1>8, <1>9, <1>10, <1>11 DEF IInv

-----------------------------------------------------------------------------
(* The theorems. *)

\* Wherever a step leaves the stream, the two cursors, the pages on their way and
\* the socket's pump are all behind what the device has seen and what it is about
\* to see: events/bus.py, session/api.py and VanEventStreamStore.kt together.
THEOREM StreamInvariant == Spec => []IInv
  <1>1. Init => IInv
    BY InitInv
  <1>2. IInv /\ [Next]_vars => IInv'
    <2> SUFFICES ASSUME IInv, [Next]_vars
                 PROVE  IInv'
      OBVIOUS
    <2>1. ASSUME NEW mine \in BOOLEAN, Publish(mine)
          PROVE  IInv'
      BY <2>1, PublishKeeps
    <2>2. CASE PollAsks
      BY <2>2, PollAsksKeeps
    <2>3. CASE PumpAsks
      BY <2>3, PumpAsksKeeps
    <2>4. ASSUME NEW c \in Carriers, ReadCeiling(c) \/ Apply(c)
          PROVE  IInv'
      BY <2>4, ReadCeilingKeeps, ReadStateKeeps, WriteStateKeeps, KeepStateKeeps,
         SaveCursorKeeps, AnnounceKeeps
      DEF Apply
    <2>5. CASE ReadRows
      BY <2>5, ReadRowsKeeps
    <2>6. CASE PumpRows
      BY <2>6, PumpRowsKeeps
    <2>7. CASE PollFails
      BY <2>7, PollFailsKeeps
    <2>8. CASE Unlink
      BY <2>8, UnlinkKeeps
    <2>9. CASE PollReceives
      BY <2>9, PollReceivesKeeps
    <2>10. CASE FrameArrives
      BY <2>10, FrameArrivesKeeps
    <2>11. CASE Restart
      BY <2>11, RestartKeeps
    <2>12. CASE UNCHANGED vars
      BY <2>12
      DEF vars, IInv, TypeOK, HistoryInv, HandInv, ReplayInv, WireInv, Mine
    <2> QED
      BY <2>1, <2>2, <2>3, <2>4, <2>5, <2>6, <2>7, <2>8, <2>9, <2>10, <2>11, <2>12 DEF Next
  <1> QED BY <1>1, <1>2, PTL DEF Spec

\* The types of the stream, and no event addressed to another device on the wire
\* or in the history (the target filter of bus.replay).
THEOREM StreamTypes == Spec => []TypeOK
  BY StreamInvariant, PTL DEF IInv

\* The device never moves past an event it was not shown, whatever the page size
\* and however the two carriers, lost replies and restarts interleave.
THEOREM NothingSkippedAlways == Spec => []NothingSkipped
  <1>1. IInv => NothingSkipped
    BY DEF IInv, HistoryInv, StateFits, Covers, NothingSkipped, Mine
  <1> QED BY <1>1, StreamInvariant, PTL

-----------------------------------------------------------------------------
(* What is shown is announced. *)

\* What the thread of a carrier has brought to the history and not announced yet.
Owes(hand) ==
  IF hand.pc \in {"save", "announce"} THEN hand.page.events \ hand.before.events ELSE {}

(***************************************************************************)
(* Every event in the device's history was announced to the producers, or a *)
(* thread that brought it there is about to: each carrier announces what    *)
(* was not in the state it read, and although both read and replace that    *)
(* state without a lock, none leaves an event to a carrier that left it to  *)
(* the first (VanEventStreamStore.apply; the safety EveryEventAnnounced     *)
(* rests on).                                                               *)
(***************************************************************************)
ShownIsAnnounced ==
  \A n \in shown.events : n \in announced \/ \E c \in Carriers : n \in Owes(hands[c])

\* The events of the history, and of the history as the threads have read it.
Known == shown.events \cup {n \in Events : \E c \in Carriers : n \in hands[c].before.events}

\* The same of what a thread has read; and a poll under way has no page in hand, so
\* that its failure drops none.
OwedInv ==
  /\ \A n \in Known : n \in announced \/ \E c \in Carriers : n \in Owes(hands[c])
  /\ replays[Poll].pc # "idle" => hands[Poll].pc = "idle"

LEMMA HandsMean ==
  ASSUME IInv, NEW c \in Carriers
  PROVE  /\ hands \in [Carriers -> Hands] /\ hands[c] \in Hands
         /\ hands[c].before.events \subseteq Known
         /\ replays \in [Carriers -> Replays]
         /\ Poll \in Carriers /\ Socket \in Carriers /\ Poll # Socket
  <1>1. hands \in [Carriers -> Hands] /\ hands[c] \in Hands /\ replays \in [Carriers -> Replays]
    BY DEF IInv, TypeOK
  <1>2. hands[c].before.events \subseteq Events
    BY <1>1 DEF Hands, Histories
  <1> QED BY <1>1, <1>2, StreamAssumption DEF Known, Carriers, StreamAssumption

\* A step of one thread: it reads nothing unknown, what it owed it announces or
\* still owes, and what it adds to the history it owes.
LEMMA ThreadStep ==
  ASSUME IInv, OwedInv, NEW c \in Carriers, NEW hand,
         hands' = [hands EXCEPT ![c] = hand],
         hand.before.events \subseteq Known,
         shown'.events \subseteq Known \cup Owes(hand),
         announced \subseteq announced',
         Owes(hands[c]) \subseteq announced' \cup Owes(hand),
         replays'[Poll].pc # "idle" => hands'[Poll].pc = "idle"
  PROVE  OwedInv'
  <1>0. hands \in [Carriers -> Hands]
    BY HandsMean
  <1>1. hands'[c] = hand /\ \A d \in Carriers : d # c => hands'[d] = hands[d]
    BY <1>0
  <1>2. ASSUME NEW n \in Known'
        PROVE  n \in Known \cup Owes(hand)
    <2>1. CASE n \in shown'.events
      BY <2>1
    <2>2. ASSUME NEW d \in Carriers, n \in hands'[d].before.events
          PROVE  n \in Known
      <3>1. CASE d = c
        BY <1>1, <2>2, <3>1
      <3>2. CASE d # c
        BY <1>1, <2>2, <3>2, HandsMean
      <3> QED BY <3>1, <3>2
    <2> QED BY <2>1, <2>2 DEF Known
  <1>3. ASSUME NEW d \in Carriers, NEW n \in Owes(hands[d])
        PROVE  n \in announced' \/ \E e \in Carriers : n \in Owes(hands'[e])
    BY <1>1, <1>3
  <1>4. ASSUME NEW n \in Known'
        PROVE  n \in announced' \/ \E d \in Carriers : n \in Owes(hands'[d])
    <2>1. CASE n \in Owes(hand)
      BY <1>1, <2>1
    <2>2. CASE n \in Known
      BY <1>3, <2>2 DEF OwedInv
    <2> QED BY <1>2, <2>1, <2>2
  <1> QED BY <1>4 DEF OwedInv, Owes

\* A page in idle hands.
LEMMA TakeOwes ==
  ASSUME IInv, OwedInv, NEW c \in Carriers, NEW page, Take(c, page),
         UNCHANGED <<shown, announced>>, replays'[Poll].pc # "idle" => hands'[Poll].pc = "idle"
  PROVE  OwedInv'
  <1> DEFINE hand == [NoHand EXCEPT !.pc = "page", !.page = page]
  <1>1. hand.before.events = {} /\ hand.pc = "page"
    BY DEF NoHand, Empty
  <1>2. hands' = [hands EXCEPT ![c] = hand] /\ hands[c].pc = "idle"
    BY DEF Take
  <1>3. Owes(hands[c]) = {} /\ shown.events \subseteq Known
    BY <1>2 DEF Owes, Known
  <1> HIDE DEF hand
  <1> QED BY <1>1, <1>2, <1>3, ThreadStep

LEMMA PollFailsOwes ==
  ASSUME IInv, OwedInv, PollFails
  PROVE  OwedInv'
  <1> DEFINE hand == [NoHand EXCEPT !.pc = "fail"]
  <1>0. Poll \in Carriers /\ replays \in [Carriers -> Replays]
    BY HandsMean DEF Carriers
  <1>1. hand.before.events = {}
    BY DEF NoHand, Empty
  <1>2. hands' = [hands EXCEPT ![Poll] = hand] /\ UNCHANGED <<shown, announced>>
    BY DEF PollFails
  <1>3. Owes(hands[Poll]) = {} /\ shown.events \subseteq Known
    BY DEF PollFails, OwedInv, Owes, Known
  <1>4. replays'[Poll].pc = "idle"
    BY <1>0 DEF PollFails, NoReplay
  <1> HIDE DEF hand
  <1> QED BY <1>0, <1>1, <1>2, <1>3, <1>4, ThreadStep

\* The statements of apply and fail.
LEMMA ApplyOwes ==
  ASSUME IInv, OwedInv, NEW c \in Carriers, Apply(c)
  PROVE  OwedInv'
  <1>0. /\ hands \in [Carriers -> Hands] /\ hands[c] \in Hands
        /\ hands[c].before.events \subseteq Known /\ shown.events \subseteq Known
        /\ shown \in Histories /\ replays' = replays
    BY HandsMean DEF Known, IInv, TypeOK, Apply, ReadState, WriteState, KeepState, SaveCursor,
       Announce, gateway
  <1>1. ASSUME NEW hand, hands' = [hands EXCEPT ![c] = hand]
        PROVE  replays'[Poll].pc # "idle" => hands'[Poll].pc = "idle"
    <2>1. hands[c].pc # "idle"
      BY DEF Apply, ReadState, WriteState, KeepState, SaveCursor, Announce
    <2> QED BY <1>0, <1>1, <2>1 DEF OwedInv
  <1>2. NoHand.before.events = {} /\ Owes(NoHand) = {}
    BY DEF NoHand, Empty, Owes
  <1>3. CASE ReadState(c)
    <2> DEFINE hand == [hands[c] EXCEPT !.pc = IF @ = "page" THEN "write" ELSE "keep",
                                        !.before = shown]
    <2>1. hand.before = shown /\ hand.pc \in {"write", "keep"}
      BY <1>0 DEF Hands
    <2>2. hands' = [hands EXCEPT ![c] = hand]
      BY <1>0, <1>3 DEF ReadState
    <2>3. Owes(hands[c]) = {} /\ UNCHANGED <<shown, announced>>
      BY <1>3 DEF ReadState, Owes
    <2> HIDE DEF hand
    <2> QED BY <1>0, <1>1, <2>1, <2>2, <2>3, ThreadStep
  <1>4. CASE WriteState(c)
    <2> DEFINE hand == [hands[c] EXCEPT !.pc = "save"]
    <2>1. hand.pc = "save" /\ hand.before = hands[c].before /\ hand.page = hands[c].page
      BY <1>0 DEF Hands
    <2>2. hands' = [hands EXCEPT ![c] = hand] /\ UNCHANGED announced
      BY <1>0, <1>4 DEF WriteState
    <2>3. Owes(hands[c]) = {} /\ Owes(hand) = hands[c].page.events \ hands[c].before.events
      BY <1>4, <2>1 DEF WriteState, Owes
    <2>4. shown'.events \subseteq hands[c].before.events \cup hands[c].page.events
      BY <1>4 DEF WriteState, Applied, Newest
    <2> HIDE DEF hand
    <2>5. hand.before.events \subseteq Known /\ shown'.events \subseteq Known \cup Owes(hand)
      BY <1>0, <2>1, <2>3, <2>4
    <2> QED BY <1>1, <2>2, <2>3, <2>5, ThreadStep
  <1>5. CASE KeepState(c)
    <2>1. /\ hands' = [hands EXCEPT ![c] = NoHand] /\ shown' = hands[c].before
          /\ UNCHANGED announced /\ Owes(hands[c]) = {}
      BY <1>5 DEF KeepState, Owes
    <2> QED BY <1>0, <1>1, <1>2, <2>1, ThreadStep
  <1>6. CASE SaveCursor(c)
    <2> DEFINE hand == [hands[c] EXCEPT !.pc = "announce"]
    <2>1. hand.pc = "announce" /\ hand.before = hands[c].before /\ hand.page = hands[c].page
      BY <1>0 DEF Hands
    <2>2. hands' = [hands EXCEPT ![c] = hand] /\ UNCHANGED <<shown, announced>>
      BY <1>0, <1>6 DEF SaveCursor
    <2>3. Owes(hands[c]) = Owes(hand)
      BY <1>6, <2>1 DEF SaveCursor, Owes
    <2> HIDE DEF hand
    <2> QED BY <1>0, <1>1, <2>1, <2>2, <2>3, ThreadStep
  <1>7. CASE Announce(c)
    <2>1. /\ hands' = [hands EXCEPT ![c] = NoHand] /\ UNCHANGED shown
          /\ announced' = announced \cup Owes(hands[c])
      BY <1>7 DEF Announce, New, Owes
    <2> QED BY <1>0, <1>1, <1>2, <2>1, ThreadStep
  <1> QED BY <1>3, <1>4, <1>5, <1>6, <1>7 DEF Apply

\* The steps at the gateway: only the poll's own request starts while no page is in hand.
LEMMA GatewayOwes ==
  ASSUME IInv, OwedInv, UNCHANGED <<hands, shown, announced>>,
         replays'[Poll].pc # "idle" => replays[Poll].pc # "idle" \/ hands[Poll].pc = "idle"
  PROVE  OwedInv'
  BY DEF OwedInv, Known

\* One step of OwedInv for every action.
LEMMA OwedStep ==
  ASSUME IInv, OwedInv, [Next]_vars
  PROVE  OwedInv'
  <1>0. Poll \in Carriers /\ Socket \in Carriers /\ Poll # Socket /\ replays \in [Carriers -> Replays]
    BY HandsMean, StreamAssumption DEF Carriers, StreamAssumption
  <1>1. CASE (\E mine \in BOOLEAN : Publish(mine)) \/ PollAsks \/ PumpAsks
    BY <1>0, <1>1, GatewayOwes DEF Publish, PollAsks, PumpAsks, Ask, device
  <1>2. ASSUME NEW c \in Carriers, ReadCeiling(c)
        PROVE  OwedInv'
    <2>1. replays'[Poll].pc # "idle" => replays[Poll].pc # "idle"
      BY <1>0, <1>2 DEF ReadCeiling
    <2> QED BY <1>2, <2>1, GatewayOwes DEF ReadCeiling, device
  <1>3. CASE ReadRows \/ PumpRows \/ Unlink
    <2>1. replays'[Poll].pc # "idle" => replays[Poll].pc # "idle"
      BY <1>0, <1>3 DEF ReadRows, PumpRows, Unlink
    <2> QED BY <1>3, <2>1, GatewayOwes DEF ReadRows, PumpRows, Unlink, device
  <1>4. CASE PollReceives
    <2>1. replays'[Poll].pc = "idle"
      BY <1>0, <1>4 DEF PollReceives, NoReplay
    <2> QED BY <1>0, <1>4, <2>1, TakeOwes DEF PollReceives
  <1>5. CASE FrameArrives
    <2>1. hands'[Poll] = hands[Poll] /\ UNCHANGED replays
      BY <1>0, <1>5, HandsMean DEF FrameArrives, Take
    <2>2. replays'[Poll].pc # "idle" => hands'[Poll].pc = "idle"
      BY <2>1 DEF OwedInv
    <2> QED BY <1>0, <1>5, <2>2, TakeOwes DEF FrameArrives
  <1>6. CASE Restart
    <2>1. /\ shown'.events = {} /\ \A c \in Carriers : hands'[c].before.events = {}
          /\ replays'[Poll].pc = "idle"
      BY <1>0, <1>6 DEF Restart, NoHand, NoReplay, Empty
    <2>2. Known' = {}
      BY <2>1 DEF Known
    <2> QED BY <2>1, <2>2 DEF OwedInv
  <1>7. CASE UNCHANGED vars
    BY <1>7, GatewayOwes DEF vars
  <1> QED
    BY <1>1, <1>2, <1>3, <1>4, <1>5, <1>6, <1>7, ApplyOwes, PollFailsOwes DEF Next

\* In every state, whatever the carriers, lost replies and restarts interleave to.
THEOREM ShownIsAnnouncedAlways == Spec => []ShownIsAnnounced
  <1>1. Init => OwedInv
    BY StreamAssumption DEF Init, OwedInv, Known, NoHand, NoReplay, Empty, Carriers
  <1>2. IInv /\ OwedInv /\ [Next]_vars => OwedInv'
    BY OwedStep
  <1>3. OwedInv => ShownIsAnnounced
    BY DEF OwedInv, ShownIsAnnounced, Known
  <1> QED BY <1>1, <1>2, <1>3, StreamInvariant, PTL DEF Spec

-----------------------------------------------------------------------------
(* The stream keeps the promise of the feed. *)

\* Wherever the cursors of the next state stand, everything behind them was brought.
LEMMA NothingBehind ==
  ASSUME IInv', log' = log
  PROVE  /\ seen' \subseteq Mine /\ announced' \subseteq seen'
         /\ shown'.cursor \in 0..MaxEvents /\ Feed!Behind(shown'.cursor, seen')
         /\ saved' \in 0..MaxEvents /\ Feed!Behind(saved', seen')
  BY DEF IInv, TypeOK, Histories, HistoryInv, StateFits, Covers, Mine, Feed!Behind

\* A step that changes what the device has, or only the cursor it reads on from.
LEMMA HistoryMoves ==
  ASSUME IInv', seen \subseteq seen', UNCHANGED <<log, announced, saved>>
  PROVE  Feed!Next
  <1>1. seen' = seen \cup seen' /\ seen' \in SUBSET Mine /\ Mine' = Mine
    BY NothingBehind DEF Mine
  <1>2. Feed!Bring(seen', shown'.cursor)
    BY <1>1, NothingBehind DEF Feed!Bring
  <1> QED BY <1>1, <1>2, NothingBehind DEF Feed!Next

LEMMA PublishIsAhead ==
  ASSUME IInv, NEW mine \in BOOLEAN, Publish(mine)
  PROVE  Feed!Next \/ UNCHANGED Feed!fvars
  <1> DEFINE n == Len(log) + 1
  <1>1. /\ log \in Seq(BOOLEAN) /\ Len(log) \in Nat /\ Len(log) < MaxEvents /\ MaxEvents \in Nat
        /\ log' = Append(log, mine)
        /\ UNCHANGED <<shown, saved, seen, announced>>
    BY StreamAssumption DEF IInv, TypeOK, Publish, device, StreamAssumption
  <1>2. /\ Len(log') = n /\ log'[n] = mine
        /\ \A m \in 1..Len(log) : log'[m] = log[m]
    BY <1>1
  <1>3. Mine' = IF mine THEN Mine \cup {n} ELSE Mine
    BY <1>1, <1>2 DEF Mine
  <1>4. shown.cursor \in 0..Len(log) /\ saved \in 0..Len(log)
    BY DEF IInv, HistoryInv, StateFits
  <1>5. n \in 0..MaxEvents /\ n > shown.cursor /\ n > saved
    BY <1>1, <1>4
  <1> HIDE DEF n
  <1>6. CASE mine
    <2>1. Feed!Publish(n)
      BY <1>1, <1>3, <1>5, <1>6 DEF Feed!Publish
    <2> QED BY <1>5, <2>1 DEF Feed!Next
  <1>7. CASE ~mine
    BY <1>1, <1>3, <1>7 DEF Feed!fvars
  <1> QED BY <1>6, <1>7

\* The steps of the threads and of the process.
LEMMA DeviceKeepsPromise ==
  ASSUME IInv, IInv', (\E c \in Carriers : Apply(c)) \/ Restart
  PROVE  Feed!Next \/ UNCHANGED Feed!fvars
  <1>1. log' = log
    BY DEF Apply, ReadState, WriteState, KeepState, SaveCursor, Announce, Restart, gateway
  <1>2. Mine' = Mine
    BY <1>1 DEF Mine
  <1>3. ASSUME NEW c \in Carriers, ReadState(c)
        PROVE  UNCHANGED Feed!fvars
    BY <1>2, <1>3 DEF ReadState, Feed!fvars
  <1>4. ASSUME NEW c \in Carriers, WriteState(c) \/ KeepState(c)
        PROVE  Feed!Next
    BY <1>1, <1>4, HistoryMoves DEF WriteState, KeepState
  <1>5. ASSUME NEW c \in Carriers, SaveCursor(c)
        PROVE  Feed!Next
    <2>1. UNCHANGED <<shown, seen, announced>>
      BY <1>5 DEF SaveCursor
    <2>2. Feed!Save(saved')
      BY <1>1, <1>2, <2>1, NothingBehind DEF Feed!Save
    <2> QED BY <1>1, <2>2, NothingBehind DEF Feed!Next
  <1>6. ASSUME NEW c \in Carriers, Announce(c)
        PROVE  Feed!Next
    <2>1. UNCHANGED <<shown, seen, saved>> /\ announced \subseteq announced'
      BY <1>6 DEF Announce
    <2>2. announced' \in SUBSET seen /\ announced' = announced \cup announced'
      BY <1>1, <2>1, NothingBehind
    <2>3. Feed!Announce(announced')
      BY <1>2, <2>1, <2>2 DEF Feed!Announce
    <2> QED BY <1>1, <2>2, <2>3, NothingBehind DEF Feed!Next
  <1>7. CASE Restart
    BY <1>7, HistoryMoves DEF Restart
  <1> QED BY <1>3, <1>4, <1>5, <1>6, <1>7 DEF Apply

\* Every step of the stream is a step of the feed or leaves it as it is.
LEMMA StreamStep ==
  ASSUME IInv, IInv', [Next]_vars
  PROVE  [Feed!Next]_(Feed!fvars)
  <1>1. ASSUME UNCHANGED <<log, shown, saved, seen, announced>>
        PROVE  UNCHANGED Feed!fvars
    BY <1>1 DEF Feed!fvars, Mine
  <1>2. ASSUME PollAsks \/ PumpAsks \/ (\E c \in Carriers : ReadCeiling(c)) \/ ReadRows \/ PumpRows
                 \/ Unlink \/ UNCHANGED vars
        PROVE  UNCHANGED Feed!fvars
    BY <1>1, <1>2 DEF PollAsks, PumpAsks, ReadCeiling, ReadRows, PumpRows, Unlink, device, vars
  <1>3. ASSUME PollReceives \/ PollFails \/ FrameArrives
        PROVE  UNCHANGED Feed!fvars
    BY <1>1, <1>3 DEF PollReceives, PollFails, FrameArrives
  <1> QED BY <1>2, <1>3, PublishIsAhead, DeviceKeepsPromise DEF Next

\* Whatever the carriers, cut pages, lost replies and restarts interleave to, and for
\* every page size and history, the device is given what the feed promises: it moves
\* past nothing it was not shown and announces only what was brought to it.
THEOREM StreamImplementsFeed == Spec => ImplementsFeed
  <1>1. Init => Feed!Init
    BY DEF Init, Feed!Init, Mine, Empty
  <1>2. IInv /\ IInv' /\ [Next]_vars => [Feed!Next]_(Feed!fvars)
    BY StreamStep
  <1> QED BY <1>1, <1>2, StreamInvariant, PTL DEF Spec, ImplementsFeed, Feed!Spec

=============================================================================
